\* Three remotes that answer with any of five statuses, a hit or an opaque error.
SPECIFICATION FairSpec
CONSTANTS
    Remotes = {r1, r2, r3}
    Statuses <- FiveStatuses
INVARIANTS
    TypeOK
    Accounting
    NoFalseNotFound
    ReportsMostInformative
PROPERTIES
    NeverLessInformative
    Implements
    LeaksBounded
\* A call ends.
CHECK_DEADLOCK FALSE
