\* Three remotes of which some answer 499, a client error, others 500.
SPECIFICATION Spec
CONSTANTS
    Remotes = {r1, r2, r3}
    Statuses <- ClosedByClient
INVARIANTS
    ReportsMostInformative
\* A call ends.
CHECK_DEADLOCK FALSE
