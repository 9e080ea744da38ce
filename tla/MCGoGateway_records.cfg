\* Four requests for a version or a list, and the calls that record them.
SPECIFICATION GatewaySpec
CONSTANTS
    Calls = {c1, c2, c3, c4}
    Artifacts = {a1}
    Paths = {a1, list}
SYMMETRY Symmetry
INVARIANTS
    GatewayTypeOK
    NeverUndercounted
    ExactWhileUnique
    RecordsOnlyRequests
    OwnUnlessOvertaken
\* Every request ends.
CHECK_DEADLOCK FALSE
