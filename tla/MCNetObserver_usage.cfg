\* Three calls: two that race for the first map of a type, one of another.
SPECIFICATION FairSpec
CONSTANTS
    Calls = {c1, c2, c3}
    Types = {inbound, outbound}
    Resources = {r1, r2}
    None = none
    WritesFail = TRUE
    Restarts = TRUE
INVARIANTS
    TypeOK
    CountedOnce
PROPERTIES
    EndsUpWritten
\* The flusher goes on for ever.
