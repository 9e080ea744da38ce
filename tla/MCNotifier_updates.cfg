\* Two streams, of which one may lose its client, and every fault.
SPECIFICATION FairSpec
CONSTANTS
    s1 = s1
    s2 = s2
    Streams = {s1, s2}
    Leavers = {s1}
    MaxChanges <- Uneven
    Lossy = TRUE
    ReadsFail = TRUE
    RaceAborts = TRUE
INVARIANTS
    TypeOK
    NoneMissed
PROPERTIES
    NeverOlder
    EndsUpCurrent
\* The process may crash, and the rows stop changing.
CHECK_DEADLOCK FALSE
