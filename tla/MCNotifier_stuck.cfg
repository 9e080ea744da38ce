\* A stream ends while the broadcaster is sending to it.
SPECIFICATION FairSpec
CONSTANTS
    s1 = s1
    s2 = s2
    Streams = {s1, s2}
    Leavers = {s1}
    MaxChanges <- Uneven
    Lossy = FALSE
    ReadsFail = FALSE
    RaceAborts = FALSE
PROPERTIES
    KeepsListening
\* The rows stop changing.
CHECK_DEADLOCK FALSE
