\* Every configuration and every fault, on files of every kind.
SPECIFICATION Spec
CONSTANTS
    t1 = t1
    u1 = u1
    Requests = {r1, r2}
    Paths = {"file", "page", "secret"}
    Cacheable = {"file", "secret"}
    Blocked = {"secret"}
    Relocated = {"file"}
    Tokens <- OneToken
    Users <- OneUser
    UserOf <- OneOwner
    DirectToken = "direct"
    NoToken = "no token"
    Clients <- OneClient
    AuthHeaders = {"Job-Token"}
    Configs <- EveryConfig
    Parts = 2
    Faults = {"gitlab", "head", "get", "put", "remote", "body", "record"}
SYMMETRY Symmetry
INVARIANTS
    TypeOK
    CacheServesWhole
    DeliveriesRecorded
    TrafficReported
    SentOnlyAllowed
    NoForeignContent
\* Every call ends.
CHECK_DEADLOCK FALSE
