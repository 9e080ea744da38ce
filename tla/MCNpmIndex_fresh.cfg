\* One client keeps asking for a package of one remote; nothing fails.
SPECIFICATION FairSpec
CONSTANTS
    f1 = f1
    f2 = f2
    m1 = m1
    m2 = m2
    v1 = v1
    v2 = v2
    Requests = {q1}
    Versions = {v1, v2}
    Remotes = {m1}
    Refractions = {f1}
    FirstPublished <- FirstOnly
    Publishers = {m1}
    RemotesOf <- OneRemote
    TTL = 2
    Faults = {}
PROPERTIES
    NewVersionsSeen
