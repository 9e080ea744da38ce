\* Two requests at once, in refractions that share a remote, of which a remote may fail.
SPECIFICATION Spec
CONSTANTS
    f1 = f1
    f2 = f2
    m1 = m1
    m2 = m2
    v1 = v1
    v2 = v2
    Requests = {q1, q2}
    Versions = {v1, v2}
    Remotes = {m1, m2}
    Refractions = {f1, f2}
    FirstPublished <- Apart
    Publishers = {m1}
    RemotesOf <- SharedRemotes
    TTL = 1
    Faults = {"remote"}
SYMMETRY Symmetry
INVARIANTS
    TypeOK
    ServedIsGenuine
    OwnUnlessReplaced
