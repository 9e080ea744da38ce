\* Two mutations at once, of a superuser, an editor or nobody; loads during one.
SPECIFICATION MCSpec
CONSTANTS
    root = root
    editor = editor
    gr = gr
    r1 = r1
    r2 = r2
    gf = gf
    f1 = f1
    f2 = f2
    n1 = n1
    n2 = n2
    Calls = {c1, c2}
    Second = c2
    Users = {root, editor}
    Superuser = root
    Nobody = nobody
    Remotes = {gr, r1, r2}
    Refractions = {gf, f1, f2}
    GoRemote = gr
    GoRefraction = gf
    Names = {n1, n2}
    Absent = absent
    Tokens = {}
    Provisioned <- MCProvisioned
    FirstRemotes = {r1}
    FirstRefractions = {f1}
    FirstName <- MCFirstName
    TTL = 2
INVARIANTS
    TypeOK
    GoIsManaged
    DeletedIsGone
    CacheTypeOK
    StaleOnlyByChange
PROPERTIES
    AuthorityIsGiven
    OnlyPermitted
    EndsUpCurrent
\* Every mutation ends.
CHECK_DEADLOCK FALSE
