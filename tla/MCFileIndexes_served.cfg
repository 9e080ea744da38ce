\* Two Helm repositories with the same chart; two pages with a shared remote.
SPECIFICATION Spec
CONSTANTS
    m1 = m1
    m2 = m2
    x = x
    y = y
    r1 = r1
    r2 = r2
    Files = {x, y}
    Remotes = {m1, m2}
    Nowhere = nowhere
    Workers = {w1, w2}
    HelmRemotes = {m1, m2}
    FirstRemotes = {m1}
    Catalogue <- OverlappingCatalogue
    MaxWaiting = 0
    MaxFaults = 1
    Pages = {p1, p2}
    Refractions = {r1, r2}
    RemotesOf <- SharedRemotes
    Listings = {{x}, {x, y}}
INVARIANTS
    TypeOK
    PagesAreComplete
    LinksResolve
PROPERTIES
    ChartsEndUpServed
\* The pages end.
CHECK_DEADLOCK FALSE
