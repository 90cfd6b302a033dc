SPECIFICATION Spec
CONSTANTS
    Ids = {1, 2, 3}
    Layouts <- TablesOfKeys
    r1 = r1
    r2 = r2
    s1 = s1
    s2 = s2
    Flags = {TRUE}
    Slugs = {s1, s2}
    Requests = {r1, r2}
    None = None
SYMMETRY Symmetry
INVARIANTS
    ResurrectsDeleted
    CascadeComplete
    TypeReleased
    AsAsked
    PageLinksOpen
