\* Three pages on four paths.
SPECIFICATION Spec
CONSTANTS
    Paths = {pa, pb, pc, pd}
    Externals = {}
    Contents = {c1, c2, c3}
    Nothing = Nothing
    NoPath = NoPath
    Ids = {1, 2, 3, 4}
SYMMETRY Symmetry
INVARIANTS OneHop LiveReachable
PROPERTY LinksKept
