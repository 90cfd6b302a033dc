\* A redirect may be switched off and on again.
SPECIFICATION Spec
CONSTANTS
    Paths = {A, B, C}
    Externals = {}
    Reserved = {}
    ContentPaths = {}
    Admins = {a1}
    Ids = {1, 2, 3, 4}
    MaxChainDepth = 10
    ActiveInputs = {TRUE, FALSE}
    NoPath = NoPath
SYMMETRY PathSymmetry
INVARIANTS NeverCircular
