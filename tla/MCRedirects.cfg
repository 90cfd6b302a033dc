\* Two workers, each with a request or a slug change, on three paths; a walk of
\* two hops; as many ids as rows and workers can hold at once.  Nobody switches a
\* redirect off here: MCRedirectsReactivate does, and on again.
SPECIFICATION Spec
CONSTANTS
    Paths = {A, B, C}
    Externals = {}
    Reserved = {}
    ContentPaths = {A, B, C}
    Admins = {a1, a2}
    Ids = {1, 2, 3, 4, 5}
    MaxChainDepth = 2
    ActiveInputs = {}
    NoPath = NoPath
INVARIANTS NoSelfRedirect FlatWhenIdle LoopFree
SYMMETRY Symmetry
