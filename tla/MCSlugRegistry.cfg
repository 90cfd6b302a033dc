\* Two tables and three transactions.
SPECIFICATION Spec
CONSTANTS
    e1 = e1
    e2 = e2
    e3 = e3
    kindA = kindA
    kindB = kindB
    Slugs = {s1, s2, s3}
    Kinds <- MCKinds
    Entities <- MCEntities
    Kind <- MCKind
    Txs = {t1, t2, t3}
    Nobody = Nobody
    NoSlug = NoSlug
SYMMETRY Symmetry
INVARIANTS RegistrySound RegistryComplete
PROPERTY ImplementsDirectory
