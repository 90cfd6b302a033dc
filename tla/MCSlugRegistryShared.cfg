SPECIFICATION Spec
CONSTANTS
    e1 = e1
    e2 = e2
    e3 = e3
    kindA = kindA
    kindB = kindB
    Slugs = {s1, s2, s3}
    Kinds <- MCKinds
    Entities <- MCEntities
    Kind <- MCKind
    Txs = {t1, t2}
    Nobody = Nobody
    NoSlug = NoSlug

INVARIANT UniqueLiveSlugs
