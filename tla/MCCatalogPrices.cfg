\* Exact values up to two.
SPECIFICATION Spec
CONSTANTS
    c1 = c1
    c2 = c2
    b1 = b1
    b2 = b2
    power = power
    modes = modes
    mode = mode
    None = None
    Categories <- Cats
    Brands <- BrandSet
    Products = {p1, p2}
    Definitions <- Defs
    Code <- CodeOf
    DataType <- TypeOf
    Attachable <- Pairs
    MayRequire <- Required
    Forms <- FormSet
    Filters <- FilterSet
    Requests = {r1}
    ExactValueBucketThreshold = 2
    TargetRangeBucketCount = 2
    MaxExponent = 3
    Low <- LowRanges
    Short <- ShortOf
    Drift <- DriftAt
SYMMETRY Symmetry
INVARIANT FewPricesExact
