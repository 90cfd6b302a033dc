\* Four clicks of two visitors.
SPECIFICATION ClicksSpec
CONSTANTS
    Visitors = {v1, v2}
    ClickIds = {c1, c2, c3, c4}
    LeadIds = {1, 2, 3, 4}
    NoVisitor = NoVisitor
    MaxInterestHistory = 2
SYMMETRY Symmetry
INVARIANTS LatestTouchLast TrailKept
PROPERTY NoDuplicateLead
