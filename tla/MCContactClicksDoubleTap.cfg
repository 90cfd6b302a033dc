\* One visitor who taps twice.
SPECIFICATION ClicksSpec
CONSTANTS
    Visitors = {v1}
    ClickIds = {c1, c2, c3}
    LeadIds = {1, 2}
    NoVisitor = NoVisitor
    MaxInterestHistory = 2
SYMMETRY Symmetry
PROPERTY NeverDuplicated
