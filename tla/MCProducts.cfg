SPECIFICATION Spec
CONSTANTS
    catA = catA
    catB = catB
    Products = {p1}
    Requests = {a1, a2}
    Categories <- MCCategories
    Attributes <- MCAttributes
    Applicable <- MCApplicable
    Required <- MCRequired
    Trees <- FewTrees
    NoPrice = NoPrice
SYMMETRY Symmetry
INVARIANTS PublishedWasApproved NotePublishedNever ValuesFit ListedByDefault PriceInRange
PROPERTY AlongWorkflow
