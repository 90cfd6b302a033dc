SPECIFICATION Spec
CONSTANTS
    Leads = {l1}
    Staff = {a1}
    Retriers = {}
    Clicks = {}
    CountCap = 2
    NoLead = NoLead
INVARIANT PushedOnce
