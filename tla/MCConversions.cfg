SPECIFICATION FairSpec
CONSTANTS
    Leads = {l1}
    Staff = {a1, a2}
    Retriers = {r1}
    Clicks = {c1}
    CountCap = 2
    NoLead = NoLead
INVARIANTS SyncedWasAnswered OnlyConversionsPushed PushPerConversion FailedPushRetriable
PROPERTY RetryEnds
