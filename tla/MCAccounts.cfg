SPECIFICATION Spec
CONSTANTS
    u1 = u1
    u2 = u2
    Users <- MCUsers
    FirstRank <- MCFirstRank
    RankInputs = {0, 2, 3}
    Googlers <- MCGooglers
    Inboxes <- MCInboxes
    Links = {1}
    Sessions = {1, 2}
    Requests = {r1, r2}
    MaxAttempts = 2
    AttemptsCap = 2
    NoUser = NoUser
SYMMETRY Symmetry
INVARIANTS RankBounded DisabledEndsSessions OneSessionPerProof LockedLinkOpensNothing
PROPERTIES ChangedByManagers HighestRankKept
