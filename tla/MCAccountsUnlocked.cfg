\* One link, one request at a time.
SPECIFICATION Spec
CONSTANTS
    u1 = u1
    u2 = u2
    Users <- MCUsers
    FirstRank <- MCFirstRank
    RankInputs = {0}
    Googlers <- MCGooglers
    Inboxes <- MCInboxes
    Links = {1}
    Sessions = {1}
    Requests = {r1}
    MaxAttempts = 2
    AttemptsCap = 2
    NoUser = NoUser
INVARIANT LockedAfterMax
