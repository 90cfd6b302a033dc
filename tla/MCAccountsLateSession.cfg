\* A manager disables an account that is signing in.
SPECIFICATION Spec
CONSTANTS
    u1 = u1
    u2 = u2
    Users <- MCUsers
    FirstRank <- MCFirstRank
    RankInputs = {0}
    Googlers <- MCUsers
    Inboxes <- MCInboxes
    Links = {}
    Sessions = {1, 2}
    Requests = {r1, r2}
    MaxAttempts = 2
    AttemptsCap = 2
    NoUser = NoUser
PROPERTY DisabledOpensNothing
