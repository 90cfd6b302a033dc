\* Two admins, one request at a time.
SPECIFICATION Spec
CONSTANTS
    u1 = u1
    u2 = u2
    Users <- MCUsers
    FirstRank <- MCTwoAdmins
    RankInputs = {0}
    Googlers <- MCUsers
    Inboxes <- MCUsers
    Links = {}
    Sessions = {1, 2}
    Requests = {r1}
    MaxAttempts = 2
    AttemptsCap = 2
    NoUser = NoUser
PROPERTY DisabledManagesNothing
