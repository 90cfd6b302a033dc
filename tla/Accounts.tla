------------------------------ MODULE Accounts ------------------------------
(***************************************************************************)
(* internal/auth: users sign in with Google or with an emailed link or     *)
(* code, refresh and end their sessions, edit their profile, and managers  *)
(* change the role and status of others.                                   *)
(*                                                                         *)
(* Nothing here runs in a transaction: each statement commits on its own,  *)
(* users are read, changed in memory and written back whole (UPDATE users  *)
(* SET role, status, ... WHERE id), and requests interleave in between.    *)
(* An account is its email; changes of the email are left out.             *)
(***************************************************************************)
EXTENDS Naturals

CONSTANTS
    Users,
    FirstRank,    \* the rank of an account when made: ADMIN_EMAILS, or member
    RankInputs,   \* ranks that managers ask for
    Googlers,     \* users with a Google account
    Inboxes,      \* users who have links sent
    Links,        \* numbers of emailed links, in the order they are sent
    Sessions,     \* numbers of sessions, in the order they are opened
    Requests,     \* requests in flight
    MaxAttempts,  \* magicLinkMaxAttempts
    AttemptsCap,  \* where the count of wrong codes stops
    NoUser

\* roleRank: member 0, user 1, admin 2, super_admin 3.
Ranks == 0..3
AdminRank == 2

ASSUME UsersAssumption == FirstRank \in [Users -> Ranks] /\ NoUser \notin Users
ASSUME WaysAssumption == Googlers \subseteq Users /\ Inboxes \subseteq Users
ASSUME RankInputsAssumption == RankInputs \subseteq Ranks
ASSUME NumbersAssumption == Links \subseteq Nat \ {0} /\ Sessions \subseteq Nat \ {0}
ASSUME AttemptsAssumption == MaxAttempts \in Nat \ {0} /\ AttemptsCap \in Nat

VARIABLES
    user,     \* the users table
    link,     \* verification_tokens: an expired one counts as spent
    session,  \* sessions: an expired one counts as ended
    managers, \* users with an unexpired access token of an admin rank
    req,      \* what each request holds
    crossed   \* users that two requests held at once, or whose request stopped
              \* short of the statement that ends a link or the sessions (history)

vars == <<user, link, session, managers, req, crossed>>

Row == [made : BOOLEAN, rank : Ranks, active : BOOLEAN]
NoRow == [made |-> FALSE, rank |-> 0, active |-> FALSE]
NewRow(u) == [made |-> TRUE, rank |-> FirstRank[u], active |-> TRUE]

Link == [state : {"unsent", "live", "spent"}, to : Users \cup {NoUser}, attempts : Nat]

\* What a session was opened with: a link, a session's refresh token, or Google.
Proofs == {<<"google", 0>>} \cup ({"link"} \X Links) \cup ({"session"} \X Sessions)
Google == <<"google", 0>>

\* A session is "open" from its INSERT, and "known" once the client has its
\* refresh token.
Session == [state : {"unused", "open", "known", "ended"}, of : Users \cup {NoUser},
            via : Proofs]

\* `copy` is the User entity in memory, `opened` the session made, `by` the
\* manager who acts on `of` and `rank` theirs, `ends` that the write disables.
Request == [pc : {"idle", "count", "lock", "consume", "resolve", "create", "sync",
                  "load", "rotate", "open", "record", "target", "write", "cutoff"},
            of : Users \cup {NoUser}, by : Users \cup {NoUser}, rank : Ranks, copy : Row,
            proof : Proofs, opened : Sessions \cup {0}, ends : BOOLEAN]
Idle == [pc |-> "idle", of |-> NoUser, by |-> NoUser, rank |-> 0, copy |-> NoRow,
         proof |-> Google, opened |-> 0, ends |-> FALSE]

Live(l) == link[l].state = "live"
Running(s) == session[s].state \in {"open", "known"}
Unused(s) == session[s].state = "unused"

Held(u) == \E r \in Requests : u \in {req[r].of, req[r].by}

Begin(r, q) ==
    /\ req[r] = Idle
    /\ req' = [req EXCEPT ![r] = q]
    /\ crossed' = crossed \cup {u \in {q.of, q.by} \ {NoUser} : Held(u)}

Goto(r, q) == req' = [req EXCEPT ![r] = q] /\ UNCHANGED crossed
Finish(r) == Goto(r, Idle)

-----------------------------------------------------------------------------
\* Some accounts exist: seeded, or from earlier.
Init ==
    /\ \E S \in SUBSET Users : user = [u \in Users |-> IF u \in S THEN NewRow(u) ELSE NoRow]
    /\ link = [l \in Links |-> [state |-> "unsent", to |-> NoUser, attempts |-> 0]]
    /\ session = [s \in Sessions |-> [state |-> "unused", of |-> NoUser, via |-> Google]]
    /\ managers = {}
    /\ req = [r \in Requests |-> Idle]
    /\ crossed = {}

\* RequestMagicLink, whether or not the email then goes out.
RequestLink(l, u) ==
    /\ link[l].state = "unsent"
    /\ \A m \in Links : m < l => link[m].state # "unsent"
    /\ link' = [link EXCEPT ![l] = [state |-> "live", to |-> u, attempts |-> 0]]
    /\ UNCHANGED <<user, session, managers, req, crossed>>

ExpireLink(l) ==
    /\ Live(l)
    /\ link' = [link EXCEPT ![l].state = "spent"]
    /\ UNCHANGED <<user, session, managers, req, crossed>>

\* VerifyMagicLinkByToken up to IsUsable.
OpenLink(r, l) ==
    /\ Live(l)
    /\ Begin(r, [Idle EXCEPT !.pc = "consume", !.of = link[l].to, !.proof = <<"link", l>>])
    /\ UNCHANGED <<user, link, session, managers>>

\* VerifyMagicLinkByCode: the code is compared with the newest live link's.
Latest(u) == {l \in Links : /\ Live(l) /\ link[l].to = u
                            /\ \A m \in Links : Live(m) /\ link[m].to = u => m <= l}

EnterCode(r, u, right) ==
    /\ \E l \in Latest(u) :
         Begin(r, [Idle EXCEPT !.pc = IF right THEN "consume" ELSE "count", !.of = u,
                               !.proof = <<"link", l>>])
    /\ UNCHANGED <<user, link, session, managers>>

\* IncrementAttempts returns the new count ...
LocksLate(n) == n > MaxAttempts
Locks(n) == n >= MaxAttempts

Bump(n) == IF n < AttemptsCap THEN n + 1 ELSE n

CountWrongCode(r) ==
    LET l == req[r].proof[2] IN
      /\ req[r].pc = "count"
      /\ link' = [link EXCEPT ![l].attempts = Bump(@)]
      /\ Goto(r, IF Locks(link'[l].attempts) THEN [req[r] EXCEPT !.pc = "lock"] ELSE Idle)
      /\ UNCHANGED <<user, session, managers>>

\* ... and MarkConsumed follows when it is too high.
LockLink(r) ==
    /\ req[r].pc = "lock"
    /\ link' = [link EXCEPT ![req[r].proof[2]].state = "spent"]
    /\ Finish(r)
    /\ UNCHANGED <<user, session, managers>>

\* completeMagicLinkLogin: MarkConsumed, whatever became of the link meanwhile.
ConsumeLate(r) ==
    /\ req[r].pc = "consume"
    /\ Goto(r, [req[r] EXCEPT !.pc = "resolve"])
    /\ UNCHANGED <<user, link, session, managers>>
Consume(r) ==
    /\ req[r].pc = "consume"
    /\ link' = [link EXCEPT ![req[r].proof[2]].state = "spent"]
    /\ Goto(r, [req[r] EXCEPT !.pc = "resolve"])
    /\ UNCHANGED <<user, session, managers>>

\* GoogleLogin after the exchange of the code.
SignInGoogle(r, u) ==
    /\ Begin(r, [Idle EXCEPT !.pc = "resolve", !.of = u])
    /\ UNCHANGED <<user, link, session, managers>>

-----------------------------------------------------------------------------
\* finishLogin and RefreshToken go on only for an active account.
AnyAccount(row) == TRUE
MayOpen(row) == row.active

OpenNext(q) == IF MayOpen(q.copy) THEN [q EXCEPT !.pc = "open"] ELSE Idle

\* resolveOAuthUser: an existing account, its role as stored.
FoundAnew(u) == [user[u] EXCEPT !.rank = FirstRank[u]]
Found(u) == user[u]

\* Google may have a new picture or name for it.
ResolveUser(r, refreshed) ==
    LET q == [req[r] EXCEPT !.copy = Found(req[r].of)] IN
      /\ req[r].pc = "resolve"
      /\ user[req[r].of].made
      /\ refreshed => req[r].proof = Google
      /\ Goto(r, IF refreshed THEN [q EXCEPT !.pc = "sync"] ELSE OpenNext(q))
      /\ UNCHANGED <<user, link, session, managers>>

OpenUncreated(r) ==
    /\ req[r].pc = "resolve"
    /\ ~user[req[r].of].made
    /\ Goto(r, [req[r] EXCEPT !.pc = "open"])
    /\ UNCHANGED <<user, link, session, managers>>
ResolveNobody(r) ==
    /\ req[r].pc = "resolve"
    /\ ~user[req[r].of].made
    /\ Goto(r, [req[r] EXCEPT !.pc = "create"])
    /\ UNCHANGED <<user, link, session, managers>>

\* syncGoogleProfile writes the whole row.
SyncProfile(r) ==
    /\ req[r].pc = "sync"
    /\ user' = [user EXCEPT ![req[r].of] = req[r].copy]
    /\ Goto(r, OpenNext(req[r]))
    /\ UNCHANGED <<link, session, managers>>

\* The INSERT, which users.email UNIQUE rejects if somebody was faster.
CreateAccount(r) ==
    LET u == req[r].of IN
      /\ req[r].pc = "create"
      /\ IF user[u].made
         THEN Finish(r) /\ UNCHANGED user
         ELSE /\ user' = [user EXCEPT ![u] = NewRow(u)]
              /\ Goto(r, [req[r] EXCEPT !.pc = "open", !.copy = NewRow(u)])
      /\ UNCHANGED <<link, session, managers>>

\* The client gets the two tokens or not; the access token carries the role in
\* memory.
Answer(r, delivered) ==
    /\ managers' = IF delivered /\ req[r].copy.rank >= AdminRank
                   THEN managers \cup {req[r].of} ELSE managers
    /\ Finish(r)

\* sessionRepo.Create: a login then records itself, a refresh answers.
OpenSession(r, s, delivered) ==
    LET q == req[r]
        refreshes == q.proof[1] = "session"
    IN  /\ q.pc = "open"
        /\ Unused(s)
        /\ \A t \in Sessions : t < s => ~Unused(t)
        /\ session' = [session EXCEPT ![s] = [state |-> IF refreshes /\ delivered THEN "known" ELSE "open",
                                              of |-> q.of, via |-> q.proof]]
        /\ IF refreshes THEN Answer(r, delivered)
           ELSE Goto(r, [q EXCEPT !.pc = "record", !.proof = Google, !.opened = s]) /\ UNCHANGED managers
        /\ UNCHANGED <<user, link>>

\* RecordLogin: last_login_at, with the rest of the row as it was read.
RecordLogin(r, delivered) ==
    LET q == req[r] IN
      /\ q.pc = "record"
      /\ user' = [user EXCEPT ![q.of] = q.copy]
      /\ session' = [session EXCEPT ![q.opened].state =
                       IF delivered /\ @ = "open" THEN "known" ELSE @]
      /\ Answer(r, delivered)
      /\ UNCHANGED link

\* RefreshToken: the session is valid ...
StartRefresh(r, s) ==
    /\ session[s].state = "known"
    /\ Begin(r, [Idle EXCEPT !.pc = "load", !.of = session[s].of, !.proof = <<"session", s>>])
    /\ UNCHANGED <<user, link, session, managers>>

\* ... its user is read ...
LoadUser(r) ==
    LET u == req[r].of IN
      /\ req[r].pc = "load"
      /\ Goto(r, IF MayOpen(user[u]) THEN [req[r] EXCEPT !.pc = "rotate", !.copy = user[u]] ELSE Idle)
      /\ UNCHANGED <<user, link, session, managers>>

\* ... and it is revoked, if it still was valid or not, before the new one.
Rotate(r) ==
    /\ req[r].pc = "rotate"
    /\ session' = [session EXCEPT ![req[r].proof[2]].state = "ended"]
    /\ Goto(r, [req[r] EXCEPT !.pc = "open"])
    /\ UNCHANGED <<user, link, managers>>

\* Logout, or the refresh token expires.
EndSession(s) ==
    /\ Running(s)
    /\ session' = [session EXCEPT ![s].state = "ended"]
    /\ UNCHANGED <<user, link, managers, req, crossed>>

ExpireAccess(u) ==
    /\ u \in managers
    /\ managers' = managers \ {u}
    /\ UNCHANGED <<user, link, session, req, crossed>>

-----------------------------------------------------------------------------
StartManageAny(r, a, u) ==
    /\ a \in managers
    /\ user[u].made
    /\ Begin(r, [Idle EXCEPT !.pc = "target", !.of = u, !.by = a, !.rank = user[a].rank])
    /\ UNCHANGED <<user, link, session, managers>>

\* UpdateUser: the acting account is read first (but not whether it is active).
StartManage(r, a, u) ==
    /\ a \in managers
    /\ a # u
    /\ user[u].made
    /\ Begin(r, [Idle EXCEPT !.pc = "target", !.of = u, !.by = a, !.rank = user[a].rank])
    /\ UNCHANGED <<user, link, session, managers>>

CanManageUser(actor, target) == actor >= target
ManagersGrant(actor, rank) == actor >= AdminRank
CanGrantRole(actor, rank) == actor >= AdminRank /\ actor >= rank

\* The target is read; its rank, and the rank asked for, are within the actor's.
\* `rank` is a set with the new rank or none, `active` one with the new status.
ReadTarget(r, rank, active) ==
    LET q == req[r]
        target == user[q.of]
    IN  /\ q.pc = "target"
        /\ IF /\ CanManageUser(q.rank, target.rank)
              /\ \A n \in rank : CanGrantRole(q.rank, n)
           THEN Goto(r, [q EXCEPT !.pc = "write", !.rank = 0, !.ends = active = {FALSE},
                            !.copy = [made |-> TRUE,
                                      rank |-> IF rank = {} THEN target.rank ELSE CHOOSE n \in rank : TRUE,
                                      active |-> IF active = {} THEN target.active ELSE active = {TRUE}]])
           ELSE Finish(r)
        /\ UNCHANGED <<user, link, session, managers>>

\* UpdateProfile: the name and picture of one's own account.
StartProfile(r, u) ==
    /\ user[u].made
    /\ Begin(r, [Idle EXCEPT !.pc = "write", !.of = u, !.copy = user[u]])
    /\ UNCHANGED <<user, link, session, managers>>

\* userRepo.Update of UpdateUser and UpdateProfile: the whole row.
WriteUser(r) ==
    /\ req[r].pc = "write"
    /\ user' = [user EXCEPT ![req[r].of] = req[r].copy]
    /\ Goto(r, IF req[r].ends
               THEN [req[r] EXCEPT !.pc = "cutoff", !.copy = NoRow, !.ends = FALSE] ELSE Idle)
    /\ UNCHANGED <<link, session, managers>>

\* RevokeAllByUserID.
Ended(row) == [row EXCEPT !.state = "ended"]
CutOff(r) ==
    /\ req[r].pc = "cutoff"
    /\ session' = [s \in Sessions |->
                     IF Running(s) /\ session[s].of = req[r].of THEN Ended(session[s])
                     ELSE session[s]]
    /\ Finish(r)
    /\ UNCHANGED <<user, link, managers>>

\* A statement fails, the answer is lost, or the server stops.
Abandon(r) ==
    /\ req[r] # Idle
    /\ req' = [req EXCEPT ![r] = Idle]
    /\ crossed' = IF req[r].pc \in {"lock", "cutoff"} THEN crossed \cup {req[r].of} ELSE crossed
    /\ UNCHANGED <<user, link, session, managers>>

-----------------------------------------------------------------------------
SignIn(r) ==
    \/ CountWrongCode(r)
    \/ LockLink(r)
    \/ Consume(r)
    \/ \E refreshed \in BOOLEAN : ResolveUser(r, refreshed)
    \/ ResolveNobody(r)
    \/ SyncProfile(r)
    \/ CreateAccount(r)
    \/ \E delivered \in BOOLEAN :
         RecordLogin(r, delivered) \/ \E s \in Sessions : OpenSession(r, s, delivered)

Refresh(r) == LoadUser(r) \/ Rotate(r)

Manage(r) ==
    \/ \E rank \in {{}} \cup {{n} : n \in RankInputs}, active \in {{}, {TRUE}, {FALSE}} :
         ReadTarget(r, rank, active)
    \/ WriteUser(r)
    \/ CutOff(r)

Arrive(r) ==
    \/ \E l \in Links : OpenLink(r, l)
    \/ \E u \in Users, right \in BOOLEAN : EnterCode(r, u, right)
    \/ \E u \in Googlers : SignInGoogle(r, u)
    \/ \E u \in Users : StartProfile(r, u)
    \/ \E s \in Sessions : StartRefresh(r, s)
    \/ \E a, u \in Users : StartManage(r, a, u)

Next ==
    \/ \E l \in Links : ExpireLink(l) \/ \E u \in Inboxes : RequestLink(l, u)
    \/ \E s \in Sessions : EndSession(s)
    \/ \E u \in Users : ExpireAccess(u)
    \/ \E r \in Requests : Arrive(r) \/ SignIn(r) \/ Refresh(r) \/ Manage(r) \/ Abandon(r)

Spec == Init /\ [][Next]_vars

-----------------------------------------------------------------------------
\* Type correctness; a request past the resolution of its user holds its row.
TypeOK ==
    /\ user \in [Users -> Row]
    /\ link \in [Links -> Link]
    /\ session \in [Sessions -> Session]
    /\ managers \subseteq Users
    /\ req \in [Requests -> Request]
    /\ \A r \in Requests : req[r] # Idle => req[r].of \in Users
    /\ \A r \in Requests : req[r].pc \in {"sync", "rotate", "open", "record", "write"} =>
                             req[r].copy.made
    /\ crossed \subseteq Users

\* "nobody can grant a role higher than their own" (role.go:31): no sequence of
\* sign-ins, grants and late writes makes a rank above the highest that
\* accounts start with.
RankBounded == \A u \in Users : \E v \in Users : user[u].rank <= FirstRank[v]

\* "an existing account's role is only ever changed afterward by an admin via
\* UpdateUser" (oauth_user.go:15), and so is its status, of an account that is not
\* crossed.
ChangedByManagers ==
    [][\A u \in Users \ crossed' :
         user[u].made /\ user'[u] # user[u] =>
           \E r \in Requests : WriteUser(r) /\ req[r].of = u /\ req[r].by # NoUser]_vars

\* Nobody lowers the highest rank, alone or with others (update_user.go:18-19
\* "rule out both self-lockout and self-escalation"), as long as no account is
\* crossed: a sign-in beside a manager's request may write an old rank back, and
\* two managers may demote each other.
HighestRankKept ==
    [][crossed' = {} => \A u \in Users : \E v \in Users : user'[v].rank >= user[u].rank]_vars

\* RevokeAllByUserID does what it is for: no session of a disabled account can be
\* refreshed once the request that disables it is done, unless it overlapped
\* another request for that account or stopped short of it.
DisabledEndsSessions ==
    \A u \in Users \ crossed : user[u].made /\ ~user[u].active =>
        \/ \E r \in Requests : req[r].pc = "cutoff" /\ req[r].of = u
        \/ \A s \in Sessions : session[s].of = u => ~Running(s)

\* "Disabling an account should end its access immediately, not just at its next
\* access-token expiry" (update_user.go:68-69): no sign-in or refresh that is under
\* way opens a session for it, once its sessions are ended,
DisabledOpensNothing ==
    [][\A s \in Sessions :
         LET u == session'[s].of
         IN  Unused(s) /\ session'[s].state # "unused" =>
               \/ user[u].active
               \/ \E r \in Requests : req[r].pc = "cutoff" /\ req[r].of = u]_vars

\* and it manages nobody with the access token it still has.
DisabledManagesNothing ==
    [][\A r \in Requests : req[r] = Idle /\ req'[r].pc = "target" =>
         LET a == req'[r].by
         IN  user[a].active \/ \E s \in Sessions : session[s].of = a /\ Running(s)]_vars

\* A link, and a refresh token ("old one is revoked", refresh_token.go:11),
\* opens one session at most, wherever the requests that redeem it stop, if its
\* account is not crossed: two that overlap may both open one.
OneSessionPerProof ==
    \A s, t \in Sessions :
        /\ ~Unused(s) /\ ~Unused(t)
        /\ session[s].of \notin crossed
        /\ session[s].via = session[t].via /\ session[s].via # Google
        => s = t

\* A link that has seen MaxAttempts wrong codes signs nobody in, unless two
\* requests held its account at once (a right code was on its way) or one stopped
\* between counting the last wrong code and locking the link.
LockedLinkOpensNothing ==
    \A s \in Sessions, l \in Links :
        /\ ~Unused(s) /\ session[s].of \notin crossed
        /\ session[s].via = <<"link", l>>
        => link[l].attempts < MaxAttempts

\* "magicLinkMaxAttempts locks a magic link's token out after this many wrong code
\* guesses" (verify_magic_link.go:11-12), wherever requests stop.
LockedAfterMax ==
    \A s \in Sessions, l \in Links :
        ~Unused(s) /\ session[s].via = <<"link", l>> => link[l].attempts < MaxAttempts
=============================================================================
