--------------------------- MODULE AccountsProofs ---------------------------
(***************************************************************************)
(* Accounts under any number of users, sessions, links and overlapping     *)
(* requests.                                                               *)
(*                                                                         *)
(* First the types, and that no rank is ever made above the ranks that     *)
(* accounts start with.  A row in memory may be written back at any later  *)
(* time, over whatever the table then holds, so the invariant says of the  *)
(* rows in memory, and of a manager's rank, what it says of the table.     *)
(*                                                                         *)
(* Then what holds of accounts that no two requests held at once: the      *)
(* request that holds one alone knows that nobody used its link or refresh *)
(* token, and that the row it read is the row stored.                      *)
(***************************************************************************)
EXTENDS Accounts, TLAPS

Bounded(n) == \E v \in Users : n <= FirstRank[v]

GoodRow(x) == x \in Row /\ (x.active => x.made) /\ Bounded(x.rank)

HoldsRow(q) == q.pc \in {"sync", "rotate", "open", "record", "write"}

GoodRequest(q) ==
    q = Idle \/ /\ q \in Request
                /\ q.of \in Users
                /\ GoodRow(q.copy)
                /\ Bounded(q.rank)
                /\ HoldsRow(q) => q.copy.made

UsersInv == user \in [Users -> Row] /\ \A u \in Users : GoodRow(user[u])
LinksInv == link \in [Links -> Link] /\ \A l \in Links : Live(l) => link[l].to \in Users
SessionsInv ==
    session \in [Sessions -> Session] /\ \A s \in Sessions : Running(s) => session[s].of \in Users
RequestsInv ==
    /\ req \in [Requests -> Request]
    /\ \A r \in Requests : GoodRequest(req[r])
    /\ crossed \subseteq Users

IInv == UsersInv /\ LinksInv /\ SessionsInv /\ managers \subseteq Users /\ RequestsInv

-----------------------------------------------------------------------------
LEMMA Numbers == /\ Ranks \subseteq Nat /\ FirstRank \in [Users -> Ranks] /\ AdminRank \in Nat
                 /\ MaxAttempts \in Nat /\ AttemptsCap \in Nat
                 /\ Links \subseteq Nat \ {0} /\ Sessions \subseteq Nat \ {0}
  BY UsersAssumption, NumbersAssumption, AttemptsAssumption DEF Ranks, AdminRank

LEMMA NewRowGood == ASSUME NEW u \in Users PROVE GoodRow(NewRow(u)) /\ GoodRow(NoRow) /\ Bounded(0)
  <1>1. FirstRank[u] \in Ranks /\ FirstRank[u] <= FirstRank[u] /\ 0 <= FirstRank[u] /\ 0 \in Ranks
    BY Numbers DEF Ranks
  <1>2. NewRow(u) \in Row /\ NewRow(u).active /\ NewRow(u).made /\ NewRow(u).rank = FirstRank[u]
    BY <1>1 DEF NewRow, Row
  <1>3. NoRow \in Row /\ ~NoRow.active /\ NoRow.rank = 0
    BY <1>1 DEF NoRow, Row
  <1> QED BY <1>1, <1>2, <1>3 DEF GoodRow, Bounded

LEMMA IdleTyped == Idle \in Request
  BY DEF Idle, Request, NoRow, Row, Ranks, Proofs, Google

\* A request becomes a good one.
LEMMA RequestTurns ==
    ASSUME RequestsInv, NEW r \in Requests, NEW q, GoodRequest(q),
           req' = [req EXCEPT ![r] = q], crossed' \subseteq Users
    PROVE  RequestsInv'
  <1>1. q \in Request
    BY IdleTyped DEF GoodRequest
  <1>2. req' \in [Requests -> Request]
    BY <1>1 DEF RequestsInv
  <1>3. ASSUME NEW x \in Requests PROVE GoodRequest(req'[x])
    BY DEF RequestsInv
  <1>4. ASSUME NEW x \in Requests PROVE GoodRequest(req[x])'
    BY <1>3 DEF GoodRequest, GoodRow, Bounded, HoldsRow
  <1> QED BY <1>2, <1>4 DEF RequestsInv

LEMMA RequestGoes ==
    ASSUME RequestsInv, NEW r \in Requests, NEW q, GoodRequest(q), Goto(r, q)
    PROVE  RequestsInv'
  BY RequestTurns DEF Goto, RequestsInv

LEMMA RequestEnds ==
    ASSUME RequestsInv, NEW r \in Requests, Finish(r)
    PROVE  RequestsInv'
  BY RequestGoes DEF Finish, GoodRequest

LEMMA RequestBegins ==
    ASSUME RequestsInv, NEW r \in Requests, NEW q, GoodRequest(q), q \in Request, Begin(r, q)
    PROVE  RequestsInv'
  <1>1. q.of \in Users \cup {NoUser} /\ q.by \in Users \cup {NoUser}
    BY DEF Request
  <1>2. crossed' \subseteq Users
    BY <1>1 DEF Begin, RequestsInv
  <1> QED BY <1>2, RequestTurns DEF Begin

\* The table takes a good row.
LEMMA RowWritten ==
    ASSUME UsersInv, NEW u, NEW x, GoodRow(x), user' = [user EXCEPT ![u] = x]
    PROVE  UsersInv'
  <1>1. user' \in [Users -> Row]
    BY DEF UsersInv, GoodRow
  <1>2. ASSUME NEW v \in Users PROVE GoodRow(user'[v])
    BY DEF UsersInv
  <1>3. ASSUME NEW v \in Users PROVE GoodRow(user[v])'
    BY <1>2 DEF GoodRow, Bounded
  <1> QED BY <1>1, <1>3 DEF UsersInv

LEMMA SessionEnds ==
    ASSUME SessionsInv, NEW s, session' = [session EXCEPT ![s].state = "ended"]
    PROVE  SessionsInv'
  <1>1. session' \in [Sessions -> Session]
    BY DEF SessionsInv, Session
  <1>2. ASSUME NEW t \in Sessions, Running(t)' PROVE session'[t].of \in Users
    BY <1>2 DEF SessionsInv, Session, Running
  <1> QED BY <1>1, <1>2 DEF SessionsInv

LEMMA LinkMoves ==
    ASSUME LinksInv, NEW l, link' = [link EXCEPT ![l].state = "spent"]
    PROVE  LinksInv'
  <1>1. link' \in [Links -> Link]
    BY DEF LinksInv, Link
  <1>2. ASSUME NEW m \in Links, Live(m)' PROVE link'[m].to \in Users
    BY <1>2 DEF LinksInv, Link, Live
  <1> QED BY <1>1, <1>2 DEF LinksInv

-----------------------------------------------------------------------------
\* A fresh request of u, at any stage that holds no row yet.
LEMMA FreshRequest ==
    ASSUME NEW u \in Users, NEW pc \in {"count", "consume", "resolve", "load"}, NEW proof \in Proofs
    PROVE  LET q == [Idle EXCEPT !.pc = pc, !.of = u, !.proof = proof]
           IN  q \in Request /\ GoodRequest(q)
  <1> DEFINE q == [Idle EXCEPT !.pc = pc, !.of = u, !.proof = proof]
  <1>1. q \in Request
    BY IdleTyped DEF Request, Idle
  <1>2. q.of = u /\ q.copy = NoRow /\ q.rank = 0 /\ q.pc = pc
    BY DEF Idle
  <1>3. ~HoldsRow(q)
    BY <1>2 DEF HoldsRow
  <1> HIDE DEF q
  <1>4. GoodRequest(q)
    BY <1>1, <1>2, <1>3, NewRowGood DEF GoodRequest
  <1> QED BY <1>1, <1>4 DEF q

LEMMA ArriveKeeps == ASSUME IInv, NEW r \in Requests, Arrive(r) PROVE IInv'
  <1>1. ASSUME NEW l \in Links, OpenLink(r, l) PROVE IInv'
    <2>1. link[l].to \in Users /\ <<"link", l>> \in Proofs
      BY <1>1 DEF OpenLink, IInv, LinksInv, Proofs
    <2>2. RequestsInv'
      BY <1>1, <2>1, FreshRequest, RequestBegins DEF OpenLink, IInv
    <2> QED BY <1>1, <2>2 DEF OpenLink, IInv, UsersInv, LinksInv, SessionsInv, Live, Running
  <1>2. ASSUME NEW u \in Users, NEW right \in BOOLEAN, EnterCode(r, u, right) PROVE IInv'
    <2>1. PICK l \in Latest(u) :
            Begin(r, [Idle EXCEPT !.pc = IF right THEN "consume" ELSE "count", !.of = u,
                                  !.proof = <<"link", l>>])
      BY <1>2 DEF EnterCode
    <2>2. <<"link", l>> \in Proofs
      BY DEF Latest, Proofs
    <2>3. RequestsInv'
      <3>1. CASE right
        BY <2>1, <2>2, <3>1, FreshRequest, RequestBegins DEF IInv
      <3>2. CASE ~right
        BY <2>1, <2>2, <3>2, FreshRequest, RequestBegins DEF IInv
      <3> QED BY <3>1, <3>2
    <2> QED BY <1>2, <2>3 DEF EnterCode, IInv, UsersInv, LinksInv, SessionsInv, Live, Running
  <1>3. ASSUME NEW u \in Users, SignInGoogle(r, u) PROVE IInv'
    <2> DEFINE q == [Idle EXCEPT !.pc = "resolve", !.of = u]
    <2>1. q \in Request /\ q.of = u /\ q.copy = NoRow /\ q.rank = 0 /\ q.pc = "resolve"
      BY IdleTyped DEF Request, Idle
    <2>2. Begin(r, q)
      BY <1>3 DEF SignInGoogle
    <2> HIDE DEF q
    <2>3. RequestsInv'
      BY <2>1, <2>2, NewRowGood, RequestBegins DEF IInv, GoodRequest, HoldsRow
    <2> QED BY <1>3, <2>3 DEF SignInGoogle, IInv, UsersInv, LinksInv, SessionsInv, Live, Running
  <1>4. ASSUME NEW s \in Sessions, StartRefresh(r, s) PROVE IInv'
    <2>1. session[s].of \in Users /\ <<"session", s>> \in Proofs
      BY <1>4 DEF StartRefresh, IInv, SessionsInv, Running, Proofs
    <2>2. RequestsInv'
      BY <1>4, <2>1, FreshRequest, RequestBegins DEF StartRefresh, IInv
    <2> QED BY <1>4, <2>2 DEF StartRefresh, IInv, UsersInv, LinksInv, SessionsInv, Live, Running
  <1>5. ASSUME NEW u \in Users, StartProfile(r, u) PROVE IInv'
    <2> DEFINE q == [Idle EXCEPT !.pc = "write", !.of = u, !.copy = user[u]]
    <2>1. GoodRow(user[u]) /\ user[u] \in Row /\ user[u].made
      BY <1>5 DEF StartProfile, IInv, UsersInv, GoodRow
    <2>2. q \in Request
      BY <2>1, IdleTyped DEF Request, Idle
    <2>3. q.of = u /\ q.copy = user[u] /\ q.rank = 0
      BY DEF Idle
    <2>4. Begin(r, q)
      BY <1>5 DEF StartProfile
    <2> HIDE DEF q
    <2>5. GoodRequest(q)
      BY <2>1, <2>2, <2>3, NewRowGood DEF GoodRequest
    <2>6. RequestsInv'
      BY <2>2, <2>4, <2>5, RequestBegins DEF IInv
    <2> QED BY <1>5, <2>6 DEF StartProfile, IInv, UsersInv, LinksInv, SessionsInv, Live, Running
  <1>6. ASSUME NEW a \in Users, NEW u \in Users, StartManage(r, a, u) PROVE IInv'
    <2> DEFINE q == [Idle EXCEPT !.pc = "target", !.of = u, !.by = a, !.rank = user[a].rank]
    <2>1. user[a].rank \in Ranks /\ Bounded(user[a].rank)
      BY DEF IInv, UsersInv, GoodRow, Row
    <2>2. q \in Request
      BY <2>1, IdleTyped DEF Request, Idle
    <2>3. q.of = u /\ q.copy = NoRow /\ q.rank = user[a].rank /\ q.pc = "target"
      BY DEF Idle
    <2>4. Begin(r, q)
      BY <1>6 DEF StartManage
    <2> HIDE DEF q
    <2>5. GoodRequest(q)
      BY <2>1, <2>2, <2>3, NewRowGood DEF GoodRequest, HoldsRow
    <2>6. RequestsInv'
      BY <2>2, <2>4, <2>5, RequestBegins DEF IInv
    <2> QED BY <1>6, <2>6 DEF StartManage, IInv, UsersInv, LinksInv, SessionsInv, Live, Running
  <1> QED
    BY <1>1, <1>2, <1>3, <1>4, <1>5, <1>6, WaysAssumption DEF Arrive

-----------------------------------------------------------------------------
\* A request in hand is a good one.
LEMMA InHand ==
    ASSUME IInv, NEW r \in Requests, req[r].pc # "idle"
    PROVE  /\ req[r] \in Request
           /\ req[r].of \in Users
           /\ GoodRow(req[r].copy)
           /\ Bounded(req[r].rank)
           /\ HoldsRow(req[r]) => req[r].copy.made
  BY DEF IInv, RequestsInv, GoodRequest, Idle

\* A request goes to another stage, keeping what it holds.
LEMMA StageChanges ==
    ASSUME IInv, NEW r \in Requests, req[r].pc # "idle",
           NEW pc \in {"lock", "resolve", "create", "open"}, pc = "open" => req[r].copy.made
    PROVE  GoodRequest([req[r] EXCEPT !.pc = pc])
  <1> DEFINE q == [req[r] EXCEPT !.pc = pc]
  <1>1. q \in Request
    BY InHand DEF Request
  <1>2. q.of = req[r].of /\ q.copy = req[r].copy /\ q.rank = req[r].rank /\ q.pc = pc
    BY InHand DEF Request
  <1> HIDE DEF q
  <1>3. GoodRequest(q)
    BY <1>1, <1>2, InHand DEF GoodRequest, HoldsRow
  <1> QED BY <1>3 DEF q

\* A request takes a good row of an account that exists.
LEMMA CopyTaken ==
    ASSUME IInv, NEW r \in Requests, req[r].pc # "idle", NEW x, GoodRow(x), x.made,
           NEW pc \in {"sync", "rotate", "open"}
    PROVE  GoodRequest([req[r] EXCEPT !.pc = pc, !.copy = x])
  <1> DEFINE q == [req[r] EXCEPT !.pc = pc, !.copy = x]
  <1>1. q \in Request
    BY InHand DEF Request, GoodRow
  <1>2. q.of = req[r].of /\ q.copy = x /\ q.rank = req[r].rank
    BY InHand DEF Request
  <1> HIDE DEF q
  <1>3. GoodRequest(q)
    BY <1>1, <1>2, InHand DEF GoodRequest
  <1> QED BY <1>3 DEF q

-----------------------------------------------------------------------------
LEMMA CountKeeps == ASSUME IInv, NEW r \in Requests, CountWrongCode(r) PROVE IInv'
  <1> DEFINE l == req[r].proof[2]
             n == link'[l].attempts
  <1> HIDE DEF l, n
  <1>0. req[r].pc = "count" /\ link' = [link EXCEPT ![l].attempts = Bump(@)]
    BY DEF CountWrongCode, l
  <1>a. Goto(r, IF Locks(n) THEN [req[r] EXCEPT !.pc = "lock"] ELSE Idle)
    BY DEF CountWrongCode, l, n
  <1>1. \A k \in Nat : Bump(k) \in Nat
    BY Numbers DEF Bump
  <1>2. link' \in [Links -> Link]
    BY <1>0, <1>1 DEF IInv, LinksInv, Link
  <1>3. ASSUME NEW m \in Links, Live(m)' PROVE link'[m].to \in Users
    BY <1>0, <1>3 DEF IInv, LinksInv, Link, Live
  <1>4. RequestsInv'
    <2>1. GoodRequest([req[r] EXCEPT !.pc = "lock"]) /\ GoodRequest(Idle)
      BY <1>0, StageChanges DEF GoodRequest
    <2>2. CASE Locks(n)
      BY <1>a, <2>1, <2>2, RequestGoes DEF IInv
    <2>3. CASE ~Locks(n)
      BY <1>a, <2>1, <2>3, RequestGoes DEF IInv
    <2> QED BY <2>2, <2>3
  <1> QED
    BY <1>2, <1>3, <1>4 DEF CountWrongCode, IInv, UsersInv, LinksInv, SessionsInv, Running

\* OpenNext of a row that was just read or written.
LEMMA NextOpens ==
    ASSUME IInv, NEW r \in Requests, req[r].pc # "idle", NEW x, GoodRow(x), x.made
    PROVE  GoodRequest(OpenNext([req[r] EXCEPT !.copy = x]))
  <1> DEFINE q == [req[r] EXCEPT !.copy = x]
  <1>1. [q EXCEPT !.pc = "open"] = [req[r] EXCEPT !.pc = "open", !.copy = x]
    BY InHand DEF Request
  <1>2. GoodRequest([q EXCEPT !.pc = "open"]) /\ GoodRequest(Idle)
    BY <1>1, CopyTaken DEF GoodRequest
  <1> QED BY <1>2 DEF OpenNext

LEMMA ResolveKeeps ==
    ASSUME IInv, NEW r \in Requests, NEW refreshed \in BOOLEAN, ResolveUser(r, refreshed)
    PROVE  IInv'
  <1> DEFINE x == user[req[r].of]
             q == [req[r] EXCEPT !.copy = x]
  <1>1. req[r].pc = "resolve" /\ x.made
    BY DEF ResolveUser
  <1>2. GoodRow(x)
    BY <1>1, InHand DEF IInv, UsersInv
  <1>3. Goto(r, IF refreshed THEN [q EXCEPT !.pc = "sync"] ELSE OpenNext(q))
    BY DEF ResolveUser, Found
  <1>4. [q EXCEPT !.pc = "sync"] = [req[r] EXCEPT !.pc = "sync", !.copy = x]
    BY <1>1, InHand DEF Request
  <1>5. GoodRequest([q EXCEPT !.pc = "sync"])
    BY <1>1, <1>2, <1>4, CopyTaken
  <1>6. GoodRequest(OpenNext(q))
    BY <1>1, <1>2, NextOpens
  <1>7. RequestsInv'
    <2>1. CASE refreshed
      BY <1>3, <1>5, <2>1, RequestGoes DEF IInv
    <2>2. CASE ~refreshed
      BY <1>3, <1>6, <2>2, RequestGoes DEF IInv
    <2> QED BY <2>1, <2>2
  <1> QED BY <1>7 DEF ResolveUser, IInv, UsersInv, LinksInv, SessionsInv, Live, Running

LEMMA SyncKeeps == ASSUME IInv, NEW r \in Requests, SyncProfile(r) PROVE IInv'
  <1>1. req[r].pc = "sync" /\ req[r].copy.made /\ GoodRow(req[r].copy)
    BY InHand DEF SyncProfile, HoldsRow
  <1>2. UsersInv'
    BY <1>1, RowWritten DEF SyncProfile, IInv
  <1>3. GoodRequest(OpenNext(req[r]))
    BY <1>1, StageChanges DEF OpenNext, GoodRequest
  <1>4. RequestsInv'
    BY <1>3, RequestGoes DEF SyncProfile, IInv
  <1> QED BY <1>2, <1>4 DEF SyncProfile, IInv, LinksInv, SessionsInv, Live, Running

LEMMA CreateKeeps == ASSUME IInv, NEW r \in Requests, CreateAccount(r) PROVE IInv'
  <1> DEFINE u == req[r].of
  <1>1. req[r].pc = "create" /\ u \in Users
    BY InHand DEF CreateAccount
  <1>2. GoodRow(NewRow(u)) /\ NewRow(u).made
    BY <1>1, NewRowGood DEF NewRow
  <1>3. UsersInv' /\ RequestsInv'
    <2>1. CASE user[u].made
      <3>1. Finish(r) /\ UNCHANGED user
        BY <2>1 DEF CreateAccount
      <3> QED BY <3>1, RequestEnds DEF IInv, UsersInv
    <2>2. CASE ~user[u].made
      <3> DEFINE q == [req[r] EXCEPT !.pc = "open", !.copy = NewRow(u)]
      <3>1. user' = [user EXCEPT ![u] = NewRow(u)] /\ Goto(r, q)
        BY <2>2 DEF CreateAccount
      <3>2. GoodRequest(q)
        BY <1>1, <1>2, CopyTaken
      <3> HIDE DEF q
      <3> QED BY <1>2, <3>1, <3>2, RowWritten, RequestGoes DEF IInv
    <2> QED BY <2>1, <2>2
  <1> QED BY <1>3 DEF CreateAccount, IInv, LinksInv, SessionsInv, Live, Running

-----------------------------------------------------------------------------
LEMMA AnswerKeeps ==
    ASSUME IInv, NEW r \in Requests, req[r].pc # "idle", NEW d \in BOOLEAN, Answer(r, d)
    PROVE  RequestsInv' /\ managers' \subseteq Users
  <1>1. managers' \subseteq Users
    BY InHand DEF Answer, IInv
  <1>2. RequestsInv'
    BY RequestEnds DEF Answer, IInv
  <1> QED BY <1>1, <1>2

LEMMA OpenKeeps ==
    ASSUME IInv, NEW r \in Requests, NEW s \in Sessions, NEW d \in BOOLEAN, OpenSession(r, s, d)
    PROVE  IInv'
  <1> DEFINE q == req[r]
             st == IF q.proof[1] = "session" /\ d THEN "known" ELSE "open"
  <1>1. /\ q.pc = "open" /\ q \in Request /\ q.of \in Users /\ q.copy.made
        /\ GoodRow(q.copy) /\ Bounded(q.rank)
    BY InHand DEF OpenSession, HoldsRow
  <1>2. session' = [session EXCEPT ![s] = [state |-> st, of |-> q.of, via |-> q.proof]]
    BY DEF OpenSession
  <1>3. st \in {"known", "open"} /\ q.proof \in Proofs
    BY <1>1 DEF Request
  <1>4. SessionsInv'
    <2> HIDE DEF st
    <2>1. [state |-> st, of |-> q.of, via |-> q.proof] \in Session
      BY <1>1, <1>3 DEF Session
    <2>2. session' \in [Sessions -> Session]
      BY <1>2, <2>1 DEF IInv, SessionsInv
    <2>3. ASSUME NEW t \in Sessions, Running(t)' PROVE session'[t].of \in Users
      BY <1>1, <1>2, <2>3 DEF IInv, SessionsInv, Running
    <2> QED BY <2>2, <2>3 DEF SessionsInv
  <1>5. RequestsInv' /\ managers' \subseteq Users
    <2>1. CASE q.proof[1] = "session"
      <3>1. Answer(r, d)
        BY <2>1 DEF OpenSession
      <3> QED BY <1>1, <3>1, AnswerKeeps
    <2>2. CASE q.proof[1] # "session"
      <3> DEFINE p == [q EXCEPT !.pc = "record", !.proof = Google, !.opened = s]
      <3>1. Goto(r, p) /\ managers' = managers
        BY <2>2 DEF OpenSession
      <3>2. p \in Request /\ p.of = q.of /\ p.copy = q.copy /\ p.rank = q.rank
        BY <1>1 DEF Request, Google, Proofs
      <3> HIDE DEF p
      <3>3. GoodRequest(p)
        BY <1>1, <3>2 DEF GoodRequest
      <3> QED BY <3>1, <3>3, RequestGoes DEF IInv
    <2> QED BY <2>1, <2>2
  <1> QED BY <1>4, <1>5 DEF OpenSession, IInv, UsersInv, LinksInv, Live

LEMMA RecordKeeps ==
    ASSUME IInv, NEW r \in Requests, NEW d \in BOOLEAN, RecordLogin(r, d)
    PROVE  IInv'
  <1>1. req[r].pc = "record" /\ GoodRow(req[r].copy) /\ Answer(r, d)
    BY InHand DEF RecordLogin
  <1>2. UsersInv'
    BY <1>1, RowWritten DEF RecordLogin, IInv
  <1> DEFINE o == req[r].opened
             st == IF d /\ session[o].state = "open" THEN "known" ELSE session[o].state
  <1>3. SessionsInv'
    <2>1. CASE o \in Sessions
      <3>1. session' = [session EXCEPT ![o].state = st]
        BY DEF RecordLogin
      <3>2. /\ st \in {"unused", "open", "known", "ended"}
            /\ st \in {"open", "known"} => Running(o)
        BY <2>1 DEF IInv, SessionsInv, Session, Running
      <3> HIDE DEF st
      <3>3. session' \in [Sessions -> Session]
        BY <3>1, <3>2 DEF IInv, SessionsInv, Session
      <3>4. ASSUME NEW t \in Sessions, Running(t)' PROVE session'[t].of \in Users
        BY <2>1, <3>1, <3>2, <3>4 DEF IInv, SessionsInv, Session, Running
      <3> QED BY <3>3, <3>4 DEF SessionsInv
    <2>2. CASE o \notin Sessions
      <3>1. session' = session
        BY <2>2 DEF RecordLogin, IInv, SessionsInv
      <3> QED BY <3>1 DEF IInv, SessionsInv, Running
    <2> QED BY <2>1, <2>2
  <1>4. RequestsInv' /\ managers' \subseteq Users
    BY <1>1, AnswerKeeps
  <1> QED BY <1>2, <1>3, <1>4 DEF RecordLogin, IInv, LinksInv, Live

LEMMA SignInKeeps == ASSUME IInv, NEW r \in Requests, SignIn(r) PROVE IInv'
  <1>1. ASSUME LockLink(r) PROVE IInv'
    BY <1>1, LinkMoves, RequestEnds DEF LockLink, IInv, UsersInv, SessionsInv, Running
  <1>2. ASSUME Consume(r) PROVE IInv'
    <2>1. RequestsInv'
      BY <1>2, StageChanges, RequestGoes DEF Consume, IInv
    <2> QED BY <1>2, <2>1, LinkMoves DEF Consume, IInv, UsersInv, SessionsInv, Running
  <1>3. ASSUME ResolveNobody(r) PROVE IInv'
    <2>1. RequestsInv'
      BY <1>3, StageChanges, RequestGoes DEF ResolveNobody, IInv
    <2> QED BY <1>3, <2>1 DEF ResolveNobody, IInv, UsersInv, LinksInv, SessionsInv, Live, Running
  <1> QED
    BY <1>1, <1>2, <1>3, CountKeeps, ResolveKeeps, SyncKeeps, CreateKeeps, OpenKeeps, RecordKeeps
    DEF SignIn

LEMMA RefreshKeeps == ASSUME IInv, NEW r \in Requests, Refresh(r) PROVE IInv'
  <1>1. ASSUME LoadUser(r) PROVE IInv'
    <2> DEFINE x == user[req[r].of]
    <2>1. req[r].pc = "load" /\ GoodRow(x)
      BY <1>1, InHand DEF LoadUser, IInv, UsersInv
    <2>2. RequestsInv'
      <3>1. CASE MayOpen(x)
        <4>1. x.made
          BY <2>1, <3>1 DEF MayOpen, GoodRow
        <4>2. Goto(r, [req[r] EXCEPT !.pc = "rotate", !.copy = x])
          BY <1>1, <3>1 DEF LoadUser
        <4> HIDE DEF x
        <4> QED BY <2>1, <4>1, <4>2, CopyTaken, RequestGoes DEF IInv
      <3>2. CASE ~MayOpen(x)
        BY <1>1, <3>2, RequestEnds DEF LoadUser, Finish, IInv
      <3> QED BY <3>1, <3>2
    <2> QED BY <1>1, <2>2 DEF LoadUser, IInv, UsersInv, LinksInv, SessionsInv, Live, Running
  <1>2. ASSUME Rotate(r) PROVE IInv'
    <2> DEFINE s == req[r].proof[2]
    <2>1. req[r].pc = "rotate" /\ req[r].copy.made
      BY <1>2, InHand DEF Rotate, HoldsRow
    <2>2. RequestsInv'
      BY <1>2, <2>1, StageChanges, RequestGoes DEF Rotate, IInv
    <2> HIDE DEF s
    <2>3. SessionsInv'
      BY <1>2, SessionEnds DEF Rotate, IInv, s
    <2> QED BY <1>2, <2>2, <2>3 DEF Rotate, IInv, UsersInv, LinksInv, Live
  <1> QED BY <1>1, <1>2 DEF Refresh

-----------------------------------------------------------------------------
LEMMA TargetKeeps ==
    ASSUME IInv, NEW r \in Requests,
           NEW rank \in {{}} \cup {{n} : n \in RankInputs}, NEW active \in {{}, {TRUE}, {FALSE}},
           ReadTarget(r, rank, active)
    PROVE  IInv'
  <1> DEFINE q == req[r]
             target == user[q.of]
             given == IF rank = {} THEN target.rank ELSE CHOOSE n \in rank : TRUE
             on == IF active = {} THEN target.active ELSE active = {TRUE}
             x == [made |-> TRUE, rank |-> given, active |-> on]
             e == active = {FALSE}
             p == [q EXCEPT !.pc = "write", !.rank = 0, !.ends = e, !.copy = x]
  <1>1. q.pc = "target" /\ q \in Request /\ q.of \in Users /\ Bounded(q.rank) /\ q.rank \in Ranks
    BY InHand DEF ReadTarget, Request
  <1>2. GoodRow(target) /\ target \in Row
    BY <1>1 DEF IInv, UsersInv
  <1>3. RequestsInv'
    <2>1. CASE CanManageUser(q.rank, target.rank) /\ \A n \in rank : CanGrantRole(q.rank, n)
      <3>1. Goto(r, p)
        BY <2>1 DEF ReadTarget
      <3>2. given \in Ranks /\ Bounded(given)
        <4>1. CASE rank = {}
          BY <1>2, <4>1 DEF GoodRow, Row
        <4>2. CASE rank # {}
          <5>1. PICK n \in RankInputs : rank = {n}
            BY <4>2
          <5>2. given = n /\ n \in Ranks /\ n <= q.rank
            BY <2>1, <4>2, <5>1, RankInputsAssumption DEF CanGrantRole
          <5>3. PICK v \in Users : q.rank <= FirstRank[v]
            BY <1>1 DEF Bounded
          <5>4. FirstRank[v] \in Ranks
            BY Numbers
          <5>5. n <= FirstRank[v]
            BY <1>1, <5>2, <5>3, <5>4 DEF Ranks
          <5> QED BY <5>2, <5>5 DEF Bounded
        <4> QED BY <4>1, <4>2
      <3>3. on \in BOOLEAN /\ e \in BOOLEAN
        BY <1>2 DEF Row
      <3> HIDE DEF given, on
      <3>4. x \in Row /\ x.made /\ GoodRow(x)
        BY <3>2, <3>3 DEF Row, GoodRow
      <3> HIDE DEF x, e
      <3>5. p \in Request /\ p.of = q.of /\ p.copy = x /\ p.rank = 0
        <4>1. 0 \in Ranks
          BY DEF Ranks
        <4>2. [q EXCEPT !.pc = "write", !.rank = 0, !.copy = x] \in Request
          BY <1>1, <3>4, <4>1 DEF Request
        <4>3. \A b \in BOOLEAN : [q EXCEPT !.pc = "write", !.rank = 0, !.ends = b,
                                       !.copy = x] \in Request
          BY <1>1, <3>4, <4>1 DEF Request
        <4>4. p \in Request
          BY <3>3, <4>3
        <4> QED BY <1>1, <4>4 DEF Request
      <3> HIDE DEF p
      <3>6. GoodRequest(p)
        BY <1>1, <3>4, <3>5, NewRowGood DEF GoodRequest
      <3> QED BY <3>1, <3>6, RequestGoes DEF IInv
    <2>2. CASE ~(CanManageUser(q.rank, target.rank) /\ \A n \in rank : CanGrantRole(q.rank, n))
      <3>1. Finish(r)
        BY <2>2 DEF ReadTarget
      <3> QED BY <3>1, RequestEnds DEF IInv
    <2> QED BY <2>1, <2>2
  <1> QED BY <1>3 DEF ReadTarget, IInv, UsersInv, LinksInv, SessionsInv, Live, Running

LEMMA ManageKeeps == ASSUME IInv, NEW r \in Requests, Manage(r) PROVE IInv'
  <1>1. ASSUME WriteUser(r) PROVE IInv'
    <2> DEFINE p == [req[r] EXCEPT !.pc = "cutoff", !.copy = NoRow, !.ends = FALSE]
    <2>1. req[r].pc = "write"
      BY <1>1 DEF WriteUser
    <2>2. UsersInv'
      BY <1>1, <2>1, InHand, RowWritten DEF WriteUser, IInv
    <2>3. p.of = req[r].of /\ p.copy = NoRow /\ p.rank = req[r].rank /\ p.pc = "cutoff"
      BY <2>1, InHand DEF Request
    <2>4. p \in Request
      BY <2>1, InHand, NewRowGood DEF Request, GoodRow
    <2>5. Goto(r, IF req[r].ends THEN p ELSE Idle)
      BY <1>1 DEF WriteUser
    <2> HIDE DEF p
    <2>6. GoodRequest(p) /\ GoodRequest(Idle)
      BY <2>1, <2>3, <2>4, InHand, NewRowGood DEF GoodRequest, HoldsRow
    <2>7. RequestsInv'
      <3>1. CASE req[r].ends
        BY <2>5, <2>6, <3>1, RequestGoes DEF IInv
      <3>2. CASE ~req[r].ends
        BY <2>5, <2>6, <3>2, RequestGoes DEF IInv
      <3> QED BY <3>1, <3>2
    <2> QED BY <1>1, <2>2, <2>7 DEF WriteUser, IInv, LinksInv, SessionsInv, Live, Running
  <1>2. ASSUME CutOff(r) PROVE IInv'
    <2>1. RequestsInv'
      BY <1>2, RequestEnds DEF CutOff, IInv
    <2>2. \A s \in Sessions : session'[s] = session[s] \/ session'[s] = Ended(session[s])
      BY <1>2 DEF CutOff
    <2>3. DOMAIN session' = Sessions /\ session' = [s \in Sessions |-> session'[s]]
      BY <1>2 DEF CutOff
    <2>4. session' \in [Sessions -> Session]
      BY <2>2, <2>3 DEF IInv, SessionsInv, Session, Ended
    <2>5. ASSUME NEW s \in Sessions, Running(s)' PROVE session'[s].of \in Users
      BY <2>2, <2>5 DEF IInv, SessionsInv, Session, Ended, Running
    <2>6. SessionsInv'
      BY <2>4, <2>5 DEF SessionsInv
    <2> QED BY <1>2, <2>1, <2>6 DEF CutOff, IInv, UsersInv, LinksInv, Live
  <1> QED BY <1>1, <1>2, TargetKeeps DEF Manage

-----------------------------------------------------------------------------
LEMMA NextKeeps == ASSUME IInv, [Next]_vars PROVE IInv'
  <1>1. ASSUME NEW l \in Links, ExpireLink(l) PROVE IInv'
    <2>1. RequestsInv'
      BY <1>1 DEF ExpireLink, IInv, RequestsInv, GoodRequest, GoodRow, Bounded, HoldsRow
    <2> QED BY <1>1, <2>1, LinkMoves DEF ExpireLink, IInv, UsersInv, SessionsInv, Running
  <1>2. ASSUME NEW l \in Links, NEW u \in Inboxes, RequestLink(l, u) PROVE IInv'
    <2>1. RequestsInv'
      BY <1>2 DEF RequestLink, IInv, RequestsInv, GoodRequest, GoodRow, Bounded, HoldsRow
    <2>2. LinksInv'
      <3>1. u \in Users /\ [state |-> "live", to |-> u, attempts |-> 0] \in Link
        BY WaysAssumption DEF Link
      <3>2. link' \in [Links -> Link]
        BY <1>2, <3>1 DEF RequestLink, IInv, LinksInv
      <3>3. ASSUME NEW m \in Links, Live(m)' PROVE link'[m].to \in Users
        BY <1>2, <3>1, <3>3 DEF RequestLink, IInv, LinksInv, Live
      <3> QED BY <3>2, <3>3 DEF LinksInv
    <2> QED BY <1>2, <2>1, <2>2 DEF RequestLink, IInv, UsersInv, SessionsInv, Running
  <1>3. ASSUME NEW s \in Sessions, EndSession(s) PROVE IInv'
    <2>1. RequestsInv'
      BY <1>3 DEF EndSession, IInv, RequestsInv, GoodRequest, GoodRow, Bounded, HoldsRow
    <2> QED BY <1>3, <2>1, SessionEnds DEF EndSession, IInv, UsersInv, LinksInv, Live
  <1>4. ASSUME NEW u \in Users, ExpireAccess(u) PROVE IInv'
    <2>1. RequestsInv'
      BY <1>4 DEF ExpireAccess, IInv, RequestsInv, GoodRequest, GoodRow, Bounded, HoldsRow
    <2> QED
      BY <1>4, <2>1 DEF ExpireAccess, IInv, UsersInv, LinksInv, SessionsInv, Live, Running
  <1>5. ASSUME NEW r \in Requests, Abandon(r) PROVE IInv'
    <2>1. req[r].of \in Users
      BY <1>5 DEF Abandon, IInv, RequestsInv, GoodRequest
    <2>2. RequestsInv'
      BY <1>5, <2>1, RequestTurns DEF Abandon, IInv, RequestsInv, GoodRequest
    <2> QED BY <1>5, <2>2 DEF Abandon, IInv, UsersInv, LinksInv, SessionsInv, Live, Running
  <1>6. CASE UNCHANGED vars
    BY <1>6 DEF vars, IInv, UsersInv, LinksInv, SessionsInv, RequestsInv, Live, Running
  <1> QED
    BY <1>1, <1>2, <1>3, <1>4, <1>5, <1>6, ArriveKeeps, SignInKeeps, RefreshKeeps, ManageKeeps
    DEF Next

LEMMA InitHolds == Init => IInv
  <1> SUFFICES ASSUME Init PROVE IInv
    OBVIOUS
  <1>1. UsersInv
    <2>1. PICK S \in SUBSET Users : user = [u \in Users |-> IF u \in S THEN NewRow(u) ELSE NoRow]
      BY DEF Init
    <2>2. ASSUME NEW u \in Users PROVE GoodRow(user[u])
      BY <2>1, NewRowGood
    <2> QED BY <2>1, <2>2 DEF UsersInv, GoodRow
  <1>2. LinksInv
    BY DEF Init, LinksInv, Link, Live
  <1>3. SessionsInv
    BY DEF Init, SessionsInv, Session, Running, Google, Proofs
  <1>4. RequestsInv
    BY IdleTyped DEF Init, RequestsInv, GoodRequest
  <1> QED BY <1>1, <1>2, <1>3, <1>4 DEF Init, IInv

LEMMA Always == Spec => []IInv
  BY InitHolds, NextKeeps, PTL DEF Spec

-----------------------------------------------------------------------------
\* The tables and the requests keep their types, and a request that is to write
\* a row or to open a session holds the row of an account that exists.
THEOREM TypeCorrect == Spec => []TypeOK
  <1>1. IInv => TypeOK
    <2> SUFFICES ASSUME IInv PROVE TypeOK
      OBVIOUS
    <2>1. ASSUME NEW r \in Requests, req[r] # Idle
          PROVE  req[r].of \in Users /\ (HoldsRow(req[r]) => req[r].copy.made)
      BY <2>1 DEF IInv, RequestsInv, GoodRequest
    <2>2. ~HoldsRow(Idle)
      BY DEF HoldsRow, Idle
    <2> QED
      BY <2>1, <2>2 DEF IInv, UsersInv, LinksInv, SessionsInv, RequestsInv, TypeOK, HoldsRow
  <1> QED BY <1>1, Always, PTL

\* No interleaving of sign-ins, grants, profile edits and late writes makes a
\* rank above the highest one that accounts start with.
THEOREM NobodyOutranks == Spec => []RankBounded
  <1>1. IInv => RankBounded
    BY DEF IInv, UsersInv, GoodRow, Bounded, RankBounded
  <1> QED BY <1>1, Always, PTL

-----------------------------------------------------------------------------
(* What holds of the accounts that no two requests ever held at once.       *)

\* A ticket opens one session: an emailed link or a refresh token.
IsLink(p) == p[1] = "link"
IsToken(p) == p[1] = "session"
Owner(p) == IF IsLink(p) THEN link[p[2]].to ELSE session[p[2]].of
Issued(p) == IF IsLink(p) THEN link[p[2]].state # "unsent" ELSE ~Unused(p[2])
Gone(p) == IF IsLink(p) THEN link[p[2]].state = "spent" ELSE session[p[2]].state = "ended"
NotUsed(p) == \A s \in Sessions : ~Unused(s) => session[s].via # p
Guessable(p) == IsLink(p) => link[p[2]].attempts < MaxAttempts

\* A ticket belongs to whom it brings in, and is gone before it does.
RequestTicket(r) ==
    LET q == req[r]
    IN  /\ q.pc \in {"count", "lock", "consume"} => IsLink(q.proof)
        /\ q.pc \in {"load", "rotate"} => IsToken(q.proof)
        /\ q.pc \in {"idle", "record", "target", "write", "cutoff"} => q.proof = Google
        /\ q.proof # Google => Issued(q.proof) /\ Owner(q.proof) = q.of
        /\ q.proof # Google /\ q.pc \in {"resolve", "create", "sync", "open"} => Gone(q.proof)

SessionTicket(s) ==
    LET p == session[s].via
    IN  ~Unused(s) /\ p # Google => Issued(p) /\ Gone(p) /\ Owner(p) = session[s].of

Tickets == /\ \A r \in Requests : RequestTicket(r)
           /\ \A s \in Sessions : SessionTicket(s)

\* One request at a time holds an account, as the one it is about or acts for.
OneHolder(u) ==
    \A r, t \in Requests :
        u \in {req[r].of, req[r].by} /\ u \in {req[t].of, req[t].by} => r = t

\* Nobody but the request that holds a ticket uses it, or guesses at its link.
TicketHeld(r) ==
    LET q == req[r]
    IN  q.of \in Users \ crossed /\ q.proof # Google =>
            NotUsed(q.proof) /\ (q.pc # "lock" => Guessable(q.proof))

TicketUsed(s) ==
    LET p == session[s].via
    IN  ~Unused(s) /\ session[s].of \notin crossed /\ p # Google =>
            /\ Guessable(p)
            /\ \A t \in Sessions : ~Unused(t) /\ session[t].via = p => s = t

LockComes(l) ==
    Live(l) /\ link[l].to \notin crossed /\ link[l].attempts >= MaxAttempts =>
        \E r \in Requests : req[r].pc = "lock" /\ req[r].proof = <<"link", l>>

TicketsAlone == /\ \A u \in Users \ crossed : OneHolder(u)
                /\ \A r \in Requests : TicketHeld(r)
                /\ \A s \in Sessions : TicketUsed(s)
                /\ \A l \in Links : LockComes(l)

\* What a request holds of a row is what is stored.
RequestRow(r) ==
    LET q == req[r]
    IN  /\ q.pc \in {"rotate", "open", "record"} => q.copy.active
        /\ q.pc = "target" => user[q.of].made /\ q.by \in Users /\ q.by # q.of
        /\ q.pc = "write" => user[q.of].made
        /\ q.pc = "write" /\ q.by # NoUser => q.by \in Users /\ q.by # q.of
        /\ q.pc = "write" /\ q.by = NoUser => ~q.ends

RowAlone(r) ==
    LET q == req[r]
    IN  q.of \in Users \ crossed =>
          /\ q.pc \in {"sync", "rotate", "open", "record"} => q.copy = user[q.of]
          /\ q.pc = "write" /\ q.by = NoUser => q.copy = user[q.of]
          /\ q.pc = "write" /\ ~q.copy.active => q.ends \/ ~user[q.of].active
          /\ q.pc = "target" /\ q.by \notin crossed => q.rank = user[q.by].rank
          /\ q.pc = "write" /\ q.by \in Users \ crossed => user[q.by].rank >= user[q.of].rank

CutOffComes(u) ==
    user[u].made /\ ~user[u].active =>
        \/ \E r \in Requests : req[r].pc = "cutoff" /\ req[r].of = u
        \/ \A s \in Sessions : session[s].of = u => ~Running(s)

Rows == /\ \A u \in Users : ~user[u].made => user[u].rank = 0
        /\ \A r \in Requests : RequestRow(r)

RowsAlone == /\ \A r \in Requests : RowAlone(r)
             /\ \A u \in Users \ crossed : CutOffComes(u)

UInv == Tickets /\ TicketsAlone /\ Rows /\ RowsAlone

Others(r) == \A t \in Requests \ {r} : req'[t] = req[t]

\* A request begins; nobody held its accounts, or they are crossed now.
Begun(r) ==
    /\ req[r] = Idle
    /\ Others(r)
    /\ crossed \subseteq crossed'
    /\ \A u \in Users \ crossed' : u \in {req'[r].of, req'[r].by} => ~Held(u)

LEMMA BeginBegins ==
    ASSUME IInv, NEW r \in Requests, NEW q, Begin(r, q)
    PROVE  Begun(r) /\ req'[r] = q
  <1>1. req \in [Requests -> Request]
    BY DEF IInv, RequestsInv
  <1>2. /\ req[r] = Idle /\ req'[r] = q /\ Others(r)
        /\ crossed' = crossed \cup {u \in {q.of, q.by} \ {NoUser} : Held(u)}
    BY <1>1 DEF Begin, Others
  <1>3. NoUser \notin Users
    BY UsersAssumption
  <1> QED BY <1>2, <1>3 DEF Begun

LEMMA GotoGoes ==
    ASSUME IInv, NEW r \in Requests, NEW q, Goto(r, q)
    PROVE  Others(r) /\ req'[r] = q /\ crossed' = crossed
  BY DEF Goto, Others, IInv, RequestsInv

LEMMA ArriveDoes ==
    ASSUME IInv, NEW r \in Requests, Arrive(r)
    PROVE  LET n == req'[r] IN
      /\ Begun(r)
      /\ UNCHANGED <<user, link, session, managers>>
      /\ \/ /\ n.pc \in {"consume", "count"} /\ n.by = NoUser
            /\ \E l \in Links : Live(l) /\ n.of = link[l].to /\ n.proof = <<"link", l>>
         \/ n.pc = "resolve" /\ n.by = NoUser /\ n.proof = Google
         \/ /\ n.pc = "load" /\ n.by = NoUser
            /\ \E s \in Sessions : /\ session[s].state = "known" /\ n.of = session[s].of
                                   /\ n.proof = <<"session", s>>
         \/ /\ n.pc = "write" /\ n.by = NoUser /\ n.proof = Google /\ ~n.ends
            /\ n.of \in Users /\ user[n.of].made /\ n.copy = user[n.of]
         \/ /\ n.pc = "target" /\ n.by \in Users /\ n.by # n.of /\ n.proof = Google
            /\ n.of \in Users /\ user[n.of].made /\ n.rank = user[n.by].rank
  <1> DEFINE n == req'[r]
  <1>1. ASSUME NEW l \in Links, OpenLink(r, l)
        PROVE  /\ Begun(r) /\ UNCHANGED <<user, link, session, managers>> /\ n.pc = "consume"
               /\ n.by = NoUser /\ Live(l) /\ n.of = link[l].to /\ n.proof = <<"link", l>>
    <2> DEFINE q == [Idle EXCEPT !.pc = "consume", !.of = link[l].to, !.proof = <<"link", l>>]
    <2>1. q.pc = "consume" /\ q.of = link[l].to /\ q.by = NoUser /\ q.proof = <<"link", l>>
      BY DEF Idle
    <2>2. Begin(r, q)
      BY <1>1 DEF OpenLink
    <2> HIDE DEF q
    <2> QED BY <1>1, <2>1, <2>2, BeginBegins DEF OpenLink
  <1>2. ASSUME NEW u \in Users, NEW right \in BOOLEAN, EnterCode(r, u, right)
        PROVE  /\ Begun(r) /\ UNCHANGED <<user, link, session, managers>>
               /\ n.pc \in {"consume", "count"} /\ n.by = NoUser
               /\ \E l \in Links : Live(l) /\ n.of = link[l].to /\ n.proof = <<"link", l>>
    <2> DEFINE q(l) == [Idle EXCEPT !.pc = IF right THEN "consume" ELSE "count", !.of = u,
                                    !.proof = <<"link", l>>]
    <2>1. PICK l \in Latest(u) : Begin(r, q(l))
      BY <1>2 DEF EnterCode
    <2>2. l \in Links /\ Live(l) /\ link[l].to = u
      BY DEF Latest
    <2>3. /\ Begun(r) /\ n.pc \in {"consume", "count"} /\ n.by = NoUser
          /\ n.of = u /\ n.proof = <<"link", l>>
      <3>1. /\ q(l).pc \in {"consume", "count"} /\ q(l).by = NoUser
            /\ q(l).of = u /\ q(l).proof = <<"link", l>>
        BY DEF Idle
      <3> HIDE DEF q
      <3> QED BY <2>1, <3>1, BeginBegins
    <2> QED BY <1>2, <2>2, <2>3 DEF EnterCode
  <1>3. ASSUME NEW u \in Users, SignInGoogle(r, u)
        PROVE  /\ Begun(r) /\ UNCHANGED <<user, link, session, managers>>
               /\ n.pc = "resolve" /\ n.by = NoUser /\ n.proof = Google
    <2> DEFINE q == [Idle EXCEPT !.pc = "resolve", !.of = u]
    <2>1. q.pc = "resolve" /\ q.by = NoUser /\ q.proof = Google
      BY DEF Idle
    <2>2. Begin(r, q)
      BY <1>3 DEF SignInGoogle
    <2> HIDE DEF q
    <2> QED BY <1>3, <2>1, <2>2, BeginBegins DEF SignInGoogle
  <1>4. ASSUME NEW s \in Sessions, StartRefresh(r, s)
        PROVE  /\ Begun(r) /\ UNCHANGED <<user, link, session, managers>> /\ n.pc = "load"
               /\ n.by = NoUser /\ session[s].state = "known" /\ n.of = session[s].of
               /\ n.proof = <<"session", s>>
    <2> DEFINE q == [Idle EXCEPT !.pc = "load", !.of = session[s].of,
                                 !.proof = <<"session", s>>]
    <2>1. q.pc = "load" /\ q.of = session[s].of /\ q.by = NoUser /\ q.proof = <<"session", s>>
      BY DEF Idle
    <2>2. Begin(r, q)
      BY <1>4 DEF StartRefresh
    <2> HIDE DEF q
    <2> QED BY <1>4, <2>1, <2>2, BeginBegins DEF StartRefresh
  <1>5. ASSUME NEW u \in Users, StartProfile(r, u)
        PROVE  /\ Begun(r) /\ UNCHANGED <<user, link, session, managers>> /\ n.pc = "write"
               /\ n.by = NoUser /\ n.proof = Google /\ ~n.ends
               /\ n.of \in Users /\ user[n.of].made /\ n.copy = user[n.of]
    <2> DEFINE q == [Idle EXCEPT !.pc = "write", !.of = u, !.copy = user[u]]
    <2>1. /\ q.pc = "write" /\ q.of = u /\ q.by = NoUser /\ q.proof = Google
          /\ q.copy = user[u] /\ ~q.ends
      BY DEF Idle
    <2>2. Begin(r, q)
      BY <1>5 DEF StartProfile
    <2> HIDE DEF q
    <2> QED BY <1>5, <2>1, <2>2, BeginBegins DEF StartProfile
  <1>6. ASSUME NEW a \in Users, NEW u \in Users, StartManage(r, a, u)
        PROVE  /\ Begun(r) /\ UNCHANGED <<user, link, session, managers>> /\ n.pc = "target"
               /\ n.by \in Users /\ n.by # n.of /\ n.proof = Google
               /\ n.of \in Users /\ user[n.of].made /\ n.rank = user[n.by].rank
    <2> DEFINE q == [Idle EXCEPT !.pc = "target", !.of = u, !.by = a, !.rank = user[a].rank]
    <2>1. /\ q.pc = "target" /\ q.of = u /\ q.by = a /\ q.proof = Google
          /\ q.rank = user[a].rank
      BY DEF Idle
    <2>2. Begin(r, q)
      BY <1>6 DEF StartManage
    <2> HIDE DEF q
    <2> QED BY <1>6, <2>1, <2>2, BeginBegins DEF StartManage
  <1> HIDE DEF n
  <1>7. CASE \E l \in Links : OpenLink(r, l)
    BY <1>1, <1>7 DEF n
  <1>8. CASE \E u \in Users, right \in BOOLEAN : EnterCode(r, u, right)
    BY <1>2, <1>8 DEF n
  <1>9. CASE \E u \in Googlers : SignInGoogle(r, u)
    BY <1>3, <1>9, WaysAssumption DEF n
  <1>10. CASE \E s \in Sessions : StartRefresh(r, s)
    BY <1>4, <1>10 DEF n
  <1>11. CASE \E u \in Users : StartProfile(r, u)
    BY <1>5, <1>11 DEF n
  <1>12. CASE \E a, u \in Users : StartManage(r, a, u)
    BY <1>6, <1>12 DEF n
  <1> QED BY <1>7, <1>8, <1>9, <1>10, <1>11, <1>12 DEF Arrive

\* Going on with the ticket in hand.
Goes(r, pc) ==
    LET n == req'[r]
        q == req[r]
    IN  /\ Others(r) /\ crossed' = crossed
        /\ n.pc = pc /\ n.of = q.of /\ n.by = q.by /\ n.proof = q.proof

Ends(r) == Others(r) /\ crossed' = crossed /\ req'[r] = Idle

LEMMA StageGoes ==
    ASSUME IInv, NEW r \in Requests, req[r].pc # "idle", NEW pc,
           Goto(r, [req[r] EXCEPT !.pc = pc])
    PROVE  Goes(r, pc) /\ req'[r].copy = req[r].copy
  <1> DEFINE n == [req[r] EXCEPT !.pc = pc]
  <1>1. /\ n.pc = pc /\ n.of = req[r].of /\ n.by = req[r].by
        /\ n.proof = req[r].proof /\ n.copy = req[r].copy
    BY InHand DEF Request
  <1> HIDE DEF n
  <1>2. Goto(r, n)
    BY DEF n
  <1> QED BY <1>1, <1>2, GotoGoes DEF Goes

LEMMA CopyGoes ==
    ASSUME IInv, NEW r \in Requests, req[r].pc # "idle", NEW pc, NEW x,
           Goto(r, [req[r] EXCEPT !.pc = pc, !.copy = x])
    PROVE  Goes(r, pc) /\ req'[r].copy = x
  <1> DEFINE n == [req[r] EXCEPT !.pc = pc, !.copy = x]
  <1>1. /\ n.pc = pc /\ n.of = req[r].of /\ n.by = req[r].by
        /\ n.proof = req[r].proof /\ n.copy = x
    BY InHand DEF Request
  <1> HIDE DEF n
  <1>2. Goto(r, n)
    BY DEF n
  <1> QED BY <1>1, <1>2, GotoGoes DEF Goes

LEMMA GoneEnds == ASSUME IInv, NEW r \in Requests, Goto(r, Idle) PROVE Ends(r)
  BY GotoGoes DEF Ends

LEMMA CountDoes ==
    ASSUME IInv, NEW r \in Requests, CountWrongCode(r)
    PROVE  LET l == req[r].proof[2]
               now == link'[l].attempts >= MaxAttempts
           IN  /\ req[r].pc = "count"
               /\ link' = [link EXCEPT ![l].attempts = Bump(@)]
               /\ (now /\ Goes(r, "lock")) \/ (~now /\ Ends(r))
               /\ UNCHANGED <<user, session>>
  <1>1. req[r].pc = "count"
    BY DEF CountWrongCode
  <1> DEFINE now == link'[req[r].proof[2]].attempts >= MaxAttempts
  <1>2. Goto(r, IF now THEN [req[r] EXCEPT !.pc = "lock"] ELSE Idle)
    BY DEF CountWrongCode, Locks
  <1>3. (now /\ Goes(r, "lock")) \/ (~now /\ Ends(r))
    <2> HIDE DEF now
    <2>1. CASE now
      BY <1>1, <1>2, <2>1, StageGoes
    <2>2. CASE ~now
      BY <1>2, <2>2, GoneEnds
    <2> QED BY <2>1, <2>2
  <1> QED BY <1>1, <1>3 DEF CountWrongCode

LEMMA LockDoes ==
    ASSUME IInv, NEW r \in Requests, LockLink(r)
    PROVE  /\ req[r].pc = "lock" /\ Ends(r)
           /\ link' = [link EXCEPT ![req[r].proof[2]].state = "spent"]
           /\ UNCHANGED <<user, session>>
  BY GotoGoes DEF LockLink, Finish, Ends

LEMMA ConsumeDoes ==
    ASSUME IInv, NEW r \in Requests, Consume(r)
    PROVE  /\ req[r].pc = "consume" /\ Goes(r, "resolve")
           /\ link' = [link EXCEPT ![req[r].proof[2]].state = "spent"]
           /\ UNCHANGED <<user, session>>
  <1>1. req[r].pc = "consume"
    BY DEF Consume
  <1> QED BY <1>1, StageGoes DEF Consume

LEMMA ResolveDoes ==
    ASSUME IInv, NEW r \in Requests, NEW refreshed \in BOOLEAN, ResolveUser(r, refreshed)
    PROVE  LET x == user[req[r].of]
               n == req'[r]
           IN  /\ req[r].pc = "resolve"
               /\ \/ Goes(r, "sync") /\ n.copy = x
                  \/ Goes(r, "open") /\ n.copy = x /\ x.active
                  \/ Ends(r)
               /\ UNCHANGED <<user, link, session>>
  <1> DEFINE x == user[req[r].of]
             q == [req[r] EXCEPT !.copy = x]
  <1>1. req[r].pc = "resolve" /\ req[r] \in Request
    BY InHand DEF ResolveUser
  <1>2. Goto(r, IF refreshed THEN [q EXCEPT !.pc = "sync"] ELSE OpenNext(q))
    BY DEF ResolveUser, Found
  <1>3. /\ q.copy = x
        /\ \A pc : [q EXCEPT !.pc = pc] = [req[r] EXCEPT !.pc = pc, !.copy = x]
    BY <1>1 DEF Request
  <1>4. OpenNext(q) = IF x.active THEN [q EXCEPT !.pc = "open"] ELSE Idle
    BY <1>3 DEF OpenNext, MayOpen
  <1> HIDE DEF q, x
  <1>5. \/ Goto(r, [req[r] EXCEPT !.pc = "sync", !.copy = x])
        \/ Goto(r, [req[r] EXCEPT !.pc = "open", !.copy = x]) /\ x.active
        \/ Goto(r, Idle)
    BY <1>2, <1>3, <1>4
  <1>6. \/ Goes(r, "sync") /\ req'[r].copy = x
        \/ Goes(r, "open") /\ req'[r].copy = x /\ x.active
        \/ Ends(r)
    BY <1>1, <1>5, CopyGoes, GoneEnds
  <1> QED BY <1>1, <1>6 DEF x, ResolveUser

LEMMA NobodyDoes ==
    ASSUME IInv, NEW r \in Requests, ResolveNobody(r)
    PROVE  /\ req[r].pc = "resolve" /\ Goes(r, "create")
           /\ UNCHANGED <<user, link, session>>
  <1>1. req[r].pc = "resolve"
    BY DEF ResolveNobody
  <1> QED BY <1>1, StageGoes DEF ResolveNobody

LEMMA SyncDoes ==
    ASSUME IInv, NEW r \in Requests, SyncProfile(r)
    PROVE  /\ req[r].pc = "sync"
           /\ user' = [user EXCEPT ![req[r].of] = req[r].copy]
           /\ \/ Goes(r, "open") /\ req'[r].copy = req[r].copy /\ req[r].copy.active
              \/ Ends(r)
           /\ UNCHANGED <<link, session>>
  <1>1. req[r].pc = "sync"
    BY DEF SyncProfile
  <1> QED BY <1>1, StageGoes, GoneEnds DEF SyncProfile, OpenNext, MayOpen

LEMMA CreateDoes ==
    ASSUME IInv, NEW r \in Requests, CreateAccount(r)
    PROVE  LET u == req[r].of
           IN  /\ req[r].pc = "create"
               /\ \/ user[u].made /\ Ends(r) /\ UNCHANGED user
                  \/ /\ ~user[u].made /\ user' = [user EXCEPT ![u] = NewRow(u)]
                     /\ Goes(r, "open") /\ req'[r].copy = NewRow(u)
               /\ UNCHANGED <<link, session>>
  <1>1. req[r].pc = "create"
    BY DEF CreateAccount
  <1> QED BY <1>1, CopyGoes, GoneEnds DEF CreateAccount, Finish

LEMMA OpenDoes ==
    ASSUME IInv, NEW r \in Requests, NEW s \in Sessions, NEW d \in BOOLEAN, OpenSession(r, s, d)
    PROVE  LET q == req[r]
               n == req'[r]
           IN  /\ q.pc = "open" /\ Unused(s)
               /\ session'[s].state \in {"open", "known"}
               /\ session'[s].of = q.of /\ session'[s].via = q.proof
               /\ \A t \in Sessions \ {s} : session'[t] = session[t]
               /\ Others(r) /\ crossed' = crossed
               /\ \/ n = Idle
                  \/ /\ n.pc = "record" /\ n.of = q.of /\ n.by = q.by /\ n.proof = Google
                     /\ n.copy = q.copy
               /\ UNCHANGED <<user, link>>
  <1> DEFINE q == req[r]
             p == [q EXCEPT !.pc = "record", !.proof = Google, !.opened = s]
             st == IF q.proof[1] = "session" /\ d THEN "known" ELSE "open"
  <1>1. q.pc = "open" /\ q \in Request /\ session \in [Sessions -> Session]
    BY InHand DEF OpenSession, IInv, SessionsInv
  <1>2. session' = [session EXCEPT ![s] = [state |-> st, of |-> q.of, via |-> q.proof]]
    BY DEF OpenSession
  <1>3. /\ p.pc = "record" /\ p.of = q.of /\ p.by = q.by /\ p.proof = Google /\ p.copy = q.copy
    BY <1>1 DEF Request
  <1> HIDE DEF p
  <1>4. Goto(r, Idle) \/ Goto(r, p)
    BY DEF OpenSession, Answer, Finish, p
  <1>5. Others(r) /\ crossed' = crossed /\ (req'[r] = Idle \/ req'[r] = p)
    BY <1>4, GotoGoes
  <1>6. st \in {"open", "known"}
    OBVIOUS
  <1> HIDE DEF st
  <1> QED BY <1>1, <1>2, <1>3, <1>5, <1>6 DEF OpenSession

LEMMA RecordDoes ==
    ASSUME IInv, NEW r \in Requests, NEW d \in BOOLEAN, RecordLogin(r, d)
    PROVE  /\ req[r].pc = "record" /\ Ends(r)
           /\ user' = [user EXCEPT ![req[r].of] = req[r].copy]
           /\ \A s \in Sessions : /\ session'[s].of = session[s].of
                                  /\ session'[s].via = session[s].via
                                  /\ \/ session'[s].state = session[s].state
                                     \/ session[s].state = "open" /\ session'[s].state = "known"
           /\ UNCHANGED link
  <1> DEFINE o == req[r].opened
             st == IF d /\ session[o].state = "open" THEN "known" ELSE session[o].state
  <1>1. session \in [Sessions -> Session]
    BY DEF IInv, SessionsInv
  <1>2. session' = [session EXCEPT ![o].state = st]
    BY DEF RecordLogin
  <1>3. st = session[o].state \/ (session[o].state = "open" /\ st = "known")
    OBVIOUS
  <1> HIDE DEF st
  <1>4. \A s \in Sessions : /\ session'[s].of = session[s].of
                            /\ session'[s].via = session[s].via
                            /\ \/ session'[s].state = session[s].state
                               \/ session[s].state = "open" /\ session'[s].state = "known"
    BY <1>1, <1>2, <1>3 DEF Session
  <1> QED BY <1>4, GotoGoes DEF RecordLogin, Answer, Finish, Ends

LEMMA LoadDoes ==
    ASSUME IInv, NEW r \in Requests, LoadUser(r)
    PROVE  LET x == user[req[r].of]
           IN  /\ req[r].pc = "load"
               /\ (Goes(r, "rotate") /\ req'[r].copy = x /\ x.active) \/ Ends(r)
               /\ UNCHANGED <<user, link, session>>
  <1>1. req[r].pc = "load"
    BY DEF LoadUser
  <1> QED BY <1>1, CopyGoes, GoneEnds DEF LoadUser, MayOpen

LEMMA RotateDoes ==
    ASSUME IInv, NEW r \in Requests, Rotate(r)
    PROVE  /\ req[r].pc = "rotate" /\ Goes(r, "open") /\ req'[r].copy = req[r].copy
           /\ session' = [session EXCEPT ![req[r].proof[2]].state = "ended"]
           /\ UNCHANGED <<user, link>>
  <1>1. req[r].pc = "rotate"
    BY DEF Rotate
  <1> QED BY <1>1, StageGoes DEF Rotate

LEMMA TargetDoes ==
    ASSUME IInv, NEW r \in Requests,
           NEW rank \in {{}} \cup {{n} : n \in RankInputs}, NEW active \in {{}, {TRUE}, {FALSE}},
           ReadTarget(r, rank, active)
    PROVE  LET q == req[r]
               n == req'[r]
               x == user[q.of]
           IN  /\ q.pc = "target"
               /\ \/ /\ Goes(r, "write") /\ q.rank >= x.rank
                     /\ n.copy.active \/ n.ends \/ n.copy.active = x.active
                  \/ Ends(r)
               /\ UNCHANGED <<user, link, session>>
  <1> DEFINE q == req[r]
             x == user[q.of]
             given == IF rank = {} THEN x.rank ELSE CHOOSE n \in rank : TRUE
             on == IF active = {} THEN x.active ELSE active = {TRUE}
             e == active = {FALSE}
             c == [made |-> TRUE, rank |-> given, active |-> on]
             p == [q EXCEPT !.pc = "write", !.rank = 0, !.ends = e, !.copy = c]
  <1>1. q.pc = "target" /\ q \in Request
    BY InHand DEF ReadTarget
  <1>2. \/ Goto(r, p) /\ q.rank >= x.rank
        \/ Goto(r, Idle)
    BY DEF ReadTarget, CanManageUser, Finish
  <1>3. (on = TRUE) \/ e \/ on = x.active
    OBVIOUS
  <1> HIDE DEF on, e, given
  <1>4. c.active = on
    OBVIOUS
  <1> HIDE DEF c
  <1>5. /\ p.pc = "write" /\ p.of = q.of /\ p.by = q.by /\ p.proof = q.proof
        /\ p.ends = e /\ p.copy = c
    BY <1>1 DEF Request
  <1> HIDE DEF p
  <1> QED BY <1>1, <1>2, <1>3, <1>4, <1>5, GotoGoes DEF ReadTarget, Goes, Ends

LEMMA WriteDoes ==
    ASSUME IInv, NEW r \in Requests, WriteUser(r)
    PROVE  /\ req[r].pc = "write"
           /\ user' = [user EXCEPT ![req[r].of] = req[r].copy]
           /\ (req[r].ends /\ Goes(r, "cutoff")) \/ (~req[r].ends /\ Ends(r))
           /\ UNCHANGED <<link, session>>
  <1> DEFINE p == [req[r] EXCEPT !.pc = "cutoff", !.copy = NoRow, !.ends = FALSE]
  <1>1. req[r].pc = "write" /\ req[r] \in Request
    BY InHand DEF WriteUser
  <1>2. p.pc = "cutoff" /\ p.of = req[r].of /\ p.by = req[r].by /\ p.proof = req[r].proof
    BY <1>1 DEF Request
  <1>3. Goto(r, IF req[r].ends THEN p ELSE Idle)
    BY DEF WriteUser
  <1> HIDE DEF p
  <1> QED BY <1>1, <1>2, <1>3, GotoGoes DEF WriteUser, Goes, Ends

LEMMA CutOffDoes ==
    ASSUME IInv, NEW r \in Requests, CutOff(r)
    PROVE  /\ req[r].pc = "cutoff" /\ Ends(r)
           /\ \A s \in Sessions :
                /\ session'[s].of = session[s].of /\ session'[s].via = session[s].via
                /\ \/ session'[s].state = session[s].state
                   \/ Running(s) /\ session'[s].state = "ended"
                /\ session[s].of = req[r].of => ~(Running(s)')
           /\ UNCHANGED <<user, link>>
  <1>1. session \in [Sessions -> Session]
    BY DEF IInv, SessionsInv
  <1>2. \A s \in Sessions :
          session'[s] = IF Running(s) /\ session[s].of = req[r].of THEN Ended(session[s])
                         ELSE session[s]
    BY DEF CutOff
  <1>3. \A s \in Sessions : /\ Ended(session[s]).of = session[s].of
                            /\ Ended(session[s]).via = session[s].via
                            /\ Ended(session[s]).state = "ended"
    BY <1>1 DEF Ended, Session
  <1> QED BY <1>2, <1>3, GotoGoes DEF CutOff, Finish, Ends, Running

LEMMA AbandonDoes ==
    ASSUME IInv, NEW r \in Requests, Abandon(r)
    PROVE  /\ req[r] # Idle /\ Others(r) /\ req'[r] = Idle
           /\ crossed \subseteq crossed'
           /\ req[r].pc \in {"lock", "cutoff"} => req[r].of \in crossed'
           /\ UNCHANGED <<user, link, session>>
  BY DEF Abandon, Others, IInv, RequestsInv

-----------------------------------------------------------------------------
Continues(r) ==
    /\ Others(r)
    /\ crossed \subseteq crossed'
    /\ req'[r] = Idle \/ (req'[r].of = req[r].of /\ req'[r].by = req[r].by)

LEMMA SignInMoves ==
    ASSUME IInv, NEW r \in Requests, SignIn(r) \/ Refresh(r) \/ Manage(r) \/ Abandon(r)
    PROVE  Continues(r)
  <1> USE DEF Continues, Goes, Ends
  <1>1. CASE SignIn(r)
    BY <1>1, CountDoes, LockDoes, ConsumeDoes, ResolveDoes, NobodyDoes, SyncDoes, CreateDoes,
       OpenDoes, RecordDoes DEF SignIn
  <1>2. CASE Refresh(r)
    BY <1>2, LoadDoes, RotateDoes DEF Refresh
  <1>3. CASE Manage(r)
    BY <1>3, TargetDoes, WriteDoes, CutOffDoes DEF Manage
  <1>4. CASE Abandon(r)
    BY <1>4, AbandonDoes
  <1> QED BY <1>1, <1>2, <1>3, <1>4

\* An account not crossed is held by one request at a time.
LEMMA HoldersStay ==
    ASSUME IInv, \A u \in Users \ crossed : OneHolder(u), NEW r \in Requests,
           Begun(r) \/ Continues(r)
    PROVE  \A u \in Users \ crossed' : OneHolder(u)'
  <1> SUFFICES ASSUME NEW u \in Users \ crossed', NEW a \in Requests, NEW b \in Requests,
                      u \in {req'[a].of, req'[a].by}, u \in {req'[b].of, req'[b].by}
               PROVE  a = b
    BY DEF OneHolder
  <1>1. u \notin {Idle.of, Idle.by}
    BY UsersAssumption DEF Idle
  <1>2. CASE Begun(r)
    BY <1>2 DEF Begun, Others, Held, OneHolder
  <1>3. CASE Continues(r)
    BY <1>1, <1>3 DEF Continues, Others, OneHolder
  <1> QED BY <1>2, <1>3

LEMMA HoldersKept ==
    ASSUME IInv, [Next]_vars, \A u \in Users \ crossed : OneHolder(u)
    PROVE  crossed \subseteq crossed' /\ \A u \in Users \ crossed' : OneHolder(u)'
  <1>1. ASSUME NEW r \in Requests, Begun(r) \/ Continues(r)
        PROVE  crossed \subseteq crossed' /\ \A u \in Users \ crossed' : OneHolder(u)'
    BY <1>1, HoldersStay DEF Begun, Continues
  <1>2. ASSUME UNCHANGED <<req, crossed>>
        PROVE  crossed \subseteq crossed' /\ \A u \in Users \ crossed' : OneHolder(u)'
    BY <1>2 DEF OneHolder
  <1>3. ASSUME NEW r \in Requests,
               Arrive(r) \/ SignIn(r) \/ Refresh(r) \/ Manage(r) \/ Abandon(r)
        PROVE  Begun(r) \/ Continues(r)
    BY <1>3, ArriveDoes, SignInMoves
  <1> QED
    BY <1>1, <1>2, <1>3 DEF Next, vars, ExpireLink, RequestLink, EndSession, ExpireAccess

-----------------------------------------------------------------------------
LEMMA TicketShape ==
    ASSUME NEW p \in Proofs, p # Google
    PROVE  \/ IsLink(p) /\ ~IsToken(p) /\ p[2] \in Links /\ p = <<"link", p[2]>>
           \/ ~IsLink(p) /\ IsToken(p) /\ p[2] \in Sessions
  BY DEF Proofs, Google, IsLink, IsToken

LEMMA LinkShape ==
    \A l : /\ <<"link", l>>[1] = "link" /\ <<"link", l>>[2] = l /\ <<"link", l>> # Google
            /\ <<"session", l>>[1] = "session" /\ <<"session", l>>[2] = l
            /\ <<"session", l>> # Google
           /\ Google[1] = "google"
  BY DEF Google

\* Links and sessions only go one way.
LinksGrow ==
    \A l \in Links :
        /\ link[l].state # "unsent" => link'[l].state # "unsent" /\ link'[l].to = link[l].to
        /\ link[l].state = "spent" => link'[l].state = "spent"

SessionsGrow ==
    \A s \in Sessions :
        /\ ~Unused(s) => /\ session'[s].state # "unused" /\ session'[s].of = session[s].of
                         /\ session'[s].via = session[s].via
        /\ session[s].state = "ended" => session'[s].state = "ended"

LEMMA TicketGrows ==
    ASSUME LinksGrow, SessionsGrow, NEW p \in Proofs, p # Google, Issued(p)
    PROVE  /\ Issued(p)' /\ Owner(p)' = Owner(p)
           /\ Gone(p) => Gone(p)'
  BY TicketShape DEF LinksGrow, SessionsGrow, Issued, Owner, Gone, IsLink, Unused

LEMMA TicketsStep ==
    ASSUME IInv, Tickets, LinksGrow, SessionsGrow,
           \A t \in Requests : req'[t] = req[t] \/ RequestTicket(t)',
           \A s \in Sessions : Unused(s) => session'[s].state = "unused" \/ SessionTicket(s)'
    PROVE  Tickets'
  <1>1. ASSUME NEW t \in Requests, req'[t] = req[t] PROVE RequestTicket(t)'
    <2>1. PICK p \in Proofs : p = req[t].proof
      BY DEF IInv, RequestsInv, Request
    <2>2. RequestTicket(t)
      BY DEF Tickets
    <2>3. p # Google => /\ Issued(p)' /\ Owner(p)' = Owner(p)
                        /\ Gone(p) => Gone(p)'
      BY <2>1, <2>2, TicketGrows DEF RequestTicket
    <2> QED BY <1>1, <2>1, <2>2, <2>3
        DEF RequestTicket, Issued, Owner, Gone, IsLink, IsToken, Unused
  <1>2. ASSUME NEW s \in Sessions, ~Unused(s) PROVE SessionTicket(s)'
    <2>1. PICK p \in Proofs : p = session[s].via
      BY DEF IInv, SessionsInv, Session
    <2>0. SessionTicket(s)
      BY DEF Tickets
    <2>2. p # Google => /\ Issued(p)' /\ Owner(p)' = Owner(p) /\ Gone(p)'
      BY <1>2, <2>0, <2>1, TicketGrows DEF SessionTicket
    <2>3. session'[s].via = p /\ session'[s].of = session[s].of
      BY <1>2, <2>1 DEF SessionsGrow
    <2> QED BY <1>2, <2>0, <2>1, <2>2, <2>3 DEF SessionTicket, Issued, Owner, Gone, IsLink, Unused
  <1>3. \A s \in Sessions : SessionTicket(s)'
    BY <1>2 DEF SessionTicket, Unused
  <1> QED BY <1>1, <1>3 DEF Tickets

\* What is not used now was not used before.
LEMMA StaysUnused ==
    ASSUME IInv, \A s \in Sessions : Unused(s) => session'[s].state = "unused", SessionsGrow,
           NEW p, NotUsed(p)
    PROVE  NotUsed(p)'
  BY DEF NotUsed, Unused, SessionsGrow

LEMMA AloneStep ==
    ASSUME IInv, IInv', Tickets, TicketsAlone, LinksGrow, SessionsGrow, crossed \subseteq crossed',
           \A l \in Links : /\ link[l].state # "unsent" => link'[l].attempts = link[l].attempts
                            /\ link[l].state = "unsent" => \/ link'[l].state = "unsent"
                                                           \/ link'[l].attempts = 0,
           \A s \in Sessions : Unused(s) => session'[s].state = "unused",
           \A t \in Requests : req'[t] = req[t] \/ TicketHeld(t)',
           \A t \in Requests : req[t].pc = "lock" => \/ req'[t] = req[t]
                                                     \/ req[t].of \in crossed'
                                                     \/ link'[req[t].proof[2]].state = "spent",
           \A u \in Users \ crossed' : OneHolder(u)'
    PROVE  TicketsAlone'
  <1>0. /\ link \in [Links -> Link] /\ link' \in [Links -> Link]
        /\ session \in [Sessions -> Session] /\ req \in [Requests -> Request]
        /\ MaxAttempts \in Nat /\ MaxAttempts > 0
    BY AttemptsAssumption DEF IInv, LinksInv, SessionsInv, RequestsInv
  <1>1. ASSUME NEW p \in Proofs, p # Google, Issued(p) PROVE Guessable(p) => Guessable(p)'
    BY <1>1, TicketShape DEF Issued, Guessable, IsLink
  <1>2. ASSUME NEW t \in Requests, req'[t] = req[t] PROVE TicketHeld(t)'
    <2>0. PICK p \in Proofs : p = req[t].proof
      BY <1>0 DEF Request
    <2>1. TicketHeld(t) /\ RequestTicket(t)
      BY DEF Tickets, TicketsAlone
    <2>2. p # Google => Issued(p) /\ (Guessable(p) => Guessable(p)')
      BY <1>1, <2>0, <2>1 DEF RequestTicket
    <2>3. NotUsed(p) => NotUsed(p)'
      BY StaysUnused
    <2> QED BY <1>2, <2>0, <2>1, <2>2, <2>3 DEF TicketHeld, NotUsed, Guessable, IsLink, Unused
  <1>3. ASSUME NEW s \in Sessions PROVE TicketUsed(s)'
    <2>0. PICK p \in Proofs : p = session[s].via
      BY <1>0 DEF Session
    <2> SUFFICES ASSUME session'[s].state # "unused", session'[s].of \notin crossed',
                        session'[s].via # Google
                 PROVE  /\ (Guessable(session[s].via))'
                        /\ \A t \in Sessions :
                             session'[t].state # "unused" /\ session'[t].via = session'[s].via
                             => s = t
      BY DEF TicketUsed, Unused, Guessable, IsLink
    <2>1. ~Unused(s) /\ session'[s].via = p /\ session'[s].of = session[s].of
      BY <2>0 DEF SessionsGrow, Unused
    <2>2. SessionTicket(s) /\ TicketUsed(s)
      BY DEF Tickets, TicketsAlone
    <2>3. Issued(p) /\ Guessable(p)
      BY <2>0, <2>1, <2>2 DEF SessionTicket, TicketUsed
    <2>4. Guessable(p)'
      BY <1>1, <2>0, <2>1, <2>2, <2>3
    <2>5. \A t \in Sessions : session'[t].state # "unused" =>
                           ~Unused(t) /\ session'[t].via = session[t].via
      BY <2>0 DEF SessionsGrow, Unused
    <2> QED BY <2>0, <2>1, <2>2, <2>4, <2>5 DEF TicketUsed, Guessable, IsLink
  <1>4. ASSUME NEW l \in Links PROVE LockComes(l)'
    <2> SUFFICES ASSUME link'[l].state = "live", link'[l].to \notin crossed',
                        link'[l].attempts >= MaxAttempts
                 PROVE  \E t \in Requests : req'[t].pc = "lock" /\ req'[t].proof = <<"link", l>>
      BY DEF LockComes, Live
    <2>1. link[l].state = "live" /\ link'[l].to = link[l].to /\ link'[l].attempts = link[l].attempts
      BY <1>0 DEF LinksGrow, Link
    <2>2. PICK t \in Requests : req[t].pc = "lock" /\ req[t].proof = <<"link", l>>
      BY <2>1 DEF TicketsAlone, LockComes, Live
    <2>3. req[t].of = link[l].to /\ req[t].proof[2] = l
      BY <2>2, LinkShape DEF Tickets, RequestTicket, Owner, IsLink
    <2> QED BY <2>1, <2>2, <2>3
  <1> QED BY <1>2, <1>3, <1>4 DEF TicketsAlone

-----------------------------------------------------------------------------
LEMMA IdleTicket ==
    ASSUME NEW r \in Requests, req'[r] = Idle
    PROVE  RequestTicket(r)' /\ TicketHeld(r)'
  BY DEF RequestTicket, TicketHeld, Idle

\* The links and sessions stay; one request moves.
LEMMA QuietStep ==
    ASSUME IInv, IInv', Tickets, TicketsAlone, UNCHANGED <<link, session>>,
           NEW r \in Requests, Others(r), crossed \subseteq crossed',
           \A u \in Users \ crossed' : OneHolder(u)',
           RequestTicket(r)', TicketHeld(r)', req[r].pc = "lock" => req[r].of \in crossed'
    PROVE  Tickets' /\ TicketsAlone'
  <1>1. LinksGrow /\ SessionsGrow
    BY DEF LinksGrow, SessionsGrow, Unused
  <1>2. /\ \A t \in Requests : req'[t] = req[t] \/ RequestTicket(t)'
        /\ \A t \in Requests : req'[t] = req[t] \/ TicketHeld(t)'
        /\ \A t \in Requests : req[t].pc = "lock" => req'[t] = req[t] \/ req[t].of \in crossed'
    BY DEF Others
  <1>3. \A s \in Sessions : Unused(s) => session'[s].state = "unused"
    BY DEF Unused
  <1>4. Tickets'
    BY <1>1, <1>2, <1>3, TicketsStep
  <1>5. TicketsAlone'
    BY <1>1, <1>2, <1>3, AloneStep
  <1> QED BY <1>4, <1>5

\* A request goes on with a ticket it has redeemed, or has none to redeem.
LEMMA TicketGoes ==
    ASSUME IInv, Tickets, TicketsAlone, UNCHANGED <<link, session>>,
           NEW r \in Requests, NEW pc, Goes(r, pc),
           \/ /\ req[r].pc \in {"resolve", "create", "sync", "open"}
              /\ pc \in {"resolve", "create", "sync", "open"}
           \/ req[r].pc = "load" /\ pc = "rotate"
           \/ req[r].pc \in {"target", "write"} /\ pc \in {"write", "cutoff"}
    PROVE  RequestTicket(r)' /\ TicketHeld(r)'
  <1>1. RequestTicket(r) /\ TicketHeld(r) /\ req[r].pc # "lock"
    BY DEF Tickets, TicketsAlone
  <1>2. RequestTicket(r)'
    BY <1>1 DEF Goes, RequestTicket, Issued, Owner, Gone, IsLink, IsToken, Unused
  <1>3. TicketHeld(r)'
    BY <1>1 DEF Goes, TicketHeld, NotUsed, Guessable, IsLink, Unused
  <1> QED BY <1>2, <1>3

\* A new request: a live ticket has not been used, and its link not guessed at.
LEMMA TicketArrives ==
    ASSUME IInv, Tickets, TicketsAlone, NEW r \in Requests, Arrive(r)
    PROVE  RequestTicket(r)' /\ TicketHeld(r)'
  <1> DEFINE n == req'[r]
  <1>0. Begun(r) /\ UNCHANGED <<link, session>>
    BY ArriveDoes
  <1>1. ASSUME NEW l \in Links, Live(l), n.of = link[l].to, n.proof = <<"link", l>>,
               n.pc \in {"consume", "count"}, n.by = NoUser
        PROVE  RequestTicket(r)' /\ TicketHeld(r)'
    <2>1. IsLink(n.proof) /\ n.proof[2] = l /\ ~IsToken(n.proof) /\ n.proof # Google
      BY <1>1, LinkShape DEF IsLink, IsToken
    <2>2. RequestTicket(r)'
      BY <1>0, <1>1, <2>1 DEF RequestTicket, Issued, Owner, Live, IsLink, IsToken
    <2>3. NotUsed(<<"link", l>>)
      <3> SUFFICES ASSUME NEW s \in Sessions, ~Unused(s), session[s].via = <<"link", l>>
                   PROVE  FALSE
        BY DEF NotUsed
      <3>1. SessionTicket(s)
        BY DEF Tickets
      <3>2. link[l].state = "spent"
        BY <3>1, LinkShape DEF SessionTicket, Gone, IsLink
      <3> QED BY <1>1, <3>2 DEF Live
    <2>4. ASSUME n.of \in Users \ crossed' PROVE link[l].attempts < MaxAttempts
      <3>1. ~Held(n.of) /\ n.of \notin crossed
        BY <2>4, <1>0 DEF Begun
      <3>2. \A t \in Requests : ~(req[t].pc = "lock" /\ req[t].proof = <<"link", l>>)
        <4> SUFFICES ASSUME NEW t \in Requests, req[t].proof = <<"link", l>> PROVE FALSE
          OBVIOUS
        <4>1. RequestTicket(t)
          BY DEF Tickets
        <4>2. req[t].of = link[l].to
          BY <4>1, LinkShape DEF RequestTicket, Owner, IsLink
        <4> QED BY <1>1, <3>1, <4>2 DEF Held
      <3>3. LockComes(l)
        BY DEF TicketsAlone
      <3>4. link[l].attempts \in Nat /\ MaxAttempts \in Nat
        BY AttemptsAssumption DEF IInv, LinksInv, Link
      <3> QED BY <1>1, <3>1, <3>2, <3>3, <3>4 DEF LockComes
    <2>5. TicketHeld(r)'
      BY <1>0, <1>1, <2>1, <2>3, <2>4 DEF TicketHeld, NotUsed, Guessable, IsLink, Unused
    <2> QED BY <2>2, <2>5
  <1>2. ASSUME NEW s \in Sessions, session[s].state = "known", n.of = session[s].of,
               n.proof = <<"session", s>>, n.pc = "load", n.by = NoUser
        PROVE  RequestTicket(r)' /\ TicketHeld(r)'
    <2>1. IsToken(n.proof) /\ n.proof[2] = s /\ ~IsLink(n.proof) /\ n.proof # Google
      BY <1>2, LinkShape DEF IsLink, IsToken
    <2>2. RequestTicket(r)'
      BY <1>0, <1>2, <2>1 DEF RequestTicket, Issued, Owner, Unused, IsLink, IsToken
    <2>3. NotUsed(<<"session", s>>)
      <3> SUFFICES ASSUME NEW t \in Sessions, ~Unused(t), session[t].via = <<"session", s>>
                   PROVE  FALSE
        BY DEF NotUsed
      <3>1. SessionTicket(t)
        BY DEF Tickets
      <3>2. session[s].state = "ended"
        BY <3>1, LinkShape DEF SessionTicket, Gone, IsLink
      <3> QED BY <1>2, <3>2
    <2>4. TicketHeld(r)'
      BY <1>0, <1>2, <2>1, <2>3 DEF TicketHeld, NotUsed, Guessable, IsLink, Unused
    <2> QED BY <2>2, <2>4
  <1>3. ASSUME n.pc \in {"resolve", "write", "target"}, n.proof = Google
        PROVE  RequestTicket(r)' /\ TicketHeld(r)'
    BY <1>3 DEF RequestTicket, TicketHeld
  <1> QED BY <1>1, <1>2, <1>3, ArriveDoes

\* The steps that leave the links and the sessions as they are.
LEMMA QuietKeeps ==
    ASSUME IInv, IInv', Tickets, TicketsAlone, crossed \subseteq crossed',
           \A u \in Users \ crossed' : OneHolder(u)', NEW r \in Requests,
           \/ Arrive(r)
           \/ \E refreshed \in BOOLEAN : ResolveUser(r, refreshed)
           \/ ResolveNobody(r) \/ SyncProfile(r) \/ CreateAccount(r)
           \/ LoadUser(r)
           \/ \E rank \in {{}} \cup {{n} : n \in RankInputs}, active \in {{}, {TRUE}, {FALSE}} :
                ReadTarget(r, rank, active)
           \/ WriteUser(r) \/ Abandon(r)
    PROVE  Tickets' /\ TicketsAlone'
  <1>1. CASE Arrive(r)
    BY <1>1, ArriveDoes, TicketArrives, QuietStep DEF Begun, Idle
  <1>2. CASE Abandon(r)
    BY <1>2, AbandonDoes, IdleTicket, QuietStep
  <1>3. ASSUME NEW pc, UNCHANGED <<link, session>>, Goes(r, pc),
               \/ /\ req[r].pc \in {"resolve", "create", "sync", "open"}
                  /\ pc \in {"resolve", "create", "sync", "open"}
               \/ req[r].pc = "load" /\ pc = "rotate"
               \/ req[r].pc \in {"target", "write"} /\ pc \in {"write", "cutoff"}
        PROVE  Tickets' /\ TicketsAlone'
    BY <1>3, TicketGoes, QuietStep DEF Goes
  <1>4. ASSUME UNCHANGED <<link, session>>, Ends(r), req[r].pc # "lock"
        PROVE  Tickets' /\ TicketsAlone'
    BY <1>4, IdleTicket, QuietStep DEF Ends
  <1>5. CASE \E refreshed \in BOOLEAN : ResolveUser(r, refreshed)
    BY <1>3, <1>4, <1>5, ResolveDoes
  <1>6. CASE ResolveNobody(r)
    BY <1>3, <1>6, NobodyDoes
  <1>7. CASE SyncProfile(r)
    BY <1>3, <1>4, <1>7, SyncDoes
  <1>8. CASE CreateAccount(r)
    BY <1>3, <1>4, <1>8, CreateDoes
  <1>9. CASE LoadUser(r)
    BY <1>3, <1>4, <1>9, LoadDoes
  <1>10. CASE \E rank \in {{}} \cup {{n} : n \in RankInputs}, active \in {{}, {TRUE}, {FALSE}} :
                ReadTarget(r, rank, active)
    BY <1>3, <1>4, <1>10, TargetDoes
  <1>11. CASE WriteUser(r)
    BY <1>3, <1>4, <1>11, WriteDoes
  <1> QED
    BY <1>1, <1>2, <1>5, <1>6, <1>7, <1>8, <1>9, <1>10, <1>11

-----------------------------------------------------------------------------
\* A link that was sent is spent.
LEMMA LinkSpends ==
    ASSUME IInv, NEW l \in Links, link[l].state # "unsent",
           link' = [link EXCEPT ![l].state = "spent"], UNCHANGED session
    PROVE  /\ LinksGrow /\ SessionsGrow /\ link'[l].state = "spent"
           /\ \A m \in Links : /\ link'[m].attempts = link[m].attempts
                               /\ link[m].state = "unsent" => link'[m].state = "unsent"
           /\ \A s \in Sessions : Unused(s) => session'[s].state = "unused"
  <1>1. link \in [Links -> Link]
    BY DEF IInv, LinksInv
  <1>2. \A m \in Links : /\ link'[m].attempts = link[m].attempts /\ link'[m].to = link[m].to
                         /\ link'[m].state = IF m = l THEN "spent" ELSE link[m].state
    BY <1>1 DEF Link
  <1> QED BY <1>2 DEF LinksGrow, SessionsGrow, Unused

LEMMA LockTickets ==
    ASSUME IInv, IInv', Tickets, TicketsAlone, \A u \in Users \ crossed' : OneHolder(u)',
           NEW r \in Requests, LockLink(r) \/ Consume(r)
    PROVE  Tickets' /\ TicketsAlone'
  <1> DEFINE q == req[r]
             l == q.proof[2]
  <1>1. /\ q.pc \in {"lock", "consume"}
        /\ link' = [link EXCEPT ![l].state = "spent"]
        /\ UNCHANGED <<user, session>>
        /\ Ends(r) \/ (q.pc = "consume" /\ Goes(r, "resolve"))
    BY LockDoes, ConsumeDoes
  <1>2. /\ RequestTicket(r) /\ TicketHeld(r) /\ q.proof \in Proofs
    BY DEF Tickets, TicketsAlone, IInv, RequestsInv, Request
  <1>3. /\ q.proof # Google /\ IsLink(q.proof) /\ ~IsToken(q.proof) /\ l \in Links
        /\ link[l].state # "unsent" /\ link[l].to = q.of
    BY <1>1, <1>2, TicketShape, LinkShape DEF RequestTicket, Issued, Owner, IsLink
  <1>4. /\ LinksGrow /\ SessionsGrow /\ link'[l].state = "spent"
        /\ \A m \in Links : /\ link'[m].attempts = link[m].attempts
                            /\ link[m].state = "unsent" => link'[m].state = "unsent"
        /\ \A s \in Sessions : Unused(s) => session'[s].state = "unused"
    BY <1>1, <1>3, LinkSpends
  <1>5. RequestTicket(r)' /\ TicketHeld(r)'
    <2>1. CASE Ends(r)
      BY <2>1, IdleTicket DEF Ends
    <2>2. CASE q.pc = "consume" /\ Goes(r, "resolve")
      <3>1. link'[l].to = q.of
        BY <1>3, <1>4 DEF LinksGrow
      <3>2. RequestTicket(r)'
        BY <1>3, <1>4, <2>2, <3>1 DEF Goes, RequestTicket, Issued, Owner, Gone, IsLink, IsToken
      <3>3. TicketHeld(r)'
        BY <1>1, <1>2, <1>3, <1>4, <2>2 DEF Goes, TicketHeld, NotUsed, Guessable, IsLink, Unused
      <3> QED BY <3>2, <3>3
    <2> QED BY <1>1, <2>1, <2>2
  <1>6. /\ crossed' = crossed
        /\ \A t \in Requests : t # r => req'[t] = req[t]
    BY <1>1 DEF Ends, Goes, Others
  <1>7. Tickets'
    BY <1>4, <1>5, <1>6, TicketsStep
  <1>8. /\ \A t \in Requests : req'[t] = req[t] \/ TicketHeld(t)'
        /\ \A t \in Requests : req[t].pc = "lock" => \/ req'[t] = req[t]
                                                     \/ link'[req[t].proof[2]].state = "spent"
    BY <1>4, <1>5, <1>6
  <1>9. TicketsAlone'
    BY <1>4, <1>6, <1>8, AloneStep
  <1> QED BY <1>7, <1>9

\* A link is sent, or expires.
LEMMA LinkTickets ==
    ASSUME IInv, IInv', Tickets, TicketsAlone, \A u \in Users \ crossed' : OneHolder(u)',
           NEW l \in Links, ExpireLink(l) \/ \E u \in Inboxes : RequestLink(l, u)
    PROVE  Tickets' /\ TicketsAlone'
  <1>1. /\ UNCHANGED <<session, req, crossed>>
        /\ \A s \in Sessions : Unused(s) => session'[s].state = "unused"
        /\ \A t \in Requests : req'[t] = req[t]
    BY DEF ExpireLink, RequestLink, Unused
  <1>2. /\ LinksGrow /\ SessionsGrow
        /\ \A m \in Links : /\ link[m].state # "unsent" => link'[m].attempts = link[m].attempts
                            /\ link[m].state = "unsent" => \/ link'[m].state = "unsent"
                                                           \/ link'[m].attempts = 0
    <2>1. CASE ExpireLink(l)
      BY <2>1, LinkSpends DEF ExpireLink, Live
    <2>2. CASE \E u \in Inboxes : RequestLink(l, u)
      <3>1. PICK u : /\ link[l].state = "unsent"
                     /\ link' = [link EXCEPT ![l] = [state |-> "live", to |-> u, attempts |-> 0]]
        BY <2>2 DEF RequestLink
      <3>2. link \in [Links -> Link]
        BY DEF IInv, LinksInv
      <3> QED BY <1>1, <3>1, <3>2 DEF LinksGrow, SessionsGrow, Unused
    <2> QED BY <2>1, <2>2
  <1>3. Tickets'
    BY <1>1, <1>2, TicketsStep
  <1>4. TicketsAlone'
    BY <1>1, <1>2, AloneStep
  <1> QED BY <1>3, <1>4

\* A wrong code counts against a link that only this request holds, and that
\* opened nothing, unless its owner is crossed.
LEMMA CountTickets ==
    ASSUME IInv, IInv', Tickets, TicketsAlone, \A u \in Users \ crossed' : OneHolder(u)',
           NEW r \in Requests, CountWrongCode(r)
    PROVE  Tickets' /\ TicketsAlone'
  <1> DEFINE q == req[r]
             l == q.proof[2]
             now == link'[l].attempts >= MaxAttempts
  <1>1. /\ q.pc = "count"
        /\ link' = [link EXCEPT ![l].attempts = Bump(@)]
        /\ (now /\ Goes(r, "lock")) \/ (~now /\ Ends(r))
        /\ UNCHANGED <<user, session>>
    BY CountDoes
  <1> HIDE DEF now
  <1>2. /\ RequestTicket(r) /\ TicketHeld(r) /\ q.proof \in Proofs /\ q.of \in Users
        /\ link \in [Links -> Link] /\ session \in [Sessions -> Session]
        /\ req \in [Requests -> Request]
    BY <1>1, InHand DEF Tickets, TicketsAlone, IInv, RequestsInv, LinksInv, SessionsInv, Request
  <1>3. /\ q.proof # Google /\ IsLink(q.proof) /\ ~IsToken(q.proof) /\ l \in Links
        /\ q.proof = <<"link", l>> /\ link[l].state # "unsent" /\ link[l].to = q.of
    BY <1>1, <1>2, TicketShape, LinkShape DEF RequestTicket, Issued, Owner, IsLink
  <1>4. \A m \in Links : /\ link'[m].state = link[m].state /\ link'[m].to = link[m].to
                         /\ m # l => link'[m].attempts = link[m].attempts
    BY <1>1, <1>2 DEF Link
  <1>5. /\ LinksGrow /\ SessionsGrow
        /\ \A s \in Sessions : Unused(s) => session'[s].state = "unused"
    BY <1>1, <1>4 DEF LinksGrow, SessionsGrow, Unused
  <1>6. /\ crossed' = crossed
        /\ \A t \in Requests : t # r => req'[t] = req[t]
    BY <1>1 DEF Ends, Goes, Others
  <1>7. RequestTicket(r)' /\ TicketHeld(r)'
    <2>1. CASE Ends(r)
      BY <2>1, IdleTicket DEF Ends
    <2>2. CASE Goes(r, "lock")
      <3>1. RequestTicket(r)'
        BY <1>3, <1>4, <2>2 DEF Goes, RequestTicket, Issued, Owner, IsLink, IsToken
      <3>2. TicketHeld(r)'
        BY <1>1, <1>2, <1>3, <2>2 DEF Goes, TicketHeld, NotUsed, Unused
      <3> QED BY <3>1, <3>2
    <2> QED BY <1>1, <2>1, <2>2
  <1>8. Tickets'
    BY <1>5, <1>6, <1>7, TicketsStep
  <1>9. ASSUME NEW p \in Proofs, p # Google, p # q.proof PROVE Guessable(p) => Guessable(p)'
    BY <1>3, <1>4, <1>9, TicketShape DEF Guessable, IsLink
  <1>10. ASSUME NEW t \in Requests, t # r PROVE TicketHeld(t)'
    <2>1. PICK p \in Proofs : p = req[t].proof
      BY <1>2 DEF Request
    <2>2. req'[t] = req[t] /\ TicketHeld(t) /\ RequestTicket(t)
      BY <1>6, <1>10 DEF Tickets, TicketsAlone
    <2>3. req[t].of \in Users \ crossed => p # q.proof
      <3> SUFFICES ASSUME req[t].of \in Users \ crossed, p = q.proof PROVE FALSE
        OBVIOUS
      <3>1. req[t].of = q.of
        BY <1>3, <2>1, <2>2 DEF RequestTicket, Owner
      <3>2. OneHolder(q.of)
        BY <3>1 DEF TicketsAlone
      <3> QED BY <1>10, <3>1, <3>2 DEF OneHolder
    <2>4. NotUsed(p) => NotUsed(p)'
      BY <1>1 DEF NotUsed, Unused
    <2> QED BY <1>6, <1>9, <2>1, <2>2, <2>3, <2>4 DEF TicketHeld, NotUsed, Guessable, IsLink, Unused
  <1>11. ASSUME NEW s \in Sessions PROVE TicketUsed(s)'
    <2>1. PICK p \in Proofs : p = session[s].via
      BY <1>2 DEF Session
    <2>2. TicketUsed(s) /\ SessionTicket(s)
      BY DEF Tickets, TicketsAlone
    <2>3. ~Unused(s) /\ session[s].of \notin crossed => p # q.proof
      <3> SUFFICES ASSUME ~Unused(s), session[s].of \notin crossed, p = q.proof PROVE FALSE
        OBVIOUS
      <3>1. session[s].of = q.of
        BY <1>3, <2>1, <2>2 DEF SessionTicket, Owner
      <3>2. NotUsed(q.proof)
        BY <1>2, <1>3, <3>1 DEF TicketHeld
      <3> QED BY <2>1, <3>2 DEF NotUsed
    <2> QED BY <1>1, <1>6, <1>9, <2>1, <2>2, <2>3 DEF TicketUsed, Guessable, IsLink, Unused
  <1>12. ASSUME NEW m \in Links PROVE LockComes(m)'
    <2>1. CASE m = l
      BY <1>1, <1>3, <2>1 DEF LockComes, Goes, now
    <2>2. CASE m # l
      <3>1. LockComes(m)
        BY DEF TicketsAlone
      <3>2. \A t \in Requests : req[t].pc = "lock" => req'[t] = req[t]
        BY <1>1, <1>6
      <3> QED BY <1>4, <1>6, <2>2, <3>1, <3>2 DEF LockComes, Live
    <2> QED BY <2>1, <2>2
  <1>13. TicketsAlone'
    BY <1>7, <1>10, <1>11, <1>12 DEF TicketsAlone
  <1> QED BY <1>8, <1>13

-----------------------------------------------------------------------------
\* A session opens, with a ticket that is gone and that only this request held.
LEMMA OpenTickets ==
    ASSUME IInv, IInv', Tickets, TicketsAlone, \A u \in Users \ crossed' : OneHolder(u)',
           NEW r \in Requests, NEW s \in Sessions, NEW d \in BOOLEAN, OpenSession(r, s, d)
    PROVE  Tickets' /\ TicketsAlone'
  <1> DEFINE q == req[r]
  <1>1. /\ q.pc = "open" /\ Unused(s)
        /\ session'[s].state \in {"open", "known"}
        /\ session'[s].of = q.of /\ session'[s].via = q.proof
        /\ \A t \in Sessions \ {s} : session'[t] = session[t]
        /\ Others(r) /\ crossed' = crossed
        /\ \/ req'[r] = Idle
           \/ req'[r].pc = "record" /\ req'[r].proof = Google
        /\ UNCHANGED <<user, link>>
    BY OpenDoes
  <1>2. /\ RequestTicket(r) /\ TicketHeld(r) /\ q.of \in Users
        /\ session \in [Sessions -> Session] /\ req \in [Requests -> Request]
    BY <1>1, InHand DEF Tickets, TicketsAlone, IInv, RequestsInv, SessionsInv
  <1>3. PICK p \in Proofs : p = q.proof
    BY <1>2 DEF Request
  <1>4. LinksGrow /\ SessionsGrow
    BY <1>1 DEF LinksGrow, SessionsGrow, Unused
  <1>5. RequestTicket(r)' /\ TicketHeld(r)'
    <2>1. CASE req'[r] = Idle
      BY <2>1, IdleTicket
    <2>2. CASE req'[r].pc = "record" /\ req'[r].proof = Google
      BY <2>2 DEF RequestTicket, TicketHeld
    <2> QED BY <1>1, <2>1, <2>2
  <1>6. SessionTicket(s)'
    <2>1. p # Google => Issued(p)' /\ Owner(p)' = q.of /\ Gone(p)'
      BY <1>1, <1>2, <1>3, <1>4, TicketGrows DEF RequestTicket
    <2> QED BY <1>1, <1>3, <2>1 DEF SessionTicket, Issued, Owner, Gone, IsLink, Unused
  <1>7. \A t \in Requests : t # r => req'[t] = req[t]
    BY <1>1 DEF Others
  <1>8. Tickets'
    <2>1. \A t \in Sessions : Unused(t) => session'[t].state = "unused" \/ SessionTicket(t)'
      BY <1>1, <1>6 DEF Unused
    <2> QED BY <1>4, <1>5, <1>7, <2>1, TicketsStep
  <1>9. ASSUME NEW t \in Requests, t # r PROVE TicketHeld(t)'
    <2>1. PICK x \in Proofs : x = req[t].proof
      BY <1>2 DEF Request
    <2>2. req'[t] = req[t] /\ TicketHeld(t) /\ RequestTicket(t)
      BY <1>7, <1>9 DEF Tickets, TicketsAlone
    <2>3. req[t].of \in Users \ crossed /\ x # Google => x # p
      <3> SUFFICES ASSUME req[t].of \in Users \ crossed, x # Google, x = p PROVE FALSE
        OBVIOUS
      <3>1. req[t].of = q.of
        BY <1>2, <1>3, <2>1, <2>2 DEF RequestTicket, Owner
      <3>2. OneHolder(q.of)
        BY <3>1 DEF TicketsAlone
      <3> QED BY <1>9, <3>1, <3>2 DEF OneHolder
    <2>4. x # p /\ NotUsed(x) => NotUsed(x)'
      BY <1>1, <1>3 DEF NotUsed, Unused
    <2> QED BY <1>1, <2>1, <2>2, <2>3, <2>4 DEF TicketHeld, NotUsed, Guessable, IsLink, Unused
  <1>10. ASSUME NEW t \in Sessions, t # s, ~Unused(t), session[t].of \notin crossed,
                session[t].via # Google
         PROVE  session[t].via # p
    <2> SUFFICES ASSUME session[t].via = p PROVE FALSE
      OBVIOUS
    <2>1. session[t].of = q.of
      BY <1>2, <1>3, <1>10 DEF Tickets, SessionTicket, RequestTicket, Owner
    <2>2. NotUsed(p)
      BY <1>2, <1>3, <1>10, <2>1 DEF TicketHeld
    <2> QED BY <1>10, <2>2 DEF NotUsed
  <1>11. TicketUsed(s)'
    <2>1. q.of \notin crossed /\ p # Google => Guessable(p) /\ NotUsed(p)
      BY <1>1, <1>2, <1>3 DEF TicketHeld
    <2>2. Guessable(p) => Guessable(p)'
      BY <1>1 DEF Guessable, IsLink
    <2>3. \A t \in Sessions \ {s} : NotUsed(p) /\ session'[t].state # "unused" =>
                           session'[t].via # p
      BY <1>1 DEF NotUsed, Unused
    <2> QED BY <1>1, <1>3, <2>1, <2>2, <2>3 DEF TicketUsed, Guessable, IsLink, Unused
  <1>12. ASSUME NEW t \in Sessions, t # s PROVE TicketUsed(t)'
    <2>1. PICK x \in Proofs : x = session[t].via
      BY <1>2 DEF Session
    <2>2. TicketUsed(t) /\ session'[t] = session[t]
      BY <1>1, <1>12 DEF TicketsAlone
    <2>3. Guessable(x) => Guessable(x)'
      BY <1>1 DEF Guessable, IsLink
    <2> QED
      BY <1>1, <1>3, <1>10, <1>12, <2>1, <2>2, <2>3 DEF TicketUsed, Guessable, IsLink, Unused
  <1>13. ASSUME NEW l \in Links PROVE LockComes(l)'
    <2>1. LockComes(l) /\ \A t \in Requests : req[t].pc = "lock" => req'[t] = req[t]
      BY <1>1, <1>7 DEF TicketsAlone
    <2> QED BY <1>1, <2>1 DEF LockComes, Live
  <1>14. TicketsAlone'
    <2>1. \A t \in Requests : TicketHeld(t)'
      BY <1>5, <1>9
    <2>2. \A t \in Sessions : TicketUsed(t)'
      BY <1>11, <1>12
    <2> QED BY <1>13, <2>1, <2>2 DEF TicketsAlone
  <1> QED BY <1>8, <1>14

\* The sessions end, or are told to their clients.
LEMMA SessionTickets ==
    ASSUME IInv, IInv', Tickets, TicketsAlone, \A u \in Users \ crossed' : OneHolder(u)',
           \/ \E r \in Requests : Rotate(r) \/ CutOff(r) \/ \E d \in BOOLEAN : RecordLogin(r, d)
           \/ \E s \in Sessions : EndSession(s)
    PROVE  Tickets' /\ TicketsAlone'
  <1>1. ASSUME SessionsGrow, UNCHANGED link, crossed' = crossed,
               \A s \in Sessions : Unused(s) => session'[s].state = "unused",
               \A t \in Requests : req'[t] = req[t] \/ (RequestTicket(t)' /\ TicketHeld(t)'),
               \A t \in Requests : req[t].pc = "lock" => req'[t] = req[t]
        PROVE  Tickets' /\ TicketsAlone'
    <2>1. LinksGrow
      BY <1>1 DEF LinksGrow
    <2>2. Tickets'
      BY <1>1, <2>1, TicketsStep
    <2>3. TicketsAlone'
      BY <1>1, <2>1, AloneStep
    <2> QED BY <2>2, <2>3
  <1>2. ASSUME NEW s \in Sessions, ~Unused(s), session' = [session EXCEPT ![s].state = "ended"]
        PROVE  /\ SessionsGrow /\ session'[s].state = "ended"
               /\ \A t \in Sessions : Unused(t) => session'[t].state = "unused"
    <2>1. session \in [Sessions -> Session]
      BY DEF IInv, SessionsInv
    <2>2. \A t \in Sessions : /\ session'[t].of = session[t].of /\ session'[t].via = session[t].via
                              /\ session'[t].state = IF t = s THEN "ended" ELSE session[t].state
      BY <1>2, <2>1 DEF Session
    <2> QED BY <1>2, <2>2 DEF SessionsGrow, Unused
  <1>3. ASSUME NEW s \in Sessions, EndSession(s) PROVE Tickets' /\ TicketsAlone'
    <2>1. ~Unused(s) /\ session' = [session EXCEPT ![s].state = "ended"]
      BY <1>3 DEF EndSession, Running, Unused
    <2>2. UNCHANGED <<link, req, crossed>>
      BY <1>3 DEF EndSession
    <2>3. SessionsGrow /\ \A t \in Sessions : Unused(t) => session'[t].state = "unused"
      BY <1>2, <2>1
    <2> QED BY <1>1, <2>2, <2>3
  <1>4. ASSUME NEW r \in Requests, Ends(r), UNCHANGED link, req[r].pc \in {"record", "cutoff"},
               SessionsGrow, \A s \in Sessions : Unused(s) => session'[s].state = "unused"
        PROVE  Tickets' /\ TicketsAlone'
    BY <1>1, <1>4, IdleTicket DEF Ends, Others
  <1>5. ASSUME NEW r \in Requests, NEW d \in BOOLEAN, RecordLogin(r, d)
        PROVE  Tickets' /\ TicketsAlone'
    BY <1>4, <1>5, RecordDoes DEF SessionsGrow, Unused
  <1>6. ASSUME NEW r \in Requests, CutOff(r) PROVE Tickets' /\ TicketsAlone'
    BY <1>4, <1>6, CutOffDoes DEF SessionsGrow, Unused, Running
  <1>7. ASSUME NEW r \in Requests, Rotate(r) PROVE Tickets' /\ TicketsAlone'
    <2> DEFINE q == req[r]
               s == q.proof[2]
    <2>1. /\ q.pc = "rotate" /\ Goes(r, "open")
          /\ session' = [session EXCEPT ![s].state = "ended"]
          /\ UNCHANGED <<user, link>>
      BY <1>7, RotateDoes
    <2>2. RequestTicket(r) /\ TicketHeld(r)
      BY DEF Tickets, TicketsAlone
    <2>3. PICK p \in Proofs : p = q.proof
      BY DEF IInv, RequestsInv, Request
    <2>4. p # Google /\ IsToken(p) /\ ~IsLink(p)
          /\ s \in Sessions /\ ~Unused(s) /\ session[s].of = q.of
      BY <2>1, <2>2, <2>3, TicketShape, LinkShape DEF RequestTicket, Issued, Owner, IsToken
    <2>5. /\ SessionsGrow /\ session'[s].state = "ended"
          /\ \A t \in Sessions : Unused(t) => session'[t].state = "unused"
      BY <1>2, <2>1, <2>4
    <2>6. RequestTicket(r)'
      <3>1. session'[s].of = q.of
        BY <2>4, <2>5 DEF SessionsGrow
      <3> QED
        BY <2>1, <2>3, <2>4, <2>5, <3>1
           DEF Goes, RequestTicket, Issued, Owner, Gone, IsLink, IsToken, Unused
    <2>7. TicketHeld(r)'
      <3>1. NotUsed(p) => NotUsed(p)'
        BY <2>5, StaysUnused
      <3> QED BY <2>1, <2>2, <2>3, <2>4, <3>1
          DEF Goes, TicketHeld, NotUsed, Guessable, IsLink, Unused
    <2> QED BY <1>1, <2>1, <2>5, <2>6, <2>7 DEF Goes, Others
  <1> QED BY <1>3, <1>5, <1>6, <1>7

LEMMA TicketsKept ==
    ASSUME IInv, IInv', Tickets, TicketsAlone, [Next]_vars
    PROVE  Tickets' /\ TicketsAlone'
  <1>1. crossed \subseteq crossed' /\ \A u \in Users \ crossed' : OneHolder(u)'
    BY HoldersKept DEF TicketsAlone
  <1>2. CASE UNCHANGED vars \/ \E u \in Users : ExpireAccess(u)
    <2>1. UNCHANGED <<link, session, req, crossed>>
      BY <1>2 DEF vars, ExpireAccess
    <2> QED
      BY <2>1 DEF Tickets, TicketsAlone, RequestTicket, SessionTicket, OneHolder, TicketHeld,
        TicketUsed, LockComes, NotUsed, Guessable, Issued, Owner, Gone, IsLink, IsToken, Live, Unused
  <1>3. CASE \E l \in Links : ExpireLink(l) \/ \E u \in Inboxes : RequestLink(l, u)
    BY <1>1, <1>3, LinkTickets
  <1>4. CASE \E s \in Sessions : EndSession(s)
    BY <1>1, <1>4, SessionTickets
  <1>5. CASE \E r \in Requests : SignIn(r)
    BY <1>1, <1>5, CountTickets, LockTickets, QuietKeeps, OpenTickets, SessionTickets DEF SignIn
  <1>6. CASE \E r \in Requests : Arrive(r) \/ Refresh(r) \/ Manage(r) \/ Abandon(r)
    BY <1>1, <1>6, QuietKeeps, SessionTickets DEF Refresh, Manage
  <1> QED BY <1>2, <1>3, <1>4, <1>5, <1>6 DEF Next

-----------------------------------------------------------------------------
\* A request that holds no row yet, or no more.
LEMMA RowFree ==
    ASSUME NEW r \in Requests,
           req'[r].pc \in {"idle", "count", "lock", "consume", "resolve",
                          "create", "load", "cutoff"}
    PROVE  RequestRow(r)' /\ RowAlone(r)'
  BY DEF RequestRow, RowAlone

LEMMA CutOffStays ==
    ASSUME NEW u \in Users, CutOffComes(u), NEW r \in Requests, Others(r),
           req[r].pc = "cutoff" => req[r].of # u,
           user'[u].made /\ ~user'[u].active => user[u].made /\ ~user[u].active,
           \A s \in Sessions : Running(s)' /\ session'[s].of = u => Running(s) /\ session[s].of = u
    PROVE  CutOffComes(u)'
  BY DEF CutOffComes, Others, Running

\* Only the row of the account that the request is about changes.
LEMMA RowsStep ==
    ASSUME IInv, IInv', Rows, RowsAlone, \A u \in Users \ crossed : OneHolder(u),
           crossed \subseteq crossed', NEW r \in Requests, Others(r),
           \A u \in Users : u # req[r].of => user'[u] = user[u],
           \A u \in Users : user[u].made => user'[u].made,
           \A u \in Users : ~user'[u].made => user'[u].rank = 0,
           RequestRow(r)', RowAlone(r)', \A u \in Users \ crossed' : CutOffComes(u)'
    PROVE  Rows' /\ RowsAlone'
  <1>1. ASSUME NEW t \in Requests, t # r PROVE RequestRow(t)' /\ RowAlone(t)'
    <2>1. req'[t] = req[t] /\ RequestRow(t) /\ RowAlone(t)
      BY <1>1 DEF Others, Rows, RowsAlone
    <2>2. req[t].pc # "idle" => req[t].of \in Users
      BY InHand
    <2>3. RequestRow(t)'
      BY <2>1, <2>2 DEF RequestRow
    <2>4. \A u \in Users \ crossed : u \in {req[t].of, req[t].by} => user'[u] = user[u]
      BY <1>1 DEF OneHolder
    <2>5. PICK q : q = req[t]
      OBVIOUS
    <2>6. q.of \in Users \ crossed' => user'[q.of] = user[q.of] /\ q.of \notin crossed
      BY <2>4, <2>5
    <2>7. q.by \in Users \ crossed' => user'[q.by] = user[q.by] /\ q.by \notin crossed
      BY <2>4, <2>5
    <2>8. q.pc = "target" => q.by \in Users
      BY <2>1, <2>5 DEF RequestRow
    <2>9. RowAlone(t)'
      BY <2>1, <2>5, <2>6, <2>7, <2>8 DEF RowAlone
    <2> QED BY <2>3, <2>9
  <1>2. \A t \in Requests : RequestRow(t)' /\ RowAlone(t)'
    BY <1>1
  <1> QED BY <1>2 DEF Rows, RowsAlone

\* The rows stay, and no session opens.
LEMMA RowsQuiet ==
    ASSUME IInv, IInv', Rows, RowsAlone, \A u \in Users \ crossed : OneHolder(u),
           crossed \subseteq crossed', NEW r \in Requests, Others(r), UNCHANGED user,
           \A s \in Sessions : Running(s)' => Running(s) /\ session'[s].of = session[s].of,
           RequestRow(r)', RowAlone(r)', req[r].pc = "cutoff" => req[r].of \in crossed'
    PROVE  Rows' /\ RowsAlone'
  <1>1. \A u \in Users \ crossed' : CutOffComes(u)'
    BY CutOffStays DEF RowsAlone
  <1>2. /\ \A u \in Users : user[u].made => user'[u].made
        /\ \A u \in Users : ~user'[u].made => user'[u].rank = 0
    BY DEF Rows
  <1> QED BY <1>1, <1>2, RowsStep

\* The steps of requests that leave the rows as they are and open no session.
LEMMA QuietRows ==
    ASSUME IInv, IInv', Rows, RowsAlone, \A u \in Users \ crossed : OneHolder(u),
           crossed \subseteq crossed', NEW r \in Requests,
           \/ Arrive(r) \/ CountWrongCode(r) \/ LockLink(r) \/ Consume(r)
           \/ \E refreshed \in BOOLEAN : ResolveUser(r, refreshed)
           \/ ResolveNobody(r) \/ LoadUser(r) \/ Rotate(r) \/ Abandon(r)
           \/ \E rank \in {{}} \cup {{n} : n \in RankInputs}, active \in {{}, {TRUE}, {FALSE}} :
                ReadTarget(r, rank, active)
    PROVE  Rows' /\ RowsAlone'
  <1> DEFINE q == req[r]
             n == req'[r]
  <1>0. RequestRow(r) /\ RowAlone(r) /\ NoUser \notin Users
    BY UsersAssumption DEF Rows, RowsAlone
  <1>1. UNCHANGED session =>
          \A s \in Sessions : Running(s)' => Running(s) /\ session'[s].of = session[s].of
    BY DEF Running
  <1>2. ASSUME UNCHANGED <<user, session>>, Others(r), RequestRow(r)', RowAlone(r)',
               q.pc = "cutoff" => q.of \in crossed'
        PROVE  Rows' /\ RowsAlone'
    BY <1>1, <1>2, RowsQuiet
  <1>3. CASE Arrive(r)
    <2>0. Begun(r) /\ UNCHANGED <<user, session>> /\ q = Idle
      BY <1>3, ArriveDoes DEF Begun
    <2>1. Begun(r) /\ UNCHANGED <<user, session>> /\ q.pc = "idle"
      BY <2>0 DEF Idle
    <2>2. ASSUME n.pc \in {"consume", "count", "resolve", "load"}
          PROVE  RequestRow(r)' /\ RowAlone(r)'
      BY <2>2, RowFree
    <2>3. ASSUME n.pc = "write", n.by = NoUser, ~n.ends, n.of \in Users, user[n.of].made,
                 n.copy = user[n.of]
          PROVE  RequestRow(r)' /\ RowAlone(r)'
      BY <1>0, <2>1, <2>3 DEF RequestRow, RowAlone
    <2>4. ASSUME n.pc = "target", n.by \in Users, n.by # n.of, n.of \in Users, user[n.of].made,
                 n.rank = user[n.by].rank
          PROVE  RequestRow(r)' /\ RowAlone(r)'
      BY <1>0, <2>1, <2>4 DEF RequestRow, RowAlone
    <2>5. RequestRow(r)' /\ RowAlone(r)'
      BY <1>3, <2>2, <2>3, <2>4, ArriveDoes
    <2> QED BY <1>2, <2>1, <2>5 DEF Begun
  <1>4. ASSUME UNCHANGED <<user, session>>, q.pc # "cutoff",
               \/ Ends(r) \/ \E pc \in {"lock", "resolve", "create"} : Goes(r, pc)
        PROVE  Rows' /\ RowsAlone'
    BY <1>2, <1>4, RowFree DEF Ends, Goes, Idle
  <1>5. CASE CountWrongCode(r) \/ LockLink(r) \/ Consume(r) \/ ResolveNobody(r)
    BY <1>4, <1>5, CountDoes, LockDoes, ConsumeDoes, NobodyDoes
  <1>6. CASE \E refreshed \in BOOLEAN : ResolveUser(r, refreshed)
    <2>1. /\ q.pc = "resolve" /\ UNCHANGED <<user, session>>
          /\ \/ Goes(r, "sync") /\ n.copy = user[q.of]
             \/ Goes(r, "open") /\ n.copy = user[q.of] /\ user[q.of].active
             \/ Ends(r)
      BY <1>6, ResolveDoes
    <2>2. CASE Goes(r, "sync") \/ Goes(r, "open")
      <3>1. n.of = q.of /\ n.copy = user[q.of] /\ n.pc \in {"sync", "open"} /\ Others(r)
        BY <2>1, <2>2 DEF Goes, Ends, Idle
      <3>2. n.pc = "open" => n.copy.active
        BY <2>1, <3>1 DEF Goes, Ends, Idle
      <3>3. RequestRow(r)' /\ RowAlone(r)'
        BY <2>1, <3>1, <3>2 DEF RequestRow, RowAlone
      <3> QED BY <1>2, <2>1, <3>1, <3>3
    <2> QED BY <1>4, <2>1, <2>2
  <1>7. CASE LoadUser(r)
    <2>1. /\ q.pc = "load" /\ UNCHANGED <<user, session>>
          /\ (Goes(r, "rotate") /\ n.copy = user[q.of] /\ user[q.of].active) \/ Ends(r)
      BY <1>7, LoadDoes
    <2>2. CASE Goes(r, "rotate") /\ n.copy = user[q.of] /\ user[q.of].active
      BY <1>2, <2>1, <2>2 DEF Goes, RequestRow, RowAlone
    <2> QED BY <1>4, <2>1, <2>2
  <1>8. CASE Rotate(r)
    <2>1. /\ q.pc = "rotate" /\ Goes(r, "open") /\ n.copy = q.copy /\ UNCHANGED user
          /\ session' = [session EXCEPT ![q.proof[2]].state = "ended"]
      BY <1>8, RotateDoes
    <2>2. \A s \in Sessions : Running(s)' => Running(s) /\ session'[s].of = session[s].of
      <3>1. session \in [Sessions -> Session]
        BY DEF IInv, SessionsInv
      <3>2. \A s \in Sessions : /\ session'[s].of = session[s].of
                                /\ session'[s].state \in {session[s].state, "ended"}
        BY <2>1, <3>1 DEF Session
      <3> QED BY <3>2 DEF Running
    <2>3. RequestRow(r)' /\ RowAlone(r)'
      BY <1>0, <2>1 DEF Goes, RequestRow, RowAlone
    <2> QED BY <2>1, <2>2, <2>3, RowsQuiet DEF Goes
  <1>9. CASE Abandon(r)
    BY <1>2, <1>9, AbandonDoes, RowFree DEF Idle
  <1>10. CASE \E rank \in {{}} \cup {{k} : k \in RankInputs}, active \in {{}, {TRUE}, {FALSE}} :
                ReadTarget(r, rank, active)
    <2>1. /\ q.pc = "target" /\ UNCHANGED <<user, session>>
          /\ \/ /\ Goes(r, "write") /\ q.rank >= user[q.of].rank
                /\ n.copy.active \/ n.ends \/ n.copy.active = user[q.of].active
             \/ Ends(r)
      BY <1>10, TargetDoes
    <2>2. CASE Goes(r, "write") /\ q.rank >= user[q.of].rank
               /\ (n.copy.active \/ n.ends \/ n.copy.active = user[q.of].active)
      <3>1. RequestRow(r)'
        BY <1>0, <2>1, <2>2 DEF Goes, RequestRow
      <3>2. RowAlone(r)'
        BY <1>0, <2>1, <2>2 DEF Goes, RequestRow, RowAlone
      <3> QED BY <1>2, <2>1, <2>2, <3>1, <3>2 DEF Goes
    <2> QED BY <1>4, <2>1, <2>2
  <1> QED BY <1>3, <1>5, <1>6, <1>7, <1>8, <1>9, <1>10

\* A request writes back the row it holds, or makes one.
LEMMA WriteRows ==
    ASSUME IInv, IInv', Rows, RowsAlone, \A u \in Users \ crossed : OneHolder(u),
           NEW r \in Requests,
           \/ SyncProfile(r) \/ CreateAccount(r) \/ WriteUser(r)
           \/ \E d \in BOOLEAN : RecordLogin(r, d)
    PROVE  Rows' /\ RowsAlone'
  <1> DEFINE q == req[r]
             n == req'[r]
  <1>0. /\ RequestRow(r) /\ RowAlone(r) /\ NoUser \notin Users
        /\ user \in [Users -> Row]
    BY UsersAssumption DEF Rows, RowsAlone, IInv, UsersInv
  <1>1. ASSUME NEW x, x.made, user' = [user EXCEPT ![q.of] = x], q.of \in Users
        PROVE  /\ user'[q.of] = x
               /\ \A u \in Users : u # q.of => user'[u] = user[u]
               /\ \A u \in Users : user[u].made => user'[u].made
               /\ \A u \in Users : ~user'[u].made => user'[u].rank = 0
    BY <1>0, <1>1 DEF Rows
  <1>2. ASSUME q.pc \in {"sync", "record"}, user' = [user EXCEPT ![q.of] = q.copy],
               Others(r), crossed' = crossed,
               \A s \in Sessions : Running(s)' => Running(s) /\ session'[s].of = session[s].of,
               \/ n = Idle
               \/ n.pc = "open" /\ n.of = q.of /\ n.copy = q.copy /\ q.copy.active
        PROVE  Rows' /\ RowsAlone'
    <2>1. q.of \in Users /\ q.copy.made
      BY <1>2, InHand DEF HoldsRow
    <2>2. /\ user'[q.of] = q.copy
          /\ \A u \in Users : u # q.of => user'[u] = user[u]
          /\ \A u \in Users : user[u].made => user'[u].made
          /\ \A u \in Users : ~user'[u].made => user'[u].rank = 0
      BY <1>1, <1>2, <2>1
    <2>3. q.of \notin crossed => q.copy = user[q.of]
      BY <1>0, <1>2, <2>1 DEF RowAlone
    <2>4. \A u \in Users \ crossed' : CutOffComes(u)'
      <3>1. \A u \in Users \ crossed' : user'[u] = user[u]
        BY <1>2, <2>2, <2>3
      <3> QED BY <1>2, <3>1, CutOffStays DEF RowsAlone
    <2>5. RequestRow(r)' /\ RowAlone(r)'
      <3>1. CASE n = Idle
        BY <3>1, RowFree DEF Idle
      <3>2. CASE n.pc = "open" /\ n.of = q.of /\ n.copy = q.copy /\ q.copy.active
        BY <1>2, <2>2, <3>2 DEF RequestRow, RowAlone
      <3> QED BY <1>2, <3>1, <3>2
    <2> QED BY <1>2, <2>2, <2>4, <2>5, RowsStep
  <1>3. UNCHANGED session =>
          \A s \in Sessions : Running(s)' => Running(s) /\ session'[s].of = session[s].of
    BY DEF Running
  <1>4. CASE SyncProfile(r)
    BY <1>2, <1>3, <1>4, SyncDoes DEF Goes, Ends
  <1>5. CASE \E d \in BOOLEAN : RecordLogin(r, d)
    <2>1. PICK d \in BOOLEAN : RecordLogin(r, d)
      BY <1>5
    <2>2. \A s \in Sessions : Running(s)' => Running(s) /\ session'[s].of = session[s].of
      BY <2>1, RecordDoes DEF Running
    <2> QED BY <1>2, <2>1, <2>2, RecordDoes DEF Ends
  <1>6. CASE CreateAccount(r)
    <2>1. /\ q.pc = "create" /\ UNCHANGED session
          /\ \/ user[q.of].made /\ Ends(r) /\ UNCHANGED user
             \/ /\ ~user[q.of].made /\ user' = [user EXCEPT ![q.of] = NewRow(q.of)]
                /\ Goes(r, "open") /\ n.copy = NewRow(q.of)
      BY <1>6, CreateDoes
    <2>2. CASE Ends(r) /\ UNCHANGED user
      BY <1>3, <2>1, <2>2, RowFree, RowsQuiet DEF Ends, Idle
    <2>3. CASE /\ user' = [user EXCEPT ![q.of] = NewRow(q.of)]
               /\ Goes(r, "open") /\ n.copy = NewRow(q.of)
      <3>1. q.of \in Users /\ NewRow(q.of).made /\ NewRow(q.of).active
        BY <2>1, InHand DEF NewRow
      <3>2. /\ user'[q.of] = NewRow(q.of)
            /\ \A u \in Users : u # q.of => user'[u] = user[u]
            /\ \A u \in Users : user[u].made => user'[u].made
            /\ \A u \in Users : ~user'[u].made => user'[u].rank = 0
        BY <1>1, <2>3, <3>1
      <3>3. \A u \in Users \ crossed' : CutOffComes(u)'
        <4>1. ASSUME NEW u \in Users \ crossed', u # q.of PROVE CutOffComes(u)'
          BY <1>3, <2>1, <2>3, <3>2, <4>1, CutOffStays DEF RowsAlone, Goes
        <4>2. ASSUME NEW u \in Users \ crossed', u = q.of PROVE CutOffComes(u)'
          BY <3>1, <3>2, <4>2 DEF CutOffComes
        <4> QED BY <4>1, <4>2
      <3>4. RequestRow(r)' /\ RowAlone(r)'
        BY <2>3, <3>1, <3>2 DEF Goes, RequestRow, RowAlone
      <3> QED BY <2>3, <3>2, <3>3, <3>4, RowsStep DEF Goes
    <2> QED BY <2>1, <2>2, <2>3
  <1>7. CASE WriteUser(r)
    <2>1. /\ q.pc = "write" /\ UNCHANGED session
          /\ user' = [user EXCEPT ![q.of] = q.copy]
          /\ (q.ends /\ Goes(r, "cutoff")) \/ (~q.ends /\ Ends(r))
      BY <1>7, WriteDoes
    <2>2. q.of \in Users /\ q.copy.made /\ user[q.of].made
      BY <1>0, <2>1, InHand DEF HoldsRow, RequestRow
    <2>3. /\ user'[q.of] = q.copy
          /\ \A u \in Users : u # q.of => user'[u] = user[u]
          /\ \A u \in Users : user[u].made => user'[u].made
          /\ \A u \in Users : ~user'[u].made => user'[u].rank = 0
      BY <1>1, <2>1, <2>2
    <2>4. Others(r) /\ crossed' = crossed /\ n.pc \in {"cutoff", "idle"}
      BY <2>1 DEF Goes, Ends, Idle
    <2>5. \A u \in Users \ crossed' : CutOffComes(u)'
      <3>1. ASSUME NEW u \in Users \ crossed', u # q.of PROVE CutOffComes(u)'
        BY <1>3, <2>1, <2>3, <2>4, <3>1, CutOffStays DEF RowsAlone
      <3>2. ASSUME NEW u \in Users \ crossed', u = q.of PROVE CutOffComes(u)'
        <4>1. CASE q.ends
          <5>1. n.pc = "cutoff" /\ n.of = u
            BY <2>1, <3>2, <4>1 DEF Goes
          <5> QED BY <5>1 DEF CutOffComes
        <4>2. CASE ~q.ends /\ ~q.copy.active
          <5>1. ~user[u].active /\ CutOffComes(u) /\ OneHolder(u)
            BY <1>0, <2>1, <2>2, <2>4, <3>2, <4>2 DEF RowAlone, RowsAlone
          <5>2. \A t \in Requests : req[t].pc = "cutoff" => req[t].of # u
            BY <2>1, <3>2, <5>1 DEF OneHolder
          <5> QED BY <2>1, <2>2, <3>2, <5>1, <5>2 DEF CutOffComes, Running
        <4>3. CASE q.copy.active
          BY <2>3, <3>2, <4>3 DEF CutOffComes
        <4> QED BY <4>1, <4>2, <4>3
      <3> QED BY <2>4, <3>1, <3>2
    <2>6. RequestRow(r)' /\ RowAlone(r)'
      BY <2>4, RowFree
    <2> QED BY <2>3, <2>4, <2>5, <2>6, RowsStep
  <1> QED BY <1>4, <1>5, <1>6, <1>7

\* A session opens for an active account, or all of an account's are ended.
LEMMA SessionRows ==
    ASSUME IInv, IInv', Rows, RowsAlone, \A u \in Users \ crossed : OneHolder(u),
           NEW r \in Requests,
           CutOff(r) \/ \E s \in Sessions, d \in BOOLEAN : OpenSession(r, s, d)
    PROVE  Rows' /\ RowsAlone'
  <1> DEFINE q == req[r]
             n == req'[r]
  <1>0. RequestRow(r) /\ RowAlone(r)
    BY DEF Rows, RowsAlone
  <1>1. ASSUME UNCHANGED user, Others(r), crossed' = crossed, RequestRow(r)', RowAlone(r)',
               \A u \in Users \ crossed' : CutOffComes(u)'
        PROVE  Rows' /\ RowsAlone'
    <2>1. /\ \A u \in Users : user[u].made => user'[u].made
          /\ \A u \in Users : ~user'[u].made => user'[u].rank = 0
      BY <1>1 DEF Rows
    <2> QED BY <1>1, <2>1, RowsStep
  <1>2. CASE CutOff(r)
    <2>1. /\ q.pc = "cutoff" /\ Ends(r) /\ UNCHANGED user
          /\ \A s \in Sessions :
               /\ session'[s].of = session[s].of
               /\ \/ session'[s].state = session[s].state
                  \/ Running(s) /\ session'[s].state = "ended"
               /\ session[s].of = q.of => ~(Running(s)')
      BY <1>2, CutOffDoes
    <2>2. \A s \in Sessions : Running(s)' => Running(s) /\ session'[s].of = session[s].of
      BY <2>1 DEF Running
    <2>3. ASSUME NEW u \in Users \ crossed' PROVE CutOffComes(u)'
      <3>1. CASE u = q.of
        BY <2>1, <3>1 DEF CutOffComes
      <3>2. CASE u # q.of
        BY <2>1, <2>2, <2>3, <3>2, CutOffStays DEF Ends, RowsAlone
      <3> QED BY <3>1, <3>2
    <2>4. RequestRow(r)' /\ RowAlone(r)'
      BY <2>1, RowFree DEF Ends, Idle
    <2> QED BY <1>1, <2>1, <2>3, <2>4 DEF Ends
  <1>3. ASSUME NEW s \in Sessions, NEW d \in BOOLEAN, OpenSession(r, s, d) PROVE Rows' /\ RowsAlone'
    <2>1. /\ q.pc = "open" /\ UNCHANGED user /\ session'[s].of = q.of
          /\ \A t \in Sessions \ {s} : session'[t] = session[t]
          /\ Others(r) /\ crossed' = crossed
          /\ n = Idle \/ (n.pc = "record" /\ n.of = q.of /\ n.copy = q.copy)
      BY <1>3, OpenDoes
    <2>2. q.of \in Users
      BY <2>1, InHand
    <2>3. ASSUME NEW u \in Users \ crossed' PROVE CutOffComes(u)'
      <3>1. CASE u = q.of
        <4>1. user[u].active
          BY <1>0, <2>1, <2>3, <3>1 DEF RequestRow, RowAlone
        <4> QED BY <2>1, <4>1 DEF CutOffComes
      <3>2. CASE u # q.of
        BY <2>1, <2>3, <3>2, CutOffStays DEF RowsAlone, Running
      <3> QED BY <3>1, <3>2
    <2>4. RequestRow(r)' /\ RowAlone(r)'
      <3>1. CASE n = Idle
        BY <3>1, RowFree DEF Idle
      <3>2. CASE n.pc = "record" /\ n.of = q.of /\ n.copy = q.copy
        BY <1>0, <2>1, <3>2 DEF RequestRow, RowAlone
      <3> QED BY <2>1, <3>1, <3>2
    <2> QED BY <1>1, <2>1, <2>3, <2>4
  <1> QED BY <1>2, <1>3

LEMMA RowsKept ==
    ASSUME IInv, IInv', TicketsAlone, Rows, RowsAlone, [Next]_vars
    PROVE  Rows' /\ RowsAlone'
  <1>1. /\ crossed \subseteq crossed'
        /\ \A u \in Users \ crossed : OneHolder(u)
    BY HoldersKept DEF TicketsAlone
  <1>2. ASSUME UNCHANGED <<user, req, crossed>>,
               \A s \in Sessions : Running(s)' => Running(s) /\ session'[s].of = session[s].of
        PROVE  Rows' /\ RowsAlone'
    <2>1. Rows' /\ \A r \in Requests : RowAlone(r)'
      BY <1>2 DEF Rows, RowsAlone, RequestRow, RowAlone
    <2>2. \A u \in Users \ crossed' : CutOffComes(u)'
      BY <1>2 DEF RowsAlone, CutOffComes, Running
    <2> QED BY <2>1, <2>2 DEF RowsAlone
  <1>3. CASE \/ UNCHANGED vars \/ \E u \in Users : ExpireAccess(u)
             \/ \E l \in Links : ExpireLink(l) \/ \E u \in Inboxes : RequestLink(l, u)
    BY <1>2, <1>3 DEF vars, ExpireAccess, ExpireLink, RequestLink, Running
  <1>4. ASSUME NEW s \in Sessions, EndSession(s) PROVE Rows' /\ RowsAlone'
    <2>1. session \in [Sessions -> Session]
      BY DEF IInv, SessionsInv
    <2>2. \A t \in Sessions : /\ session'[t].of = session[t].of
                              /\ session'[t].state \in {session[t].state, "ended"}
      BY <1>4, <2>1 DEF EndSession, Session
    <2> QED BY <1>2, <1>4, <2>2 DEF EndSession, Running
  <1>5. ASSUME NEW r \in Requests,
               Arrive(r) \/ SignIn(r) \/ Refresh(r) \/ Manage(r) \/ Abandon(r)
        PROVE  Rows' /\ RowsAlone'
    BY <1>1, <1>5, QuietRows, WriteRows, SessionRows DEF SignIn, Refresh, Manage
  <1> QED BY <1>3, <1>4, <1>5 DEF Next

LEMMA UInitHolds == Init => UInv
  <1> SUFFICES ASSUME Init PROVE UInv
    OBVIOUS
  <1>1. /\ \A r \in Requests : req[r] = Idle
        /\ \A s \in Sessions : session[s].state = "unused" /\ Unused(s) /\ ~Running(s)
        /\ \A l \in Links : ~Live(l)
    BY DEF Init, Unused, Running, Live
  <1>2. /\ Idle.pc = "idle" /\ Idle.proof = Google /\ Idle.of \notin Users /\ Idle.by \notin Users
    BY UsersAssumption DEF Idle
  <1>3. Tickets
    BY <1>1, <1>2 DEF Tickets, RequestTicket, SessionTicket
  <1>4. TicketsAlone
    BY <1>1, <1>2 DEF TicketsAlone, OneHolder, TicketHeld, TicketUsed, LockComes
  <1>5. Rows
    <2>1. \A u \in Users : ~user[u].made => user[u].rank = 0
      BY DEF Init, NewRow, NoRow
    <2> QED BY <1>1, <1>2, <2>1 DEF Rows, RequestRow
  <1>6. RowsAlone
    BY <1>1, <1>2 DEF RowsAlone, RowAlone, CutOffComes
  <1> QED BY <1>3, <1>4, <1>5, <1>6 DEF UInv

LEMMA UAlways == Spec => []UInv
  <1>1. IInv /\ IInv' /\ UInv /\ [Next]_vars => UInv'
    BY TicketsKept, RowsKept DEF UInv
  <1> QED BY <1>1, UInitHolds, Always, PTL DEF Spec

\* What writes another row into an account that nobody held twice.
LEMMA ChangedStep ==
    ASSUME IInv, UInv, [Next]_vars, NEW u \in Users \ crossed', user[u].made, user'[u] # user[u]
    PROVE  \E r \in Requests : WriteUser(r) /\ req[r].of = u /\ req[r].by # NoUser
  <1>0. /\ user \in [Users -> Row] /\ crossed \subseteq crossed'
        /\ \A r \in Requests : RowAlone(r)
    BY HoldersKept DEF IInv, UsersInv, UInv, TicketsAlone, RowsAlone
  <1>1. UNCHANGED user => FALSE
    OBVIOUS
  <1>2. PICK r \in Requests :
          Arrive(r) \/ SignIn(r) \/ Refresh(r) \/ Manage(r) \/ Abandon(r)
    BY <1>1 DEF Next, vars, ExpireLink, RequestLink, EndSession, ExpireAccess
  <1>3. \/ SyncProfile(r) \/ CreateAccount(r) \/ WriteUser(r)
        \/ \E d \in BOOLEAN : RecordLogin(r, d)
    BY <1>1, <1>2, ArriveDoes, CountDoes, LockDoes, ConsumeDoes, ResolveDoes, NobodyDoes,
       OpenDoes, LoadDoes, RotateDoes, TargetDoes, CutOffDoes, AbandonDoes
       DEF SignIn, Refresh, Manage
  <1>4. ASSUME req[r].pc \in {"sync", "record"}, user' = [user EXCEPT ![req[r].of] = req[r].copy]
        PROVE  FALSE
    BY <1>0, <1>4 DEF RowAlone
  <1>5. CASE SyncProfile(r)
    BY <1>4, <1>5, SyncDoes
  <1>6. CASE \E d \in BOOLEAN : RecordLogin(r, d)
    BY <1>4, <1>6, RecordDoes
  <1>7. CASE CreateAccount(r)
    BY <1>0, <1>1, <1>7, CreateDoes
  <1>8. CASE WriteUser(r)
    <2>1. req[r].pc = "write" /\ user' = [user EXCEPT ![req[r].of] = req[r].copy]
      BY <1>8, WriteDoes
    <2>2. req[r].of = u /\ req[r].copy # user[u]
      BY <1>0, <2>1
    <2>3. req[r].by # NoUser
      BY <1>0, <2>1, <2>2 DEF RowAlone
    <2> QED BY <1>8, <2>2, <2>3
  <1> QED BY <1>3, <1>5, <1>6, <1>7, <1>8

-----------------------------------------------------------------------------
\* However sign-ins, refreshes, profile edits and grants overlap or stop, no
\* session of a disabled account stays open once the request that disabled it is
\* done, unless two requests held the account at once.
THEOREM DisabledOut == Spec => []DisabledEndsSessions
  <1>1. UInv => DisabledEndsSessions
    BY DEF UInv, RowsAlone, CutOffComes, DisabledEndsSessions
  <1> QED BY <1>1, UAlways, PTL

\* A link or a refresh token opens at most one session, unless two requests held
\* its account at once.
THEOREM TicketsOnce == Spec => []OneSessionPerProof
  <1>1. UInv => OneSessionPerProof
    BY DEF UInv, TicketsAlone, TicketUsed, OneSessionPerProof
  <1> QED BY <1>1, UAlways, PTL

\* A link that was guessed at too often has opened nothing and opens nothing.
THEOREM LockedOut == Spec => []LockedLinkOpensNothing
  <1>1. IInv /\ UInv => LockedLinkOpensNothing
    <2> SUFFICES ASSUME IInv, UInv, NEW s \in Sessions, NEW l \in Links, ~Unused(s),
                        session[s].of \notin crossed, session[s].via = <<"link", l>>
                 PROVE  link[l].attempts < MaxAttempts
      BY DEF LockedLinkOpensNothing
    <2>1. TicketUsed(s)
      BY DEF UInv, TicketsAlone
    <2> QED BY <2>1, LinkShape DEF TicketUsed, Guessable, IsLink
  <1> QED BY <1>1, Always, UAlways, PTL

\* The role and the status of an account change only when a manager's request
\* writes them, unless two requests held the account at once.
THEOREM OnlyManagersChange == Spec => ChangedByManagers
  <1>1. IInv /\ UInv /\ [Next]_vars =>
          [\A u \in Users \ crossed' :
             user[u].made /\ user'[u] # user[u] =>
               \E r \in Requests : WriteUser(r) /\ req[r].of = u /\ req[r].by # NoUser]_vars
    BY ChangedStep
  <1> QED BY <1>1, Always, UAlways, PTL DEF Spec, ChangedByManagers

\* As long as no two requests hold an account at once, nobody, alone or with
\* others, leaves the accounts without the highest rank.
THEOREM HighestStays == Spec => HighestRankKept
  <1>1. ASSUME IInv, UInv, [Next]_vars, crossed' = {}, NEW u \in Users
        PROVE  \E v \in Users : user'[v].rank >= user[u].rank
    <2>0. /\ user \in [Users -> Row] /\ user[u].rank \in Nat /\ crossed = {}
          /\ \A r \in Requests : RowAlone(r) /\ RequestRow(r)
          /\ ~user[u].made => user[u].rank = 0
      BY <1>1, HoldersKept DEF IInv, UsersInv, Row, Ranks, UInv, TicketsAlone, RowsAlone, Rows
    <2>1. CASE user'[u] = user[u]
      BY <2>0, <2>1
    <2>2. CASE user'[u] # user[u] /\ user[u].made
      <3>1. PICK r \in Requests : WriteUser(r) /\ req[r].of = u /\ req[r].by # NoUser
        BY <1>1, <2>2, ChangedStep
      <3>2. req[r].pc = "write" /\ user' = [user EXCEPT ![u] = req[r].copy]
        BY <1>1, <3>1, WriteDoes
      <3>3. req[r].by \in Users /\ req[r].by # u
        BY <2>0, <3>1, <3>2 DEF RequestRow
      <3>4. user[req[r].by].rank >= user[u].rank
        BY <2>0, <3>1, <3>2, <3>3 DEF RowAlone
      <3>5. user'[req[r].by] = user[req[r].by]
        BY <2>0, <3>2, <3>3
      <3> QED BY <3>3, <3>4, <3>5
    <2>3. CASE ~user[u].made
      <3>1. user'[u].rank \in Nat
        BY <1>1, NextKeeps DEF IInv, UsersInv, Row, Ranks
      <3> QED BY <2>0, <2>3, <3>1
    <2> QED BY <2>1, <2>2, <2>3
  <1>2. IInv /\ UInv /\ [Next]_vars =>
          [crossed' = {} => \A u \in Users : \E v \in Users : user'[v].rank >= user[u].rank]_vars
    BY <1>1
  <1> QED BY <1>2, Always, UAlways, PTL DEF Spec, HighestRankKept
=============================================================================
