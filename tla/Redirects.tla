------------------------------ MODULE Redirects ------------------------------
(***************************************************************************)
(* internal/redirect: the admin requests on the redirects table and the    *)
(* slug-change trigger, running side by side.                              *)
(*                                                                         *)
(* A request is a goroutine; each of its SQL statements is a step and      *)
(* nothing ties the statements together (the use cases open no             *)
(* transaction), so other requests and slug changes run between any two of *)
(* them, and a request may stop between any two (the client goes away, a   *)
(* statement fails, the server stops).                                     *)
(*                                                                         *)
(* A slug change is a transaction and the trigger's three statements run   *)
(* in it, each on a snapshot of its own (READ COMMITTED): what it wrote is *)
(* seen by it alone until it commits, and whoever wants to write one of    *)
(* its rows waits.  A statement that writes many rows takes two steps: it  *)
(* finds them in its snapshot, and writes them.                            *)
(***************************************************************************)
EXTENDS RedirectTable

CONSTANTS
    Reserved,       \* "/", and the reserved prefixes: never a source
    ContentPaths,   \* URLs of content rows, the ones whose slug can change
    Admins,         \* the requests in flight: each works on a redirect or
                    \* changes the slug of a content row
    Ids,            \* row keys
    MaxChainDepth,  \* hops resolveTarget follows before it gives up
    ActiveInputs,   \* values of is_active the admins send
    NoPath          \* an absent path

ASSUME PathAssumption ==
    /\ Reserved \subseteq Paths
    /\ ContentPaths \subseteq Paths
    /\ NoPath \notin Targets
ASSUME ParameterAssumption ==
    /\ Ids \subseteq Nat \ {0}
    /\ MaxChainDepth \in Nat
    /\ ActiveInputs \subseteq BOOLEAN

VARIABLES
    rows,   \* the redirects table
    req,    \* req[a]: what request a holds in memory, and where it stands
    chg,    \* chg[t]: what slug change t has written and not committed
    past    \* what has happened so far (history): requests or slug changes that
            \* overlapped, a request that stopped, a redirect switched on again

vars == <<rows, req, chg, past>>

\* The entity a request works on: the row it read, or the one it will insert
\* (id 0); `cur` and `hops` are resolveTarget's walk.
Entity == [id : Nat, from : Paths \cup {NoPath}, to : Targets \cup {NoPath},
           active : BOOLEAN]
NoEntity == [id |-> 0, from |-> NoPath, to |-> NoPath, active |-> FALSE]

Stages == {"idle", "resolving", "writing", "finding", "repointing", "deleting"}
Request == [pc : Stages, row : Entity, cur : Targets \cup {NoPath},
            hops : Nat, repoint : BOOLEAN, found : SUBSET Nat]
Idle == [pc |-> "idle", row |-> NoEntity, cur |-> NoPath, hops |-> 0,
         repoint |-> FALSE, found |-> {}]

\* A slug change: the keys of the rows it has written, those rows as it wrote
\* them (a deleted one is not among them), and whether somebody redirected its
\* new path behind its DELETE (history).
Change == [pc : {"idle", "finding", "moving", "recording", "ending"},
           old : Paths \cup {NoPath}, new : Paths \cup {NoPath},
           found : SUBSET Nat, locked : SUBSET Nat, mine : SUBSET Row,
           overtaken : BOOLEAN]
NoChange == [pc |-> "idle", old |-> NoPath, new |-> NoPath, found |-> {},
             locked |-> {}, mine |-> {}, overtaken |-> FALSE]

\* The table as slug change t sees it: its own writes over what is committed.
View(t) == {r \in rows : r.id \notin chg[t].locked} \cup chg[t].mine

\* Nobody but t holds these rows.
FreeFor(t, ids) == \A u \in Admins \ {t} : chg[u].locked \cap ids = {}
Free(ids) == \A u \in Admins : chg[u].locked \cap ids = {}

\* No slug change but t has written a row of source p, so that the unique index
\* makes nobody wait.
SourceFreeFor(t, p) ==
    /\ FreeFor(t, Keys(RowAt(rows, p)))
    /\ \A u \in Admins \ {t} : RowAt(chg[u].mine, p) = {}
SourceFree(p) ==
    /\ Free(Keys(RowAt(rows, p)))
    /\ \A u \in Admins : RowAt(chg[u].mine, p) = {}

\* What a request's memory holds at each stage.
Staged(q) ==
    /\ q.pc # "idle" => q.row.from \in Paths /\ q.row.to \in Targets
    /\ q.pc = "resolving" => q.cur \in Targets
    /\ q.pc \in {"finding", "repointing"} => q.row.id # 0

\* The keys in use; a fresh key is the least one that nobody knows.
UsedIds ==
    Keys(rows) \cup (UNION {{req[a].row.id} \cup req[a].found : a \in Admins})
               \cup (UNION {chg[t].locked \cup chg[t].found : t \in Admins})
IsFresh(id) == /\ id \in Ids \ UsedIds
               /\ \A j \in Ids \ UsedIds : id <= j

Finish(a) == req' = [req EXCEPT ![a] = Idle]

AtRest(a) == req[a].pc = "idle" /\ chg[a].pc = "idle"
AllIdle == \A a \in Admins : AtRest(a)

\* Rows of these sources come into the table.
Overtake(sources) ==
    [t \in Admins |-> [chg[t] EXCEPT !.overtaken =
        \/ @
        \/ chg[t].pc = "finding" /\ chg[t].new \in sources]]

\* Something begins; it overlaps with every request that has not ended.
Begins(what) == past' = past \cup what \cup (IF AllIdle THEN {} ELSE {"overlap"})

-----------------------------------------------------------------------------
Init == /\ rows = {}
        /\ req = [a \in Admins |-> Idle]
        /\ chg = [t \in Admins |-> NoChange]
        /\ past = {}

\* What NewRedirect lets through.
NewRedirect(from, to) == from \notin Reserved /\ from # to

\* CreateRedirect up to its uniqueness query.  A request that fails the
\* validation, or finds its source taken, changes nothing.
StartCreate(a, from, to) ==
    /\ AtRest(a)
    /\ NewRedirect(from, to)
    /\ RowAt(rows, from) = {}
    /\ req' = [req EXCEPT ![a] =
                 [pc |-> "resolving",
                  row |-> [id |-> 0, from |-> from, to |-> to, active |-> TRUE],
                  cur |-> to, hops |-> 0, repoint |-> TRUE, found |-> {}]]
    /\ Begins({})
    /\ UNCHANGED <<rows, chg>>

\* UpdateRedirect up to GetByID.  to = NoPath when the body has no to_path; an
\* is_active that is absent keeps the value just read.
StartUpdate(a, r, to, active) ==
    /\ AtRest(a)
    /\ req' = [req EXCEPT ![a] =
                 [pc |-> IF to = NoPath THEN "writing" ELSE "resolving",
                  row |-> [r EXCEPT !.active = active],
                  cur |-> to, hops |-> 0, repoint |-> FALSE, found |-> {}]]
    /\ Begins(IF active /\ ~r.active THEN {"resume"} ELSE {})
    /\ UNCHANGED <<rows, chg>>

\* DeleteRedirect up to GetByID.
StartDelete(a, r) ==
    /\ AtRest(a)
    /\ req' = [req EXCEPT ![a] = [Idle EXCEPT !.pc = "deleting", !.row = r]]
    /\ Begins({})
    /\ UNCHANGED <<rows, chg>>

\* resolveTarget came back to the source, or walked too far.
WalkLoops(q) == q.hops = MaxChainDepth \/ q.cur = q.row.from

RejectLoop(a) ==
    /\ req[a].pc = "resolving"
    /\ WalkLoops(req[a])
    /\ Finish(a)
    /\ UNCHANGED <<rows, chg>>

\* One turn of resolveTarget's loop: the path redirects, go where it leads.
FollowHop(a) ==
    /\ req[a].pc = "resolving"
    /\ ~WalkLoops(req[a])
    /\ \E r \in ActiveAt(rows, req[a].cur) :
         req' = [req EXCEPT ![a].cur = r.to, ![a].hops = @ + 1]
    /\ UNCHANGED <<rows, chg>>

\* The walk ends: external, no redirect there, or an inactive one.  The entity
\* takes the final target; a create always repoints, an update if it retargets.
Settle(a) ==
    LET q == req[a] IN
    /\ q.pc = "resolving"
    /\ ~WalkLoops(q)
    /\ ActiveAt(rows, q.cur) = {}
    /\ req' = [req EXCEPT ![a] =
                 [pc |-> "writing", row |-> [q.row EXCEPT !.to = q.cur],
                  cur |-> NoPath, hops |-> 0,
                  repoint |-> q.repoint \/ q.cur # q.row.to, found |-> {}]]
    /\ UNCHANGED <<rows, chg>>

\* repo.Create: INSERT, unless the UNIQUE from_path rejects it.
InsertRow(a) ==
    LET e == req[a].row IN
    /\ req[a].pc = "writing"
    /\ e.id = 0
    /\ SourceFree(e.from)
    /\ IF RowAt(rows, e.from) = {}
         THEN \E id \in Ids :
                /\ IsFresh(id)
                /\ rows' = rows \cup {[e EXCEPT !.id = id]}
                /\ req' = [req EXCEPT ![a].pc = "finding", ![a].row.id = id]
                /\ chg' = Overtake({e.from})
         ELSE Finish(a) /\ UNCHANGED <<rows, chg>>

\* repo.Update: UPDATE ... WHERE id; no such row any more is an error.
WriteRow(a) ==
    LET e == req[a].row IN
    /\ req[a].pc = "writing"
    /\ e.id # 0
    /\ Free({e.id})
    /\ rows' = UpdateRows(rows, e.id, e.to, e.active)
    /\ IF req[a].repoint /\ e.id \in Keys(rows)
         THEN req' = [req EXCEPT ![a].pc = "finding"]
         ELSE Finish(a)
    /\ UNCHANGED chg

\* repo.Repoint(from, to), the last statement of a create or a retarget.
FindRepoint(a) ==
    /\ req[a].pc = "finding"
    /\ req' = [req EXCEPT ![a].pc = "repointing",
                          ![a].found = Leading(rows, req[a].row.from)]
    /\ UNCHANGED <<rows, chg>>

SkipRepoint(a) ==
    /\ req[a].pc = "repointing"
    /\ Finish(a)
    /\ UNCHANGED <<rows, chg>>

Repoint(a) ==
    /\ req[a].pc = "repointing"
    /\ Free(req[a].found)
    /\ rows' = RepointRows(rows, req[a].found, req[a].row.from, req[a].row.to)
    /\ Finish(a)
    /\ UNCHANGED chg

\* repo.Delete: DELETE ... WHERE id.
RemoveRow(a) ==
    /\ req[a].pc = "deleting"
    /\ Free({req[a].row.id})
    /\ rows' = {r \in rows : r.id # req[a].row.id}
    /\ Finish(a)
    /\ UNCHANGED chg

\* The request stops where it is: its next statement fails or never runs.
Abandon(a) ==
    /\ req[a].pc # "idle"
    /\ Finish(a)
    /\ past' = past \cup {"stop"}
    /\ UNCHANGED <<rows, chg>>

\* A content row's slug changes: the trigger runs in the transaction of that
\* UPDATE.  First, DELETE FROM redirects WHERE from_path = new_path.
RenameSlug(t, old, new) ==
    /\ AtRest(t)
    /\ old # new
    /\ FreeFor(t, Keys(RowAt(rows, new)))
    /\ chg' = [chg EXCEPT ![t] =
                 [NoChange EXCEPT !.pc = "finding", !.old = old, !.new = new,
                      !.locked = Keys(rows) \ Keys(WithoutSource(rows, new))]]
    /\ Begins({})
    /\ UNCHANGED <<rows, req>>

\* Then UPDATE redirects SET to_path = new_path WHERE to_path = old_path: the
\* rows it finds,
FindMoves(t) ==
    /\ chg[t].pc = "finding"
    /\ chg' = [chg EXCEPT ![t].pc = "moving",
                          ![t].found = Leading(View(t), chg[t].old)]
    /\ UNCHANGED <<rows, req>>

\* and the rows it writes.  chk_redirects_no_self refuses one whose source is
\* the new path, and the transaction fails, the slug change with it.
Moves(t) == {r \in View(t) : r.id \in chg[t].found /\ r.to = chg[t].old}
Refused(t) == \E r \in Moves(t) : r.from = chg[t].new

MoveRows(t) ==
    /\ chg[t].pc = "moving"
    /\ FreeFor(t, chg[t].found)
    /\ chg' = IF Refused(t) THEN [chg EXCEPT ![t] = NoChange]
              ELSE [chg EXCEPT ![t].pc = "recording", ![t].found = {},
                        ![t].locked = @ \cup Keys(Moves(t)),
                        ![t].mine = MoveTargets(Moves(t), chg[t].old, chg[t].new)]
    /\ UNCHANGED <<rows, req>>

\* Last, INSERT ... ON CONFLICT (from_path) DO UPDATE.
RecordRename(t) ==
    LET c == chg[t] IN
    /\ c.pc = "recording"
    /\ SourceFreeFor(t, c.old)
    /\ \E id \in Ids :
         /\ IsFresh(id)
         /\ LET row == RecordedRow(View(t), c.old, c.new, id) IN
              chg' = [chg EXCEPT ![t].pc = "ending",
                          ![t].locked = @ \cup {row.id},
                          ![t].mine = {r \in @ : r.from # c.old} \cup {row}]
    /\ UNCHANGED <<rows, req>>

CommitRename(t) ==
    /\ chg[t].pc = "ending"
    /\ rows' = View(t)
    /\ chg' = [Overtake({r.from : r \in chg[t].mine}) EXCEPT ![t] = NoChange]
    /\ UNCHANGED req

\* The transaction fails: nothing of it stays.
AbortRename(t) ==
    /\ chg[t].pc # "idle"
    /\ chg' = [chg EXCEPT ![t] = NoChange]
    /\ UNCHANGED <<rows, req>>

-----------------------------------------------------------------------------
Start(a) ==
    \/ \E from \in Paths, to \in Targets : StartCreate(a, from, to)
    \/ \E r \in rows, to \in Targets \cup {NoPath} :
         \E active \in ActiveInputs \cup {r.active} : StartUpdate(a, r, to, active)
    \/ \E r \in rows : StartDelete(a, r)

Continue(a) ==
    /\ \/ RejectLoop(a)
       \/ FollowHop(a)
       \/ Settle(a)
       \/ InsertRow(a)
       \/ WriteRow(a)
       \/ FindRepoint(a)
       \/ Repoint(a)
       \/ RemoveRow(a)
    /\ UNCHANGED past

BeginRename(t) == \E old, new \in ContentPaths : RenameSlug(t, old, new)

ContinueRename(t) ==
    /\ \/ FindMoves(t)
       \/ MoveRows(t)
       \/ RecordRename(t)
       \/ CommitRename(t)
       \/ AbortRename(t)
    /\ UNCHANGED past

Next ==
    \E a \in Admins :
        \/ Start(a) \/ Continue(a) \/ Abandon(a)
        \/ BeginRename(a) \/ ContinueRename(a)

\* Requests and slug changes in any interleaving, any of them failing anywhere.
Spec == Init /\ [][Next]_vars

-----------------------------------------------------------------------------
\* Type and key correctness: the table keeps its two keys (id, from_path), a
\* request holds what its stage promises (a known target once it writes), and no
\* two slug changes hold a row at once.
TypeOK ==
    /\ rows \subseteq Row
    /\ UniqueSources(rows)
    /\ req \in [Admins -> Request]
    /\ \A a \in Admins : Staged(req[a])
    /\ chg \in [Admins -> Change]
    /\ \A t \in Admins : FreeFor(t, chg[t].locked)

\* No statement of an admin request ever asks for a redirect from a path to
\* itself, whatever runs in between (chk_redirects_no_self is not enforced on
\* them here, so the table would show it).  The trigger's UPDATE may ask for one
\* and be refused, and the slug change with it, but only if somebody redirected
\* the new path after the trigger's DELETE.
NoSelfRedirect ==
    /\ NoSelf(rows)
    /\ \A t \in Admins : chg[t].pc = "moving" /\ Refused(t) => chg[t].overtaken

\* As long as requests take turns, do not stop half-way and leave switches off,
\* the table is flat between them (Repoint's promise, repository.go:13-14): a
\* visitor makes one hop, however the rows came about.
FlatWhenIdle == past = {} /\ AllIdle => Flat(rows)

\* As long as requests take turns and leave switches off, no visitor is sent
\* round in circles, even when requests stop half-way (resolve.go:11-13).
LoopFree == past \subseteq {"stop"} => Terminating(rows)

\* The promise of migration 000002, "flat and loop-free", of everything.
NeverCircular == Terminating(rows)
=============================================================================
