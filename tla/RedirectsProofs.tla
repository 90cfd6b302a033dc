--------------------------- MODULE RedirectsProofs ---------------------------
(***************************************************************************)
(* What the redirects table keeps true, for any site, any number of        *)
(* requests and any number of rows.                                        *)
(***************************************************************************)
EXTENDS Redirects, TLAPS

(***************************************************************************)
(* The statements, row by row: each row they leave behind is an old one,   *)
(* with at most its target (and its switch) changed, or the inserted one.  *)
(***************************************************************************)
LEMMA RepointRow ==
    ASSUME NEW T \in SUBSET Row, NEW found, NEW old \in Targets, NEW new \in Targets,
           NEW r2 \in RepointRows(T, found, old, new)
    PROVE  /\ r2 \in Row
           /\ \E r \in T : /\ r2.id = r.id /\ r2.from = r.from /\ r2.active = r.active
                           /\ \/ r2 = r /\ ~(r.id \in found /\ r.to = old /\ r.from # new)
                              \/ r.id \in found /\ r.to = old /\ r2.to = new /\ r.from # new
  <1>1. PICK r \in T : r2 = IF r.id \in found /\ r.to = old /\ r.from # new
                              THEN [r EXCEPT !.to = new] ELSE r
    BY DEF RepointRows
  <1>2. r \in Row
    OBVIOUS
  <1>3. CASE r.id \in found /\ r.to = old /\ r.from # new
    BY <1>1, <1>2, <1>3 DEF Row
  <1>4. CASE ~(r.id \in found /\ r.to = old /\ r.from # new)
    BY <1>1, <1>2, <1>4
  <1> QED BY <1>3, <1>4

LEMMA UpdateRow ==
    ASSUME NEW T \in SUBSET Row, NEW id \in Nat, NEW to \in Targets,
           NEW active \in BOOLEAN, NEW r2 \in UpdateRows(T, id, to, active)
    PROVE  /\ r2 \in Row
           /\ \E r \in T : /\ r2.id = r.id /\ r2.from = r.from
                           /\ \/ r2 = r /\ r.id # id
                              \/ r.id = id /\ r2.to = to /\ r2.active = active
  <1>1. PICK r \in T : r2 = IF r.id = id
                              THEN [r EXCEPT !.to = to, !.active = active] ELSE r
    BY DEF UpdateRows
  <1>2. r \in Row
    OBVIOUS
  <1>3. CASE r.id = id
    BY <1>1, <1>2, <1>3 DEF Row
  <1>4. CASE r.id # id
    BY <1>1, <1>2, <1>4
  <1> QED BY <1>3, <1>4

LEMMA MovedRow ==
    ASSUME NEW T \in SUBSET Row, NEW old \in Paths, NEW new \in Paths, old # new,
           NEW m \in MoveTargets(T, old, new)
    PROVE  /\ m \in Row /\ m.to # old
           /\ \E r \in T : /\ m.id = r.id /\ m.from = r.from /\ m.active = r.active
                           /\ m.to = IF r.to = old THEN new ELSE r.to
  <1>1. PICK r \in T : m = IF r.to = old THEN [r EXCEPT !.to = new] ELSE r
    BY DEF MoveTargets
  <1>2. r \in Row
    OBVIOUS
  <1>3. CASE r.to = old
    <2>1. m = [r EXCEPT !.to = new]
      BY <1>1, <1>3
    <2> QED BY <1>2, <1>3, <2>1 DEF Row, Targets
  <1>4. CASE r.to # old
    BY <1>1, <1>2, <1>4
  <1> QED BY <1>3, <1>4

\* Each row of T is there after the move, with its key and source.
LEMMA MoveKeeps ==
    ASSUME NEW T \in SUBSET Row, NEW old \in Paths, NEW new \in Paths, NEW r \in T
    PROVE  \E m \in MoveTargets(T, old, new) : m.id = r.id /\ m.from = r.from
  <1> DEFINE m == IF r.to = old THEN [r EXCEPT !.to = new] ELSE r
  <1>1. m \in MoveTargets(T, old, new)
    BY DEF MoveTargets
  <1>2. r \in Row
    OBVIOUS
  <1>3. m.id = r.id /\ m.from = r.from
    BY <1>2 DEF Row
  <1> QED BY <1>1, <1>3

LEMMA RecordedFacts ==
    ASSUME NEW T \in SUBSET Row, NEW old \in Paths, NEW new \in Paths,
           NEW id \in Nat \ {0}, NEW row, row = RecordedRow(T, old, new, id)
    PROVE  /\ row \in Row /\ row.from = old /\ row.to = new /\ row.active
           /\ \/ row.id = id /\ \A r \in T : r.from # old
              \/ \E r \in T : r.id = row.id /\ r.from = old
  <1>1. CASE RowAt(T, old) = {}
    <2>1. row = [id |-> id, from |-> old, to |-> new, active |-> TRUE]
      BY <1>1 DEF RecordedRow
    <2>2. \A r \in T : r.from # old
      BY <1>1 DEF RowAt
    <2> QED BY <2>1, <2>2 DEF Row, Targets
  <1>2. CASE RowAt(T, old) # {}
    <2> DEFINE x == CHOOSE r \in RowAt(T, old) : TRUE
    <2>1. x \in RowAt(T, old)
      BY <1>2
    <2>2. x \in T /\ x.from = old
      BY <2>1 DEF RowAt
    <2>3. row = [id |-> x.id, from |-> old, to |-> new, active |-> TRUE]
      BY <1>2 DEF RecordedRow
    <2> HIDE DEF x
    <2>4. x.id \in Nat \ {0}
      BY <2>2 DEF Row
    <2> QED BY <2>2, <2>3, <2>4 DEF Row, Targets
  <1> QED BY <1>1, <1>2

LEMMA RenameRow ==
    ASSUME NEW T \in SUBSET Row, NEW old \in Paths, NEW new \in Paths, old # new,
           NEW id \in Nat \ {0}, NEW r2 \in RenameRows(T, old, new, id)
    PROVE  /\ r2 \in Row
           /\ r2.from # new
           /\ r2.to # old
           /\ \/ /\ r2.from = old /\ r2.to = new /\ r2.active
                 /\ \/ r2.id = id /\ \A r \in T : r.from # old
                    \/ \E r \in T : r.id = r2.id /\ r.from = old
              \/ \E r \in T : /\ r2.id = r.id /\ r2.from = r.from
                              /\ r2.active = r.active /\ r.from # old
                              /\ r2.to = IF r.to = old THEN new ELSE r.to
  <1> DEFINE kept == WithoutSource(T, new)
             moved == MoveTargets(kept, old, new)
             row == RecordedRow(moved, old, new, id)
  <1>0. /\ r2 \in {r \in moved : r.from # old} \/ r2 = row
        /\ row = RecordedRow(moved, old, new, id)
    BY DEF RenameRows, RecordMove
  <1> HIDE DEF row
  <1>1. kept \in SUBSET Row /\ \A r \in kept : r \in T /\ r.from # new
    BY DEF WithoutSource
  <1>2. \A r \in T : r.from = old => r \in kept
    BY DEF WithoutSource
  <1> HIDE DEF kept
  <1>3. \A m \in moved : /\ m \in Row /\ m.to # old
                         /\ \E r \in kept : /\ m.id = r.id /\ m.from = r.from
                                            /\ m.active = r.active
                                            /\ m.to = IF r.to = old THEN new ELSE r.to
    BY <1>1, MovedRow
  <1>4. \A r \in kept : \E m \in moved : m.id = r.id /\ m.from = r.from
    BY <1>1, MoveKeeps
  <1> HIDE DEF moved
  <1>5. moved \in SUBSET Row
    BY <1>3
  <1>6. CASE r2 = row
    <2>1. /\ r2 \in Row /\ r2.from = old /\ r2.to = new /\ r2.active
          /\ \/ r2.id = id /\ \A r \in moved : r.from # old
             \/ \E r \in moved : r.id = r2.id /\ r.from = old
      BY <1>0, <1>5, <1>6, RecordedFacts
    <2>2. (\A r \in moved : r.from # old) => \A r \in T : r.from # old
      BY <1>2, <1>4
    <2>3. \A m \in moved : \E r \in T : m.id = r.id /\ m.from = r.from
      BY <1>1, <1>3
    <2> QED BY <2>1, <2>2, <2>3
  <1>7. CASE r2 \in moved /\ r2.from # old
    BY <1>1, <1>3, <1>7
  <1> QED BY <1>0, <1>6, <1>7

LEMMA UniqueKept ==
    ASSUME NEW T, NEW T2, UniqueSources(T),
           \A r2 \in T2 : \E r \in T : r2.id = r.id /\ r2.from = r.from,
           \A r2, s2 \in T2 : r2.id = s2.id => r2 = s2
    PROVE  UniqueSources(T2)
  BY DEF UniqueSources

(***************************************************************************)
(* Any interleaving.  A request that is about to write never holds a       *)
(* target equal to its source, and the row whose key it holds, if it still *)
(* exists, still has the source it read: keys are never reused under it.   *)
(***************************************************************************)
Disciplined(a) ==
    /\ req[a].pc \in {"writing", "finding", "repointing"} => req[a].row.from # req[a].row.to
    /\ \A r \in rows : r.id = req[a].row.id => r.from = req[a].row.from

TableInv == rows \subseteq Row /\ UniqueSources(rows) /\ NoSelf(rows)

AdminInv == /\ TableInv
            /\ req \in [Admins -> Request]
            /\ \A a \in Admins : Staged(req[a]) /\ Disciplined(a)

\* Every row after the step keeps the key and source of an old one, or has a
\* key no request knows.
KeysKept ==
    \A r2 \in rows' : \/ \E r \in rows : r.id = r2.id /\ r.from = r2.from
                      \/ \A b \in Admins : req[b].row.id # r2.id

LEMMA IdleFacts ==
    /\ Idle \in Request
    /\ Staged(Idle)
    /\ Idle.pc = "idle" /\ Idle.row.id = 0
  BY DEF Idle, NoEntity, Request, Stages, Entity, Staged

\* A request that the step leaves alone, or ends, stays disciplined.
LEMMA OthersDisciplined ==
    ASSUME AdminInv, KeysKept, rows' \subseteq Row, NEW b \in Admins,
           req'[b] = req[b] \/ req'[b] = Idle
    PROVE  Disciplined(b)'
  <1>1. CASE req'[b] = Idle
    <2>1. \A r \in rows' : r.id # 0
      BY DEF Row
    <2> QED BY <1>1, <2>1, IdleFacts DEF Disciplined
  <1>2. CASE req'[b] = req[b]
    <2>2. ASSUME NEW r2 \in rows', r2.id = req[b].row.id
          PROVE  r2.from = req[b].row.from
      BY <2>2 DEF KeysKept, AdminInv, Disciplined
    <2> QED BY <1>2, <2>2 DEF AdminInv, Disciplined
  <1> QED BY <1>1, <1>2

\* A step changes the memory of one request, the table, or both.
LEMMA OneStep ==
    ASSUME AdminInv, NEW a \in Admins, NEW q \in Request,
           req' = [req EXCEPT ![a] = q], Staged(q),
           KeysKept, TableInv', Disciplined(a)'
    PROVE  AdminInv'
  <1>1. req \in [Admins -> Request]
    BY DEF AdminInv, TableInv
  <1>2. \A b \in Admins : req'[b] = IF b = a THEN q ELSE req[b]
    BY <1>1
  <1>3. \A b \in Admins : Disciplined(b)'
    <2> SUFFICES ASSUME NEW b \in Admins, b # a PROVE Disciplined(b)'
      OBVIOUS
    <2> QED BY <1>2, OthersDisciplined DEF TableInv
  <1>4. /\ req' \in [Admins -> Request]
        /\ \A b \in Admins : Staged(req'[b])
    BY <1>1, <1>2 DEF AdminInv
  <1> QED BY <1>3, <1>4 DEF AdminInv

LEMMA SameTable ==
    ASSUME AdminInv, rows' = rows
    PROVE  KeysKept /\ TableInv'
  BY DEF KeysKept, AdminInv, TableInv, UniqueSources, NoSelf

LEMMA FinishStep ==
    ASSUME AdminInv, NEW a \in Admins, Finish(a), KeysKept, TableInv'
    PROVE  AdminInv'
  <1>1. req'[a] = Idle
    BY DEF Finish, AdminInv, TableInv
  <1>2. Disciplined(a)'
    BY <1>1, OthersDisciplined DEF TableInv
  <1> QED BY <1>2, IdleFacts, OneStep DEF Finish
LEMMA StartSafe ==
    ASSUME AdminInv, NEW a \in Admins, Start(a)
    PROVE  AdminInv'
  <1>0. /\ req \in [Admins -> Request] /\ rows \subseteq Row
        /\ req[a].row \in Entity
    BY DEF AdminInv, TableInv, Request
  <1>1. ASSUME NEW from \in Paths, NEW to \in Targets, StartCreate(a, from, to)
        PROVE  AdminInv'
    <2> DEFINE row == [id |-> 0, from |-> from, to |-> to, active |-> TRUE]
               q == [pc |-> "resolving", row |-> row, cur |-> to, hops |-> 0,
                     repoint |-> TRUE, found |-> {}]
    <2>1. req' = [req EXCEPT ![a] = q] /\ rows' = rows
      BY <1>1 DEF StartCreate
    <2>2. q \in Request /\ Staged(q)
      BY DEF Request, Stages, Entity, Staged
    <2>3. Disciplined(a)'
      BY <1>0, <2>1 DEF Disciplined, Row
    <2> QED BY <2>1, <2>2, <2>3, SameTable, OneStep
  <1>2. ASSUME NEW r \in rows, NEW to \in Targets \cup {NoPath},
               NEW active \in ActiveInputs \cup {r.active},
               StartUpdate(a, r, to, active)
        PROVE  AdminInv'
    <2> DEFINE row == [r EXCEPT !.active = active]
               q == [pc |-> IF to = NoPath THEN "writing" ELSE "resolving",
                     row |-> row, cur |-> to, hops |-> 0, repoint |-> FALSE,
                     found |-> {}]
    <2>1. req' = [req EXCEPT ![a] = q] /\ rows' = rows
      BY <1>2 DEF StartUpdate
    <2>2. r \in Row /\ active \in BOOLEAN
      BY <1>0, ParameterAssumption DEF Row
    <2>3. /\ row \in Entity /\ row.id = r.id /\ row.from = r.from /\ row.to = r.to
          /\ r.from \in Paths /\ r.to \in Targets
      BY <2>2 DEF Row, Entity
    <2>4. q \in Request /\ Staged(q)
      BY <2>3 DEF Request, Stages, Staged
    <2>5. req'[a].row.id = r.id /\ req'[a].row.from = r.from /\ req'[a].row.to = r.to
      BY <1>0, <2>1, <2>3
    <2>6. Disciplined(a)'
      BY <2>1, <2>5 DEF Disciplined, AdminInv, TableInv, UniqueSources, NoSelf
    <2> QED BY <2>1, <2>4, <2>6, SameTable, OneStep
  <1>3. ASSUME NEW r \in rows, StartDelete(a, r)
        PROVE  AdminInv'
    <2> DEFINE q == [Idle EXCEPT !.pc = "deleting", !.row = r]
    <2>1. req' = [req EXCEPT ![a] = q] /\ rows' = rows
      BY <1>3 DEF StartDelete
    <2>2. r \in Row
      BY <1>0
    <2>3. q.pc = "deleting" /\ q.row = r /\ q \in Request /\ Staged(q)
      BY <2>2 DEF Idle, Request, Stages, Staged, Row, Entity, NoEntity
    <2>4. Disciplined(a)'
      BY <1>0, <2>1, <2>3 DEF Disciplined, AdminInv, TableInv, UniqueSources
    <2> QED BY <2>1, <2>3, <2>4, SameTable, OneStep
  <1> QED BY <1>1, <1>2, <1>3 DEF Start

LEMMA WalkSafe ==
    ASSUME AdminInv, NEW a \in Admins, FollowHop(a) \/ Settle(a)
    PROVE  AdminInv'
  <1>0. /\ req \in [Admins -> Request] /\ rows \subseteq Row
        /\ req[a] \in Request /\ req[a].row \in Entity /\ Staged(req[a])
    BY DEF AdminInv, TableInv, Request
  <1>1. CASE FollowHop(a)
    <2>1. PICK r \in rows : req' = [req EXCEPT ![a].cur = r.to, ![a].hops = @ + 1]
      BY <1>1 DEF FollowHop, ActiveAt
    <2> DEFINE q == [pc |-> req[a].pc, row |-> req[a].row, cur |-> r.to,
                     hops |-> req[a].hops + 1, repoint |-> req[a].repoint,
                     found |-> req[a].found]
    <2>2. req' = [req EXCEPT ![a] = q] /\ rows' = rows
      BY <1>0, <1>1, <2>1 DEF FollowHop, Request
    <2>3. r.to \in Targets
      BY <1>0 DEF Row
    <2>4. q \in Request /\ Staged(q)
      BY <1>0, <2>3 DEF Request, Staged
    <2>5. req'[a].row = req[a].row /\ req'[a].pc = req[a].pc
      BY <1>0, <2>2 DEF Request
    <2>6. Disciplined(a)'
      BY <2>2, <2>5 DEF Disciplined, AdminInv
    <2> QED BY <2>2, <2>4, <2>6, SameTable, OneStep
  <1>2. CASE Settle(a)
    <2> DEFINE row == [req[a].row EXCEPT !.to = req[a].cur]
               q == [pc |-> "writing", row |-> row, cur |-> NoPath, hops |-> 0,
                     repoint |-> (req[a].repoint \/ req[a].cur # req[a].row.to),
                     found |-> {}]
    <2>1. rows' = rows /\ req[a].pc = "resolving" /\ req[a].cur # req[a].row.from
      BY <1>2 DEF Settle, WalkLoops
    <2>2. req' = [req EXCEPT ![a] = q]
      BY <1>2 DEF Settle
    <2>3. req[a].cur \in Targets /\ row \in Entity /\ row.id = req[a].row.id
          /\ row.from = req[a].row.from /\ row.to = req[a].cur
      BY <1>0, <2>1 DEF Staged, Entity
    <2>4. q \in Request /\ Staged(q)
      BY <1>0, <2>1, <2>3 DEF Request, Staged, Stages
    <2>5. req'[a].row.id = req[a].row.id /\ req'[a].row.from = req[a].row.from
          /\ req'[a].row.to = req[a].cur
      BY <1>0, <2>2, <2>3
    <2>6. Disciplined(a)'
      BY <2>1, <2>5 DEF Disciplined, AdminInv
    <2> QED BY <2>1, <2>2, <2>4, <2>6, SameTable, OneStep
  <1> QED BY <1>1, <1>2

LEMMA InsertSafe ==
    ASSUME AdminInv, NEW a \in Admins, InsertRow(a)
    PROVE  AdminInv'
  <1> DEFINE e == req[a].row
  <1>0. /\ req \in [Admins -> Request] /\ rows \subseteq Row
        /\ req[a] \in Request /\ e \in Entity /\ Staged(req[a])
        /\ req[a].pc = "writing" /\ e.from # e.to /\ UniqueSources(rows) /\ NoSelf(rows)
    BY DEF AdminInv, TableInv, Request, InsertRow, Disciplined
  <1>1. CASE RowAt(rows, e.from) = {}
    <2>1. PICK id \in Ids : /\ IsFresh(id)
                            /\ rows' = rows \cup {[e EXCEPT !.id = id]}
                            /\ req' = [req EXCEPT ![a].pc = "finding", ![a].row.id = id]
      BY <1>1 DEF InsertRow
    <2> DEFINE row == [e EXCEPT !.id = id]
               q == [req[a] EXCEPT !.pc = "finding", !.row = row]
    <2>2. req' = [req EXCEPT ![a] = q]
      BY <1>0, <2>1 DEF Request, Entity
    <2>3. row \in Row /\ row.id = id /\ row.from = e.from /\ row.to = e.to
      BY <1>0, <2>1, ParameterAssumption DEF Row, Entity, Staged
    <2>4. q \in Request /\ Staged(q) /\ q.row = row
      BY <1>0, <2>3 DEF Request, Staged, Stages, Row, Entity
    <2>5. id \in Ids \ UsedIds
      BY <2>1 DEF IsFresh
    <2>6. \A r \in rows : r.id # id /\ r.from # e.from
      BY <1>1, <2>5 DEF UsedIds, Keys, RowAt
    <2>10. req'[a].row.id = id /\ req'[a].row.from = e.from /\ req'[a].row.to = e.to
      BY <1>0, <2>2, <2>3, <2>4
    <2>11. rows' = rows \cup {row}
      BY <2>1
    <2> HIDE DEF row, q, e
    <2>12. \A b \in Admins : req[b].row.id # id
      BY <2>5 DEF UsedIds
    <2>7. rows' \subseteq Row /\ NoSelf(rows') /\ KeysKept
      BY <1>0, <2>11, <2>12, <2>3 DEF NoSelf, KeysKept
    <2>8. UniqueSources(rows')
      BY <1>0, <2>11, <2>3, <2>6 DEF UniqueSources
    <2>9. Disciplined(a)'
      BY <1>0, <2>11, <2>10, <2>3, <2>6 DEF Disciplined
    <2> QED BY <2>2, <2>4, <2>7, <2>8, <2>9, OneStep DEF TableInv
  <1>2. CASE RowAt(rows, e.from) # {}
    BY <1>2, SameTable, FinishStep DEF InsertRow
  <1> QED BY <1>1, <1>2
LEMMA WriteSafe ==
    ASSUME AdminInv, NEW a \in Admins, WriteRow(a)
    PROVE  AdminInv'
  <1> DEFINE e == req[a].row
  <1>0. /\ req \in [Admins -> Request] /\ rows \subseteq Row
        /\ req[a] \in Request /\ e \in Entity /\ Staged(req[a])
        /\ req[a].pc = "writing" /\ e.from # e.to /\ UniqueSources(rows) /\ NoSelf(rows)
        /\ \A r \in rows : r.id = e.id => r.from = e.from
    BY DEF AdminInv, TableInv, Request, WriteRow, Disciplined
  <1>1. e.id \in Nat /\ e.id # 0 /\ e.to \in Targets /\ e.active \in BOOLEAN
    BY <1>0 DEF WriteRow, Staged, Entity
  <1>2. rows' = UpdateRows(rows, e.id, e.to, e.active)
    BY DEF WriteRow
  <1> HIDE DEF e
  <1>3. rows' \subseteq Row /\ KeysKept
    BY <1>0, <1>1, <1>2, UpdateRow DEF KeysKept
  <1>4. \A r2 \in rows' : \E r \in rows :
          /\ r2.id = r.id /\ r2.from = r.from
          /\ \/ r2 = r /\ r.id # e.id
             \/ r.id = e.id /\ r2.to = e.to /\ r2.active = e.active
    BY <1>0, <1>1, <1>2, UpdateRow
  <1>5. ASSUME NEW r2 \in rows', NEW s2 \in rows', r2.id = s2.id
        PROVE  r2 = s2
    <2>1. r2.from = s2.from
      BY <1>0, <1>4, <1>5 DEF UniqueSources
    <2>2. r2 \in Row /\ s2 \in Row
      BY <1>3
    <2>3. r2.to = s2.to /\ r2.active = s2.active
      BY <1>0, <1>4, <1>5 DEF UniqueSources
    <2> QED BY <1>5, <2>1, <2>2, <2>3 DEF Row
  <1>6. TableInv'
    <2>1. UniqueSources(rows')
      BY <1>0, <1>4, <1>5, UniqueKept
    <2>2. NoSelf(rows')
      BY <1>0, <1>4 DEF NoSelf
    <2> QED BY <1>3, <2>1, <2>2 DEF TableInv
  <1>7. CASE req[a].repoint /\ e.id \in Keys(rows)
    <2> DEFINE q == [req[a] EXCEPT !.pc = "finding"]
    <2>1. req' = [req EXCEPT ![a] = q]
      BY <1>0, <1>7 DEF WriteRow, e
    <2>2. q \in Request /\ q.row = e /\ q.pc = "finding" /\ Staged(q)
      BY <1>0, <1>1 DEF Request, Stages, Staged, e
    <2>3. req'[a].row = e
      BY <1>0, <2>1, <2>2
    <2>4. Disciplined(a)'
      BY <1>0, <1>4, <2>3 DEF Disciplined
    <2> QED BY <1>3, <1>6, <2>1, <2>2, <2>4, OneStep
  <1>8. CASE ~(req[a].repoint /\ e.id \in Keys(rows))
    BY <1>3, <1>6, <1>8, FinishStep DEF WriteRow, e
  <1> QED BY <1>7, <1>8

LEMMA RepointSafe ==
    ASSUME AdminInv, NEW a \in Admins, Repoint(a)
    PROVE  AdminInv'
  <1> DEFINE old == req[a].row.from
             new == req[a].row.to
             found == req[a].found
  <1>0. /\ rows \subseteq Row /\ UniqueSources(rows) /\ NoSelf(rows)
        /\ old \in Targets /\ new \in Targets
    BY DEF AdminInv, TableInv, Repoint, Staged, Targets
  <1>1. rows' = RepointRows(rows, found, old, new) /\ Finish(a)
    BY DEF Repoint
  <1> HIDE DEF old, new, found
  <1>2. \A r2 \in rows' : /\ r2 \in Row
                          /\ \E r \in rows :
                               /\ r2.id = r.id /\ r2.from = r.from /\ r2.active = r.active
                               /\ \/ r2 = r /\ ~(r.id \in found /\ r.to = old /\ r.from # new)
                                  \/ r.id \in found /\ r.to = old /\ r2.to = new /\ r.from # new
    BY <1>0, <1>1, RepointRow
  <1>3. KeysKept
    BY <1>2 DEF KeysKept
  <1>4. ASSUME NEW r2 \in rows', NEW s2 \in rows', r2.id = s2.id
        PROVE  r2 = s2
    <2>1. r2.from = s2.from /\ r2.to = s2.to /\ r2.active = s2.active
      BY <1>0, <1>2, <1>4 DEF UniqueSources
    <2> QED BY <1>2, <1>4, <2>1 DEF Row
  <1>5. UniqueSources(rows')
    BY <1>0, <1>2, <1>4, UniqueKept
  <1>6. NoSelf(rows')
    BY <1>0, <1>2 DEF NoSelf
  <1> QED BY <1>1, <1>2, <1>3, <1>5, <1>6, FinishStep DEF TableInv


LEMMA FindSafe ==
    ASSUME AdminInv, NEW a \in Admins, FindRepoint(a)
    PROVE  AdminInv'
  <1> DEFINE ids == Leading(rows, req[a].row.from)
             q == [req[a] EXCEPT !.pc = "repointing", !.found = ids]
  <1>0. /\ req \in [Admins -> Request] /\ rows \subseteq Row /\ rows' = rows
        /\ req[a] \in Request /\ Staged(req[a]) /\ req[a].pc = "finding"
    BY DEF AdminInv, TableInv, FindRepoint
  <1>1. ids \in SUBSET Nat
    BY <1>0 DEF Leading, Keys, Row
  <1>2. req' = [req EXCEPT ![a] = q]
    BY <1>0 DEF FindRepoint
  <1>3. q \in Request /\ q.row = req[a].row /\ q.pc = "repointing"
    BY <1>0, <1>1 DEF Request, Stages
  <1>4. Staged(q) /\ req'[a].row = req[a].row
    BY <1>0, <1>2, <1>3 DEF Staged
  <1>5. Disciplined(a)'
    BY <1>0, <1>4 DEF Disciplined, AdminInv
  <1> QED BY <1>0, <1>2, <1>3, <1>4, <1>5, SameTable, OneStep

LEMMA RemoveSafe ==
    ASSUME AdminInv, NEW a \in Admins, RemoveRow(a)
    PROVE  AdminInv'
  <1>1. rows' \subseteq rows
    BY DEF RemoveRow
  <1>2. KeysKept /\ TableInv'
    BY <1>1 DEF KeysKept, AdminInv, TableInv, UniqueSources, NoSelf
  <1> QED BY <1>2, FinishStep DEF RemoveRow

(***************************************************************************)
(* Slug changes.  What a transaction has written either replaces a row of  *)
(* the table, which it has locked and so is still there, or is a new row   *)
(* under a key and a source nobody else has.                               *)
(***************************************************************************)
Behind(m) == \E r \in rows : r.id = m.id /\ r.from = m.from

Inserted(m) ==
    /\ \A r \in rows : r.id # m.id /\ r.from # m.from
    /\ \A b \in Admins : req[b].row.id # m.id /\ m.id \notin chg[b].found

\* A row of source new that the UPDATE may move.
Ahead(c, r) == /\ r.id \notin c.locked /\ r.from = c.new
               /\ c.pc = "moving" => r.id \in c.found

Sound(t) ==
    LET c == chg[t] IN
    /\ c.pc # "idle" => c.old \in Paths /\ c.new \in Paths /\ c.old # c.new
    /\ \A m \in c.mine : m.id \in c.locked /\ m.from # m.to
    /\ \A m \in c.mine : Behind(m) \/ Inserted(m)
    /\ UniqueSources(c.mine)
    /\ \A r \in rows : r.id \in c.locked =>
          r.from = c.new \/ \E m \in c.mine : m.id = r.id /\ m.from = r.from
    /\ c.pc \in {"finding", "moving"} =>
          c.mine = {} /\ \A r \in rows : Ahead(c, r) => c.overtaken

Apart == \A t, u \in Admins : t # u =>
            \A m \in chg[t].mine, n \in chg[u].mine : m.from # n.from

ChangeInv == /\ chg \in [Admins -> Change]
             /\ \A t \in Admins : FreeFor(t, chg[t].locked)
             /\ \A t \in Admins : Sound(t)
             /\ Apart

SafetyInv == AdminInv /\ ChangeInv

\* A slug change that a step leaves as it was, but for its history.
Kept(t) == /\ chg'[t].pc = chg[t].pc
           /\ chg'[t].old = chg[t].old /\ chg'[t].new = chg[t].new
           /\ chg'[t].found = chg[t].found /\ chg'[t].locked = chg[t].locked
           /\ chg'[t].mine = chg[t].mine
           /\ chg[t].overtaken => chg'[t].overtaken

LEMMA NoChangeFacts ==
    /\ NoChange \in Change /\ NoChange.pc = "idle" /\ NoChange.found = {}
    /\ NoChange.locked = {} /\ NoChange.mine = {} /\ NoChange.overtaken = FALSE
  BY DEF NoChange, Change

LEMMA OvertakeFacts ==
    ASSUME chg \in [Admins -> Change], NEW S,
           NEW t \in Admins
    PROVE  /\ Overtake(S) \in [Admins -> Change]
           /\ Overtake(S)[t].pc = chg[t].pc
           /\ Overtake(S)[t].old = chg[t].old /\ Overtake(S)[t].new = chg[t].new
           /\ Overtake(S)[t].found = chg[t].found /\ Overtake(S)[t].locked = chg[t].locked
           /\ Overtake(S)[t].mine = chg[t].mine
           /\ chg[t].overtaken => Overtake(S)[t].overtaken
           /\ chg[t].pc = "finding" /\ chg[t].new \in S => Overtake(S)[t].overtaken
  <1> DEFINE c(u) == [chg[u] EXCEPT !.overtaken =
                        \/ @
                        \/ chg[u].pc = "finding" /\ chg[u].new \in S]
  <1>1. ASSUME NEW u \in Admins
        PROVE  /\ c(u) \in Change
               /\ c(u).pc = chg[u].pc /\ c(u).old = chg[u].old /\ c(u).new = chg[u].new
               /\ c(u).found = chg[u].found /\ c(u).locked = chg[u].locked
               /\ c(u).mine = chg[u].mine
               /\ c(u).overtaken = (\/ chg[u].overtaken
                                    \/ chg[u].pc = "finding" /\ chg[u].new \in S)
    BY DEF Change
  <1>2. Overtake(S) = [u \in Admins |-> c(u)]
    BY DEF Overtake
  <1> HIDE DEF c
  <1> QED BY <1>1, <1>2

\* A step that changes the rows, and leaves each slug change as it was or ends it.
LEMMA RowsChange ==
    ASSUME ChangeInv, chg' \in [Admins -> Change],
           \A t \in Admins : chg'[t] = NoChange \/ Kept(t),
           \A t \in Admins : chg'[t] # NoChange => \A r \in rows :
               r.id \in chg[t].locked => \E r2 \in rows' : r2.id = r.id /\ r2.from = r.from,
           \A r2 \in rows' :
               \/ \E r \in rows : r2.id = r.id /\ r2.from = r.from
               \/ \A t \in Admins : chg'[t] # NoChange =>
                    /\ r2.id \notin chg[t].locked /\ r2.id \notin chg[t].found
                    /\ \A m \in chg[t].mine : m.from # r2.from
                    /\ chg[t].pc = "finding" /\ chg[t].new = r2.from => chg'[t].overtaken,
           \A t, b \in Admins : \A m \in chg[t].mine :
               req'[b].row.id = m.id => \/ req[b].row.id = m.id
                                        \/ \E r \in rows : r.id = m.id
    PROVE  ChangeInv'
  <1>1. \A t \in Admins : /\ chg'[t].locked \subseteq chg[t].locked
                          /\ chg'[t].found \subseteq chg[t].found
                          /\ chg'[t].mine \subseteq chg[t].mine
    BY NoChangeFacts DEF Kept
  <1>2. \A t \in Admins : FreeFor(t, chg[t].locked)'
    BY <1>1 DEF ChangeInv, FreeFor
  <1>3. Apart'
    BY <1>1 DEF ChangeInv, Apart
  <1>4. ASSUME NEW t \in Admins
        PROVE  Sound(t)'
    <2>1. CASE chg'[t] = NoChange
      BY <2>1, NoChangeFacts DEF Sound, UniqueSources
    <2>2. CASE chg'[t] # NoChange
      <3>0. Kept(t) /\ Sound(t)
        BY <2>2 DEF ChangeInv
      <3>1. ASSUME NEW m \in chg[t].mine
            PROVE  Behind(m)' \/ Inserted(m)'
        <4>1. m.id \in chg[t].locked
          BY <3>0 DEF Sound
        <4>2. CASE Behind(m)
          <5>1. PICK r \in rows : r.id = m.id /\ r.from = m.from
            BY <4>2 DEF Behind
          <5> QED BY <2>2, <4>1, <5>1 DEF Behind
        <4>3. CASE Inserted(m)
          <5>1. \A r2 \in rows' : r2.id # m.id /\ r2.from # m.from
            BY <2>2, <4>1, <4>3 DEF Inserted
          <5>2. \A b \in Admins : req'[b].row.id # m.id /\ m.id \notin chg'[b].found
            BY <1>1, <4>3 DEF Inserted
          <5> QED BY <5>1, <5>2 DEF Inserted
        <4> QED BY <3>0, <4>2, <4>3 DEF Sound
      <3>2. \A r2 \in rows' : r2.id \in chg[t].locked =>
               r2.from = chg[t].new \/ \E m \in chg[t].mine : m.id = r2.id /\ m.from = r2.from
        BY <2>2, <3>0 DEF Sound
      <3>3. ASSUME NEW r2 \in rows', chg[t].pc \in {"finding", "moving"}, Ahead(chg[t], r2)
            PROVE  chg'[t].overtaken
        <4>1. CASE \E r \in rows : r2.id = r.id /\ r2.from = r.from
          BY <3>0, <3>3, <4>1 DEF Sound, Ahead, Kept
        <4>2. CASE ~\E r \in rows : r2.id = r.id /\ r2.from = r.from
          BY <2>2, <3>3, <4>2 DEF Ahead
        <4> QED BY <4>1, <4>2
      <3>5. \A r2 : Ahead(chg'[t], r2) => Ahead(chg[t], r2)
        BY <3>0 DEF Kept, Ahead
      <3> QED BY <3>0, <3>1, <3>2, <3>3, <3>5 DEF Sound, Kept
    <2> QED BY <2>1, <2>2
  <1> QED BY <1>2, <1>3, <1>4 DEF ChangeInv

\* A step of one slug change that writes nothing to the table.
LEMMA OneChange ==
    ASSUME ChangeInv, rows' = rows, req' = req,
           NEW t \in Admins, NEW c \in Change, chg' = [chg EXCEPT ![t] = c],
           Sound(t)',
           \A u \in Admins \ {t} : /\ chg[u].locked \cap c.locked = {}
                                   /\ \A m \in c.mine, n \in chg[u].mine : m.from # n.from
                                   /\ \A n \in chg[u].mine : Inserted(n) => n.id \notin c.found
    PROVE  ChangeInv'
  <1>1. /\ chg' \in [Admins -> Change]
        /\ \A u \in Admins : chg'[u] = IF u = t THEN c ELSE chg[u]
    BY DEF ChangeInv
  <1>2. \A u \in Admins : FreeFor(u, chg[u].locked)'
    BY <1>1 DEF ChangeInv, FreeFor
  <1>3. Apart'
    BY <1>1 DEF ChangeInv, Apart
  <1>4. ASSUME NEW u \in Admins, u # t
        PROVE  Sound(u)'
    <2>1. chg'[u] = chg[u] /\ Sound(u)
      BY <1>1, <1>4 DEF ChangeInv
    <2>2. \A n \in chg[u].mine : Behind(n) => Behind(n)'
      BY DEF Behind
    <2>3. \A n \in chg[u].mine : Inserted(n) => Inserted(n)'
      BY <1>1, <1>4 DEF Inserted
    <2>4. \A r : Ahead(chg'[u], r) <=> Ahead(chg[u], r)
      BY <2>1
    <2> QED BY <2>1, <2>2, <2>3, <2>4 DEF Sound
  <1> QED BY <1>1, <1>2, <1>3, <1>4 DEF ChangeInv

LEMMA EndChange ==
    ASSUME ChangeInv, rows' = rows, req' = req,
           NEW t \in Admins, chg' = [chg EXCEPT ![t] = NoChange]
    PROVE  ChangeInv'
  <1>1. chg'[t] = NoChange
    BY DEF ChangeInv
  <1>2. Sound(t)'
    BY <1>1, NoChangeFacts DEF Sound, UniqueSources
  <1> QED BY <1>2, NoChangeFacts, OneChange

\* What an admin request does to the rows spares those that slug changes hold.
LEMMA AdminChanges ==
    ASSUME SafetyInv, NEW a \in Admins, Start(a) \/ Continue(a) \/ Abandon(a)
    PROVE  ChangeInv'
  <1>0. /\ rows \subseteq Row /\ req \in [Admins -> Request] /\ chg \in [Admins -> Change]
        /\ \A t \in Admins : \A m \in chg[t].mine :
              m \in Row /\ m.id # 0 /\ m.id \in chg[t].locked
        /\ Idle.row.id = 0
    BY IdleFacts DEF SafetyInv, AdminInv, TableInv, ChangeInv, Change, Sound, Row
  <1>1. ASSUME rows' = rows, chg' = chg,
               \A b \in Admins : \/ req'[b].row.id \in {0, req[b].row.id}
                                 \/ \E r \in rows : r.id = req'[b].row.id
        PROVE  ChangeInv'
    <2>1. \A t \in Admins : Kept(t)
      BY <1>1 DEF Kept
    <2> QED BY <1>0, <1>1, <2>1, RowsChange DEF SafetyInv
  <1>2. ASSUME rows' = rows, chg' = chg, NEW q, req' = [req EXCEPT ![a] = q],
               \/ q.row.id \in {0, req[a].row.id}
               \/ \E r \in rows : r.id = q.row.id
        PROVE  ChangeInv'
    <2>1. \A b \in Admins : req'[b] = IF b = a THEN q ELSE req[b]
      BY <1>0, <1>2
    <2> QED BY <1>1, <1>2, <2>1
  <1>3. CASE Start(a)
    <2>1. ASSUME NEW from \in Paths, NEW to \in Targets, StartCreate(a, from, to)
          PROVE  ChangeInv'
      BY <1>2, <2>1 DEF StartCreate
    <2>2. ASSUME NEW r \in rows, NEW to \in Targets \cup {NoPath},
                 NEW active \in ActiveInputs \cup {r.active},
                 StartUpdate(a, r, to, active)
          PROVE  ChangeInv'
      <3>1. [r EXCEPT !.active = active].id = r.id
        BY <1>0 DEF Row
      <3> QED BY <1>2, <2>2, <3>1 DEF StartUpdate
    <2>3. ASSUME NEW r \in rows, StartDelete(a, r)
          PROVE  ChangeInv'
      <3>1. [Idle EXCEPT !.pc = "deleting", !.row = r].row = r
        BY DEF Idle
      <3> QED BY <1>2, <2>3, <3>1 DEF StartDelete
    <2> QED BY <1>3, <2>1, <2>2, <2>3 DEF Start
  <1>4. ASSUME Finish(a), rows' = rows, chg' = chg
        PROVE  ChangeInv'
    BY <1>0, <1>2, <1>4 DEF Finish
  <1>5. CASE FollowHop(a) \/ Settle(a) \/ FindRepoint(a)
    <2>1. rows' = rows /\ chg' = chg /\ req'[a].row.id = req[a].row.id
      <3>0. req[a] \in Request /\ req[a].row \in Entity
        BY <1>0 DEF Request
      <3>1. CASE FollowHop(a)
        BY <1>0, <3>0, <3>1 DEF FollowHop, Request
      <3>2. CASE Settle(a)
        <4>1. req'[a].row = [req[a].row EXCEPT !.to = req[a].cur]
          BY <1>0, <3>2 DEF Settle
        <4> QED BY <3>0, <3>2, <4>1 DEF Settle, Entity
      <3>3. CASE FindRepoint(a)
        BY <1>0, <3>0, <3>3 DEF FindRepoint, Request
      <3> QED BY <1>5, <3>1, <3>2, <3>3
    <2>2. \A b \in Admins \ {a} : req'[b] = req[b]
      BY <1>0, <1>5 DEF FollowHop, Settle, FindRepoint
    <2> QED BY <1>1, <2>1, <2>2
  <1>6. ASSUME chg' = chg,
               \A b \in Admins : req'[b].row.id \in {0, req[b].row.id},
               \A r2 \in rows' : \E r \in rows : r2.id = r.id /\ r2.from = r.from,
               \A t \in Admins : \A r \in rows :
                   r.id \in chg[t].locked => \E r2 \in rows' : r2.id = r.id /\ r2.from = r.from
        PROVE  ChangeInv'
    <2>1. \A t \in Admins : Kept(t)
      BY <1>6 DEF Kept
    <2> QED BY <1>0, <1>6, <2>1, RowsChange DEF SafetyInv
  <1>7. ASSUME req'[a].row.id \in {0, req[a].row.id}, \A b \in Admins \ {a} : req'[b] = req[b]
        PROVE  \A b \in Admins : req'[b].row.id \in {0, req[b].row.id}
    BY <1>7
  <1>8. Finish(a) => \A b \in Admins : req'[b].row.id \in {0, req[b].row.id}
    BY <1>0 DEF Finish
  <1>9. CASE RemoveRow(a)
    <2>1. rows' \subseteq rows /\ chg' = chg /\ Finish(a)
      BY <1>9 DEF RemoveRow
    <2>2. \A t \in Admins : \A r \in rows : r.id \in chg[t].locked => r \in rows'
      BY <1>9 DEF RemoveRow, Free
    <2> QED BY <1>6, <1>8, <2>1, <2>2
  <1>10. CASE WriteRow(a)
    <2> DEFINE e == req[a].row
    <2>1. /\ rows' = {IF r.id = e.id THEN [r EXCEPT !.to = e.to, !.active = e.active] ELSE r : r \in rows}
          /\ chg' = chg
      BY <1>10 DEF WriteRow, UpdateRows
    <2>2. \A r \in rows : [r EXCEPT !.to = e.to, !.active = e.active].id = r.id
                       /\ [r EXCEPT !.to = e.to, !.active = e.active].from = r.from
      BY <1>0 DEF Row
    <2>3. \A b \in Admins : req'[b].row.id \in {0, req[b].row.id}
      <3>1. CASE Finish(a)
        BY <1>8, <3>1
      <3>2. CASE req' = [req EXCEPT ![a].pc = "finding"]
        BY <1>0, <3>2 DEF Request
      <3> QED BY <1>10, <3>1, <3>2 DEF WriteRow
    <2> HIDE DEF e
    <2>4. \A r2 \in rows' : \E r \in rows : r2.id = r.id /\ r2.from = r.from
      BY <2>1, <2>2
    <2>5. \A r \in rows : \E r2 \in rows' : r2.id = r.id /\ r2.from = r.from
      BY <2>1, <2>2
    <2> QED BY <1>6, <2>1, <2>3, <2>4, <2>5
  <1>11. CASE Repoint(a)
    <2> DEFINE old == req[a].row.from
               new == req[a].row.to
               found == req[a].found
    <2>1. /\ rows' = {IF r.id \in found /\ r.to = old /\ r.from # new
                        THEN [r EXCEPT !.to = new] ELSE r : r \in rows}
          /\ chg' = chg /\ Finish(a)
      BY <1>11 DEF Repoint, RepointRows
    <2>2. \A r \in rows : [r EXCEPT !.to = new].id = r.id /\ [r EXCEPT !.to = new].from = r.from
      BY <1>0 DEF Row
    <2> HIDE DEF old, new, found
    <2>4. \A r2 \in rows' : \E r \in rows : r2.id = r.id /\ r2.from = r.from
      BY <2>1, <2>2
    <2>5. \A r \in rows : \E r2 \in rows' : r2.id = r.id /\ r2.from = r.from
      BY <2>1, <2>2
    <2> QED BY <1>6, <1>8, <2>1, <2>4, <2>5
  <1>12. CASE InsertRow(a)
    <2> DEFINE e == req[a].row
    <2>1. CASE RowAt(rows, e.from) = {}
      <3>1. PICK id \in Ids : /\ IsFresh(id)
                              /\ rows' = rows \cup {[e EXCEPT !.id = id]}
                              /\ req' = [req EXCEPT ![a].pc = "finding", ![a].row.id = id]
                              /\ chg' = Overtake({e.from})
        BY <1>12, <2>1 DEF InsertRow
      <3>2. /\ e \in Entity /\ req[a] \in Request
            /\ [e EXCEPT !.id = id].id = id /\ [e EXCEPT !.id = id].from = e.from
        BY <1>0 DEF Request, Entity
      <3>3. req'[a].row.id = id /\ \A b \in Admins \ {a} : req'[b] = req[b]
        BY <1>0, <3>1, <3>2 DEF Request, Entity
      <3>4. \A t \in Admins : id \notin chg[t].locked /\ id \notin chg[t].found
        BY <3>1 DEF IsFresh, UsedIds
      <3>5. \A t \in Admins : \A m \in chg[t].mine : m.from # e.from
        BY <1>12 DEF InsertRow, SourceFree, RowAt
      <3>6. \A t \in Admins :
               Kept(t) /\ (chg[t].pc = "finding" /\ chg[t].new = e.from => chg'[t].overtaken)
        BY <1>0, <3>1, OvertakeFacts DEF Kept
      <3>7. chg' \in [Admins -> Change]
        BY <1>0, <3>1, OvertakeFacts
      <3> DEFINE row == [e EXCEPT !.id = id]
      <3>8. rows' = rows \cup {row} /\ row.id = id /\ row.from = e.from
        BY <3>1, <3>2
      <3> HIDE DEF row, e
      <3>9. \A t, b \in Admins : \A m \in chg[t].mine :
               req'[b].row.id = m.id => req[b].row.id = m.id
        BY <1>0, <3>3, <3>4
      <3> QED BY <3>4, <3>5, <3>6, <3>7, <3>8, <3>9, RowsChange DEF SafetyInv
    <2>2. CASE RowAt(rows, e.from) # {}
      BY <1>4, <1>12, <2>2 DEF InsertRow
    <2> QED BY <2>1, <2>2
  <1>13. CASE Abandon(a)
    BY <1>4, <1>13 DEF Abandon
  <1>14. CASE RejectLoop(a)
    BY <1>4, <1>14 DEF RejectLoop
  <1> QED BY <1>3, <1>5, <1>9, <1>10, <1>11, <1>12, <1>13, <1>14 DEF Continue

LEMMA BeginSafe ==
    ASSUME SafetyInv, NEW t \in Admins, BeginRename(t)
    PROVE  ChangeInv'
  <1>1. PICK old \in Paths, new \in Paths : RenameSlug(t, old, new)
    BY PathAssumption DEF BeginRename
  <1>2. /\ rows \subseteq Row /\ UniqueSources(rows) /\ rows' = rows /\ req' = req
        /\ old # new /\ chg \in [Admins -> Change]
    BY <1>1 DEF SafetyInv, AdminInv, TableInv, ChangeInv, RenameSlug
  <1> DEFINE ids == Keys(rows) \ Keys(WithoutSource(rows, new))
             c == [NoChange EXCEPT !.pc = "finding", !.old = old, !.new = new, !.locked = ids]
  <1>3. ids \in SUBSET Nat
    BY <1>2 DEF Keys, Row
  <1>4. /\ c \in Change /\ c.pc = "finding" /\ c.old = old /\ c.new = new
        /\ c.found = {} /\ c.mine = {} /\ c.locked = ids /\ c.overtaken = FALSE
    BY <1>3 DEF NoChange, Change
  <1>5. \A r \in rows : r.id \in ids <=> r.from = new
    BY <1>2 DEF Keys, WithoutSource, UniqueSources
  <1>6. ids \subseteq Keys(RowAt(rows, new))
    BY DEF Keys, WithoutSource, RowAt
  <1>7. chg' = [chg EXCEPT ![t] = c] /\ FreeFor(t, Keys(RowAt(rows, new)))
    BY <1>1 DEF RenameSlug
  <1> HIDE DEF c, ids
  <1>8. chg'[t] = c
    BY <1>2, <1>7
  <1>9. Sound(t)'
    BY <1>2, <1>4, <1>5, <1>8 DEF Sound, Ahead, UniqueSources
  <1>10. \A u \in Admins \ {t} : chg[u].locked \cap ids = {}
    BY <1>6, <1>7 DEF FreeFor
  <1> QED BY <1>2, <1>4, <1>7, <1>9, <1>10, OneChange DEF SafetyInv

LEMMA FindMovesSafe ==
    ASSUME SafetyInv, NEW t \in Admins, FindMoves(t)
    PROVE  ChangeInv'
  <1> DEFINE ids == Leading(View(t), chg[t].old)
             c == [chg[t] EXCEPT !.pc = "moving", !.found = ids]
  <1>1. /\ rows \subseteq Row /\ rows' = rows /\ req' = req /\ chg[t].pc = "finding"
        /\ chg \in [Admins -> Change] /\ chg[t] \in Change /\ Sound(t) /\ chg[t].mine = {}
        /\ \A u \in Admins : FreeFor(u, chg[u].locked)
    BY DEF SafetyInv, AdminInv, TableInv, ChangeInv, FindMoves, Sound
  <1>2. ids \subseteq Keys(rows) /\ ids \in SUBSET Nat
    BY <1>1 DEF Leading, View, Keys, Row
  <1>3. chg' = [chg EXCEPT ![t] = c]
    BY <1>1 DEF FindMoves
  <1>4. /\ c \in Change /\ c.pc = "moving" /\ c.found = ids /\ c.old = chg[t].old
        /\ c.new = chg[t].new /\ c.locked = chg[t].locked /\ c.mine = chg[t].mine
        /\ c.overtaken = chg[t].overtaken
    BY <1>1, <1>2 DEF Change
  <1> HIDE DEF c, ids
  <1>5. chg'[t] = c
    BY <1>1, <1>3
  <1>6. \A r : Ahead(c, r) => Ahead(chg[t], r)
    BY <1>1, <1>4 DEF Ahead
  <1>7. Sound(t)'
    BY <1>1, <1>4, <1>5, <1>6 DEF Sound, UniqueSources
  <1>8. \A u \in Admins \ {t} : \A n \in chg[u].mine : Inserted(n) => n.id \notin ids
    BY <1>2 DEF Inserted, Keys
  <1>9. \A u \in Admins \ {t} : chg[u].locked \cap chg[t].locked = {}
    BY <1>1 DEF FreeFor
  <1> QED BY <1>1, <1>3, <1>4, <1>7, <1>8, <1>9, OneChange DEF SafetyInv

LEMMA MoveSafe ==
    ASSUME SafetyInv, NEW t \in Admins, MoveRows(t)
    PROVE  ChangeInv'
  <1> DEFINE ms == Moves(t)
             old == chg[t].old
             new == chg[t].new
             written == MoveTargets(ms, old, new)
             c == [chg[t] EXCEPT !.pc = "recording", !.found = {},
                      !.locked = @ \cup Keys(ms), !.mine = written]
  <1>1. /\ rows \subseteq Row /\ UniqueSources(rows) /\ rows' = rows /\ req' = req
        /\ chg[t].pc = "moving" /\ chg \in [Admins -> Change] /\ chg[t] \in Change
        /\ Sound(t) /\ chg[t].mine = {} /\ FreeFor(t, chg[t].found)
        /\ \A u \in Admins : FreeFor(u, chg[u].locked)
        /\ old \in Paths /\ new \in Paths /\ old # new
    BY DEF SafetyInv, AdminInv, TableInv, ChangeInv, MoveRows, Sound
  <1>2. CASE Refused(t)
    BY <1>1, <1>2, EndChange DEF MoveRows, SafetyInv
  <1>3. CASE ~Refused(t)
    <2>1. /\ ms \subseteq rows /\ ms \in SUBSET Row /\ Keys(ms) \in SUBSET Nat
          /\ Keys(ms) \subseteq chg[t].found
          /\ \A r \in ms : r.from # new /\ r.to = old
      BY <1>1, <1>3 DEF Moves, View, Refused, Keys, Row
    <2>2. chg' = [chg EXCEPT ![t] = c]
      BY <1>1, <1>3 DEF MoveRows
    <2> HIDE DEF ms
    <2>3. \A m \in written :
             /\ m \in Row /\ m.to # old
             /\ \E r \in ms : /\ m.id = r.id /\ m.from = r.from /\ m.active = r.active
                              /\ m.to = IF r.to = old THEN new ELSE r.to
      BY <1>1, <2>1, MovedRow
    <2>4. \A r \in ms : \E m \in written : m.id = r.id /\ m.from = r.from
      BY <1>1, <2>1, MoveKeeps
    <2> HIDE DEF written
    <2>5. /\ c \in Change /\ c.pc = "recording" /\ c.found = {} /\ c.old = old
          /\ c.new = new /\ c.locked = chg[t].locked \cup Keys(ms) /\ c.mine = written
      BY <1>1, <2>1, <2>3 DEF Change
    <2> HIDE DEF c
    <2>6. chg'[t] = c
      BY <1>1, <2>2
    <2>7. \A m \in written : /\ m.id \in Keys(ms) /\ m.from # m.to
                             /\ \E r \in rows : r.id = m.id /\ r.from = m.from
      BY <2>1, <2>3 DEF Keys
    <2>8. ASSUME NEW m \in written, NEW n \in written, m.from = n.from \/ m.id = n.id
          PROVE  m = n
      <3>1. PICK r \in ms : /\ m.id = r.id /\ m.from = r.from /\ m.active = r.active
                            /\ m.to = IF r.to = old THEN new ELSE r.to
        BY <2>3
      <3>2. PICK s \in ms : /\ n.id = s.id /\ n.from = s.from /\ n.active = s.active
                            /\ n.to = IF s.to = old THEN new ELSE s.to
        BY <2>3
      <3>3. r = s
        BY <1>1, <2>1, <2>8, <3>1, <3>2 DEF UniqueSources
      <3>4. m \in Row /\ n \in Row
        BY <2>3
      <3>5. m.id = n.id /\ m.from = n.from /\ m.to = n.to /\ m.active = n.active
        BY <3>1, <3>2, <3>3
      <3> QED BY <3>4, <3>5 DEF Row
    <2>9. \A r \in rows : r.id \in chg[t].locked \cup Keys(ms) =>
             r.from = new \/ \E m \in written : m.id = r.id /\ m.from = r.from
      <3>1. \A r \in rows : r.id \in Keys(ms) => r \in ms
        BY <1>1, <2>1 DEF Keys, UniqueSources
      <3> QED BY <1>1, <2>4, <3>1 DEF Sound
    <2>10. Sound(t)'
      <3>1. \A m \in written : Behind(m)'
        BY <1>1, <2>7 DEF Behind
      <3>2. UniqueSources(written)
        BY <2>8 DEF UniqueSources
      <3> QED BY <1>1, <2>5, <2>6, <2>7, <2>9, <3>1, <3>2 DEF Sound
    <2>11. ASSUME NEW u \in Admins, u # t
           PROVE  /\ chg[u].locked \cap c.locked = {}
                  /\ \A m \in written, n \in chg[u].mine : m.from # n.from
      <3>1. chg[u].locked \cap chg[t].locked = {} /\ chg[u].locked \cap chg[t].found = {}
        BY <1>1, <2>11 DEF FreeFor
      <3>2. Sound(u)
        BY DEF SafetyInv, ChangeInv
      <3>3. ASSUME NEW m \in written, NEW n \in chg[u].mine, m.from = n.from
            PROVE  FALSE
        <4>1. PICK r \in rows : r.id = m.id /\ r.from = m.from
          BY <2>7
        <4>2. n.id \in chg[u].locked /\ (Behind(n) \/ Inserted(n))
          BY <3>2 DEF Sound
        <4>3. Behind(n)
          BY <3>3, <4>1, <4>2 DEF Inserted
        <4>4. n.id = r.id
          BY <1>1, <3>3, <4>1, <4>3 DEF Behind, UniqueSources
        <4> QED BY <2>1, <2>7, <3>1, <4>1, <4>2, <4>4
      <3> QED BY <2>1, <2>5, <3>1, <3>3
    <2> QED BY <1>1, <2>2, <2>5, <2>10, <2>11, OneChange DEF SafetyInv
  <1> QED BY <1>2, <1>3

\* What a slug change sees is a table with the same two keys.
LEMMA ViewTable ==
    ASSUME SafetyInv, NEW t \in Admins
    PROVE  View(t) \subseteq Row /\ UniqueSources(View(t)) /\ NoSelf(View(t))
  <1>1. /\ rows \subseteq Row /\ UniqueSources(rows) /\ NoSelf(rows)
        /\ chg[t].mine \subseteq Row /\ Sound(t)
    BY DEF SafetyInv, AdminInv, TableInv, ChangeInv, Change
  <1>2. NoSelf(View(t)) /\ View(t) \subseteq Row
    BY <1>1 DEF View, NoSelf, Sound
  <1>3. ASSUME NEW r \in rows, r.id \notin chg[t].locked, NEW m \in chg[t].mine,
               r.from = m.from \/ r.id = m.id
        PROVE  FALSE
    <2>1. m.id \in chg[t].locked /\ (Behind(m) \/ Inserted(m))
      BY <1>1 DEF Sound
    <2>2. CASE Behind(m)
      BY <1>1, <1>3, <2>1, <2>2 DEF Behind, UniqueSources
    <2>3. CASE Inserted(m)
      BY <1>3, <2>3 DEF Inserted
    <2> QED BY <2>1, <2>2, <2>3
  <1>4. UniqueSources(View(t))
    BY <1>1, <1>3 DEF View, UniqueSources, Sound
  <1> QED BY <1>2, <1>4

LEMMA RecordSafe ==
    ASSUME SafetyInv, NEW t \in Admins, RecordRename(t)
    PROVE  ChangeInv'
  <1> DEFINE old == chg[t].old
             new == chg[t].new
             rest == {r \in chg[t].mine : r.from # old}
  <1>1. /\ rows \subseteq Row /\ UniqueSources(rows) /\ rows' = rows /\ req' = req
        /\ chg[t].pc = "recording" /\ chg \in [Admins -> Change] /\ chg[t] \in Change
        /\ Sound(t) /\ SourceFreeFor(t, old)
        /\ \A u \in Admins : FreeFor(u, chg[u].locked)
        /\ old \in Paths /\ new \in Paths /\ old # new
        /\ chg[t].mine \subseteq Row
    BY DEF SafetyInv, AdminInv, TableInv, ChangeInv, RecordRename, Sound, Change
  <1>2. PICK id \in Ids :
           /\ IsFresh(id)
           /\ chg' = [chg EXCEPT ![t].pc = "ending",
                         ![t].locked = @ \cup {RecordedRow(View(t), old, new, id).id},
                         ![t].mine = rest \cup {RecordedRow(View(t), old, new, id)}]
    BY DEF RecordRename
  <1>r. PICK row : row = RecordedRow(View(t), old, new, id)
    OBVIOUS
  <1> DEFINE c == [chg[t] EXCEPT !.pc = "ending", !.locked = @ \cup {row.id},
                      !.mine = rest \cup {row}]
  <1>3. id \in Nat \ {0} /\ id \notin UsedIds
    BY <1>2, ParameterAssumption DEF IsFresh
  <1>4. /\ row \in Row /\ row.from = old /\ row.to = new
        /\ \/ row.id = id /\ \A r \in View(t) : r.from # old
           \/ \E r \in View(t) : r.id = row.id /\ r.from = old
    BY <1>1, <1>3, <1>r, ViewTable, RecordedFacts
  <1>5. chg' = [chg EXCEPT ![t] = c]
    BY <1>1, <1>2, <1>r
  <1>6. row.id \in Nat
    BY <1>4 DEF Row
  <1>7. /\ c \in Change /\ c.pc = "ending" /\ c.found = chg[t].found /\ c.old = old
        /\ c.new = new /\ c.locked = chg[t].locked \cup {row.id} /\ c.mine = rest \cup {row}
    BY <1>1, <1>4, <1>6 DEF Change
  <1>8. chg'[t] = c
    BY <1>1, <1>5
  <1> HIDE DEF c
  \* The row recorded replaces one that t sees, or is new.
  <1>9. /\ Behind(row)' \/ Inserted(row)'
        /\ \A b \in Admins \ {t} : row.id \notin chg[b].locked
        /\ \A m \in chg[t].mine : m.from # old => m.id # row.id
        /\ \A r \in rows : r.id = row.id => r.from = old
        /\ \A r \in rows : r.id \in chg[t].locked /\ r.from = old => r.id = row.id
    <2>1. CASE row.id = id /\ \A r \in View(t) : r.from # old
      <3>1. /\ \A r \in rows : r.id # id
            /\ \A b \in Admins : req[b].row.id # id
            /\ \A b \in Admins : id \notin chg[b].found /\ id \notin chg[b].locked
        BY <1>3 DEF UsedIds, Keys
      <3>2. \A r \in rows : r.from # old
        <4> SUFFICES ASSUME NEW r \in rows, r.from = old PROVE FALSE
          OBVIOUS
        <4>1. r.id \in chg[t].locked
          BY <2>1 DEF View
        <4>2. PICK m \in chg[t].mine : m.from = old
          BY <1>1, <4>1 DEF Sound
        <4> QED BY <2>1, <4>2 DEF View
      <3>3. \A m \in chg[t].mine : m.id # id
        BY <1>1, <3>1 DEF Sound
      <3>4. \A b \in Admins : chg'[b].found = chg[b].found
        BY <1>1, <1>5, <1>7
      <3>5. Inserted(row)'
        BY <1>1, <1>4, <2>1, <3>1, <3>2, <3>4 DEF Inserted
      <3> QED BY <2>1, <3>1, <3>2, <3>3, <3>5
    <2>2. CASE \E r \in View(t) : r.id = row.id /\ r.from = old
      <3>1. PICK x \in View(t) : x.id = row.id /\ x.from = old
        BY <2>2
      <3>2. \A m \in chg[t].mine : m \in View(t)
        BY DEF View
      <3>3. \A r \in rows : r.id \in chg[t].locked /\ r.from = old => r.id = row.id
        <4> SUFFICES ASSUME NEW r \in rows, r.id \in chg[t].locked, r.from = old
                     PROVE  r.id = row.id
          OBVIOUS
        <4>1. PICK m \in chg[t].mine : m.id = r.id /\ m.from = r.from
          BY <1>1 DEF Sound
        <4> QED BY <3>1, <3>2, <4>1, ViewTable DEF UniqueSources
      <3>4. \A m \in chg[t].mine : m.from # old => m.id # row.id
        BY <3>1, <3>2, ViewTable DEF UniqueSources
      <3>5. CASE x \in rows /\ x.id \notin chg[t].locked
        <4>1. Behind(row)'
          BY <1>1, <1>4, <3>1, <3>5 DEF Behind
        <4>2. \A r \in rows : r.id = row.id => r.from = old
          BY <1>1, <3>1, <3>5 DEF UniqueSources
        <4>3. \A b \in Admins \ {t} : row.id \notin chg[b].locked
          BY <1>1, <3>1, <3>5 DEF SourceFreeFor, FreeFor, Keys, RowAt
        <4> QED BY <3>3, <3>4, <4>1, <4>2, <4>3
      <3>6. CASE x \in chg[t].mine
        <4>1. x.id \in chg[t].locked /\ (Behind(x) \/ Inserted(x))
          BY <1>1, <3>6 DEF Sound
        <4>2. \A b \in Admins \ {t} : row.id \notin chg[b].locked
          BY <1>1, <3>1, <4>1 DEF FreeFor
        <4>3. \A b \in Admins : chg'[b].found = chg[b].found
          BY <1>1, <1>5, <1>7
        <4>4. Behind(row)' \/ Inserted(row)'
          BY <1>1, <1>4, <3>1, <4>1, <4>3 DEF Behind, Inserted
        <4>5. \A r \in rows : r.id = row.id => r.from = old
          BY <1>1, <3>1, <4>1 DEF Behind, Inserted, UniqueSources
        <4> QED BY <3>3, <3>4, <4>2, <4>4, <4>5
      <3> QED BY <3>1, <3>5, <3>6 DEF View
    <2> QED BY <1>4, <2>1, <2>2
  <1>10. Sound(t)'
    <2>1. \A m \in rest \cup {row} : m.id \in c.locked /\ m.from # m.to
      BY <1>1, <1>4, <1>7 DEF Sound
    <2>2. \A m \in rest \cup {row} : (Behind(m) \/ Inserted(m))'
      <3>1. \A b \in Admins : chg'[b].found = chg[b].found
        BY <1>1, <1>5, <1>7
      <3>2. \A m \in rest : Behind(m) \/ Inserted(m)
        BY <1>1 DEF Sound
      <3>3. \A m \in rest : (Behind(m) \/ Inserted(m))'
        BY <1>1, <3>1, <3>2 DEF Behind, Inserted
      <3> QED BY <1>9, <3>3
    <2>3. UniqueSources(rest \cup {row})
      BY <1>1, <1>4, <1>9 DEF Sound, UniqueSources
    <2>4. ASSUME NEW r \in rows, r.id \in c.locked
          PROVE  r.from = new \/ \E m \in rest \cup {row} : m.id = r.id /\ m.from = r.from
      <3>1. CASE r.from = old
        BY <1>4, <1>7, <1>9, <2>4, <3>1
      <3>2. CASE r.from # old
        BY <1>1, <1>7, <1>9, <2>4, <3>2 DEF Sound
      <3> QED BY <3>1, <3>2
    <2> HIDE DEF rest
    <2> QED BY <1>1, <1>7, <1>8, <2>1, <2>2, <2>3, <2>4 DEF Sound
  <1>11. ASSUME NEW u \in Admins \ {t}
         PROVE  /\ chg[u].locked \cap c.locked = {}
                /\ \A m \in c.mine, n \in chg[u].mine : m.from # n.from
                /\ \A n \in chg[u].mine : Inserted(n) => n.id \notin c.found
    <2>1. chg[u].locked \cap chg[t].locked = {}
      BY <1>1 DEF FreeFor
    <2>2. \A n \in chg[u].mine : n.from # old
      BY <1>1 DEF SourceFreeFor, RowAt
    <2>3. \A m \in rest, n \in chg[u].mine : m.from # n.from
      BY DEF SafetyInv, ChangeInv, Apart
    <2> QED BY <1>4, <1>7, <1>9, <2>1, <2>2, <2>3 DEF Inserted
  <1> QED BY <1>1, <1>5, <1>7, <1>10, <1>11, OneChange DEF SafetyInv

LEMMA CommitSafe ==
    ASSUME SafetyInv, NEW t \in Admins, CommitRename(t)
    PROVE  SafetyInv'
  <1> DEFINE S == {r.from : r \in chg[t].mine}
  <1>1. /\ rows' = View(t) /\ req' = req /\ chg \in [Admins -> Change]
        /\ chg' = [Overtake(S) EXCEPT ![t] = NoChange]
        /\ \A u \in Admins : FreeFor(u, chg[u].locked) /\ Sound(u)
    BY DEF CommitRename, SafetyInv, ChangeInv
  <1> HIDE DEF S
  <1>2. /\ chg' \in [Admins -> Change] /\ chg'[t] = NoChange
        /\ \A u \in Admins \ {t} : chg'[u] = Overtake(S)[u]
    BY <1>1, OvertakeFacts, NoChangeFacts
  <1>3. \A u \in Admins \ {t} :
           /\ Kept(u)
           /\ chg[u].pc = "finding" /\ chg[u].new \in S => chg'[u].overtaken
    BY <1>1, <1>2, OvertakeFacts DEF Kept
  <1>4. ASSUME NEW u \in Admins \ {t}, NEW r \in rows, r.id \in chg[u].locked
        PROVE  r \in rows'
    BY <1>1, <1>4 DEF View, FreeFor
  <1>5. ASSUME NEW r2 \in rows', ~\E r \in rows : r2.id = r.id /\ r2.from = r.from
        PROVE  r2 \in chg[t].mine /\ Inserted(r2) /\ r2.id \in chg[t].locked
    <2>1. r2 \in chg[t].mine
      BY <1>1, <1>5 DEF View
    <2> QED BY <1>1, <1>5, <2>1 DEF Sound, Behind
  <1>6. ASSUME NEW r2 \in rows', ~\E r \in rows : r2.id = r.id /\ r2.from = r.from,
               NEW u \in Admins \ {t}
        PROVE  /\ r2.id \notin chg[u].locked /\ r2.id \notin chg[u].found
               /\ \A m \in chg[u].mine : m.from # r2.from
               /\ chg[u].pc = "finding" /\ chg[u].new = r2.from => chg'[u].overtaken
    <2>1. r2 \in chg[t].mine /\ Inserted(r2) /\ r2.id \in chg[t].locked
      BY <1>5, <1>6
    <2>2. r2.from \in S
      BY <2>1 DEF S
    <2>3. r2.id \notin chg[u].locked
      BY <1>1, <2>1 DEF FreeFor
    <2>4. \A m \in chg[u].mine : m.from # r2.from
      BY <2>1 DEF SafetyInv, ChangeInv, Apart
    <2> QED BY <1>3, <2>1, <2>2, <2>3, <2>4 DEF Inserted
  <1>7. ChangeInv'
    BY <1>1, <1>2, <1>3, <1>4, <1>6, RowsChange DEF SafetyInv
  <1>8. KeysKept
    BY <1>5 DEF KeysKept, Inserted
  <1>9. TableInv'
    BY <1>1, ViewTable DEF TableInv
  <1>10. \A b \in Admins : Disciplined(b)'
    BY <1>1, <1>8, <1>9, OthersDisciplined DEF SafetyInv, TableInv
  <1>11. AdminInv'
    BY <1>1, <1>9, <1>10 DEF AdminInv, SafetyInv
  <1> QED BY <1>7, <1>11 DEF SafetyInv

\* SafetyInv holds initially and survives every step of the system.
LEMMA SafetyInit == Init => SafetyInv
  <1> SUFFICES ASSUME Init PROVE SafetyInv
    OBVIOUS
  <1>1. \A t \in Admins : chg[t] = NoChange /\ req[t] = Idle
    BY DEF Init
  <1>2. AdminInv
    BY <1>1, IdleFacts DEF Init, AdminInv, TableInv, NoSelf, UniqueSources, Disciplined
  <1>3. ChangeInv
    BY <1>1, NoChangeFacts DEF Init, ChangeInv, FreeFor, Sound, Apart, UniqueSources
  <1> QED BY <1>2, <1>3 DEF SafetyInv

LEMMA AdminSafe ==
    ASSUME AdminInv, NEW a \in Admins, Start(a) \/ Continue(a) \/ Abandon(a)
    PROVE  AdminInv'
  <1>1. CASE RejectLoop(a)
    BY <1>1, SameTable, FinishStep DEF RejectLoop
  <1>2. CASE Abandon(a)
    BY <1>2, SameTable, FinishStep DEF Abandon
  <1> QED BY <1>1, <1>2, StartSafe, WalkSafe, InsertSafe, WriteSafe, FindSafe, RepointSafe,
          RemoveSafe DEF Continue

LEMMA SafetyStep == SafetyInv /\ [Next]_vars => SafetyInv'
  <1> SUFFICES ASSUME SafetyInv, [Next]_vars PROVE SafetyInv'
    OBVIOUS
  <1>1. ASSUME NEW a \in Admins, Start(a) \/ Continue(a) \/ Abandon(a)
        PROVE  SafetyInv'
    BY <1>1, AdminSafe, AdminChanges DEF SafetyInv
  <1>2. ASSUME rows' = rows, req' = req
        PROVE  AdminInv'
    BY <1>2 DEF SafetyInv, AdminInv, TableInv, NoSelf, UniqueSources, Disciplined
  <1>3. ASSUME NEW t \in Admins, BeginRename(t) \/ ContinueRename(t)
        PROVE  SafetyInv'
    <2>1. CASE CommitRename(t)
      BY <2>1, CommitSafe
    <2>2. CASE ~CommitRename(t)
      <3>1. rows' = rows /\ req' = req
        BY <1>3, <2>2 DEF BeginRename, ContinueRename, RenameSlug, FindMoves, MoveRows,
           RecordRename, AbortRename
      <3>2. CASE AbortRename(t)
        BY <1>2, <3>1, <3>2, EndChange DEF AbortRename, SafetyInv
      <3> QED BY <1>2, <1>3, <2>2, <3>1, <3>2, BeginSafe, FindMovesSafe, MoveSafe, RecordSafe
              DEF ContinueRename, SafetyInv
    <2> QED BY <2>1, <2>2
  <1>4. CASE UNCHANGED vars
    <2>1. rows' = rows /\ req' = req /\ chg' = chg
      BY <1>4 DEF vars
    <2>2. ChangeInv'
      BY <2>1 DEF SafetyInv, ChangeInv, FreeFor, Sound, Behind, Inserted, Ahead, Apart
    <2> QED BY <1>2, <2>1, <2>2 DEF SafetyInv
  <1> QED BY <1>1, <1>3, <1>4 DEF Next

\* In any interleaving, with any failures, the table keeps its keys, every
\* request holds what its stage promises, and no row is held by two.
THEOREM TableTyped == Spec => []TypeOK
  <1>1. SafetyInv => TypeOK
    BY DEF SafetyInv, AdminInv, TableInv, ChangeInv, TypeOK
  <1> QED BY <1>1, SafetyInit, SafetyStep, PTL DEF Spec

\* In any interleaving, with any failures, no admin statement asks for a redirect
\* from a path to itself, and the trigger asks for one only when its new path was
\* redirected after its DELETE.
THEOREM NeverSelf == Spec => []NoSelfRedirect
  <1>1. ASSUME SafetyInv, NEW t \in Admins, chg[t].pc = "moving", Refused(t)
        PROVE  chg[t].overtaken
    <2>1. Sound(t) /\ chg[t].mine = {}
      BY <1>1 DEF SafetyInv, ChangeInv, Sound
    <2>2. PICK r \in rows : r.id \notin chg[t].locked /\ r.id \in chg[t].found
                            /\ r.from = chg[t].new
      BY <1>1, <2>1 DEF Refused, Moves, View
    <2> QED BY <1>1, <2>1, <2>2 DEF Sound, Ahead
  <1>2. SafetyInv => NoSelfRedirect
    BY <1>1 DEF SafetyInv, AdminInv, TableInv, NoSelfRedirect
  <1> QED BY <1>2, SafetyInit, SafetyStep, PTL DEF Spec

(***************************************************************************)
(* Requests that take turns.  As long as nothing overlapped, the request   *)
(* in progress is the only one with anything in memory, so what it read is *)
(* still so when it writes: either the row it will write back as it was,   *)
(* or a target that redirects nowhere.                                     *)
(***************************************************************************)
SerialStart(a) == AllIdle /\ Start(a) /\ "resume" \notin past'
SerialBegin(t) == AllIdle /\ BeginRename(t)

SerialNext ==
    \E a \in Admins : \/ SerialStart(a) \/ Continue(a)
                      \/ SerialBegin(a) \/ ContinueRename(a)

CrashNext ==
    \/ SerialNext
    \/ \E a \in Admins : Abandon(a)

\* A start, a slug change and a stop leave their mark in the past.
LEMMA MarksLeft ==
    ASSUME NEW a \in Admins
    PROVE  /\ Start(a) \/ BeginRename(a) =>
                past \subseteq past' /\ (AllIdle \/ "overlap" \in past')
           /\ Abandon(a) => past \subseteq past' /\ "stop" \in past'
           /\ Continue(a) \/ ContinueRename(a) => past' = past
  BY DEF Start, StartCreate, StartUpdate, StartDelete, BeginRename, RenameSlug, Begins,
         Abandon, Continue, ContinueRename

LEMMA TakingTurns ==
    ASSUME [Next]_vars, past' \subseteq {"stop"}
    PROVE  [CrashNext]_vars /\ past \subseteq {"stop"}
  <1>1. "overlap" \notin past' /\ "resume" \notin past'
    OBVIOUS
  <1>2. CASE Next
    <2>1. past \subseteq past'
      BY <1>2, MarksLeft DEF Next
    <2>2. CrashNext
      BY <1>1, <1>2, MarksLeft DEF Next, CrashNext, SerialNext, SerialStart, SerialBegin
    <2> QED BY <2>1, <2>2
  <1>3. CASE UNCHANGED vars
    BY <1>3 DEF vars
  <1> QED BY <1>2, <1>3

LEMMA Undisturbed ==
    ASSUME [Next]_vars, past' = {}
    PROVE  [SerialNext]_vars /\ past = {}
  <1>1. CASE Next
    <2>1. past = {}
      BY <1>1, MarksLeft DEF Next
    <2>2. SerialNext
      BY <1>1, MarksLeft DEF Next, SerialNext, SerialStart, SerialBegin
    <2> QED BY <2>1, <2>2
  <1>2. CASE UNCHANGED vars
    BY <1>2 DEF vars
  <1> QED BY <1>1, <1>2

OneAtATime ==
    /\ \A a, b \in Admins : a # b => AtRest(a) \/ AtRest(b)
    /\ \A a \in Admins : req[a].pc = "idle" \/ chg[a].pc = "idle"

Sink(p) == \A r \in rows : r.active => r.from # p

AsRead(e) == \E r \in rows : /\ r.id = e.id /\ r.from = e.from /\ r.to = e.to
                             /\ e.active => r.active

Focused(a) ==
    LET q == req[a] IN
    /\ q.pc \in {"resolving", "writing"} /\ ~q.repoint => AsRead(q.row)
    /\ q.pc \in {"resolving", "writing"} /\ q.row.id = 0 => q.repoint
    /\ q.pc = "writing" /\ q.repoint => Sink(q.row.to)
    /\ q.pc \in {"finding", "repointing"} => Sink(q.row.to)
    /\ q.pc = "repointing" => q.found = Leading(rows, q.row.from)

\* What the trigger's statements have made of the table so far.
Tracked(t) ==
    LET c == chg[t] IN
    /\ c.pc \in {"finding", "moving"} => View(t) = WithoutSource(rows, c.new)
    /\ c.pc = "moving" => c.found = Leading(View(t), c.old)
    /\ c.pc = "recording" =>
          View(t) = MoveTargets(WithoutSource(rows, c.new), c.old, c.new)
    /\ c.pc = "ending" =>
          \E id \in Nat \ {0} : View(t) = RenameRows(rows, c.old, c.new, id)

SerialInv == /\ SafetyInv
             /\ OneAtATime
             /\ \A a \in Admins : Focused(a) /\ Tracked(a)

\* Every step of a serialized request is a step of the system.
LEMMA SerialStepsAreSteps == [CrashNext]_vars => [Next]_vars
  BY DEF CrashNext, SerialNext, SerialStart, SerialBegin, Next

LEMMA AtRestFacts ==
    /\ \A a \in Admins : AtRest(a) <=> req[a].pc = "idle" /\ chg[a].pc = "idle"
    /\ \A a \in Admins : AtRest(a)' <=> req'[a].pc = "idle" /\ chg'[a].pc = "idle"
  BY DEF AtRest

LEMMA LoneStep ==
    ASSUME SafetyInv', NEW a \in Admins,
           \A b \in Admins \ {a} : req'[b].pc = "idle" /\ chg'[b].pc = "idle",
           req'[a].pc = "idle" \/ chg'[a].pc = "idle",
           Focused(a)', Tracked(a)'
    PROVE  SerialInv'
  <1>1. OneAtATime'
    BY AtRestFacts DEF OneAtATime
  <1>2. \A b \in Admins \ {a} : Focused(b)' /\ Tracked(b)'
    BY DEF Focused, Tracked
  <1> QED BY <1>1, <1>2 DEF SerialInv

\* While an admin request is in progress, no slug change is.
LEMMA RequestAlone ==
    ASSUME SerialInv, NEW a \in Admins, req[a].pc # "idle", Continue(a) \/ Abandon(a)
    PROVE  /\ \A b \in Admins : chg[b].pc = "idle" /\ chg'[b].pc = "idle"
           /\ \A b \in Admins \ {a} : req[b].pc = "idle"
  <1>1. /\ \A b \in Admins : chg[b].pc = "idle"
        /\ \A b \in Admins \ {a} : req[b].pc = "idle"
    BY AtRestFacts DEF SerialInv, OneAtATime
  <1>2. chg \in [Admins -> Change]
    BY DEF SerialInv, SafetyInv, ChangeInv
  <1>3. chg' = chg \/ \E p : chg' = Overtake({p})
    BY DEF Continue, Abandon, RejectLoop, FollowHop, Settle, InsertRow, WriteRow, FindRepoint,
       Repoint, RemoveRow
  <1>4. ASSUME NEW b \in Admins PROVE chg'[b].pc = chg[b].pc
    <2>1. CASE chg' = chg
      BY <2>1
    <2>2. ASSUME NEW p, chg' = Overtake({p}) PROVE chg'[b].pc = chg[b].pc
      <3>1. Overtake({p})[b].pc = chg[b].pc
        BY <1>2, OvertakeFacts
      <3> QED BY <2>2, <3>1
    <2> QED BY <1>3, <2>1, <2>2
  <1> QED BY <1>1, <1>4

LEMMA FocusStep ==
    ASSUME SerialInv, SafetyInv', NEW a \in Admins, req[a].pc # "idle",
           Continue(a) \/ Abandon(a),
           \A b \in Admins \ {a} : req'[b] = req[b],
           Focused(a)'
    PROVE  SerialInv'
  <1>1. /\ \A b \in Admins : chg'[b].pc = "idle"
        /\ \A b \in Admins \ {a} : req'[b].pc = "idle"
    BY RequestAlone
  <1>2. Tracked(a)'
    BY <1>1 DEF Tracked
  <1> QED BY <1>1, <1>2, LoneStep

LEMMA FocusFinish ==
    ASSUME SerialInv, SafetyInv', NEW a \in Admins, req[a].pc # "idle", Finish(a),
           Continue(a) \/ Abandon(a)
    PROVE  SerialInv'
  <1>1. /\ req'[a] = Idle
        /\ \A b \in Admins \ {a} : req'[b] = req[b]
    BY DEF Finish, SerialInv, SafetyInv, AdminInv
  <1>2. Focused(a)'
    BY <1>1, IdleFacts DEF Focused
  <1> QED BY <1>1, <1>2, FocusStep

LEMMA FocusStart ==
    ASSUME SerialInv, SafetyInv', NEW a \in Admins, SerialStart(a)
    PROVE  SerialInv'
  <1>0. req \in [Admins -> Request] /\ rows \subseteq Row
    BY DEF SerialInv, SafetyInv, AdminInv, TableInv
  <1>1. /\ rows' = rows /\ chg' = chg
        /\ \A b \in Admins : req[b].pc = "idle" /\ chg[b].pc = "idle"
    BY AtRestFacts DEF SerialStart, AllIdle, Start, StartCreate, StartUpdate, StartDelete
  <1>2. \A b \in Admins \ {a} : req'[b] = req[b]
    BY <1>0 DEF SerialStart, Start, StartCreate, StartUpdate, StartDelete
  <1>3. Focused(a)'
    <2>1. ASSUME NEW from \in Paths, NEW to \in Targets, StartCreate(a, from, to)
          PROVE  Focused(a)'
      <3>1. req'[a].pc = "resolving" /\ req'[a].repoint
        BY <1>0, <2>1 DEF StartCreate
      <3> QED BY <3>1 DEF Focused
    <2>2. ASSUME NEW r \in rows, NEW to \in Targets \cup {NoPath},
                 NEW active \in ActiveInputs \cup {r.active},
                 StartUpdate(a, r, to, active)
          PROVE  Focused(a)'
      <3> DEFINE row == [r EXCEPT !.active = active]
      <3>1. /\ r \in Row /\ r.active \in BOOLEAN /\ active \in BOOLEAN
            /\ active = FALSE \/ r.active = TRUE
        <4>1. r \in Row /\ r.active \in BOOLEAN /\ active \in BOOLEAN
          BY <1>0, ParameterAssumption DEF Row
        <4>2. active /\ ~r.active => "resume" \in past'
          BY <2>2 DEF StartUpdate, Begins
        <4> QED BY <4>1, <4>2 DEF SerialStart
      <3>2. /\ row.id = r.id /\ row.from = r.from /\ row.to = r.to
            /\ row.active = FALSE \/ r.active = TRUE
        <4>1. row.id = r.id /\ row.from = r.from /\ row.to = r.to /\ row.active = active
          BY <3>1 DEF Row
        <4> QED BY <3>1, <4>1
      <3>3. /\ req'[a].row = row /\ ~req'[a].repoint
            /\ req'[a].pc \in {"writing", "resolving"}
        BY <1>0, <2>2 DEF StartUpdate
      <3>4. r.id # 0
        <4>1. r \in Row
          BY <1>0
        <4> QED BY <4>1 DEF Row
      <3> HIDE DEF row
      <3>5. /\ r \in rows' /\ r.id = row.id /\ r.from = row.from /\ r.to = row.to
            /\ row.active => r.active
        BY <1>1, <3>1, <3>2
      <3>6. AsRead(req[a].row)'
        BY <3>3, <3>5 DEF AsRead
      <3> QED BY <3>2, <3>3, <3>4, <3>6 DEF Focused
    <2>3. ASSUME NEW r \in rows, StartDelete(a, r)
          PROVE  Focused(a)'
      <3>1. req'[a].pc = "deleting"
        BY <1>0, <2>3 DEF StartDelete, Idle
      <3> QED BY <3>1 DEF Focused
    <2> QED BY <2>1, <2>2, <2>3 DEF SerialStart, Start
  <1>4. Tracked(a)'
    BY <1>1 DEF Tracked
  <1> QED BY <1>1, <1>2, <1>3, <1>4, LoneStep

LEMMA FocusWalk ==
    ASSUME SerialInv, SafetyInv', NEW a \in Admins, Continue(a),
           FollowHop(a) \/ Settle(a) \/ FindRepoint(a)
    PROVE  SerialInv'
  <1>0. /\ req \in [Admins -> Request] /\ rows \subseteq Row
        /\ req[a] \in Request /\ req[a].row \in Entity
    BY DEF SerialInv, SafetyInv, AdminInv, TableInv, Request
  <1>1. CASE FollowHop(a)
    <2>0. PICK r \in rows : req' = [req EXCEPT ![a].cur = r.to, ![a].hops = @ + 1]
      BY <1>1 DEF FollowHop, ActiveAt
    <2>1. /\ req'[a].pc = "resolving" /\ req[a].pc = "resolving"
          /\ req'[a].row = req[a].row
          /\ req'[a].repoint = req[a].repoint /\ rows' = rows
          /\ \A b \in Admins \ {a} : req'[b] = req[b]
      BY <1>0, <1>1, <2>0 DEF FollowHop, Request
    <2>2. Focused(a)'
      BY <2>1 DEF SerialInv, Focused, AsRead
    <2> QED BY <2>1, <2>2, FocusStep
  <1>2. CASE Settle(a)
    <2>1. /\ req[a].pc = "resolving" /\ req'[a].pc = "writing" /\ rows' = rows
          /\ req'[a].row = [req[a].row EXCEPT !.to = req[a].cur]
          /\ req'[a].repoint = (req[a].repoint \/ req[a].cur # req[a].row.to)
          /\ \A b \in Admins \ {a} : req'[b] = req[b]
          /\ ActiveAt(rows, req[a].cur) = {}
      BY <1>0, <1>2 DEF Settle
    <2>2. /\ req'[a].row.id = req[a].row.id /\ req'[a].row.from = req[a].row.from
          /\ req'[a].row.to = req[a].cur /\ req'[a].row.active = req[a].row.active
      BY <1>0, <2>1 DEF Entity
    <2>3. Sink(req[a].row.to)'
      BY <2>1, <2>2 DEF Sink, ActiveAt
    <2>4. ASSUME ~req'[a].repoint PROVE AsRead(req[a].row)'
      <3>1. ~req[a].repoint /\ req[a].cur = req[a].row.to
        BY <2>1, <2>4
      <3> QED BY <2>1, <2>2, <3>1 DEF SerialInv, Focused, AsRead
    <2>5. req'[a].row.id = 0 => req'[a].repoint
      BY <2>1, <2>2 DEF SerialInv, Focused
    <2>6. Focused(a)'
      BY <2>1, <2>3, <2>4, <2>5 DEF Focused
    <2> QED BY <2>1, <2>6, FocusStep
  <1>3. CASE FindRepoint(a)
    <2>1. /\ req[a].pc = "finding" /\ req'[a].pc = "repointing" /\ rows' = rows
          /\ req'[a].row = req[a].row /\ req'[a].found = Leading(rows, req[a].row.from)
          /\ \A b \in Admins \ {a} : req'[b] = req[b]
      BY <1>0, <1>3 DEF FindRepoint, Request
    <2>2. Focused(a)'
      BY <2>1 DEF SerialInv, Focused, Sink
    <2> QED BY <2>1, <2>2, FocusStep
  <1> QED BY <1>1, <1>2, <1>3

\* What a request's write does to the rows, seen as edges: the inserted row, or
\* the written one, is the only one that changes.
LEMMA WriteEdges ==
    ASSUME SerialInv, NEW a \in Admins, InsertRow(a) \/ WriteRow(a)
    PROVE  /\ \A r2 \in rows' :
                \/ \E r \in rows : r2 = r
                \/ r2.from = req[a].row.from /\ r2.to = req[a].row.to
                   /\ (~req[a].repoint /\ r2.active =>
                         \E r \in rows : r.active /\ r.from = r2.from /\ r.to = r2.to)
           /\ req[a].pc = "writing"
           /\ req[a].row.from # req[a].row.to
           /\ req[a].repoint => Sink(req[a].row.to)
  <1> DEFINE e == req[a].row
  <1>0. /\ rows \subseteq Row /\ e \in Entity /\ Staged(req[a])
        /\ req[a].pc = "writing" /\ e.from # e.to /\ UniqueSources(rows)
        /\ \A r \in rows : r.id = e.id => r.from = e.from
        /\ req[a].repoint => Sink(e.to)
        /\ ~req[a].repoint => AsRead(e) /\ e.id # 0
    BY DEF SerialInv, SafetyInv, AdminInv, TableInv, Request, InsertRow, WriteRow, Disciplined, Focused
  <1>1. CASE InsertRow(a)
    <2>1. ~req[a].repoint => e.id # 0
      BY <1>0
    <2>2. e.id = 0 /\ req[a].repoint
      BY <1>0, <1>1 DEF InsertRow
    <2>3. \A id : [e EXCEPT !.id = id].from = e.from /\ [e EXCEPT !.id = id].to = e.to
      BY <1>0 DEF Entity
    <2>4. \A r2 \in rows' : (\E r \in rows : r2 = r) \/ (r2.from = e.from /\ r2.to = e.to)
      BY <1>1, <2>3 DEF InsertRow
    <2> QED BY <1>0, <2>2, <2>4
  <1>2. CASE WriteRow(a)
    <2>1. e.id \in Nat /\ e.to \in Targets /\ e.active \in BOOLEAN
      BY <1>0 DEF Entity, Staged
    <2>2. rows' = UpdateRows(rows, e.id, e.to, e.active)
      BY <1>2 DEF WriteRow
    <2> HIDE DEF e
    <2>3. ASSUME NEW r2 \in rows'
          PROVE  \/ \E r \in rows : r2 = r
                 \/ r2.from = e.from /\ r2.to = e.to
                    /\ (~req[a].repoint /\ r2.active =>
                          \E r \in rows : r.active /\ r.from = r2.from /\ r.to = r2.to)
      <3>1. PICK r \in rows : /\ r2.id = r.id /\ r2.from = r.from
                              /\ \/ r2 = r /\ r.id # e.id
                                 \/ r.id = e.id /\ r2.to = e.to /\ r2.active = e.active
        BY <1>0, <2>1, <2>2, UpdateRow
      <3>2. CASE r2 = r
        BY <3>2
      <3>3. CASE r.id = e.id /\ r2.to = e.to /\ r2.active = e.active
        <4>1. r2.from = e.from
          BY <1>0, <3>1, <3>3
        <4>2. ASSUME ~req[a].repoint, r2.active
              PROVE  r.active /\ r.from = r2.from /\ r.to = r2.to
          <5>1. PICK x \in rows : x.id = e.id /\ x.to = e.to /\ (e.active => x.active)
            BY <1>0, <4>2 DEF AsRead
          <5>2. x = r
            BY <1>0, <3>3, <5>1 DEF UniqueSources
          <5>3. e.active
            BY <3>3, <4>2
          <5> QED BY <3>1, <3>3, <5>1, <5>2, <5>3
        <4> QED BY <3>3, <4>1, <4>2
      <3> QED BY <3>1, <3>2, <3>3
    <2> QED BY <1>0, <2>3 DEF e
  <1> QED BY <1>1, <1>2

LEMMA FocusWrite ==
    ASSUME SerialInv, SafetyInv', NEW a \in Admins, Continue(a), InsertRow(a) \/ WriteRow(a)
    PROVE  SerialInv'
  <1>0. /\ req \in [Admins -> Request] /\ req[a] \in Request /\ req[a].row \in Entity
        /\ req[a].pc = "writing"
        /\ req[a].row.id = 0 => req[a].repoint
    BY DEF SerialInv, SafetyInv, AdminInv, TableInv, Request, InsertRow, WriteRow, Focused
  <1>1. CASE Finish(a)
    BY <1>0, <1>1, FocusFinish
  <1>2. CASE ~Finish(a)
    <2>1. /\ req'[a].pc = "finding" /\ req'[a].row.to = req[a].row.to
          /\ req[a].repoint
          /\ \A b \in Admins \ {a} : req'[b] = req[b]
      BY <1>0, <1>2 DEF InsertRow, WriteRow, Entity, Request
    <2>2. Sink(req[a].row.to)'
      BY <2>1, WriteEdges DEF Sink
    <2>3. Focused(a)'
      BY <2>1, <2>2 DEF Focused
    <2> QED BY <1>0, <2>1, <2>3, FocusStep
  <1> QED BY <1>1, <1>2

(***************************************************************************)
(* A slug change that nothing overlaps: its statements find what the ones  *)
(* before left, so that it commits RenameRows of the table.                *)
(***************************************************************************)
LEMMA ChangeAlone ==
    ASSUME SerialInv, NEW t \in Admins, chg[t].pc # "idle", ContinueRename(t)
    PROVE  /\ \A b \in Admins : req[b].pc = "idle" /\ req'[b].pc = "idle"
           /\ \A b \in Admins \ {t} : chg[b].pc = "idle" /\ chg'[b].pc = "idle"
  <1>1. /\ \A b \in Admins : req[b].pc = "idle"
        /\ \A b \in Admins \ {t} : chg[b].pc = "idle"
    BY AtRestFacts DEF SerialInv, OneAtATime
  <1>2. chg \in [Admins -> Change] /\ req' = req
    BY DEF SerialInv, SafetyInv, ChangeInv, ContinueRename, FindMoves, MoveRows, RecordRename,
       CommitRename, AbortRename
  <1>3. \A b \in Admins \ {t} : chg'[b].pc = chg[b].pc
    <2>1. CASE CommitRename(t)
      BY <1>2, <2>1, OvertakeFacts DEF CommitRename
    <2>2. CASE ~CommitRename(t)
      BY <1>2, <2>2 DEF ContinueRename, FindMoves, MoveRows, RecordRename, AbortRename
    <2> QED BY <2>1, <2>2
  <1> QED BY <1>1, <1>2, <1>3

LEMMA TrackStep ==
    ASSUME SerialInv, SafetyInv', NEW t \in Admins, chg[t].pc # "idle", ContinueRename(t),
           Tracked(t)'
    PROVE  SerialInv'
  <1>1. Focused(t)'
    BY ChangeAlone DEF Focused
  <1> QED BY <1>1, ChangeAlone, LoneStep

LEMMA TrackBegin ==
    ASSUME SerialInv, SafetyInv', NEW t \in Admins, SerialBegin(t)
    PROVE  SerialInv'
  <1>1. PICK old \in Paths, new \in Paths : RenameSlug(t, old, new)
    BY PathAssumption DEF SerialBegin, BeginRename
  <1>2. /\ rows' = rows /\ req' = req /\ chg \in [Admins -> Change]
        /\ rows \subseteq Row /\ UniqueSources(rows)
        /\ \A b \in Admins : req[b].pc = "idle" /\ chg[b].pc = "idle"
    BY <1>1, AtRestFacts DEF RenameSlug, SerialBegin, AllIdle, SerialInv, SafetyInv, ChangeInv,
       AdminInv, TableInv
  <1> DEFINE ids == Keys(rows) \ Keys(WithoutSource(rows, new))
  <1>3. /\ chg'[t].pc = "finding" /\ chg'[t].new = new /\ chg'[t].mine = {}
        /\ chg'[t].locked = ids
        /\ \A b \in Admins \ {t} : chg'[b] = chg[b]
    BY <1>1, <1>2 DEF RenameSlug, NoChange
  <1>4. \A r \in rows : r.id \notin ids <=> r.from # new
    BY <1>2 DEF Keys, WithoutSource, UniqueSources
  <1> HIDE DEF ids
  <1>5. View(t)' = WithoutSource(rows, new)
    BY <1>2, <1>3, <1>4 DEF View, WithoutSource
  <1>6. Tracked(t)'
    BY <1>2, <1>3, <1>5 DEF Tracked
  <1>7. Focused(t)'
    BY <1>2 DEF Focused
  <1> QED BY <1>2, <1>3, <1>6, <1>7, LoneStep

LEMMA TrackFind ==
    ASSUME SerialInv, SafetyInv', NEW t \in Admins, ContinueRename(t), FindMoves(t)
    PROVE  SerialInv'
  <1>1. chg[t] \in Change /\ chg \in [Admins -> Change] /\ chg[t].pc = "finding"
        /\ Tracked(t) /\ rows' = rows
    BY DEF SerialInv, SafetyInv, ChangeInv, FindMoves
  <1>2. /\ chg'[t].pc = "moving" /\ chg'[t].found = Leading(View(t), chg[t].old)
        /\ chg'[t].old = chg[t].old /\ chg'[t].new = chg[t].new
        /\ chg'[t].locked = chg[t].locked /\ chg'[t].mine = chg[t].mine
    BY <1>1 DEF FindMoves, Change
  <1>3. View(t)' = View(t)
    BY <1>1, <1>2 DEF View
  <1>4. Tracked(t)'
    BY <1>1, <1>2, <1>3 DEF Tracked
  <1> QED BY <1>1, <1>4, TrackStep

LEMMA TrackMove ==
    ASSUME SerialInv, SafetyInv', NEW t \in Admins, ContinueRename(t), MoveRows(t)
    PROVE  SerialInv'
  <1> DEFINE old == chg[t].old
             new == chg[t].new
             W == WithoutSource(rows, new)
             ms == Moves(t)
  <1>1. /\ chg[t] \in Change /\ chg \in [Admins -> Change] /\ chg[t].pc = "moving"
        /\ rows' = rows /\ chg[t].mine = {} /\ UniqueSources(rows) /\ rows \subseteq Row
        /\ View(t) = W /\ chg[t].found = Leading(W, old)
    BY DEF SerialInv, SafetyInv, ChangeInv, AdminInv, TableInv, MoveRows, Sound, Tracked
  <1>2. CASE Refused(t)
    <2>1. chg'[t] = NoChange
      BY <1>1, <1>2 DEF MoveRows
    <2>2. Tracked(t)'
      BY <2>1, NoChangeFacts DEF Tracked
    <2> QED BY <1>1, <2>2, TrackStep
  <1>3. CASE ~Refused(t)
    <2>1. ms = {r \in W : r.to = old}
      BY <1>1 DEF Moves, Leading, Keys
    <2>2. /\ chg'[t].pc = "recording" /\ chg'[t].old = old /\ chg'[t].new = new
          /\ chg'[t].locked = chg[t].locked \cup Keys(ms)
          /\ chg'[t].mine = MoveTargets(ms, old, new)
      BY <1>1, <1>3 DEF MoveRows, Change
    <2>3. W = {r \in rows : r.id \notin chg[t].locked}
      BY <1>1 DEF View
    <2>4. \A r \in W : r \in rows
      BY DEF WithoutSource
    <2> HIDE DEF W
    <2>5. \A r \in W : r.id \in Keys(ms) <=> r.to = old
      BY <1>1, <2>1, <2>4 DEF Keys, UniqueSources
    <2> HIDE DEF ms
    <2>6. View(t)' = {r \in W : r.to # old} \cup MoveTargets(ms, old, new)
      BY <1>1, <2>2, <2>3, <2>5 DEF View
    <2>7. MoveTargets(W, old, new) = {r \in W : r.to # old} \cup MoveTargets(ms, old, new)
      BY <2>1 DEF MoveTargets
    <2>8. View(t)' = MoveTargets(WithoutSource(rows', chg'[t].new), chg'[t].old, chg'[t].new)
      BY <1>1, <2>2, <2>6, <2>7 DEF W
    <2>9. Tracked(t)'
      BY <2>2, <2>8 DEF Tracked
    <2> QED BY <1>1, <2>9, TrackStep
  <1> QED BY <1>2, <1>3

LEMMA TrackRecord ==
    ASSUME SerialInv, SafetyInv', NEW t \in Admins, ContinueRename(t), RecordRename(t)
    PROVE  SerialInv'
  <1> DEFINE old == chg[t].old
             new == chg[t].new
             rest == {r \in chg[t].mine : r.from # old}
             V == View(t)
  <1>1. /\ chg[t] \in Change /\ chg \in [Admins -> Change] /\ chg[t].pc = "recording"
        /\ rows' = rows /\ rows \subseteq Row /\ UniqueSources(rows) /\ Sound(t)
        /\ V = MoveTargets(WithoutSource(rows, new), old, new)
        /\ old \in Paths /\ new \in Paths
    BY DEF SerialInv, SafetyInv, ChangeInv, AdminInv, TableInv, RecordRename, Sound, Tracked
  <1>2. PICK id \in Ids :
           /\ IsFresh(id)
           /\ chg' = [chg EXCEPT ![t].pc = "ending",
                         ![t].locked = @ \cup {RecordedRow(V, old, new, id).id},
                         ![t].mine = rest \cup {RecordedRow(V, old, new, id)}]
    BY DEF RecordRename
  <1>3. PICK row : row = RecordedRow(V, old, new, id)
    OBVIOUS
  <1>4. /\ chg'[t].pc = "ending" /\ chg'[t].old = old /\ chg'[t].new = new
        /\ chg'[t].locked = chg[t].locked \cup {row.id} /\ chg'[t].mine = rest \cup {row}
    BY <1>1, <1>2, <1>3 DEF Change
  <1>5. id \in Nat \ {0} /\ \A r \in rows : r.id # id
    BY <1>2, ParameterAssumption DEF IsFresh, UsedIds, Keys
  <1>6. /\ V \subseteq Row /\ UniqueSources(V)
        /\ V = {r \in rows : r.id \notin chg[t].locked} \cup chg[t].mine
    BY ViewTable DEF SerialInv, View
  <1>7. /\ row \in Row /\ row.from = old
        /\ \/ row.id = id /\ \A r \in V : r.from # old
           \/ \E r \in V : r.id = row.id /\ r.from = old
    <2> HIDE DEF V, old, new
    <2>1. V \in SUBSET Row
      BY <1>6
    <2> QED BY <1>1, <1>3, <1>5, <2>1, RecordedFacts
  <1> HIDE DEF V
  <1>8. ASSUME NEW r \in rows, r.id \notin chg[t].locked
        PROVE  r.id # row.id <=> r.from # old
    <2>1. r \in V
      BY <1>6, <1>8
    <2> QED BY <1>5, <1>6, <1>7, <2>1 DEF UniqueSources
  <1>9. View(t)' = {r \in V : r.from # old} \cup {row}
    BY <1>1, <1>4, <1>6, <1>8 DEF View
  <1>10. View(t)' = RenameRows(rows', chg'[t].old, chg'[t].new, id)
    BY <1>1, <1>3, <1>4, <1>9 DEF RenameRows, RecordMove
  <1>11. Tracked(t)'
    BY <1>4, <1>5, <1>10 DEF Tracked
  <1> QED BY <1>1, <1>11, TrackStep

\* A slug change that commits.
LEMMA CommitRows ==
    ASSUME SerialInv, NEW t \in Admins, CommitRename(t)
    PROVE  \E old \in Paths, new \in Paths, id \in Nat \ {0} :
               old # new /\ rows' = RenameRows(rows, old, new, id)
  <1>1. chg[t].pc = "ending" /\ Sound(t) /\ Tracked(t) /\ rows' = View(t)
    BY DEF CommitRename, SerialInv, SafetyInv, ChangeInv
  <1> QED BY <1>1 DEF Sound, Tracked

LEMMA TrackEnd ==
    ASSUME SerialInv, SafetyInv', NEW t \in Admins, ContinueRename(t),
           CommitRename(t) \/ AbortRename(t)
    PROVE  SerialInv'
  <1>1. chg[t].pc # "idle" /\ chg \in [Admins -> Change]
    BY DEF CommitRename, AbortRename, SerialInv, SafetyInv, ChangeInv
  <1>2. chg'[t] = NoChange
    BY <1>1, OvertakeFacts DEF CommitRename, AbortRename
  <1>3. Tracked(t)'
    BY <1>2, NoChangeFacts DEF Tracked
  <1> QED BY <1>1, <1>3, TrackStep

LEMMA SerialInit == Init => SerialInv
  <1> SUFFICES ASSUME Init PROVE SerialInv
    OBVIOUS
  <1>1. \A a \in Admins : req[a] = Idle /\ chg[a] = NoChange
    BY DEF Init
  <1>2. \A a \in Admins : req[a].pc = "idle" /\ chg[a].pc = "idle"
    BY <1>1, IdleFacts, NoChangeFacts
  <1> QED BY <1>2, SafetyInit, AtRestFacts DEF SerialInv, OneAtATime, Focused, Tracked

LEMMA SerialStep ==
    ASSUME SerialInv, [CrashNext]_vars
    PROVE  SerialInv'
  <1>1. SafetyInv'
    BY SafetyStep, SerialStepsAreSteps DEF SerialInv
  <1>2. ASSUME NEW a \in Admins, Continue(a)
        PROVE  SerialInv'
    <2>1. CASE RejectLoop(a)
      BY <1>1, <1>2, <2>1, FocusFinish DEF RejectLoop
    <2>2. CASE Repoint(a)
      BY <1>1, <1>2, <2>2, FocusFinish DEF Repoint
    <2>3. CASE RemoveRow(a)
      BY <1>1, <1>2, <2>3, FocusFinish DEF RemoveRow
    <2> QED BY <1>1, <1>2, <2>1, <2>2, <2>3, FocusWalk, FocusWrite DEF Continue
  <1>3. ASSUME NEW a \in Admins, Abandon(a)
        PROVE  SerialInv'
    BY <1>1, <1>3, FocusFinish DEF Abandon
  <1>4. ASSUME NEW t \in Admins, ContinueRename(t)
        PROVE  SerialInv'
    BY <1>1, <1>4, TrackFind, TrackMove, TrackRecord, TrackEnd DEF ContinueRename
  <1>5. CASE UNCHANGED vars
    <2>1. rows' = rows /\ req' = req /\ chg' = chg
      BY <1>5 DEF vars
    <2>2. \A t \in Admins : View(t)' = View(t)
      BY <2>1 DEF View
    <2> QED BY <1>1, <2>1, <2>2 DEF SerialInv, OneAtATime, AtRest, Focused, Sink, AsRead, Tracked
  <1>6. ASSUME NEW t \in Admins, SerialBegin(t)
        PROVE  SerialInv'
    BY <1>1, <1>6, TrackBegin
  <1> QED BY <1>1, <1>2, <1>3, <1>4, <1>5, <1>6, FocusStart DEF CrashNext, SerialNext

(***************************************************************************)
(* Loop-freedom.  If every edge a step adds leads to one path t that does  *)
(* not redirect afterwards, a set of paths nobody leaves cannot contain t, *)
(* so it uses old edges only, and was there before.                        *)
(***************************************************************************)
LEMMA EdgesToSink ==
    ASSUME NEW T, NEW T2, NEW t, Terminating(T),
           \A r \in T2 : r.active => r.from # t,
           \A r2 \in T2 : r2.active =>
               \/ r2.to = t
               \/ \E r \in T : r.active /\ r.from = r2.from /\ r.to = r2.to
    PROVE  Terminating(T2)
  <1> SUFFICES ASSUME NEW S \in SUBSET Paths, Trapped(T2, S) PROVE S = {}
    BY DEF Terminating
  <1>1. t \notin S
    BY DEF Trapped
  <1>2. Trapped(T, S)
    BY <1>1 DEF Trapped
  <1> QED BY <1>2 DEF Terminating

LEMMA FewerEdges ==
    ASSUME NEW T, NEW T2, Terminating(T),
           \A r2 \in T2 : r2.active =>
               \E r \in T : r.active /\ r.from = r2.from /\ r.to = r2.to
    PROVE  Terminating(T2)
  <1> SUFFICES ASSUME NEW S \in SUBSET Paths, Trapped(T2, S) PROVE S = {}
    BY DEF Terminating
  <1>1. Trapped(T, S)
    BY DEF Trapped
  <1> QED BY <1>1 DEF Terminating

LEMMA LoopFreeStep ==
    ASSUME SerialInv, NeverCircular, [CrashNext]_vars
    PROVE  NeverCircular'
  <1>0. rows \subseteq Row
    BY DEF SerialInv, SafetyInv, AdminInv, TableInv
  <1>1. ASSUME NEW a \in Admins, InsertRow(a) \/ WriteRow(a)
        PROVE  NeverCircular'
    <2>1. CASE req[a].repoint
      <3> DEFINE t == req[a].row.to
      <3>1. Sink(t)
        BY <1>1, <2>1, WriteEdges
      <3>2. \A r2 \in rows' : \/ \E r \in rows : r2 = r
                              \/ r2.from = req[a].row.from /\ r2.to = t
        BY <1>1, WriteEdges
      <3>3. req[a].row.from # t
        BY <1>1, WriteEdges
      <3> HIDE DEF t
      <3>4. \A r2 \in rows' : r2.active => r2.from # t
        BY <3>1, <3>2, <3>3 DEF Sink
      <3>5. \A r2 \in rows' : r2.active =>
               \/ r2.to = t
               \/ \E r \in rows : r.active /\ r.from = r2.from /\ r.to = r2.to
        BY <3>2
      <3> QED BY <3>4, <3>5, EdgesToSink DEF NeverCircular
    <2>2. CASE ~req[a].repoint
      <3>1. \A r2 \in rows' : r2.active =>
               \E r \in rows : r.active /\ r.from = r2.from /\ r.to = r2.to
        BY <1>1, <2>2, WriteEdges
      <3> QED BY <3>1, FewerEdges DEF NeverCircular
    <2> QED BY <2>1, <2>2
  <1>2. ASSUME NEW a \in Admins, Repoint(a)
        PROVE  NeverCircular'
    <2> DEFINE old == req[a].row.from
               new == req[a].row.to
    <2>1. old \in Targets /\ new \in Targets /\ Sink(new)
          /\ rows' = RepointRows(rows, req[a].found, old, new)
      BY <1>2 DEF Repoint, SerialInv, SafetyInv, AdminInv, TableInv, Staged, Targets, Focused
    <2> HIDE DEF old, new
    <2>2. \A r2 \in rows' : \E r \in rows :
             /\ r2.from = r.from /\ r2.active = r.active
             /\ r2 = r \/ r2.to = new
      BY <1>0, <2>1, RepointRow
    <2>3. \A r2 \in rows' : r2.active => r2.from # new
      BY <2>1, <2>2 DEF Sink
    <2>4. \A r2 \in rows' : r2.active =>
             \/ r2.to = new
             \/ \E r \in rows : r.active /\ r.from = r2.from /\ r.to = r2.to
      BY <2>2
    <2> QED BY <2>3, <2>4, EdgesToSink DEF NeverCircular
  <1>3. ASSUME NEW a \in Admins, RemoveRow(a)
        PROVE  NeverCircular'
    <2>1. rows' \subseteq rows
      BY <1>3 DEF RemoveRow
    <2> QED BY <2>1, FewerEdges DEF NeverCircular
  <1>4. ASSUME NEW t \in Admins, CommitRename(t)
        PROVE  NeverCircular'
    <2>1. PICK old \in Paths, new \in Paths, id \in Nat \ {0} :
             old # new /\ rows' = RenameRows(rows, old, new, id)
      BY <1>4, CommitRows
    <2>2. \A r2 \in rows' : /\ r2.from # new
                            /\ \/ r2.to = new
                               \/ \E r \in rows : /\ r2.from = r.from /\ r2.to = r.to
                                                   /\ r2.active = r.active
      BY <1>0, <2>1, RenameRow
    <2>3. /\ \A r2 \in rows' : r2.active => r2.from # new
          /\ \A r2 \in rows' : r2.active =>
                \/ r2.to = new
                \/ \E r \in rows : r.active /\ r.from = r2.from /\ r.to = r2.to
      BY <2>2
    <2> QED BY <2>3, EdgesToSink DEF NeverCircular
  <1>5. ASSUME rows' = rows
        PROVE  NeverCircular'
    BY <1>5 DEF NeverCircular
  <1> QED BY <1>1, <1>2, <1>3, <1>4, <1>5 DEF CrashNext, SerialNext, SerialStart, SerialBegin,
        Start, StartCreate, StartUpdate, StartDelete, Continue, RejectLoop, FollowHop, Settle,
        FindRepoint, Abandon, BeginRename, RenameSlug, ContinueRename, FindMoves, MoveRows,
        RecordRename, AbortRename, vars

TurnsInv == past \subseteq {"stop"} => SerialInv /\ NeverCircular

LEMMA TurnsStep == TurnsInv /\ [Next]_vars => TurnsInv'
  <1> SUFFICES ASSUME TurnsInv, [Next]_vars, past' \subseteq {"stop"}
               PROVE  (SerialInv /\ NeverCircular)'
    BY DEF TurnsInv
  <1>1. [CrashNext]_vars /\ SerialInv /\ NeverCircular
    BY TakingTurns DEF TurnsInv
  <1> QED BY <1>1, SerialStep, LoopFreeStep

\* As long as requests take turns and leave switches off, visitors are never
\* sent round in circles, even when requests stop half-way.
THEOREM NeverLoops == Spec => []LoopFree
  <1>1. Init => TurnsInv
    BY SerialInit DEF Init, TurnsInv, NeverCircular, Terminating, Trapped
  <1>2. TurnsInv => LoopFree
    BY DEF TurnsInv, LoopFree, NeverCircular
  <1> QED BY <1>1, <1>2, TurnsStep, PTL DEF Spec

(***************************************************************************)
(* Flatness.  While a request is between its write and its repoint, the    *)
(* only active redirects that land on an active source are those its       *)
(* repoint is about to move.                                               *)
(***************************************************************************)
FlatButForRepoint ==
    \A r, s \in rows : (r.active /\ s.active /\ r.to = s.from) =>
        \E a \in Admins : /\ req[a].pc \in {"finding", "repointing"}
                          /\ s.from = req[a].row.from

LEMMA FlatStep ==
    ASSUME SerialInv, FlatButForRepoint, [SerialNext]_vars
    PROVE  FlatButForRepoint'
  <1>0. /\ rows \subseteq Row /\ req \in [Admins -> Request]
    BY DEF SerialInv, SafetyInv, AdminInv, TableInv
  <1>1. ASSUME NEW a \in Admins, InsertRow(a) \/ WriteRow(a)
        PROVE  FlatButForRepoint'
    <2>1. \A b \in Admins : req[b].pc \notin {"finding", "repointing"}
      BY <1>1, WriteEdges, AtRestFacts DEF SerialInv, OneAtATime
    <2>2. \A r, s \in rows : r.active /\ s.active => r.to # s.from
      BY <2>1 DEF FlatButForRepoint
    <2>3. CASE ~req[a].repoint
      BY <1>1, <2>2, <2>3, WriteEdges DEF FlatButForRepoint
    <2>4. CASE req[a].repoint /\ rows' # rows
      <3>1. /\ req'[a].pc = "finding" /\ req'[a].row.from = req[a].row.from
        <4>1. req[a] \in Request /\ req[a].row \in Entity
          BY <1>0 DEF Request
        <4>2. CASE InsertRow(a)
          BY <1>0, <2>4, <4>1, <4>2 DEF InsertRow, Request, Entity
        <4>3. CASE WriteRow(a)
          <5>1. (\A r \in rows : r.id # req[a].row.id) => rows' = rows
            BY <4>3 DEF WriteRow, UpdateRows
          <5>2. req[a].row.id \in Keys(rows)
            BY <2>4, <5>1 DEF Keys
          <5>3. req' = [req EXCEPT ![a].pc = "finding"]
            BY <2>4, <4>3, <5>2 DEF WriteRow
          <5> QED BY <1>0, <4>1, <5>3 DEF Request
        <4> QED BY <1>1, <4>2, <4>3
      <3>2. ASSUME NEW r2 \in rows', NEW s2 \in rows', r2.active, s2.active,
                   r2.to = s2.from
            PROVE  s2.from = req[a].row.from
        BY <1>1, <2>2, <2>4, <3>2, WriteEdges DEF Sink
      <3> QED BY <3>1, <3>2 DEF FlatButForRepoint
    <2>5. CASE rows' = rows
      BY <2>2, <2>5 DEF FlatButForRepoint
    <2> QED BY <2>3, <2>4, <2>5
  <1>2. ASSUME NEW a \in Admins, Repoint(a)
        PROVE  FlatButForRepoint'
    <2> DEFINE old == req[a].row.from
               new == req[a].row.to
    <2>1. old \in Targets /\ new \in Targets /\ Sink(new)
          /\ rows' = RepointRows(rows, Leading(rows, old), old, new)
      BY <1>2 DEF Repoint, SerialInv, SafetyInv, AdminInv, TableInv, Staged, Targets, Focused
    <2>2. \A r, s \in rows : (r.active /\ s.active /\ r.to = s.from) => r.to = old
      BY <1>2, AtRestFacts DEF FlatButForRepoint, Repoint, SerialInv, OneAtATime
    <2> HIDE DEF old, new
    <2>3. \A r2 \in rows' : \E r \in rows :
             /\ r2.from = r.from /\ r2.active = r.active
             /\ \/ r2 = r /\ ~(r.to = old /\ r.from # new)
                \/ r2.to = new
      <3>1. \A r \in rows : r.to = old => r.id \in Leading(rows, old)
        BY DEF Leading, Keys
      <3> QED BY <1>0, <2>1, <3>1, RepointRow
    <2> QED BY <2>1, <2>2, <2>3 DEF FlatButForRepoint, Sink
  <1>3. ASSUME NEW a \in Admins, RemoveRow(a)
        PROVE  FlatButForRepoint'
    <2>1. rows' \subseteq rows
      BY <1>3 DEF RemoveRow
    <2>2. \A b \in Admins : req[b].pc \notin {"finding", "repointing"}
      BY <1>3, AtRestFacts DEF RemoveRow, SerialInv, OneAtATime
    <2> QED BY <2>1, <2>2 DEF FlatButForRepoint
  <1>4. ASSUME NEW t \in Admins, CommitRename(t)
        PROVE  FlatButForRepoint'
    <2>1. PICK old \in Paths, new \in Paths, id \in Nat \ {0} :
             old # new /\ rows' = RenameRows(rows, old, new, id)
      BY <1>4, CommitRows
    <2>2. ASSUME NEW r2 \in rows', r2.active
          PROVE  /\ r2.from # new /\ r2.to # old
                 /\ r2.from = old \/ \E r \in rows : r.active /\ r.from = r2.from
                 /\ r2.to = new \/ \E r \in rows : r.active /\ r.to = r2.to
      <3>1. CASE r2.from = old /\ r2.to = new
        BY <2>1, <3>1
      <3>2. CASE \E r \in rows : /\ r2.from = r.from /\ r2.active = r.active
                                /\ r2.to = IF r.to = old THEN new ELSE r.to
        <4>1. PICK r \in rows : /\ r2.from = r.from /\ r2.active = r.active
                               /\ r2.to = IF r.to = old THEN new ELSE r.to
          BY <3>2
        <4>2. r.active
          BY <2>2, <4>1
        <4>3. r2.from # new /\ r2.to # old
          BY <1>0, <2>1, RenameRow
        <4> QED BY <4>1, <4>2, <4>3
      <3> QED BY <1>0, <2>1, <3>1, <3>2, RenameRow
    <2>3. \A r, s \in rows : r.active /\ s.active => r.to # s.from
      <3>1. chg[t].pc # "idle"
        BY <1>4 DEF CommitRename
      <3>2. \A b \in Admins : req[b].pc = "idle"
        BY <3>1, AtRestFacts DEF SerialInv, OneAtATime
      <3> QED BY <3>2 DEF FlatButForRepoint
    <2>4. ASSUME NEW r2 \in rows', NEW s2 \in rows', r2.active, s2.active,
                 r2.to = s2.from
          PROVE  FALSE
      <3>1. r2.to # new /\ s2.from # old
        BY <2>2, <2>4
      <3>2. PICK r \in rows : r.active /\ r.to = r2.to
        BY <2>2, <2>4, <3>1
      <3>3. PICK x \in rows : x.active /\ x.from = s2.from
        BY <2>2, <2>4, <3>1
      <3> QED BY <2>3, <2>4, <3>2, <3>3
    <2> QED BY <2>4 DEF FlatButForRepoint
  <1>5. ASSUME rows' = rows, NEW a \in Admins,
               req[a].pc \notin {"finding", "repointing"},
               \A b \in Admins \ {a} : req'[b] = req[b]
        PROVE  FlatButForRepoint'
    BY <1>5 DEF FlatButForRepoint
  <1>6. ASSUME rows' = rows, req' = req
        PROVE  FlatButForRepoint'
    BY <1>6 DEF FlatButForRepoint
  <1>7. ASSUME NEW a \in Admins, SerialStart(a)
        PROVE  FlatButForRepoint'
    BY <1>0, <1>5, <1>7, AtRestFacts DEF SerialStart, AllIdle, Start, StartCreate, StartUpdate,
       StartDelete
  <1>8. ASSUME NEW a \in Admins, RejectLoop(a) \/ FollowHop(a) \/ Settle(a)
        PROVE  FlatButForRepoint'
    BY <1>0, <1>5, <1>8 DEF RejectLoop, FollowHop, Settle, Finish
  <1>9. ASSUME NEW a \in Admins, FindRepoint(a)
        PROVE  FlatButForRepoint'
    <2>1. /\ rows' = rows /\ req'[a].pc = "repointing" /\ req'[a].row = req[a].row
          /\ \A b \in Admins \ {a} : req'[b] = req[b]
      BY <1>0, <1>9 DEF FindRepoint, Request
    <2> QED BY <2>1 DEF FlatButForRepoint
  <1>10. ASSUME NEW t \in Admins, SerialBegin(t)
         PROVE  FlatButForRepoint'
    BY <1>6, <1>10 DEF SerialBegin, BeginRename, RenameSlug
  <1>11. ASSUME NEW t \in Admins, ContinueRename(t)
         PROVE  FlatButForRepoint'
    BY <1>4, <1>6, <1>11 DEF ContinueRename, FindMoves, MoveRows, RecordRename, AbortRename
  <1> QED BY <1>1, <1>2, <1>3, <1>6, <1>7, <1>8, <1>9, <1>10, <1>11
         DEF SerialNext, Continue, vars

FlatInv == past = {} => SerialInv /\ FlatButForRepoint

LEMMA FlatInvStep == FlatInv /\ [Next]_vars => FlatInv'
  <1> SUFFICES ASSUME FlatInv, [Next]_vars, past' = {}
               PROVE  (SerialInv /\ FlatButForRepoint)'
    BY DEF FlatInv
  <1>1. [SerialNext]_vars /\ SerialInv /\ FlatButForRepoint
    BY Undisturbed DEF FlatInv
  <1>2. [CrashNext]_vars
    BY <1>1 DEF CrashNext
  <1> QED BY <1>1, <1>2, SerialStep, FlatStep

\* As long as requests take turns, none stops half-way and none switches a
\* redirect on again, every redirect takes one hop between requests.
THEOREM AlwaysFlat == Spec => []FlatWhenIdle
  <1>1. Init => FlatInv
    BY SerialInit DEF Init, FlatInv, FlatButForRepoint
  <1>2. FlatInv => FlatWhenIdle
    BY AtRestFacts DEF FlatInv, FlatButForRepoint, FlatWhenIdle, AllIdle, Flat
  <1> QED BY <1>1, <1>2, FlatInvStep, PTL DEF Spec
=============================================================================
