------------------------- MODULE SlugRegistryProofs -------------------------
(***************************************************************************)
(* The slug registry never names content that is not there, for any        *)
(* content, slugs and transactions: TypeOK and RegistrySound are inductive *)
(* together.                                                               *)
(***************************************************************************)
EXTENDS SlugRegistry, TLAPS

SoundInv == TypeOK /\ RegistrySound


LEMMA InitSound == Init => SoundInv
  BY AbsentAssumption DEF Init, SoundInv, TypeOK, RegistrySound, Content, Absent, RegistryRow,
     NoRow, Transaction, NoTx

\* Only one transaction changes, into a typed one; the tables do not.
LEMMA TxStep ==
    ASSUME SoundInv, NEW t \in Txs, NEW q \in Transaction,
           q # NoTx => q.e \in Entities /\ q.slug \in Slugs,
           tx' = [tx EXCEPT ![t] = q], UNCHANGED <<ent, reg>>
    PROVE  SoundInv'
  <1>1. TypeOK'
    <2>1. tx' \in [Txs -> Transaction]
      BY DEF SoundInv, TypeOK
    <2>2. \A u \in Txs : tx'[u] # NoTx => tx'[u].e \in Entities /\ tx'[u].slug \in Slugs
      BY DEF SoundInv, TypeOK
    <2> QED BY <2>1, <2>2 DEF SoundInv, TypeOK
  <1>2. RegistrySound'
    BY DEF SoundInv, RegistrySound, LiveAt
  <1> QED BY <1>1, <1>2 DEF SoundInv

LEMMA WriteSound ==
    ASSUME SoundInv, NEW t \in Txs, Write(t)
    PROVE  SoundInv'
  <1>1. ASSUME NEW e \in Entities, NEW s \in Slugs, Begin(t, e, s)
        PROVE  SoundInv'
    <2> DEFINE q == [pc |-> "checking", e |-> e, slug |-> s]
    <2>1. q \in Transaction /\ q.e \in Entities /\ q.slug \in Slugs
      BY DEF Transaction
    <2>2. tx' = [tx EXCEPT ![t] = q] /\ UNCHANGED <<ent, reg>>
      BY <1>1 DEF Begin
    <2> HIDE DEF q
    <2> QED BY <2>1, <2>2, TxStep
  <1>2. ASSUME NEW e \in Entities, Restore(t, e)
        PROVE  ent[e].slug \in Slugs
    BY <1>2 DEF Restore, SoundInv, TypeOK
  <1> QED BY <1>1, <1>2 DEF Write, Insert, Rename, Restore

LEMMA CheckSound ==
    ASSUME SoundInv, NEW t \in Txs, Check(t)
    PROVE  SoundInv'
  <1>1. NoTx \in Transaction
    BY DEF NoTx, Transaction
  <1>2. CASE Conflict(tx[t].e, tx[t].slug)
    BY <1>1, <1>2, TxStep DEF Check
  <1>3. CASE ~Conflict(tx[t].e, tx[t].slug)
    <2> DEFINE q == [tx[t] EXCEPT !.pc = "claiming"]
    <2>1. tx[t] \in Transaction /\ tx[t].pc = "checking"
      BY DEF Check, SoundInv, TypeOK
    <2>2. tx[t] # NoTx
      BY <2>1 DEF NoTx
    <2>3. tx[t].e \in Entities /\ tx[t].slug \in Slugs
      BY <2>2 DEF SoundInv, TypeOK
    <2>4. q \in Transaction /\ q.e \in Entities /\ q.slug \in Slugs
      BY <2>1, <2>3 DEF Transaction
    <2>5. tx' = [tx EXCEPT ![t] = q] /\ UNCHANGED <<ent, reg>>
      BY <1>3 DEF Check
    <2> HIDE DEF q
    <2> QED BY <2>4, <2>5, TxStep
  <1> QED BY <1>2, <1>3

\* The claim takes the slug over; what e held before is released, and what
\* others hold is untouched.
LEMMA CommitSound ==
    ASSUME SoundInv, NEW t \in Txs, Commit(t)
    PROVE  SoundInv'
  <1> DEFINE e == tx[t].e
             s == tx[t].slug
             given == IF ent[e].state = "live" THEN Release(reg, e) ELSE reg
             row == [state |-> "live", slug |-> s]
  <1>1. e \in Entities /\ s \in Slugs
    BY DEF Commit, SoundInv, TypeOK, NoTx
  <1>2. /\ reg' = Claim(given, e, s)
        /\ ent' = [ent EXCEPT ![e] = row]
        /\ tx' = [tx EXCEPT ![t] = NoTx]
    BY DEF Commit
  <1>3. /\ ent \in [Entities -> Content] /\ reg \in [Slugs -> RegistryRow]
        /\ \A x \in Slugs : reg[x].live => reg[x].owner \in Entities /\ LiveAt(reg[x].owner, x)
    BY DEF SoundInv, TypeOK, RegistrySound
  <1>4. /\ given \in [Slugs -> RegistryRow]
        /\ \A x \in Slugs : given[x].live => reg[x].live /\ given[x].owner = reg[x].owner
    BY <1>3 DEF Release, RegistryRow
  <1>5. \A x \in Slugs : given[x].live => given[x].owner # e
    <2>1. CASE ent[e].state = "live"
      BY <1>3, <2>1 DEF Release, RegistryRow
    <2>2. CASE ent[e].state # "live"
      <3> SUFFICES ASSUME NEW x \in Slugs, reg[x].live, reg[x].owner = e PROVE FALSE
        BY <2>2
      <3>1. ent[e] = [state |-> "live", slug |-> x]
        BY <1>3 DEF LiveAt
      <3>2. ent[e].state = "live"
        BY <3>1
      <3> QED BY <2>2, <3>2
    <2> QED BY <2>1, <2>2
  <1>6. row \in Content
    BY <1>1 DEF Content
  <1> HIDE DEF e, s, given, row
  <1>7. /\ reg' = [given EXCEPT ![s] = [owner |-> e, live |-> TRUE]]
        /\ reg' \in [Slugs -> RegistryRow]
    BY <1>1, <1>2, <1>4 DEF Claim, RegistryRow
  <1>8. ent'[e] = row /\ \A f \in Entities \ {e} : ent'[f] = ent[f]
    BY <1>1, <1>2, <1>3
  <1>9. ASSUME NEW x \in Slugs, reg'[x].live
        PROVE  /\ reg'[x].owner \in Entities
               /\ ent'[reg'[x].owner] = [state |-> "live", slug |-> x]
    <2>1. CASE x = s
      <3>1. reg'[x].owner = e
        BY <1>1, <1>4, <1>7, <2>1
      <3> QED BY <1>1, <1>8, <2>1, <3>1 DEF row
    <2>2. CASE x # s
      <3>1. reg'[x] = given[x]
        BY <1>1, <1>4, <1>7, <2>2
      <3>2. reg[x].live /\ reg'[x].owner = reg[x].owner /\ reg[x].owner # e
        BY <1>4, <1>5, <1>9, <3>1
      <3> QED BY <1>3, <1>8, <3>2 DEF LiveAt
    <2> QED BY <2>1, <2>2
  <1>10. TypeOK'
    <2>1. tx' \in [Txs -> Transaction]
      BY <1>2 DEF SoundInv, TypeOK, Transaction, NoTx
    <2>2. \A u \in Txs : tx'[u] # NoTx => tx'[u].e \in Entities /\ tx'[u].slug \in Slugs
      BY <1>2 DEF SoundInv, TypeOK
    <2>3. ent' \in [Entities -> Content]
      BY <1>1, <1>2, <1>3, <1>6
    <2>4. \A f \in Entities : ent'[f].state # "absent" => ent'[f].slug \in Slugs
      BY <1>1, <1>8 DEF SoundInv, TypeOK, row
    <2> QED BY <1>7, <1>9, <2>1, <2>2, <2>3, <2>4 DEF TypeOK
  <1>11. RegistrySound'
    BY <1>9 DEF RegistrySound, LiveAt
  <1> QED BY <1>10, <1>11 DEF SoundInv

LEMMA AbortSound ==
    ASSUME SoundInv, NEW t \in Txs, Abort(t)
    PROVE  SoundInv'
  <1>1. NoTx \in Transaction
    BY DEF NoTx, Transaction
  <1> QED BY <1>1, TxStep DEF Abort

LEMMA SoftDeleteSound ==
    ASSUME SoundInv, NEW e \in Entities, SoftDelete(e)
    PROVE  SoundInv'
  <1>1. /\ ent' = [ent EXCEPT ![e].state = "deleted"] /\ reg' = Release(reg, e) /\ tx' = tx
        /\ ent \in [Entities -> Content] /\ reg \in [Slugs -> RegistryRow]
        /\ ent[e].slug \in Slugs
    BY DEF SoftDelete, SoundInv, TypeOK
  <1>2. /\ reg' \in [Slugs -> RegistryRow]
        /\ \A x \in Slugs : reg'[x].live =>
             reg[x].live /\ reg'[x].owner = reg[x].owner /\ reg[x].owner # e
    BY <1>1 DEF Release, RegistryRow
  <1>3. /\ ent' \in [Entities -> Content]
        /\ ent'[e].slug = ent[e].slug
        /\ \A f \in Entities \ {e} : ent'[f] = ent[f]
    BY <1>1 DEF Content
  <1>4. TypeOK'
    BY <1>1, <1>2, <1>3 DEF SoundInv, TypeOK
  <1>5. RegistrySound'
    BY <1>2, <1>3 DEF SoundInv, TypeOK, RegistrySound, LiveAt
  <1> QED BY <1>4, <1>5 DEF SoundInv

\* The registry does not name deleted content, so its edits are its own.
LEMMA EditDeletedSound ==
    ASSUME SoundInv, NEW e \in Entities, NEW s \in Slugs, EditDeleted(e, s)
    PROVE  SoundInv'
  <1>1. /\ ent' = [ent EXCEPT ![e].slug = s] /\ reg' = reg /\ tx' = tx
        /\ ent \in [Entities -> Content] /\ ent[e].state = "deleted"
    BY DEF EditDeleted, SoundInv, TypeOK
  <1>2. /\ ent' \in [Entities -> Content]
        /\ ent'[e].slug = s
        /\ \A f \in Entities \ {e} : ent'[f] = ent[f]
    BY <1>1 DEF Content
  <1>3. ASSUME NEW x \in Slugs, reg[x].live, reg[x].owner = e
        PROVE  FALSE
    <2>1. ent[e] = [state |-> "live", slug |-> x]
      BY <1>3 DEF SoundInv, RegistrySound, LiveAt
    <2>2. ent[e].state = "live"
      BY <2>1
    <2> QED BY <1>1, <2>2
  <1>4. TypeOK'
    BY <1>1, <1>2 DEF SoundInv, TypeOK
  <1>5. RegistrySound'
    BY <1>1, <1>2, <1>3 DEF SoundInv, TypeOK, RegistrySound, LiveAt
  <1> QED BY <1>4, <1>5 DEF SoundInv

LEMMA HardDeleteSound ==
    ASSUME SoundInv, NEW e \in Entities, HardDelete(e)
    PROVE  SoundInv'
  <1>1. /\ ent' = [ent EXCEPT ![e] = Absent] /\ reg' = Forget(reg, e) /\ tx' = tx
        /\ ent \in [Entities -> Content] /\ reg \in [Slugs -> RegistryRow]
    BY DEF HardDelete, SoundInv, TypeOK
  <1>2. /\ reg' \in [Slugs -> RegistryRow]
        /\ \A x \in Slugs : reg'[x].live => reg'[x] = reg[x] /\ reg[x].owner # e
    BY <1>1 DEF Forget, RegistryRow, NoRow
  <1>3. /\ ent' \in [Entities -> Content]
        /\ ent'[e].state = "absent"
        /\ \A f \in Entities \ {e} : ent'[f] = ent[f]
    BY <1>1 DEF Content, Absent
  <1>4. TypeOK'
    BY <1>1, <1>2, <1>3 DEF SoundInv, TypeOK
  <1>5. RegistrySound'
    BY <1>2, <1>3 DEF SoundInv, TypeOK, RegistrySound, LiveAt
  <1> QED BY <1>4, <1>5 DEF SoundInv

LEMMA StepSound == SoundInv /\ [Next]_vars => SoundInv'
  <1> SUFFICES ASSUME SoundInv, [Next]_vars PROVE SoundInv'
    OBVIOUS
  <1>1. CASE UNCHANGED vars
    BY <1>1 DEF vars, SoundInv, TypeOK, RegistrySound, LiveAt
  <1>2. ASSUME NEW t \in Txs, Write(t) \/ Check(t) \/ Commit(t) \/ Abort(t)
        PROVE  SoundInv'
    BY <1>2, WriteSound, CheckSound, CommitSound, AbortSound
  <1>3. CASE Remove
    BY <1>3, SoftDeleteSound, EditDeletedSound, HardDeleteSound DEF Remove
  <1> QED BY <1>1, <1>2, <1>3 DEF Next

LEMMA AlwaysSoundInv == Spec => []SoundInv
  BY InitSound, StepSound, PTL DEF Spec

\* Every transaction in flight knows its row and its slug, live content has a
\* slug and a live registry row an owner, for any tables and slugs.
THEOREM RegistryTyped == Spec => []TypeOK
  <1>1. SoundInv => TypeOK
    BY DEF SoundInv
  <1> QED BY <1>1, AlwaysSoundInv, PTL

\* GetBySlug never sends a visitor to content that is deleted or has moved,
\* however many transactions write slugs at the same time.
THEOREM NeverStale == Spec => []RegistrySound
  <1>1. SoundInv => RegistrySound
    BY DEF SoundInv
  <1> QED BY <1>1, AlwaysSoundInv, PTL

-----------------------------------------------------------------------------
(***************************************************************************)
(* A slug that no two transactions were after at once.  The row lock keeps *)
(* the content of a transaction as it was, and nobody else claims its      *)
(* slug, so what the check saw still holds at the claim: nobody's slug is  *)
(* overwritten and the registry is complete.                               *)
(***************************************************************************)
RowLocks == \A t, u \in Txs :
    t # u /\ tx[t] # NoTx /\ tx[u] # NoTx => tx[t].e # tx[u].e

RivalsCrossed == \A t, u \in Txs :
    t # u /\ tx[t] # NoTx /\ tx[u] # NoTx /\ tx[t].slug = tx[u].slug => tx[t].slug \in crossed

\* A transaction wants a slug its content does not hold, and past the check
\* nobody else holds it either.
Wanted(t) ==
    /\ tx[t] # NoTx => ~LiveAt(tx[t].e, tx[t].slug)
    /\ tx[t].pc = "claiming" /\ tx[t].slug \notin crossed => ~(reg[tx[t].slug].live)

CompleteInv ==
    /\ SoundInv
    /\ RegistryComplete
    /\ RowLocks
    /\ RivalsCrossed
    /\ \A t \in Txs : Wanted(t)

LEMMA InitComplete == Init => CompleteInv
  <1> SUFFICES ASSUME Init PROVE CompleteInv
    OBVIOUS
  <1>1. RegistryComplete
    BY DEF Init, RegistryComplete, LiveAt, Absent
  <1>2. RowLocks /\ RivalsCrossed /\ \A t \in Txs : Wanted(t)
    BY DEF Init, RowLocks, RivalsCrossed, Wanted, NoTx
  <1> QED BY <1>1, <1>2, InitSound DEF CompleteInv

LEMMA WriteComplete ==
    ASSUME CompleteInv, NEW t \in Txs, Write(t)
    PROVE  CompleteInv'
  <1>1. PICK e \in Entities, s \in Slugs : Begin(t, e, s) /\ ~LiveAt(e, s)
    <2>1. ASSUME NEW e \in Entities, NEW s \in Slugs, Insert(t, e, s)
          PROVE  Begin(t, e, s) /\ ~LiveAt(e, s)
      BY <2>1 DEF Insert, LiveAt
    <2>2. ASSUME NEW e \in Entities, NEW s \in Slugs, Rename(t, e, s)
          PROVE  Begin(t, e, s) /\ ~LiveAt(e, s)
      BY <2>2 DEF Rename, LiveAt
    <2>3. ASSUME NEW e \in Entities, Restore(t, e)
          PROVE  ent[e].slug \in Slugs /\ Begin(t, e, ent[e].slug) /\ ~LiveAt(e, ent[e].slug)
      BY <2>3 DEF Restore, LiveAt, CompleteInv, SoundInv, TypeOK
    <2> QED BY <2>1, <2>2, <2>3 DEF Write
  <1> DEFINE q == [pc |-> "checking", e |-> e, slug |-> s]
  <1>2. tx' = [tx EXCEPT ![t] = q] /\ ent' = ent /\ reg' = reg /\ tx \in [Txs -> Transaction]
    BY <1>1 DEF Begin, CompleteInv, SoundInv, TypeOK
  <1>3. tx'[t] = q /\ q.pc = "checking" /\ q.e = e /\ q.slug = s
        /\ \A u \in Txs \ {t} : tx'[u] = tx[u]
    BY <1>2
  <1> HIDE DEF q
  <1>4. crossed \subseteq crossed' /\ \A u \in Txs : tx[u].slug = s => s \in crossed'
    BY <1>1 DEF Begin, Rivals
  <1>5. SoundInv'
    BY WriteSound DEF CompleteInv
  <1>6. RegistryComplete'
    BY <1>2, <1>4 DEF CompleteInv, RegistryComplete, LiveAt
  <1>7. \A u \in Txs : tx[u] # NoTx => tx[u].e # e
    BY <1>1 DEF Begin, Locked
  <1>8. RowLocks'
    BY <1>3, <1>7 DEF CompleteInv, RowLocks
  <1>9. RivalsCrossed'
    BY <1>3, <1>4 DEF CompleteInv, RivalsCrossed
  <1>10. ASSUME NEW u \in Txs PROVE Wanted(u)'
    BY <1>1, <1>2, <1>3, <1>4 DEF CompleteInv, Wanted, LiveAt
  <1> QED BY <1>5, <1>6, <1>8, <1>9, <1>10 DEF CompleteInv

LEMMA CheckComplete ==
    ASSUME CompleteInv, NEW t \in Txs, Check(t)
    PROVE  CompleteInv'
  <1>1. /\ ent' = ent /\ reg' = reg /\ crossed' = crossed
        /\ tx \in [Txs -> Transaction] /\ tx[t] \in Transaction
        /\ tx[t].pc = "checking" /\ tx[t] # NoTx
        /\ tx[t].e \in Entities /\ tx[t].slug \in Slugs
    BY DEF Check, CompleteInv, SoundInv, TypeOK, NoTx
  <1>2. \A u \in Txs \ {t} : tx'[u] = tx[u]
    BY <1>1 DEF Check
  <1>3. \/ tx'[t] = NoTx
        \/ /\ tx'[t] = [tx[t] EXCEPT !.pc = "claiming"]
           /\ ~Conflict(tx[t].e, tx[t].slug)
    BY <1>1 DEF Check
  <1>4. tx'[t] = NoTx \/ (tx'[t].e = tx[t].e /\ tx'[t].slug = tx[t].slug)
    BY <1>1, <1>3 DEF Transaction
  <1>5. ~LiveAt(tx[t].e, tx[t].slug)
    BY <1>1 DEF CompleteInv, Wanted
  <1>6. ~Conflict(tx[t].e, tx[t].slug) => ~(reg[tx[t].slug].live)
    BY <1>1, <1>5 DEF CompleteInv, SoundInv, RegistrySound, Conflict
  <1>7. RegistryComplete'
    BY <1>1 DEF CompleteInv, RegistryComplete, LiveAt
  <1>8. RowLocks' /\ RivalsCrossed'
    BY <1>1, <1>2, <1>4 DEF CompleteInv, RowLocks, RivalsCrossed
  <1>9. Wanted(t)'
    <2>1. CASE tx'[t] = NoTx
      BY <2>1 DEF Wanted, NoTx
    <2>2. CASE tx'[t] # NoTx
      BY <1>1, <1>3, <1>4, <1>5, <1>6, <2>2 DEF Wanted, LiveAt
    <2> QED BY <2>1, <2>2
  <1>10. \A u \in Txs \ {t} : Wanted(u)'
    BY <1>1, <1>2 DEF CompleteInv, Wanted, LiveAt
  <1> QED BY CheckSound, <1>7, <1>8, <1>9, <1>10 DEF CompleteInv

\* A step that touches the content of e only, and the registry rows of e and of
\* slug s, with at most the transaction of e ending.
LEMMA EntityStep ==
    ASSUME CompleteInv, SoundInv', RegistryComplete', crossed' = crossed, NEW e \in Entities,
           \A u \in Txs : tx'[u] = NoTx \/ (tx'[u] = tx[u] /\ tx[u].e # e),
           \A f \in Entities \ {e} : ent'[f] = ent[f],
           \A u \in Txs : \/ tx'[u] = NoTx
                          \/ tx[u].slug \in crossed
                          \/ reg'[tx[u].slug].live => reg[tx[u].slug].live
    PROVE  CompleteInv'
  <1>1. RowLocks' /\ RivalsCrossed'
    BY DEF CompleteInv, RowLocks, RivalsCrossed
  <1>2. ASSUME NEW u \in Txs PROVE Wanted(u)'
    <2>1. CASE tx'[u] = NoTx
      BY <2>1 DEF Wanted, NoTx
    <2>2. CASE tx'[u] # NoTx
      <3>1. tx'[u] = tx[u] /\ tx[u] # NoTx /\ tx[u].e \in Entities \ {e}
        BY <2>2 DEF CompleteInv, SoundInv, TypeOK
      <3>2. ent'[tx[u].e] = ent[tx[u].e]
        BY <3>1
      <3> QED BY <2>2, <3>1, <3>2 DEF CompleteInv, Wanted, LiveAt
    <2> QED BY <2>1, <2>2
  <1> QED BY <1>1, <1>2 DEF CompleteInv

\* The state that Commit, the one step that hands a slug over, leaves behind.
LEMMA CommitFacts ==
    ASSUME CompleteInv, NEW t \in Txs, Commit(t),
           NEW e, e = tx[t].e, NEW s, s = tx[t].slug
    PROVE  /\ e \in Entities /\ s \in Slugs
           /\ s \notin crossed => ~(reg[s].live)
           /\ ent'[e] = [state |-> "live", slug |-> s]
           /\ \A f \in Entities \ {e} : ent'[f] = ent[f]
           /\ reg'[s] = [owner |-> e, live |-> TRUE]
           /\ \A x \in Slugs \ {s} : reg[x].owner # e => reg'[x] = reg[x]
           /\ \A x \in Slugs \ {s} : reg[x].owner = e => ~(reg'[x].live)
  <1> DEFINE given == IF ent[e].state = "live" THEN Release(reg, e) ELSE reg
             row == [state |-> "live", slug |-> s]
  <1>1. e \in Entities /\ s \in Slugs /\ tx[t] # NoTx /\ tx[t].pc = "claiming"
    BY DEF Commit, CompleteInv, SoundInv, TypeOK, NoTx
  <1>2. /\ reg' = Claim(given, e, s)
        /\ ent' = [ent EXCEPT ![e] = row]
    BY DEF Commit
  <1>3. /\ ent \in [Entities -> Content] /\ reg \in [Slugs -> RegistryRow]
        /\ \A x \in Slugs : reg[x].live => reg[x].owner \in Entities /\ LiveAt(reg[x].owner, x)
        /\ s \notin crossed => ~(reg[s].live)
    BY <1>1 DEF CompleteInv, SoundInv, TypeOK, RegistrySound, Wanted
  <1>5. given \in [Slugs -> RegistryRow]
    BY <1>3 DEF Release, RegistryRow
  <1>6. \A x \in Slugs : reg[x].owner # e => given[x] = reg[x]
    BY <1>3 DEF Release, RegistryRow
  <1>7. ASSUME NEW x \in Slugs, reg[x].owner = e, given[x].live PROVE FALSE
    <2>1. CASE ent[e].state = "live"
      BY <1>3, <1>7, <2>1 DEF Release, RegistryRow
    <2>2. CASE ent[e].state # "live"
      <3>1. ent[e] = [state |-> "live", slug |-> x]
        BY <1>3, <1>7, <2>2 DEF LiveAt
      <3>2. ent[e].state = "live"
        BY <3>1
      <3> QED BY <2>2, <3>2
    <2> QED BY <2>1, <2>2
  <1> HIDE DEF given, row
  <1>8. reg' = [given EXCEPT ![s] = [owner |-> e, live |-> TRUE]]
    BY <1>2 DEF Claim
  <1>9. reg'[s] = [owner |-> e, live |-> TRUE] /\ \A x \in Slugs \ {s} : reg'[x] = given[x]
    BY <1>1, <1>5, <1>8
  <1>10. ent'[e] = row /\ \A f \in Entities \ {e} : ent'[f] = ent[f]
    BY <1>1, <1>2, <1>3
  <1>11. ent'[e] = [state |-> "live", slug |-> s]
    BY <1>10 DEF row
  <1> QED BY <1>1, <1>3, <1>6, <1>7, <1>9, <1>10, <1>11

LEMMA CommitComplete ==
    ASSUME CompleteInv, NEW t \in Txs, Commit(t)
    PROVE  CompleteInv'
  <1> DEFINE e == tx[t].e
             s == tx[t].slug
  <1>1. /\ e \in Entities /\ s \in Slugs
        /\ s \notin crossed => ~(reg[s].live)
        /\ ent'[e] = [state |-> "live", slug |-> s]
        /\ \A f \in Entities \ {e} : ent'[f] = ent[f]
        /\ reg'[s] = [owner |-> e, live |-> TRUE]
        /\ \A x \in Slugs \ {s} : reg[x].owner # e => reg'[x] = reg[x]
        /\ \A x \in Slugs \ {s} : reg[x].owner = e => ~(reg'[x].live)
    BY CommitFacts
  <1>2. tx[t] # NoTx /\ tx' = [tx EXCEPT ![t] = NoTx] /\ crossed' = crossed
    BY DEF Commit, NoTx
  <1>3. \A u \in Txs : \/ tx'[u] = NoTx
                       \/ /\ tx'[u] = tx[u] /\ tx[u].e # e /\ tx[u].slug \in Slugs
                          /\ tx[u].slug = s => s \in crossed
    BY <1>2 DEF CompleteInv, RowLocks, RivalsCrossed, SoundInv, TypeOK
  <1> HIDE DEF e, s
  <1>4. ASSUME NEW f \in Entities, NEW x \in Slugs \ crossed,
               ent'[f] = [state |-> "live", slug |-> x]
        PROVE  reg'[x] = [owner |-> f, live |-> TRUE]
    <2>1. CASE f = e
      BY <1>1, <1>4, <2>1
    <2>2. CASE f # e
      <3>1. reg[x] = [owner |-> f, live |-> TRUE]
        BY <1>1, <1>4, <2>2 DEF CompleteInv, RegistryComplete, LiveAt
      <3>2. x # s
        BY <1>1, <3>1
      <3>3. reg[x].owner # e
        BY <2>2, <3>1
      <3> QED BY <1>1, <3>1, <3>2, <3>3
    <2> QED BY <2>1, <2>2
  <1>5. RegistryComplete'
    BY <1>2, <1>4 DEF RegistryComplete, LiveAt
  <1>6. SoundInv'
    BY CommitSound DEF CompleteInv
  <1>7. \A x \in Slugs \ {s} : reg'[x].live => reg[x].live
    BY <1>1
  <1> QED BY <1>1, <1>2, <1>3, <1>5, <1>6, <1>7, EntityStep

LEMMA AbortComplete ==
    ASSUME CompleteInv, NEW t \in Txs, Abort(t)
    PROVE  CompleteInv'
  <1>1. /\ ent' = ent /\ reg' = reg /\ crossed' = crossed
        /\ \A u \in Txs \ {t} : tx'[u] = tx[u]
        /\ tx'[t] = NoTx
    BY DEF Abort, CompleteInv, SoundInv, TypeOK
  <1>2. RegistryComplete'
    BY <1>1 DEF CompleteInv, RegistryComplete, LiveAt
  <1>3. RowLocks' /\ RivalsCrossed'
    BY <1>1 DEF CompleteInv, RowLocks, RivalsCrossed
  <1>4. \A u \in Txs : Wanted(u)'
    BY <1>1 DEF CompleteInv, Wanted, LiveAt, NoTx
  <1> QED BY <1>2, <1>3, <1>4, AbortSound DEF CompleteInv

\* Removals touch the rows of one piece of content only, and leave it not live.
LEMMA RemoveFacts ==
    ASSUME CompleteInv, Remove
    PROVE  \E e \in Entities :
             /\ ent'[e].state # "live" /\ tx' = tx /\ ~Locked(e) /\ crossed' = crossed
             /\ \A f \in Entities \ {e} : ent'[f] = ent[f]
             /\ \A x \in Slugs : reg[x].owner # e => reg'[x] = reg[x]
             /\ \A x \in Slugs : reg[x].owner = e => ~(reg'[x].live)
  <1>1. /\ ent \in [Entities -> Content] /\ reg \in [Slugs -> RegistryRow]
    BY DEF CompleteInv, SoundInv, TypeOK
  <1>2. ASSUME NEW e \in Entities, SoftDelete(e)
        PROVE  /\ ent'[e].state # "live" /\ tx' = tx /\ ~Locked(e) /\ crossed' = crossed
               /\ \A f \in Entities \ {e} : ent'[f] = ent[f]
               /\ \A x \in Slugs : reg[x].owner # e => reg'[x] = reg[x]
               /\ \A x \in Slugs : reg[x].owner = e => ~(reg'[x].live)
    <2>1. /\ ent' = [ent EXCEPT ![e].state = "deleted"] /\ reg' = Release(reg, e) /\ tx' = tx
          /\ ~Locked(e) /\ crossed' = crossed
      BY <1>2 DEF SoftDelete
    <2>2. \A x \in Slugs : reg[x].owner # e => reg'[x] = reg[x]
      BY <1>1, <2>1 DEF Release, RegistryRow
    <2>3. \A x \in Slugs : reg[x].owner = e => ~(reg'[x].live)
      BY <1>1, <2>1 DEF Release, RegistryRow
    <2> QED BY <1>1, <2>1, <2>2, <2>3 DEF Content
  <1>3. ASSUME NEW e \in Entities, NEW s \in Slugs, EditDeleted(e, s)
        PROVE  /\ ent'[e].state # "live" /\ tx' = tx /\ ~Locked(e) /\ crossed' = crossed
               /\ \A f \in Entities \ {e} : ent'[f] = ent[f]
               /\ \A x \in Slugs : reg[x].owner # e => reg'[x] = reg[x]
               /\ \A x \in Slugs : reg[x].owner = e => ~(reg'[x].live)
    <2>1. /\ ent' = [ent EXCEPT ![e].slug = s] /\ reg' = reg /\ tx' = tx
          /\ ent[e].state = "deleted" /\ ~Locked(e) /\ crossed' = crossed
      BY <1>3 DEF EditDeleted
    <2>2. ASSUME NEW x \in Slugs, reg[x].owner = e, reg[x].live PROVE FALSE
      <3>1. ent[e] = [state |-> "live", slug |-> x]
        BY <2>2 DEF CompleteInv, SoundInv, RegistrySound, LiveAt
      <3>2. ent[e].state = "live"
        BY <3>1
      <3> QED BY <2>1, <3>2
    <2> QED BY <1>1, <2>1, <2>2 DEF Content
  <1>4. ASSUME NEW e \in Entities, HardDelete(e)
        PROVE  /\ ent'[e].state # "live" /\ tx' = tx /\ ~Locked(e) /\ crossed' = crossed
               /\ \A f \in Entities \ {e} : ent'[f] = ent[f]
               /\ \A x \in Slugs : reg[x].owner # e => reg'[x] = reg[x]
               /\ \A x \in Slugs : reg[x].owner = e => ~(reg'[x].live)
    BY <1>1, <1>4 DEF HardDelete, Forget, Absent, NoRow, RegistryRow
  <1> QED BY <1>2, <1>3, <1>4 DEF Remove

LEMMA RemoveComplete ==
    ASSUME CompleteInv, Remove
    PROVE  CompleteInv'
  <1>1. PICK e \in Entities :
             /\ ent'[e].state # "live" /\ tx' = tx /\ ~Locked(e) /\ crossed' = crossed
             /\ \A f \in Entities \ {e} : ent'[f] = ent[f]
             /\ \A x \in Slugs : reg[x].owner # e => reg'[x] = reg[x]
             /\ \A x \in Slugs : reg[x].owner = e => ~(reg'[x].live)
    BY RemoveFacts
  <1>2. ASSUME NEW f \in Entities, NEW x \in Slugs \ crossed,
               ent'[f] = [state |-> "live", slug |-> x]
        PROVE  reg'[x] = [owner |-> f, live |-> TRUE]
    <2>1. f # e
      BY <1>1, <1>2
    <2>2. reg[x] = [owner |-> f, live |-> TRUE]
      BY <1>1, <1>2, <2>1 DEF CompleteInv, RegistryComplete, LiveAt
    <2>3. reg[x].owner # e
      BY <2>1, <2>2
    <2> QED BY <1>1, <2>2, <2>3
  <1>3. RegistryComplete'
    BY <1>1, <1>2 DEF RegistryComplete, LiveAt
  <1>4. SoundInv'
    BY StepSound DEF CompleteInv, Next
  <1>5. ASSUME NEW u \in Txs
        PROVE  \/ tx'[u] = NoTx
               \/ /\ tx'[u] = tx[u] /\ tx[u].e # e
                  /\ reg'[tx[u].slug].live => reg[tx[u].slug].live
    <2>1. tx[u] # NoTx => tx[u].slug \in Slugs
      BY DEF CompleteInv, SoundInv, TypeOK
    <2> QED BY <1>1, <2>1 DEF Locked
  <1> QED BY <1>1, <1>3, <1>4, <1>5, EntityStep

LEMMA StepComplete == CompleteInv /\ [Next]_vars => CompleteInv'
  <1> SUFFICES ASSUME CompleteInv, [Next]_vars PROVE CompleteInv'
    OBVIOUS
  <1>1. CASE UNCHANGED vars
    BY <1>1 DEF vars, CompleteInv, SoundInv, TypeOK, RegistrySound, RegistryComplete, LiveAt,
                RowLocks, RivalsCrossed, Wanted
  <1> QED BY <1>1, WriteComplete, CheckComplete, CommitComplete, AbortComplete, RemoveComplete
          DEF Next

LEMMA AlwaysCompleteInv == Spec => []CompleteInv
  BY InitComplete, StepComplete, PTL DEF Spec

\* Live content is found under its slug, so no two live rows of any tables
\* share one, unless two transactions were after that slug at once.
THEOREM AlwaysFound == Spec => []RegistryComplete
  <1>1. CompleteInv => RegistryComplete
    BY DEF CompleteInv
  <1> QED BY <1>1, AlwaysCompleteInv, PTL

-----------------------------------------------------------------------------
(***************************************************************************)
(* Seen from outside, the registry is SlugDirectory: a commit takes a free *)
(* slug, a removal gives one up, a slug that gets crossed drops out of the *)
(* picture, and everything else is a stutter.                              *)
(***************************************************************************)
\* Nobody's slug is somebody's: the owner of a live row is not Nobody.
LEMMA HolderIsOwner ==
    ASSUME CompleteInv, NEW s \in Slugs
    PROVE  /\ reg[s].live /\ s \notin crossed =>
                  SlugHolder[s] = reg[s].owner /\ SlugHolder[s] \in Entities
           /\ ~(reg[s].live) \/ s \in crossed => SlugHolder[s] = Nobody
  BY AbsentAssumption DEF CompleteInv, SoundInv, TypeOK, SlugHolder

LEMMA Releases ==
    ASSUME NEW e \in Entities,
           \A x \in Slugs : SlugHolder'[x] = IF SlugHolder[x] = e THEN Nobody ELSE SlugHolder[x]
    PROVE  D!Next \/ SlugHolder' = SlugHolder
  <1>1. SlugHolder' = [x \in Slugs |-> IF x \in D!Holds(e) THEN Nobody ELSE SlugHolder[x]]
    <2>1. SlugHolder' = [x \in Slugs |-> SlugHolder'[x]]
      BY DEF SlugHolder
    <2> QED BY <2>1 DEF D!Holds
  <1>2. CASE D!Holds(e) # {}
    BY <1>1, <1>2 DEF D!GiveUp, D!Next
  <1>3. CASE D!Holds(e) = {}
    <2>1. SlugHolder' = [x \in Slugs |-> SlugHolder[x]]
      BY <1>1, <1>3
    <2> QED BY <2>1 DEF SlugHolder
  <1> QED BY <1>2, <1>3

LEMMA CommitTakes ==
    ASSUME CompleteInv, NEW t \in Txs, Commit(t)
    PROVE  D!Next \/ SlugHolder' = SlugHolder
  <1> DEFINE e == tx[t].e
             s == tx[t].slug
  <1>1. /\ e \in Entities /\ s \in Slugs
        /\ s \notin crossed => ~(reg[s].live)
        /\ ent'[e] = [state |-> "live", slug |-> s]
        /\ \A f \in Entities \ {e} : ent'[f] = ent[f]
        /\ reg'[s] = [owner |-> e, live |-> TRUE]
        /\ \A x \in Slugs \ {s} : reg[x].owner # e => reg'[x] = reg[x]
        /\ \A x \in Slugs \ {s} : reg[x].owner = e => ~(reg'[x].live)
    BY CommitFacts
  <1>2. crossed' = crossed
    BY DEF Commit
  <1> HIDE DEF e, s
  <1>3. ASSUME NEW x \in Slugs \ {s}
        PROVE  SlugHolder'[x] = IF SlugHolder[x] = e THEN Nobody ELSE SlugHolder[x]
    <2>1. CASE reg[x].owner = e
      <3>1. SlugHolder'[x] = Nobody
        BY <1>1, <1>2, <2>1 DEF SlugHolder
      <3>2. SlugHolder[x] = e \/ SlugHolder[x] = Nobody
        BY <2>1 DEF SlugHolder
      <3> QED BY <3>1, <3>2
    <2>2. CASE reg[x].owner # e
      <3>1. SlugHolder'[x] = SlugHolder[x]
        BY <1>1, <1>2, <2>2 DEF SlugHolder
      <3>2. SlugHolder[x] # e
        BY <1>1, <2>2, AbsentAssumption DEF SlugHolder
      <3> QED BY <3>1, <3>2
    <2> QED BY <2>1, <2>2
  <1>4. CASE s \notin crossed
    <2>1. SlugHolder[s] = Nobody /\ SlugHolder'[s] = e
      BY <1>1, <1>4, <1>2 DEF SlugHolder
    <2>2. SlugHolder' = [x \in Slugs |-> IF x = s THEN e
                            ELSE IF x \in D!Holds(e) THEN Nobody ELSE SlugHolder[x]]
      <3>1. SlugHolder' = [x \in Slugs |-> SlugHolder'[x]]
        BY DEF SlugHolder
      <3> QED BY <1>3, <2>1, <3>1 DEF D!Holds
    <2>3. D!Take(e, s)
      BY <2>1, <2>2 DEF D!Take
    <2> QED BY <1>1, <2>3 DEF D!Next
  <1>5. CASE s \in crossed
    <2>1. SlugHolder[s] = Nobody /\ SlugHolder'[s] = Nobody
      BY <1>1, <1>5, <1>2 DEF SlugHolder
    <2>2. \A x \in Slugs : SlugHolder'[x] = IF SlugHolder[x] = e THEN Nobody ELSE SlugHolder[x]
      BY <1>1, <1>3, <2>1
    <2> QED BY <1>1, <2>2, Releases
  <1> QED BY <1>4, <1>5

LEMMA RemoveGivesUp ==
    ASSUME CompleteInv, Remove
    PROVE  D!Next \/ SlugHolder' = SlugHolder
  <1>1. PICK e \in Entities :
             /\ \A x \in Slugs : reg[x].owner # e => reg'[x] = reg[x]
             /\ \A x \in Slugs : reg[x].owner = e => ~(reg'[x].live)
             /\ crossed' = crossed
    BY RemoveFacts
  <1>2. ASSUME NEW x \in Slugs
        PROVE  SlugHolder'[x] = IF SlugHolder[x] = e THEN Nobody ELSE SlugHolder[x]
    <2>1. CASE reg[x].owner = e
      <3>1. SlugHolder'[x] = Nobody
        BY <1>1, <2>1 DEF SlugHolder
      <3>2. SlugHolder[x] = e \/ SlugHolder[x] = Nobody
        BY <2>1 DEF SlugHolder
      <3> QED BY <3>1, <3>2
    <2>2. CASE reg[x].owner # e
      <3>1. SlugHolder'[x] = SlugHolder[x]
        BY <1>1, <2>2 DEF SlugHolder
      <3>2. SlugHolder[x] # e
        BY <2>2, AbsentAssumption DEF SlugHolder
      <3> QED BY <3>1, <3>2
    <2> QED BY <2>1, <2>2
  <1> QED BY <1>2, Releases

\* A transaction begins: at most its slug becomes a crossed one, and whoever
\* held it held no other.
LEMMA WriteHides ==
    ASSUME CompleteInv, NEW t \in Txs, Write(t)
    PROVE  D!Next \/ SlugHolder' = SlugHolder
  <1>1. PICK s \in Slugs : reg' = reg /\ (crossed' = crossed \/ crossed' = crossed \cup {s})
    BY DEF Write, Insert, Rename, Restore, Begin, CompleteInv, SoundInv, TypeOK
  <1>2. CASE SlugHolder[s] \in Entities /\ crossed' # crossed
    <2> DEFINE h == SlugHolder[s]
    <2>1. ASSUME NEW x \in Slugs, SlugHolder[x] = h PROVE x = s
      <3>1. reg[x].live /\ reg[x].owner = h /\ reg[s].live /\ reg[s].owner = h
        BY <1>2, <2>1, AbsentAssumption DEF SlugHolder
      <3>2. ent[h] = [state |-> "live", slug |-> x] /\ ent[h] = [state |-> "live", slug |-> s]
        BY <3>1 DEF CompleteInv, SoundInv, RegistrySound, LiveAt
      <3> QED BY <3>2
    <2>2. \A x \in Slugs : SlugHolder'[x] = IF x = s THEN Nobody ELSE SlugHolder[x]
      BY <1>1, <1>2 DEF SlugHolder
    <2>3. \A x \in Slugs : SlugHolder'[x] = IF SlugHolder[x] = h THEN Nobody ELSE SlugHolder[x]
      BY <2>1, <2>2
    <2> HIDE DEF h
    <2>4. h \in Entities
      BY <1>2 DEF h
    <2> QED BY <2>3, <2>4, Releases
  <1>3. CASE SlugHolder[s] \notin Entities \/ crossed' = crossed
    <2>1. \A x \in Slugs : SlugHolder'[x] = SlugHolder[x]
      BY <1>1, <1>3, HolderIsOwner DEF SlugHolder
    <2>2. SlugHolder' = [x \in Slugs |-> SlugHolder'[x]] /\ SlugHolder = [x \in Slugs |-> SlugHolder[x]]
      BY DEF SlugHolder
    <2> QED BY <2>1, <2>2
  <1> QED BY <1>2, <1>3

LEMMA StepImplements == CompleteInv /\ [Next]_vars => [D!Next]_SlugHolder
  <1> SUFFICES ASSUME CompleteInv, [Next]_vars PROVE D!Next \/ SlugHolder' = SlugHolder
    OBVIOUS
  <1>1. CASE reg' = reg /\ crossed' = crossed
    BY <1>1 DEF SlugHolder
  <1> QED BY <1>1, CommitTakes, RemoveGivesUp, WriteHides DEF Next, Check, Abort, vars

LEMMA InitImplements == Init => D!Init
  BY DEF Init, D!Init, SlugHolder, NoRow

\* The trigger implements the directory in which a slug is only ever given up
\* by its holder, as far as slugs go that no two transactions were after at
\* once.
THEOREM DirectoryKept == Spec => ImplementsDirectory
  <1>1. CompleteInv /\ [Next]_vars => [D!Next]_SlugHolder
    BY StepImplements
  <1> QED BY <1>1, InitImplements, AlwaysCompleteInv, PTL DEF ImplementsDirectory, D!Spec, Spec
=============================================================================
