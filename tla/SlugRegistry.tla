---------------------------- MODULE SlugRegistry ----------------------------
(***************************************************************************)
(* slug_registry: one row per slug, naming the content that answers to it, *)
(* kept by a trigger on every content table (internal/hp-page/migrations/  *)
(* 000001, the shared check_slug_conflict included).                       *)
(*                                                                         *)
(* A write that gives content a slug is a transaction under READ COMMITTED *)
(* in three steps: the statement writes the row (and waits for, or fails   *)
(* on, its own table's unique index), the trigger's check reads the        *)
(* committed registry, the trigger's upsert claims the slug.  The upsert   *)
(* waits for any transaction that has claimed the slug and then overwrites *)
(* it, so claim and commit are one step here.  Soft delete, hard delete    *)
(* and an edit of deleted content read nothing they then rely on: one step.*)
(*                                                                         *)
(* Modelled are the tables with a unique index over live slugs only:       *)
(* products, brands, categories, group_categories and hp_pages.            *)
(***************************************************************************)
CONSTANTS
    Slugs,
    Kinds,      \* the content tables
    Entities,   \* content rows
    Kind,       \* Kind[e]: the table of e
    Txs,        \* transactions in flight
    Nobody,     \* no owner
    NoSlug      \* no slug

ASSUME KindAssumption == Kind \in [Entities -> Kinds]
ASSUME AbsentAssumption == Nobody \notin Entities /\ NoSlug \notin Slugs

VARIABLES
    ent,    \* ent[e]: the committed content row
    reg,    \* reg[s]: the committed registry row of slug s
    tx,     \* tx[t]: what transaction t is writing
    crossed \* slugs that two transactions were after at once (history)

vars == <<ent, reg, tx, crossed>>

Content == [state : {"absent", "live", "deleted"}, slug : Slugs \cup {NoSlug}]
Absent == [state |-> "absent", slug |-> NoSlug]

RegistryRow == [owner : Entities \cup {Nobody}, live : BOOLEAN]
NoRow == [owner |-> Nobody, live |-> FALSE]

\* A transaction that will leave entity `e` live at `slug`.
Transaction == [pc : {"idle", "checking", "claiming"},
                e : Entities \cup {Nobody}, slug : Slugs \cup {NoSlug}]
NoTx == [pc |-> "idle", e |-> Nobody, slug |-> NoSlug]

LiveAt(e, s) == ent[e] = [state |-> "live", slug |-> s]

\* The row lock of an uncommitted write of e.
Locked(e) == \E t \in Txs : tx[t].e = e

\* e's table already has another live row at s, or is about to.
IndexTaken(e, s) ==
    \E f \in Entities \ {e} :
        /\ Kind[f] = Kind[e]
        /\ LiveAt(f, s) \/ \E t \in Txs : tx[t].e = f /\ tx[t].slug = s

\* UPDATE slug_registry SET deleted_at WHERE entity_id = e
ReleaseNothing(r, e) == r
Release(r, e) ==
    [s \in Slugs |-> [r[s] EXCEPT !.live = r[s].live /\ r[s].owner # e]]

\* INSERT INTO slug_registry ... ON CONFLICT (slug) DO UPDATE
Claim(r, e, s) == [r EXCEPT ![s] = [owner |-> e, live |-> TRUE]]

\* DELETE FROM slug_registry WHERE entity_id = e
ForgetOwner(r, e) ==
    [s \in Slugs |-> IF r[s].owner = e THEN [r[s] EXCEPT !.owner = Nobody] ELSE r[s]]
Forget(r, e) == [s \in Slugs |-> IF r[s].owner = e THEN NoRow ELSE r[s]]

\* check_slug_conflict: someone else answers to s.
SameTableConflict(e, s) ==
    reg[s].live /\ reg[s].owner # e /\ Kind[reg[s].owner] = Kind[e]
Conflict(e, s) == reg[s].live /\ reg[s].owner # e

-----------------------------------------------------------------------------
Init == /\ ent = [e \in Entities |-> Absent]
        /\ reg = [s \in Slugs |-> NoRow]
        /\ tx = [t \in Txs |-> NoTx]
        /\ crossed = {}

\* The transactions that are after slug s.
Rivals(s) == {t \in Txs : tx[t].slug = s}

\* The statement writes its row; the AFTER trigger is still to run.
Begin(t, e, s) ==
    /\ tx[t] = NoTx
    /\ ~Locked(e)
    /\ ~IndexTaken(e, s)
    /\ tx' = [tx EXCEPT ![t] = [pc |-> "checking", e |-> e, slug |-> s]]
    /\ crossed' = IF Rivals(s) = {} THEN crossed ELSE crossed \cup {s}
    /\ UNCHANGED <<ent, reg>>

Insert(t, e, s) == ent[e].state = "absent" /\ Begin(t, e, s)

Rename(t, e, s) == ent[e].state = "live" /\ s # ent[e].slug /\ Begin(t, e, s)

Restore(t, e) == ent[e].state = "deleted" /\ Begin(t, e, ent[e].slug)

\* PERFORM check_slug_conflict: an exception rolls the transaction back.
Check(t) ==
    /\ tx[t].pc = "checking"
    /\ IF Conflict(tx[t].e, tx[t].slug)
         THEN tx' = [tx EXCEPT ![t] = NoTx]
         ELSE tx' = [tx EXCEPT ![t].pc = "claiming"]
    /\ UNCHANGED <<ent, reg, crossed>>

\* The rest of the trigger and COMMIT: a rename first gives up its old slug.
Commit(t) ==
    LET e == tx[t].e
        s == tx[t].slug
        given == IF ent[e].state = "live" THEN Release(reg, e) ELSE reg
    IN  /\ tx[t].pc = "claiming"
        /\ reg' = Claim(given, e, s)
        /\ ent' = [ent EXCEPT ![e] = [state |-> "live", slug |-> s]]
        /\ tx' = [tx EXCEPT ![t] = NoTx]
        /\ UNCHANGED crossed

\* Rolled back: a lost connection, a cancelled request, a deadlock victim.
Abort(t) ==
    /\ tx[t] # NoTx
    /\ tx' = [tx EXCEPT ![t] = NoTx]
    /\ UNCHANGED <<ent, reg, crossed>>

SoftDelete(e) ==
    /\ ent[e].state = "live"
    /\ ~Locked(e)
    /\ ent' = [ent EXCEPT ![e].state = "deleted"]
    /\ reg' = Release(reg, e)
    /\ UNCHANGED <<tx, crossed>>

\* An editor saves content deleted since it was read (the UPDATE is WHERE id
\* only): no branch of the trigger takes it.
EditDeleted(e, s) ==
    /\ ent[e].state = "deleted"
    /\ ~Locked(e)
    /\ ent' = [ent EXCEPT ![e].slug = s]
    /\ UNCHANGED <<reg, tx, crossed>>

\* DELETE FROM the content table.
HardDelete(e) ==
    /\ ent[e].state # "absent"
    /\ ~Locked(e)
    /\ ent' = [ent EXCEPT ![e] = Absent]
    /\ reg' = Forget(reg, e)
    /\ UNCHANGED <<tx, crossed>>

-----------------------------------------------------------------------------
Write(t) ==
    \E e \in Entities :
        \/ \E s \in Slugs : Insert(t, e, s) \/ Rename(t, e, s)
        \/ Restore(t, e)

Remove ==
    \E e \in Entities :
        \/ SoftDelete(e)
        \/ \E s \in Slugs : EditDeleted(e, s)
        \/ HardDelete(e)

Next ==
    \/ \E t \in Txs : Write(t) \/ Check(t) \/ Commit(t) \/ Abort(t)
    \/ Remove

Spec == Init /\ [][Next]_vars

-----------------------------------------------------------------------------
\* Type correctness: a transaction in flight knows its row and its slug, live
\* content has a slug, a registry row without an owner is not live.
TypeOK ==
    /\ ent \in [Entities -> Content]
    /\ reg \in [Slugs -> RegistryRow]
    /\ tx \in [Txs -> Transaction]
    /\ \A t \in Txs : tx[t] # NoTx => tx[t].e \in Entities /\ tx[t].slug \in Slugs
    /\ \A e \in Entities : ent[e].state # "absent" => ent[e].slug \in Slugs
    /\ \A s \in Slugs : reg[s].live => reg[s].owner \in Entities

\* GetBySlug never sends a visitor to content that is deleted or has moved: a
\* live registry row names live content at that very slug, however the
\* transactions interleave.
RegistrySound ==
    \A s \in Slugs : reg[s].live => LiveAt(reg[s].owner, s)

\* Live content is found under its slug, however many transactions write other
\* slugs at the same time.
RegistryComplete ==
    \A e \in Entities : \A s \in Slugs \ crossed :
        LiveAt(e, s) => reg[s] = [owner |-> e, live |-> TRUE]

\* No slug belongs to two live rows, of one table or of two.
UniqueLiveSlugs ==
    \A e, f \in Entities : \A s \in Slugs : LiveAt(e, s) /\ LiveAt(f, s) => e = f

\* The registry seen from outside, crossed slugs aside: who answers to a slug.
SlugHolder ==
    [s \in Slugs |-> IF reg[s].live /\ s \notin crossed THEN reg[s].owner ELSE Nobody]

D == INSTANCE SlugDirectory WITH Holders <- Entities, holder <- SlugHolder

\* The trigger implements a directory in which a slug is only ever taken from
\* its holder by the holder itself.
ImplementsDirectory == D!Spec
=============================================================================
