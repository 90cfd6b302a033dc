---------------------------- MODULE RedirectTable ----------------------------
(***************************************************************************)
(* The `redirects` table of internal/redirect: its rows and the SQL        *)
(* statements that read and write it, as operators on a set of rows.       *)
(*                                                                         *)
(* A row sends visitors of the site path `from` to `to`, a site path or an *)
(* external https URL, while `active`.  Source, note and the timestamps    *)
(* are bookkeeping no statement branches on and are left out.              *)
(***************************************************************************)
EXTENDS Naturals

CONSTANTS
    Paths,      \* normalised paths of this site
    Externals   \* absolute URLs on other hosts, targets only

ASSUME ExternalAssumption == Paths \cap Externals = {}

Targets == Paths \cup Externals

Row == [id : Nat \ {0}, from : Paths, to : Targets, active : BOOLEAN]

RowAt(rows, p) == {r \in rows : r.from = p}

ActiveAt(rows, p) == {r \in rows : r.from = p /\ r.active}

Keys(rows) == {r.id : r \in rows}

\* A statement that writes many rows: it finds them in its snapshot and writes
\* those that are still as it wants them when it comes to them.
Leading(rows, p) == Keys({r \in rows : r.to = p})

\* UPDATE redirects SET to_path = new WHERE to_path = old AND from_path <> new
RepointUnguarded(rows, found, old, new) ==
    {IF r.id \in found /\ r.to = old THEN [r EXCEPT !.to = new] ELSE r : r \in rows}

RepointRows(rows, found, old, new) ==
    {IF r.id \in found /\ r.to = old /\ r.from # new
       THEN [r EXCEPT !.to = new] ELSE r : r \in rows}

\* UPDATE redirects SET to_path, is_active WHERE id
UpdateRows(rows, id, to, active) ==
    {IF r.id = id THEN [r EXCEPT !.to = to, !.active = active] ELSE r : r \in rows}

\* The three statements of elc_record_slug_redirect, for a live page moved from
\* old to new: DELETE WHERE from_path = new,
KeepAll(rows, new) == rows

WithoutSource(rows, new) == {r \in rows : r.from # new}

\* UPDATE SET to_path = new WHERE to_path = old,
MoveTargets(rows, old, new) ==
    {IF r.to = old THEN [r EXCEPT !.to = new] ELSE r : r \in rows}

\* INSERT (old, new) ON CONFLICT (from_path) DO UPDATE; `id` is the key of the
\* row, should one be inserted.
RecordedRow(rows, old, new, id) ==
    [id |-> IF RowAt(rows, old) = {} THEN id ELSE (CHOOSE r \in RowAt(rows, old) : TRUE).id,
     from |-> old, to |-> new, active |-> TRUE]

RecordMove(rows, old, new, id) ==
    {r \in rows : r.from # old} \cup {RecordedRow(rows, old, new, id)}

\* The trigger when no other statement comes between its three.
RenameInserts(rows, old, new, id) ==
    MoveTargets(WithoutSource(rows, new), old, new)
        \cup {[id |-> id, from |-> old, to |-> new, active |-> TRUE]}

RenameKeepsSource(rows, old, new, id) ==
    RecordMove(MoveTargets(rows, old, new), old, new, id)

RenameRows(rows, old, new, id) ==
    RecordMove(MoveTargets(WithoutSource(rows, new), old, new), old, new, id)

-----------------------------------------------------------------------------
\* The table is a function of its source path (UNIQUE from_path, PRIMARY KEY id).
UniqueSources(rows) ==
    \A r, s \in rows : (r.from = s.from \/ r.id = s.id) => r = s

\* No row of the table sends a path to itself (CHECK chk_redirects_no_self).
NoSelf(rows) == \A r \in rows : r.from # r.to

\* No active redirect lands on the source of an active redirect: one hop is
\* all a visitor ever makes.
Flat(rows) == \A r, s \in rows : (r.active /\ s.active) => r.to # s.from

\* A set of paths that visitors can never leave: every member has an active
\* redirect and it leads back into the set.
Trapped(rows, S) ==
    \A p \in S : \E r \in rows : r.active /\ r.from = p /\ r.to \in S

\* Following active redirects always ends.
Terminating(rows) == \A S \in SUBSET Paths : Trapped(rows, S) => S = {}
=============================================================================
