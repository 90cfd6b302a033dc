----------------------------- MODULE ContentUrls -----------------------------
(***************************************************************************)
(* Content rows, the site paths they live at, and the redirects the        *)
(* slug-change trigger of internal/redirect/migrations/000002 records.     *)
(*                                                                         *)
(* A path is a table's URL prefix and a slug.  nginx consults the redirects*)
(* before anything else (redirect/domain/types.go), so a live page at the  *)
(* source of an active redirect is never seen.  Each action is the one SQL *)
(* statement that changes the row, its triggers included, so that slug     *)
(* changes take turns; Redirects has the trigger's statements interleaved, *)
(* and SlugRegistry what makes live paths unique.                          *)
(***************************************************************************)
EXTENDS RedirectTable

CONSTANTS
    Contents,   \* content rows
    Nothing,    \* no content
    NoPath,     \* the path of a row that is not there
    Ids         \* keys of redirect rows

ASSUME NothingAssumption == Nothing \notin Contents /\ NoPath \notin Paths
ASSUME IdsAssumption == Ids \subseteq Nat \ {0}

VARIABLES
    page,   \* page[e]: the content row
    rows,   \* the redirects table
    behind  \* content put at a path that redirects, not moved since (history)

vars == <<page, rows, behind>>

Page == [state : {"absent", "live", "deleted"}, path : Paths \cup {NoPath}]

LiveAt(e, p) == page[e] = [state |-> "live", path |-> p]

\* No live page is at p: the unique index and the slug registry let one in.
Vacant(p) == \A e \in Contents : ~LiveAt(e, p)

FreeIds == Ids \ {r.id : r \in rows}

-----------------------------------------------------------------------------
Init == /\ page = [e \in Contents |-> [state |-> "absent", path |-> NoPath]]
        /\ rows = {}
        /\ behind = {}

\* Content comes to path p as it stands, redirects and all.
Redirected(p) == ActiveAt(rows, p) # {}
Arrives(e, p) == behind' = IF Redirected(p) THEN behind \cup {e} ELSE behind \ {e}

\* Content is created: the redirect trigger is for updates only.
Publish(e, p) ==
    /\ page[e].state = "absent"
    /\ Vacant(p)
    /\ page' = [page EXCEPT ![e] = [state |-> "live", path |-> p]]
    /\ Arrives(e, p)
    /\ UNCHANGED rows

\* UPDATE OF slug on a live row: elc_record_slug_redirect records the move.
MoveUnrecorded(e, p) ==
    /\ page[e].state = "live"
    /\ Vacant(p)
    /\ page' = [page EXCEPT ![e].path = p]
    /\ behind' = behind \ {e}
    /\ UNCHANGED rows

Rename(e, p) ==
    /\ page[e].state = "live"
    /\ Vacant(p)
    /\ page' = [page EXCEPT ![e].path = p]
    /\ \E id \in FreeIds :
         /\ \A j \in FreeIds : id <= j
         /\ rows' = RenameRows(rows, page[e].path, p, id)
    /\ behind' = behind \ {e}

\* UPDATE OF slug on a row deleted since the editor read it (or by hand): the
\* trigger returns early.
EditDeleted(e, p) ==
    /\ page[e].state = "deleted"
    /\ page' = [page EXCEPT ![e].path = p]
    /\ UNCHANGED <<rows, behind>>

\* deleted_at is set; the slug is not in the UPDATE, no redirect trigger fires.
SoftDelete(e) ==
    /\ page[e].state = "live"
    /\ page' = [page EXCEPT ![e].state = "deleted"]
    /\ UNCHANGED <<rows, behind>>

\* deleted_at is cleared, likewise.
Restore(e) ==
    /\ page[e].state = "deleted"
    /\ Vacant(page[e].path)
    /\ page' = [page EXCEPT ![e].state = "live"]
    /\ Arrives(e, page[e].path)
    /\ UNCHANGED rows

-----------------------------------------------------------------------------
Next ==
    \E e \in Contents :
        \/ \E p \in Paths : Publish(e, p) \/ Rename(e, p) \/ EditDeleted(e, p)
        \/ SoftDelete(e)
        \/ Restore(e)

Spec == Init /\ [][Next]_vars

-----------------------------------------------------------------------------
\* Type and key correctness: rows have well-formed keys and pages have paths.
TypeOK ==
    /\ page \in [Contents -> Page]
    /\ \A e \in Contents : page[e].state # "absent" => page[e].path \in Paths
    /\ rows \subseteq Row
    /\ UniqueSources(rows)

\* The trigger alone keeps the table flat, whatever becomes of the content
\* ("Keeps the table flat and loop-free", migration 000002).
OneHop == Flat(rows) /\ NoSelf(rows)

\* A live page can be visited, its own path does not redirect, unless it was put
\* at a path that did and has stayed there: no rename of any page, and no chain
\* of renames, puts a redirect in front of a live one.
LiveReachable ==
    \A e \in Contents \ behind, p \in Paths : LiveAt(e, p) => ~Redirected(p)

\* Where nginx and then the router take a visitor of p.
Landing(p) == IF Redirected(p) THEN (CHOOSE r \in ActiveAt(rows, p) : TRUE).to ELSE p

ContentAt(p) ==
    IF Vacant(p) THEN Nothing ELSE CHOOSE e \in Contents : LiveAt(e, p)

V == INSTANCE VisitorPaths WITH
        leads <- [p \in Paths |-> ContentAt(Landing(p))],
        home  <- [e \in Contents |-> IF page[e].state = "live" THEN page[e].path ELSE NoPath]

\* Links survive: whatever is renamed, published, deleted and restored, a path
\* that led to a page keeps leading to it, in one hop, until that page goes or
\* another page is put at that very path.
LinksKept == V!Spec
=============================================================================
