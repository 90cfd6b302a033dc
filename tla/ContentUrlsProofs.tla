-------------------------- MODULE ContentUrlsProofs --------------------------
(***************************************************************************)
(* Slug changes on any site, with any number of pages: the trigger alone   *)
(* keeps the redirects flat and off the pages, and whatever happens to the *)
(* pages, visitors are led as VisitorPaths promises.                       *)
(*                                                                         *)
(* The proofs see the table as its edges: Sends(rows, p, t) when a visitor *)
(* of p is sent to t.  RenameEdges says once which edges the trigger       *)
(* leaves; the rest is about edges and live pages.                         *)
(***************************************************************************)
EXTENDS ContentUrls, TLAPS

Sends(T, p, t) == \E r \in T : r.from = p /\ r.to = t

AllActive == \A r \in rows : r.active

\* The unique index and the registry: no two live pages at one path.
OnePageEach == \A e, f \in Contents, p \in Paths : LiveAt(e, p) /\ LiveAt(f, p) => e = f

EdgesFlat == /\ \A p, q, t : Sends(rows, p, q) => ~Sends(rows, q, t)
             /\ \A p : ~Sends(rows, p, p)

PagesInv ==
    /\ page \in [Contents -> Page]
    /\ \A e \in Contents : page[e].state # "absent" => page[e].path \in Paths

RowsInv == rows \subseteq Row /\ UniqueSources(rows)

IInv == /\ PagesInv /\ RowsInv /\ AllActive
        /\ OnePageEach /\ EdgesFlat /\ LiveReachable

-----------------------------------------------------------------------------
\* A visitor of p is redirected if some edge leaves p.
LEMMA RedirectedBySome ==
    ASSUME AllActive, NEW p
    PROVE  Redirected(p) <=> \E t : Sends(rows, p, t)
  BY DEF AllActive, Redirected, ActiveAt, Sends

\* An edge per row at most.
LEMMA SendsOnce ==
    ASSUME NEW T, UniqueSources(T), NEW p, NEW t, NEW u, Sends(T, p, t), Sends(T, p, u)
    PROVE  t = u
  BY DEF UniqueSources, Sends

\* What the trigger leaves: old is sent to new, whoever was sent to old is sent
\* to new, new is sent nowhere; every other edge stays.
LEMMA RenameEdges ==
    ASSUME NEW T \in SUBSET Row, UniqueSources(T), NEW old \in Paths, NEW new \in Paths,
           old # new, NEW id \in Nat \ {0}, \A r \in T : r.id # id
    PROVE  /\ RenameRows(T, old, new, id) \subseteq Row
           /\ UniqueSources(RenameRows(T, old, new, id))
           /\ (\A r \in T : r.active) => \A r \in RenameRows(T, old, new, id) : r.active
           /\ \A p, t : Sends(RenameRows(T, old, new, id), p, t) <=>
                          \/ p = old /\ t = new
                          \/ /\ p \notin {old, new}
                             /\ (Sends(T, p, t) /\ t # old) \/ (Sends(T, p, old) /\ t = new)
  <1> DEFINE Moved(r) == IF r.to = old THEN [r EXCEPT !.to = new] ELSE r
             kept == {r \in T : r.from # new}
             moved == {Moved(r) : r \in kept}
             upsert == IF RowAt(moved, old) = {} THEN id
                       ELSE (CHOOSE r \in RowAt(moved, old) : TRUE).id
             row == [id |-> upsert, from |-> old, to |-> new, active |-> TRUE]
             after == {r \in moved : r.from # old} \cup {row}
  <1>0. RenameRows(T, old, new, id) = after
    BY DEF RenameRows, RecordMove, RecordedRow, MoveTargets, WithoutSource
  <1>1. ASSUME NEW r \in T
        PROVE  /\ r \in Row /\ Moved(r) \in Row
               /\ Moved(r).id = r.id /\ Moved(r).from = r.from /\ Moved(r).active = r.active
               /\ Moved(r).to = IF r.to = old THEN new ELSE r.to
    <2>1. r \in Row
      OBVIOUS
    <2> QED BY <2>1 DEF Row, Targets
  <1> HIDE DEF Moved
  <1>2. \A m \in moved : \E r \in T : r.from # new /\ m = Moved(r)
    OBVIOUS
  <1>3. \A r \in T : r.from # new => Moved(r) \in moved
    OBVIOUS
  <1>4. upsert = id \/ \E r \in T : r.from = old /\ r.id = upsert
    <2>1. CASE RowAt(moved, old) # {}
      <3>1. \E m : m \in RowAt(moved, old)
        BY <2>1
      <3>2. PICK m \in moved : m.from = old /\ m = (CHOOSE r \in RowAt(moved, old) : TRUE)
        BY <3>1 DEF RowAt
      <3>3. upsert = m.id
        BY <2>1, <3>2
      <3>4. PICK r \in T : m = Moved(r)
        BY <1>2
      <3> QED BY <1>1, <3>2, <3>3, <3>4
    <2> QED BY <2>1
  <1>5. row \in Row /\ row.id = upsert /\ row.from = old /\ row.to = new /\ row.active
    <2>1. upsert \in Nat \ {0}
      BY <1>4 DEF Row
    <2> QED BY <2>1 DEF Row, Targets
  <1>6. \A m \in after : m = row \/ \E r \in T : r.from \notin {old, new} /\ m = Moved(r)
    BY <1>1, <1>2
  <1>7. \A r \in T : r.from \notin {old, new} => Moved(r) \in after
    BY <1>1, <1>3
  <1>8. row \in after
    OBVIOUS
  <1> HIDE DEF moved, upsert, row, after
  <1>9. after \subseteq Row
    BY <1>1, <1>5, <1>6
  <1>10. UniqueSources(after)
    BY <1>1, <1>4, <1>5, <1>6 DEF UniqueSources
  <1>11. (\A r \in T : r.active) => \A r \in after : r.active
    BY <1>1, <1>5, <1>6
  <1>12. ASSUME NEW p, NEW t, Sends(after, p, t)
         PROVE  \/ p = old /\ t = new
                \/ /\ p \notin {old, new}
                   /\ (Sends(T, p, t) /\ t # old) \/ (Sends(T, p, old) /\ t = new)
    <2>1. PICK m \in after : m.from = p /\ m.to = t
      BY <1>12 DEF Sends
    <2>2. CASE m = row
      BY <1>5, <2>1, <2>2
    <2>3. ASSUME NEW r \in T, r.from \notin {old, new}, m = Moved(r)
          PROVE  /\ p \notin {old, new}
                 /\ (Sends(T, p, t) /\ t # old) \/ (Sends(T, p, old) /\ t = new)
      <3>1. r.from = p /\ t = IF r.to = old THEN new ELSE r.to
        BY <1>1, <2>1, <2>3
      <3>2. Sends(T, p, r.to)
        BY <3>1 DEF Sends
      <3>3. CASE r.to = old
        BY <2>3, <3>1, <3>2, <3>3
      <3>4. CASE r.to # old
        BY <2>3, <3>1, <3>2, <3>4
      <3> QED BY <3>3, <3>4
    <2> QED BY <1>6, <2>2, <2>3
  <1>13. ASSUME NEW p, NEW t, p \notin {old, new},
                (Sends(T, p, t) /\ t # old) \/ (Sends(T, p, old) /\ t = new)
         PROVE  Sends(after, p, t)
    <2>1. PICK r \in T : r.from = p /\ ((r.to = t /\ t # old) \/ (r.to = old /\ t = new))
      BY <1>13 DEF Sends
    <2> QED BY <1>1, <1>7, <1>13, <2>1 DEF Sends
  <1>14. Sends(after, old, new)
    BY <1>5, <1>8 DEF Sends
  <1> QED BY <1>0, <1>9, <1>10, <1>11, <1>12, <1>13, <1>14
-----------------------------------------------------------------------------
LEMMA InitHolds == Init => IInv
  BY NothingAssumption
     DEF Init, IInv, PagesInv, RowsInv, AllActive, OnePageEach, EdgesFlat, LiveReachable,
         Page, LiveAt, UniqueSources, Sends

\* A page comes to a path where no live page is, or goes; the table stays.
LEMMA PageStep ==
    ASSUME IInv, UNCHANGED rows, NEW e \in Contents, NEW x \in Page,
           x.state # "absent" => x.path \in Paths,
           page' = [page EXCEPT ![e] = x],
           x.state = "live" => Vacant(x.path),
           x.state = "live" /\ Redirected(x.path) => e \in behind',
           behind \ {e} \subseteq behind'
    PROVE  IInv'
  <1>1. /\ PagesInv' /\ \A f \in Contents : page'[f] = IF f = e THEN x ELSE page[f]
        /\ x = [state |-> x.state, path |-> x.path]
    BY DEF IInv, PagesInv, Page
  <1>2. RowsInv' /\ AllActive' /\ EdgesFlat'
    BY DEF IInv, RowsInv, AllActive, EdgesFlat, Sends
  <1>3. OnePageEach'
    BY <1>1 DEF IInv, OnePageEach, LiveAt, Vacant
  <1>4. LiveReachable'
    BY <1>1 DEF IInv, LiveReachable, LiveAt, Redirected, ActiveAt
  <1> QED BY <1>1, <1>2, <1>3, <1>4 DEF IInv

\* What a rename does: the page moves, and the table is the trigger's.
LEMMA RenameDoes ==
    ASSUME IInv, NEW e \in Contents, NEW p \in Paths, Rename(e, p)
    PROVE  \E old \in Paths :
             /\ LiveAt(e, old) /\ old # p /\ page[e].path = old
             /\ \A f \in Contents :
                  page'[f] = IF f = e THEN [state |-> "live", path |-> p] ELSE page[f]
             /\ rows' \subseteq Row /\ UniqueSources(rows') /\ AllActive'
             /\ \A q, t : Sends(rows', q, t) <=>
                            \/ q = old /\ t = p
                            \/ /\ q \notin {old, p}
                               /\ \/ Sends(rows, q, t) /\ t # old
                                  \/ Sends(rows, q, old) /\ t = p
  <1>1. /\ page[e] \in Page /\ page[e].state = "live" /\ page[e].path \in Paths
        /\ page' = [page EXCEPT ![e].path = p] /\ page \in [Contents -> Page] /\ Vacant(p)
    BY DEF Rename, IInv, PagesInv
  <1>2. PICK old \in Paths : old = page[e].path
    BY <1>1
  <1>3. LiveAt(e, old) /\ old # p
    <2>1. LiveAt(e, old)
      BY <1>1, <1>2 DEF Page, LiveAt
    <2> QED BY <1>1, <2>1 DEF Vacant
  <1>4. PICK id \in FreeIds : rows' = RenameRows(rows, old, p, id)
    BY <1>2 DEF Rename
  <1>5. id \in Nat \ {0} /\ \A r \in rows : r.id # id
    BY IdsAssumption DEF FreeIds
  <1>6. \A f \in Contents :
          page'[f] = IF f = e THEN [state |-> "live", path |-> p] ELSE page[f]
    BY <1>1, <1>3 DEF LiveAt
  <1>7. rows \in SUBSET Row /\ UniqueSources(rows) /\ \A r \in rows : r.active
    BY DEF IInv, RowsInv, AllActive
  <1>8. /\ rows' \subseteq Row /\ UniqueSources(rows') /\ \A r \in rows' : r.active
        /\ \A q, t : Sends(rows', q, t) <=>
                        \/ q = old /\ t = p
                        \/ /\ q \notin {old, p}
                           /\ (Sends(rows, q, t) /\ t # old) \/ (Sends(rows, q, old) /\ t = p)
    BY <1>3, <1>4, <1>5, <1>7, RenameEdges
  <1> QED BY <1>2, <1>3, <1>6, <1>8 DEF AllActive

LEMMA RenameStep ==
    ASSUME IInv, NEW e \in Contents, NEW p \in Paths, Rename(e, p)
    PROVE  IInv'
  <1>0. PICK old \in Paths :
          /\ LiveAt(e, old) /\ old # p /\ page[e].path = old
          /\ \A f \in Contents :
               page'[f] = IF f = e THEN [state |-> "live", path |-> p] ELSE page[f]
          /\ rows' \subseteq Row /\ UniqueSources(rows') /\ AllActive'
          /\ \A q, t : Sends(rows', q, t) <=>
                         \/ q = old /\ t = p
                         \/ /\ q \notin {old, p}
                            /\ \/ Sends(rows, q, t) /\ t # old
                               \/ Sends(rows, q, old) /\ t = p
    BY RenameDoes
  <1>1. Vacant(p) /\ behind' = behind \ {e}
    BY DEF Rename
  <1>3. PagesInv'
    <2>1. page' = [page EXCEPT ![e].path = p]
      BY DEF Rename
    <2> QED BY <1>0, <2>1 DEF IInv, PagesInv, Page
  <1>4. RowsInv' /\ AllActive'
    BY <1>0 DEF RowsInv
  <1>5. OnePageEach'
    BY <1>0, <1>1 DEF IInv, OnePageEach, LiveAt, Vacant
  <1>6. EdgesFlat'
    <2>1. \A q, t : Sends(rows, q, t) => ~Sends(rows, q, q) /\ \A u : ~Sends(rows, t, u)
      BY DEF IInv, EdgesFlat
    <2> QED BY <1>0, <2>1 DEF EdgesFlat
  <1>7. LiveReachable'
    <2> SUFFICES ASSUME NEW f \in Contents \ behind', NEW q \in Paths, LiveAt(f, q)',
                        NEW t, Sends(rows', q, t)
                 PROVE  FALSE
      <3>1. \A q \in Paths : Redirected(q)' <=> \E t : Sends(rows', q, t)
        BY <1>4 DEF AllActive, Redirected, ActiveAt, Sends
      <3> QED BY <3>1 DEF LiveReachable
    <2>1. CASE f = e
      BY <1>0, <2>1 DEF LiveAt
    <2>2. CASE f # e
      <3>1. LiveAt(f, q) /\ f \notin behind
        BY <1>0, <1>1, <2>2 DEF LiveAt
      <3>2. q # old
        BY <1>0, <2>2, <3>1 DEF IInv, OnePageEach
      <3>3. \E u : Sends(rows, q, u)
        BY <1>0, <3>2
      <3> QED BY <3>1, <3>3, RedirectedBySome DEF IInv, LiveReachable
    <2> QED BY <2>1, <2>2
  <1> QED BY <1>3, <1>4, <1>5, <1>6, <1>7 DEF IInv

LEMMA NextKeeps == IInv /\ [Next]_vars => IInv'
  <1> SUFFICES ASSUME IInv, [Next]_vars PROVE IInv'
    OBVIOUS
  <1>1. page \in [Contents -> Page]
    BY DEF IInv, PagesInv
  <1>2. ASSUME NEW e \in Contents, NEW p \in Paths, Publish(e, p)
        PROVE  IInv'
    BY <1>2, PageStep DEF Publish, Arrives, Page
  <1>3. ASSUME NEW e \in Contents, NEW p \in Paths, Rename(e, p)
        PROVE  IInv'
    BY <1>3, RenameStep
  <1>4. ASSUME NEW e \in Contents, NEW p \in Paths, EditDeleted(e, p)
        PROVE  IInv'
    <2> DEFINE x == [page[e] EXCEPT !.path = p]
    <2>1. x \in Page /\ x.state = "deleted" /\ x.path = p /\ page' = [page EXCEPT ![e] = x]
      BY <1>1, <1>4 DEF EditDeleted, Page
    <2> HIDE DEF x
    <2> QED BY <1>4, <2>1, PageStep DEF EditDeleted
  <1>5. ASSUME NEW e \in Contents, SoftDelete(e)
        PROVE  IInv'
    <2> DEFINE x == [page[e] EXCEPT !.state = "deleted"]
    <2>1. /\ x \in Page /\ x.state = "deleted" /\ x.path \in Paths
          /\ page' = [page EXCEPT ![e] = x]
      BY <1>1, <1>5 DEF SoftDelete, Page, IInv, PagesInv
    <2> HIDE DEF x
    <2> QED BY <1>5, <2>1, PageStep DEF SoftDelete
  <1>6. ASSUME NEW e \in Contents, Restore(e)
        PROVE  IInv'
    <2> DEFINE x == [page[e] EXCEPT !.state = "live"]
    <2>1. /\ x \in Page /\ x.state = "live" /\ x.path = page[e].path /\ x.path \in Paths
          /\ page' = [page EXCEPT ![e] = x]
      BY <1>1, <1>6 DEF Restore, Page, IInv, PagesInv
    <2> HIDE DEF x
    <2> QED BY <1>6, <2>1, PageStep DEF Restore, Arrives
  <1>7. CASE UNCHANGED vars
    BY <1>7 DEF vars, IInv, PagesInv, RowsInv, AllActive, OnePageEach, EdgesFlat,
                LiveReachable, LiveAt, Redirected
  <1> QED BY <1>2, <1>3, <1>4, <1>5, <1>6, <1>7 DEF Next

LEMMA Always == Spec => []IInv
  BY InitHolds, NextKeeps, PTL DEF Spec

\* Redirects keep their two keys and pages their paths, on any site.
THEOREM UrlsTyped == Spec => []TypeOK
  <1>1. IInv => TypeOK
    BY DEF IInv, PagesInv, RowsInv, TypeOK
  <1> QED BY <1>1, Always, PTL

\* However often pages are renamed, the trigger keeps the table flat and free of
\* redirects from a path to itself (migration 000002).
THEOREM TriggerFlat == Spec => []OneHop
  <1>1. IInv => OneHop
    BY DEF IInv, EdgesFlat, Sends, OneHop, Flat, NoSelf
  <1> QED BY <1>1, Always, PTL

\* No chain of renames ever puts a redirect in front of a live page.
THEOREM NeverHidden == Spec => []LiveReachable
  <1>1. IInv => LiveReachable
    BY DEF IInv
  <1> QED BY <1>1, Always, PTL
-----------------------------------------------------------------------------
(* What visitors are promised.  Leads and Home are VisitorPaths' variables.  *)

Leads == [p \in Paths |-> ContentAt(Landing(p))]
Home == [e \in Contents |-> IF page[e].state = "live" THEN page[e].path ELSE NoPath]

\* A visitor goes along the one edge there is, or stays.
LandsByEdges ==
    \A p \in Paths : /\ \A t : Sends(rows, p, t) => Landing(p) = t
                     /\ (\A t : ~Sends(rows, p, t)) => Landing(p) = p

LEMMA LandingIs == IInv => LandsByEdges
  <1> SUFFICES ASSUME IInv, NEW p \in Paths
               PROVE  /\ \A t : Sends(rows, p, t) => Landing(p) = t
                      /\ (\A t : ~Sends(rows, p, t)) => Landing(p) = p
    BY DEF LandsByEdges
  <1>1. ASSUME NEW t, Sends(rows, p, t) PROVE Landing(p) = t
    <2>1. PICK r \in rows : r.from = p /\ r.to = t
      BY <1>1 DEF Sends
    <2>2. r \in ActiveAt(rows, p) /\ \A s \in ActiveAt(rows, p) : s = r
      BY <2>1 DEF ActiveAt, IInv, AllActive, RowsInv, UniqueSources
    <2>3. (CHOOSE s \in ActiveAt(rows, p) : TRUE) = r
      BY <2>2
    <2> QED BY <2>1, <2>2, <2>3 DEF Landing, Redirected
  <1>2. ASSUME \A t : ~Sends(rows, p, t) PROVE Landing(p) = p
    <2>1. ~Redirected(p)
      BY <1>2, RedirectedBySome DEF IInv
    <2> QED BY <2>1 DEF Landing
  <1> QED BY <1>1, <1>2

LEMMA LandingIsNext == IInv' => LandsByEdges'
  BY LandingIs, PTL

\* A path shows the one page that is live there, or nothing.
ShowsOnePage ==
    \A t : /\ \A e \in Contents : LiveAt(e, t) => ContentAt(t) = e
           /\ Vacant(t) => ContentAt(t) = Nothing

LEMMA ContentIs == IInv => ShowsOnePage
  <1> SUFFICES ASSUME IInv, NEW t, NEW e \in Contents, LiveAt(e, t)
               PROVE  ContentAt(t) = e
    BY DEF ShowsOnePage, ContentAt
  <1>1. t \in Paths
    BY DEF LiveAt, IInv, PagesInv
  <1>2. \A f \in Contents : LiveAt(f, t) => f = e
    BY <1>1 DEF IInv, OnePageEach
  <1>3. (CHOOSE f \in Contents : LiveAt(f, t)) = e
    BY <1>2
  <1> QED BY <1>3 DEF ContentAt, Vacant

LEMMA ContentIsNext == IInv' => ShowsOnePage'
  BY ContentIs, PTL

\* When one page changes, only its old and its new path show something else.
LEMMA ContentStep ==
    ASSUME IInv, IInv', NEW e \in Contents, \A f \in Contents \ {e} : page'[f] = page[f],
           NEW t
    PROVE  ContentAt(t)' = IF LiveAt(e, t)' THEN e
                           ELSE IF LiveAt(e, t) THEN Nothing ELSE ContentAt(t)
  <1>0. \A f \in Contents \ {e} : LiveAt(f, t)' <=> LiveAt(f, t)
    BY DEF LiveAt
  <1>1. /\ \A f \in Contents : LiveAt(f, t)' => ContentAt(t)' = f
        /\ Vacant(t)' => ContentAt(t)' = Nothing
    BY ContentIsNext DEF ShowsOnePage
  <1>2. /\ \A f \in Contents : LiveAt(f, t) => ContentAt(t) = f
        /\ Vacant(t) => ContentAt(t) = Nothing
    BY ContentIs DEF ShowsOnePage
  <1>3. CASE LiveAt(e, t)'
    BY <1>1, <1>3
  <1>4. CASE ~(LiveAt(e, t)') /\ LiveAt(e, t)
    <2>1. \A f \in Contents \ {e} : ~LiveAt(f, t)
      BY <1>2, <1>4
    <2>2. Vacant(t)'
      BY <1>0, <1>4, <2>1 DEF Vacant
    <2> QED BY <1>1, <1>4, <2>2
  <1>5. CASE ~(LiveAt(e, t)') /\ ~LiveAt(e, t)
    <2>1. CASE Vacant(t)
      <3>1. Vacant(t)'
        BY <1>0, <1>5, <2>1 DEF Vacant
      <3> QED BY <1>1, <1>2, <1>5, <2>1, <3>1
    <2>2. CASE ~Vacant(t)
      <3>1. PICK f \in Contents : LiveAt(f, t)
        BY <2>2 DEF Vacant
      <3>2. f # e /\ LiveAt(f, t)'
        BY <1>0, <1>5, <3>1
      <3> QED BY <1>1, <1>2, <1>5, <3>1, <3>2
    <2> QED BY <2>1, <2>2
  <1> QED BY <1>3, <1>4, <1>5

\* Where no page is, a path leads nowhere; where one is, it is a key of Contents.
LEMMA NothingThere == ASSUME NEW e \in Contents PROVE e # Nothing
  BY NothingAssumption

\* A page comes to a path where none was: Publish and Restore.
LEMMA Appears ==
    ASSUME IInv, IInv', UNCHANGED rows, NEW e \in Contents, NEW p \in Paths, Vacant(p),
           page[e].state # "live", page'[e] = [state |-> "live", path |-> p],
           \A f \in Contents \ {e} : page'[f] = page[f]
    PROVE  V!Appear(e, p)
  <1>1. \A t : ContentAt(t)' = IF t = p THEN e ELSE ContentAt(t)
    <2>1. \A t : LiveAt(e, t)' <=> t = p
      BY DEF LiveAt
    <2>2. \A t : ~LiveAt(e, t)
      BY DEF LiveAt
    <2> QED BY <2>1, <2>2, ContentStep
  <1>2. ContentAt(p) = Nothing
    BY ContentIs DEF ShowsOnePage
  <1>3. \A q \in Paths : Landing(q)' = Landing(q)
    BY DEF Landing, Redirected, ActiveAt
  <1>4. \A q \in Paths : Leads[q] = ContentAt(Landing(q)) /\ Leads'[q] = ContentAt(Landing(q))'
    BY DEF Leads
  <1>5. \A q \in Paths : Leads'[q] = Leads[q] \/ (Leads[q] = Nothing /\ Leads'[q] = e)
    BY <1>1, <1>2, <1>3, <1>4
  <1>6. Home[e] = NoPath /\ Home' = [Home EXCEPT ![e] = p]
    <2>1. \A f \in Contents :
            /\ Home[f] = IF page[f].state = "live" THEN page[f].path ELSE NoPath
            /\ Home'[f] = IF page'[f].state = "live" THEN page'[f].path ELSE NoPath
      BY DEF Home
    <2>2. Home' = [f \in Contents |-> Home'[f]] /\ Home = [f \in Contents |-> Home[f]]
      BY DEF Home
    <2> QED BY <2>1, <2>2
  <1> QED BY <1>5, <1>6 DEF V!Appear, V!Gains, Leads, Home

\* A page goes: the paths that led to it lead nowhere, all others as before.
LEMMA Goes ==
    ASSUME IInv, IInv', UNCHANGED rows, NEW e \in Contents,
           page[e].state = "live", page'[e].state # "live",
           \A f \in Contents \ {e} : page'[f] = page[f]
    PROVE  V!Disappear(e)
  <1>1. \A t : ContentAt(t)' = IF ContentAt(t) = e THEN Nothing ELSE ContentAt(t)
    <2> SUFFICES ASSUME NEW t
                 PROVE  ContentAt(t)' = IF ContentAt(t) = e THEN Nothing ELSE ContentAt(t)
      OBVIOUS
    <2>1. ~(LiveAt(e, t)')
      BY DEF LiveAt
    <2>2. ContentAt(t)' = IF LiveAt(e, t) THEN Nothing ELSE ContentAt(t)
      BY <2>1, ContentStep
    <2>3. LiveAt(e, t) <=> ContentAt(t) = e
      <3>1. CASE Vacant(t)
        BY <3>1, ContentIs, NothingThere DEF ShowsOnePage, Vacant
      <3>2. CASE ~Vacant(t)
        <4>1. PICK f \in Contents : LiveAt(f, t)
          BY <3>2 DEF Vacant
        <4> QED BY <4>1, ContentIs DEF ShowsOnePage
      <3> QED BY <3>1, <3>2
    <2> QED BY <2>2, <2>3
  <1>2. \A q \in Paths : Landing(q)' = Landing(q)
    BY DEF Landing, Redirected, ActiveAt
  <1>3. Leads' = [q \in Paths |-> IF Leads[q] = e THEN Nothing ELSE Leads[q]]
    <2>1. \A q \in Paths : Leads[q] = ContentAt(Landing(q)) /\ Leads'[q] = ContentAt(Landing(q))'
      BY DEF Leads
    <2>2. \A q \in Paths : Leads'[q] = IF Leads[q] = e THEN Nothing ELSE Leads[q]
      BY <1>1, <1>2, <2>1
    <2>3. Leads' = [q \in Paths |-> Leads'[q]]
      BY DEF Leads
    <2> QED BY <2>2, <2>3
  <1>4. Home' = [Home EXCEPT ![e] = NoPath]
    <2>1. \A f \in Contents : Home'[f] = IF f = e THEN NoPath ELSE Home[f]
      BY DEF Home
    <2>2. Home' = [f \in Contents |-> Home'[f]] /\ Home = [f \in Contents |-> Home[f]]
      BY DEF Home
    <2> QED BY <2>1, <2>2
  <1> QED BY <1>3, <1>4 DEF V!Disappear, Leads, Home

\* A page is renamed: its old and its new path lead to it, so does every path
\* that did, and a path that led nowhere may.
LEMMA Moves ==
    ASSUME IInv, IInv', NEW e \in Contents, NEW p \in Paths, Rename(e, p)
    PROVE  V!Move(e, p)
  <1>0. PICK old \in Paths :
          /\ LiveAt(e, old) /\ old # p /\ page[e].path = old
          /\ \A f \in Contents :
               page'[f] = IF f = e THEN [state |-> "live", path |-> p] ELSE page[f]
          /\ rows' \subseteq Row /\ UniqueSources(rows') /\ AllActive'
          /\ \A q, t : Sends(rows', q, t) <=>
                         \/ q = old /\ t = p
                         \/ /\ q \notin {old, p}
                            /\ \/ Sends(rows, q, t) /\ t # old
                               \/ Sends(rows, q, old) /\ t = p
    BY RenameDoes
  <1>1. Vacant(p) /\ page[e] = [state |-> "live", path |-> old]
    BY <1>0 DEF Rename, LiveAt
  <1>2. Home[e] = old /\ old # NoPath
    BY <1>1, NothingAssumption DEF Home
  <1>3. Home' = [Home EXCEPT ![e] = p]
    <2>1. \A f \in Contents :
            /\ Home[f] = IF page[f].state = "live" THEN page[f].path ELSE NoPath
            /\ Home'[f] = IF page'[f].state = "live" THEN page'[f].path ELSE NoPath
      BY DEF Home
    <2>2. Home' = [f \in Contents |-> Home'[f]] /\ Home = [f \in Contents |-> Home[f]]
      BY DEF Home
    <2> QED BY <1>0, <2>1, <2>2
  <1>4. \A t : ContentAt(t)' = IF t = p THEN e ELSE IF t = old THEN Nothing ELSE ContentAt(t)
    <2>1. \A t : (LiveAt(e, t)' <=> t = p) /\ (LiveAt(e, t) <=> t = old)
      BY <1>0, <1>1 DEF LiveAt
    <2>2. \A f \in Contents \ {e} : page'[f] = page[f]
      BY <1>0
    <2> QED BY <2>1, <2>2, ContentStep
  <1>5. ContentAt(old) = e /\ ContentAt(p) = Nothing
    BY <1>0, <1>1, ContentIs DEF ShowsOnePage
  <1>6. \A q \in Paths : /\ \A t : Sends(rows', q, t) => Landing(q)' = t
                         /\ (\A t : ~Sends(rows', q, t)) => Landing(q)' = q
    BY LandingIsNext DEF LandsByEdges
  <1>7. \A q \in Paths : /\ \A t : Sends(rows, q, t) => Landing(q) = t
                         /\ (\A t : ~Sends(rows, q, t)) => Landing(q) = q
    BY LandingIs DEF LandsByEdges
  <1>8. Landing(old)' = p /\ Landing(p)' = p
    <2>1. Sends(rows', old, p) /\ \A t : ~Sends(rows', p, t)
      BY <1>0
    <2> QED BY <1>6, <2>1
  <1>9. ASSUME NEW q \in Paths, q \notin {old, p}
        PROVE  Landing(q)' = IF Landing(q) = old THEN p ELSE Landing(q)
    <2>1. CASE \E t : Sends(rows, q, t)
      <3>1. PICK t : Sends(rows, q, t)
        BY <2>1
      <3>2. Landing(q) = t
        BY <1>7, <3>1
      <3>3. CASE t = old
        <4>1. Sends(rows', q, p)
          BY <1>0, <1>9, <3>1, <3>3
        <4> QED BY <1>6, <3>2, <3>3, <4>1
      <3>4. CASE t # old
        <4>1. Sends(rows', q, t)
          BY <1>0, <1>9, <3>1, <3>4
        <4> QED BY <1>6, <3>2, <3>4, <4>1
      <3> QED BY <3>3, <3>4
    <2>2. CASE \A t : ~Sends(rows, q, t)
      <3>1. \A t : ~Sends(rows', q, t)
        BY <1>0, <1>9, <2>2
      <3> QED BY <1>6, <1>7, <1>9, <2>2, <3>1
    <2> QED BY <2>1, <2>2
  <1>10. \A q \in Paths : Leads[q] = ContentAt(Landing(q)) /\ Leads'[q] = ContentAt(Landing(q))'
    BY DEF Leads
  <1>11. ASSUME NEW q \in Paths
         PROVE  IF q \in {old, p} THEN Leads'[q] = e
                ELSE Leads'[q] = Leads[q] \/ (Leads[q] = Nothing /\ Leads'[q] = e)
    <2>1. ContentAt(Landing(q))' = IF Landing(q)' = p THEN e
                                  ELSE IF Landing(q)' = old THEN Nothing
                                  ELSE ContentAt(Landing(q)')
      BY <1>4
    <2>2. CASE q \in {old, p}
      BY <1>8, <1>10, <2>1, <2>2
    <2>3. CASE q \notin {old, p}
      BY <1>0, <1>5, <1>9, <1>10, <2>1, <2>3
    <2> QED BY <2>2, <2>3
  <1> QED BY <1>2, <1>3, <1>11 DEF V!Move, V!Gains, Leads, Home

\* An edit of a deleted row shows to no visitor.
LEMMA Unseen ==
    ASSUME IInv, IInv', UNCHANGED rows, NEW e \in Contents,
           page[e].state # "live", page'[e].state # "live",
           \A f \in Contents \ {e} : page'[f] = page[f]
    PROVE  UNCHANGED <<Leads, Home>>
  <1>1. \A t : ContentAt(t)' = ContentAt(t)
    <2>1. \A t : ~(LiveAt(e, t)') /\ ~LiveAt(e, t)
      BY DEF LiveAt
    <2> QED BY <2>1, ContentStep
  <1>2. \A q \in Paths : Landing(q)' = Landing(q)
    BY DEF Landing, Redirected, ActiveAt
  <1>3. \A q \in Paths : Leads'[q] = Leads[q]
    <2>1. \A q \in Paths : Leads[q] = ContentAt(Landing(q)) /\ Leads'[q] = ContentAt(Landing(q))'
      BY DEF Leads
    <2> QED BY <1>1, <1>2, <2>1
  <1>4. \A f \in Contents : Home'[f] = Home[f]
    BY DEF Home
  <1>5. /\ Leads = [q \in Paths |-> Leads[q]] /\ Leads' = [q \in Paths |-> Leads'[q]]
        /\ Home = [f \in Contents |-> Home[f]] /\ Home' = [f \in Contents |-> Home'[f]]
    BY DEF Leads, Home
  <1> QED BY <1>3, <1>4, <1>5

LEMMA VisitorInit == Init => V!Init
  <1> SUFFICES ASSUME Init PROVE V!Init
    OBVIOUS
  <1>1. IInv /\ \A t : Vacant(t) /\ ContentAt(t) = Nothing
    BY InitHolds, ContentIs DEF Init, Vacant, LiveAt, ShowsOnePage
  <1>2. Leads = [q \in Paths |-> Nothing]
    BY <1>1 DEF Leads
  <1>3. Home = [e \in Contents |-> NoPath]
    BY DEF Init, Home
  <1> QED BY <1>2, <1>3 DEF V!Init, Leads, Home

LEMMA VisitorStep == IInv /\ IInv' /\ [Next]_vars => [V!Next]_<<Leads, Home>>
  <1> SUFFICES ASSUME IInv, IInv', [Next]_vars PROVE [V!Next]_<<Leads, Home>>
    OBVIOUS
  <1>1. page \in [Contents -> Page]
    BY DEF IInv, PagesInv
  <1>2. ASSUME NEW e \in Contents, NEW p \in Paths, Publish(e, p)
        PROVE  V!Appear(e, p)
    BY <1>1, <1>2, Appears DEF Publish
  <1>3. ASSUME NEW e \in Contents, NEW p \in Paths, Rename(e, p)
        PROVE  V!Move(e, p)
    BY <1>3, Moves
  <1>4. ASSUME NEW e \in Contents, NEW p \in Paths, EditDeleted(e, p)
        PROVE  UNCHANGED <<Leads, Home>>
    BY <1>1, <1>4, Unseen DEF EditDeleted, Page
  <1>5. ASSUME NEW e \in Contents, SoftDelete(e)
        PROVE  V!Disappear(e)
    BY <1>1, <1>5, Goes DEF SoftDelete, Page
  <1>6. ASSUME NEW e \in Contents, Restore(e)
        PROVE  \E p \in Paths : V!Appear(e, p)
    <2>1. page[e].path \in Paths /\ page[e] \in Page
      BY <1>1, <1>6 DEF Restore, IInv, PagesInv
    <2>2. /\ page'[e] = [state |-> "live", path |-> page[e].path]
          /\ \A f \in Contents \ {e} : page'[f] = page[f]
      BY <1>1, <1>6, <2>1 DEF Restore, Page
    <2> QED BY <1>6, <2>1, <2>2, Appears DEF Restore
  <1>7. CASE UNCHANGED vars
    BY <1>7 DEF vars, Leads, Home, ContentAt, Landing, Vacant, LiveAt, Redirected
  <1> QED BY <1>2, <1>3, <1>4, <1>5, <1>6, <1>7 DEF Next, V!Next, Leads, Home

\* Whatever is renamed, published, deleted and restored, visitors are led as
\* VisitorPaths promises: links survive renames, in one hop.
THEOREM LinksSurvive == Spec => LinksKept
  <1>1. IInv /\ IInv' /\ [Next]_vars => [V!Next]_<<Leads, Home>>
    BY VisitorStep
  <1> QED BY <1>1, VisitorInit, Always, PTL DEF LinksKept, V!Spec, Spec, Leads, Home
=============================================================================
