----------------------------- MODULE SiteProofs -----------------------------
(***************************************************************************)
(* For any keys, layouts of tables, slugs and overlapping requests: a row  *)
(* that a create revives was deleted and is held by nobody else; deleting  *)
(* a group deletes its categories and deleting a project type frees its    *)
(* projects, but for what was written since; the rows the public lists     *)
(* show open; and a row is what the staff last asked for, until somebody   *)
(* else writes it between an edit's read and its write.                    *)
(***************************************************************************)
EXTENDS Site, FiniteSetTheorems, TLAPS

Shaped ==
    /\ table \in [Ids -> Kinds \cup {None}]
    /\ rows \in [Ids -> Row]
    /\ links \subseteq Ids \X Ids
    /\ req \in [Requests -> Request]

\* What a request is about at each stage.
Linkers == {"linking", "relinking"}
StagedAs(q) ==
    /\ q.pc = "updating" =>
         /\ q.id \in Ids /\ q.kind = table[q.id]
         /\ q.kind = "projects" => q.row.up \in ProjectTypes \cup {None}
    /\ q.pc \in Linkers => q.id \in Services
    /\ q.pc = "cascading" => q.id \in Groups /\ q.ids \subseteq Categories
Staged == \A r \in Requests : StagedAs(req[r])

\* A creating request holds the rows it found, as it found them.
HoldsAs(q) ==
    q.pc = "creating" =>
      /\ q.id \in q.ids \cup {None}
      /\ q.ids \subseteq Table(q.kind)
      /\ \A i \in q.ids : rows[i].state = "deleted" /\ rows[i].slug = q.slug
Apart(p, q) == p.pc = "creating" /\ q.pc = "creating" => p.ids \cap q.ids = {}
Locked ==
    /\ \A r \in Requests : HoldsAs(req[r])
    /\ \A r \in Requests : \A q \in Requests \ {r} : Apart(req[r], req[q])

Referring ==
    /\ \A p \in Projects : rows[p].up \in ProjectTypes \cup {None}
    /\ \A l \in links : table[l[1]] = "project_type" => l[2] \in Categories

\* A live category of a group that is being deleted was read, or came after.
CameAfter(c, q) == c \in q.ids \/ (c \in q.seen /\ <<c, q.id>> \in claimed)
CascadesAs(q) ==
    q.pc = "cascading" =>
      \A c \in Live("categories") : rows[c].up = q.id => CameAfter(c, q)
Alone(p, q) == p.pc = "cascading" /\ q.pc = "cascading" => p.id # q.id
Cascading ==
    /\ \A r \in Requests : CascadesAs(req[r])
    /\ \A r \in Requests : \A q \in Requests \ {r} : Alone(req[r], req[q])

\* CascadeComplete and TypeReleased, row by row.
NotOrphaned(c) ==
    rows[c].up \in Groups /\ rows[rows[c].up].state # "live" => <<c, rows[c].up>> \in claimed
ProjectReleased(p) ==
    rows[p].up # None /\ rows[rows[p].up].state = "deleted" => <<p, rows[p].up>> \in claimed
LinkReleased(l) ==
    /\ table[l[1]] = "project_type"
    /\ rows[l[1]].state = "deleted" \/ rows[l[2]].state = "deleted"
    => l \in claimed
Released ==
    /\ \A c \in Live("categories") : NotOrphaned(c)
    /\ \A p \in Projects : ProjectReleased(p)
    /\ \A l \in links : LinkReleased(l)

IInv == Shaped /\ Staged /\ Locked /\ Referring /\ Cascading /\ Released

-----------------------------------------------------------------------------

LEMMA IdleTyped == Idle \in Request /\ Idle.pc = "idle"
  BY DEF Idle, Request, Stages, Row, Unborn, Kinds

LEMMA InitIInv == Init => IInv
  <1> SUFFICES ASSUME Init PROVE IInv OBVIOUS
  <1>1. Unborn \in Row /\ Unborn.state = "unborn" /\ Unborn.up = None BY DEF Unborn, Row
  <1>2. \A i \in Ids : rows[i] = Unborn BY DEF Init
  <1>3. \A r \in Requests : req[r] = Idle BY DEF Init
  <1>4. links = {} BY DEF Init
  <1>5. Shaped
    BY <1>1, IdleTyped, TablesAssumption DEF Init, Shaped
  <1>6. Staged BY <1>3, IdleTyped DEF Staged, StagedAs, Linkers
  <1>7. Locked BY <1>3, IdleTyped DEF Locked, HoldsAs, Apart
  <1>8. Referring BY <1>1, <1>2, <1>4 DEF Referring, Projects, Table
  <1>9. Cascading BY <1>3, IdleTyped DEF Cascading, CascadesAs, Alone
  <1>10. Released
    BY <1>1, <1>2, <1>4 DEF Released, Live, Table, Projects, ProjectReleased
  <1> QED BY <1>5, <1>6, <1>7, <1>8, <1>9, <1>10 DEF IInv

\* The history note that a write leaves with the other requests.
LEMMA CrossFacts ==
    ASSUME Shaped, NEW S \in SUBSET Ids, NEW q \in Requests
    PROVE  /\ Cross(S)[q] \in Request
           /\ Cross(S)[q].pc = req[q].pc
           /\ Cross(S)[q].kind = req[q].kind
           /\ Cross(S)[q].slug = req[q].slug
           /\ Cross(S)[q].id = req[q].id
           /\ Cross(S)[q].row = req[q].row
           /\ Cross(S)[q].ids = req[q].ids
           /\ Cross(S)[q].found = req[q].found
           /\ req[q].pc = "cascading" =>
                Cross(S)[q].seen = req[q].seen \cup (S \cap Categories)
           /\ req[q].pc = "updating" /\ req[q].id \in S \cup req[q].seen =>
                req[q].id \in Cross(S)[q].seen
  <1> DEFINE x == [req[q] EXCEPT !.seen = @ \cup (S \cap Watched(q))]
  <1>1. req[q] \in Request BY DEF Shaped
  <1>2. S \cap Watched(q) \subseteq Ids OBVIOUS
  <1>3. /\ x \in Request /\ x.pc = req[q].pc /\ x.kind = req[q].kind /\ x.slug = req[q].slug
        /\ x.id = req[q].id /\ x.row = req[q].row /\ x.ids = req[q].ids
        /\ x.found = req[q].found /\ x.seen = req[q].seen \cup (S \cap Watched(q))
    BY <1>1, <1>2 DEF Request
  <1>4. Cross(S)[q] = IF req[q].pc \in {"updating", "cascading"} THEN x ELSE req[q]
    BY DEF Cross
  <1>5. /\ req[q].pc = "cascading" => Watched(q) = Categories
        /\ req[q].pc = "updating" => Watched(q) = {req[q].id}
    BY DEF Watched, Categories
  <1> HIDE DEF x
  <1> QED BY <1>1, <1>3, <1>4, <1>5

\* A step that changes the stage of one request, no row, and the links of no
\* project type.
LEMMA StageMoves ==
    ASSUME IInv, NEW r \in Requests, NEW x \in Request, req' \in [Requests -> Request],
           req'[r] = x,
           \A q \in Requests \ {r} :
             /\ req'[q].pc = req[q].pc /\ req'[q].kind = req[q].kind
             /\ req'[q].slug = req[q].slug /\ req'[q].id = req[q].id
             /\ req'[q].row = req[q].row /\ req'[q].ids = req[q].ids
             /\ req'[q].seen = req[q].seen,
           UNCHANGED <<table, rows, claimed>>, links' \subseteq Ids \X Ids,
           \A l \in links' : table[l[1]] = "project_type" => l \in links,
           StagedAs(x), HoldsAs(x), CascadesAs(x),
           \A q \in Requests \ {r} : /\ Apart(x, req[q])
                                     /\ Alone(x, req[q])
    PROVE  IInv'
  <1>1. Shaped' BY DEF IInv, Shaped
  <1>2. Staged'
    <2>1. \A q \in Requests : StagedAs(req[q]) BY DEF IInv, Staged
    <2> QED BY <2>1 DEF Staged, StagedAs, ProjectTypes, Services, Groups, Categories, Table
  <1>3. Locked'
    <2>1. \A q \in Requests : HoldsAs(req[q]) BY DEF IInv, Locked
    <2>2. \A q \in Requests : HoldsAs(req[q])' BY <2>1 DEF HoldsAs, Table
    <2>3. ASSUME NEW p \in Requests, NEW q \in Requests \ {p} PROVE Apart(req[p], req[q])'
      <3>1. Apart(req[p], req[q]) BY DEF IInv, Locked
      <3> QED BY <3>1 DEF Apart
    <2> QED BY <2>2, <2>3 DEF Locked
  <1>4. Referring' BY DEF IInv, Referring, Projects, ProjectTypes, Categories, Table
  <1>5. Cascading'
    <2>1. \A q \in Requests : CascadesAs(req[q]) BY DEF IInv, Cascading
    <2>2. \A q \in Requests : CascadesAs(req[q])'
      BY <2>1 DEF CascadesAs, CameAfter, Live, Table
    <2>3. ASSUME NEW p \in Requests, NEW q \in Requests \ {p} PROVE Alone(req[p], req[q])'
      <3>1. Alone(req[p], req[q]) BY DEF IInv, Cascading
      <3> QED BY <3>1 DEF Alone
    <2> QED BY <2>2, <2>3 DEF Cascading
  <1>6. Released'
    BY DEF IInv, Released, NotOrphaned, ProjectReleased, LinkReleased, Live, Groups, Projects, Table
  <1> QED BY <1>1, <1>2, <1>3, <1>4, <1>5, <1>6 DEF IInv

\* A step that changes one request and no table.
LEMMA ReqOnly ==
    ASSUME IInv, NEW r \in Requests, NEW x \in Request,
           req' = [req EXCEPT ![r] = x], UNCHANGED <<table, rows, links, claimed>>,
           StagedAs(x), HoldsAs(x), CascadesAs(x),
           \A q \in Requests \ {r} : /\ Apart(x, req[q])
                                     /\ Alone(x, req[q])
    PROVE  IInv'
  <1>1. /\ req' \in [Requests -> Request] /\ req'[r] = x
        /\ \A q \in Requests \ {r} : req'[q] = req[q]
        /\ links' \subseteq Ids \X Ids
    BY DEF IInv, Shaped
  <1> QED BY <1>1, StageMoves

-----------------------------------------------------------------------------
(* A step on the tables: it writes the references of the rows S, and ends the *)
(* stage of the requests R.                                                   *)

\* Row i refers to x now, and did not, or was not live, before.
NewlyUp(i) ==
    /\ rows'[i].up # None
    /\ \/ rows'[i].up # rows[i].up
       \/ rows'[i].state = "live" /\ rows[i].state # "live"

TableStep(S, R) ==
    /\ table' = table
    /\ rows' \in [Ids -> Row]
    /\ links' \subseteq Ids \X Ids
    /\ req' \in [Requests -> Request]
    /\ \A q \in Requests \ R : req'[q] = Cross(S)[q]
    /\ \A q \in R : /\ req'[q].pc \in {"idle", "linking"}
                    /\ req'[q].pc = "linking" => req'[q].id \in Services

\* Rows held by the requests that go on stay deleted, under their slug.
LocksKept(R) ==
    \A q \in Requests \ R : \A i \in req[q].ids :
      req[q].pc = "creating" =>
        rows'[i].state = "deleted" /\ rows'[i].slug = rows[i].slug

\* References go where they may, and new ones are claimed.
UpsClaimed(S) ==
    /\ \A i \in Ids : NewlyUp(i) => i \in S /\ <<i, rows'[i].up>> \in claimed'
    /\ \A i \in Ids :
         /\ rows'[i].up = rows[i].up
         /\ <<i, rows[i].up>> \in claimed
         /\ \/ i \in Projects /\ rows[i].up \in ProjectTypes
            \/ i \in Categories /\ rows[i].up \in Groups /\ rows'[i].state = "live"
         => <<i, rows[i].up>> \in claimed'
    /\ \A p \in Projects : rows'[p].up \in ProjectTypes \cup {None}

LinksClaimed ==
    \A l \in links' :
      table[l[1]] = "project_type" =>
        /\ l[2] \in Categories
        /\ \/ l \in claimed'
           \/ /\ l \in links
              /\ l \notin claimed
              /\ \A i \in {l[1], l[2]} : rows'[i].state = "deleted" => rows[i].state = "deleted"

\* Groups and types that go.
GoneReleased ==
    /\ \A g \in Groups : rows[g].state = "live" /\ rows'[g].state # "live" =>
         \A c \in Categories : rows'[c].state = "live" /\ rows'[c].up = g => <<c, g>> \in claimed'
    /\ \A t \in ProjectTypes : rows[t].state # "deleted" /\ rows'[t].state = "deleted" =>
         \A p \in Projects : rows'[p].up # t

LEMMA TableStepKeeps ==
    ASSUME IInv, NEW S \in SUBSET Ids, NEW R \in SUBSET Requests,
           TableStep(S, R), LocksKept(R), UpsClaimed(S), LinksClaimed, GoneReleased
    PROVE  IInv'
  <1>1. Shaped' BY DEF IInv, Shaped, TableStep
  <1>2. /\ Table("projects")' = Table("projects") /\ Projects' = Projects
        /\ ProjectTypes' = ProjectTypes /\ Services' = Services /\ Groups' = Groups
        /\ Categories' = Categories /\ \A k : Table(k)' = Table(k)
    BY DEF TableStep, Projects, ProjectTypes, Services, Groups, Categories, Table
  <1>3. \A q \in Requests \ R :
          /\ req'[q].pc = req[q].pc /\ req'[q].kind = req[q].kind /\ req'[q].slug = req[q].slug
          /\ req'[q].id = req[q].id /\ req'[q].row = req[q].row /\ req'[q].ids = req[q].ids
          /\ req[q].pc = "cascading" => req'[q].seen = req[q].seen \cup (S \cap Categories)
    BY CrossFacts DEF IInv, TableStep
  <1>4. \A q \in R : req'[q].pc \in {"idle", "linking"} /\
                     (req'[q].pc = "linking" => req'[q].id \in Services)
    BY DEF TableStep
  <1>5. Staged'
    <2> SUFFICES ASSUME NEW q \in Requests PROVE StagedAs(req[q])' BY DEF Staged
    <2>1. CASE q \in R BY <1>2, <1>4, <2>1 DEF StagedAs, Linkers
    <2>2. CASE q \notin R
      <3>1. StagedAs(req[q]) BY DEF IInv, Staged
      <3>2. table' = table BY DEF TableStep
      <3> QED BY <1>2, <1>3, <2>2, <3>1, <3>2 DEF StagedAs
    <2> QED BY <2>1, <2>2
  <1>6. Locked'
    <2>1. ASSUME NEW q \in Requests PROVE HoldsAs(req[q])'
      <3>1. CASE q \in R BY <1>4, <3>1 DEF HoldsAs
      <3>2. CASE q \notin R
        <4>1. HoldsAs(req[q]) BY DEF IInv, Locked
        <4> QED BY <1>2, <1>3, <3>2, <4>1 DEF HoldsAs, LocksKept
      <3> QED BY <3>1, <3>2
    <2>2. ASSUME NEW p \in Requests, NEW q \in Requests \ {p} PROVE Apart(req[p], req[q])'
      <3>1. Apart(req[p], req[q]) BY DEF IInv, Locked
      <3> QED BY <1>3, <1>4, <3>1 DEF Apart
    <2> QED BY <2>1, <2>2 DEF Locked
  <1>7. Referring'
    BY <1>2 DEF Referring, UpsClaimed, LinksClaimed, TableStep
  <1>8. Live("categories")' = {c \in Categories : rows'[c].state = "live"}
    BY <1>2 DEF Live, Categories
  <1>9. Cascading'
    <2>1. ASSUME NEW q \in Requests, req'[q].pc = "cascading",
                 NEW c \in Categories, rows'[c].state = "live", rows'[c].up = req'[q].id
          PROVE  CameAfter(c, req[q])'
      <3>1. q \in Requests \ R BY <1>4, <2>1
      <3>2. c \in Ids BY DEF Categories, Table
      <3>3. req[q].id \in Groups /\ req[q].pc = "cascading"
        BY <1>3, <2>1, <3>1 DEF IInv, Staged, StagedAs
      <3>4. req[q].id # None BY <3>3, TablesAssumption DEF Groups, Table
      <3>5. CASE NewlyUp(c)
        <4>1. c \in S /\ <<c, req[q].id>> \in claimed'
          BY <1>3, <2>1, <3>1, <3>2, <3>5 DEF UpsClaimed
        <4> QED BY <1>3, <2>1, <3>1, <3>3, <4>1 DEF CameAfter
      <3>6. CASE ~NewlyUp(c)
        <4>1. rows[c].up = req[q].id /\ rows[c].state = "live"
          BY <1>3, <2>1, <3>1, <3>4, <3>6 DEF NewlyUp
        <4>2. CameAfter(c, req[q])
          BY <3>3, <4>1 DEF IInv, Cascading, CascadesAs, Live, Categories, Table
        <4>3. <<c, req[q].id>> \in claimed => <<c, req[q].id>> \in claimed'
          BY <1>3, <2>1, <3>1, <3>2, <3>3, <4>1 DEF UpsClaimed
        <4> QED BY <1>3, <3>1, <3>3, <4>2, <4>3 DEF CameAfter
      <3> QED BY <3>5, <3>6
    <2>2. \A q \in Requests : CascadesAs(req[q])' BY <1>8, <2>1 DEF CascadesAs
    <2>3. ASSUME NEW p \in Requests, NEW q \in Requests \ {p} PROVE Alone(req[p], req[q])'
      <3>1. Alone(req[p], req[q]) BY DEF IInv, Cascading
      <3> QED BY <1>3, <1>4, <3>1 DEF Alone
    <2> QED BY <2>2, <2>3 DEF Cascading
  <1>10. Released'
    <2>1. ASSUME NEW c \in Categories, rows'[c].state = "live", rows'[c].up \in Groups,
                 rows'[rows'[c].up].state # "live"
          PROVE  <<c, rows'[c].up>> \in claimed'
      <3> DEFINE g == rows'[c].up
      <3>1. c \in Ids /\ g # None BY <2>1, TablesAssumption DEF Categories, Groups, Table
      <3>2. CASE NewlyUp(c) BY <3>1, <3>2 DEF UpsClaimed
      <3>3. CASE ~NewlyUp(c)
        <4>1. rows[c].up = g /\ rows[c].state = "live" BY <2>1, <3>1, <3>3 DEF NewlyUp
        <4>2. CASE rows[g].state = "live" BY <2>1, <4>2 DEF GoneReleased
        <4>3. CASE rows[g].state # "live"
          <5>1. NotOrphaned(c) BY <4>1 DEF IInv, Released, Live, Categories, Table
          <5>2. <<c, g>> \in claimed BY <2>1, <4>1, <4>3, <5>1 DEF NotOrphaned
          <5> QED BY <2>1, <3>1, <4>1, <5>2 DEF UpsClaimed
        <4> QED BY <4>2, <4>3
      <3> QED BY <3>2, <3>3
    <2>2. ASSUME NEW p \in Projects, rows'[p].up # None, rows'[rows'[p].up].state = "deleted"
          PROVE  <<p, rows'[p].up>> \in claimed'
      <3> DEFINE t == rows'[p].up
      <3>1. p \in Ids /\ t \in ProjectTypes BY <2>2 DEF UpsClaimed, Projects, Table
      <3>2. CASE NewlyUp(p) BY <3>1, <3>2 DEF UpsClaimed
      <3>3. CASE ~NewlyUp(p)
        <4>1. rows[p].up = t BY <2>2, <3>3 DEF NewlyUp
        <4>2. rows[t].state = "deleted" BY <2>2, <3>1 DEF GoneReleased
        <4>3. <<p, t>> \in claimed
          BY <2>2, <4>1, <4>2 DEF IInv, Released, ProjectReleased
        <4> QED BY <3>1, <4>1, <4>3 DEF UpsClaimed
      <3> QED BY <3>2, <3>3
    <2>3. ASSUME NEW l \in links', table[l[1]] = "project_type",
                 rows'[l[1]].state = "deleted" \/ rows'[l[2]].state = "deleted"
          PROVE  l \in claimed'
      BY <2>3 DEF LinksClaimed, IInv, Released, LinkReleased
    <2>4. \A c \in Live("categories")' : NotOrphaned(c)' BY <1>2, <1>8, <2>1 DEF NotOrphaned
    <2>5. \A p \in Projects' : ProjectReleased(p)' BY <1>2, <2>2 DEF ProjectReleased
    <2>6. \A l \in links' : LinkReleased(l)' BY <2>3 DEF LinkReleased, TableStep
    <2> QED BY <2>4, <2>5, <2>6 DEF Released
  <1> QED BY <1>1, <1>5, <1>6, <1>7, <1>9, <1>10 DEF IInv
-----------------------------------------------------------------------------
(* The statements that the repositories share. *)

LEMMA AbandonKeeps ==
    ASSUME IInv, NEW r \in Requests, Abandon(r)
    PROVE  IInv'
  <1>1. StagedAs(Idle) /\ HoldsAs(Idle) /\ CascadesAs(Idle)
    BY IdleTyped DEF StagedAs, Linkers, HoldsAs, CascadesAs
  <1>2. \A q \in Requests : Apart(Idle, req[q]) /\ Alone(Idle, req[q])
    BY IdleTyped DEF Apart, Alone
  <1> QED BY <1>1, <1>2, IdleTyped, ReqOnly DEF Abandon

LEMMA CheckSlugKeeps ==
    ASSUME IInv, NEW r \in Requests, NEW k \in Kinds, NEW s \in Slugs, CheckSlug(r, k, s)
    PROVE  IInv'
  <1> PICK found \in IF DeletedWith(k, s) = {} THEN {None} ELSE DeletedWith(k, s) :
        req' = [req EXCEPT ![r] = [Idle EXCEPT !.pc = "creating", !.kind = k, !.slug = s,
                                               !.id = found, !.ids = DeletedWith(k, s)]]
    BY DEF CheckSlug
  <1> DEFINE x == [Idle EXCEPT !.pc = "creating", !.kind = k, !.slug = s,
                               !.id = found, !.ids = DeletedWith(k, s)]
  <1>1. DeletedWith(k, s) \subseteq Ids BY DEF DeletedWith, Table
  <1>2. /\ x \in Request /\ x.pc = "creating" /\ x.kind = k /\ x.slug = s
        /\ x.id = found /\ x.ids = DeletedWith(k, s)
    BY <1>1, IdleTyped DEF Idle, Request, Stages
  <1>3. HoldsAs(x) BY <1>2 DEF HoldsAs, DeletedWith
  <1>4. StagedAs(x) /\ CascadesAs(x) BY <1>2 DEF StagedAs, Linkers, CascadesAs
  <1>5. ASSUME NEW q \in Requests \ {r} PROVE Apart(x, req[q]) /\ Alone(x, req[q])
    <2>1. \A i \in DeletedWith(k, s) : i \notin Holds(q) BY DEF CheckSlug, Free
    <2>2. req[q].pc = "creating" => Holds(q) = req[q].ids BY DEF Holds
    <2> QED BY <1>2, <2>1, <2>2 DEF Apart, Alone
  <1> HIDE DEF x
  <1>6. req' = [req EXCEPT ![r] = x] BY DEF x
  <1> QED BY <1>2, <1>3, <1>4, <1>5, <1>6, ReqOnly DEF CheckSlug

LEMMA ReadKeeps ==
    ASSUME IInv, NEW r \in Requests, NEW i \in Ids, table[i] \in Kinds, Read(r, i)
    PROVE  IInv'
  <1> DEFINE x == [Idle EXCEPT !.pc = "updating", !.id = i, !.kind = table[i], !.row = rows[i]]
  <1>1. rows[i] \in Row BY DEF IInv, Shaped
  <1>2. /\ x \in Request /\ x.pc = "updating" /\ x.kind = table[i] /\ x.id = i
        /\ x.row = rows[i]
    BY <1>1, IdleTyped DEF Idle, Request, Stages
  <1>3. HoldsAs(x) /\ CascadesAs(x) BY <1>2 DEF HoldsAs, CascadesAs
  <1>4. StagedAs(x)
    <2>1. table[i] = "projects" => rows[i].up \in ProjectTypes \cup {None}
      BY DEF IInv, Referring, Projects, Table
    <2> QED BY <1>2, <2>1 DEF StagedAs, Linkers
  <1>5. \A q \in Requests : Apart(x, req[q]) /\ Alone(x, req[q]) BY <1>2 DEF Apart, Alone
  <1>6. req' = [req EXCEPT ![r] = x] BY DEF Read
  <1> HIDE DEF x
  <1> QED BY <1>2, <1>3, <1>4, <1>5, <1>6, ReqOnly DEF Read

LEMMA BeginCascadeKeeps ==
    ASSUME IInv, NEW r \in Requests, NEW g \in Groups, BeginCascade(r, g)
    PROVE  IInv'
  <1> DEFINE read == {c \in Live("categories") : rows[c].up = g}
             x == [Idle EXCEPT !.pc = "cascading", !.kind = "group_categories", !.id = g,
                               !.ids = read]
  <1>1. read \subseteq Categories /\ read \subseteq Ids /\ g \in Ids
    BY DEF Live, Categories, Groups, Table
  <1>2. x \in Request /\ x.pc = "cascading" /\ x.id = g /\ x.ids = read
    BY <1>1, IdleTyped DEF Idle, Request, Stages, Kinds
  <1>3. HoldsAs(x) BY <1>2 DEF HoldsAs
  <1>4. StagedAs(x) BY <1>1, <1>2 DEF StagedAs, Linkers
  <1>5. CascadesAs(x) BY <1>2 DEF CascadesAs, CameAfter
  <1>6. ASSUME NEW q \in Requests \ {r} PROVE Apart(x, req[q]) /\ Alone(x, req[q])
    <2>1. g \notin Holds(q) BY DEF BeginCascade, Free
    <2>2. req[q].pc = "cascading" => Holds(q) = {req[q].id} BY DEF Holds
    <2> QED BY <1>2, <2>1, <2>2 DEF Apart, Alone
  <1>7. req' = [req EXCEPT ![r] = x] BY DEF BeginCascade
  <1> HIDE DEF x, read
  <1> QED BY <1>2, <1>3, <1>4, <1>5, <1>6, <1>7, ReqOnly DEF BeginCascade

\* A free row is in no other create's hands.
LEMMA FreeRow ==
    ASSUME NEW r, NEW i, Free(r, i), NEW q \in Requests \ {r}, req[q].pc = "creating"
    PROVE  i \notin req[q].ids
  BY DEF Free, Holds

LEMMA OneRowLocks ==
    ASSUME IInv, NEW r \in Requests, NEW i \in Ids, Free(r, i),
           \A j \in Ids \ {i} : rows'[j] = rows[j]
    PROVE  LocksKept({r})
  <1> SUFFICES ASSUME NEW q \in Requests \ {r}, NEW j \in req[q].ids, req[q].pc = "creating"
               PROVE  rows'[j].state = "deleted" /\ rows'[j].slug = rows[j].slug
    BY DEF LocksKept
  <1>1. rows[j].state = "deleted" BY DEF IInv, Locked, HoldsAs
  <1>2. j \in Ids BY DEF IInv, Shaped, Request
  <1>3. j # i BY FreeRow
  <1> QED BY <1>1, <1>2, <1>3

\* The requests after a write that ends stage r with x.
LEMMA EndsWith ==
    ASSUME IInv, NEW r \in Requests, NEW S \in SUBSET Ids, NEW x \in Request,
           x.pc \in {"idle", "linking"}, x.pc = "linking" => x.id \in Services,
           req' = [Cross(S) EXCEPT ![r] = x],
           table' = table, rows' \in [Ids -> Row], links' \subseteq Ids \X Ids
    PROVE  TableStep(S, {r})
  <1>1. Cross(S) \in [Requests -> Request]
    <2>1. \A q \in Requests : Cross(S)[q] \in Request BY CrossFacts DEF IInv
    <2>2. Cross(S) = [q \in Requests |-> Cross(S)[q]] BY DEF Cross
    <2> QED BY <2>1, <2>2
  <1> QED BY <1>1 DEF TableStep

LEMMA CrossesOnly ==
    ASSUME IInv, NEW S \in SUBSET Ids, req' = Cross(S),
           table' = table, rows' \in [Ids -> Row], links' \subseteq Ids \X Ids
    PROVE  TableStep(S, {})
  <1>1. \A q \in Requests : Cross(S)[q] \in Request BY CrossFacts DEF IInv
  <1>2. Cross(S) = [q \in Requests |-> Cross(S)[q]] BY DEF Cross
  <1> QED BY <1>1, <1>2 DEF TableStep

\* What Claim adds, and what it keeps.
LEMMA ClaimFacts ==
    ASSUME NEW new, NEW dropped, Claim(new, dropped), NEW i \in Ids, NEW j \in Ids,
           rows'[i].up = j \/ <<i, j>> \in links'
    PROVE  /\ <<i, j>> \in new => <<i, j>> \in claimed'
           /\ <<i, j>> \in claimed /\ <<i, j>> \notin dropped => <<i, j>> \in claimed'
  <1>1. <<i, j>> \in {<<a, rows'[a].up>> : a \in Ids} \cup links' OBVIOUS
  <1>2. <<i, j>> \in Ids \X Ids OBVIOUS
  <1> QED BY <1>1, <1>2 DEF Claim

LEMMA RelinkFacts ==
    ASSUME links \subseteq Ids \X Ids, NEW i \in Ids, NEW L \in SUBSET Ids
    PROVE  /\ Relink(i, L) \subseteq Ids \X Ids
           /\ \A l \in Relink(i, L) : \/ l[1] # i /\ l \in links
                                      \/ l[1] = i /\ l[2] \in L
  BY DEF Relink

LEMMA PutKeeps ==
    ASSUME IInv, NEW r \in Requests, NEW i \in Ids, NEW new \in Row, NEW L \in SUBSET Ids,
           Put(r, i, new, L), new.state = "live",
           i \in Projects => new.up \in ProjectTypes \cup {None},
           i \in ProjectTypes => L \subseteq Categories
    PROVE  IInv'
  <1>1. /\ rows' \in [Ids -> Row] /\ rows'[i] = new
        /\ \A j \in Ids \ {i} : rows'[j] = rows[j]
    BY DEF Put, IInv, Shaped
  <1>2. links' = Relink(i, L) /\ links' \subseteq Ids \X Ids
    BY RelinkFacts DEF Put, IInv, Shaped
  <1>3. TableStep({i}, {r}) BY <1>1, <1>2, IdleTyped, EndsWith DEF Put, Ends
  <1>4. LocksKept({r})
    BY <1>1, OneRowLocks DEF Put
  <1>5. \A a \in Ids, b \in Ids : rows'[a].up = b \/ <<a, b>> \in links' =>
          /\ <<a, b>> \in {<<i, new.up>>} \cup ({i} \X L) => <<a, b>> \in claimed'
          /\ <<a, b>> \in claimed => <<a, b>> \in claimed'
    BY ClaimFacts DEF Put
  <1>6. UpsClaimed({i})
    <2>1. \A a \in Ids : rows'[a].up \in Ids \cup {None} BY <1>1 DEF Row
    <2>2. ASSUME NEW a \in Ids, NewlyUp(a) PROVE a \in {i} /\ <<a, rows'[a].up>> \in claimed'
      <3>1. a = i /\ rows'[a].up \in Ids BY <1>1, <2>1, <2>2 DEF NewlyUp
      <3> QED BY <1>1, <1>5, <3>1
    <2>3. ASSUME NEW a \in Ids, rows'[a].up = rows[a].up, <<a, rows[a].up>> \in claimed,
                 rows[a].up \in ProjectTypes \/ rows[a].up \in Groups
          PROVE  <<a, rows[a].up>> \in claimed'
      BY <1>5, <2>3 DEF ProjectTypes, Groups, Table
    <2>4. \A p \in Projects : rows'[p].up \in ProjectTypes \cup {None}
      BY <1>1 DEF IInv, Referring, Projects, Table
    <2> QED BY <2>2, <2>3, <2>4 DEF UpsClaimed
  <1>7. LinksClaimed
    <2> SUFFICES ASSUME NEW l \in links', table[l[1]] = "project_type"
                 PROVE  /\ l[2] \in Categories
                        /\ \/ l \in claimed'
                           \/ /\ l \in links
                              /\ l \notin claimed
                              /\ \A j \in {l[1], l[2]} :
                                   rows'[j].state = "deleted" => rows[j].state = "deleted"
      BY DEF LinksClaimed
    <2>1. l = <<l[1], l[2]>> /\ l[1] \in Ids /\ l[2] \in Ids BY <1>2
    <2>2. CASE l[1] = i
      <3>1. l[2] \in L BY <1>2, <2>2, RelinkFacts DEF IInv, Shaped
      <3>2. i \in ProjectTypes BY <2>2 DEF ProjectTypes, Table
      <3>3. <<i, l[2]>> \in claimed' BY <1>5, <2>1, <2>2, <3>1
      <3> QED BY <2>1, <2>2, <3>1, <3>2, <3>3
    <2>3. CASE l[1] # i
      <3>1. l \in links BY <1>2, <2>3, RelinkFacts DEF IInv, Shaped
      <3>2. l[2] \in Categories BY <3>1 DEF IInv, Referring
      <3>3. l \in claimed => l \in claimed' BY <1>5, <2>1
      <3>4. \A j \in {l[1], l[2]} : rows'[j].state = "deleted" => rows[j].state = "deleted"
        BY <1>1, <2>1
      <3> QED BY <3>1, <3>2, <3>3, <3>4
    <2> QED BY <2>2, <2>3
  <1>8. GoneReleased BY <1>1 DEF GoneReleased, Groups, ProjectTypes, Table
  <1> QED BY <1>3, <1>4, <1>6, <1>7, <1>8, TableStepKeeps

\* The writing of a whole row from a copy, before the request's end.
LEMMA WriteBackKeeps ==
    ASSUME IInv, NEW r \in Requests, NEW k, NEW e, NEW stored \in SUBSET Ids, NEW wanted,
           WriteBack(r, k, e, stored, wanted),
           e.slug \in Given(Slugs \cup {None}), e.up \in Given(Ids), e.on \in Given(BOOLEAN),
           k = "projects" => e.up \in Given(ProjectTypes),
           k = "project_type" => stored \subseteq Categories,
           NEW x \in Request, x.pc \in {"idle", "linking"}, x.pc = "linking" => x.id \in Services,
           req' = [Cross({req[r].id}) EXCEPT ![r] = x]
    PROVE  IInv'
  <1> DEFINE i == req[r].id
             new == [Edited(req[r].row, e) EXCEPT !.state = rows[i].state]
  <1>1. /\ i \in Ids /\ table[i] = k /\ req[r].row \in Row
        /\ k = "projects" => req[r].row.up \in ProjectTypes \cup {None}
    BY DEF WriteBack, IInv, Staged, StagedAs, Shaped, Request
  <1>2. rows[i] \in Row BY <1>1 DEF IInv, Shaped
  <1>3. /\ new \in Row /\ new.state = rows[i].state
        /\ new.up = Keep(e.up, req[r].row.up)
    <2>1. /\ Keep(e.slug, req[r].row.slug) \in Slugs \cup {None}
          /\ Keep(e.on, req[r].row.on) \in BOOLEAN
          /\ Keep(e.up, req[r].row.up) \in Ids \cup {None}
      BY <1>1 DEF Row, Given, Keep
    <2> QED BY <1>1, <1>2, <2>1 DEF Edited, Row
  <1>4. k = "projects" => new.up \in ProjectTypes \cup {None}
    BY <1>1, <1>3 DEF Given, Keep
  <1>5. /\ rows' \in [Ids -> Row] /\ rows'[i] = new
        /\ \A j \in Ids \ {i} : rows'[j] = rows[j]
    <2>1. rows' = [rows EXCEPT ![i] = new] BY DEF WriteBack
    <2> HIDE DEF new
    <2> QED BY <1>1, <1>3, <2>1 DEF IInv, Shaped
  <1>6. links' = Relink(i, stored) /\ links' \subseteq Ids \X Ids /\ table' = table
    BY <1>1, RelinkFacts DEF WriteBack, IInv, Shaped
  <1>7. TableStep({i}, {r}) BY <1>1, <1>5, <1>6, EndsWith
  <1>8. LocksKept({r})
    BY <1>1, <1>5, OneRowLocks DEF WriteBack
  <1>9. \A a \in Ids, b \in Ids : rows'[a].up = b \/ <<a, b>> \in links' =>
          /\ <<a, b>> \in {<<i, new.up>>} \cup (({i} \X stored) \ links) => <<a, b>> \in claimed'
          /\ <<a, b>> \in claimed => <<a, b>> \in claimed'
    <2>1. Claim({<<i, new.up>>} \cup (({i} \X stored) \ links), {}) BY DEF WriteBack
    <2> HIDE DEF new, i
    <2> QED BY <2>1, ClaimFacts
  <1> HIDE DEF new, i
  <1>10. UpsClaimed({i})
    <2>1. \A a \in Ids : rows'[a].up \in Ids \cup {None} BY <1>5 DEF Row
    <2>2. ASSUME NEW a \in Ids, NewlyUp(a) PROVE a \in {i} /\ <<a, rows'[a].up>> \in claimed'
      <3>1. a = i /\ rows'[a].up \in Ids BY <1>5, <2>1, <2>2 DEF NewlyUp
      <3> QED BY <1>5, <1>9, <3>1
    <2>3. ASSUME NEW a \in Ids, rows'[a].up = rows[a].up, <<a, rows[a].up>> \in claimed,
                 rows[a].up \in ProjectTypes \/ rows[a].up \in Groups
          PROVE  <<a, rows[a].up>> \in claimed'
      BY <1>9, <2>3 DEF ProjectTypes, Groups, Table
    <2>4. \A p \in Projects : rows'[p].up \in ProjectTypes \cup {None}
      BY <1>1, <1>4, <1>5 DEF IInv, Referring, Projects, Table, i
    <2> QED BY <2>2, <2>3, <2>4 DEF UpsClaimed
  <1>11. LinksClaimed
    <2> SUFFICES ASSUME NEW l \in links', table[l[1]] = "project_type"
                 PROVE  /\ l[2] \in Categories
                        /\ \/ l \in claimed'
                           \/ /\ l \in links
                              /\ l \notin claimed
                              /\ \A j \in {l[1], l[2]} :
                                   rows'[j].state = "deleted" => rows[j].state = "deleted"
      BY DEF LinksClaimed
    <2>1. l = <<l[1], l[2]>> /\ l[1] \in Ids /\ l[2] \in Ids BY <1>6
    <2>2. l \in links => l[2] \in Categories BY DEF IInv, Referring
    <2>3. l[1] = i => l[2] \in stored /\ l[2] \in Categories
      BY <1>1, <1>6, RelinkFacts DEF IInv, Shaped, i
    <2>4. l[1] # i => l \in links BY <1>1, <1>6, RelinkFacts DEF IInv, Shaped, i
    <2>5. CASE l \in links
      <3>1. l \in claimed => l \in claimed' BY <1>9, <2>1
      <3>2. \A j \in {l[1], l[2]} : rows'[j].state = rows[j].state BY <1>3, <1>5, <2>1
      <3> QED BY <2>2, <2>5, <3>1, <3>2
    <2>6. CASE l \notin links
      <3>1. l[1] = i /\ l[2] \in stored BY <2>3, <2>4, <2>6
      <3>2. <<l[1], l[2]>> \in ({i} \X stored) \ links BY <2>1, <2>6, <3>1
      <3>3. l \in claimed' BY <1>9, <2>1, <3>2
      <3> QED BY <2>3, <3>1, <3>3
    <2> QED BY <2>5, <2>6
  <1>12. GoneReleased
    BY <1>3, <1>5 DEF GoneReleased, Groups, ProjectTypes, Table
  <1> QED BY <1>1, <1>7, <1>8, <1>10, <1>11, <1>12, TableStepKeeps DEF i

\* One row changes, as one statement, and nothing else but what follows from it.
LEMMA RowStepKeeps ==
    ASSUME IInv, NEW i \in Ids, NEW new \in Row, NEW added,
           rows' = [rows EXCEPT ![i] = new], req' = Cross({i}), UNCHANGED <<table, links>>,
           \A a \in Ids, b \in Ids : rows'[a].up = b \/ <<a, b>> \in links' =>
             /\ <<a, b>> \in added => <<a, b>> \in claimed'
             /\ <<a, b>> \in claimed => <<a, b>> \in claimed',
           rows[i].state = "deleted" => Free(None, i),
           new.up \in {None, rows[i].up},
           rows[i].state # "live" /\ new.state = "live" =>
             <<i, new.up>> \in added \/ new.up = None,
           table[i] \in {"group_categories", "categories", "project_type"} =>
             new.state = "live"
    PROVE  IInv'
  <1>1. /\ rows' \in [Ids -> Row] /\ rows'[i] = new
        /\ \A j \in Ids \ {i} : rows'[j] = rows[j]
    BY DEF IInv, Shaped
  <1>2. links' \subseteq Ids \X Ids BY DEF IInv, Shaped
  <1>3. TableStep({i}, {}) BY <1>1, <1>2, CrossesOnly
  <1>4. LocksKept({})
    <2> SUFFICES ASSUME NEW q \in Requests, NEW j \in req[q].ids, req[q].pc = "creating"
                 PROVE  rows'[j].state = "deleted" /\ rows'[j].slug = rows[j].slug
      BY DEF LocksKept
    <2>1. rows[j].state = "deleted" BY DEF IInv, Locked, HoldsAs
    <2>2. j \in Ids BY DEF IInv, Shaped, Request
    <2>3. j # i
      <3> SUFFICES ASSUME j = i PROVE FALSE OBVIOUS
      <3>1. Free(None, i) BY <2>1
      <3>2. q \in Requests \ {None} BY TablesAssumption
      <3> QED BY <3>1, <3>2, FreeRow
    <2> QED BY <1>1, <2>1, <2>2, <2>3
  <1>5. UpsClaimed({i})
    <2>1. \A a \in Ids : rows'[a].up \in Ids \cup {None} BY <1>1 DEF Row
    <2>2. ASSUME NEW a \in Ids, NewlyUp(a) PROVE a \in {i} /\ <<a, rows'[a].up>> \in claimed'
      <3>1. a = i /\ rows'[a].up \in Ids BY <1>1, <2>1, <2>2 DEF NewlyUp
      <3>2. <<a, rows'[a].up>> \in added BY <1>1, <2>2, <3>1 DEF NewlyUp
      <3> QED BY <3>1, <3>2
    <2>3. ASSUME NEW a \in Ids, rows'[a].up = rows[a].up, <<a, rows[a].up>> \in claimed,
                 rows[a].up \in ProjectTypes \/ rows[a].up \in Groups
          PROVE  <<a, rows[a].up>> \in claimed'
      BY <2>3 DEF ProjectTypes, Groups, Table
    <2>4. \A p \in Projects : rows'[p].up \in ProjectTypes \cup {None}
      BY <1>1 DEF IInv, Referring, Projects, Table
    <2> QED BY <2>2, <2>3, <2>4 DEF UpsClaimed
  <1>6. LinksClaimed
    <2> SUFFICES ASSUME NEW l \in links, table[l[1]] = "project_type"
                 PROVE  /\ l[2] \in Categories
                        /\ \/ l \in claimed'
                           \/ /\ l \notin claimed
                              /\ \A j \in {l[1], l[2]} :
                                   rows'[j].state = "deleted" => rows[j].state = "deleted"
      BY DEF LinksClaimed
    <2>1. l = <<l[1], l[2]>> /\ l[1] \in Ids /\ l[2] \in Ids BY <1>2
    <2>2. l[2] \in Categories BY DEF IInv, Referring
    <2>3. l \in claimed => l \in claimed' BY <2>1
    <2>4. \A j \in {l[1], l[2]} : rows'[j].state = "deleted" => rows[j].state = "deleted"
      BY <1>1, <2>1, <2>2 DEF Categories, Table
    <2> QED BY <2>2, <2>3, <2>4
  <1>7. GoneReleased BY <1>1 DEF GoneReleased, Groups, ProjectTypes, Table
  <1> QED BY <1>3, <1>4, <1>5, <1>6, <1>7, TableStepKeeps

LEMMA SoftDeleteKeeps ==
    ASSUME IInv, NEW i \in Ids, SoftDelete(i),
           table[i] \notin {"group_categories", "categories", "project_type"}
    PROVE  IInv'
  <1> DEFINE new == [rows[i] EXCEPT !.state = "deleted"]
  <1>1. rows[i] \in Row BY DEF IInv, Shaped
  <1>2. new \in Row /\ new.up = rows[i].up /\ new.state = "deleted" BY <1>1 DEF Row
  <1>3. rows' = [rows EXCEPT ![i] = new] BY DEF SoftDelete, MarkDeleted, IInv, Shaped
  <1> HIDE DEF new
  <1>4. rows[i].state = "live" /\ req' = Cross({i}) /\ UNCHANGED <<table, links, claimed>>
    BY DEF SoftDelete
  <1> QED BY <1>2, <1>3, <1>4, RowStepKeeps, Zenon

LEMMA RestoreKeeps ==
    ASSUME IInv, NEW i \in Ids, Restore(i)
    PROVE  IInv'
  <1> DEFINE new == [rows[i] EXCEPT !.state = "live"]
             added == {<<i, rows[i].up>>}
  <1>1. rows[i] \in Row BY DEF IInv, Shaped
  <1>2. new \in Row /\ new.up = rows[i].up /\ new.state = "live" BY <1>1 DEF Row
  <1>3. rows' = [rows EXCEPT ![i] = new] BY DEF Restore, IInv, Shaped
  <1>4. \A a \in Ids, b \in Ids : rows'[a].up = b \/ <<a, b>> \in links' =>
          /\ <<a, b>> \in added => <<a, b>> \in claimed'
          /\ <<a, b>> \in claimed => <<a, b>> \in claimed'
    BY ClaimFacts DEF Restore
  <1>5. <<i, new.up>> \in added BY <1>2
  <1>6. Free(None, i) /\ req' = Cross({i}) /\ UNCHANGED <<table, links>> BY DEF Restore
  <1> HIDE DEF new, added
  <1> QED BY <1>2, <1>3, <1>4, <1>5, <1>6, RowStepKeeps

LEMMA RemoveKeeps ==
    ASSUME IInv, NEW i \in Ids, Remove(i),
           table[i] \notin {"group_categories", "categories", "project_type"}
    PROVE  IInv'
  <1> DEFINE new == [Unborn EXCEPT !.state = "gone"]
  <1>1. new \in Row /\ new.up = None /\ new.state = "gone" BY DEF Row, Unborn
  <1>2. rows' = [rows EXCEPT ![i] = new] BY DEF Remove
  <1>3. \A a \in Ids, b \in Ids : rows'[a].up = b \/ <<a, b>> \in links' =>
          /\ <<a, b>> \in {} => <<a, b>> \in claimed'
          /\ <<a, b>> \in claimed => <<a, b>> \in claimed'
    BY ClaimFacts DEF Remove
  <1>4. rows[i].state = "live" /\ req' = Cross({i}) /\ UNCHANGED <<table, links>>
    BY DEF Remove
  <1> HIDE DEF new
  <1> QED BY <1>1, <1>2, <1>3, <1>4, RowStepKeeps

LEMMA ToggleKeeps ==
    ASSUME IInv, NEW p \in Projects, NEW b \in BOOLEAN, Toggle(p, b)
    PROVE  IInv'
  <1> DEFINE new == [rows[p] EXCEPT !.on = b]
  <1>1. p \in Ids /\ table[p] = "projects" BY DEF Projects, Table
  <1>2. rows[p] \in Row BY <1>1 DEF IInv, Shaped
  <1>3. new \in Row /\ new.up = rows[p].up /\ new.state = rows[p].state BY <1>2 DEF Row
  <1>4. rows' = [rows EXCEPT ![p] = new] BY DEF Toggle
  <1>5. Free(None, p) /\ req' = Cross({p}) /\ UNCHANGED <<table, links, claimed>>
    BY DEF Toggle
  <1> HIDE DEF new
  <1> QED BY <1>1, <1>3, <1>4, <1>5, RowStepKeeps, Zenon

-----------------------------------------------------------------------------
(* The deletes that cascade, and the service's two transactions. *)

LEMMA MarkDeletedFacts ==
    ASSUME Shaped, NEW S \in SUBSET Ids, rows' = MarkDeleted(S)
    PROVE  /\ rows' \in [Ids -> Row]
           /\ \A i \in Ids : rows'[i].up = rows[i].up /\ rows'[i].slug = rows[i].slug
           /\ \A i \in Ids : rows'[i].on = rows[i].on
           /\ \A i \in Ids : rows'[i].state = IF i \in S THEN "deleted" ELSE rows[i].state
  <1>1. ASSUME NEW i \in Ids
        PROVE  /\ rows'[i] \in Row /\ rows'[i].up = rows[i].up /\ rows'[i].slug = rows[i].slug
               /\ rows'[i].on = rows[i].on
               /\ rows'[i].state = IF i \in S THEN "deleted" ELSE rows[i].state
    <2>1. rows[i] \in Row BY DEF Shaped
    <2> QED BY <2>1 DEF MarkDeleted, Row
  <1>2. rows' = [i \in Ids |-> rows'[i]] BY DEF MarkDeleted
  <1> QED BY <1>1, <1>2

\* Held rows are deleted already, so marking rows deleted leaves locks alone.
LEMMA DeletedStayHeld ==
    ASSUME IInv, NEW R \in SUBSET Requests,
           \A i \in Ids : /\ rows'[i].slug = rows[i].slug
                          /\ rows'[i].state = "deleted" \/ rows'[i].state = rows[i].state
    PROVE  LocksKept(R)
  <1> SUFFICES ASSUME NEW q \in Requests \ R, NEW i \in req[q].ids, req[q].pc = "creating"
               PROVE  rows'[i].state = "deleted" /\ rows'[i].slug = rows[i].slug
    BY DEF LocksKept
  <1>1. i \in Ids BY DEF IInv, Shaped, Request
  <1>2. rows[i].state = "deleted" BY DEF IInv, Locked, HoldsAs
  <1> QED BY <1>1, <1>2

LEMMA DeleteCategoryKeeps ==
    ASSUME IInv, NEW c \in Categories, DeleteCategory(c)
    PROVE  IInv'
  <1>1. c \in Ids /\ table[c] = "categories" BY DEF Categories, Table
  <1>2. /\ rows' \in [Ids -> Row]
        /\ \A i \in Ids : rows'[i].up = rows[i].up /\ rows'[i].slug = rows[i].slug
        /\ \A i \in Ids : rows'[i].state = IF i = c THEN "deleted" ELSE rows[i].state
    BY <1>1, MarkDeletedFacts DEF DeleteCategory, IInv
  <1>3. links' = links \ TypeLinks({c}) /\ links' \subseteq links /\ links' \subseteq Ids \X Ids
    BY DEF DeleteCategory, IInv, Shaped
  <1>4. TableStep({c}, {}) BY <1>1, <1>2, <1>3, CrossesOnly DEF DeleteCategory
  <1>5. LocksKept({}) BY <1>2, DeletedStayHeld
  <1>6. \A a \in Ids, b \in Ids : rows'[a].up = b \/ <<a, b>> \in links' =>
          (<<a, b>> \in claimed /\ b # c => <<a, b>> \in claimed')
    <2>1. Claim({}, Ids \X {c}) BY DEF DeleteCategory
    <2>2. \A a \in Ids, b \in Ids : b # c => <<a, b>> \notin Ids \X {c} OBVIOUS
    <2> QED BY <2>1, <2>2, ClaimFacts
  <1>7. UpsClaimed({c})
    <2>1. \A i \in Ids : ~NewlyUp(i) BY <1>2 DEF NewlyUp
    <2>2. ASSUME NEW i \in Ids, <<i, rows[i].up>> \in claimed,
                 rows[i].up \in ProjectTypes \/ rows[i].up \in Groups
          PROVE  <<i, rows[i].up>> \in claimed'
      BY <1>1, <1>2, <1>6, <2>2 DEF ProjectTypes, Groups, Table
    <2>3. \A p \in Projects : rows'[p].up \in ProjectTypes \cup {None}
      BY <1>2 DEF IInv, Referring, Projects, Table
    <2> QED BY <2>1, <2>2, <2>3 DEF UpsClaimed
  <1>8. LinksClaimed
    <2> SUFFICES ASSUME NEW l \in links', table[l[1]] = "project_type"
                 PROVE  /\ l[2] \in Categories
                        /\ \/ l \in claimed'
                           \/ /\ l \in links
                              /\ l \notin claimed
                              /\ \A j \in {l[1], l[2]} :
                                   rows'[j].state = "deleted" => rows[j].state = "deleted"
      BY DEF LinksClaimed
    <2>1. l = <<l[1], l[2]>> /\ l[1] \in Ids /\ l[2] \in Ids /\ l \in links BY <1>3
    <2>2. l[2] \in Categories /\ l[2] # c BY <1>3, <2>1 DEF IInv, Referring, TypeLinks
    <2>3. l \in claimed => l \in claimed' BY <1>6, <2>1, <2>2
    <2>4. l[1] # c BY <1>1
    <2> QED BY <1>2, <2>1, <2>2, <2>3, <2>4
  <1>9. GoneReleased BY <1>1, <1>2 DEF GoneReleased, Groups, ProjectTypes, Table
  <1> QED BY <1>1, <1>4, <1>5, <1>7, <1>8, <1>9, TableStepKeeps

LEMMA CommitCascadeKeeps ==
    ASSUME IInv, NEW r \in Requests, CommitCascade(r)
    PROVE  IInv'
  <1> DEFINE g == req[r].id
             ids == req[r].ids
             S == {g} \cup ids
             dropped == ((Categories \ req[r].seen) \X {g}) \cup (Ids \X ids)
  <1>1. /\ g \in Groups /\ g \in Ids /\ ids \subseteq Categories /\ ids \subseteq Ids
        /\ req[r].pc = "cascading"
    BY DEF CommitCascade, IInv, Staged, StagedAs, Groups, Categories, Table
  <1>2. /\ rows' \in [Ids -> Row]
        /\ \A i \in Ids : rows'[i].up = rows[i].up /\ rows'[i].slug = rows[i].slug
        /\ \A i \in Ids : rows'[i].state = IF i \in S THEN "deleted" ELSE rows[i].state
    <2>1. S \in SUBSET Ids /\ rows' = MarkDeleted(S) BY <1>1 DEF CommitCascade
    <2> HIDE DEF S
    <2> QED BY <2>1, MarkDeletedFacts DEF IInv
  <1>3. links' = links \ TypeLinks(ids) /\ links' \subseteq links /\ links' \subseteq Ids \X Ids
    BY DEF CommitCascade, IInv, Shaped
  <1>4. TableStep(S, {r})
    BY <1>1, <1>2, <1>3, IdleTyped, EndsWith DEF CommitCascade, Ends
  <1>5. LocksKept({r}) BY <1>2, DeletedStayHeld
  <1>6. \A a \in Ids, b \in Ids : rows'[a].up = b \/ <<a, b>> \in links' =>
          (<<a, b>> \in claimed /\ <<a, b>> \notin dropped => <<a, b>> \in claimed')
    BY ClaimFacts DEF CommitCascade
  <1>7. \A c \in Categories : rows'[c].state = "live" /\ rows[c].up = g =>
          c \in req[r].seen /\ <<c, g>> \in claimed /\ <<c, g>> \in claimed'
    <2> SUFFICES ASSUME NEW c \in Categories, rows'[c].state = "live", rows[c].up = g
                 PROVE  c \in req[r].seen /\ <<c, g>> \in claimed /\ <<c, g>> \in claimed'
      OBVIOUS
    <2>1. c \in Ids BY DEF Categories, Table
    <2>2. c \notin ids /\ rows[c].state = "live" BY <1>2, <2>1
    <2>3. CameAfter(c, req[r])
      BY <1>1, <2>2 DEF IInv, Cascading, CascadesAs, Live, Categories, Table
    <2>4. c \in req[r].seen /\ <<c, g>> \in claimed BY <2>2, <2>3 DEF CameAfter
    <2>5. g \notin ids BY <1>1 DEF Groups, Categories, Table
    <2>6. <<c, g>> \notin dropped BY <2>4, <2>5
    <2> QED BY <1>1, <1>2, <1>6, <2>1, <2>4, <2>6
  <1>8. UpsClaimed(S)
    <2>1. \A i \in Ids : ~NewlyUp(i) BY <1>2 DEF NewlyUp
    <2>2. ASSUME NEW i \in Ids, <<i, rows[i].up>> \in claimed, rows[i].up \in ProjectTypes
          PROVE  <<i, rows[i].up>> \in claimed'
      <3>1. rows[i].up # g /\ rows[i].up \notin ids /\ rows[i].up \in Ids
        BY <1>1, <2>2 DEF ProjectTypes, Groups, Categories, Table
      <3> QED BY <1>2, <1>6, <2>2, <3>1
    <2>3. ASSUME NEW i \in Ids, <<i, rows[i].up>> \in claimed, rows[i].up \in Groups,
                 rows'[i].state = "live"
          PROVE  <<i, rows[i].up>> \in claimed'
      <3>1. rows[i].up \notin ids /\ rows[i].up \in Ids
        BY <1>1, <2>3 DEF Groups, Categories, Table
      <3>2. CASE rows[i].up = g /\ i \in Categories BY <1>7, <2>3, <3>2
      <3>3. CASE ~(rows[i].up = g /\ i \in Categories)
        <4>1. <<i, rows[i].up>> \notin dropped BY <3>1, <3>3
        <4> QED BY <1>2, <1>6, <2>3, <3>1, <4>1
      <3> QED BY <3>2, <3>3
    <2>4. \A p \in Projects : rows'[p].up \in ProjectTypes \cup {None}
      BY <1>2 DEF IInv, Referring, Projects, Table
    <2> QED BY <2>1, <2>2, <2>3, <2>4 DEF UpsClaimed
  <1>9. LinksClaimed
    <2> SUFFICES ASSUME NEW l \in links', table[l[1]] = "project_type"
                 PROVE  /\ l[2] \in Categories
                        /\ \/ l \in claimed'
                           \/ /\ l \in links
                              /\ l \notin claimed
                              /\ \A j \in {l[1], l[2]} :
                                   rows'[j].state = "deleted" => rows[j].state = "deleted"
      BY DEF LinksClaimed
    <2>1. l = <<l[1], l[2]>> /\ l[1] \in Ids /\ l[2] \in Ids /\ l \in links BY <1>3
    <2>2. l[2] \in Categories /\ l[2] \notin ids /\ l[2] # g
      BY <1>1, <1>3, <2>1 DEF IInv, Referring, TypeLinks, Groups, Categories, Table
    <2>3. <<l[1], l[2]>> \notin dropped BY <2>2
    <2>4. l \in claimed => l \in claimed' BY <1>6, <2>1, <2>3
    <2>5. l[1] \notin S BY <1>1 DEF Groups, Categories, Table
    <2>6. l[2] \notin S BY <2>2
    <2> QED BY <1>2, <2>1, <2>2, <2>4, <2>5, <2>6
  <1>10. GoneReleased
    <2>1. ASSUME NEW h \in Groups, rows[h].state = "live", rows'[h].state # "live",
                 NEW c \in Categories, rows'[c].state = "live", rows'[c].up = h
          PROVE  <<c, h>> \in claimed'
      <3>1. h = g BY <1>1, <1>2, <2>1 DEF Groups, Categories, Table
      <3> QED BY <1>2, <1>7, <2>1, <3>1 DEF Categories, Table
    <2>2. \A t \in ProjectTypes : rows'[t].state = rows[t].state
      BY <1>1, <1>2 DEF ProjectTypes, Groups, Categories, Table
    <2> QED BY <2>1, <2>2 DEF GoneReleased
  <1> QED BY <1>1, <1>4, <1>5, <1>8, <1>9, <1>10, TableStepKeeps

LEMMA DeleteProjectTypeKeeps ==
    ASSUME IInv, NEW t \in ProjectTypes, DeleteProjectType(t)
    PROVE  IInv'
  <1> DEFINE typed == {p \in Projects : rows[p].up = t}
             S == {t} \cup typed
  <1>1. t \in Ids /\ table[t] = "project_type" /\ typed \subseteq Ids /\ t \notin typed /\ t # None
    BY TablesAssumption DEF ProjectTypes, Projects, Table
  <1>2. ASSUME NEW i \in Ids
        PROVE  /\ rows'[i] \in Row /\ rows'[i].slug = rows[i].slug
               /\ rows'[i].up = IF i \in typed THEN None ELSE rows[i].up
               /\ rows'[i].state = IF i = t THEN "deleted" ELSE rows[i].state
    <2>1. rows[i] \in Row BY DEF IInv, Shaped
    <2>2. rows'[i] = IF i \in typed THEN [rows[i] EXCEPT !.up = None] ELSE MarkDeleted({t})[i]
      BY DEF DeleteProjectType
    <2>3. MarkDeleted({t})[i] = IF i = t THEN [rows[i] EXCEPT !.state = "deleted"] ELSE rows[i]
      BY DEF MarkDeleted
    <2> HIDE DEF typed
    <2> QED BY <1>1, <2>1, <2>2, <2>3 DEF Row
  <1>3. rows' \in [Ids -> Row]
    <2>1. rows' = [i \in Ids |-> rows'[i]] BY DEF DeleteProjectType
    <2> QED BY <1>2, <2>1
  <1>4. /\ links' \subseteq Ids \X Ids
        /\ \A l \in links' : l \in links /\ l[1] # t
    BY <1>1, RelinkFacts DEF DeleteProjectType, IInv, Shaped
  <1>5. TableStep(S, {}) BY <1>1, <1>3, <1>4, CrossesOnly DEF DeleteProjectType
  <1>6. LocksKept({}) BY <1>2, DeletedStayHeld
  <1>7. \A a \in Ids, b \in Ids : rows'[a].up = b \/ <<a, b>> \in links' =>
          (<<a, b>> \in claimed /\ b # t => <<a, b>> \in claimed')
    <2>1. Claim({}, Ids \X {t}) BY DEF DeleteProjectType
    <2>2. \A a \in Ids, b \in Ids : b # t => <<a, b>> \notin Ids \X {t} OBVIOUS
    <2> QED BY <2>1, <2>2, ClaimFacts
  <1>8. \A p \in Projects : rows'[p].up # t
    <2> SUFFICES ASSUME NEW p \in Projects PROVE rows'[p].up # t OBVIOUS
    <2>1. p \in Ids BY DEF Projects, Table
    <2> QED BY <1>1, <1>2, <2>1
  <1>9. UpsClaimed(S)
    <2>1. \A i \in Ids : ~NewlyUp(i) BY <1>1, <1>2 DEF NewlyUp
    <2>2. ASSUME NEW i \in Ids, rows'[i].up = rows[i].up, <<i, rows[i].up>> \in claimed,
                 rows[i].up \in ProjectTypes, i \in Projects
          PROVE  <<i, rows[i].up>> \in claimed'
      BY <1>7, <1>8, <2>2 DEF ProjectTypes, Groups, Table
    <2>3. ASSUME NEW i \in Ids, <<i, rows[i].up>> \in claimed,
                 rows[i].up \in Groups
          PROVE  <<i, rows[i].up>> \in claimed'
      <3>1. rows[i].up # t /\ rows[i].up \in Ids BY <1>1, <2>3 DEF Groups, Table
      <3>2. i \notin typed BY <3>1
      <3> QED BY <1>2, <1>7, <2>3, <3>1, <3>2
    <2>4. \A p \in Projects : rows'[p].up \in ProjectTypes \cup {None}
      BY <1>2 DEF IInv, Referring, Projects, Table
    <2> QED BY <2>1, <2>2, <2>3, <2>4 DEF UpsClaimed
  <1>10. LinksClaimed
    <2> SUFFICES ASSUME NEW l \in links', table[l[1]] = "project_type"
                 PROVE  /\ l[2] \in Categories
                        /\ \/ l \in claimed'
                           \/ /\ l \in links
                              /\ l \notin claimed
                              /\ \A j \in {l[1], l[2]} :
                                   rows'[j].state = "deleted" => rows[j].state = "deleted"
      BY DEF LinksClaimed
    <2>1. l = <<l[1], l[2]>> /\ l[1] \in Ids /\ l[2] \in Ids /\ l \in links /\ l[1] # t
      BY <1>4
    <2>2. l[2] \in Categories /\ l[2] # t
      BY <1>1, <2>1 DEF IInv, Referring, Categories, Table
    <2>3. l \in claimed => l \in claimed' BY <1>7, <2>1, <2>2
    <2> QED BY <1>2, <2>1, <2>2, <2>3
  <1>11. GoneReleased
    BY <1>1, <1>2, <1>8 DEF GoneReleased, Groups, ProjectTypes, Table
  <1> QED BY <1>1, <1>5, <1>6, <1>9, <1>10, <1>11, TableStepKeeps

LEMMA NewRowTyped ==
    ASSUME NEW ups \in SUBSET (Ids \cup {None}), NEW row \in NewRows(Body(ups))
    PROVE  row \in Row /\ row.state = "live" /\ row.up \in ups
  <1>1. Flags \subseteq BOOLEAN BY TablesAssumption
  <1> PICK in \in Body(ups) : row = [state |-> "live", slug |-> in.slug, up |-> in.up, on |-> in.on]
    BY DEF NewRows
  <1> QED BY <1>1 DEF Row, Body

\* A service is inserted in one transaction and linked in the next.
LEMMA CreateServiceKeeps ==
    ASSUME IInv, NEW r \in Requests, CreateService(r)
    PROVE  IInv'
  <1> PICK row \in NewService, s \in Fresh("services"), L \in SUBSET StoredIn("categories") :
         /\ rows' = [rows EXCEPT ![s] = row]
         /\ req' = IF L = {} THEN Cross({s})
                   ELSE [Cross({s}) EXCEPT ![r] =
                           [Idle EXCEPT !.pc = "linking", !.kind = "services",
                                        !.id = s, !.ids = L]]
    BY DEF CreateService
  <1>1. /\ s \in Ids /\ table[s] = "services" /\ s \in Services /\ rows[s].state = "unborn"
        /\ L \subseteq Ids
    BY DEF Fresh, Table, Services, StoredIn
  <1>2. row \in Row /\ row.state = "live" /\ row.up = None
    BY NewRowTyped DEF NewService, CreateServiceInput
  <1>3. /\ rows' \in [Ids -> Row] /\ rows'[s] = row
        /\ \A j \in Ids \ {s} : rows'[j] = rows[j]
    BY <1>1, <1>2 DEF IInv, Shaped
  <1>4. /\ table' = table /\ links' = links /\ claimed' = claimed
        /\ links' \subseteq Ids \X Ids
    BY DEF CreateService, IInv, Shaped
  <1>5. TableStep({s}, {}) \/ TableStep({s}, {r})
    <2>1. CASE L = {} BY <1>1, <1>3, <1>4, <2>1, CrossesOnly
    <2>2. CASE L # {}
      <3> DEFINE x == [Idle EXCEPT !.pc = "linking", !.kind = "services", !.id = s, !.ids = L]
      <3>1. x \in Request /\ x.pc = "linking" /\ x.id = s
        BY <1>1, IdleTyped DEF Idle, Request, Stages, Kinds
      <3>2. req' = [Cross({s}) EXCEPT ![r] = x] BY <2>2
      <3> HIDE DEF x
      <3> QED BY <1>1, <1>3, <1>4, <3>1, <3>2, EndsWith
    <2> QED BY <2>1, <2>2
  <1>6. LocksKept({}) /\ LocksKept({r})
    <2> SUFFICES ASSUME NEW q \in Requests, NEW j \in req[q].ids, req[q].pc = "creating"
                 PROVE  rows'[j].state = "deleted" /\ rows'[j].slug = rows[j].slug
      BY DEF LocksKept
    <2>1. rows[j].state = "deleted" BY DEF IInv, Locked, HoldsAs
    <2>2. j \in Ids BY DEF IInv, Shaped, Request
    <2> QED BY <1>1, <1>3, <2>1, <2>2
  <1>7. UpsClaimed({s})
    <2>1. \A a \in Ids : ~NewlyUp(a) BY <1>2, <1>3 DEF NewlyUp
    <2>2. \A p \in Projects : rows'[p].up \in ProjectTypes \cup {None}
      BY <1>2, <1>3 DEF IInv, Referring, Projects, Table
    <2> QED BY <1>4, <2>1, <2>2 DEF UpsClaimed
  <1>8. LinksClaimed
    <2> SUFFICES ASSUME NEW l \in links, table[l[1]] = "project_type"
                 PROVE  /\ l[2] \in Categories
                        /\ \A j \in {l[1], l[2]} :
                             rows'[j].state = "deleted" => rows[j].state = "deleted"
      BY <1>4 DEF LinksClaimed
    <2>1. l[1] \in Ids /\ l[2] \in Ids BY <1>4
    <2>2. l[2] \in Categories BY DEF IInv, Referring
    <2> QED BY <1>2, <1>3, <2>1, <2>2
  <1>9. GoneReleased
    BY <1>1, <1>3 DEF GoneReleased, Groups, ProjectTypes, Table
  <1> QED BY <1>1, <1>5, <1>6, <1>7, <1>8, <1>9, TableStepKeeps

LEMMA ClearCategoriesKeeps ==
    ASSUME IInv, NEW r \in Requests, ClearCategories(r)
    PROVE  IInv'
  <1> DEFINE found == LinksOf(req[r].id)
             x == [req[r] EXCEPT !.pc = "relinking", !.found = found]
  <1>1. req[r] \in Request /\ req[r].pc = "linking" /\ StagedAs(req[r])
    BY DEF ClearCategories, IInv, Shaped, Staged
  <1>2. found \subseteq Ids BY DEF LinksOf, IInv, Shaped
  <1>3. req' = [req EXCEPT ![r] = x] BY DEF ClearCategories, IInv, Shaped
  <1> HIDE DEF found
  <1>4. x \in Request /\ x.pc = "relinking" /\ x.id = req[r].id
    BY <1>1, <1>2 DEF Request, Stages
  <1> HIDE DEF x
  <1>5. StagedAs(x) /\ HoldsAs(x) /\ CascadesAs(x)
    BY <1>1, <1>4 DEF StagedAs, HoldsAs, CascadesAs, Linkers
  <1>6. \A q \in Requests : Apart(x, req[q]) /\ Alone(x, req[q]) BY <1>4 DEF Apart, Alone
  <1> QED BY <1>3, <1>4, <1>5, <1>6, ReqOnly DEF ClearCategories

\* What a commit of a service's links leaves, and of the other requests.
LEMMA SetCategoriesFacts ==
    ASSUME IInv, NEW r \in Requests, SetCategories(r)
    PROVE  /\ req[r].id \in Ids /\ table[req[r].id] = "services"
           /\ req[r].ids \subseteq Ids /\ links' \subseteq Ids \X Ids
           /\ req' \in [Requests -> Request] /\ req'[r] = Idle
           /\ \A q \in Requests \ {r} :
                /\ req'[q].pc = req[q].pc /\ req'[q].kind = req[q].kind
                /\ req'[q].slug = req[q].slug /\ req'[q].id = req[q].id
                /\ req'[q].row = req[q].row /\ req'[q].ids = req[q].ids
                /\ req'[q].seen = req[q].seen
                /\ q \notin Linking(req[r].id) => req'[q] = req[q]
  <1> DEFINE s == req[r].id
             less(q) == [req[q] EXCEPT !.found = @ \ req[r].found]
  <1>1. s \in Ids /\ table[s] = "services" /\ req[r].ids \subseteq Ids
    BY DEF SetCategories, IInv, Staged, StagedAs, Linkers, Shaped, Request, Services, Table
  <1>2. links' \subseteq Ids \X Ids BY <1>1 DEF SetCategories, IInv, Shaped
  <1>3. \A q \in Requests : req'[q] = IF q = r THEN Idle
                                      ELSE IF q \in Linking(s) THEN less(q) ELSE req[q]
    BY DEF SetCategories
  <1>4. ASSUME NEW q \in Requests
        PROVE  /\ less(q) \in Request /\ less(q).pc = req[q].pc /\ less(q).kind = req[q].kind
               /\ less(q).slug = req[q].slug /\ less(q).id = req[q].id
               /\ less(q).row = req[q].row /\ less(q).ids = req[q].ids
               /\ less(q).seen = req[q].seen
    <2>1. req[q] \in Request BY DEF IInv, Shaped
    <2> QED BY <2>1 DEF Request
  <1>5. req' = [q \in Requests |-> req'[q]] BY DEF SetCategories
  <1> HIDE DEF less
  <1>6. \A q \in Requests : req[q] \in Request BY DEF IInv, Shaped
  <1>7. req' \in [Requests -> Request]
    <2>1. \A q \in Requests : req'[q] \in Request BY <1>3, <1>4, <1>6, IdleTyped
    <2> QED BY <1>5, <2>1
  <1> QED BY <1>1, <1>2, <1>3, <1>4, <1>7

LEMMA SetCategoriesKeeps ==
    ASSUME IInv, NEW r \in Requests, SetCategories(r)
    PROVE  IInv'
  <1>1. \A l \in links' : table[l[1]] = "project_type" => l \in links
    BY SetCategoriesFacts DEF SetCategories
  <1>2. StagedAs(Idle) /\ HoldsAs(Idle) /\ CascadesAs(Idle)
    BY IdleTyped DEF StagedAs, HoldsAs, CascadesAs, Linkers
  <1>3. \A q \in Requests : Apart(Idle, req[q]) /\ Alone(Idle, req[q])
    BY IdleTyped DEF Apart, Alone
  <1>4. UNCHANGED <<table, rows, claimed>> BY DEF SetCategories
  <1> QED BY <1>1, <1>2, <1>3, <1>4, IdleTyped, SetCategoriesFacts, StageMoves

-----------------------------------------------------------------------------
(* Whichever table a step is about, it is one of these. *)
EditTyped(e, slugs, ups) ==
    e.slug \in Given(slugs) /\ e.up \in Given(ups) /\ e.on \in Given(BOOLEAN)

Checks == \E r \in Requests, k \in Kinds, s \in Slugs : CheckSlug(r, k, s)
Reads == \E r \in Requests, i \in Ids : table[i] \in Kinds /\ Read(r, i)
Puts ==
    \E r \in Requests, k \in Kinds \ {"services"}, new \in Row, L \in SUBSET Ids :
    \E i \in Table(k) :
      /\ req[r].pc \in {"idle", "creating"}
      /\ Put(r, i, new, L) /\ new.state = "live" /\ ~Taken(k, new.slug, i)
      /\ k = "projects" => new.up \in ProjectTypes \cup {None}
      /\ k = "project_type" => L \subseteq Categories
\* A request that writes back goes on only to set a service's links.
SavesAs(r, k, e, stored, wanted, x) ==
    /\ WriteBack(r, k, e, stored, wanted)
    /\ EditTyped(e, Slugs \cup {None}, IF k = "projects" THEN ProjectTypes ELSE Ids)
    /\ k = "project_type" => stored \subseteq Categories
    /\ req' = [Cross({req[r].id}) EXCEPT ![r] = x]
    /\ \/ /\ x.pc = "idle"
          /\ \/ wanted = stored /\ k # "services"
             \/ stored = LinksOf(req[r].id) /\ wanted = asked[req[r].id].links
       \/ /\ x.pc = "linking" /\ x.id = req[r].id /\ x.id \in Services
          /\ stored = LinksOf(x.id)
          /\ wanted = IF Linking(x.id) = {} THEN x.ids ELSE Unsure
Saves ==
    \E r \in Requests, stored \in SUBSET Ids, x \in Request :
      \E k, e, wanted : SavesAs(r, k, e, stored, wanted, x)
Cascaded == {"group_categories", "categories", "project_type"}
Statement ==
    \/ \E i \in Ids : table[i] \notin Cascaded /\ SoftDelete(i)
    \/ \E i \in Ids : table[i] \notin Cascaded \cup {"services"} /\ Remove(i)
    \/ \E i \in Ids : Restore(i)
    \/ \E p \in Projects, b \in BOOLEAN : Toggle(p, b)
    \/ \E c \in Categories : DeleteCategory(c)
    \/ \E t \in ProjectTypes : DeleteProjectType(t)
Step ==
    \/ Checks \/ Reads \/ Puts \/ Saves \/ Statement
    \/ \E r \in Requests : \/ Abandon(r) \/ CommitCascade(r)
                           \/ CreateService(r) \/ ClearCategories(r) \/ SetCategories(r)
                           \/ \E g \in Groups : BeginCascade(r, g)

LEMMA IInvKeeps == IInv /\ Step => IInv'
  <1> SUFFICES ASSUME IInv, Step PROVE IInv' OBVIOUS
  <1>1. ASSUME Puts PROVE IInv'
    BY <1>1, PutKeeps DEF Puts, Table, Projects, ProjectTypes
  <1>2. ASSUME Saves PROVE IInv'
    <2>1. PICK r \in Requests, stored \in SUBSET Ids, x \in Request :
            \E k, e, wanted : SavesAs(r, k, e, stored, wanted, x)
      BY <1>2 DEF Saves
    <2>2. PICK k, e, wanted : SavesAs(r, k, e, stored, wanted, x)
      BY <2>1
    <2>3. /\ e.slug \in Given(Slugs \cup {None}) /\ e.up \in Given(Ids)
          /\ e.on \in Given(BOOLEAN)
          /\ k = "projects" => e.up \in Given(ProjectTypes)
      BY <2>2 DEF SavesAs, EditTyped, Given, ProjectTypes, Table
    <2>4. /\ WriteBack(r, k, e, stored, wanted)
          /\ k = "project_type" => stored \subseteq Categories
          /\ x.pc \in {"idle", "linking"} /\ (x.pc = "linking" => x.id \in Services)
          /\ req' = [Cross({req[r].id}) EXCEPT ![r] = x]
      BY <2>2 DEF SavesAs
    <2> QED BY <2>3, <2>4, WriteBackKeeps
  <1>3. ASSUME Statement PROVE IInv'
    <2>1. Categories \subseteq Ids /\ ProjectTypes \subseteq Ids
      BY DEF Categories, ProjectTypes, Table
    <2> QED
      BY <1>3, <2>1, SoftDeleteKeeps, RemoveKeeps, RestoreKeeps, ToggleKeeps, DeleteCategoryKeeps,
         DeleteProjectTypeKeeps
      DEF Statement, Cascaded
  <1> QED
    BY <1>1, <1>2, <1>3, CheckSlugKeeps, ReadKeeps, AbandonKeeps, CommitCascadeKeeps,
       CreateServiceKeeps, ClearCategoriesKeeps, SetCategoriesKeeps, BeginCascadeKeeps
    DEF Step, Checks, Reads

LEMMA EditsTyped ==
    ASSUME NEW slugs, NEW ups, NEW e \in Valid(Edits(slugs, ups))
    PROVE  EditTyped(e, slugs, ups)
  BY TablesAssumption DEF Valid, Edits, EditTyped, Given

LEMMA StoredFacts == \A k : StoredIn(k) \subseteq Table(k) /\ StoredIn(k) \subseteq Ids
  BY DEF StoredIn, Table

LEMMA IsCheck ==
    ASSUME NEW r \in Requests, NEW k \in Kinds, \E s \in Slugs : CheckSlug(r, k, s)
    PROVE  Step
  BY DEF Step, Checks

LEMMA IsRead ==
    ASSUME NEW r \in Requests, NEW k \in Kinds, \E i \in Table(k) : Read(r, i)
    PROVE  Step
  BY DEF Step, Reads, Table

LEMMA IsPut ==
    ASSUME NEW r \in Requests, NEW k \in Kinds \ {"services"}, NEW new \in Row,
           NEW L \in SUBSET Ids, req[r].pc \in {"idle", "creating"},
           NEW i \in Table(k), Put(r, i, new, L), new.state = "live", ~Taken(k, new.slug, i),
           k = "projects" => new.up \in ProjectTypes \cup {None},
           k = "project_type" => L \subseteq Categories
    PROVE  Step
  BY DEF Step, Puts

LEMMA IsRevive ==
    ASSUME IInv, NEW r \in Requests, NEW k \in Kinds \ {"services"},
           NEW ups \in SUBSET (Ids \cup {None}), NEW row \in NewRows(Body(ups)), NEW L \in SUBSET Ids, Revive(r, k, row, L),
           k = "projects" => ups \subseteq ProjectTypes \cup {None},
           k = "project_type" => L \subseteq Categories
    PROVE  Step
  <1>1. row \in Row /\ row.state = "live" /\ row.up \in ups BY NewRowTyped
  <1>2. PICK i \in (IF req[r].id = None THEN Fresh(k) ELSE {req[r].id}) : Put(r, i, row, L)
    BY DEF Revive
  <1>3. i \in Table(k)
    <2>1. HoldsAs(req[r]) BY DEF IInv, Locked
    <2> QED BY <1>2, <2>1 DEF Revive, HoldsAs, Fresh
  <1>4. ~Taken(k, row.slug, i)
    <2>1. ~Taken(k, row.slug, req[r].id) BY DEF Revive
    <2> QED BY <1>2, <2>1, TablesAssumption DEF Taken, Table
  <1> QED BY <1>1, <1>2, <1>3, <1>4, IsPut DEF Revive

LEMMA IsInsert ==
    ASSUME NEW r \in Requests, NEW k \in Kinds \ {"projects", "project_type", "services"},
           NEW row \in Row, row.state = "live", NEW L \in SUBSET Ids, Insert(r, k, row, L)
    PROVE  Step
  <1>1. PICK i \in Fresh(k) : Put(r, i, row, L) BY DEF Insert
  <1>2. i \in Table(k) BY DEF Fresh
  <1>3. ~Taken(k, row.slug, i) BY TablesAssumption DEF Insert, Taken, Table
  <1> QED BY <1>1, <1>2, <1>3, IsPut DEF Insert

LEMMA IsNewRow ==
    ASSUME NEW r \in Requests, NEW k \in Kinds \ {"projects", "project_type", "services"},
           NEW ups \in SUBSET (Ids \cup {None}), NEW row \in NewRows(Body(ups)),
           NEW L \in SUBSET Ids, Insert(r, k, row, L)
    PROVE  Step
  <1>1. row \in Row /\ row.state = "live" BY NewRowTyped
  <1> QED BY <1>1, IsInsert

LEMMA IsSave ==
    ASSUME IInv, NEW r \in Requests, NEW k, NEW e, NEW ls \in Given(SUBSET Ids),
           Save(r, k, e, ls),
           EditTyped(e, Slugs \cup {None}, IF k = "projects" THEN ProjectTypes ELSE Ids),
           k = "project_type" => ls \in Given(SUBSET Categories),
           k = "services" => ls = <<>>
    PROVE  Step
  <1> DEFINE i == req[r].id
             L == Keep(ls, LinksOf(i))
             wanted == Keep(ls, asked[i].links)
  <1>1. i \in Ids /\ table[i] = k BY DEF Save, WriteBack, IInv, Staged, StagedAs
  <1>2. LinksOf(i) \in SUBSET Ids BY DEF LinksOf, IInv, Shaped
  <1>3. k = "project_type" => LinksOf(i) \in SUBSET Categories
    BY <1>1 DEF LinksOf, IInv, Referring
  <1>4. L \in SUBSET Ids BY <1>2 DEF Given, Keep
  <1>5. k = "project_type" => L \subseteq Categories BY <1>3 DEF Given, Keep
  <1>6. WriteBack(r, k, e, L, wanted) BY DEF Save
  <1>7. req' = [Cross({i}) EXCEPT ![r] = Idle] BY DEF Save, Ends
  <1>8. (wanted = L /\ k # "services") \/ (L = LinksOf(i) /\ wanted = asked[i].links)
    BY DEF Given, Keep
  <1> HIDE DEF L, wanted
  <1>9. SavesAs(r, k, e, L, wanted, Idle)
    BY <1>5, <1>6, <1>7, <1>8, IdleTyped DEF SavesAs
  <1> QED BY <1>4, <1>9, IdleTyped DEF Step, Saves

LEMMA IsEdit ==
    ASSUME IInv, NEW r \in Requests, NEW k, NEW slugs \in SUBSET (Slugs \cup {None}),
           NEW ups \in SUBSET Ids, NEW e \in Valid(Edits(slugs, ups)),
           NEW ls \in Given(SUBSET Ids), Save(r, k, e, ls),
           k = "projects" => ups \subseteq ProjectTypes,
           k = "project_type" => ls \in Given(SUBSET Categories),
           k = "services" => ls = <<>>
    PROVE  Step
  <1>1. EditTyped(e, slugs, ups) BY EditsTyped
  <1>2. EditTyped(e, Slugs \cup {None}, IF k = "projects" THEN ProjectTypes ELSE Ids)
    BY <1>1 DEF EditTyped, Given
  <1> QED BY <1>2, IsSave

LEMMA TaxonomySteps ==
    ASSUME IInv, NEW r \in Requests, TaxonomyStep(r)
    PROVE  Step
  <1>1. ASSUME CreateGroup(r) \/ CreateCategory(r) PROVE Step
    BY <1>1, IsCheck DEF CreateGroup, CreateCategory, Kinds
  <1>2. ASSUME EditGroup(r) \/ EditCategory(r) PROVE Step
    BY <1>2, IsRead DEF EditGroup, EditCategory, Groups, Categories, Kinds
  <1>3. ASSUME StoreGroup(r) PROVE Step
    BY <1>3, IsRevive DEF StoreGroup, NewGroup, CreateGroupInput, Kinds
  <1>4. ASSUME StoreCategory(r) PROVE Step
    BY <1>4, IsRevive, StoredFacts DEF StoreCategory, NewCategory, CreateCategoryInput, Kinds
  <1>5. <<>> \in Given(SUBSET Ids) BY DEF Given
  <1>6. ASSUME SaveGroup(r) PROVE Step
    BY <1>5, <1>6, IsEdit DEF SaveGroup, UpdateGroup, UpdateGroupInput
  <1>7. ASSUME SaveCategory(r) PROVE Step
    BY <1>5, <1>7, IsEdit, StoredFacts DEF SaveCategory, UpdateCategory, UpdateCategoryInput
  <1> QED
    BY <1>1, <1>2, <1>3, <1>4, <1>6, <1>7
    DEF TaxonomyStep, Step

LEMMA TaxonomyStatements ==
    ASSUME IInv, TaxonomyStatement
    PROVE  Step
  BY DEF TaxonomyStatement, RestoreGroup, RestoreCategory, Groups, Categories, Table, Step,
         Statement

LEMMA SaveServiceSteps ==
    ASSUME IInv, NEW r \in Requests, SaveService(r)
    PROVE  Step
  <1>1. ASSUME NEW e \in UpdateService, Save(r, "services", e, <<>>) PROVE Step
    <2>1. <<>> \in Given(SUBSET Ids) BY DEF Given
    <2> QED BY <1>1, <2>1, IsEdit DEF UpdateService, UpdateServiceInput
  <1>2. ASSUME NEW e \in UpdateService, NEW L \in SUBSET StoredIn("categories"),
               WriteBack(r, "services", e, LinksOf(req[r].id),
                         IF Linking(req[r].id) = {} THEN L ELSE Unsure),
               req' = [Cross({req[r].id}) EXCEPT ![r] =
                         [Idle EXCEPT !.pc = "linking", !.kind = "services",
                                      !.id = req[r].id, !.ids = L]]
        PROVE  Step
    <2> DEFINE s == req[r].id
               x == [Idle EXCEPT !.pc = "linking", !.kind = "services", !.id = s, !.ids = L]
    <2>1. s \in Ids /\ table[s] = "services" /\ s \in Services
      BY <1>2 DEF WriteBack, IInv, Staged, StagedAs, Services, Table
    <2>2. x \in Request /\ x.pc = "linking" /\ x.id = s /\ x.ids = L
      BY <2>1, StoredFacts, IdleTyped DEF Idle, Request, Stages, Kinds
    <2>3. LinksOf(s) \in SUBSET Ids BY DEF LinksOf, IInv, Shaped
    <2>4. EditTyped(e, Slugs \cup {None}, {})
      BY EditsTyped DEF UpdateService, UpdateServiceInput
    <2>5. req' = [Cross({s}) EXCEPT ![r] = x] BY <1>2
    <2>6. EditTyped(e, Slugs \cup {None}, Ids) BY <2>4 DEF EditTyped, Given
    <2> DEFINE wanted == IF Linking(s) = {} THEN L ELSE Unsure
    <2>7. WriteBack(r, "services", e, LinksOf(s), wanted) BY <1>2
    <2> HIDE DEF x, wanted
    <2>8. wanted = IF Linking(x.id) = {} THEN x.ids ELSE Unsure BY <2>2 DEF wanted
    <2>9. SavesAs(r, "services", e, LinksOf(s), wanted, x)
      BY <2>1, <2>2, <2>5, <2>6, <2>7, <2>8 DEF SavesAs
    <2> QED BY <2>2, <2>3, <2>9 DEF Step, Saves
  <1> QED BY <1>1, <1>2 DEF SaveService

LEMMA SaveProjectSteps ==
    ASSUME IInv, NEW r \in Requests, SaveProject(r)
    PROVE  Step
  <1> DEFINE old == LinksOf(req[r].id)
             all(cs, ss) == Keep(cs, old \cap Categories) \cup Keep(ss, old \cap Services)
             sent(cs, ss) == IF cs = <<>> /\ ss = <<>> THEN <<>> ELSE <<all(cs, ss)>>
  <1>1. PICK e \in UpdateProject, cs \in Relinks(StoredIn("categories")),
             ss \in Relinks(StoredIn("services")) :
          Save(r, "projects", e, sent(cs, ss))
    BY DEF SaveProject
  <1>2. old \in SUBSET Ids BY DEF LinksOf, IInv, Shaped
  <1>3. /\ cs \in Given(SUBSET Ids) /\ ss \in Given(SUBSET Ids)
        /\ old \cap Categories \in SUBSET Ids /\ old \cap Services \in SUBSET Ids
    BY <1>2, StoredFacts DEF Relinks, Given
  <1>4. Keep(cs, old \cap Categories) \in SUBSET Ids /\ Keep(ss, old \cap Services) \in SUBSET Ids
    BY <1>3 DEF Given, Keep
  <1>5. sent(cs, ss) \in Given(SUBSET Ids) BY <1>4 DEF Given
  <1>6. e \in Valid(Edits(Slugs \cup {None}, StoredIn("project_type")))
    BY DEF UpdateProject, UpdateProjectInput
  <1> HIDE DEF sent
  <1> QED BY <1>1, <1>5, <1>6, StoredFacts, IsEdit DEF ProjectTypes

LEMMA PortfolioSteps ==
    ASSUME IInv, NEW r \in Requests, PortfolioStep(r)
    PROVE  Step
  <1>1. ASSUME CreateProjectType(r) \/ CreateProject(r) PROVE Step
    BY <1>1, IsCheck DEF CreateProjectType, CreateProject, Kinds
  <1>2. ASSUME EditProjectType(r) \/ EditProject(r) \/ EditService(r) PROVE Step
    BY <1>2, IsRead
    DEF EditProjectType, EditProject, EditService, ProjectTypes, Projects, Services, Kinds
  <1>3. ASSUME StoreProjectType(r) PROVE Step
    BY <1>3, IsRevive, StoredFacts
    DEF StoreProjectType, NewProjectType, CreateProjectTypeInput, Kinds, Categories
  <1>4. ASSUME StoreProject(r) PROVE Step
    BY <1>4, IsRevive, StoredFacts
    DEF StoreProject, NewProject, CreateProjectInput, Kinds, ProjectTypes
  <1>5. ASSUME SaveProjectType(r) PROVE Step
    BY <1>5, IsEdit, StoredFacts
    DEF SaveProjectType, UpdateProjectType, UpdateProjectTypeInput, Relinks, Given, Categories
  <1> QED
    BY <1>1, <1>2, <1>3, <1>4, <1>5, SaveProjectSteps, SaveServiceSteps
    DEF PortfolioStep, Step

LEMMA PortfolioStatements ==
    ASSUME IInv, PortfolioStatement
    PROVE  Step
  <1>1. ASSUME DeleteProject \/ DeleteService PROVE Step
    BY <1>1 DEF Step, Statement, Cascaded, DeleteProject, DeleteService, Projects, Services, Table
  <1>2. ASSUME RestoreProject \/ RestoreService PROVE Step
    BY <1>2 DEF Step, Statement, RestoreProject, RestoreService, Projects, Services, Table
  <1> QED BY <1>1, <1>2 DEF PortfolioStatement, TogglePublish, Step, Statement

LEMMA ArticlesSteps ==
    ASSUME IInv, NEW r \in Requests, ArticlesStep(r)
    PROVE  Step
  <1> <<>> \in Given(SUBSET Ids) BY DEF Given
  <1>1. ASSUME CreateNews(r) PROVE Step BY <1>1, IsCheck DEF CreateNews, Kinds
  <1>2. ASSUME EditNews(r) \/ EditPage(r) \/ EditBranch(r) \/ EditFAQ(r) \/ EditContact(r)
        PROVE  Step
    BY <1>2, IsRead
    DEF EditNews, EditPage, EditBranch, EditFAQ, EditContact, News, Pages, Branches, FAQs,
        Contacts, Kinds
  <1>3. ASSUME CreatePage(r) \/ CreateBranch(r) PROVE Step
    BY <1>3, IsNewRow
    DEF CreatePage, CreateBranch, NewPage, NewBranch, CreatePageInput, CreateBranchInput, Kinds
  <1>4. ASSUME CreateFAQ(r) \/ CreateContact(r) PROVE Step
    <2>1. NewFAQ \cup NewContact \subseteq Row
      BY DEF NewFAQ, NewContact, CreateFAQInput, CreateContactInput, Owners, Row
    <2>2. \A row \in NewFAQ \cup NewContact : row.state = "live" BY DEF NewFAQ, NewContact
    <2> QED BY <1>4, <2>1, <2>2, IsInsert DEF CreateFAQ, CreateContact, Kinds
  <1>5. ASSUME StoreNews(r) PROVE Step
    BY <1>5, IsRevive, StoredFacts DEF StoreNews, NewNews, CreateNewsInput, Kinds
  <1>6. ASSUME SaveNews(r) PROVE Step
    BY <1>6, IsEdit, StoredFacts DEF SaveNews, UpdateNews, UpdateNewsInput
  <1>7. ASSUME SavePage(r) PROVE Step
    <2>1. PICK e \in UpdatePage : Save(r, "pages", e, <<>>) BY <1>7 DEF SavePage
    <2>2. EditTyped(e, Slugs \cup {None}, {})
      BY TablesAssumption DEF UpdatePage, UpdatePageInput, Valid, EditTyped, Given
    <2> QED BY <2>1, <2>2, IsSave DEF EditTyped, Given
  <1>8. ASSUME SaveBranch(r) PROVE Step
    BY <1>8, IsEdit DEF SaveBranch, UpdateBranch, UpdateBranchInput
  <1>9. ASSUME UpdateBranchOrder(r) PROVE Step
    BY <1>9, IsSave DEF UpdateBranchOrder, EditTyped, Given
  <1>10. ASSUME SaveFAQ(r) \/ SaveContact(r) PROVE Step
    BY <1>10, IsSave
    DEF SaveFAQ, SaveContact, UpdateFAQInput, UpdateContactInput, EditTyped, Given
  <1> QED
    BY <1>1, <1>2, <1>3, <1>4, <1>5, <1>6, <1>7, <1>8, <1>9, <1>10 DEF ArticlesStep

LEMMA ArticlesStatements ==
    ASSUME IInv, ArticlesStatement
    PROVE  Step
  <1>1. ASSUME DeleteNews \/ DeletePage PROVE Step
    BY <1>1 DEF Step, Statement, Cascaded, DeleteNews, DeletePage, News, Pages, Table
  <1>2. ASSUME RestoreNews \/ RestorePage PROVE Step
    BY <1>2 DEF Step, Statement, RestoreNews, RestorePage, News, Pages, Table
  <1>3. ASSUME DeleteBranch \/ DeleteFAQ \/ DeleteContact PROVE Step
    BY <1>3
    DEF Step, Statement, Cascaded, DeleteBranch, DeleteFAQ, DeleteContact, Branches, FAQs,
        Contacts, Table
  <1> QED BY <1>1, <1>2, <1>3 DEF ArticlesStatement

LEMMA StorefrontSteps ==
    ASSUME IInv, NEW r \in Requests, StorefrontStep(r)
    PROVE  Step
  <1> <<>> \in Given(SUBSET Ids) BY DEF Given
  <1>1. ASSUME EditBrand(r) \/ EditHpPage(r) \/ EditProductLine(r) PROVE Step
    BY <1>1, IsRead
    DEF EditBrand, EditHpPage, EditProductLine, Brands, HpPages, ProductLines, Kinds
  <1>2. ASSUME CreateBrand(r) PROVE Step
    BY <1>2, IsNewRow DEF CreateBrand, NewBrand, CreateBrandInput, Kinds
  <1>3. ASSUME CreateHpPage(r) PROVE Step
    <2>1. PICK row \in NewHpPage, L \in Choices : Insert(r, "hp_pages", row, L)
      BY <1>3 DEF CreateHpPage
    <2>2. row \in Row /\ row.state = "live"
      <3> PICK in \in CreateHpPageInput :
            row = [state |-> "live", slug |-> in.slug, up |-> in.up, on |-> in.on]
        BY DEF NewHpPage, NewRows
      <3> QED BY DEF CreateHpPageInput, Row
    <2>3. L \in SUBSET Ids BY StoredFacts DEF Choices
    <2> QED BY <2>1, <2>2, <2>3, IsInsert DEF Kinds
  <1>4. \A L \in Categorised : L \in SUBSET Ids BY StoredFacts DEF Categorised
  <1>5. ASSUME CreateProductLine(r) PROVE Step
    BY <1>4, <1>5, IsNewRow, StoredFacts
    DEF CreateProductLine, NewProductLine, CreateProductLineInput, Kinds
  <1>6. ASSUME CreateReview(r) PROVE Step
    <2>1. NewReview \subseteq Row /\ \A row \in NewReview : row.state = "live"
      <3>1. Reviewed \subseteq Ids BY StoredFacts DEF Reviewed
      <3> SUFFICES ASSUME NEW row \in NewReview PROVE row \in Row /\ row.state = "live"
        OBVIOUS
      <3> PICK in \in CreateReviewInput :
            row = [state |-> "live", slug |-> None, up |-> in.up, on |-> in.on]
        BY DEF NewReview
      <3>2. in.up \in Ids /\ in.on = TRUE BY <3>1 DEF CreateReviewInput
      <3> QED BY <3>2 DEF Row
    <2> QED BY <1>6, <2>1, IsInsert DEF CreateReview, Kinds
  <1>7. ASSUME SaveBrand(r) PROVE Step
    BY <1>7, IsEdit DEF SaveBrand, UpdateBrand, UpdateBrandInput
  <1>8. ASSUME SaveHpPage(r) PROVE Step
    <2>1. PICK e \in UpdateHpPage, L \in Choices : Save(r, "hp_pages", e, <<L>>)
      BY <1>8 DEF SaveHpPage
    <2>2. EditTyped(e, Slugs \cup {None}, {})
      BY DEF UpdateHpPage, UpdateHpPageInput, Valid, EditTyped, Given
    <2>3. <<L>> \in Given(SUBSET Ids) BY StoredFacts DEF Choices, Given
    <2> QED BY <2>1, <2>2, <2>3, IsSave DEF EditTyped, Given
  <1>9. ASSUME SaveProductLine(r) PROVE Step
    <2>1. PICK e \in UpdateProductLineInput, L \in Categorised :
            Save(r, "product_lines", e, <<L>>)
      BY <1>9 DEF SaveProductLine
    <2>2. EditTyped(e, {}, {}) BY DEF UpdateProductLineInput, EditTyped, Given
    <2>3. <<L>> \in Given(SUBSET Ids) BY <1>4 DEF Given
    <2> QED BY <2>1, <2>2, <2>3, IsSave DEF EditTyped, Given
  <1> QED BY <1>1, <1>2, <1>3, <1>5, <1>6, <1>7, <1>8, <1>9 DEF StorefrontStep

LEMMA StorefrontStatements ==
    ASSUME IInv, StorefrontStatement
    PROVE  Step
  <1>1. ASSUME DeleteBrand \/ DeleteHpPage \/ DeleteProductLine PROVE Step
    BY <1>1
    DEF Step, Statement, Cascaded, DeleteBrand, DeleteHpPage, DeleteProductLine, Brands,
        HpPages, ProductLines, Table
  <1>2. ASSUME RestoreBrand \/ RestoreHpPage \/ RestoreProductLine PROVE Step
    BY <1>2
    DEF Step, Statement, RestoreBrand, RestoreHpPage, RestoreProductLine, Brands, HpPages,
        ProductLines, Table
  <1> QED BY <1>1, <1>2 DEF StorefrontStatement

LEMMA NextSteps == IInv /\ Next => Step
  <1> SUFFICES ASSUME IInv, Next PROVE Step OBVIOUS
  <1>1. ASSUME NEW r \in Requests,
               TaxonomyStep(r) \/ PortfolioStep(r) \/ ArticlesStep(r) \/ StorefrontStep(r)
        PROVE  Step
    BY <1>1, TaxonomySteps, PortfolioSteps, ArticlesSteps, StorefrontSteps
  <1>2. ASSUME TaxonomyStatement \/ PortfolioStatement \/ ArticlesStatement
               \/ StorefrontStatement
        PROVE  Step
    BY <1>2, TaxonomyStatements, PortfolioStatements, ArticlesStatements, StorefrontStatements
  <1>3. ASSUME NEW r \in Requests, Abandon(r) PROVE Step
    BY <1>3 DEF Step
  <1> QED BY <1>1, <1>2, <1>3 DEF Next

LEMMA NextKeeps == IInv /\ [Next]_vars => IInv'
  <1>1. IInv /\ UNCHANGED vars => IInv'
    BY DEF vars, IInv, Shaped, Staged, StagedAs, Locked, HoldsAs, Apart, Referring, Cascading,
           CascadesAs, CameAfter, Alone, Released, NotOrphaned, ProjectReleased, LinkReleased,
           Live, Groups, Categories, Projects, ProjectTypes, Services, Table
  <1> QED BY <1>1, NextSteps, IInvKeeps

LEMMA IInvHolds == Spec => []IInv
  BY InitIInv, NextKeeps, PTL DEF Spec

-----------------------------------------------------------------------------
(* The unique indexes hold: no two rows of a table share a slug among those   *)
(* the index of the table is about.                                           *)
SlugsUnique ==
    \A i \in Ids : \A j \in Ids \ {i} :
      /\ table[i] = table[j]
      /\ rows[i].state \in Indexed(table[i]) /\ rows[j].state \in Indexed(table[i])
      => rows[i].slug # rows[j].slug

\* Row i keeps its slug and does not enter the index.
Stays(i) ==
    /\ rows'[i].slug = rows[i].slug
    /\ rows'[i].state \in Indexed(table[i]) => rows[i].state \in Indexed(table[i])

LEMMA OneEnters ==
    ASSUME SlugsUnique, table' = table, NEW i \in Ids, \A j \in Ids \ {i} : Stays(j),
           Stays(i) \/ (rows'[i].state \in Indexed(table[i])
                           => ~Taken(table[i], rows'[i].slug, i))
    PROVE  SlugsUnique'
  <1> SUFFICES ASSUME NEW a \in Ids, NEW b \in Ids \ {a}, table[a] = table[b],
                      rows'[a].state \in Indexed(table[a]), rows'[b].state \in Indexed(table[a])
               PROVE  rows'[a].slug # rows'[b].slug
    BY DEF SlugsUnique, Indexed
  <1>1. CASE Stays(a) /\ Stays(b)
    BY <1>1 DEF Stays, SlugsUnique
  <1>2. ASSUME NEW j \in Ids \ {i}, table[j] = table[i], Stays(j),
               rows'[i].state \in Indexed(table[i]), rows'[j].state \in Indexed(table[i]),
               ~Taken(table[i], rows'[i].slug, i)
        PROVE  rows'[i].slug # rows'[j].slug
    BY <1>2 DEF Stays, Taken, Table
  <1> QED BY <1>1, <1>2

LEMMA SlugsStay ==
    ASSUME SlugsUnique, table' = table, \A i \in Ids : Stays(i)
    PROVE  SlugsUnique'
  BY DEF SlugsUnique, Stays, Indexed

\* Deleting a stored row, or one of a table that does not index deleted rows.
LEMMA DeletedStay ==
    ASSUME Shaped, NEW S \in SUBSET Ids, rows' = MarkDeleted(S),
           \A i \in S : Stored(i) \/ "deleted" \notin Indexed(table[i])
    PROVE  \A i \in Ids : Stays(i)
  <1>1. \A k : "deleted" \in Indexed(k) => Indexed(k) = {"live", "deleted"}
    BY DEF Indexed
  <1> QED BY <1>1, MarkDeletedFacts DEF Stays, Stored

LEMMA StatementUnique ==
    ASSUME IInv, SlugsUnique, Statement
    PROVE  SlugsUnique'
  <1>1. \A k : Indexed(k) \in {{}, {"live"}, {"live", "deleted"}}
    BY DEF Indexed
  <1>2. ASSUME NEW i \in Ids, SoftDelete(i) PROVE SlugsUnique'
    BY <1>2, DeletedStay, SlugsStay DEF SoftDelete, Stored, IInv
  <1>3. ASSUME NEW i \in Ids, Remove(i) PROVE SlugsUnique'
    <2>1. /\ table' = table /\ rows'[i].state = "gone"
          /\ \A j \in Ids \ {i} : rows'[j] = rows[j]
      BY <1>3 DEF Remove, IInv, Shaped
    <2> QED BY <1>1, <2>1, OneEnters DEF Stays
  <1>4. ASSUME NEW i \in Ids, Restore(i) PROVE SlugsUnique'
    <2>1. /\ table' = table /\ rows'[i].slug = rows[i].slug /\ rows[i] \in Row
          /\ \A j \in Ids \ {i} : rows'[j] = rows[j]
      BY <1>4 DEF Restore, IInv, Shaped, Row
    <2>2. ~Taken(table[i], rows'[i].slug, i)
      BY <1>4, <2>1 DEF Restore
    <2> QED BY <2>1, <2>2, OneEnters DEF Stays
  <1>5. ASSUME NEW p \in Projects, NEW b \in BOOLEAN, Toggle(p, b) PROVE SlugsUnique'
    <2>1. p \in Ids /\ rows[p] \in Row BY DEF Projects, Table, IInv, Shaped
    <2>2. table' = table /\ \A i \in Ids : rows'[i].slug = rows[i].slug
                                           /\ rows'[i].state = rows[i].state
      BY <1>5, <2>1 DEF Toggle, IInv, Shaped, Row
    <2> QED BY <2>2, SlugsStay DEF Stays
  <1>6. ASSUME NEW c \in Categories, DeleteCategory(c) PROVE SlugsUnique'
    BY <1>6, DeletedStay, SlugsStay DEF DeleteCategory, Categories, Table, IInv
  <1>7. ASSUME NEW t \in ProjectTypes, DeleteProjectType(t) PROVE SlugsUnique'
    <2>1. t \in Ids /\ Stored(t) /\ table' = table
      BY <1>7 DEF ProjectTypes, Table, DeleteProjectType
    <2>2. ASSUME NEW i \in Ids PROVE Stays(i)
      <3>1. rows[i] \in Row BY DEF IInv, Shaped
      <3>2. rows'[i].slug = rows[i].slug
        BY <1>7, <3>1 DEF DeleteProjectType, MarkDeleted, Row
      <3>3. rows'[i].state = rows[i].state \/ (i = t /\ rows'[i].state = "deleted")
        BY <1>7, <3>1 DEF DeleteProjectType, MarkDeleted, Row
      <3> QED BY <1>1, <2>1, <3>2, <3>3 DEF Stays, Stored
    <2> QED BY <2>1, <2>2, SlugsStay
  <1> QED BY <1>2, <1>3, <1>4, <1>5, <1>6, <1>7 DEF Statement

LEMMA UniqueKeeps == IInv /\ SlugsUnique /\ Step => SlugsUnique'
  <1> SUFFICES ASSUME IInv, SlugsUnique, Step PROVE SlugsUnique' OBVIOUS
  <1>1. ASSUME table' = table, rows' = rows PROVE SlugsUnique'
    BY <1>1, SlugsStay DEF Stays
  <1>2. ASSUME Puts PROVE SlugsUnique'
    <2> PICK r \in Requests, k \in Kinds, new \in Row, L \in SUBSET Ids :
          \E i \in Table(k) : Put(r, i, new, L) /\ ~Taken(k, new.slug, i)
      BY <1>2 DEF Puts
    <2> PICK i \in Table(k) : Put(r, i, new, L) /\ ~Taken(k, new.slug, i)
      OBVIOUS
    <2>1. /\ i \in Ids /\ table[i] = k /\ table' = table /\ rows'[i] = new
          /\ \A j \in Ids \ {i} : rows'[j] = rows[j]
      BY DEF Put, Table, IInv, Shaped
    <2> QED BY <2>1, OneEnters DEF Stays
  <1>3. ASSUME Saves PROVE SlugsUnique'
    <2> PICK r \in Requests, stored \in SUBSET Ids, x \in Request :
          \E k, e, wanted : SavesAs(r, k, e, stored, wanted, x)
      BY <1>3 DEF Saves
    <2> PICK k, e, wanted : SavesAs(r, k, e, stored, wanted, x)
      OBVIOUS
    <2> DEFINE i == req[r].id
               new == [Edited(req[r].row, e) EXCEPT !.state = rows[i].state]
    <2>1. i \in Ids /\ table[i] = k /\ table' = table
      BY DEF SavesAs, WriteBack, IInv, Staged, StagedAs
    <2>2. rows' = [rows EXCEPT ![i] = new] /\ (new.state \in Indexed(k) => ~Taken(k, new.slug, i))
      BY DEF SavesAs, WriteBack
    <2> HIDE DEF new
    <2>3. rows'[i] = new /\ \A j \in Ids \ {i} : rows'[j] = rows[j]
      BY <2>1, <2>2 DEF IInv, Shaped
    <2> QED BY <2>1, <2>2, <2>3, OneEnters DEF Stays
  <1>4. ASSUME NEW r \in Requests, CommitCascade(r) PROVE SlugsUnique'
    <2>1. /\ {req[r].id} \cup req[r].ids \subseteq Ids
          /\ req[r].id \in Groups /\ req[r].ids \subseteq Categories
      BY <1>4 DEF CommitCascade, IInv, Staged, StagedAs, Groups, Categories, Table
    <2>2. rows' = MarkDeleted({req[r].id} \cup req[r].ids) /\ table' = table
      BY <1>4 DEF CommitCascade
    <2>3. \A i \in {req[r].id} \cup req[r].ids : "deleted" \notin Indexed(table[i])
      BY <2>1 DEF Groups, Categories, Table, Indexed, PlainUnique, PartialUnique
    <2> QED BY <2>1, <2>2, <2>3, DeletedStay, SlugsStay DEF IInv
  <1>5. ASSUME NEW r \in Requests, CreateService(r) PROVE SlugsUnique'
    <2>1. PICK row \in NewService, s \in Fresh("services") :
            ~Taken("services", row.slug, None) /\ rows' = [rows EXCEPT ![s] = row]
      BY <1>5 DEF CreateService
    <2>2. /\ s \in Ids /\ table[s] = "services" /\ table' = table /\ rows'[s] = row
          /\ \A j \in Ids \ {s} : rows'[j] = rows[j]
      BY <1>5, <2>1 DEF CreateService, Fresh, Table, IInv, Shaped
    <2>3. ~Taken("services", row.slug, s)
      BY <2>1, TablesAssumption DEF Taken, Table
    <2> QED BY <2>2, <2>3, OneEnters DEF Stays
  <1>6. ASSUME Checks \/ Reads \/ \E r \in Requests : \/ Abandon(r) \/ ClearCategories(r)
                                                     \/ SetCategories(r)
                                                     \/ \E g \in Groups : BeginCascade(r, g)
        PROVE  SlugsUnique'
    BY <1>1, <1>6 DEF Checks, Reads, CheckSlug, Read, Abandon, ClearCategories, SetCategories,
                     BeginCascade
  <1> QED BY <1>2, <1>3, <1>4, <1>5, <1>6, StatementUnique DEF Step

LEMMA UniqueHolds == Spec => []SlugsUnique
  <1>1. Init => SlugsUnique
    BY DEF Init, SlugsUnique, Unborn, Indexed
  <1>2. IInv /\ SlugsUnique /\ [Next]_vars => SlugsUnique'
    <2>1. SlugsUnique /\ UNCHANGED vars => SlugsUnique'
      BY DEF vars, SlugsUnique
    <2> QED BY <2>1, NextSteps, UniqueKeeps
  <1> QED BY <1>1, <1>2, IInvHolds, PTL DEF Spec

-----------------------------------------------------------------------------
(* AsAsked.  An edit that read its row before anybody else wrote it still has *)
(* the row as stored, so the fields it keeps are those that were asked for.   *)
ReadAs(q) == q.pc = "updating" /\ q.id \notin q.seen => q.row = rows[q.id]
KnowsStored(q) ==
    /\ q.pc = "cascading" => \A i \in {q.id} \cup q.ids : Stored(i)
    /\ q.pc \in Linkers => rows[q.id].state # "unborn"

SameFields(i) ==
    Stored(i) => /\ asked[i].slug = rows[i].slug
                 /\ asked[i].up = rows[i].up
                 /\ asked[i].on = rows[i].on
SameLinks(i) == Stored(i) /\ Linking(i) = {} => asked[i].links \in {Unsure, LinksOf(i)}

\* A request is setting the links that are asked for: it is the only one, and
\* has deleted those there are.
Setting(r) ==
    LET q == req[r] IN
    q.pc \in Linkers /\ asked[q.id].links # Unsure =>
      /\ asked[q.id].links = q.ids
      /\ Linking(q.id) = {r}
      /\ q.pc = "relinking" => LinksOf(q.id) \subseteq q.found

AskedInv ==
    /\ asked \in [Ids -> Wish]
    /\ \A r \in Requests : ReadAs(req[r]) /\ KnowsStored(req[r]) /\ Setting(r)
    /\ \A i \in Ids : SameFields(i) /\ SameLinks(i)
    /\ \A l \in links : rows[l[1]].state # "unborn"

\* The rows S are written, the requests R change their stage, the others note it.
Noted(S, R) ==
    /\ table' = table
    /\ \A q \in Requests \ R :
         /\ req'[q].pc = req[q].pc /\ req'[q].id = req[q].id
         /\ req'[q].row = req[q].row /\ req'[q].ids = req[q].ids
         /\ req'[q].found = req[q].found
         /\ req[q].pc = "updating" /\ req[q].id \in S \cup req[q].seen =>
              req[q].id \in req'[q].seen

\* The links of row i, those asked of it and who sets them stay.
LinksKept(i) ==
    asked'[i].links = asked[i].links /\ LinksOf(i)' = LinksOf(i) /\ Linking(i)' = Linking(i)

\* Row i is, but for its deletion, and is asked to be as before.
Kept(i) ==
    /\ rows'[i].slug = rows[i].slug /\ rows'[i].up = rows[i].up /\ rows'[i].on = rows[i].on
    /\ Stored(i)' => Stored(i)
    /\ asked'[i] = asked[i]
    /\ LinksKept(i)

LEMMA AskedStep ==
    ASSUME IInv, AskedInv, NEW S \in SUBSET Ids, NEW R \in SUBSET Requests, Noted(S, R),
           asked' \in [Ids -> Wish],
           \A i \in Ids \ S : rows'[i] = rows[i],
           \A i \in Ids : rows[i].state # "unborn" => rows'[i].state # "unborn",
           \A i \in Ids : table[i] \in Cascaded /\ Stored(i) => Stored(i)',
           \A q \in R : ReadAs(req[q])' /\ KnowsStored(req[q])' /\ Setting(q)',
           \A i \in Ids : Kept(i) \/ (SameFields(i)' /\ SameLinks(i)'),
           \A q \in Requests \ R, i \in Ids : req[q].pc \in Linkers /\ req[q].id = i =>
             LinksKept(i) \/ asked'[i].links = Unsure,
           \A l \in links' : rows'[l[1]].state # "unborn"
    PROVE  AskedInv'
  <1>1. ASSUME NEW q \in Requests \ R
        PROVE  ReadAs(req[q])' /\ KnowsStored(req[q])' /\ Setting(q)'
    <2>1. ReadAs(req[q]) /\ KnowsStored(req[q]) /\ Setting(q) BY DEF AskedInv
    <2>2. StagedAs(req[q]) BY DEF IInv, Staged
    <2>3. ReadAs(req[q])' BY <2>1, <2>2 DEF Noted, ReadAs, StagedAs
    <2>4. req[q].pc = "cascading" =>
            \A i \in {req[q].id} \cup req[q].ids : i \in Ids /\ table[i] \in Cascaded
      BY <2>2 DEF StagedAs, Groups, Categories, Table, Cascaded
    <2>5. req[q].pc \in Linkers => req[q].id \in Ids
      BY <2>2 DEF StagedAs, Services, Table
    <2>6. KnowsStored(req[q])' BY <2>1, <2>4, <2>5 DEF Noted, KnowsStored
    <2>7. Setting(q)'
      <3>1. /\ req'[q].pc = req[q].pc /\ req'[q].id = req[q].id /\ req'[q].ids = req[q].ids
            /\ req'[q].found = req[q].found
        BY DEF Noted
      <3>2. CASE req[q].pc \notin Linkers BY <3>1, <3>2 DEF Setting
      <3>3. CASE req[q].pc \in Linkers
        <4>1. PICK s \in Ids : s = req[q].id BY <2>5, <3>3
        <4>2. CASE asked'[s].links = Unsure BY <3>1, <4>1, <4>2 DEF Setting
        <4>3. CASE LinksKept(s)
          BY <2>1, <3>1, <3>3, <4>1, <4>3 DEF Setting, LinksKept
        <4> QED BY <3>3, <4>1, <4>2, <4>3
      <3> QED BY <3>2, <3>3
    <2> QED BY <2>3, <2>6, <2>7
  <1>2. ASSUME NEW i \in Ids PROVE SameFields(i)' /\ SameLinks(i)'
    <2>1. CASE Kept(i)
      BY <2>1 DEF AskedInv, SameFields, SameLinks, Kept, LinksKept
    <2> QED BY <2>1
  <1> QED BY <1>1, <1>2 DEF AskedInv

LEMMA CrossNotes ==
    ASSUME IInv, NEW S \in SUBSET Ids, NEW R \in SUBSET Requests, table' = table,
           \A q \in Requests \ R : req'[q] = Cross(S)[q]
    PROVE  Noted(S, R)
  BY CrossFacts DEF IInv, Noted

\* Requests that set no links change: those that do go on.
LEMMA LinkersGoOn ==
    ASSUME NEW S, NEW R \in SUBSET Requests, Noted(S, R),
           \A q \in R : req[q].pc \notin Linkers /\ req'[q].pc \notin Linkers, NEW i
    PROVE  Linking(i)' = Linking(i)
  BY DEF Noted, Linking, Linkers

\* A request that sets links sets those of a service that was inserted.
LEMMA LinksAService ==
    ASSUME IInv, NEW q \in Requests, req[q].pc \in Linkers
    PROVE  req[q].id \in Ids /\ table[req[q].id] = "services" /\ q \in Linking(req[q].id)
  BY DEF IInv, Staged, StagedAs, Services, Table, Linking, Linkers

\* Steps that only move a request.
LEMMA AskedRequest ==
    ASSUME IInv, AskedInv, NEW r \in Requests, NEW x, req[r].pc = "idle",
           x.pc \notin Linkers,
           req' = [req EXCEPT ![r] = x], UNCHANGED <<table, rows, links, asked>>,
           ReadAs(x), KnowsStored(x)
    PROVE  AskedInv'
  <1>1. req'[r] = x /\ \A q \in Requests \ {r} : req'[q] = req[q]
    BY DEF IInv, Shaped
  <1>2. Noted({}, {r}) BY <1>1 DEF Noted
  <1>3. \A i : Linking(i)' = Linking(i) BY <1>1, <1>2, LinkersGoOn DEF Linkers
  <1>4. \A i : LinksKept(i) BY <1>3 DEF LinksKept, LinksOf
  <1>5. \A i \in Ids : Kept(i) BY <1>4 DEF Kept, Stored
  <1>6. ReadAs(req[r])' /\ KnowsStored(req[r])' /\ Setting(r)'
    BY <1>1 DEF ReadAs, KnowsStored, Stored, Setting
  <1>7. /\ \A i \in Ids : rows[i].state # "unborn" => rows'[i].state # "unborn"
        /\ \A i \in Ids : table[i] \in Cascaded /\ Stored(i) => Stored(i)'
        /\ \A l \in links' : rows'[l[1]].state # "unborn"
        /\ asked' \in [Ids -> Wish]
    BY DEF Stored, AskedInv
  <1> QED BY <1>2, <1>4, <1>5, <1>6, <1>7, AskedStep

LEMMA AskedLooks ==
    ASSUME IInv, AskedInv,
           Checks \/ Reads \/ \E r \in Requests : \E g \in Groups : BeginCascade(r, g)
    PROVE  AskedInv'
  <1>1. ASSUME Checks PROVE AskedInv'
    <2> PICK r \in Requests, k \in Kinds, s \in Slugs : CheckSlug(r, k, s)
      BY <1>1 DEF Checks
    <2> PICK found : req' = [req EXCEPT ![r] = [Idle EXCEPT !.pc = "creating", !.kind = k,
                               !.slug = s, !.id = found, !.ids = DeletedWith(k, s)]]
      BY DEF CheckSlug
    <2> DEFINE x == [Idle EXCEPT !.pc = "creating", !.kind = k, !.slug = s, !.id = found,
                                 !.ids = DeletedWith(k, s)]
    <2>1. x.pc = "creating" BY DEF Idle
    <2>2. req' = [req EXCEPT ![r] = x] OBVIOUS
    <2> HIDE DEF x
    <2> QED BY <2>1, <2>2, AskedRequest DEF ReadAs, KnowsStored, Linkers, CheckSlug
  <1>2. ASSUME Reads PROVE AskedInv'
    <2> PICK r \in Requests, i \in Ids : Read(r, i)
      BY <1>2 DEF Reads
    <2> DEFINE x == [Idle EXCEPT !.pc = "updating", !.id = i, !.kind = table[i],
                                 !.row = rows[i]]
    <2>1. x.pc = "updating" /\ x.id = i /\ x.row = rows[i] BY DEF Idle
    <2>2. req' = [req EXCEPT ![r] = x] BY DEF Read
    <2> HIDE DEF x
    <2> QED BY <2>1, <2>2, AskedRequest DEF ReadAs, KnowsStored, Linkers, Read
  <1>3. ASSUME NEW r \in Requests, NEW g \in Groups, BeginCascade(r, g) PROVE AskedInv'
    <2> DEFINE read == {c \in Live("categories") : rows[c].up = g}
               x == [Idle EXCEPT !.pc = "cascading", !.kind = "group_categories", !.id = g,
                                 !.ids = read]
    <2>1. x.pc = "cascading" /\ x.id = g /\ x.ids = read BY DEF Idle
    <2>2. \A i \in {g} \cup read : Stored(i) BY <1>3 DEF BeginCascade, Live, Stored
    <2>3. req' = [req EXCEPT ![r] = x] BY <1>3 DEF BeginCascade
    <2> HIDE DEF x, read
    <2> QED BY <1>3, <2>1, <2>2, <2>3, AskedRequest DEF ReadAs, KnowsStored, Linkers, BeginCascade
  <1> QED BY <1>1, <1>2, <1>3

\* The links of i are replaced, nobody else's.
LEMMA RelinkLinks ==
    ASSUME Shaped, NEW i \in Ids, NEW L \in SUBSET Ids, links' = Relink(i, L)
    PROVE  /\ LinksOf(i)' = L
           /\ \A j \in Ids \ {i} : LinksOf(j)' = LinksOf(j)
  <1>1. \A l \in links : l = <<l[1], l[2]>> /\ l[2] \in Ids BY DEF Shaped
  <1>2. \A l \in links' : l = <<l[1], l[2]>>
    BY <1>1 DEF Relink
  <1>3. \A l : l \in links' <=> \/ l \in links /\ l[1] # i
                                \/ l \in {i} \X L
    BY <1>1 DEF Relink
  <1>4. LinksOf(i)' = L
    <2>1. \A m \in L : <<i, m>> \in links' /\ <<i, m>>[1] = i /\ <<i, m>>[2] = m BY <1>3
    <2>2. \A l \in links' : l[1] = i => l[2] \in L BY <1>3
    <2> QED BY <2>1, <2>2 DEF LinksOf
  <1>5. \A j \in Ids \ {i} : LinksOf(j)' = LinksOf(j)
    <2>1. \A j \in Ids \ {i} : {l \in links' : l[1] = j} = {l \in links : l[1] = j} BY <1>3
    <2> QED BY <2>1 DEF LinksOf
  <1> QED BY <1>4, <1>5

LEMMA AskedPuts ==
    ASSUME IInv, AskedInv, Puts
    PROVE  AskedInv'
  <1> PICK r \in Requests, k \in Kinds \ {"services"}, new \in Row, L \in SUBSET Ids :
        \E i \in Table(k) : /\ req[r].pc \in {"idle", "creating"}
                            /\ Put(r, i, new, L) /\ new.state = "live"
    BY DEF Puts
  <1> PICK i \in Table(k) : /\ req[r].pc \in {"idle", "creating"}
                            /\ Put(r, i, new, L) /\ new.state = "live"
    OBVIOUS
  <1>1. /\ i \in Ids /\ table[i] # "services" /\ table' = table /\ rows'[i] = new
        /\ \A j \in Ids \ {i} : rows'[j] = rows[j]
    BY DEF Put, Table, IInv, Shaped
  <1>2. links' = Relink(i, L) BY DEF Put
  <1>3. LinksOf(i)' = L /\ \A j \in Ids \ {i} : LinksOf(j)' = LinksOf(j)
    BY <1>1, <1>2, RelinkLinks DEF IInv
  <1> DEFINE wish == [slug |-> new.slug, up |-> new.up, on |-> new.on, links |-> L]
  <1>4. wish \in Wish BY DEF Wish, Row
  <1>5. asked' = [asked EXCEPT ![i] = wish] BY DEF Put, Asks
  <1>6. wish.slug = new.slug /\ wish.up = new.up /\ wish.on = new.on /\ wish.links = L
    OBVIOUS
  <1> HIDE DEF wish
  <1>7. /\ asked' \in [Ids -> Wish] /\ asked'[i] = wish
        /\ \A j \in Ids \ {i} : asked'[j] = asked[j]
    BY <1>1, <1>4, <1>5 DEF AskedInv
  <1>8. req'[r] = Idle /\ \A q \in Requests \ {r} : req'[q] = Cross({i})[q]
    BY DEF Put, Ends, Cross
  <1>9. Noted({i}, {r}) BY <1>1, <1>8, CrossNotes
  <1>10. ReadAs(req[r])' /\ KnowsStored(req[r])' /\ Setting(r)'
    BY <1>8, IdleTyped DEF ReadAs, KnowsStored, Setting, Linkers
  <1>13. \A j : Linking(j)' = Linking(j)
    BY <1>8, <1>9, IdleTyped, LinkersGoOn DEF Linkers
  <1>14. Linking(i) = {} BY <1>1 DEF IInv, Staged, StagedAs, Services, Table, Linking, Linkers
  <1>15. \A j \in Ids \ {i} : LinksKept(j) BY <1>3, <1>7, <1>13 DEF LinksKept
  <1>11. ASSUME NEW j \in Ids PROVE Kept(j) \/ (SameFields(j)' /\ SameLinks(j)')
    <2>1. CASE j = i BY <1>1, <1>3, <1>6, <1>7, <2>1 DEF SameFields, SameLinks
    <2>2. CASE j # i
      BY <1>1, <1>7, <1>15, <2>2 DEF Kept, Stored
    <2> QED BY <2>1, <2>2
  <1>12. \A l \in links' : rows'[l[1]].state # "unborn"
    <2>1. \A l \in links' : (l[1] = i) \/ (l \in links /\ l[1] \in Ids \ {i})
      BY <1>2 DEF Relink, IInv, Shaped
    <2> QED BY <1>1, <2>1 DEF AskedInv
  <1>16. ASSUME NEW q \in Requests, NEW j \in Ids, req[q].pc \in Linkers, req[q].id = j
         PROVE  LinksKept(j)
    BY <1>14, <1>15, <1>16, LinksAService
  <1> QED BY <1>1, <1>7, <1>9, <1>10, <1>11, <1>12, <1>16, AskedStep DEF Stored

LEMMA AskedSaves ==
    ASSUME IInv, AskedInv, Saves
    PROVE  AskedInv'
  <1> PICK r \in Requests, stored \in SUBSET Ids, x \in Request :
        \E k, e, wanted : SavesAs(r, k, e, stored, wanted, x)
    BY DEF Saves
  <1> PICK k, e, wanted : SavesAs(r, k, e, stored, wanted, x)
    OBVIOUS
  <1> PICK i \in Ids : i = req[r].id
    BY DEF SavesAs, WriteBack, IInv, Staged, StagedAs
  <1> DEFINE new == [Edited(req[r].row, e) EXCEPT !.state = rows[i].state]
             from == IF Crossed(r) THEN new
                     ELSE [slug |-> Keep(e.slug, asked[i].slug), up |-> Keep(e.up, asked[i].up),
                           on |-> Keep(e.on, asked[i].on)]
             wish == [slug |-> from.slug, up |-> from.up, on |-> from.on, links |-> wanted]
  <1>1. /\ i \in Ids /\ table' = table /\ Stored(i) /\ req[r].pc = "updating"
        /\ req[r].row \in Row /\ rows[i] \in Row /\ asked[i] \in Wish
    BY DEF SavesAs, WriteBack, IInv, Staged, StagedAs, Shaped, Request, AskedInv
  <1>2. /\ rows' = [rows EXCEPT ![i] = new] /\ links' = Relink(i, stored)
        /\ asked' = [asked EXCEPT ![i] = wish]
    BY DEF SavesAs, WriteBack, Asks
  <1>3. /\ new.state = rows[i].state /\ new.slug = Keep(e.slug, req[r].row.slug)
        /\ new.up = Keep(e.up, req[r].row.up) /\ new.on = Keep(e.on, req[r].row.on)
    BY DEF Edited
  <1>4. ~Crossed(r) => /\ req[r].row = rows[i]
                       /\ asked[i].slug = rows[i].slug /\ asked[i].up = rows[i].up
                       /\ asked[i].on = rows[i].on
    BY <1>1 DEF Crossed, AskedInv, ReadAs, SameFields
  <1>5. from.slug = new.slug /\ from.up = new.up /\ from.on = new.on
    BY <1>3, <1>4
  <1>6. /\ wish.slug = new.slug /\ wish.up = new.up /\ wish.on = new.on
        /\ wish.links = wanted
    BY <1>5
  <1>7. new.slug \in Slugs \cup {None} /\ new.up \in Ids \cup {None} /\ new.on \in BOOLEAN
    <2>1. /\ e.slug \in Given(Slugs \cup {None}) /\ e.up \in Given(Ids)
          /\ e.on \in Given(BOOLEAN)
      BY DEF SavesAs, EditTyped, Given, ProjectTypes, Table
    <2> QED BY <1>1, <1>3, <2>1 DEF Given, Keep, Row
  <1>8. wanted \in SUBSET (Ids \cup {None})
    <2>1. x.ids \subseteq Ids BY DEF Request
    <2> QED BY <1>1, <2>1 DEF SavesAs, Wish, Unsure
  <1>9. wish \in Wish BY <1>5, <1>7, <1>8 DEF Wish
  <1> HIDE DEF new, from, wish
  <1>10. /\ rows'[i] = new /\ asked'[i] = wish /\ asked' \in [Ids -> Wish]
         /\ \A j \in Ids \ {i} : rows'[j] = rows[j] /\ asked'[j] = asked[j]
    BY <1>1, <1>2, <1>9 DEF IInv, Shaped, AskedInv
  <1>11. LinksOf(i)' = stored /\ \A j \in Ids \ {i} : LinksOf(j)' = LinksOf(j)
    BY <1>1, <1>2, RelinkLinks DEF IInv
  <1>12. req'[r] = x /\ \A q \in Requests \ {r} : req'[q] = Cross({i})[q]
    BY DEF SavesAs, Cross
  <1>13. Noted({i}, {r}) BY <1>1, <1>12, CrossNotes
  <1>14. ReadAs(req[r])' /\ KnowsStored(req[r])'
    <2>1. x.pc \in {"idle", "linking"} /\ (x.pc = "linking" => x.id = i) BY DEF SavesAs
    <2>2. rows'[i].state # "unborn" BY <1>1, <1>3, <1>10 DEF Stored
    <2> QED BY <1>12, <2>1, <2>2 DEF ReadAs, KnowsStored, Linkers
  <1>15. \A j : Linking(j)' = IF x.pc = "linking" /\ x.id = j THEN Linking(j) \cup {r}
                                                             ELSE Linking(j)
    <2>1. x.pc \in {"idle", "linking"} BY DEF SavesAs
    <2>2. \A q \in Requests \ {r} : req'[q].pc = req[q].pc /\ req'[q].id = req[q].id
      BY <1>13 DEF Noted
    <2> QED BY <1>1, <1>12, <2>1, <2>2 DEF Linking
  <1>16. SameFields(i)' BY <1>6, <1>10 DEF SameFields
  <1>17. SameLinks(i)'
    <2> SUFFICES ASSUME Linking(i)' = {} PROVE wanted \in {Unsure, stored}
      BY <1>6, <1>10, <1>11 DEF SameLinks
    <2>1. x.pc = "idle" /\ Linking(i) = {} BY <1>15 DEF SavesAs
    <2>2. asked[i].links \in {Unsure, LinksOf(i)} BY <1>1, <2>1 DEF AskedInv, SameLinks
    <2> QED BY <2>1, <2>2 DEF SavesAs
  <1>21. \A j \in Ids \ {i} : LinksKept(j)
    <2>1. x.pc = "linking" => x.id = i BY DEF SavesAs
    <2> QED BY <1>10, <1>11, <1>15, <2>1 DEF LinksKept
  <1>18. \A j \in Ids \ {i} : Kept(j)
    BY <1>10, <1>21 DEF Kept, Stored
  <1>22. Setting(r)'
    <2>1. CASE x.pc = "idle" BY <1>12, <2>1 DEF Setting, Linkers
    <2>2. CASE x.pc = "linking"
      <3>1. x.id = i /\ wanted = IF Linking(i) = {} THEN x.ids ELSE Unsure
        BY <2>2 DEF SavesAs
      <3>2. wanted # Unsure => wanted = x.ids /\ Linking(i)' = {r}
        BY <1>15, <2>2, <3>1
      <3>3. asked'[i].links = wanted BY <1>6, <1>10
      <3> QED BY <1>12, <2>2, <3>1, <3>2, <3>3 DEF Setting
    <2> QED BY <2>1, <2>2 DEF SavesAs
  <1>23. ASSUME NEW q \in Requests, NEW j \in Ids, req[q].pc \in Linkers, req[q].id = j
         PROVE  LinksKept(j) \/ asked'[j].links = Unsure
    <2>1. table[j] = "services" /\ Linking(j) # {} BY <1>23, LinksAService
    <2>2. CASE j # i BY <1>21, <2>2
    <2>3. CASE j = i /\ x.pc = "linking"
      <3>1. wanted = Unsure BY <2>1, <2>3 DEF SavesAs
      <3> QED BY <1>6, <1>10, <2>3, <3>1
    <2>4. CASE j = i /\ x.pc = "idle"
      <3>1. k = "services" BY <2>1, <2>4 DEF SavesAs, WriteBack, IInv, Staged, StagedAs
      <3>2. stored = LinksOf(i) /\ wanted = asked[i].links BY <2>4, <3>1 DEF SavesAs
      <3> QED BY <1>6, <1>10, <1>11, <1>15, <2>4, <3>2 DEF LinksKept
    <2> QED BY <2>2, <2>3, <2>4 DEF SavesAs
  <1>19. \A l \in links' : rows'[l[1]].state # "unborn"
    <2>1. \A l \in links' : (l[1] = i) \/ (l \in links /\ l[1] \in Ids \ {i})
      BY <1>2 DEF Relink, IInv, Shaped
    <2> QED BY <1>1, <1>3, <1>10, <2>1 DEF AskedInv, Stored
  <1>20. /\ \A j \in Ids : rows[j].state # "unborn" => rows'[j].state # "unborn"
         /\ \A j \in Ids : table[j] \in Cascaded /\ Stored(j) => Stored(j)'
    BY <1>3, <1>10 DEF Stored
  <1> QED BY <1>1, <1>10, <1>13, <1>14, <1>16, <1>17, <1>18, <1>19, <1>20, <1>22,
         <1>23, AskedStep

\* Categories K are unlinked from the types, in the tables and in what is asked.
LEMMA UnaskedFacts ==
    ASSUME Shaped, asked \in [Ids -> Wish], NEW K \in SUBSET Ids, table' = table,
           links' = links \ TypeLinks(K), asked' = Unasked(K)
    PROVE  /\ asked' \in [Ids -> Wish]
           /\ \A i \in Ids : /\ asked'[i].slug = asked[i].slug /\ asked'[i].up = asked[i].up
                             /\ asked'[i].on = asked[i].on
           /\ \A i \in Ids : asked[i].links \in {Unsure, LinksOf(i)} =>
                             asked'[i].links \in {Unsure, LinksOf(i)'}
           /\ \A i \in Ids : table[i] = "services" =>
                asked'[i].links = asked[i].links /\ LinksOf(i)' = LinksOf(i)
  <1> DEFINE gone(i) == IF table[i] = "project_type" THEN K ELSE {}
  <1>1. ASSUME NEW i \in Ids
        PROVE  /\ asked'[i] \in Wish /\ asked'[i].slug = asked[i].slug
               /\ asked'[i].up = asked[i].up /\ asked'[i].on = asked[i].on
               /\ asked'[i].links = asked[i].links \ gone(i)
    <2>1. asked[i] \in Wish OBVIOUS
    <2> QED BY <2>1 DEF Unasked, Wish
  <1>2. asked' = [i \in Ids |-> asked'[i]] BY DEF Unasked
  <1>3. ASSUME NEW i \in Ids PROVE LinksOf(i)' = LinksOf(i) \ gone(i)
    <2>1. \A l \in links : l = <<l[1], l[2]>> BY DEF Shaped
    <2>2. \A l : l \in links' /\ l[1] = i <=> l \in links /\ l[1] = i /\ l[2] \notin gone(i)
      BY DEF TypeLinks
    <2> QED BY <2>1, <2>2 DEF LinksOf
  <1>4. \A i \in Ids : Unsure \ gone(i) = Unsure BY TablesAssumption DEF Unsure
  <1>5. \A i \in Ids : table[i] = "services" => gone(i) = {} OBVIOUS
  <1>6. asked' \in [Ids -> Wish] BY <1>1, <1>2
  <1>7. ASSUME NEW i \in Ids
        PROVE  /\ asked[i].links \in {Unsure, LinksOf(i)} =>
                    asked'[i].links \in {Unsure, LinksOf(i)'}
               /\ table[i] = "services" =>
                    asked'[i].links = asked[i].links /\ LinksOf(i)' = LinksOf(i)
    <2> HIDE DEF gone
    <2>1. asked'[i].links = asked[i].links \ gone(i) /\ LinksOf(i)' = LinksOf(i) \ gone(i)
      BY <1>1, <1>3
    <2> QED BY <1>4, <1>5, <2>1
  <1> QED BY <1>1, <1>6, <1>7

LEMMA AskedDeletes ==
    ASSUME IInv, AskedInv, NEW S \in SUBSET Ids, NEW K \in SUBSET Ids,
           NEW R \in SUBSET Requests, Noted(S, R),
           \A q \in R : req[q].pc \notin Linkers /\ req'[q].pc \notin Linkers,
           \A q \in R : ReadAs(req[q])' /\ KnowsStored(req[q])',
           \A i \in S : Stored(i), rows' = MarkDeleted(S),
           links' = links \ TypeLinks(K), asked' = Unasked(K)
    PROVE  AskedInv'
  <1>1. table' = table /\ Shaped /\ asked \in [Ids -> Wish] BY DEF Noted, IInv, AskedInv
  <1>2. /\ asked' \in [Ids -> Wish]
        /\ \A i \in Ids : /\ asked'[i].slug = asked[i].slug /\ asked'[i].up = asked[i].up
                          /\ asked'[i].on = asked[i].on
        /\ \A i \in Ids : asked[i].links \in {Unsure, LinksOf(i)} =>
                          asked'[i].links \in {Unsure, LinksOf(i)'}
        /\ \A i \in Ids : table[i] = "services" =>
             asked'[i].links = asked[i].links /\ LinksOf(i)' = LinksOf(i)
    BY <1>1, UnaskedFacts
  <1>3. \A i \in Ids : /\ rows'[i].up = rows[i].up /\ rows'[i].slug = rows[i].slug
                       /\ rows'[i].on = rows[i].on
                       /\ rows'[i].state = IF i \in S THEN "deleted" ELSE rows[i].state
    BY <1>1, MarkDeletedFacts
  <1>4. \A i \in Ids \ S : rows'[i] = rows[i] BY DEF MarkDeleted
  <1>5. \A i \in Ids : Stored(i)' <=> Stored(i) BY <1>3 DEF Stored
  <1>6. \A i : Linking(i)' = Linking(i) BY LinkersGoOn
  <1>7. ASSUME NEW i \in Ids PROVE SameFields(i)' /\ SameLinks(i)'
    <2>1. SameFields(i) /\ SameLinks(i) BY DEF AskedInv
    <2>2. SameFields(i)' BY <1>2, <1>3, <1>5, <2>1 DEF SameFields
    <2> QED BY <1>2, <1>5, <1>6, <2>1, <2>2 DEF SameLinks
  <1>8. ASSUME NEW q \in Requests, NEW i \in Ids, req[q].pc \in Linkers, req[q].id = i
        PROVE  LinksKept(i)
    BY <1>2, <1>6, <1>8, LinksAService DEF LinksKept
  <1>9. \A l \in links' : rows'[l[1]].state # "unborn"
    BY <1>1, <1>3 DEF AskedInv, Shaped
  <1>10. \A q \in R : Setting(q)' BY DEF Setting
  <1> QED BY <1>2, <1>3, <1>4, <1>5, <1>7, <1>8, <1>9, <1>10, AskedStep

\* The statements that write one row and no link.
LEMMA AskedRow ==
    ASSUME IInv, AskedInv, NEW i \in Ids, table' = table, links' = links, req' = Cross({i}),
           \A j \in Ids \ {i} : rows'[j] = rows[j] /\ asked'[j] = asked[j],
           asked' \in [Ids -> Wish], rows'[i].state # "unborn",
           table[i] \in Cascaded => Stored(i)',
           table[i] = "services" => asked'[i].links = asked[i].links,
           \/ /\ rows'[i].slug = rows[i].slug /\ rows'[i].up = rows[i].up
              /\ rows'[i].on = rows[i].on /\ Stored(i) /\ asked'[i] = asked[i]
           \/ SameFields(i)' /\ (Stored(i)' => Stored(i) /\ asked'[i].links = asked[i].links)
    PROVE  AskedInv'
  <1>1. Noted({i}, {})
    <2>1. {i} \in SUBSET Ids /\ {} \in SUBSET Requests OBVIOUS
    <2>2. \A q \in Requests \ {} : req'[q] = Cross({i})[q] OBVIOUS
    <2> QED BY <2>1, <2>2, CrossNotes, SMTT(30)
  <1>2. \A j : Linking(j)' = Linking(j) BY <1>1, LinkersGoOn
  <1>3. \A j : LinksOf(j)' = LinksOf(j) BY DEF LinksOf
  <1>4. \A j \in Ids : asked'[j].links = asked[j].links => LinksKept(j)
    BY <1>2, <1>3 DEF LinksKept
  <1>5. ASSUME NEW j \in Ids PROVE Kept(j) \/ (SameFields(j)' /\ SameLinks(j)')
    <2>1. CASE j = i
      <3>1. SameLinks(i) BY DEF AskedInv
      <3> QED BY <1>2, <1>3, <1>4, <2>1, <3>1 DEF Kept, SameLinks
    <2>2. CASE j # i BY <1>4, <2>2 DEF Kept, Stored
    <2> QED BY <2>1, <2>2
  <1>6. ASSUME NEW q \in Requests, NEW j \in Ids, req[q].pc \in Linkers, req[q].id = j
        PROVE  LinksKept(j)
    BY <1>4, <1>6, LinksAService
  <1>7. \A l \in links' : rows'[l[1]].state # "unborn" BY DEF AskedInv, IInv, Shaped
  <1> QED BY <1>1, <1>5, <1>6, <1>7, AskedStep DEF Stored

LEMMA AskedStatement ==
    ASSUME IInv, AskedInv, Statement
    PROVE  AskedInv'
  <1>1. asked \in [Ids -> Wish] /\ rows \in [Ids -> Row] BY DEF AskedInv, IInv, Shaped
  <1>4. ASSUME NEW i \in Ids, table[i] \notin Cascaded, SoftDelete(i) PROVE AskedInv'
    <2>1. /\ rows'[i].up = rows[i].up /\ rows'[i].slug = rows[i].slug
          /\ rows'[i].on = rows[i].on /\ rows'[i].state = "deleted"
          /\ \A j \in Ids \ {i} : rows'[j] = rows[j]
      <3>1. rows' = MarkDeleted({i}) BY <1>4 DEF SoftDelete
      <3>2. \A j \in Ids \ {i} : rows'[j] = rows[j] BY <3>1 DEF MarkDeleted
      <3> QED BY <3>1, <3>2, MarkDeletedFacts DEF IInv
    <2>2. Stored(i) /\ Stored(i)' BY <1>4, <2>1 DEF SoftDelete, Stored
    <2> QED BY <1>1, <1>4, <2>1, <2>2, AskedRow DEF SoftDelete
  <1>5. ASSUME NEW i \in Ids, table[i] \notin Cascaded \cup {"services"}, Remove(i) PROVE AskedInv'
    <2>1. rows'[i].state = "gone" /\ \A j \in Ids \ {i} : rows'[j] = rows[j]
      BY <1>1, <1>5 DEF Remove
    <2>2. asked' \in [Ids -> Wish] /\ \A j \in Ids \ {i} : asked'[j] = asked[j]
      <3>1. [slug |-> None, up |-> None, on |-> FALSE, links |-> {}] \in Wish BY DEF Wish
      <3> QED BY <1>1, <1>5, <3>1 DEF Remove
    <2>3. ~Stored(i)' BY <2>1 DEF Stored
    <2>4. SameFields(i)' BY <2>3 DEF SameFields
    <2> QED BY <1>5, <2>1, <2>2, <2>3, <2>4, AskedRow DEF Remove
  <1>6. ASSUME NEW i \in Ids, Restore(i) PROVE AskedInv'
    <2>1. rows[i] \in Row /\ rows[i].state = "deleted" BY <1>1, <1>6 DEF Restore
    <2>2. /\ rows'[i].up = rows[i].up /\ rows'[i].slug = rows[i].slug
          /\ rows'[i].on = rows[i].on /\ rows'[i].state = "live"
          /\ \A j \in Ids \ {i} : rows'[j] = rows[j]
      BY <1>1, <1>6, <2>1 DEF Restore, Row
    <2>3. Stored(i) BY <2>1 DEF Stored
    <2> QED BY <1>1, <1>6, <2>2, <2>3, AskedRow DEF Restore, Stored
  <1>7. ASSUME NEW i \in Ids, NEW b \in BOOLEAN, Toggle(i, b) PROVE AskedInv'
    <2>1. rows[i] \in Row /\ asked[i] \in Wish /\ Stored(i) BY <1>1, <1>7 DEF Toggle
    <2>2. /\ rows'[i].up = rows[i].up /\ rows'[i].slug = rows[i].slug
          /\ rows'[i].on = b /\ rows'[i].state = rows[i].state
          /\ \A j \in Ids \ {i} : rows'[j] = rows[j]
      BY <1>1, <1>7, <2>1 DEF Toggle, Row
    <2>3. /\ asked'[i].up = asked[i].up /\ asked'[i].slug = asked[i].slug
          /\ asked'[i].on = b /\ asked'[i].links = asked[i].links
          /\ asked' \in [Ids -> Wish] /\ \A j \in Ids \ {i} : asked'[j] = asked[j]
      BY <1>1, <1>7, <2>1 DEF Toggle, Wish
    <2>4. SameFields(i)' BY <2>1, <2>2, <2>3 DEF AskedInv, SameFields
    <2> QED BY <1>7, <2>1, <2>2, <2>3, <2>4, AskedRow DEF Toggle, Stored
  <1>8. ASSUME NEW c \in Categories, DeleteCategory(c) PROVE AskedInv'
    <2>1. c \in Ids BY DEF Categories, Table
    <2>2. Noted({c}, {}) BY <1>8, <2>1, CrossNotes DEF DeleteCategory
    <2> QED BY <1>8, <2>1, <2>2, AskedDeletes DEF DeleteCategory
  <1>9. ASSUME NEW t \in ProjectTypes, DeleteProjectType(t) PROVE AskedInv'
    <2> DEFINE typed == {p \in Projects : rows[p].up = t}
    <2>1. /\ t \in Ids /\ t \notin typed /\ typed \subseteq Ids
          /\ table' = table /\ Stored(t)
      BY <1>9 DEF ProjectTypes, Projects, Table, DeleteProjectType
    <2>2. ASSUME NEW i \in Ids
          PROVE  /\ rows'[i].slug = rows[i].slug /\ rows'[i].on = rows[i].on
                 /\ rows'[i].up = IF i \in typed THEN None ELSE rows[i].up
                 /\ rows'[i].state = IF i = t THEN "deleted" ELSE rows[i].state
                 /\ i \notin {t} \cup typed => rows'[i] = rows[i]
      <3>1. rows[i] \in Row BY <1>1
      <3> QED BY <1>9, <2>1, <3>1 DEF DeleteProjectType, MarkDeleted, Row
    <2>3. ASSUME NEW i \in Ids
          PROVE  /\ asked'[i] \in Wish
                 /\ asked'[i].slug = asked[i].slug /\ asked'[i].on = asked[i].on
                 /\ asked'[i].up = IF i \in typed THEN None ELSE asked[i].up
                 /\ asked'[i].links = IF i = t THEN {} ELSE asked[i].links
                 /\ i \notin {t} \cup typed => asked'[i] = asked[i]
      <3>1. asked[i] \in Wish BY <1>1
      <3> QED BY <1>9, <2>1, <3>1 DEF DeleteProjectType, Wish
    <2>4. asked' \in [Ids -> Wish]
      <3>1. asked' = [i \in Ids |-> asked'[i]] BY <1>9 DEF DeleteProjectType
      <3> QED BY <2>3, <3>1
    <2>5. LinksOf(t)' = {} /\ \A j \in Ids \ {t} : LinksOf(j)' = LinksOf(j)
      BY <1>9, <2>1, RelinkLinks DEF DeleteProjectType, IInv
    <2>6. req' = Cross({t} \cup typed) BY <1>9 DEF DeleteProjectType
    <2>10. {t} \cup typed \in SUBSET Ids BY <2>1
    <2> HIDE DEF typed
    <2>11. Noted({t} \cup typed, {}) BY <2>1, <2>6, <2>10, CrossNotes
    <2>12. \A i : Linking(i)' = Linking(i) BY <2>11, LinkersGoOn
    <2>13. ASSUME NEW q \in Requests, NEW i \in Ids, req[q].pc \in Linkers, req[q].id = i
           PROVE  LinksKept(i)
      <3>1. i # t BY <2>13, LinksAService DEF ProjectTypes, Table
      <3> QED BY <2>3, <2>5, <2>12, <3>1 DEF LinksKept
    <2>7. \A i \in Ids : Stored(i)' <=> Stored(i) BY <2>1, <2>2 DEF Stored
    <2>8. ASSUME NEW i \in Ids PROVE SameFields(i)' /\ SameLinks(i)'
      <3>1. SameFields(i) /\ SameLinks(i) BY DEF AskedInv
      <3>2. SameFields(i)' BY <2>2, <2>3, <2>7, <3>1 DEF SameFields
      <3>3. SameLinks(i)' BY <2>3, <2>5, <2>7, <2>12, <3>1 DEF SameLinks
      <3> QED BY <3>2, <3>3
    <2>9. \A l \in links' : rows'[l[1]].state # "unborn"
      <3>1. \A l \in links' : l \in links /\ l[1] \in Ids
        BY <1>9 DEF DeleteProjectType, Relink, IInv, Shaped
      <3> QED BY <2>2, <3>1 DEF AskedInv
    <2> QED BY <2>2, <2>4, <2>11, <2>7, <2>8, <2>9, <2>10, <2>13, AskedStep
  <1> QED BY <1>4, <1>5, <1>6, <1>7, <1>8, <1>9 DEF Statement, Projects, Table

LEMMA AskedCommits ==
    ASSUME IInv, AskedInv, NEW r \in Requests, CommitCascade(r)
    PROVE  AskedInv'
  <1> PICK g \in Groups, ids \in SUBSET Categories : g = req[r].id /\ ids = req[r].ids
    BY DEF CommitCascade, IInv, Staged, StagedAs
  <1>1. {g} \cup ids \subseteq Ids /\ ids \subseteq Ids BY DEF Groups, Categories, Table
  <1>2. \A i \in {g} \cup ids : Stored(i) BY DEF CommitCascade, AskedInv, KnowsStored
  <1>3. /\ req[r].pc = "cascading" /\ rows' = MarkDeleted({g} \cup ids)
        /\ links' = links \ TypeLinks(ids) /\ asked' = Unasked(ids) /\ table' = table
        /\ req' = [Cross({g} \cup ids) EXCEPT ![r] = Idle]
    BY DEF CommitCascade, Ends
  <1>4. req'[r] = Idle /\ \A q \in Requests \ {r} : req'[q] = Cross({g} \cup ids)[q]
    BY <1>3 DEF Cross
  <1>5. Noted({g} \cup ids, {r}) BY <1>1, <1>3, <1>4, CrossNotes
  <1>6. ReadAs(req[r])' /\ KnowsStored(req[r])'
    BY <1>4, IdleTyped DEF ReadAs, KnowsStored, Linkers
  <1>7. /\ {g} \cup ids \in SUBSET Ids /\ ids \in SUBSET Ids /\ {r} \in SUBSET Requests
        /\ \A q \in {r} : /\ req[q].pc \notin Linkers /\ req'[q].pc \notin Linkers
                         /\ ReadAs(req[q])' /\ KnowsStored(req[q])'
    BY <1>1, <1>3, <1>4, <1>6, IdleTyped DEF Linkers
  <1> QED BY <1>2, <1>3, <1>5, <1>7, AskedDeletes

LEMMA AskedServices ==
    ASSUME IInv, AskedInv, NEW r \in Requests, CreateService(r)
    PROVE  AskedInv'
  <1> PICK row \in NewService, s \in Fresh("services"), L \in SUBSET StoredIn("categories") :
         /\ rows' = [rows EXCEPT ![s] = row]
         /\ Asks(s, row, L)
         /\ req' = IF L = {} THEN Cross({s})
                   ELSE [Cross({s}) EXCEPT ![r] =
                           [Idle EXCEPT !.pc = "linking", !.kind = "services",
                                        !.id = s, !.ids = L]]
    BY DEF CreateService
  <1>1. /\ s \in Ids /\ rows[s].state = "unborn" /\ table[s] \notin Cascaded /\ L \subseteq Ids
        /\ req[r].pc = "idle" /\ table' = table /\ links' = links
    BY DEF Fresh, Table, StoredIn, Cascaded, CreateService
  <1>2. row \in Row /\ row.state = "live"
    BY NewRowTyped DEF NewService, CreateServiceInput
  <1>3. rows'[s] = row /\ \A j \in Ids \ {s} : rows'[j] = rows[j]
    BY <1>1 DEF IInv, Shaped
  <1> DEFINE wish == [slug |-> row.slug, up |-> row.up, on |-> row.on, links |-> L]
  <1>4. /\ wish \in Wish /\ wish.slug = row.slug /\ wish.up = row.up /\ wish.on = row.on
        /\ wish.links = L
    BY <1>1, <1>2 DEF Wish, Row
  <1>5. asked' = [asked EXCEPT ![s] = wish] BY DEF Asks
  <1> HIDE DEF wish
  <1>6. /\ asked' \in [Ids -> Wish] /\ asked'[s] = wish
        /\ \A j \in Ids \ {s} : asked'[j] = asked[j]
    BY <1>1, <1>4, <1>5 DEF AskedInv
  <1>7. \A j \in Ids : LinksOf(j)' = LinksOf(j) BY <1>1 DEF LinksOf
  <1>8. LinksOf(s) = {} BY <1>1 DEF LinksOf, AskedInv
  <1>9. SameFields(s)' BY <1>3, <1>4, <1>6 DEF SameFields
  <1>10. \A l \in links' : rows'[l[1]].state # "unborn"
    BY <1>1, <1>2, <1>3 DEF AskedInv, IInv, Shaped
  <1>14. Linking(s) = {}
    <2>1. \A q \in Requests : req[q].pc \in Linkers => rows[req[q].id].state # "unborn"
      BY DEF AskedInv, KnowsStored
    <2> QED BY <1>1, <2>1 DEF Linking, Linkers
  <1>11. ASSUME NEW R \in SUBSET {r}, Noted({s}, R), SameLinks(s)',
                \A j \in Ids \ {s} : Linking(j)' = Linking(j),
                \A q \in R : ReadAs(req[q])' /\ KnowsStored(req[q])' /\ Setting(q)'
         PROVE  AskedInv'
    <2>1. R \in SUBSET Requests OBVIOUS
    <2>2. \A j \in Ids \ {s} : LinksKept(j) BY <1>6, <1>7, <1>11 DEF LinksKept
    <2>3. \A j \in Ids \ {s} : Kept(j) BY <1>3, <1>6, <2>2 DEF Kept, Stored
    <2>4. \A j \in Ids : table[j] \in Cascaded /\ Stored(j) => Stored(j)'
      BY <1>1, <1>3 DEF Stored
    <2>5. \A j \in Ids : rows[j].state # "unborn" => rows'[j].state # "unborn"
      BY <1>1, <1>3
    <2>6. {s} \in SUBSET Ids BY <1>1
    <2>7. ASSUME NEW q \in Requests, NEW j \in Ids, req[q].pc \in Linkers, req[q].id = j
          PROVE  LinksKept(j)
      BY <1>14, <2>2, <2>7, LinksAService
    <2> QED
      BY <1>3, <1>6, <1>9, <1>10, <1>11, <2>1, <2>3, <2>4, <2>5, <2>6, <2>7, AskedStep
  <1>12. CASE L = {}
    <2>1. Noted({s}, {}) BY <1>1, <1>12, CrossNotes
    <2>2. \A j : Linking(j)' = Linking(j) BY <2>1, LinkersGoOn
    <2>3. SameLinks(s)' BY <1>1, <1>4, <1>6, <1>7, <1>8, <1>12 DEF SameLinks
    <2> QED BY <1>11, <2>1, <2>2, <2>3
  <1>13. CASE L # {}
    <2> DEFINE x == [Idle EXCEPT !.pc = "linking", !.kind = "services", !.id = s, !.ids = L]
    <2>1. x.pc = "linking" /\ x.id = s /\ x.ids = L BY DEF Idle
    <2>2. req' = [Cross({s}) EXCEPT ![r] = x] BY <1>13
    <2> HIDE DEF x
    <2>3. req'[r] = x /\ \A q \in Requests \ {r} : req'[q] = Cross({s})[q]
      BY <2>2 DEF Cross
    <2>4. Noted({s}, {r}) BY <1>1, <2>3, CrossNotes
    <2>5. \A j : Linking(j)' = IF j = s THEN Linking(j) \cup {r} ELSE Linking(j)
      <3>1. \A q \in Requests \ {r} : req'[q].pc = req[q].pc /\ req'[q].id = req[q].id
        BY <2>4 DEF Noted
      <3>2. \A q \in Requests \ {r} :
              \A j : q \in Linking(j)' <=> q \in Linking(j)
        BY <3>1 DEF Linking
      <3>3. \A j : r \notin Linking(j) /\ (r \in Linking(j)' <=> j = s)
        BY <1>1, <2>1, <2>3 DEF Linking
      <3>4. \A j : Linking(j) \subseteq Requests /\ Linking(j)' \subseteq Requests
        BY DEF Linking
      <3> QED BY <3>2, <3>3, <3>4
    <2>6. SameLinks(s)' BY <2>5 DEF SameLinks
    <2>7. ReadAs(req[r])' /\ KnowsStored(req[r])'
      BY <1>2, <1>3, <2>1, <2>3 DEF ReadAs, KnowsStored
    <2>8. Setting(r)' BY <1>4, <1>6, <1>14, <2>1, <2>3, <2>5 DEF Setting
    <2> QED BY <1>11, <2>4, <2>5, <2>6, <2>7, <2>8
  <1> QED BY <1>12, <1>13

\* The DELETE of a service's links: nothing is committed yet.
LEMMA AskedClears ==
    ASSUME IInv, AskedInv, NEW r \in Requests, ClearCategories(r)
    PROVE  AskedInv'
  <1>1. req[r].pc = "linking" /\ req[r] \in Request /\ UNCHANGED <<table, rows, links, asked>>
    BY DEF ClearCategories, IInv, Shaped
  <1> PICK s \in Ids : s = req[r].id BY <1>1, LinksAService DEF Linkers
  <1>2. req' = [req EXCEPT ![r] = [req[r] EXCEPT !.pc = "relinking", !.found = LinksOf(s)]]
    BY DEF ClearCategories, IInv, Shaped
  <1>3. /\ req'[r].pc = "relinking" /\ req'[r].id = s /\ req'[r].ids = req[r].ids
        /\ req'[r].found = LinksOf(s)
        /\ \A q \in Requests \ {r} : req'[q] = req[q]
    BY <1>1, <1>2 DEF IInv, Shaped, Request
  <1>4. Noted({}, {r}) BY <1>1, <1>3 DEF Noted
  <1>5. \A i : Linking(i)' = Linking(i) BY <1>1, <1>3 DEF Linking
  <1>6. \A i : LinksOf(i)' = LinksOf(i) BY <1>1 DEF LinksOf
  <1>7. \A i \in Ids : LinksKept(i) BY <1>1, <1>5, <1>6 DEF LinksKept
  <1>8. \A i \in Ids : Kept(i) BY <1>1, <1>7 DEF Kept, Stored
  <1>9. ReadAs(req[r])' /\ KnowsStored(req[r])'
    <2>1. KnowsStored(req[r]) BY DEF AskedInv
    <2> QED BY <1>1, <1>3, <2>1 DEF ReadAs, KnowsStored, Linkers
  <1>10. Setting(r)'
    <2>1. Setting(r) BY DEF AskedInv
    <2>2. asked[s].links # Unsure => asked[s].links = req[r].ids /\ Linking(s) = {r}
      BY <1>1, <2>1 DEF Setting, Linkers
    <2> QED BY <1>1, <1>3, <1>5, <1>6, <2>2 DEF Setting
  <1>11. /\ \A j \in Ids : rows[j].state # "unborn" => rows'[j].state # "unborn"
         /\ \A j \in Ids : table[j] \in Cascaded /\ Stored(j) => Stored(j)'
         /\ \A l \in links' : rows'[l[1]].state # "unborn"
         /\ asked' \in [Ids -> Wish]
    BY <1>1 DEF Stored, AskedInv
  <1> QED BY <1>1, <1>4, <1>7, <1>8, <1>9, <1>10, <1>11, AskedStep

\* Their INSERT and COMMIT: a request that was alone leaves what it was sent.
LEMMA AskedLinks ==
    ASSUME IInv, AskedInv, NEW r \in Requests, SetCategories(r)
    PROVE  AskedInv'
  <1> PICK s \in Ids : s = req[r].id /\ table[s] = "services" BY SetCategoriesFacts
  <1> DEFINE R == Linking(s)
             left == (LinksOf(s) \ req[r].found) \cup req[r].ids
  <1>1. UNCHANGED <<table, rows, asked>> /\ req[r].pc = "relinking" /\ r \in R
    BY DEF SetCategories, Linking
  <1>2. /\ req'[r] = Idle
        /\ \A q \in Requests \ {r} :
             /\ req'[q].pc = req[q].pc /\ req'[q].id = req[q].id /\ req'[q].ids = req[q].ids
             /\ req'[q].row = req[q].row /\ req'[q].seen = req[q].seen
             /\ req[q].id # s => req'[q] = req[q]
    BY SetCategoriesFacts DEF Linking
  <1>3. \A l : l \in links' <=> \/ l \in links /\ l \notin {s} \X req[r].found
                                \/ l \in {s} \X req[r].ids
    BY DEF SetCategories
  <1>4. \A l \in links : l = <<l[1], l[2]>> BY DEF IInv, Shaped
  <1>5. LinksOf(s)' = left
    <2>1. \A l \in links' : l = <<l[1], l[2]>> BY <1>3, <1>4
    <2>2. \A j : <<s, j>> \in links' <=> j \in left
      <3>1. \A j : <<s, j>> \in links <=> j \in LinksOf(s) BY <1>4 DEF LinksOf
      <3> QED BY <1>3, <3>1
    <2>3. \A j : j \in LinksOf(s)' <=> <<s, j>> \in links' BY <2>1 DEF LinksOf
    <2> QED BY <2>2, <2>3
  <1>6. \A j \in Ids \ {s} : LinksOf(j)' = LinksOf(j)
    <2>1. \A j \in Ids \ {s} : {l \in links' : l[1] = j} = {l \in links : l[1] = j} BY <1>3
    <2> QED BY <2>1 DEF LinksOf
  <1>7. /\ \A j \in Ids \ {s} : Linking(j)' = Linking(j)
        /\ Linking(s)' = R \ {r}
    BY <1>2, IdleTyped DEF Linking
  <1> HIDE DEF left
  <1>8. Noted({}, R)
    <2>1. \A q \in Requests \ R : req'[q] = req[q]
      BY <1>1, SetCategoriesFacts
    <2> QED BY <1>1, <2>1 DEF Noted
  <1>9. ASSUME NEW q \in R PROVE ReadAs(req[q])' /\ KnowsStored(req[q])' /\ Setting(q)'
    <2>1. q \in Requests /\ req[q].pc \in Linkers /\ req[q].id = s
      BY DEF Linking, Linkers
    <2>2. CASE q = r BY <1>2, <2>2, IdleTyped DEF ReadAs, KnowsStored, Setting, Linkers
    <2>3. CASE q # r
      <3>1. asked[s].links = Unsure
        <4>1. Setting(q) BY <2>1 DEF AskedInv
        <4> QED BY <1>1, <2>1, <2>3, <4>1 DEF Setting
      <3>2. req'[q].pc \in Linkers /\ req'[q].id = s BY <1>2, <2>1, <2>3
      <3>3. KnowsStored(req[q]) BY <2>1 DEF AskedInv
      <3> QED BY <1>1, <2>1, <3>1, <3>2, <3>3 DEF ReadAs, KnowsStored, Setting, Linkers
    <2> QED BY <2>2, <2>3
  <1>10. SameFields(s)' /\ SameLinks(s)'
    <2>1. SameFields(s)' BY <1>1 DEF AskedInv, SameFields, Stored
    <2>2. CASE asked[s].links = Unsure BY <1>1, <2>1, <2>2 DEF SameLinks
    <2>3. CASE asked[s].links # Unsure
      <3>1. Setting(r) BY DEF AskedInv
      <3>2. asked[s].links = req[r].ids /\ LinksOf(s) \subseteq req[r].found
        BY <1>1, <2>3, <3>1 DEF Setting, Linkers
      <3>3. left = req[r].ids BY <3>2 DEF left
      <3> QED BY <1>1, <1>5, <2>1, <3>2, <3>3 DEF SameLinks
    <2> QED BY <2>1, <2>2, <2>3
  <1>11. \A j \in Ids \ {s} : LinksKept(j) BY <1>1, <1>6, <1>7 DEF LinksKept
  <1>12. \A j \in Ids \ {s} : Kept(j) BY <1>1, <1>11 DEF Kept, Stored
  <1>13. \A q \in Requests \ R, j \in Ids : req[q].pc \in Linkers /\ req[q].id = j => j # s
    BY DEF Linking, Linkers
  <1>14. \A l \in links' : rows'[l[1]].state # "unborn"
    <2>1. rows[s].state # "unborn"
      <3>1. KnowsStored(req[r]) BY DEF AskedInv
      <3> QED BY <1>1, <3>1 DEF KnowsStored, Linkers
    <2>2. \A l \in links' : l[1] = s \/ l \in links BY <1>3
    <2> QED BY <1>1, <2>1, <2>2 DEF AskedInv
  <1>15. /\ \A j \in Ids : rows'[j] = rows[j]
         /\ \A j \in Ids : table[j] \in Cascaded /\ Stored(j) => Stored(j)'
         /\ asked' \in [Ids -> Wish] /\ R \in SUBSET Requests
    BY <1>1 DEF Stored, AskedInv, Linking
  <1> HIDE DEF R
  <1> QED BY <1>8, <1>9, <1>10, <1>11, <1>12, <1>13, <1>14, <1>15, AskedStep

\* A request that was to set links and fails leaves those there are, and nobody
\* has asked for those.
LEMMA AskedAbandons ==
    ASSUME IInv, AskedInv, NEW r \in Requests, Abandon(r)
    PROVE  AskedInv'
  <1>1. UNCHANGED <<table, rows, links>> /\ req'[r] = Idle
        /\ \A q \in Requests \ {r} : req'[q] = req[q]
    BY DEF Abandon, IInv, Shaped
  <1>2. Noted({}, {r}) BY <1>1 DEF Noted
  <1>3. ReadAs(req[r])' /\ KnowsStored(req[r])' /\ Setting(r)'
    BY <1>1, IdleTyped DEF ReadAs, KnowsStored, Setting, Linkers
  <1>4. \A j : LinksOf(j)' = LinksOf(j) BY <1>1 DEF LinksOf
  <1>5. /\ \A l \in links' : rows'[l[1]].state # "unborn"
        /\ \A j \in Ids : table[j] \in Cascaded /\ Stored(j) => Stored(j)'
    BY <1>1 DEF AskedInv, Stored
  <1>6. CASE req[r].pc \notin Linkers
    <2>1. asked' = asked BY <1>6 DEF Abandon, Linkers
    <2>2. \A j : Linking(j)' = Linking(j) BY <1>1, <1>2, <1>6, IdleTyped, LinkersGoOn DEF Linkers
    <2>3. \A i \in Ids : LinksKept(i) BY <1>4, <2>1, <2>2 DEF LinksKept
    <2>4. \A i \in Ids : Kept(i) BY <1>1, <2>1, <2>3 DEF Kept, Stored
    <2>5. asked' \in [Ids -> Wish] BY <2>1 DEF AskedInv
    <2> QED BY <1>1, <1>2, <1>3, <1>5, <2>3, <2>4, <2>5, AskedStep
  <1>7. CASE req[r].pc \in Linkers
    <2> PICK s \in Ids : s = req[r].id BY <1>7, LinksAService
    <2>1. asked' = [asked EXCEPT ![s].links = Unsure] BY <1>7 DEF Abandon, Linkers
    <2>2. /\ asked' \in [Ids -> Wish] /\ asked'[s].links = Unsure
          /\ asked'[s].slug = asked[s].slug /\ asked'[s].up = asked[s].up
          /\ asked'[s].on = asked[s].on
          /\ \A j \in Ids \ {s} : asked'[j] = asked[j]
      <3>1. asked \in [Ids -> Wish] /\ asked[s] \in Wish BY DEF AskedInv
      <3> QED BY <2>1, <3>1 DEF Wish, Unsure
    <2>3. SameFields(s)' /\ SameLinks(s)'
      BY <1>1, <2>2 DEF AskedInv, SameFields, SameLinks, Stored
    <2>4. \A j \in Ids \ {s} : Linking(j)' = Linking(j)
      BY <1>1, IdleTyped DEF Linking
    <2>5. \A j \in Ids \ {s} : LinksKept(j) BY <1>4, <2>2, <2>4 DEF LinksKept
    <2>6. \A j \in Ids \ {s} : Kept(j) BY <1>1, <2>2, <2>5 DEF Kept, Stored
    <2> QED BY <1>1, <1>2, <1>3, <1>5, <2>2, <2>3, <2>5, <2>6, AskedStep
  <1> QED BY <1>6, <1>7

LEMMA AskedHolds == Spec => []AskedInv
  <1>1. Init => AskedInv
    <2> SUFFICES ASSUME Init PROVE AskedInv OBVIOUS
    <2>1. [slug |-> None, up |-> None, on |-> FALSE, links |-> {}] \in Wish BY DEF Wish
    <2>2. \A i \in Ids : ~Stored(i) BY DEF Init, Stored, Unborn
    <2>3. \A r \in Requests : req[r].pc = "idle" BY IdleTyped DEF Init
    <2>4. asked \in [Ids -> Wish] /\ links = {} BY <2>1 DEF Init
    <2> QED
      BY <2>2, <2>3, <2>4
         DEF AskedInv, ReadAs, KnowsStored, SameFields, SameLinks, Setting, Linkers
  <1>2. IInv /\ AskedInv /\ [Next]_vars => AskedInv'
    <2>1. AskedInv /\ UNCHANGED vars => AskedInv'
      BY DEF vars, AskedInv, ReadAs, KnowsStored, SameFields, SameLinks, Setting, Linking,
                LinksOf, Stored
    <2>2. IInv /\ AskedInv /\ Step => AskedInv'
      BY AskedLooks, AskedPuts, AskedSaves, AskedStatement, AskedCommits, AskedServices,
         AskedClears, AskedLinks, AskedAbandons DEF Step
    <2> QED BY <2>1, <2>2, NextSteps
  <1> QED BY <1>1, <1>2, IInvHolds, PTL DEF Spec

-----------------------------------------------------------------------------

\* Two creates of one deleted slug, from any table that revives rows: the second
\* waits at its FOR UPDATE, so that the row it overwrites is nobody else's and is
\* still the deleted one it found (category:164, project:470, news:202).
THEOREM Resurrection == Spec => []ResurrectsDeleted
  <1>1. IInv => ResurrectsDeleted
    <2> SUFFICES ASSUME IInv, NEW r \in Requests, req[r].pc = "creating", req[r].id # None
                 PROVE  /\ rows[req[r].id].state = "deleted"
                        /\ rows[req[r].id].slug = req[r].slug
                        /\ \A q \in Requests \ {r} :
                             req[q].pc = "creating" => req[q].id # req[r].id
      BY DEF ResurrectsDeleted
    <2>1. \A q \in Requests : req[q].pc = "creating" => req[q].id \in req[q].ids \cup {None}
      BY DEF IInv, Locked, HoldsAs
    <2>2. HoldsAs(req[r]) BY DEF IInv, Locked
    <2>3. \A q \in Requests \ {r} : Apart(req[r], req[q]) BY DEF IInv, Locked
    <2> QED BY <2>1, <2>2, <2>3 DEF HoldsAs, Apart
  <1> QED BY <1>1, IInvHolds, PTL

\* Deleting a group deletes its categories (group:215): whichever edits overlap it,
\* a live category is under a deleted group only if it was put there, or restored,
\* after the deletion read the group's categories.
THEOREM Cascade == Spec => []CascadeComplete
  <1>1. IInv => CascadeComplete
    <2> SUFFICES ASSUME IInv, NEW c \in CategoryList(None), GroupOf(c) \in Groups \ GroupList
                 PROVE  <<c, GroupOf(c)>> \in claimed
      BY DEF CascadeComplete
    <2>1. c \in Live("categories") BY DEF CategoryList
    <2>2. rows[GroupOf(c)].state # "live" BY DEF GroupList, Groups, Live
    <2>3. NotOrphaned(c) BY <2>1 DEF IInv, Released
    <2> QED BY <2>2, <2>3 DEF NotOrphaned, GroupOf
  <1> QED BY <1>1, IInvHolds, PTL

\* Whichever edits overlap: deleting a project type releases its projects, deleted
\* ones too, and its links to categories, deleting a category its links to project
\* types (project-type:397, category:237); what refers to a deleted type, or links a
\* type to a deleted category, was written after.
THEOREM Release == Spec => []TypeReleased
  <1>1. IInv => TypeReleased
    BY DEF IInv, Released, ProjectReleased, LinkReleased, TypeReleased
  <1> QED BY <1>1, IInvHolds, PTL

\* What is linked is linked by its row: the links of i are the pairs <<i, j>>.
LEMMA LinksAre ==
    ASSUME Shaped, NEW i, NEW j
    PROVE  j \in LinksOf(i) <=> <<i, j>> \in links
  <1>1. \A l \in links : l = <<l[1], l[2]>> BY DEF Shaped
  <1> QED BY <1>1 DEF LinksOf

\* An address finds one row.
LEMMA FoundOnce ==
    ASSUME SlugsUnique, NEW i \in Ids, rows[i].state = "live", "live" \in Indexed(table[i])
    PROVE  /\ At(table[i], rows[i].slug) = {i}
           /\ \A j \in Ids : /\ table[j] = table[i] /\ rows[j].state = "live"
                             /\ rows[j].slug = rows[i].slug
                             => j = i
  BY DEF SlugsUnique, At, Live, Table

\* For any site and any overlapping edits, every row of a public list opens, the
\* filters offered find what they name, and a project has its neighbours
\* (project-type:192, project:325, project:795, project:724).
THEOREM PagesOpen == Spec => []PageLinksOpen
  <1>1. IInv /\ SlugsUnique => PageLinksOpen
    <2> SUFFICES ASSUME IInv, SlugsUnique PROVE PageLinksOpen OBVIOUS
    <2>1. ASSUME NEW i \in UNION {GroupList, CategoryList(None), TypeList, Published(None),
                                  ServiceList, NewsList(None), PageList, BranchList,
                                  BrandList, HpPageList}
          PROVE  At(table[i], rows[i].slug) = {i}
      <3>1. /\ i \in Ids /\ rows[i].state = "live"
            /\ table[i] \in {"group_categories", "categories", "project_type", "projects",
                             "services", "news", "pages", "branches", "brands", "hp_pages"}
        BY <2>1 DEF GroupList, CategoryList, TypeList, Published, ServiceList, NewsList,
                    PageList, BranchList, BrandList, HpPageList, Live, Table
      <3>2. "live" \in Indexed(table[i])
        BY <3>1 DEF Indexed, PlainUnique, PartialUnique
      <3> QED BY <3>1, <3>2, FoundOnce
    <2>2. ASSUME NEW t \in TypeList, NEW c \in FilterChoices(t)
          PROVE  LET found == Filtered(t, "categories", rows[c].slug) IN
                 found # {} /\ \A p \in found : <<p, c>> \in links
      <3>1. /\ c \in Ids /\ table[c] = "categories" /\ rows[c].state = "live"
            /\ "live" \in Indexed(table[c])
        BY DEF FilterChoices, Live, Table, Indexed, PlainUnique, PartialUnique
      <3>2. PICK p \in Published(t) : <<p, c>> \in links
        BY DEF FilterChoices
      <3>3. p \in Filtered(t, "categories", rows[c].slug)
        BY <3>1, <3>2, LinksAre DEF Filtered, IInv
      <3>4. ASSUME NEW q \in Filtered(t, "categories", rows[c].slug)
            PROVE  <<q, c>> \in links
        <4>1. PICK i \in LinksOf(q) : /\ table[i] = "categories" /\ rows[i].slug = rows[c].slug
                                      /\ rows[i].state = "live"
          BY DEF Filtered
        <4>2. <<q, i>> \in links /\ i \in Ids
          BY LinksAre DEF IInv, Shaped
        <4>3. i = c
          BY <3>1, <4>1, <4>2, FoundOnce
        <4> QED BY <4>2, <4>3
      <3> QED BY <3>3, <3>4
    <2>3. ASSUME NEW p \in Published(None)
          PROVE  /\ \A i \in ProjectCategories(p) \cup ProjectServices(p) :
                      rows[i].state = "live" => p \in Filtered(rows[p].up, table[i], rows[i].slug)
                 /\ \A t \in Ids \cup {None} :
                      /\ Published(None) # {p}
                      /\ t \in {None, rows[p].up} \/ Cardinality(Published(t)) < 2
                      => Neighbours(t, p) # {}
      <3>1. p \in Published(rows[p].up)
        BY DEF Published
      <3>2. ASSUME NEW i \in ProjectCategories(p) \cup ProjectServices(p), rows[i].state = "live"
            PROVE  p \in Filtered(rows[p].up, table[i], rows[i].slug)
        BY <3>1, <3>2 DEF ProjectCategories, ProjectServices, Filtered
      <3>3. ASSUME NEW t \in Ids \cup {None}, Published(None) # {p},
                   t \in {None, rows[p].up} \/ Cardinality(Published(t)) < 2
            PROVE  Neighbours(t, p) # {}
        <4>1. Cardinality({p}) = 1 BY FS_Singleton
        <4>2. CASE Cardinality(Published(t)) < 2
          BY <2>3, <3>3, <4>2 DEF Siblings, Neighbours
        <4>3. CASE ~(Cardinality(Published(t)) < 2)
          <5>1. p \in Published(t) /\ Siblings(t) = Published(t)
            BY <2>3, <3>1, <3>3, <4>3 DEF Siblings
          <5>2. Published(t) # {p} BY <4>1, <4>3
          <5> QED BY <5>1, <5>2 DEF Neighbours
        <4> QED BY <4>2, <4>3
      <3> QED BY <3>2, <3>3
    <2> QED BY <2>1, <2>2, <2>3 DEF PageLinksOpen
  <1> QED BY <1>1, IInvHolds, UniqueHolds, PTL

\* Whichever edits of whichever tables overlap: a row holds what the staff last asked
\* it to hold, an edit having changed the fields it sent and no other, and a revived
\* row nothing of its former life (project:502, project-type:298); a service has the
\* links it was last sent, or those were the links of a transaction that failed or of
\* one that was not alone.
THEOREM Asked == Spec => []AsAsked
  <1>1. IInv /\ AskedInv => AsAsked
    <2> SUFFICES ASSUME IInv, AskedInv, NEW i \in Ids, Stored(i), Linking(i) = {}
                 PROVE  IsAsked(i)
      BY DEF AsAsked
    <2>1. SameFields(i) /\ SameLinks(i) BY DEF AskedInv
    <2> QED BY <2>1 DEF SameFields, SameLinks, IsAsked
  <1> QED BY <1>1, IInvHolds, AskedHolds, PTL

LEMMA ClaimTyped ==
    ASSUME claimed \subseteq Ids \X Ids, Step
    PROVE  claimed' \subseteq Ids \X Ids
  <1>1. \A new, dropped : Claim(new, dropped) => claimed' \subseteq Ids \X Ids BY DEF Claim
  <1>2. claimed' = claimed \/ \E new, dropped : Claim(new, dropped)
    <2>1. Checks \/ Reads => claimed' = claimed BY DEF Checks, Reads, CheckSlug, Read
    <2>2. Puts => \E new, dropped : Claim(new, dropped) BY DEF Puts, Put
    <2>3. Saves => \E new, dropped : Claim(new, dropped) BY DEF Saves, SavesAs, WriteBack
    <2>4. Statement => claimed' = claimed \/ \E new, dropped : Claim(new, dropped)
      BY DEF Statement, SoftDelete, Remove, Restore, Toggle, DeleteCategory, DeleteProjectType
    <2>5. \A r \in Requests :
            /\ Abandon(r) \/ CreateService(r) \/ ClearCategories(r) \/ SetCategories(r)
                 => claimed' = claimed
            /\ \A g \in Groups : BeginCascade(r, g) => claimed' = claimed
            /\ CommitCascade(r) => \E new, dropped : Claim(new, dropped)
      BY DEF Abandon, CreateService, ClearCategories, SetCategories, BeginCascade,
             CommitCascade
    <2> QED BY <2>1, <2>2, <2>3, <2>4, <2>5 DEF Step
  <1> QED BY <1>1, <1>2

\* Whatever is stored, remembered by a request or noted in the history has its type.
THEOREM TypeCorrect == Spec => []TypeOK
  <1> DEFINE ClaimedOK == claimed \subseteq Ids \X Ids
  <1>1. Init => ClaimedOK BY DEF Init
  <1>2. IInv /\ ClaimedOK /\ [Next]_vars => ClaimedOK' BY NextSteps, ClaimTyped DEF vars
  <1>3. IInv /\ AskedInv /\ ClaimedOK => TypeOK BY DEF IInv, Shaped, AskedInv, TypeOK
  <1> QED BY <1>1, <1>2, <1>3, IInvHolds, AskedHolds, PTL DEF Spec
=============================================================================
