--------------------------- MODULE ContentTables ---------------------------
(* The PostgreSQL tables of the site's content and what every repository does *)
(* with them: a row is created (a table may revive a soft-deleted row with    *)
(* the same slug), read and written back as a whole, deleted and restored,    *)
(* in transactions that overlap.  One definition per table and operation      *)
(* stands in Taxonomy, Portfolio, Articles and Storefront; Site composes them. *)
EXTENDS Naturals, FiniteSets

CONSTANTS Ids,       \* primary keys, of all tables
          Layouts,   \* the tables those keys belong to, each a function
          Slugs,
          Flags,     \* what a form may give the other fields of a row
          Requests,  \* HTTP requests of the staff
          None

VARIABLES table,     \* the table a key belongs to; never changes
          rows,      \* the row behind a key, committed
          links,     \* join tables and columns of several keys: <<owner, target>>
          req,       \* what a request in flight remembers
          asked,     \* history: what the staff last asked a row to be
          claimed    \* history: references written since their target's deletion

tables == <<table, rows, links>>
vars == <<table, rows, links, req, asked, claimed>>

Kinds == {"group_categories", "categories", "project_type", "projects",
          "services", "news", "pages", "branches", "faqs", "contacts",
          "brands", "hp_pages", "product_lines", "reviews"}
Table(k) == {i \in Ids : table[i] = k}

\* No key, slug or request is named None.
ASSUME TablesAssumption ==
    /\ Layouts \subseteq [Ids -> Kinds \cup {None}]
    /\ Flags \subseteq BOOLEAN
    /\ None \notin Ids \cup Slugs \cup Requests

\* slug UNIQUE, deleted rows included; or unique among live rows only.
PlainUnique == {"project_type", "projects", "services", "news"}
PartialUnique == {"group_categories", "categories", "pages", "branches", "brands", "hp_pages"}
Indexed(k) == CASE k \in PlainUnique -> {"live", "deleted"}
                [] k \in PartialUnique -> {"live"}
                [] OTHER -> {}

\* `up` is the one foreign key a row holds itself.  `on` stands for the fields
\* no reference or index is about: is_published where the table has it.
Row == [state : {"unborn", "live", "deleted", "gone"}, slug : Slugs \cup {None},
        up : Ids \cup {None}, on : BOOLEAN]
Unborn == [state |-> "unborn", slug |-> None, up |-> None, on |-> FALSE]
Stored(i) == rows[i].state \in {"live", "deleted"}
Live(k) == {i \in Table(k) : rows[i].state = "live"}
\* GetBySlug: what a public address finds.
At(k, s) == {i \in Live(k) : rows[i].slug = s}

\* `links` is Unsure once a request that was to set them failed, or was not
\* the only one that was to.
Wish == [slug : Slugs \cup {None}, up : Ids \cup {None}, on : BOOLEAN,
         links : SUBSET (Ids \cup {None})]
Unsure == {None}
LinksOf(i) == {l[2] : l \in {x \in links : x[1] = i}}
IsAsked(i) == /\ asked[i].slug = rows[i].slug
              /\ asked[i].up = rows[i].up
              /\ asked[i].on = rows[i].on
              /\ asked[i].links \in {Unsure, LinksOf(i)}

\* A request: the row it read or locked, the other keys it holds (`ids`), the
\* links it has deleted and not yet committed (`found`), and the rows others
\* wrote meanwhile (`seen`, history).
Stages == {"idle", "creating", "updating", "cascading", "linking", "relinking"}
Linking(i) == {r \in Requests : req[r].pc \in {"linking", "relinking"} /\ req[r].id = i}
Request == [pc : Stages, kind : Kinds \cup {None}, slug : Slugs \cup {None},
            id : Ids \cup {None}, row : Row, ids : SUBSET Ids, found : SUBSET Ids,
            seen : SUBSET Ids]
Idle == [pc |-> "idle", kind |-> None, slug |-> None, id |-> None,
         row |-> Unborn, ids |-> {}, found |-> {}, seen |-> {}]

-----------------------------------------------------------------------------
(* What the database adds. *)

\* Row locks held to the end of a transaction: FOR UPDATE, or a delete's own row.
Holds(q) == CASE req[q].pc = "creating" -> req[q].ids
              [] req[q].pc = "cascading" -> {req[q].id}
              [] OTHER -> {}
Free(r, i) == \A q \in Requests \ {r} : i \notin Holds(q)

\* The unique index has the slug for another row than i.
Taken(k, s, i) == \E j \in Table(k) \ {i} : /\ rows[j].slug = s
                                            /\ rows[j].state \in Indexed(k)

-----------------------------------------------------------------------------
(* History: what no statement reads. *)

Watched(q) == IF req[q].pc = "cascading" THEN Table("categories") ELSE {req[q].id}
Cross(S) == [q \in Requests |->
               IF req[q].pc \in {"updating", "cascading"}
                 THEN [req[q] EXCEPT !.seen = @ \cup (S \cap Watched(q))]
                 ELSE req[q]]
Crossed(r) == req[r].id \in req[r].seen
Ends(r, S) == req' = [Cross(S) EXCEPT ![r] = Idle]

Claim(new, dropped) ==
    claimed' = ((claimed \ dropped) \cup new) \cap (Ids \X Ids)
               \cap ({<<i, rows'[i].up>> : i \in Ids} \cup links')
Asks(i, row, L) ==
    asked' = [asked EXCEPT ![i] = [slug |-> row.slug, up |-> row.up,
                                   on |-> row.on, links |-> L]]

-----------------------------------------------------------------------------
(* The statements the repositories share. *)

DeletedWith(k, s) == {i \in Table(k) : rows[i].state = "deleted" /\ rows[i].slug = s}

\* Mutant: without FOR UPDATE.
CheckSlugUnlocked(r, k, s) ==
    /\ req[r].pc = "idle"
    /\ \E found \in IF DeletedWith(k, s) = {} THEN {None} ELSE DeletedWith(k, s) :
         req' = [req EXCEPT ![r] = [Idle EXCEPT !.pc = "creating", !.kind = k,
                                                !.slug = s, !.id = found]]
    /\ UNCHANGED <<table, rows, links, asked, claimed>>

\* SELECT id ... WHERE slug AND deleted_at IS NOT NULL FOR UPDATE: locks every
\* such row, waiting for whoever holds one, and reads the first.
CheckSlug(r, k, s) ==
    /\ req[r].pc = "idle"
    /\ \A i \in DeletedWith(k, s) : Free(r, i)
    /\ \E found \in IF DeletedWith(k, s) = {} THEN {None} ELSE DeletedWith(k, s) :
         req' = [req EXCEPT ![r] = [Idle EXCEPT !.pc = "creating", !.kind = k,
                                                !.slug = s, !.id = found,
                                                !.ids = DeletedWith(k, s)]]
    /\ UNCHANGED <<table, rows, links, asked, claimed>>

Relink(i, L) == (links \ ({i} \X Ids)) \cup ({i} \X L)

\* The row i becomes `new` with links to L, and the request commits.
Put(r, i, new, L) ==
    /\ Free(r, i)
    /\ rows' = [rows EXCEPT ![i] = new]
    /\ links' = Relink(i, L)
    /\ Asks(i, new, L)
    /\ Claim({<<i, new.up>>} \cup ({i} \X L), {})
    /\ Ends(r, {i})
    /\ UNCHANGED table

Fresh(k) == {i \in Table(k) : rows[i].state = "unborn"}

\* After CheckSlug: UPDATE the row found, or INSERT one.
Revive(r, k, new, L) ==
    /\ req[r].pc = "creating"
    /\ req[r].kind = k
    /\ new.slug = req[r].slug
    /\ ~Taken(k, new.slug, req[r].id)
    /\ \E i \in IF req[r].id = None THEN Fresh(k) ELSE {req[r].id} :
         Put(r, i, new, L)

\* A plain INSERT.
Insert(r, k, new, L) ==
    /\ req[r].pc = "idle"
    /\ ~Taken(k, new.slug, None)
    /\ \E i \in Fresh(k) : Put(r, i, new, L)

\* GetByID, the first statement of every edit: only a live row is found.
Read(r, i) ==
    /\ req[r].pc = "idle"
    /\ rows[i].state = "live"
    /\ req' = [req EXCEPT ![r] = [Idle EXCEPT !.pc = "updating", !.id = i,
                                              !.kind = table[i], !.row = rows[i]]]
    /\ UNCHANGED <<table, rows, links, asked, claimed>>

\* A creating request's body, where None is a blank slug; the rows a
\* constructor makes of the bodies it accepts.
Body(ups) == [slug : Slugs \cup {None}, up : ups, on : Flags]
NewRows(inputs) == {[state |-> "live", slug |-> in.slug, up |-> in.up, on |-> in.on] :
                      in \in {x \in inputs : x.slug # None}}

\* An edit's body: a field that is absent keeps what was read.
Given(set) == {<<>>} \cup {<<x>> : x \in set}
Keep(e, old) == IF e = <<>> THEN old ELSE e[1]
Edits(slugs, ups) == [slug : Given(slugs), up : Given(ups), on : Given(Flags)]
Valid(edits) == {e \in edits : e.slug # <<None>>}
Edited(row, e) == [state |-> row.state, slug |-> Keep(e.slug, row.slug),
                   up |-> Keep(e.up, row.up), on |-> Keep(e.on, row.on)]

\* UPDATE ... SET every column WHERE id: the columns come from the copy read,
\* deleted_at is not among them.  stored: the links after it, wanted: those
\* the staff asks for.
WriteBack(r, k, e, stored, wanted) ==
    LET i == req[r].id
        new == [Edited(req[r].row, e) EXCEPT !.state = rows[i].state] IN
    /\ req[r].pc = "updating"
    /\ req[r].kind = k
    /\ Stored(i)
    /\ Free(r, i)
    /\ new.state \in Indexed(k) => ~Taken(k, new.slug, i)
    /\ rows' = [rows EXCEPT ![i] = new]
    /\ links' = Relink(i, stored)
    /\ Asks(i, IF Crossed(r) THEN new ELSE
                [slug |-> Keep(e.slug, asked[i].slug), up |-> Keep(e.up, asked[i].up),
                 on |-> Keep(e.on, asked[i].on)], wanted)
    /\ Claim({<<i, new.up>>} \cup (({i} \X stored) \ links), {})
    /\ UNCHANGED table

\* With the links to replace, if any were sent, and the request's end.
Save(r, k, e, ls) ==
    LET i == req[r].id
        L == Keep(ls, LinksOf(i)) IN
    /\ WriteBack(r, k, e, L, Keep(ls, asked[i].links))
    /\ Ends(r, {i})

\* UPDATE ... SET deleted_at = now WHERE id, whether deleted already or not.
MarkDeleted(S) == [i \in Ids |-> IF i \in S THEN [rows[i] EXCEPT !.state = "deleted"]
                                 ELSE rows[i]]
SoftDelete(i) ==
    /\ rows[i].state = "live"
    /\ Free(None, i)
    /\ rows' = MarkDeleted({i})
    /\ req' = Cross({i})
    /\ UNCHANGED <<table, links, asked, claimed>>

\* UPDATE ... SET deleted_at = NULL WHERE id.
Restore(i) ==
    /\ rows[i].state = "deleted"
    /\ Free(None, i)
    /\ ~Taken(table[i], rows[i].slug, i)
    /\ rows' = [rows EXCEPT ![i].state = "live"]
    /\ UNCHANGED <<table, links, asked>>
    /\ Claim({<<i, rows[i].up>>}, {})
    /\ req' = Cross({i})

\* DELETE FROM ... WHERE id.
Remove(i) ==
    /\ rows[i].state = "live"
    /\ rows' = [rows EXCEPT ![i] = [Unborn EXCEPT !.state = "gone"]]
    /\ asked' = [asked EXCEPT ![i] = [slug |-> None, up |-> None, on |-> FALSE,
                                      links |-> {}]]
    /\ UNCHANGED <<table, links>>
    /\ Claim({}, {})
    /\ req' = Cross({i})

\* A statement fails, a row is not found, a slug is refused, the client leaves:
\* the transaction rolls back.  What an earlier one of the request committed
\* stays.
Abandon(r) ==
    /\ req[r].pc # "idle"
    /\ req' = [req EXCEPT ![r] = Idle]
    /\ asked' = IF req[r].pc \in {"linking", "relinking"}
                  THEN [asked EXCEPT ![req[r].id].links = Unsure] ELSE asked
    /\ UNCHANGED <<table, rows, links, claimed>>
=============================================================================
