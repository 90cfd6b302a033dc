----------------------------- MODULE Portfolio ------------------------------
(* Project types, projects and services: rows with join tables beside them,   *)
(* replaced in the transaction of the row, except a service's, which are set  *)
(* by a second one.                                                           *)
EXTENDS Taxonomy

ProjectTypes == Table("project_type")
Projects == Table("projects")
Services == Table("services")

\* What an edit says of a join table: nothing, or the whole new set (the empty
\* one is nothing new where there is no row to link).
Relinks(S) == IF S = {} THEN {<<>>} ELSE Given(SUBSET S)

-----------------------------------------------------------------------------
(* Project types: links to categories. *)

CreateProjectTypeInput == Body({None})
NewProjectType == NewRows(CreateProjectTypeInput)
CreateProjectType(r) == \E s \in Slugs : CheckSlug(r, "project_type", s)
StoreProjectType(r) ==
    \E row \in NewProjectType, L \in SUBSET StoredIn("categories") :
      Revive(r, "project_type", row, L)

UpdateProjectTypeInput == Edits(Slugs \cup {None}, {})
UpdateProjectType == Valid(UpdateProjectTypeInput)
EditProjectType(r) == \E t \in ProjectTypes : Read(r, t)
SaveProjectType(r) ==
    \E e \in UpdateProjectType, ls \in Relinks(StoredIn("categories")) :
      Save(r, "project_type", e, ls)

\* Mutant: deleted projects keep the type.
ReleaseLiveProjects(t) ==
    LET typed == {p \in Live("projects") : rows[p].up = t} IN
    /\ Stored(t)
    /\ \A i \in {t} \cup typed : Free(None, i)
    /\ rows' = [i \in Ids |-> IF i \in typed THEN [rows[i] EXCEPT !.up = None]
                              ELSE MarkDeleted({t})[i]]
    /\ links' = Relink(t, {})
    /\ asked' = [i \in Ids |-> IF i = t THEN [asked[i] EXCEPT !.links = {}]
                               ELSE IF i \in typed THEN [asked[i] EXCEPT !.up = None]
                               ELSE asked[i]]
    /\ Claim({}, Ids \X {t})
    /\ req' = Cross({t} \cup typed)
    /\ UNCHANGED table

\* Its projects lose their type, deleted ones too, and its links are deleted.
DeleteProjectType(t) ==
    LET typed == {p \in Projects : rows[p].up = t} IN
    /\ Stored(t)
    /\ \A i \in {t} \cup typed : Free(None, i)
    /\ rows' = [i \in Ids |-> IF i \in typed THEN [rows[i] EXCEPT !.up = None]
                              ELSE MarkDeleted({t})[i]]
    /\ links' = Relink(t, {})
    /\ asked' = [i \in Ids |-> IF i = t THEN [asked[i] EXCEPT !.links = {}]
                               ELSE IF i \in typed THEN [asked[i] EXCEPT !.up = None]
                               ELSE asked[i]]
    /\ Claim({}, Ids \X {t})
    /\ req' = Cross({t} \cup typed)
    /\ UNCHANGED table

TypeList == Live("project_type")
TypeCategories(t) == {c \in LinksOf(t) : rows[c].state = "live"}

-----------------------------------------------------------------------------
(* Projects: a type, links to categories and to services. *)

CreateProjectInput == Body({None} \cup StoredIn("project_type"))
NewProject == NewRows(CreateProjectInput)
CreateProject(r) == \E s \in Slugs : CheckSlug(r, "projects", s)
StoreProject(r) ==
    \E row \in NewProject, L \in SUBSET (StoredIn("categories") \cup StoredIn("services")) :
      Revive(r, "projects", row, L)

\* project_type_id can be moved, not cleared; either join table is replaced alone.
UpdateProjectInput == Edits(Slugs \cup {None}, StoredIn("project_type"))
UpdateProject == Valid(UpdateProjectInput)
EditProject(r) == \E p \in Projects : Read(r, p)

\* Mutant: a join table that is not sent is emptied.
SaveProjectSent(r) ==
    \E e \in UpdateProject, cs \in Relinks(StoredIn("categories")),
       ss \in Relinks(StoredIn("services")) :
      /\ WriteBack(r, "projects", e, Keep(cs, {}) \cup Keep(ss, {}),
                   IF cs = <<>> /\ ss = <<>> THEN asked[req[r].id].links
                   ELSE Keep(cs, asked[req[r].id].links \cap Categories)
                        \cup Keep(ss, asked[req[r].id].links \cap Services))
      /\ Ends(r, {req[r].id})

SaveProject(r) ==
    \E e \in UpdateProject, cs \in Relinks(StoredIn("categories")),
       ss \in Relinks(StoredIn("services")) :
      LET old == LinksOf(req[r].id)
          all == Keep(cs, old \cap Categories) \cup Keep(ss, old \cap Services) IN
      Save(r, "projects", e, IF cs = <<>> /\ ss = <<>> THEN <<>> ELSE <<all>>)

\* The join rows of a deleted project stay.
DeleteProject == \E p \in Projects : SoftDelete(p)
RestoreProject == \E p \in Projects : Restore(p)

\* One column, of the row as it is now: no copy is read.
Toggle(p, b) ==
    /\ Stored(p)
    /\ Free(None, p)
    /\ rows' = [rows EXCEPT ![p].on = b]
    /\ asked' = [asked EXCEPT ![p].on = b]
    /\ req' = Cross({p})
    /\ UNCHANGED <<table, links, claimed>>
TogglePublish == \E p \in Projects, b \in BOOLEAN : Toggle(p, b)

\* The public list of one type, or of all, and the part of it that a category's
\* or a service's slug filters; what a project is shown with, deleted or not.
Published(t) == {p \in Live("projects") : rows[p].on /\ t \in {None, rows[p].up}}
Filtered(t, k, slug) ==
    {p \in Published(t) : \E i \in LinksOf(p) : /\ table[i] = k
                                                /\ rows[i].slug = slug
                                                /\ rows[i].state = "live"}
ProjectCategories(p) == LinksOf(p) \cap Categories
ProjectServices(p) == LinksOf(p) \cap Services

\* Mutant: deleted categories too.
FilterChoicesStored(t) ==
    {c \in StoredIn("categories") : \E p \in Published(t) : <<p, c>> \in links}

\* The categories offered to filter a type's projects by.
FilterChoices(t) ==
    {c \in Live("categories") : \E p \in Published(t) : <<p, c>> \in links}

\* The previous and the next project of a page are taken from those of the type
\* the page asks for, or from all when they are fewer than two; a page that is
\* not among them has none.
Siblings(t) == IF Cardinality(Published(t)) < 2 THEN Published(None) ELSE Published(t)
Neighbours(t, p) == IF p \in Siblings(t) THEN Siblings(t) \ {p} ELSE {}

-----------------------------------------------------------------------------
(* Services: links to categories. *)

CreateServiceInput == Body({None})
NewService == NewRows(CreateServiceInput)

\* No row is revived: a deleted service's slug is taken.  The links follow in
\* a transaction of their own, if there are any.
CreateService(r) ==
    /\ req[r].pc = "idle"
    /\ \E row \in NewService, s \in Fresh("services"), L \in SUBSET StoredIn("categories") :
         /\ ~Taken("services", row.slug, None)
         /\ rows' = [rows EXCEPT ![s] = row]
         /\ Asks(s, row, L)
         /\ req' = IF L = {} THEN Cross({s})
                   ELSE [Cross({s}) EXCEPT ![r] =
                           [Idle EXCEPT !.pc = "linking", !.kind = "services",
                                        !.id = s, !.ids = L]]
    /\ UNCHANGED <<table, links, claimed>>

UpdateServiceInput == Edits(Slugs \cup {None}, {})
UpdateService == Valid(UpdateServiceInput)
EditService(r) == \E s \in Services : Read(r, s)
SaveService(r) ==
    \/ \E e \in UpdateService : Save(r, "services", e, <<>>)
    \/ \E e \in UpdateService, L \in SUBSET StoredIn("categories") :
         LET s == req[r].id IN
         /\ WriteBack(r, "services", e, LinksOf(s), IF Linking(s) = {} THEN L ELSE Unsure)
         /\ req' = [Cross({s}) EXCEPT ![r] =
                      [Idle EXCEPT !.pc = "linking", !.kind = "services",
                                   !.id = s, !.ids = L]]

\* DELETE of the links the statement sees: those committed when it starts.
ClearCategories(r) ==
    /\ req[r].pc = "linking"
    /\ req' = [req EXCEPT ![r].pc = "relinking", ![r].found = LinksOf(req[r].id)]
    /\ UNCHANGED <<table, rows, links, asked, claimed>>

\* INSERT ... ON CONFLICT DO NOTHING, and both commit; no lock is on the
\* service's row.  A link deleted by one transaction is not there to delete for
\* another that waited for it, one it inserted was not seen.
SetCategories(r) ==
    LET s == req[r].id IN
    /\ req[r].pc = "relinking"
    /\ links' = (links \ ({s} \X req[r].found)) \cup ({s} \X req[r].ids)
    /\ req' = [q \in Requests |->
                 IF q = r THEN Idle
                 ELSE IF q \in Linking(s) THEN [req[q] EXCEPT !.found = @ \ req[r].found]
                 ELSE req[q]]
    /\ UNCHANGED <<table, rows, asked, claimed>>

DeleteService == \E s \in Services : SoftDelete(s)
RestoreService == \E s \in Services : Restore(s)
ServiceList == {s \in Live("services") : rows[s].on}

-----------------------------------------------------------------------------

PortfolioStep(r) ==
    \/ CreateProjectType(r) \/ EditProjectType(r) \/ CreateProject(r) \/ EditProject(r)
    \/ CreateService(r) \/ EditService(r) \/ ClearCategories(r) \/ SetCategories(r)
    \/ req[r].pc = "creating" /\ (StoreProjectType(r) \/ StoreProject(r))
    \/ req[r].pc = "updating" /\ (SaveProjectType(r) \/ SaveProject(r) \/ SaveService(r))
PortfolioStatement ==
    \/ \E t \in ProjectTypes : DeleteProjectType(t)
    \/ DeleteProject \/ RestoreProject \/ TogglePublish
    \/ DeleteService \/ RestoreService
=============================================================================
