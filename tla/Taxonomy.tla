------------------------------ MODULE Taxonomy ------------------------------
(* Category groups and categories: deleting a group deletes the categories    *)
(* read under it, in a transaction of several statements; restoring it        *)
(* restores nothing else.                                                     *)
EXTENDS ContentTables

Groups == Table("group_categories")
Categories == Table("categories")
StoredIn(k) == {i \in Table(k) : Stored(i)}

-----------------------------------------------------------------------------
(* Groups. *)

CreateGroupInput == Body({None})
NewGroup == NewRows(CreateGroupInput)
CreateGroup(r) == \E s \in Slugs : CheckSlug(r, "group_categories", s)
StoreGroup(r) == \E row \in NewGroup : Revive(r, "group_categories", row, {})

UpdateGroupInput == Edits(Slugs \cup {None}, {})
UpdateGroup == Valid(UpdateGroupInput)
EditGroup(r) == \E g \in Groups : Read(r, g)
SaveGroup(r) == \E e \in UpdateGroup : Save(r, "group_categories", e, <<>>)

RestoreGroup == \E g \in Groups : Restore(g)
GroupList == Live("group_categories")

\* The links of project types to these categories are deleted with them.
TypeLinks(S) == {l \in links : table[l[1]] = "project_type" /\ l[2] \in S}
Unasked(S) == [i \in Ids |-> IF table[i] = "project_type"
                               THEN [asked[i] EXCEPT !.links = @ \ S] ELSE asked[i]]

\* The group's row is deleted, not yet committed, and its live categories read.
BeginCascade(r, g) ==
    /\ req[r].pc = "idle"
    /\ Stored(g)
    /\ Free(r, g)
    /\ req' = [req EXCEPT ![r] =
                 [Idle EXCEPT !.pc = "cascading", !.kind = "group_categories", !.id = g,
                              !.ids = {c \in Live("categories") : rows[c].up = g}]]
    /\ UNCHANGED <<table, rows, links, asked, claimed>>

\* Mutant: the categories lose their links and stay.
CommitUncascaded(r) ==
    LET g == req[r].id
        ids == req[r].ids IN
    /\ req[r].pc = "cascading"
    /\ rows' = MarkDeleted({g})
    /\ links' = links \ TypeLinks(ids)
    /\ asked' = Unasked(ids)
    /\ Claim({}, ((Categories \ req[r].seen) \X {g}) \cup (Ids \X ids))
    /\ Ends(r, {g} \cup ids)
    /\ UNCHANGED table

\* The categories read are deleted, wherever they are now, and all commits.
CommitCascade(r) ==
    LET g == req[r].id
        ids == req[r].ids IN
    /\ req[r].pc = "cascading"
    /\ \A c \in ids : Free(r, c)
    /\ rows' = MarkDeleted({g} \cup ids)
    /\ links' = links \ TypeLinks(ids)
    /\ asked' = Unasked(ids)
    /\ Claim({}, ((Categories \ req[r].seen) \X {g}) \cup (Ids \X ids))
    /\ Ends(r, {g} \cup ids)
    /\ UNCHANGED table

-----------------------------------------------------------------------------
(* Categories. *)

CreateCategoryInput == Body({None} \cup StoredIn("group_categories"))
NewCategory == NewRows(CreateCategoryInput)
CreateCategory(r) == \E s \in Slugs : CheckSlug(r, "categories", s)
StoreCategory(r) == \E row \in NewCategory : Revive(r, "categories", row, {})

\* group_id can be moved, not cleared.
UpdateCategoryInput == Edits(Slugs \cup {None}, StoredIn("group_categories"))
UpdateCategory == Valid(UpdateCategoryInput)
EditCategory(r) == \E c \in Categories : Read(r, c)
SaveCategory(r) == \E e \in UpdateCategory : Save(r, "categories", e, <<>>)

DeleteCategory(c) ==
    /\ Stored(c)
    /\ Free(None, c)
    /\ rows' = MarkDeleted({c})
    /\ links' = links \ TypeLinks({c})
    /\ asked' = Unasked({c})
    /\ Claim({}, Ids \X {c})
    /\ req' = Cross({c})
    /\ UNCHANGED table

RestoreCategory == \E c \in Categories : Restore(c)

\* The list, of one group or of all, and the group shown with a category: the
\* join asks nothing of the group's deleted_at.
CategoryList(g) == {c \in Live("categories") : g \in {None, rows[c].up}}
GroupOf(c) == rows[c].up

-----------------------------------------------------------------------------

TaxonomyStep(r) ==
    \/ CreateGroup(r) \/ EditGroup(r) \/ CreateCategory(r) \/ EditCategory(r)
    \/ req[r].pc = "creating" /\ (StoreGroup(r) \/ StoreCategory(r))
    \/ req[r].pc = "updating" /\ (SaveGroup(r) \/ SaveCategory(r))
    \/ \E g \in Groups : BeginCascade(r, g)
    \/ CommitCascade(r)
TaxonomyStatement ==
    \/ RestoreGroup
    \/ \E c \in Categories : DeleteCategory(c)
    \/ RestoreCategory
=============================================================================
