------------------------------ MODULE Articles ------------------------------
(* The rows that hold no links: news, pages, branches, the questions of any   *)
(* owner, and the ways to contact the shop.                                   *)
EXTENDS Portfolio

News == Table("news")
Pages == Table("pages")
Branches == Table("branches")
FAQs == Table("faqs")
Contacts == Table("contacts")

-----------------------------------------------------------------------------
(* News: a category, which can be moved, not cleared. *)

CreateNewsInput == Body({None} \cup StoredIn("categories"))
NewNews == NewRows(CreateNewsInput)
CreateNews(r) == \E s \in Slugs : CheckSlug(r, "news", s)
StoreNews(r) == \E row \in NewNews : Revive(r, "news", row, {})

UpdateNewsInput == Edits(Slugs \cup {None}, StoredIn("categories"))
UpdateNews == Valid(UpdateNewsInput)
EditNews(r) == \E n \in News : Read(r, n)
SaveNews(r) == \E e \in UpdateNews : Save(r, "news", e, <<>>)

DeleteNews == \E n \in News : SoftDelete(n)
RestoreNews == \E n \in News : Restore(n)
\* The public list of one category, or of all.
NewsList(c) == {n \in Live("news") : rows[n].on /\ c \in {None, rows[n].up}}

-----------------------------------------------------------------------------
(* Pages: an edit sends the whole page. *)

CreatePageInput == Body({None})
NewPage == NewRows(CreatePageInput)
CreatePage(r) == \E row \in NewPage : Insert(r, "pages", row, {})

UpdatePageInput == [slug : {<<s>> : s \in Slugs \cup {None}}, up : {<<>>},
                    on : {<<b>> : b \in Flags}]
UpdatePage == Valid(UpdatePageInput)
EditPage(r) == \E p \in Pages : Read(r, p)

\* WHERE deleted_at IS NULL: a page deleted meanwhile is not found.
SavePage(r) ==
    /\ req[r].pc = "updating"
    /\ rows[req[r].id].state = "live"
    /\ \E e \in UpdatePage : Save(r, "pages", e, <<>>)

DeletePage == \E p \in Pages : SoftDelete(p)
RestorePage == \E p \in Pages : Restore(p)
PageList == {p \in Live("pages") : rows[p].on}

-----------------------------------------------------------------------------
(* Branches: deleted for good; dragging one writes back all its columns. *)

CreateBranchInput == Body({None})
NewBranch == NewRows(CreateBranchInput)
CreateBranch(r) == \E row \in NewBranch : Insert(r, "branches", row, {})

UpdateBranchInput == Edits(Slugs \cup {None}, {})
UpdateBranch == Valid(UpdateBranchInput)
EditBranch(r) == \E b \in Branches : Read(r, b)
SaveBranch(r) == \E e \in UpdateBranch : Save(r, "branches", e, <<>>)
UpdateBranchOrder(r) ==
    \E b \in BOOLEAN :
      Save(r, "branches", [slug |-> <<>>, up |-> <<>>, on |-> <<b>>], <<>>)

DeleteBranch == \E b \in Branches : Remove(b)
BranchList == {b \in Live("branches") : rows[b].on}

-----------------------------------------------------------------------------
(* Questions and contacts: no slug, deleted for good.  A question names its   *)
(* owner, and nothing checks that it is there.                                *)

Owners == {i \in Ids : /\ table[i] \notin {"project_type", "product_lines", "faqs", "contacts",
                                           "reviews", None}
                       /\ rows[i].state # "unborn"}
CreateFAQInput == [slug : {None}, up : Owners, on : BOOLEAN]
NewFAQ == {[state |-> "live", slug |-> None, up |-> in.up, on |-> in.on] :
             in \in CreateFAQInput}
CreateFAQ(r) == \E row \in NewFAQ : Insert(r, "faqs", row, {})

UpdateFAQInput == [slug : {<<>>}, up : {<<>>}, on : Given(BOOLEAN)]
EditFAQ(r) == \E f \in FAQs : Read(r, f)
SaveFAQ(r) == \E e \in UpdateFAQInput : Save(r, "faqs", e, <<>>)
DeleteFAQ == \E f \in FAQs : Remove(f)
\* On the page of its owner.
FAQList(i) == {f \in Live("faqs") : rows[f].on /\ rows[f].up = i}

CreateContactInput == [slug : {None}, up : {None}, on : BOOLEAN]
NewContact == {[state |-> "live", slug |-> None, up |-> None, on |-> in.on] :
                 in \in CreateContactInput}
CreateContact(r) == \E row \in NewContact : Insert(r, "contacts", row, {})

UpdateContactInput == [slug : {<<>>}, up : {<<>>}, on : Given(BOOLEAN)]
EditContact(r) == \E c \in Contacts : Read(r, c)
SaveContact(r) == \E e \in UpdateContactInput : Save(r, "contacts", e, <<>>)
DeleteContact == \E c \in Contacts : Remove(c)
ContactList == Live("contacts")

-----------------------------------------------------------------------------

ArticlesStep(r) ==
    \/ CreateNews(r) \/ EditNews(r) \/ CreatePage(r) \/ EditPage(r)
    \/ CreateBranch(r) \/ EditBranch(r) \/ CreateFAQ(r) \/ EditFAQ(r)
    \/ CreateContact(r) \/ EditContact(r)
    \/ req[r].pc = "creating" /\ StoreNews(r)
    \/ req[r].pc = "updating" /\ (SaveNews(r) \/ SavePage(r) \/ SaveBranch(r) \/ UpdateBranchOrder(r)
                                 \/ SaveFAQ(r) \/ SaveContact(r))
ArticlesStatement ==
    \/ DeleteNews \/ RestoreNews \/ DeletePage \/ RestorePage
    \/ DeleteBranch \/ DeleteFAQ \/ DeleteContact
=============================================================================
