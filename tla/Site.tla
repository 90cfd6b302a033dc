-------------------------------- MODULE Site --------------------------------
(* The site's content under overlapping edits of the staff: every table of    *)
(* Taxonomy, Portfolio, Articles and Storefront, in one database.             *)
EXTENDS Storefront

Init ==
    /\ table \in Layouts
    /\ rows = [i \in Ids |-> Unborn]
    /\ links = {}
    /\ req = [r \in Requests |-> Idle]
    /\ asked = [i \in Ids |-> [slug |-> None, up |-> None, on |-> FALSE, links |-> {}]]
    /\ claimed = {}

Next ==
    \/ \E r \in Requests : 
         \/ TaxonomyStep(r) \/ PortfolioStep(r) \/ ArticlesStep(r) \/ StorefrontStep(r)
         \/ Abandon(r)
    \/ TaxonomyStatement
    \/ PortfolioStatement
    \/ ArticlesStatement
    \/ StorefrontStatement

Spec == Init /\ [][Next]_vars

-----------------------------------------------------------------------------

TypeOK ==
    /\ table \in [Ids -> Kinds \cup {None}]
    /\ rows \in [Ids -> Row]
    /\ links \subseteq Ids \X Ids
    /\ req \in [Requests -> Request]
    /\ asked \in [Ids -> Wish]
    /\ claimed \subseteq Ids \X Ids

\* "FOR UPDATE locks that row for the rest of this transaction so a second
\* concurrent Create for the same slug blocks here" (category:164, project:470,
\* news:202): a row found deleted is still deleted under that slug when it is
\* overwritten, and no two creates hold one row.
ResurrectsDeleted ==
    \A r \in Requests :
      req[r].pc = "creating" /\ req[r].id # None =>
        /\ rows[req[r].id].state = "deleted"
        /\ rows[req[r].id].slug = req[r].slug
        /\ \A q \in Requests \ {r} : req[q].pc = "creating" => req[q].id # req[r].id

\* Deleting a group deletes its categories (group:215), so that a category is
\* not shown under a deleted group (category/domain/types.go:46): one that is
\* was put there, or restored, after the group's categories were read.
CascadeComplete ==
    \A c \in CategoryList(None) :
      GroupOf(c) \in Groups \ GroupList => <<c, GroupOf(c)>> \in claimed

\* A deleted project type is no project's type and has no categories, and a
\* deleted category is no project type's (project-type:397, category:256), but
\* for what was written after the deletion.  What else refers to a category
\* (projects, services, news) keeps doing so: their queries leave it out.
TypeReleased ==
    /\ \A p \in Projects :
         rows[p].up # None /\ rows[rows[p].up].state = "deleted" => <<p, rows[p].up>> \in claimed
    /\ \A l \in links :
         /\ table[l[1]] = "project_type"
         /\ \E i \in {l[1], l[2]} : rows[i].state = "deleted"
         => l \in claimed

\* An edit changes the fields it sends, only those, and all of them: with no
\* other write between its read and its own, the row is what the staff asked
\* for last; a resurrected row keeps nothing of its former life, links included
\* (project:502, project-type:298).  A service's links, set by a transaction of
\* their own, are those last sent, unless that transaction failed or another
\* request was setting them too: then CategoriesReplaced says what is lost.
AsAsked ==
    \A i \in Ids : Stored(i) /\ Linking(i) = {} => IsAsked(i)

\* "SetCategories replaces the service's category links in one transaction"
\* (service:315), "an empty non-nil slice clears them" (service/domain/types.go:363):
\* what a committed request leaves is what it sent.
CategoriesReplaced ==
    [][\A r \in Requests, s \in Services :
         SetCategories(r) /\ req[r].id = s => LinksOf(s)' = req[r].ids]_vars

\* What a page shows opens and is right: every row of a public list is the one
\* its slug finds (project-type:192, project:325); a category offered as a
\* filter of a type's projects finds projects, all of that category
\* (project:795, 168); a live category or service that a published project is
\* shown with finds that project; and a project has a neighbour as soon as
\* another is published, unless its page asks for those of a type that is not
\* its own and has two (project:724).
PageLinksOpen ==
    /\ \A i \in UNION {GroupList, CategoryList(None), TypeList, Published(None),
                       ServiceList, NewsList(None), PageList, BranchList,
                       BrandList, HpPageList} :
         At(table[i], rows[i].slug) = {i}
    /\ \A t \in TypeList : \A c \in FilterChoices(t) :
         LET found == Filtered(t, "categories", rows[c].slug) IN
         found # {} /\ \A p \in found : <<p, c>> \in links
    /\ \A p \in Published(None) :
         /\ \A i \in ProjectCategories(p) \cup ProjectServices(p) :
              rows[i].state = "live" => p \in Filtered(rows[p].up, table[i], rows[i].slug)
         /\ \A t \in Ids \cup {None} :
              /\ Published(None) # {p}
              /\ t \in {None, rows[p].up} \/ Cardinality(Published(t)) < 2
              => Neighbours(t, p) # {}
=============================================================================
