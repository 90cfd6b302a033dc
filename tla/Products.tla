------------------------------ MODULE Products ------------------------------
(***************************************************************************)
(* The product catalogue: the review workflow, edits, the variant tree and *)
(* its display cache, the attribute values (internal/product).             *)
(*                                                                         *)
(* Every use case but delete and restore reads the product, changes its    *)
(* copy, and writes the whole row back WHERE id; nothing holds the row     *)
(* in between, so requests interleave there.  The write is a transaction   *)
(* whose first statement locks the row, and is one action.                 *)
(***************************************************************************)
EXTENDS VariantTree

CONSTANTS
    Products,    \* identities of products, used or not
    Requests,    \* requests in flight
    Categories,
    Attributes,  \* attribute definitions, which stay as they are
    Applicable,  \* the attributes that apply to a category ...
    Required,    \* ... and those of them that a product of it must have
    Trees        \* the variant trees that requests send

ASSUME AttributesAssumption ==
    /\ Applicable \in [Categories -> SUBSET Attributes]
    /\ Required \in [Categories -> SUBSET Attributes]
    /\ \A c \in Categories : Required[c] \subseteq Applicable[c]

ASSUME TreesAssumption == Trees \subseteq Seq(Variant)

VARIABLES
    row,      \* products: workflow status, rejection note, category
    deleted,  \* products with deleted_at
    values,   \* product_attribute_values: the attributes a product has
    tree,     \* product_variants
    display,  \* the display cache columns
    req,      \* what each request holds
    approved, \* products that an approval has been stored for (history)
    crossed   \* products that two requests held at once (history)

vars == <<row, deleted, values, tree, display, req, approved, crossed>>

Statuses == {"draft", "proposed", "published", "archived"}

Row == [status : Statuses, noted : BOOLEAN, category : Categories]
NoRow == [status |-> "none"]

Stored(p) == row[p] # NoRow

\* The transition methods of Product: from, to, and whether the note stays.
Workflow == [submit    |-> [from |-> "draft", to |-> "proposed"],
             approve   |-> [from |-> "proposed", to |-> "published"],
             reject    |-> [from |-> "proposed", to |-> "draft"],
             archive   |-> [from |-> "published", to |-> "archived"],
             unarchive |-> [from |-> "archived", to |-> "published"]]
Decisions == DOMAIN Workflow

KeepsNote(op, noted) == op = "reject" \/ noted
NotedAfter(op, noted) == op = "reject" \/ (op # "approve" /\ noted)

Decided(op, r) == [r EXCEPT !.status = Workflow[op].to,
                            !.noted = NotedAfter(op, r.noted)]

UnarchivesAny(op, r) == op = "unarchive" \/ r.status = Workflow[op].from
MayDecide(op, r) == r.status = Workflow[op].from

\* validateAttributeValues, of the values sent or else of those the product has.
Fits(c, xs) == xs \subseteq Applicable[c] /\ Required[c] \subseteq xs

AcceptsTree(vs) == Resolvable(vs) /\ ValidPrices(vs)

\* A field that an update leaves out is nil.
Nil == <<>>
Optional(S) == {Nil} \cup {<<x>> : x \in S}
Sent(x, old) == IF x = Nil THEN old ELSE x[1]

Idle == [pc |-> "idle"]
Request == [pc : {"check", "save"}, op : Decisions \cup {"edit"}, of : Products, row : Row,
            values : Seq(SUBSET Attributes), tree : Seq(Seq(Variant))]

NoDisplay == DisplayCache(<<>>)

-----------------------------------------------------------------------------
Init ==
    /\ row = [p \in Products |-> NoRow]
    /\ deleted = {}
    /\ values = [p \in Products |-> {}]
    /\ tree = [p \in Products |-> <<>>]
    /\ display = [p \in Products |-> NoDisplay]
    /\ req = [a \in Requests |-> Idle]
    /\ approved = {}
    /\ crossed = {}

StoreTree(p, vs) ==
    /\ tree' = [tree EXCEPT ![p] = vs]
    /\ display' = [display EXCEPT ![p] = DisplayCache(vs)]

\* CreateProduct: one transaction, always a draft.
Create(p) ==
    /\ ~Stored(p)
    /\ \E c \in Categories, vs \in Trees, xs \in SUBSET Attributes :
         /\ AcceptsTree(vs) /\ Fits(c, xs)
         /\ row' = [row EXCEPT ![p] = [status |-> "draft", noted |-> FALSE, category |-> c]]
         /\ values' = [values EXCEPT ![p] = xs]
         /\ StoreTree(p, ResolveDefaultVariant(vs))
    /\ UNCHANGED <<deleted, req, approved, crossed>>

Readable(a, p) == req[a] = Idle /\ Stored(p) /\ p \notin deleted

Crosses(p) == crossed' = IF \E b \in Requests : req[b] # Idle /\ req[b].of = p
                         THEN crossed \cup {p} ELSE crossed

\* SubmitProductForReview, ApproveProduct, ... : read, and decide on the copy.
Decide(a, p, op) ==
    /\ Readable(a, p)
    /\ MayDecide(op, row[p])
    /\ req' = [req EXCEPT ![a] = [pc |-> "save", op |-> op, of |-> p, row |-> Decided(op, row[p]),
                                  values |-> Nil, tree |-> Nil]]
    /\ Crosses(p)
    /\ UNCHANGED <<row, deleted, values, tree, display, approved>>

\* UpdateProduct: read the row and apply the fields that were sent ...
Edit(a, p) ==
    /\ Readable(a, p)
    /\ \E c \in Optional(Categories), vs \in Optional(Trees), xs \in Optional(SUBSET Attributes) :
         /\ vs # Nil => AcceptsTree(vs[1])
         /\ req' = [req EXCEPT ![a] =
                [pc |-> "check", op |-> "edit", of |-> p,
                 row |-> [row[p] EXCEPT !.category = Sent(c, @)], values |-> xs,
                 tree |-> IF vs = Nil THEN Nil ELSE <<ResolveDefaultVariant(vs[1])>>]]
    /\ Crosses(p)
    /\ UNCHANGED <<row, deleted, values, tree, display, approved>>

FitsIfSent(r) == r.values = Nil \/ Fits(r.row.category, r.values[1])
FitsAfter(r) == Fits(r.row.category, Sent(r.values, values[r.of]))

\* ... read the attribute values, by a later statement, and validate.
CheckValues(a) ==
    /\ req[a].pc = "check"
    /\ req' = [req EXCEPT ![a] =
                  IF FitsAfter(req[a]) THEN [req[a] EXCEPT !.pc = "save"] ELSE Idle]
    /\ UNCHANGED <<row, deleted, values, tree, display, approved, crossed>>

\* PostgresProductRepository.Update: the whole row; the tree and the values
\* only if the request sent them.
Save(a) ==
    /\ req[a].pc = "save"
    /\ LET p == req[a].of IN
         /\ row' = [row EXCEPT ![p] = req[a].row]
         /\ values' = [values EXCEPT ![p] = Sent(req[a].values, @)]
         /\ IF req[a].tree = Nil THEN UNCHANGED <<tree, display>>
            ELSE StoreTree(p, req[a].tree[1])
         /\ approved' = IF req[a].op = "approve" THEN approved \cup {p} ELSE approved
    /\ req' = [req EXCEPT ![a] = Idle]
    /\ UNCHANGED <<deleted, crossed>>

\* The client leaves or the database refuses: nothing is written.
Abandon(a) ==
    /\ req[a] # Idle
    /\ req' = [req EXCEPT ![a] = Idle]
    /\ UNCHANGED <<row, deleted, values, tree, display, approved, crossed>>

DeleteUnknown(p) ==
    /\ deleted' = deleted \cup {p}
    /\ UNCHANGED <<row, values, tree, display, req, approved, crossed>>
SoftDelete(p) ==
    /\ Stored(p)
    /\ deleted' = deleted \cup {p}
    /\ UNCHANGED <<row, values, tree, display, req, approved, crossed>>

Restore(p) ==
    /\ Stored(p)
    /\ deleted' = deleted \ {p}
    /\ UNCHANGED <<row, values, tree, display, req, approved, crossed>>

-----------------------------------------------------------------------------
Begin ==
    \E a \in Requests, p \in Products :
        \/ \E op \in Decisions : Decide(a, p, op)
        \/ Edit(a, p)

AtOnce == \E p \in Products : Create(p) \/ SoftDelete(p) \/ Restore(p)

Proceed == \E a \in Requests : CheckValues(a) \/ Save(a) \/ Abandon(a)

Next == Begin \/ AtOnce \/ Proceed

Spec == Init /\ [][Next]_vars

-----------------------------------------------------------------------------
TypeOK ==
    /\ row \in [Products -> Row \cup {NoRow}]
    /\ deleted \subseteq {p \in Products : Stored(p)}
    /\ values \in [Products -> SUBSET Attributes]
    /\ tree \in [Products -> Seq(Variant)]
    /\ req \in [Requests -> Request \cup {Idle}]
    /\ \A a \in Requests : req[a] # Idle => Stored(req[a].of)
    /\ approved \subseteq Products
    /\ crossed \subseteq Products

\* What customers can see has been through review: a product is published or
\* archived only if an approval of it was stored, even though every edit in
\* flight writes a whole row back, status included ("so the approval workflow
\* can't be bypassed", types.go:145-148).
PublishedWasApproved ==
    \A p \in Products : row[p].status \in {"published", "archived"} => p \in approved

\* No published or archived product carries a rejection note, even if a
\* rejection and an approval that read the same proposal both store.
NotePublishedNever ==
    \A p \in Products : row[p].status \in {"published", "archived"} => ~row[p].noted

\* Every stored product has exactly one default variant, it is sold on its own,
\* and it is the one the shop lists the product by.
ListedByDefault ==
    \A p \in Products : Stored(p) =>
        /\ Marked(tree[p]) = {display[p].variant}
        /\ Marked(tree[p]) \subseteq Standalone(tree[p])

\* price_min and price_max span the listed price when the default variant is on
\* sale, whatever else the tree sells; and a sale price of 0, which "means no sale
\* price" (variant_repository.go:436-439), gives nothing away: a product shows a 0
\* only where a variant sold on its own has the original price 0.
PriceInRange ==
    \A p \in Products : Stored(p) =>
        LET d == display[p]
        IN  /\ tree[p][d.variant].active => d.min <= d.price /\ d.price <= d.max
            /\ 0 \in {d.price, d.min, d.max} =>
                  \E i \in Standalone(tree[p]) : tree[p][i].original = 0

\* The attribute values of a product fit its category: they apply to it, and
\* none that it requires is missing, unless requests for it overlapped.
ValuesFit == \A p \in Products \ crossed : Stored(p) => Fits(row[p].category, values[p])

Edge(from, to) == \E op \in Decisions : from = Workflow[op].from /\ to = Workflow[op].to

\* The status of a product only moves along the review workflow, unless
\* requests for it overlapped.
AlongWorkflow ==
    [][\A p \in Products \ crossed : Stored(p) =>
          row'[p].status = row[p].status \/ Edge(row[p].status, row'[p].status)]_vars
=============================================================================
