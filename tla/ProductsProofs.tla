--------------------------- MODULE ProductsProofs ---------------------------
(***************************************************************************)
(* The catalogue under any number of products, categories, attributes and  *)
(* overlapping requests, for variant trees of any size: the types, that    *)
(* nothing is published without a stored approval or with a rejection      *)
(* note, that every product is listed by its one default variant at a      *)
(* price in its range, that its values fit and that its status moves along *)
(* the workflow.                                                           *)
(* What makes these inductive is what the requests in flight hold: the row *)
(* a request is about to write back must be one that may be stored, now or *)
(* after anything that other requests store meanwhile.                     *)
(***************************************************************************)
EXTENDS Products, SequenceTheorems, WellFoundedInduction, TLAPS

LEMMA NatMinimum ==
    ASSUME NEW S, S \subseteq Nat, S # {}
    PROVE  \E i \in S : IsFirst(i, S)
  <1>1. PICK i \in S : \A j \in S : ~(<<j, i>> \in OpToRel(<, Nat))
    BY WFMin, NatLessThanWellFounded
  <1>2. ASSUME NEW j \in S PROVE i <= j
    <2>1. i \in Nat /\ j \in Nat
      BY <1>2
    <2>2. <<j, i>> \in {ss \in Nat \X Nat : ss[1] < ss[2]} <=> j < i
      BY <2>1
    <2>3. ~(j < i)
      BY <1>1, <1>2, <2>2 DEF OpToRel
    <2> QED BY <2>1, <2>3
  <1> QED BY <1>2 DEF IsFirst

\* The default is one of the variants, and the marked one if any is marked.
LEMMA DefaultChosen ==
    ASSUME NEW vs \in Seq(Variant), Resolvable(vs)
    PROVE  /\ DefaultIndex(vs) \in Standalone(vs)
           /\ Marked(vs) \subseteq {DefaultIndex(vs)}
  <1> DEFINE d == DefaultIndex(vs)
  <1>1. DOMAIN vs = 1..Len(vs) /\ Len(vs) \in Nat /\ 1 \in DOMAIN vs
    BY DEF Resolvable
  <1>a. Marked(vs) \subseteq Nat /\ Standalone(vs) \subseteq Nat
    BY <1>1 DEF Marked, Standalone
  <1>2. CASE Marked(vs) # {}
    <2>1. PICK i \in Marked(vs) : IsFirst(i, Marked(vs))
      BY <1>a, <1>2, NatMinimum
    <2>2. d \in Marked(vs)
      BY <1>2, <2>1 DEF DefaultIndex
    <2>3. d \in DOMAIN vs /\ Marked(vs) \subseteq {d}
      BY <2>2 DEF Resolvable, Marked
    <2> QED BY <2>3 DEF Resolvable, Standalone
  <1>3. CASE Marked(vs) = {} /\ Standalone(vs) # {}
    <2>1. PICK i \in Standalone(vs) : IsFirst(i, Standalone(vs))
      BY <1>a, <1>3, NatMinimum
    <2>2. d \in Standalone(vs)
      BY <1>3, <2>1 DEF DefaultIndex
    <2> QED BY <1>3, <2>2
  <1>4. CASE Marked(vs) = {} /\ Standalone(vs) = {}
    <2>1. d = 1
      BY <1>4 DEF DefaultIndex
    <2> QED BY <1>1, <1>4, <2>1 DEF Resolvable, Standalone
  <1> QED BY <1>2, <1>3, <1>4

\* One default, sold on its own.
OneDefault(vs) == \E i \in Standalone(vs) : Marked(vs) = {i}

\* ... and no price below zero.
WellFormed(vs) == OneDefault(vs) /\ ValidPrices(vs)

\* resolveDefaultVariant leaves exactly one default, whatever the request sent,
\* and the prices as they were.
LEMMA DefaultResolved ==
    ASSUME NEW vs \in Seq(Variant), AcceptsTree(vs)
    PROVE  /\ ResolveDefaultVariant(vs) \in Seq(Variant)
           /\ WellFormed(ResolveDefaultVariant(vs))
  <1> DEFINE d == DefaultIndex(vs)
             w == ResolveDefaultVariant(vs)
  <1>1. d \in Standalone(vs) /\ Marked(vs) \subseteq {d}
    BY DefaultChosen DEF AcceptsTree
  <1>2. d \in DOMAIN vs
    BY <1>1 DEF Standalone
  <1> HIDE DEF d
  <1>3. w = [vs EXCEPT ![d].isDefault = TRUE]
    BY DEF ResolveDefaultVariant, d
  <1> HIDE DEF w
  <1>4. DOMAIN w = DOMAIN vs
    BY <1>3
  <1>5. ASSUME NEW i \in DOMAIN vs
        PROVE  /\ w[i] \in Variant
               /\ w[i].componentOnly = vs[i].componentOnly
               /\ w[i].isDefault <=> (i = d \/ vs[i].isDefault)
    <2>1. vs[i] \in Variant
      OBVIOUS
    <2> QED BY <1>2, <1>3, <2>1 DEF Variant
  <1>6. w \in Seq(Variant)
    <2>1. Len(vs) \in Nat /\ w \in [1..Len(vs) -> Variant]
      <3>1. DOMAIN vs = 1..Len(vs) /\ Len(vs) \in Nat
        OBVIOUS
      <3>2. w = [i \in DOMAIN vs |-> w[i]]
        BY <1>3, Zenon
      <3> QED BY <1>5, <3>1, <3>2
    <2> QED BY <2>1, SeqDef
  <1>7. Standalone(w) = Standalone(vs)
    BY <1>4, <1>5 DEF Standalone
  <1>8. Marked(w) = {d}
    BY <1>1, <1>2, <1>4, <1>5 DEF Marked
  <1>9. OneDefault(w)
    BY <1>1, <1>7, <1>8 DEF OneDefault
  <1>10. ValidPrices(w)
    <2>1. ASSUME NEW i \in DOMAIN vs
          PROVE  w[i].original = vs[i].original /\ w[i].sale = vs[i].sale
      <3>1. vs[i] \in Variant
        OBVIOUS
      <3> QED BY <1>2, <1>3, <3>1 DEF Variant
    <2> QED BY <1>4, <2>1 DEF ValidPrices, AcceptsTree
  <1> QED BY <1>6, <1>9, <1>10 DEF w, WellFormed

\* The display cache names the one default.
LEMMA DisplayNamesDefault ==
    ASSUME NEW vs, OneDefault(vs)
    PROVE  Marked(vs) = {DisplayCache(vs).variant}
  <1>1. PICK i \in Standalone(vs) : Marked(vs) = {i}
    BY DEF OneDefault
  <1>2. Marked(vs) \cap Standalone(vs) = {i}
    BY <1>1
  <1>3. DisplayCache(vs).variant = i
    BY <1>2 DEF DisplayCache
  <1> QED BY <1>1, <1>3

\* As many prices as a tree has variants have a greatest one.
LEMMA PricesBounded ==
    ASSUME NEW n \in Nat, NEW S, S \subseteq 1..n, NEW f \in [S -> Nat]
    PROVE  \E b \in Nat : \A i \in S : f[i] <= b
  <1> DEFINE Below(k) == \E b \in Nat : \A i \in S : i <= k => f[i] <= b
             B == {k \in Nat : ~Below(k)}
  <1>1. SUFFICES Below(n)
    BY <1>1
  <1>2. SUFFICES ASSUME B # {} PROVE FALSE
    BY <1>2
  <1>3. PICK k \in B : IsFirst(k, B)
    BY <1>2, NatMinimum
  <1>4. CASE k = 0
    <2>1. \A i \in S : ~(i <= 0)
      OBVIOUS
    <2>2. 0 \in Nat /\ \A i \in S : i <= k => f[i] <= 0
      BY <1>4, <2>1
    <2> QED BY <1>3, <2>2
  <1>5. CASE k # 0
    <2>1. k \in Nat /\ k - 1 \in Nat /\ ~(k <= k - 1)
      BY <1>3, <1>5
    <2>2. k - 1 \notin B
      BY <1>3, <2>1 DEF IsFirst
    <2>3. PICK b \in Nat : \A i \in S : i <= k - 1 => f[i] <= b
      BY <2>1, <2>2
    <2>4. PICK c \in Nat : b <= c /\ (k \in S => f[k] <= c)
      BY <2>3
    <2>5. \A i \in S : i <= k => f[i] <= c
      <3>1. ASSUME NEW i \in S, i <= k, i # k PROVE f[i] <= c
        <4>1. i <= k - 1 /\ f[i] \in Nat
          BY <2>1, <3>1
        <4> QED BY <2>3, <2>4, <4>1
      <3> QED BY <2>4, <3>1
    <2> QED BY <1>3, <2>4, <2>5
  <1> QED BY <1>4, <1>5

LEMMA NatMaximum ==
    ASSUME NEW S, S \subseteq Nat, S # {}, NEW b \in Nat, \A s \in S : s <= b
    PROVE  \E m \in S : \A s \in S : m >= s
  <1> DEFINE U == {u \in Nat : \A s \in S : s <= u}
  <1>1. PICK m \in U : IsFirst(m, U)
    BY NatMinimum
  <1>2. m \in S
    <2>1. SUFFICES ASSUME m \notin S PROVE FALSE
      OBVIOUS
    <2>2. PICK s \in S : TRUE
      OBVIOUS
    <2>3. m \in Nat /\ s < m
      BY <1>1, <2>1
    <2>4. m - 1 \in U
      BY <1>1, <2>1, <2>3
    <2> QED BY <1>1, <2>3, <2>4 DEF IsFirst
  <1> QED BY <1>1, <1>2

LEMMA PricesCounted ==
    ASSUME NEW vs \in Seq(Variant), ValidPrices(vs), NEW i \in DOMAIN vs
    PROVE  ListPrice(vs[i]) \in Nat
  <1>1. vs[i] \in Variant
    OBVIOUS
  <1> QED BY <1>1 DEF Variant, ValidPrices, ListPrice

\* The display cache of a well-formed tree lists a price in its range when the
\* default variant is on sale.
LEMMA DisplayInRange ==
    ASSUME NEW vs \in Seq(Variant), WellFormed(vs), vs[DisplayCache(vs).variant].active
    PROVE  /\ DisplayCache(vs).min <= DisplayCache(vs).price
           /\ DisplayCache(vs).price <= DisplayCache(vs).max
  <1> DEFINE d == DisplayCache(vs)
             S == SalePrices(vs)
             price == ListPrice(vs[d.variant])
             f == [i \in OnSale(vs) |-> ListPrice(vs[i])]
  <1>1. Marked(vs) = {d.variant} /\ d.variant \in Standalone(vs)
    BY DisplayNamesDefault DEF WellFormed, OneDefault
  <1>2. d.variant \in OnSale(vs)
    BY <1>1 DEF OnSale
  <1>3. OnSale(vs) \subseteq 1..Len(vs) /\ Len(vs) \in Nat /\ OnSale(vs) \subseteq DOMAIN vs
    BY DEF OnSale, Standalone
  <1>4. d.price = price /\ d.min = F!Min(S) /\ d.max = F!Max(S)
    BY <1>1, <1>2 DEF DisplayCache
  <1>5. f \in [OnSale(vs) -> Nat]
    BY <1>3, PricesCounted DEF WellFormed
  <1>6. price \in S /\ S \subseteq Nat
    BY <1>2, <1>5 DEF SalePrices
  <1> HIDE DEF price
  <1>7. PICK b \in Nat : \A s \in S : s <= b
    <2>1. PICK b \in Nat : \A i \in OnSale(vs) : f[i] <= b
      <3> HIDE DEF f
      <3> QED BY <1>3, <1>5, PricesBounded
    <2> QED BY <2>1 DEF SalePrices
  <1> HIDE DEF S
  <1>8. F!Max(S) >= price
    <2>1. \E m \in S : \A s \in S : m >= s
      BY <1>6, <1>7, NatMaximum
    <2> QED BY <1>6, <2>1 DEF F!Max
  <1>9. price >= F!Min(S)
    <2>1. \E m \in S : IsFirst(m, S)
      BY <1>6, NatMinimum
    <2> QED BY <1>6, <2>1 DEF F!Min, IsFirst
  <1>10. F!Max(S) \in Nat /\ F!Min(S) \in Nat /\ price \in Nat
    <2>1. \E m \in S : \A s \in S : m >= s
      BY <1>6, <1>7, NatMaximum
    <2>2. \E m \in S : IsFirst(m, S)
      BY <1>6, NatMinimum
    <2> QED BY <1>6, <2>1, <2>2 DEF F!Max, F!Min, IsFirst
  <1> QED BY <1>4, <1>8, <1>9, <1>10

\* A price shown is that of a variant sold on its own, and not 0 unless its
\* original price is.
LEMMA ListedOfSomeVariant ==
    ASSUME NEW vs \in Seq(Variant), WellFormed(vs),
           0 \in {DisplayCache(vs).price, DisplayCache(vs).min, DisplayCache(vs).max}
    PROVE  \E i \in Standalone(vs) : vs[i].original = 0
  <1> DEFINE d == DisplayCache(vs)
             S == SalePrices(vs)
             f == [i \in OnSale(vs) |-> ListPrice(vs[i])]
  <1>1. Marked(vs) = {d.variant} /\ d.variant \in Standalone(vs)
    BY DisplayNamesDefault DEF WellFormed, OneDefault
  <1>2. NoPrice # 0
    BY PriceAssumption
  <1>3. d.price = 0 => ListPrice(vs[d.variant]) = 0
    BY <1>1 DEF DisplayCache
  <1>4. ASSUME OnSale(vs) # {}
        PROVE  F!Min(S) \in S /\ F!Max(S) \in S
    <2>1. OnSale(vs) \subseteq 1..Len(vs) /\ Len(vs) \in Nat /\ OnSale(vs) \subseteq DOMAIN vs
      BY DEF OnSale, Standalone
    <2>2. f \in [OnSale(vs) -> Nat]
      BY <2>1, PricesCounted DEF WellFormed
    <2>3. S \subseteq Nat /\ S # {}
      BY <1>4, <2>2 DEF SalePrices
    <2>4. PICK b \in Nat : \A s \in S : s <= b
      <3>1. PICK b \in Nat : \A i \in OnSale(vs) : f[i] <= b
        <4> HIDE DEF f
        <4> QED BY <2>1, <2>2, PricesBounded
      <3> QED BY <3>1 DEF SalePrices
    <2> HIDE DEF S
    <2>5. \E m \in S : \A s \in S : m >= s
      BY <2>3, <2>4, NatMaximum
    <2>6. \E m \in S : IsFirst(m, S)
      BY <2>3, NatMinimum
    <2> QED BY <2>5, <2>6 DEF F!Max, F!Min, IsFirst
  <1>5. d.min = 0 \/ d.max = 0 => 0 \in S
    BY <1>2, <1>4 DEF DisplayCache
  <1>6. PICK i \in Standalone(vs) : ListPrice(vs[i]) = 0
    BY <1>1, <1>3, <1>5 DEF SalePrices, OnSale
  <1>7. vs[i].original = 0
    BY <1>6 DEF ListPrice
  <1> QED BY <1>7

-----------------------------------------------------------------------------
Public == {"published", "archived"}

\* What a request may hold: a public row is clean and approved, or about to be
\* by this very request; a tree has its default.
Held(q, granted) ==
    /\ q.row.status \in Public => ~q.row.noted /\ (q.of \in granted \/ q.op = "approve")
    /\ q.tree # Nil => WellFormed(q.tree[1])

\* The inductive invariant.
CatalogueInv ==
    /\ TypeOK
    /\ display = [p \in Products |-> display[p]]
    /\ \A p \in Products : row[p] # NoRow =>
          /\ row[p].status \in Public => ~row[p].noted /\ p \in approved
          /\ WellFormed(tree[p])
          /\ display[p] = DisplayCache(tree[p])
    /\ \A a \in Requests : req[a] # Idle => Held(req[a], approved)

LEMMA InitCatalogue == Init => CatalogueInv
  BY DEF Init, CatalogueInv, TypeOK, Stored

\* A request reads, changes its copy or ends: no table changes.
LEMMA RequestStep ==
    ASSUME CatalogueInv, NEW a \in Requests, NEW q \in Request \cup {Idle},
           q # Idle => row[q.of] # NoRow /\ Held(q, approved),
           req' = [req EXCEPT ![a] = q], crossed' \subseteq Products,
           UNCHANGED <<row, deleted, values, tree, display, approved>>
    PROVE  CatalogueInv'
  <1>1. ASSUME NEW b \in Requests, req'[b] # Idle
        PROVE  row[req'[b].of] # NoRow /\ Held(req'[b], approved)
    <2>1. req \in [Requests -> Request \cup {Idle}]
      BY DEF CatalogueInv, TypeOK
    <2>2. CASE b = a
      BY <1>1, <2>1, <2>2
    <2>3. CASE b # a
      <3>1. req'[b] = req[b]
        BY <2>1, <2>3
      <3> QED BY <1>1, <3>1 DEF CatalogueInv, TypeOK, Stored
    <2> QED BY <2>2, <2>3
  <1>2. TypeOK'
    BY <1>1 DEF CatalogueInv, TypeOK, Stored
  <1>3. \A b \in Requests : req'[b] # Idle => Held(req'[b], approved')
    BY <1>1 DEF Held
  <1> QED BY <1>2, <1>3 DEF CatalogueInv

\* A request or an insert stores a product.
LEMMA ProductStep ==
    ASSUME CatalogueInv, NEW p \in Products, NEW r \in Row, NEW xs \in SUBSET Attributes,
           NEW vs \in Seq(Variant), WellFormed(vs),
           row' = [row EXCEPT ![p] = r], values' = [values EXCEPT ![p] = xs],
           tree' = [tree EXCEPT ![p] = vs], display' = [display EXCEPT ![p] = DisplayCache(vs)],
           approved \subseteq approved', approved' \subseteq Products,
           r.status \in Public => ~r.noted /\ p \in approved',
           req' \in [Requests -> Request \cup {Idle}],
           \A b \in Requests : req'[b] \in {req[b], Idle},
           UNCHANGED <<deleted, crossed>>
    PROVE  CatalogueInv'
  <1>1. r # NoRow
    BY DEF Row, NoRow, Statuses
  <1>2. ASSUME NEW x \in Products
        PROVE  row'[x] = (IF x = p THEN r ELSE row[x]) /\ tree'[x] = (IF x = p THEN vs ELSE tree[x])
    BY DEF CatalogueInv, TypeOK
  <1>3. TypeOK'
    <2>1. row' \in [Products -> Row \cup {NoRow}] /\ values' \in [Products -> SUBSET Attributes]
      BY DEF CatalogueInv, TypeOK
    <2>2. tree' \in [Products -> Seq(Variant)]
      BY DEF CatalogueInv, TypeOK
    <2>3. deleted' \subseteq {x \in Products : row'[x] # NoRow}
      BY <1>1, <1>2 DEF CatalogueInv, TypeOK, Stored
    <2>4. \A b \in Requests : req'[b] # Idle => row'[req'[b].of] # NoRow
      <3>1. ASSUME NEW b \in Requests, req'[b] # Idle PROVE row'[req'[b].of] # NoRow
        <4>1. req'[b] = req[b] /\ req[b] # Idle /\ req[b] \in Request
          BY <3>1 DEF CatalogueInv, TypeOK
        <4>2. req[b].of \in Products /\ row[req[b].of] # NoRow
          BY <4>1 DEF CatalogueInv, TypeOK, Stored, Request
        <4> QED BY <1>1, <1>2, <4>1, <4>2
      <3> QED BY <3>1
    <2>5. approved' \subseteq Products /\ crossed' \subseteq Products
      BY DEF CatalogueInv, TypeOK
    <2> QED BY <2>1, <2>2, <2>3, <2>4, <2>5 DEF TypeOK, Stored
  <1>4. ASSUME NEW x \in Products, row'[x] # NoRow
        PROVE  /\ row'[x].status \in Public => ~row'[x].noted /\ x \in approved'
               /\ WellFormed(tree'[x])
               /\ display'[x] = DisplayCache(tree'[x])
    <2>1. CASE x = p
      <3>1. row'[x] = r /\ tree'[x] = vs /\ display'[x] = DisplayCache(vs)
        BY <1>2, <2>1 DEF CatalogueInv
      <3> QED BY <2>1, <3>1
    <2>2. CASE x # p
      <3>1. row'[x] = row[x] /\ tree'[x] = tree[x] /\ display'[x] = display[x]
        BY <1>2, <2>2 DEF CatalogueInv
      <3> QED BY <1>4, <2>2, <3>1 DEF CatalogueInv
    <2> QED BY <2>1, <2>2
  <1>5. ASSUME NEW b \in Requests, req'[b] # Idle
        PROVE  Held(req'[b], approved')
    <2>1. req'[b] = req[b] /\ Held(req[b], approved)
      BY <1>5 DEF CatalogueInv
    <2> QED BY <2>1 DEF Held
  <1>6. display' = [x \in Products |-> display'[x]]
    BY DEF CatalogueInv
  <1> QED BY <1>3, <1>4, <1>5, <1>6 DEF CatalogueInv

\* What CreateProduct stores of its inputs.
Inserts(p, c, vs, xs) ==
    /\ AcceptsTree(vs) /\ Fits(c, xs)
    /\ row' = [row EXCEPT ![p] = [status |-> "draft", noted |-> FALSE, category |-> c]]
    /\ values' = [values EXCEPT ![p] = xs]
    /\ StoreTree(p, ResolveDefaultVariant(vs))

LEMMA CreateStep ==
    ASSUME CatalogueInv, NEW p \in Products, Create(p)
    PROVE  CatalogueInv'
  <1> PICK c \in Categories, vs \in Trees, xs \in SUBSET Attributes : Inserts(p, c, vs, xs)
    BY DEF Create, Inserts
  <1> DEFINE r == [status |-> "draft", noted |-> FALSE, category |-> c]
             w == ResolveDefaultVariant(vs)
  <1>1. r \in Row /\ r.status \notin Public
    BY DEF Row, Statuses, Public
  <1>2. vs \in Seq(Variant) /\ AcceptsTree(vs)
    BY TreesAssumption DEF Inserts
  <1>3. w \in Seq(Variant) /\ WellFormed(w)
    BY <1>2, DefaultResolved
  <1>4. /\ row' = [row EXCEPT ![p] = r] /\ values' = [values EXCEPT ![p] = xs]
        /\ tree' = [tree EXCEPT ![p] = w] /\ display' = [display EXCEPT ![p] = DisplayCache(w)]
        /\ UNCHANGED <<deleted, req, approved, crossed>>
    BY DEF Create, Inserts, StoreTree
  <1>5. approved' \subseteq Products /\ req' \in [Requests -> Request \cup {Idle}]
    BY <1>4 DEF CatalogueInv, TypeOK
  <1> HIDE DEF r, w
  <1> QED BY <1>1, <1>3, <1>4, <1>5, ProductStep

LEMMA SaveStep ==
    ASSUME CatalogueInv, NEW a \in Requests, Save(a)
    PROVE  CatalogueInv'
  <1> DEFINE q == req[a]
             p == q.of
             xs == Sent(q.values, values[p])
             vs == IF q.tree = Nil THEN tree[p] ELSE q.tree[1]
  <1>1. q \in Request /\ q # Idle /\ Held(q, approved) /\ p \in Products /\ row[p] # NoRow
    BY DEF Save, CatalogueInv, TypeOK, Idle, Request, Stored
  <1>2. q.row \in Row
    BY <1>1 DEF Request
  <1>3. xs \in SUBSET Attributes
    BY <1>1 DEF Request, Sent, Nil, CatalogueInv, TypeOK
  <1>4. vs \in Seq(Variant) /\ WellFormed(vs)
    <2>1. CASE q.tree = Nil
      BY <1>1, <2>1 DEF CatalogueInv, TypeOK
    <2>2. CASE q.tree # Nil
      <3>1. q.tree \in Seq(Seq(Variant))
        BY <1>1 DEF Request
      <3>2. q.tree[1] \in Seq(Variant)
        BY <2>2, <3>1 DEF Nil
      <3> QED BY <1>1, <2>2, <3>2 DEF Held
    <2> QED BY <2>1, <2>2
  <1>5. row' = [row EXCEPT ![p] = q.row] /\ values' = [values EXCEPT ![p] = xs]
        /\ UNCHANGED <<deleted, crossed>>
    BY DEF Save
  <1>6. tree' = [tree EXCEPT ![p] = vs] /\ display' = [display EXCEPT ![p] = DisplayCache(vs)]
    <2>1. CASE q.tree = Nil
      <3>1. tree' = tree /\ display' = display
        BY <2>1 DEF Save
      <3>2. display[p] = DisplayCache(tree[p]) /\ display = [x \in Products |-> display[x]]
        BY <1>1 DEF CatalogueInv
      <3>3. tree \in [Products -> Seq(Variant)]
        BY DEF CatalogueInv, TypeOK
      <3> QED BY <1>1, <2>1, <3>1, <3>2, <3>3
    <2>2. CASE q.tree # Nil
      BY <2>2 DEF Save, StoreTree
    <2> QED BY <2>1, <2>2
  <1>7. /\ approved \subseteq approved' /\ approved' \subseteq Products
        /\ q.row.status \in Public => ~q.row.noted /\ p \in approved'
    <2>1. approved' = IF q.op = "approve" THEN approved \cup {p} ELSE approved
      BY DEF Save
    <2> QED BY <1>1, <2>1 DEF Held, CatalogueInv, TypeOK
  <1>8. /\ req' \in [Requests -> Request \cup {Idle}]
        /\ \A b \in Requests : req'[b] \in {req[b], Idle}
    BY DEF Save, CatalogueInv, TypeOK
  <1> HIDE DEF p, xs, vs
  <1> QED BY <1>1, <1>2, <1>3, <1>4, <1>5, <1>6, <1>7, <1>8, ProductStep

LEMMA DecideStep ==
    ASSUME CatalogueInv, NEW a \in Requests, NEW p \in Products, NEW op \in Decisions,
           Decide(a, p, op)
    PROVE  CatalogueInv'
  <1> DEFINE q == [pc |-> "save", op |-> op, of |-> p, row |-> Decided(op, row[p]),
                   values |-> Nil, tree |-> Nil]
  <1>1. row[p] \in Row /\ row[p] # NoRow /\ row[p].status = Workflow[op].from
    BY DEF Decide, Readable, Stored, MayDecide, CatalogueInv, TypeOK
  <1>2. op \in {"submit", "approve", "reject", "archive", "unarchive"}
    BY DEF Decisions, Workflow
  <1>3. Workflow[op].to \in Statuses
    BY <1>2 DEF Workflow, Statuses
  <1>4. NotedAfter(op, row[p].noted) \in BOOLEAN
    BY DEF NotedAfter
  <1>5. Decided(op, row[p]) \in Row
    BY <1>1, <1>3, <1>4 DEF Decided, Row
  <1>6. q \in Request
    BY <1>5 DEF Request, Nil
  <1>7. /\ q.row.status = Workflow[op].to
        /\ q.row.noted = NotedAfter(op, row[p].noted)
    BY <1>1 DEF Decided, Row
  <1>8. q.row.status \in Public => op = "approve" \/ (op # "reject" /\ row[p].status \in Public)
    BY <1>1, <1>2, <1>7 DEF Workflow, Public
  <1>9. row[p].status \in Public => ~row[p].noted /\ p \in approved
    BY <1>1 DEF CatalogueInv
  <1>10. Held(q, approved)
    BY <1>7, <1>8, <1>9 DEF Held, NotedAfter
  <1>11. /\ req' = [req EXCEPT ![a] = q] /\ crossed' \subseteq Products
         /\ UNCHANGED <<row, deleted, values, tree, display, approved>>
    BY DEF Decide, Crosses, CatalogueInv, TypeOK
  <1>12. q.of = p
    OBVIOUS
  <1> HIDE DEF q
  <1> QED BY <1>1, <1>6, <1>10, <1>11, <1>12, RequestStep

\* What UpdateProduct holds of its inputs.
Takes(a, p, c, vs, xs) ==
    /\ vs # Nil => AcceptsTree(vs[1])
    /\ req' = [req EXCEPT ![a] =
          [pc |-> "check", op |-> "edit", of |-> p,
           row |-> [row[p] EXCEPT !.category = Sent(c, @)], values |-> xs,
           tree |-> IF vs = Nil THEN Nil ELSE <<ResolveDefaultVariant(vs[1])>>]]

LEMMA EditStep ==
    ASSUME CatalogueInv, NEW a \in Requests, NEW p \in Products, Edit(a, p)
    PROVE  CatalogueInv'
  <1> PICK c \in Optional(Categories), vs \in Optional(Trees),
           xs \in Optional(SUBSET Attributes) : Takes(a, p, c, vs, xs)
    BY DEF Edit, Takes
  <1> DEFINE r == [row[p] EXCEPT !.category = Sent(c, @)]
             w == IF vs = Nil THEN Nil ELSE <<ResolveDefaultVariant(vs[1])>>
             q == [pc |-> "check", op |-> "edit", of |-> p, row |-> r, values |-> xs, tree |-> w]
  <1>1. row[p] \in Row /\ row[p] # NoRow
    BY DEF Edit, Readable, Stored, CatalogueInv, TypeOK
  <1>2. Sent(c, row[p].category) \in Categories
    BY <1>1 DEF Sent, Optional, Nil, Row
  <1>3. r \in Row /\ r.status = row[p].status /\ r.noted = row[p].noted
    BY <1>1, <1>2 DEF Row
  <1>4. w \in Seq(Seq(Variant)) /\ (w # Nil => WellFormed(w[1]))
    <2>1. CASE vs = Nil
      BY <2>1 DEF Nil
    <2>2. CASE vs # Nil
      <3>1. vs[1] \in Seq(Variant) /\ AcceptsTree(vs[1])
        BY <2>2, TreesAssumption DEF Optional, Takes
      <3>2. ResolveDefaultVariant(vs[1]) \in Seq(Variant) /\ WellFormed(ResolveDefaultVariant(vs[1]))
        BY <3>1, DefaultResolved
      <3> QED BY <2>2, <3>2
    <2> QED BY <2>1, <2>2
  <1>5. xs \in Seq(SUBSET Attributes)
    <2>1. CASE xs = <<>>
      BY <2>1
    <2>2. ASSUME NEW x \in SUBSET Attributes, xs = <<x>> PROVE xs \in Seq(SUBSET Attributes)
      <3> DEFINE S == SUBSET Attributes
      <3>1. x \in S
        OBVIOUS
      <3> HIDE DEF S
      <3>2. <<x>> \in Seq(S)
        BY <3>1
      <3> QED BY <2>2, <3>2 DEF S
    <2> QED BY <2>1, <2>2 DEF Optional, Nil
  <1> HIDE DEF r, w
  <1>6. q \in Request
    BY <1>3, <1>4, <1>5 DEF Request
  <1>7. row[p].status \in Public => ~row[p].noted /\ p \in approved
    BY <1>1 DEF CatalogueInv
  <1>8. Held(q, approved) /\ q.of = p
    BY <1>3, <1>4, <1>7 DEF Held
  <1>9. /\ req' = [req EXCEPT ![a] = q] /\ crossed' \subseteq Products
        /\ UNCHANGED <<row, deleted, values, tree, display, approved>>
    BY DEF Edit, Takes, Crosses, CatalogueInv, TypeOK, r, w
  <1> HIDE DEF q
  <1> QED BY <1>1, <1>6, <1>8, <1>9, RequestStep

LEMMA CheckStep ==
    ASSUME CatalogueInv, NEW a \in Requests, CheckValues(a)
    PROVE  CatalogueInv'
  <1> DEFINE s == [req[a] EXCEPT !.pc = "save"]
  <1>1. req[a] \in Request /\ req[a] # Idle /\ Held(req[a], approved) /\ row[req[a].of] # NoRow
    BY DEF CheckValues, CatalogueInv, TypeOK, Idle, Request, Stored
  <1>2. s \in Request /\ Held(s, approved) /\ s.of = req[a].of
    BY <1>1 DEF Request, Held
  <1>3. /\ req' \in {[req EXCEPT ![a] = s], [req EXCEPT ![a] = Idle]}
        /\ UNCHANGED <<row, deleted, values, tree, display, approved, crossed>>
    BY DEF CheckValues
  <1> HIDE DEF s
  <1>4. CASE req' = [req EXCEPT ![a] = s]
    BY <1>1, <1>2, <1>3, <1>4, RequestStep DEF CatalogueInv, TypeOK
  <1>5. CASE req' = [req EXCEPT ![a] = Idle]
    <2>1. Idle \in Request \cup {Idle}
      OBVIOUS
    <2> QED BY <1>3, <1>5, <2>1, RequestStep DEF CatalogueInv, TypeOK
  <1> QED BY <1>3, <1>4, <1>5

LEMMA AbandonStep ==
    ASSUME CatalogueInv, NEW a \in Requests, Abandon(a)
    PROVE  CatalogueInv'
  <1>1. Idle \in Request \cup {Idle}
    OBVIOUS
  <1> QED BY <1>1, RequestStep DEF Abandon, CatalogueInv, TypeOK

LEMMA DeleteStep ==
    ASSUME CatalogueInv, NEW p \in Products, SoftDelete(p) \/ Restore(p)
    PROVE  CatalogueInv'
  <1>1. UNCHANGED <<row, values, tree, display, req, approved, crossed>>
    BY DEF SoftDelete, Restore
  <1>2. deleted' \subseteq {x \in Products : row[x] # NoRow}
    BY DEF SoftDelete, Restore, Stored, CatalogueInv, TypeOK
  <1>3. TypeOK'
    BY <1>1, <1>2 DEF CatalogueInv, TypeOK, Stored
  <1> QED BY <1>1, <1>3 DEF CatalogueInv

LEMMA NextCatalogue == CatalogueInv /\ [Next]_vars => CatalogueInv'
  <1> SUFFICES ASSUME CatalogueInv, [Next]_vars PROVE CatalogueInv'
    OBVIOUS
  <1>1. CASE Begin
    BY <1>1, DecideStep, EditStep DEF Begin
  <1>2. CASE AtOnce
    BY <1>2, CreateStep, DeleteStep DEF AtOnce
  <1>3. CASE Proceed
    BY <1>3, CheckStep, SaveStep, AbandonStep DEF Proceed
  <1>4. CASE UNCHANGED vars
    BY <1>4 DEF vars, CatalogueInv, TypeOK, Stored
  <1> QED BY <1>1, <1>2, <1>3, <1>4 DEF Next

LEMMA AlwaysCatalogueInv == Spec => []CatalogueInv
  BY InitCatalogue, NextCatalogue, PTL DEF Spec

\* The types of the catalogue, for any number of overlapping requests: no
\* request writes a row, a tree or a set of values that is not one.
THEOREM ProductsTyped == Spec => []TypeOK
  <1>1. CatalogueInv => TypeOK
    BY DEF CatalogueInv
  <1> QED BY <1>1, AlwaysCatalogueInv, PTL

\* The review cannot be bypassed: a product is published or archived only if
\* an approval of it was stored, whatever rows overlapping edits write back.
THEOREM NeverUnreviewed == Spec => []PublishedWasApproved
  <1>1. CatalogueInv => PublishedWasApproved
    BY DEF CatalogueInv, PublishedWasApproved, NoRow, Public
  <1> QED BY <1>1, AlwaysCatalogueInv, PTL

\* A rejection note never stays on a published or archived product.
THEOREM NeverNoted == Spec => []NotePublishedNever
  <1>1. CatalogueInv => NotePublishedNever
    BY DEF CatalogueInv, NotePublishedNever, NoRow, Public
  <1> QED BY <1>1, AlwaysCatalogueInv, PTL

\* Every stored product, with however many variants, is listed by its one
\* default variant, which is sold on its own.
THEOREM AlwaysListed == Spec => []ListedByDefault
  <1>1. ASSUME CatalogueInv, NEW p \in Products, Stored(p)
        PROVE  Marked(tree[p]) = {display[p].variant} /\ Marked(tree[p]) \subseteq Standalone(tree[p])
    <2>1. OneDefault(tree[p]) /\ display[p] = DisplayCache(tree[p])
      BY <1>1 DEF CatalogueInv, Stored, WellFormed
    <2>2. Marked(tree[p]) = {DisplayCache(tree[p]).variant}
      BY <2>1, DisplayNamesDefault
    <2> QED BY <2>1, <2>2 DEF OneDefault
  <1>2. CatalogueInv => ListedByDefault
    BY <1>1 DEF ListedByDefault
  <1> QED BY <1>2, AlwaysCatalogueInv, PTL

\* Every stored product whose default variant is on sale shows a price between
\* its price_min and price_max, and none is shown at 0 on account of a sale price
\* of 0.
THEOREM AlwaysInRange == Spec => []PriceInRange
  <1>1. ASSUME CatalogueInv, NEW p \in Products, Stored(p)
        PROVE  /\ tree[p] \in Seq(Variant) /\ WellFormed(tree[p])
               /\ display[p] = DisplayCache(tree[p])
    BY <1>1 DEF CatalogueInv, TypeOK, Stored
  <1>2. ASSUME CatalogueInv, NEW p \in Products, Stored(p),
               tree[p][display[p].variant].active
        PROVE  display[p].min <= display[p].price /\ display[p].price <= display[p].max
    <2>1. tree[p][DisplayCache(tree[p]).variant].active
      BY <1>1, <1>2
    <2> QED BY <1>1, <1>2, <2>1, DisplayInRange
  <1>3. ASSUME CatalogueInv, NEW p \in Products, Stored(p),
               0 \in {display[p].price, display[p].min, display[p].max}
        PROVE  \E i \in Standalone(tree[p]) : tree[p][i].original = 0
    BY <1>1, <1>3, ListedOfSomeVariant
  <1>4. CatalogueInv => PriceInRange
    BY <1>2, <1>3 DEF PriceInRange
  <1> QED BY <1>4, AlwaysCatalogueInv, PTL

-----------------------------------------------------------------------------
(* Products on which no two requests have overlapped.                      *)

\* What request q holds agrees with the stored row r and values xs.
Fresh(q, r, xs) ==
    /\ q.op = "edit" => q.row.status = r.status
    /\ q.op # "edit" => /\ r.status = Workflow[q.op].from
                        /\ q.row.status = Workflow[q.op].to
    /\ q.pc = "save" => Fits(q.row.category, Sent(q.values, xs))

\* Request a holds product p.
Holds(a, p) == req[a] # Idle /\ req[a].of = p

\* A product that is not crossed has at most one request, whose copy is fresh.
FreshInv ==
    /\ CatalogueInv
    /\ \A p \in Products \ crossed :
          /\ row[p] # NoRow => Fits(row[p].category, values[p])
          /\ \A a, b \in Requests : Holds(a, p) /\ Holds(b, p) => a = b
          /\ \A a \in Requests : Holds(a, p) => Fresh(req[a], row[p], values[p])

LEMMA InitFresh == Init => FreshInv
  <1>1. Init => CatalogueInv
    BY InitCatalogue
  <1> QED BY <1>1 DEF Init, FreshInv, Holds

\* A request on an uncrossed product reads while no other holds the product,
\* validates, or ends; the tables stay.
LEMMA FreshRequestStep ==
    ASSUME FreshInv, CatalogueInv', NEW a \in Requests, NEW q,
           req' = [req EXCEPT ![a] = q], crossed \subseteq crossed', UNCHANGED <<row, values>>,
           q # Idle => /\ q.of \in Products
                       /\ q.of \notin crossed' =>
                            /\ \A b \in Requests : b # a => ~Holds(b, q.of)
                            /\ Fresh(q, row[q.of], values[q.of])
    PROVE  FreshInv'
  <1> SUFFICES ASSUME NEW p \in Products, p \notin crossed'
               PROVE  /\ row'[p] # NoRow => Fits(row'[p].category, values'[p])
                      /\ \A b, c \in Requests : Holds(b, p)' /\ Holds(c, p)' => b = c
                      /\ \A b \in Requests : Holds(b, p)' => Fresh(req'[b], row'[p], values'[p])
    BY DEF FreshInv
  <1>1. p \notin crossed
    OBVIOUS
  <1>2. \A b \in Requests : req'[b] = IF b = a THEN q ELSE req[b]
    BY DEF FreshInv, CatalogueInv, TypeOK
  <1>3. \A b \in Requests : b # a => (Holds(b, p)' <=> Holds(b, p)) /\ req'[b] = req[b]
    BY <1>2 DEF Holds
  <1>4. Holds(a, p)' <=> q # Idle /\ q.of = p
    BY <1>2 DEF Holds
  <1>5. row'[p] # NoRow => Fits(row'[p].category, values'[p])
    BY <1>1 DEF FreshInv
  <1>6. ASSUME NEW b \in Requests, NEW c \in Requests, Holds(b, p)', Holds(c, p)'
        PROVE  b = c
    BY <1>1, <1>3, <1>4, <1>6 DEF FreshInv
  <1>7. ASSUME NEW b \in Requests, Holds(b, p)'
        PROVE  Fresh(req'[b], row'[p], values'[p])
    <2>1. CASE b = a
      BY <1>2, <1>4, <1>7, <2>1
    <2>2. CASE b # a
      BY <1>1, <1>3, <1>7, <2>2 DEF FreshInv
    <2> QED BY <2>1, <2>2
  <1> QED BY <1>5, <1>6, <1>7

\* A product that is read and not crossed by that had no request.
LEMMA NobodyElse ==
    ASSUME NEW p \in Products, Crosses(p)
    PROVE  /\ crossed \subseteq crossed'
           /\ p \notin crossed' => \A b \in Requests : ~Holds(b, p)
  BY DEF Crosses, Holds

LEMMA FreshDecide ==
    ASSUME FreshInv, CatalogueInv', NEW a \in Requests, NEW p \in Products,
           NEW op \in Decisions, Decide(a, p, op)
    PROVE  FreshInv'
  <1> DEFINE q == [pc |-> "save", op |-> op, of |-> p, row |-> Decided(op, row[p]),
                   values |-> Nil, tree |-> Nil]
  <1>1. row[p] \in Row /\ row[p] # NoRow /\ row[p].status = Workflow[op].from
    BY DEF Decide, Readable, Stored, MayDecide, FreshInv, CatalogueInv, TypeOK
  <1>2. /\ Decided(op, row[p]).status = Workflow[op].to
        /\ Decided(op, row[p]).category = row[p].category
    BY <1>1 DEF Decided, Row
  <1>3. crossed \subseteq crossed' /\ (p \notin crossed' => \A b \in Requests : ~Holds(b, p))
    BY NobodyElse DEF Decide
  <1>4. p \notin crossed' => Fits(row[p].category, values[p])
    BY <1>1, <1>3 DEF FreshInv
  <1>5. op # "edit"
    BY DEF Decisions, Workflow
  <1>6. q.of = p /\ (p \notin crossed' => Fresh(q, row[p], values[p]))
    BY <1>1, <1>2, <1>4, <1>5 DEF Fresh, Sent
  <1>7. req' = [req EXCEPT ![a] = q] /\ UNCHANGED <<row, values>>
    BY DEF Decide
  <1> HIDE DEF q
  <1> QED BY <1>3, <1>6, <1>7, FreshRequestStep

LEMMA FreshEdit ==
    ASSUME FreshInv, CatalogueInv', NEW a \in Requests, NEW p \in Products, Edit(a, p)
    PROVE  FreshInv'
  <1> PICK c, vs, xs : Takes(a, p, c, vs, xs)
    BY DEF Edit, Takes
  <1> DEFINE r == [row[p] EXCEPT !.category = Sent(c, @)]
             w == IF vs = Nil THEN Nil ELSE <<ResolveDefaultVariant(vs[1])>>
             q == [pc |-> "check", op |-> "edit", of |-> p, row |-> r, values |-> xs, tree |-> w]
  <1>1. row[p] \in Row
    BY DEF Edit, Readable, Stored, FreshInv, CatalogueInv, TypeOK
  <1>2. r.status = row[p].status
    BY <1>1 DEF Row
  <1> HIDE DEF r, w
  <1>3. q.of = p /\ Fresh(q, row[p], values[p])
    BY <1>2 DEF Fresh
  <1>4. crossed \subseteq crossed' /\ (p \notin crossed' => \A b \in Requests : ~Holds(b, p))
    BY NobodyElse DEF Edit
  <1>5. req' = [req EXCEPT ![a] = q] /\ UNCHANGED <<row, values>>
    BY DEF Edit, Takes, r, w
  <1> HIDE DEF q
  <1> QED BY <1>3, <1>4, <1>5, FreshRequestStep

LEMMA FreshAtOnce ==
    ASSUME FreshInv, CatalogueInv', NEW p \in Products, Create(p) \/ SoftDelete(p) \/ Restore(p)
    PROVE  FreshInv'
  <1>1. UNCHANGED <<req, crossed>>
    BY DEF Create, SoftDelete, Restore
  <1>2. ASSUME SoftDelete(p) \/ Restore(p) PROVE FreshInv'
    <2>1. UNCHANGED <<row, values>>
      BY <1>2 DEF SoftDelete, Restore
    <2> QED BY <1>1, <2>1 DEF FreshInv, Holds
  <1>3. ASSUME Create(p) PROVE FreshInv'
    <2> PICK c, vs, xs : Inserts(p, c, vs, xs)
      BY <1>3 DEF Create, Inserts
    <2>1. row[p] = NoRow
      BY <1>3 DEF Create, Stored
    <2>2. \A a \in Requests : ~Holds(a, p)
      BY <2>1 DEF Holds, FreshInv, CatalogueInv, TypeOK, Stored
    <2>3. row'[p].category = c /\ values'[p] = xs /\ Fits(c, xs)
      BY DEF Inserts, FreshInv, CatalogueInv, TypeOK
    <2>4. \A x \in Products : x # p => row'[x] = row[x] /\ values'[x] = values[x]
      BY DEF Inserts, FreshInv, CatalogueInv, TypeOK
    <2> QED BY <1>1, <2>2, <2>3, <2>4 DEF FreshInv, Holds
  <1> QED BY <1>2, <1>3

LEMMA FreshSave ==
    ASSUME FreshInv, CatalogueInv', NEW a \in Requests, Save(a)
    PROVE  FreshInv'
  <1> DEFINE p == req[a].of
  <1>1. req[a] # Idle /\ p \in Products
    BY DEF Save, Idle, Request, FreshInv, CatalogueInv, TypeOK
  <1>2. Holds(a, p)
    BY <1>1 DEF Holds
  <1>3. /\ row'[p] = req[a].row /\ values'[p] = Sent(req[a].values, values[p])
        /\ \A x \in Products : x # p => row'[x] = row[x] /\ values'[x] = values[x]
    BY <1>1 DEF Save, FreshInv, CatalogueInv, TypeOK
  <1>4. /\ UNCHANGED crossed
        /\ \A b \in Requests : req'[b] = IF b = a THEN Idle ELSE req[b]
    BY DEF Save, FreshInv, CatalogueInv, TypeOK
  <1>5. \A b \in Requests, x \in Products : Holds(b, x)' => b # a /\ Holds(b, x) /\ req'[b] = req[b]
    BY <1>4 DEF Holds
  <1>6. p \notin crossed => Fits(row'[p].category, values'[p])
    BY <1>1, <1>2, <1>3 DEF FreshInv, Fresh, Save
  <1>7. ASSUME NEW x \in Products, x = p, x \notin crossed, NEW b \in Requests
        PROVE  ~Holds(b, x)'
    <2>1. Holds(b, x)' => b # a /\ Holds(b, x) /\ Holds(a, x)
      BY <1>2, <1>5, <1>7
    <2> QED BY <1>7, <2>1 DEF FreshInv
  <1> HIDE DEF p
  <1> SUFFICES ASSUME NEW x \in Products, x \notin crossed'
               PROVE  /\ row'[x] # NoRow => Fits(row'[x].category, values'[x])
                      /\ \A b, c \in Requests : Holds(b, x)' /\ Holds(c, x)' => b = c
                      /\ \A b \in Requests : Holds(b, x)' => Fresh(req'[b], row'[x], values'[x])
    BY DEF FreshInv
  <1>8. x \notin crossed
    BY <1>4
  <1>9. CASE x = p
    BY <1>6, <1>7, <1>8, <1>9
  <1>10. CASE x # p
    <2>1. row'[x] = row[x] /\ values'[x] = values[x]
      BY <1>3, <1>10
    <2> QED BY <1>5, <1>8, <2>1 DEF FreshInv
  <1> QED BY <1>9, <1>10

LEMMA FreshProceed ==
    ASSUME FreshInv, CatalogueInv', NEW a \in Requests, CheckValues(a) \/ Abandon(a)
    PROVE  FreshInv'
  <1> DEFINE s == [req[a] EXCEPT !.pc = "save"]
  <1>1. req[a] # Idle /\ req[a] \in Request /\ req[a].of \in Products
    BY DEF CheckValues, Abandon, Idle, Request, FreshInv, CatalogueInv, TypeOK
  <1>2. Holds(a, req[a].of) /\ UNCHANGED <<row, values, crossed>>
    BY <1>1 DEF Holds, CheckValues, Abandon
  <1>3. CASE CheckValues(a) /\ FitsAfter(req[a])
    <2>1. /\ s.op = req[a].op /\ s.row = req[a].row /\ s.of = req[a].of /\ s.values = req[a].values
      BY <1>1 DEF Request
    <2>2. s.of \notin crossed => Fresh(s, row[s.of], values[s.of])
      BY <1>1, <1>2, <1>3, <2>1 DEF FreshInv, Fresh, FitsAfter
    <2>3. s.of \notin crossed => \A b \in Requests : b # a => ~Holds(b, s.of)
      BY <1>1, <1>2, <2>1 DEF FreshInv
    <2>4. req' = [req EXCEPT ![a] = s]
      BY <1>3 DEF CheckValues
    <2> HIDE DEF s
    <2> QED BY <1>1, <1>2, <2>1, <2>2, <2>3, <2>4, FreshRequestStep
  <1>4. CASE req' = [req EXCEPT ![a] = Idle]
    BY <1>2, <1>4, FreshRequestStep
  <1> QED BY <1>3, <1>4 DEF CheckValues, Abandon

LEMMA NextFresh == FreshInv /\ [Next]_vars => FreshInv'
  <1> SUFFICES ASSUME FreshInv, [Next]_vars PROVE FreshInv'
    OBVIOUS
  <1>1. CatalogueInv'
    BY NextCatalogue DEF FreshInv
  <1>2. CASE Begin
    BY <1>1, <1>2, FreshDecide, FreshEdit DEF Begin
  <1>3. CASE AtOnce
    BY <1>1, <1>3, FreshAtOnce DEF AtOnce
  <1>4. CASE Proceed
    BY <1>1, <1>4, FreshProceed, FreshSave DEF Proceed
  <1>5. CASE UNCHANGED vars
    BY <1>1, <1>5 DEF vars, FreshInv, Holds
  <1> QED BY <1>2, <1>3, <1>4, <1>5 DEF Next

LEMMA AlwaysFresh == Spec => []FreshInv
  BY InitFresh, NextFresh, PTL DEF Spec

\* The values of every product fit its category, for any categories and
\* attributes and whatever overlaps elsewhere, also after edits that send only
\* one of the two.
THEOREM AlwaysFit == Spec => []ValuesFit
  <1>1. FreshInv => ValuesFit
    BY DEF FreshInv, ValuesFit, Stored
  <1> QED BY <1>1, AlwaysFresh, PTL

\* A status changes only by a save of a decision, along its edge.
LEMMA StatusStep ==
    ASSUME FreshInv, Next, NEW p \in Products \ crossed, Stored(p)
    PROVE  row'[p].status = row[p].status \/ Edge(row[p].status, row'[p].status)
  <1>1. ASSUME NEW a \in Requests, Save(a), p = req[a].of
        PROVE  row'[p].status = row[p].status \/ Edge(row[p].status, row'[p].status)
    <2>1. req[a] # Idle /\ req[a] \in Request
      BY <1>1 DEF Save, Idle, FreshInv, CatalogueInv, TypeOK
    <2>2. Fresh(req[a], row[p], values[p])
      BY <1>1, <2>1 DEF FreshInv, Holds
    <2>3. row'[p] = req[a].row
      BY <1>1 DEF Save, FreshInv, CatalogueInv, TypeOK
    <2>4. req[a].op \in Decisions \cup {"edit"}
      BY <2>1 DEF Request
    <2> QED BY <2>2, <2>3, <2>4 DEF Fresh, Edge
  <1>2. ASSUME NEW a \in Requests, Save(a), p # req[a].of
        PROVE  row'[p] = row[p]
    BY <1>2 DEF Save, FreshInv, CatalogueInv, TypeOK
  <1>3. ASSUME NEW x \in Products, Create(x)
        PROVE  row'[p] = row[p]
    BY <1>3 DEF Create, Stored, FreshInv, CatalogueInv, TypeOK
  <1>4. CASE row' = row
    BY <1>4
  <1> QED BY <1>1, <1>2, <1>3, <1>4 DEF Next, Begin, AtOnce, Proceed, SoftDelete, Restore, Decide,
                                        Edit, CheckValues, Abandon

\* A product's status only moves along the workflow, unless requests for that
\* very product overlapped.
THEOREM OnlyWorkflow == Spec => AlongWorkflow
  <1>1. FreshInv /\ [Next]_vars =>
          [\A p \in Products \ crossed : Stored(p) =>
              row'[p].status = row[p].status \/ Edge(row[p].status, row'[p].status)]_vars
    BY StatusStep
  <1> QED BY <1>1, AlwaysFresh, PTL DEF AlongWorkflow, Spec
=============================================================================
