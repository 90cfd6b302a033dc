---------------------------- MODULE CatalogProofs ----------------------------
(* The denormalized tokens of a product are those of its values, in every      *)
(* state, so that the list finds what the page shows; no product holds values  *)
(* of two definitions with one code, so that the number beside a choice is the *)
(* number of products that choosing it finds.                                  *)
EXTENDS Catalog, FiniteSetTheorems, WellFoundedInduction, TLAPS

Fields(q) == [state |-> q.state, category |-> q.category, brand |-> q.brand, price |-> q.price,
              values |-> q.values, tokens |-> q.tokens]

\* The table is keyed by its products and every row has the columns of one.
Shaped ==
    /\ products = [p \in Products |-> products[p]]
    /\ \A p \in Products : products[p] = Fields(products[p])

\* The tokens were computed from the values now stored.
TokensFresh == \A p \in Products : products[p].tokens = TokensOf(products[p].values)

IInv == Shaped /\ TokensFresh

\* What TokensOf leaves in the array: the options of the values that are no
\* numbers, under the code of their definition.
LEMMA RangeOfTokens ==
    ASSUME NEW values, NEW t
    PROVE  t \in Range(TokensOf(values)) <=>
             \E d \in DOMAIN values : DataType[d] \in Tokenised /\
                \E i \in DOMAIN values[d] : t = <<Code[d], values[d][i]>>
  <1> DEFINE valued == {e \in DOMAIN values : DataType[e] \in Tokenised}
             places == UNION {{<<d, i>> : i \in DOMAIN values[d]} : d \in valued}
  <1>1. TokensOf(values) = [at \in places |-> <<Code[at[1]], values[at[1]][at[2]]>>]
    BY DEF TokensOf
  <1>2. t \in Range(TokensOf(values)) <=>
          \E at \in places : t = <<Code[at[1]], values[at[1]][at[2]]>>
    BY <1>1 DEF Range
  <1>3. ASSUME NEW at \in places
        PROVE  \E d \in valued : \E i \in DOMAIN values[d] : at = <<d, i>>
    OBVIOUS
  <1>4. ASSUME NEW d \in valued, NEW i \in DOMAIN values[d]
        PROVE  <<d, i>> \in places /\ <<d, i>>[1] = d /\ <<d, i>>[2] = i
    OBVIOUS
  <1>5. ASSUME t \in Range(TokensOf(values))
        PROVE  \E d \in valued : \E i \in DOMAIN values[d] : t = <<Code[d], values[d][i]>>
    <2>1. PICK at \in places : t = <<Code[at[1]], values[at[1]][at[2]]>> BY <1>2, <1>5
    <2>2. PICK d \in valued : \E i \in DOMAIN values[d] : at = <<d, i>> BY <1>3
    <2>3. PICK i \in DOMAIN values[d] : at = <<d, i>> BY <2>2
    <2>4. at[1] = d /\ at[2] = i BY <2>3
    <2> QED BY <2>1, <2>4
  <1>6. ASSUME NEW d \in valued, NEW i \in DOMAIN values[d], t = <<Code[d], values[d][i]>>
        PROVE  t \in Range(TokensOf(values))
    <2> HIDE DEF places
    <2> QED BY <1>2, <1>4, <1>6
  <1> QED BY <1>5, <1>6

\* A new product has no values and no tokens.
LEMMA NoTokens == TokensOf(<<>>) = <<>>
  <1>1. DOMAIN <<>> = {} OBVIOUS
  <1>2. TokensOf(<<>>) = [at \in {} |-> <<Code[at[1]], <<>>[at[1]][at[2]]>>]
    BY <1>1 DEF TokensOf
  <1> QED BY <1>2

\* A row that is written has the columns, and the tokens of its values.
LEMMA WrittenFresh ==
    ASSUME NEW p \in Products, NEW q, NEW state, IInv
    PROVE  /\ Written(p, q, state) = Fields(Written(p, q, state))
           /\ Written(p, q, state).tokens = TokensOf(Written(p, q, state).values)
  <1>1. products[p].tokens = TokensOf(products[p].values) BY DEF IInv, TokensFresh
  <1> QED BY <1>1 DEF Written, Sent, Fields

\* Replacing one row by such a row keeps the invariant.
LEMMA ReplaceFresh ==
    ASSUME NEW p, NEW row, IInv,
           p \in Products => row = Fields(row) /\ row.tokens = TokensOf(row.values),
           products' = [products EXCEPT ![p] = row]
    PROVE  IInv'
  <1>1. products' = [x \in Products |-> IF x = p THEN row ELSE products[x]]
    BY DEF IInv, Shaped
  <1>2. ASSUME NEW x \in Products
        PROVE  /\ products'[x] = Fields(products'[x])
               /\ products'[x].tokens = TokensOf(products'[x].values)
    <2>1. CASE x = p BY <1>1, <2>1
    <2>2. CASE x # p
      <3>1. products'[x] = products[x] BY <1>1, <2>2
      <3>2. products[x] = Fields(products[x]) /\ products[x].tokens = TokensOf(products[x].values)
        BY DEF IInv, Shaped, TokensFresh
      <3> QED BY <3>1, <3>2
    <2> QED BY <2>1, <2>2
  <1>3. Shaped' BY <1>1, <1>2 DEF Shaped, Fields
  <1>4. TokensFresh' BY <1>2 DEF TokensFresh, TokensOf
  <1> QED BY <1>3, <1>4 DEF IInv

\* Deleting and restoring a product touches nothing else of it.
LEMMA StateFresh ==
    ASSUME NEW p \in Products, NEW state, IInv,
           products' = [products EXCEPT ![p].state = state]
    PROVE  IInv'
  <1> DEFINE row == [products[p] EXCEPT !.state = state]
  <1>1. products[p] = Fields(products[p]) /\ products[p].tokens = TokensOf(products[p].values)
    BY DEF IInv, Shaped, TokensFresh
  <1>2. row = [Fields(products[p]) EXCEPT !.state = state] BY <1>1
  <1>3. row = Fields(row) /\ row.tokens = products[p].tokens /\ row.values = products[p].values
    BY <1>2 DEF Fields
  <1>4. products' = [products EXCEPT ![p] = row] OBVIOUS
  <1>5. row.tokens = TokensOf(row.values) BY <1>1, <1>3
  <1> HIDE DEF row
  <1> QED BY <1>3, <1>4, <1>5, ReplaceFresh

\* The invariant holds before anything is stored.
LEMMA InitFresh == Init => IInv
  <1> SUFFICES ASSUME Init PROVE IInv OBVIOUS
  <1>1. products = [p \in Products |-> NoProduct] BY DEF Init
  <1>2. NoProduct = Fields(NoProduct) BY DEF NoProduct, Fields
  <1>3. NoProduct.tokens = TokensOf(NoProduct.values) BY NoTokens DEF NoProduct
  <1> QED BY <1>1, <1>2, <1>3 DEF IInv, Shaped, TokensFresh

\* Every step keeps the invariant.
LEMMA NextFresh == IInv /\ [Next]_vars => IInv'
  <1> SUFFICES ASSUME IInv, [Next]_vars PROVE IInv' OBVIOUS
  <1>1. CASE UNCHANGED products
    BY <1>1 DEF IInv, Shaped, TokensFresh, Fields, TokensOf
  <1>2. ASSUME NEW r \in Requests, StoreCreate(r) PROVE IInv'
    <2>1. PICK p \in Products : products' = [products EXCEPT ![p] = Written(p, saving[r], "live")]
      BY <1>2 DEF StoreCreate
    <2> QED BY <2>1, WrittenFresh, ReplaceFresh
  <1>3. ASSUME NEW r \in Requests, StoreUpdate(r) PROVE IInv'
    <2> DEFINE p == saving[r].of
    <2>1. products' = [products EXCEPT ![p] = Written(p, saving[r], products[p].state)]
      BY <1>3 DEF StoreUpdate
    <2> HIDE DEF p
    <2> QED BY <2>1, WrittenFresh, ReplaceFresh
  <1>4. ASSUME NEW p \in Products, DeleteProduct(p) PROVE IInv'
    BY <1>4, StateFresh DEF DeleteProduct
  <1>5. ASSUME NEW p \in Products, RestoreProduct(p) PROVE IInv'
    BY <1>5, StateFresh DEF RestoreProduct
  <1>6. DefinitionStep => UNCHANGED products
    BY DEF DefinitionStep, CreateDefinition, UpdateDefinition, DeleteDefinition,
           RestoreDefinition, AttachCategory, DetachCategory
  <1>7. \A r \in Requests : Validate(r) \/ Abandon(r) => UNCHANGED products
    BY DEF Validate, Abandon
  <1>8. \A r \in Requests, form \in Forms :
          StartCreate(r, form) \/ (\E p \in Products : StartUpdate(r, p, form))
            => UNCHANGED products
    BY DEF StartCreate, StartUpdate
  <1>9. CASE UNCHANGED vars BY <1>1, <1>9 DEF vars
  <1> QED BY <1>1, <1>2, <1>3, <1>4, <1>5, <1>6, <1>7, <1>8, <1>9 DEF Next, ProductStep

\* The tokens of every product are always those of its values
\* (facet_repository.go:13-18), for any products, forms and definitions.
THEOREM AlwaysFresh == Spec => []TokensFresh
  <1>1. IInv => TokensFresh BY DEF IInv
  <1> QED BY <1>1, InitFresh, NextFresh, PTL DEF Spec

\* Asking for one option of the whole catalogue finds the live products that have
\* its token.
LEMMA FindsByToken ==
    ASSUME NEW p \in LiveProducts, NEW t
    PROVE  p \in List([AnyProduct EXCEPT !.tokens = {t}], <<>>) <=> t \in Range(products[p].tokens)
  <1> DEFINE f == [AnyProduct EXCEPT !.tokens = {t}]
             q == products[p]
  <1>1. /\ f.category = None /\ f.categories = {} /\ f.brands = {} /\ f.min = None /\ f.max = None
        /\ f.tokens = {t} /\ f.ranges = <<>>
    BY DEF AnyProduct
  <1>2. p \in Products /\ q.state = "live" BY DEF LiveProducts
  <1>3. <<>> # <<"attribute", t[1]>> OBVIOUS
  <1>4. DOMAIN f.ranges = {} BY <1>1
  <1>5. {u[1] : u \in f.tokens} = {t[1]} BY <1>1
  <1> HIDE DEF f
  <1>6. HasOption(f, q, t[1]) <=> t \in Range(q.tokens) BY <1>1 DEF HasOption
  <1>7. InScope(f, q) /\ OfBrand(f, q) /\ InPrice(f, q) BY <1>1 DEF InScope, OfBrand, InPrice
  <1>8. Matches(f, <<>>, q) <=> HasOption(f, q, t[1])
    BY <1>2, <1>3, <1>4, <1>5, <1>7 DEF Matches
  <1>9. p \in List(f, <<>>) <=> Matches(f, <<>>, q) BY <1>2 DEF List
  <1> QED BY <1>6, <1>8, <1>9 DEF f

\* A product is found by an option exactly if its page shows it, or showed it
\* until its definition was deleted, for any catalogue.
THEOREM AlwaysFoundAsShown == Spec => []FoundAsShown
  <1>1. ASSUME TokensFresh PROVE FoundAsShown
    <2> SUFFICES ASSUME NEW p \in LiveProducts, NEW t \in TokensIn(products[p])
                 PROVE  LET found == p \in List([AnyProduct EXCEPT !.tokens = {t}], <<>>)
                        IN  /\ Shows(Shown(p), t) => found
                            /\ found => Shows(products[p].values, t)
      BY DEF FoundAsShown
    <2> DEFINE values == products[p].values
    <2>1. PICK sent : t \in Range(TokensOf(sent)) BY DEF TokensIn
    <2>2. PICK d, o : t = <<d, o>> BY <2>1, RangeOfTokens
    <2>3. p \in List([AnyProduct EXCEPT !.tokens = {t}], <<>>) <=> t \in Range(TokensOf(values))
      <3>1. products[p].tokens = TokensOf(values) BY <1>1 DEF TokensFresh, LiveProducts
      <3> QED BY <3>1, FindsByToken
    <2>4. t \in Range(TokensOf(values)) <=> Shows(values, t)
      <3>1. t \in Range(TokensOf(values)) <=>
              \E e \in DOMAIN values : DataType[e] \in Tokenised /\
                \E i \in DOMAIN values[e] : t = <<Code[e], values[e][i]>>
        BY RangeOfTokens
      <3>2. \A e, i : t = <<Code[e], values[e][i]>> <=> Code[e] = t[1] /\ values[e][i] = t[2]
        BY <2>2
      <3> QED BY <3>1, <3>2 DEF Shows, Range
    <2>5. Shows(Shown(p), t) => Shows(values, t) BY DEF Shows, Shown, Range
    <2> QED BY <2>3, <2>4, <2>5
  <1> QED BY <1>1, AlwaysFresh, PTL

-----------------------------------------------------------------------------
(* The ranges suggested for a number attribute count no value twice and lose   *)
(* none but what is below the first, whatever the values, the width of a range *)
(* and the rounding.                                                           *)

\* Multiplying by a width keeps the order.
LEMMA LeqTimes ==
    ASSUME NEW a \in Int, NEW b \in Int, NEW d \in Nat, a <= b
    PROVE  a * d <= b * d
  <1>1. (b - a) * d >= 0 BY b - a >= 0
  <1>2. (b - a) * d = b * d - a * d OBVIOUS
  <1> QED BY <1>1, <1>2

\* A number lies between two neighbouring multiples.
LEMMA DivBounds ==
    ASSUME NEW a \in Int, NEW d \in Nat \ {0}
    PROVE  /\ a \div d \in Int
           /\ (a \div d) * d <= a
           /\ a < (a \div d) * d + d
  OBVIOUS

\* A finite set of numbers has a greatest one: fewest are above it.
LEMMA HasMax ==
    ASSUME NEW S \in SUBSET Int, IsFiniteSet(S), S # {}
    PROVE  F!Max(S) \in S /\ \A y \in S : y <= F!Max(S)
  <1> DEFINE above(x) == {y \in S : y > x}
             T == {Cardinality(above(x)) : x \in S}
  <1>1. \A x \in S : IsFiniteSet(above(x)) /\ Cardinality(above(x)) \in Nat
    <2>1. \A x \in S : above(x) \in SUBSET S OBVIOUS
    <2> HIDE DEF above
    <2> QED BY <2>1, FS_Subset, FS_CardinalityType
  <1>2. T \subseteq Nat /\ T # {} BY <1>1
  <1>3. \E c \in T : \A d \in T : ~(<<d, c>> \in OpToRel(<, Nat))
    BY <1>2, NatLessThanWellFounded, WFMin
  <1>4. \A c \in T, d \in T : d < c => <<d, c>> \in OpToRel(<, Nat) BY <1>2 DEF OpToRel
  <1>5. PICK c \in T : \A d \in T : ~(d < c) BY <1>3, <1>4
  <1>6. PICK x \in S : c = Cardinality(above(x)) OBVIOUS
  <1>7. ASSUME NEW y \in S, y > x PROVE FALSE
    <2>0. x \in Int /\ y \in Int BY <1>6, <1>7
    <2>1. above(y) \in SUBSET above(x) /\ y \in above(x) /\ y \notin above(y)
      <3>1. \A z \in above(y) : z \in S /\ z > y /\ z \in Int OBVIOUS
      <3>2. \A z \in above(y) : z > x BY <1>7, <2>0, <3>1
      <3>3. y \in above(x) BY <1>7
      <3>4. y \notin above(y) BY <2>0
      <3>5. \A z \in above(y) : z \in above(x) BY <3>1, <3>2
      <3> HIDE DEF above
      <3> QED BY <3>3, <3>4, <3>5
    <2>2. Cardinality(above(y)) \in T OBVIOUS
    <2> HIDE DEF above, T
    <2>3. Cardinality(above(y)) <= Cardinality(above(x)) /\ above(x) # above(y)
      BY <1>1, <2>1, FS_Subset
    <2>4. Cardinality(above(y)) # Cardinality(above(x)) BY <1>1, <2>1, <2>3, FS_Subset
    <2> QED BY <1>1, <1>5, <1>6, <2>2, <2>3, <2>4
  <1>8. \A y \in S : x >= y BY <1>7
  <1>9. F!Max(S) \in S /\ \A y \in S : F!Max(S) >= y BY <1>8 DEF F!Max
  <1> QED BY <1>9

LEMMA HasMin ==
    ASSUME NEW S \in SUBSET Int, IsFiniteSet(S), S # {}
    PROVE  F!Min(S) \in S /\ \A y \in S : F!Min(S) <= y
  <1> DEFINE N == {-x : x \in S}
  <1>1. [x \in S |-> -x] \in Surjection(S, N) BY DEF Surjection
  <1>2. IsFiniteSet(N) /\ N \in SUBSET Int /\ N # {}
    <2>1. IsFiniteSet(N) BY <1>1, FS_Surjection
    <2>2. \A x \in S : -x \in Int OBVIOUS
    <2>3. N \subseteq Int /\ N # {} BY <2>2
    <2> QED BY <2>1, <2>3
  <1>3. F!Max(N) \in N /\ \A y \in N : y <= F!Max(N) BY <1>2, HasMax
  <1>4. PICK m \in S : F!Max(N) = -m BY <1>3
  <1>5. \A y \in S : -y \in N OBVIOUS
  <1> HIDE DEF N
  <1>6. \A y \in S : m <= y BY <1>3, <1>4, <1>5
  <1> QED BY <1>6 DEF F!Min

\* A start is its multiple of the width, but for a rounding error.
LEMMA Starts ==
    ASSUME NEW min \in Int, NEW step \in Nat \ {0}, NEW k \in Int
    PROVE  /\ Quotient(min, step) \in Int
           /\ (Quotient(min, step) + k) * step \in Int
           /\ \E d \in {-1, 0, 1} :
                /\ Start(min, step, k) = (Quotient(min, step) + k) * step + d
                /\ d # 0 => step >= 3
           /\ Start(min, step, k) \in Int
  <1> DEFINE at == <<min, step, k>>
             d == IF at \in DOMAIN Drift THEN Drift[at] ELSE 0
  <1>1. Quotient(min, step) \in Int BY DivBounds DEF Quotient
  <1>2. (Quotient(min, step) + k) * step \in Int BY <1>1
  <1>3. d \in {-1, 0, 1} /\ (d # 0 => step >= 3)
    <2>1. at[2] = step OBVIOUS
    <2> HIDE DEF at
    <2> QED BY <2>1, RoundingAssumption
  <1>4. Start(min, step, k) = (Quotient(min, step) + k) * step + d BY DEF Start
  <1> HIDE DEF d
  <1> QED BY <1>1, <1>2, <1>3, <1>4

\* A later range starts later.
LEMMA StartsRise ==
    ASSUME NEW min \in Int, NEW step \in Nat \ {0}, NEW j \in Int, NEW k \in Int, j < k
    PROVE  Start(min, step, j) < Start(min, step, k)
  <1> DEFINE Q == Quotient(min, step)
  <1>1. Q \in Int BY Starts
  <1>2. PICK d \in {-1, 0, 1} : Start(min, step, j) = (Q + j) * step + d /\ (d # 0 => step >= 3)
    BY Starts
  <1>3. PICK e \in {-1, 0, 1} : Start(min, step, k) = (Q + k) * step + e /\ (e # 0 => step >= 3)
    BY Starts
  <1> HIDE DEF Q
  <1>4. (Q + j + 1) * step <= (Q + k) * step BY <1>1, LeqTimes
  <1>5. (Q + j + 1) * step = (Q + j) * step + step BY <1>1
  <1>6. (Q + j) * step \in Int /\ (Q + k) * step \in Int BY <1>1
  <1> QED BY <1>2, <1>3, <1>4, <1>5, <1>6

\* The first range starts at or below the least value, but for a rounding error.
LEMMA FirstStart ==
    ASSUME NEW min \in Int, NEW step \in Nat \ {0}
    PROVE  /\ Start(min, step, 0) <= min + 1
           /\ step < 3 => Start(min, step, 0) <= min
  <1> DEFINE Q == Quotient(min, step)
             q == min \div step
  <1>1. q \in Int /\ q * step <= min BY DivBounds
  <1>2. Q = q \/ Q = q - 1 BY DEF Quotient
  <1>3. Q \in Int BY Starts
  <1>4. \A k \in Int : \E d \in {-1, 0, 1} :
          Start(min, step, k) = (Q + k) * step + d /\ (d # 0 => step >= 3)
    BY Starts
  <1>5. PICK d \in {-1, 0, 1} : Start(min, step, 0) = (Q + 0) * step + d /\ (d # 0 => step >= 3)
    BY <1>4
  <1> HIDE DEF Q, q
  <1>6. Q * step <= q * step BY <1>1, <1>2, <1>3, LeqTimes
  <1>7. (Q + 0) * step = Q * step /\ Q * step \in Int /\ q * step \in Int BY <1>1, <1>3
  <1> QED BY <1>1, <1>5, <1>6, <1>7

\* Far enough, a start is past the greatest value.
LEMMA LastStart ==
    ASSUME NEW min \in Int, NEW max \in Int, min <= max, NEW step \in Nat \ {0}
    PROVE  Start(min, step, max - min + 3 * step) > max
  <1> DEFINE Q == Quotient(min, step)
             q == min \div step
             n == max - min + 3 * step
  <1>1. q \in Int /\ min < q * step + step BY DivBounds
  <1>2. Q = q \/ Q = q - 1 BY DEF Quotient
  <1>3. n \in Nat OBVIOUS
  <1>4. PICK d \in {-1, 0, 1} : Start(min, step, n) = (Q + n) * step + d
    BY <1>3, Starts
  <1> HIDE DEF Q, q
  <1>5. (q - 1) * step <= Q * step BY <1>1, <1>2, LeqTimes
  <1>6. (q - 1) * step = q * step - step BY <1>1
  <1>7. Q \in Int BY <1>1, <1>2
  <1>8. 1 * n <= step * n
    <2> HIDE DEF n
    <2> QED BY <1>3, LeqTimes
  <1>9. (Q + n) * step = Q * step + step * n
    <2> HIDE DEF n
    <2> QED BY <1>3, <1>7
  <1>10. Q * step \in Int /\ q * step \in Int /\ step * n \in Int
    <2> HIDE DEF n
    <2> QED BY <1>1, <1>3, <1>7
  <1>11. Q * step >= min - 2 * step + 1 BY <1>1, <1>5, <1>6, <1>10
  <1>12. step * n >= max - min + 3 * step BY <1>8, <1>10
  <1>13. Start(min, step, n) >= max + step
    <2> HIDE DEF n
    <2> QED BY <1>4, <1>9, <1>10, <1>11, <1>12
  <1>14. n \in Int /\ Start(min, step, n) \in Int BY Starts
  <1> HIDE DEF n
  <1>15. Start(min, step, n) > max BY <1>13, <1>14
  <1> QED BY <1>15 DEF n

\* The ranges of BuildNumberBuckets (number_bucket.go:62-73) overlap nowhere: no
\* value is counted in two of them, the greatest included, wherever rounding puts
\* their bounds.
THEOREM CountedOnce ==
    ASSUME NEW min \in Int, NEW max \in Int, NEW step \in Nat \ {0}, NEW v \in Int,
           NEW j \in Steps(min, max, step), NEW k \in Steps(min, max, step),
           InStep(v, min, max, step, j), InStep(v, min, max, step, k)
    PROVE  j = k
  <1>1. j \in Int /\ k \in Int BY DEF Steps
  <1>2. ASSUME NEW a \in Steps(min, max, step), NEW b \in Steps(min, max, step), a < b,
               InStep(v, min, max, step, a), InStep(v, min, max, step, b)
        PROVE  FALSE
    <2>1. a \in Int /\ b \in Int /\ a + 1 \in Int /\ a + 1 <= b BY <1>2 DEF Steps
    <2>2. Start(min, step, a + 1) \in Int /\ Start(min, step, b) \in Int BY <2>1, Starts
    <2>3. a + 1 = b \/ Start(min, step, a + 1) < Start(min, step, b) BY <2>1, StartsRise
    <2>4. Start(min, step, b) <= v BY <1>2, <2>2 DEF InStep
    <2>5. Start(min, step, b) < max BY DEF Steps
    <2>6. v < Start(min, step, a + 1) \/ Start(min, step, a + 1) >= max BY <1>2 DEF InStep
    <2> QED BY <2>2, <2>3, <2>4, <2>5, <2>6
  <1> QED BY <1>1, <1>2

\* The ranges of BuildNumberBuckets leave out no value from the first start on: they
\* meet, and the last one is closed.
THEOREM CountedSomewhere ==
    ASSUME NEW min \in Int, NEW max \in Int, min <= max, NEW step \in Nat \ {0},
           Start(min, step, 0) < max,
           NEW v \in Int, Start(min, step, 0) <= v, v <= max
    PROVE  \E k \in Steps(min, max, step) : InStep(v, min, max, step, k)
  <1> DEFINE n == max - min + 3 * step
             K == {k \in 0..n : Start(min, step, k) <= v}
             last == F!Max(K)
  <1>1. n \in Nat OBVIOUS
  <1>2. \A k \in Int : Start(min, step, k) \in Int BY Starts
  <1>3. IsFiniteSet(K) /\ K \in SUBSET Int
    <2> HIDE DEF n
    <2>1. IsFiniteSet(0..n) BY <1>1, FS_Interval
    <2>2. K \in SUBSET (0..n) OBVIOUS
    <2> HIDE DEF K
    <2>3. IsFiniteSet(K) BY <2>1, <2>2, FS_Subset
    <2>4. \A k \in K : k \in Int BY <2>2
    <2> QED BY <2>3, <2>4
  <1>4. 0 \in K
    <2> HIDE DEF n
    <2> QED BY <1>1
  <1>5. Start(min, step, n) > max BY LastStart
  <1> HIDE DEF n
  <1>6. \A k \in K : k \in 0..n /\ k \in Int /\ Start(min, step, k) <= v BY <1>1
  <1>7. n \notin K BY <1>1, <1>2, <1>5, <1>6
  <1>8. \A k \in 0..n : k \notin K => Start(min, step, k) > v BY <1>1, <1>2
  <1> HIDE DEF K
  <1>9. last \in K /\ \A k \in K : k <= last BY <1>3, <1>4, HasMax
  <1> HIDE DEF last
  <1>10. last \in Int /\ 0 <= last /\ last < n /\ last + 1 \in 0..n
    BY <1>1, <1>6, <1>7, <1>9
  <1>11. last + 1 \notin K BY <1>9, <1>10
  <1>12. Start(min, step, last) <= v /\ v < Start(min, step, last + 1)
    BY <1>6, <1>8, <1>9, <1>10, <1>11
  <1>13. \A k \in 0..n : Start(min, step, k) < max => k \in Steps(min, max, step)
    BY DEF Steps, n
  <1>14. CASE Start(min, step, last) < max
    <2>1. InStep(v, min, max, step, last) BY <1>2, <1>10, <1>12 DEF InStep
    <2>2. last \in 0..n BY <1>1, <1>10
    <2> QED BY <1>13, <1>14, <2>1, <2>2
  <1>15. CASE Start(min, step, last) >= max
    <2>1. Start(min, step, last) = max /\ v = max BY <1>2, <1>10, <1>12, <1>15
    <2>2. last # 0 BY <2>1
    <2>3. last - 1 \in 0..n /\ (last - 1) + 1 = last BY <1>1, <1>10, <2>2
    <2>4. Start(min, step, last - 1) < Start(min, step, last)
      <3>1. last - 1 \in Int /\ last - 1 < last BY <1>10
      <3> QED BY <1>10, <3>1, StartsRise
    <2>5. InStep(v, min, max, step, last - 1) BY <1>2, <1>10, <2>1, <2>3, <2>4 DEF InStep
    <2> QED BY <1>13, <2>1, <2>3, <2>4, <2>5
  <1> QED BY <1>2, <1>10, <1>14, <1>15

\* A step is at least 1, and no more for a range of 1.
LEMMA NiceNumberPositive ==
    ASSUME NEW range \in Int
    PROVE  NiceNumber(range) \in Nat \ {0} /\ (range = 1 => NiceNumber(range) = 1)
  <1> DEFINE powers == {10^e : e \in 0..MaxExponent}
             units == {1} \cup {u \in powers : TargetRangeBucketCount * u <= range}
             unit == F!Max(units)
             t == TargetRangeBucketCount * unit
  <1>1. IsFiniteSet(units) /\ units \in SUBSET Int
    <2>1. IsFiniteSet(0..MaxExponent) BY FS_Interval, BucketAssumption
    <2>2. [e \in 0..MaxExponent |-> 10^e] \in Surjection(0..MaxExponent, powers)
      BY DEF Surjection
    <2>3. IsFiniteSet(powers) BY <2>1, <2>2, FS_Surjection
    <2>4. \A e \in 0..MaxExponent : 10^e \in Int
      <3>1. \A e \in Nat : 10^e \in Int OBVIOUS
      <3> QED BY <3>1, BucketAssumption
    <2>5. \A u \in powers : u \in Int BY <2>4
    <2> HIDE DEF powers
    <2>6. {u \in powers : TargetRangeBucketCount * u <= range} \in SUBSET powers OBVIOUS
    <2>7. IsFiniteSet({u \in powers : TargetRangeBucketCount * u <= range})
      BY <2>3, <2>6, FS_Subset
    <2>8. IsFiniteSet({1}) BY FS_Singleton
    <2>9. IsFiniteSet(units) BY <2>7, <2>8, FS_Union
    <2>10. \A u \in units : u = 1 \/ u \in powers OBVIOUS
    <2> HIDE DEF units
    <2>11. ASSUME NEW u \in units PROVE u \in Int
      <3>1. CASE u = 1 BY <3>1
      <3>2. CASE u \in powers BY <2>5, <3>2
      <3> QED BY <2>10, <3>1, <3>2
    <2> QED BY <2>9, <2>11
  <1>2. 1 \in units OBVIOUS
  <1>3. \A u \in units : u = 1 \/ TargetRangeBucketCount * u <= range OBVIOUS
  <1> DEFINE Under(a, limit) == a < limit \/ (a = limit /\ range \in Low)
  <1>4. NiceNumber(range) =
          CASE Under(2 * range, 3 * t) -> unit
            [] ~Under(2 * range, 3 * t) /\ Under(range, 3 * t) -> 2 * unit
            [] ~Under(range, 3 * t) /\ Under(range, 7 * t) -> 5 * unit
            [] OTHER -> 10 * unit
    BY DEF NiceNumber, units
  <1> HIDE DEF units
  <1>5. unit \in units /\ unit \in Int /\ 1 <= unit BY <1>1, <1>2, HasMax
  <1> HIDE DEF unit
  <1>6. t \in Int BY <1>5, BucketAssumption
  <1>7. range = 1 => unit = 1
    <2>1. TargetRangeBucketCount * unit <= 1 => unit = 1
      <3>1. unit * 1 <= unit * TargetRangeBucketCount BY <1>5, BucketAssumption
      <3> QED BY <1>5, <3>1, BucketAssumption
    <2> QED BY <1>3, <1>5, <2>1
  <1>8. range = 1 => 2 * range < 3 * t
    <2>1. range = 1 => t = TargetRangeBucketCount BY <1>7, BucketAssumption
    <2> QED BY <2>1, BucketAssumption
  <1>9. range = 1 => Under(2 * range, 3 * t) BY <1>8
  <1> HIDE DEF t
  <1>10. NiceNumber(range) \in {unit, 2 * unit, 5 * unit, 10 * unit} BY <1>4
  <1>11. range = 1 => NiceNumber(range) = unit
    <2>1. range = 1 => range < 3 * t BY <1>6, <1>8
    <2>2. range = 1 => Under(2 * range, 3 * t) /\ Under(range, 3 * t) BY <1>9, <2>1
    <2> HIDE DEF Under
    <2> QED BY <1>4, <2>2
  <1> QED BY <1>5, <1>7, <1>10, <1>11

-----------------------------------------------------------------------------
(* The buckets account for every value, once.  CountSum, the sum of their      *)
(* counts, is a fold: one bucket and the sum of the others, in the order the   *)
(* fold chooses.                                                               *)
\* Induction on the naturals, for a set of them.
LEMMA AllNaturals ==
    ASSUME NEW T \in SUBSET Nat, 0 \in T, \A n \in T : n + 1 \in T
    PROVE  \A n \in Nat : n \in T
  <1> SUFFICES ASSUME Nat \ T # {} PROVE FALSE OBVIOUS
  <1>1. \E c \in Nat \ T : \A d \in Nat \ T : ~(<<d, c>> \in OpToRel(<, Nat))
    BY NatLessThanWellFounded, WFMin
  <1>2. \A c \in Nat, d \in Nat : d < c => <<d, c>> \in OpToRel(<, Nat) BY DEF OpToRel
  <1>3. PICK c \in Nat \ T : \A d \in Nat \ T : ~(d < c) BY <1>1, <1>2
  <1>4. c - 1 \in Nat /\ c - 1 < c /\ (c - 1) + 1 = c BY <1>3
  <1> QED BY <1>3, <1>4

Some(s) == CHOOSE x \in s : TRUE
SumStep(g, s) == IF s = {} THEN 0 ELSE Some(s).count + g[s \ {Some(s)}]

\* A sum over a finite set is one element and the sum over the others.
LEMMA SumExists ==
    ASSUME NEW S, IsFiniteSet(S)
    PROVE  \E g : g = [s \in SUBSET S |-> SumStep(g, s)]
  <1> DEFINE Upto(n) == \E g : \A s \in SUBSET S : Cardinality(s) <= n => g[s] = SumStep(g, s)
             T == {n \in Nat : Upto(n)}
  <1>1. \A s \in SUBSET S : IsFiniteSet(s) /\ Cardinality(s) \in Nat
    BY FS_Subset, FS_CardinalityType
  <1>2. Upto(0)
    <2> DEFINE g == [s \in SUBSET S |-> 0]
    <2>1. ASSUME NEW s \in SUBSET S, Cardinality(s) <= 0 PROVE g[s] = SumStep(g, s)
      <3>1. s = {} BY <1>1, <2>1, FS_EmptySet
      <3> QED BY <3>1 DEF SumStep
    <2> HIDE DEF g
    <2> QED BY <2>1
  <1>3. ASSUME NEW n \in Nat, Upto(n) PROVE Upto(n + 1)
    <2>1. PICK g : \A s \in SUBSET S : Cardinality(s) <= n => g[s] = SumStep(g, s)
      BY <1>3
    <2> DEFINE h == [s \in SUBSET S |-> SumStep(g, s)]
    <2>2. ASSUME NEW s \in SUBSET S, Cardinality(s) <= n + 1 PROVE h[s] = SumStep(h, s)
      <3>1. CASE s = {} BY <3>1 DEF SumStep
      <3>2. CASE s # {}
        <4> DEFINE x == Some(s)
                   t == s \ {x}
        <4>1. x \in s BY <3>2 DEF Some
        <4>2. t \in SUBSET S /\ Cardinality(t) = Cardinality(s) - 1
          BY <1>1, <4>1, FS_RemoveElement
        <4>3. Cardinality(t) <= n BY <1>1, <2>2, <4>2
        <4>4. g[t] = SumStep(g, t) BY <2>1, <4>2, <4>3
        <4>5. h[t] = g[t] BY <4>2, <4>4
        <4>6. h[s] = SumStep(g, s) OBVIOUS
        <4> HIDE DEF h
        <4> QED BY <3>2, <4>5, <4>6 DEF SumStep
      <3> QED BY <3>1, <3>2
    <2> HIDE DEF h
    <2> QED BY <2>2
  <1> HIDE DEF Upto
  <1>4. T \in SUBSET Nat /\ 0 \in T /\ \A n \in T : n + 1 \in T BY <1>2, <1>3
  <1> HIDE DEF T
  <1>5. Upto(Cardinality(S))
    <2>1. \A n \in Nat : n \in T BY <1>4, AllNaturals
    <2>2. Cardinality(S) \in T BY <1>1, <2>1
    <2> QED BY <2>2 DEF T
  <1>6. PICK g : \A s \in SUBSET S : Cardinality(s) <= Cardinality(S) => g[s] = SumStep(g, s)
    BY <1>5 DEF Upto
  <1> DEFINE h == [s \in SUBSET S |-> g[s]]
  <1>7. ASSUME NEW s \in SUBSET S PROVE h[s] = SumStep(h, s)
    <2>1. Cardinality(s) <= Cardinality(S) BY FS_Subset
    <2>2. h[s] = SumStep(g, s) BY <1>6, <2>1
    <2>3. s \ {Some(s)} \in SUBSET S OBVIOUS
    <2>4. h[s \ {Some(s)}] = g[s \ {Some(s)}] BY <2>3
    <2> HIDE DEF h
    <2> QED BY <2>2, <2>4 DEF SumStep
  <1>8. h = [s \in SUBSET S |-> h[s]] OBVIOUS
  <1> HIDE DEF h
  <1>9. h = [s \in SUBSET S |-> SumStep(h, s)] BY <1>7, <1>8
  <1> QED BY <1>9

CountSum(S) == F!MapThenSumSet(LAMBDA b : b.count, S)

\* The fold is that sum.
LEMMA SumIs ==
    ASSUME NEW S, IsFiniteSet(S)
    PROVE  \E g : CountSum(S) = g[S] /\ \A s \in SUBSET S : g[s] = SumStep(g, s)
  <1> DEFINE g == CHOOSE iter : iter = [s \in SUBSET S |-> SumStep(iter, s)]
  <1>1. g = [s \in SUBSET S |-> SumStep(g, s)] BY SumExists
  <1>2. CountSum(S) = g[S]
    BY DEF CountSum, SumStep, Some, F!MapThenSumSet, F!MapThenFoldSet
  <1> HIDE DEF g
  <1>3. ASSUME NEW s \in SUBSET S PROVE g[s] = SumStep(g, s)
    BY <1>1
  <1> QED BY <1>2, <1>3

\* Buckets that count a set of indices each, no index twice and none missing.
LEMMA SumOfParts ==
    ASSUME NEW D, IsFiniteSet(D), NEW B, IsFiniteSet(B), NEW W \in [B -> SUBSET D],
           \A b \in B : b.count = Cardinality(W[b]),
           \A b \in B, c \in B : b # c => W[b] \cap W[c] = {},
           \A i \in D : \E b \in B : i \in W[b]
    PROVE  CountSum(B) = Cardinality(D)
  <1>1. PICK g : CountSum(B) = g[B] /\ \A s \in SUBSET B : g[s] = SumStep(g, s) BY SumIs
  <1> DEFINE All(s) == UNION {W[b] : b \in s}
             T == {n \in Nat : \A s \in SUBSET B :
                                 Cardinality(s) <= n => g[s] = Cardinality(All(s))}
  <1>2. \A s \in SUBSET B : IsFiniteSet(s) /\ Cardinality(s) \in Nat
    BY FS_Subset, FS_CardinalityType
  <1>3. \A s \in SUBSET B : All(s) \in SUBSET D OBVIOUS
  <1>4. \A s \in SUBSET B : IsFiniteSet(All(s)) /\ Cardinality(All(s)) \in Nat
    <2> HIDE DEF All
    <2> QED BY <1>3, FS_Subset, FS_CardinalityType
  <1>5. 0 \in T
    <2>1. ASSUME NEW s \in SUBSET B, Cardinality(s) <= 0 PROVE g[s] = Cardinality(All(s))
      <3>1. s = {} BY <1>2, <2>1, FS_EmptySet
      <3>2. All(s) = {} BY <3>1
      <3> QED BY <1>1, <3>1, <3>2, FS_EmptySet DEF SumStep
    <2> QED BY <2>1
  <1>6. ASSUME NEW n \in T PROVE n + 1 \in T
    <2>1. ASSUME NEW s \in SUBSET B, Cardinality(s) <= n + 1, s # {}
          PROVE  g[s] = Cardinality(All(s))
      <3> DEFINE x == Some(s)
                 t == s \ {x}
      <3>1. x \in s BY <2>1 DEF Some
      <3>2. t \in SUBSET B /\ Cardinality(t) = Cardinality(s) - 1
        BY <1>2, <3>1, FS_RemoveElement
      <3>3. Cardinality(t) <= n BY <1>2, <2>1, <3>2
      <3>4. g[t] = Cardinality(All(t)) BY <3>2, <3>3
      <3>5. g[s] = x.count + g[t] BY <1>1, <2>1 DEF SumStep
      <3>6. All(s) = W[x] \cup All(t)
        <4>1. s = {x} \cup t BY <3>1
        <4> HIDE DEF x, t
        <4> QED BY <4>1
      <3>7. W[x] \cap All(t) = {} BY <3>1
      <3>8. W[x] \in SUBSET D /\ x \in B BY <3>1
      <3>9. IsFiniteSet(W[x]) /\ Cardinality(W[x]) \in Nat
        BY <3>8, FS_Subset, FS_CardinalityType
      <3> HIDE DEF x, t, All
      <3>10. Cardinality(All(s)) = Cardinality(W[x]) + Cardinality(All(t))
                                   - Cardinality(W[x] \cap All(t))
        BY <1>4, <3>2, <3>6, <3>9, FS_Union
      <3>11. Cardinality(W[x] \cap All(t)) = 0 BY <3>7, FS_EmptySet
      <3> QED BY <1>4, <3>2, <3>4, <3>5, <3>8, <3>9, <3>10, <3>11
    <2>2. ASSUME NEW s \in SUBSET B, s = {} PROVE g[s] = Cardinality(All(s))
      <3>1. All(s) = {} BY <2>2
      <3> QED BY <1>1, <2>2, <3>1, FS_EmptySet DEF SumStep
    <2> HIDE DEF All
    <2> QED BY <2>1, <2>2
  <1>7. T \in SUBSET Nat OBVIOUS
  <1> HIDE DEF T
  <1>8. \A n \in Nat : n \in T BY <1>5, <1>6, <1>7, AllNaturals
  <1>9. Cardinality(B) \in T BY <1>2, <1>8
  <1>10. g[B] = Cardinality(All(B)) BY <1>2, <1>9 DEF T
  <1>11. All(B) = D OBVIOUS
  <1> QED BY <1>1, <1>10, <1>11

\* Finitely many values, all of them numbers.
FiniteNumbers(values) == IsFiniteSet(DOMAIN values) /\ \A i \in DOMAIN values : values[i] \in Int

LEMMA DistinctFinite ==
    ASSUME NEW values, FiniteNumbers(values)
    PROVE  /\ IsFiniteSet(Distinct(values))
           /\ Distinct(values) \in SUBSET Int
           /\ \A i \in DOMAIN values : values[i] \in Distinct(values)
           /\ \A v \in Distinct(values) : \E i \in DOMAIN values : values[i] = v
  <1>1. [i \in DOMAIN values |-> values[i]] \in Surjection(DOMAIN values, Distinct(values))
    BY DEF Surjection, Distinct
  <1>2. IsFiniteSet(Distinct(values)) BY <1>1, FS_Surjection DEF FiniteNumbers
  <1>3. \A i \in DOMAIN values : values[i] \in Distinct(values) BY DEF Distinct
  <1>4. \A v \in Distinct(values) : \E i \in DOMAIN values : values[i] = v BY DEF Distinct
  <1>5. Distinct(values) \in SUBSET Int BY <1>4 DEF FiniteNumbers
  <1> QED BY <1>2, <1>3, <1>4, <1>5

\* Buckets that are told apart, share no value and leave none out tile the values,
\* whether or not the empty ones are dropped.
LEMMA PartsTile ==
    ASSUME NEW values, FiniteNumbers(values), NEW K, IsFiniteSet(K), NEW f,
           NEW M \in [K -> SUBSET DOMAIN values],
           \A k \in K : f[k].count = Cardinality(M[k]),
           \A k \in K, j \in K : f[k] = f[j] => k = j,
           \A k \in K, j \in K : \A i \in M[k] \cap M[j] : k = j,
           \A i \in DOMAIN values : \E k \in K : i \in M[k],
           \A k \in K : \A i \in M[k] : f[k].min <= values[i] /\ values[i] <= f[k].max
    PROVE  Tiles(Filled({f[k] : k \in K}), values)
  <1> DEFINE B == Filled({f[k] : k \in K})
             Key(b) == CHOOSE k \in K : f[k] = b
             W == [b \in B |-> M[Key(b)]]
  <1>1. \A b \in B : Key(b) \in K /\ f[Key(b)] = b BY DEF Filled
  <1>2. \A k \in K : Key(f[k]) = k
    <2>1. \A k \in K : Key(f[k]) \in K /\ f[Key(f[k])] = f[k] OBVIOUS
    <2> HIDE DEF Key
    <2> QED BY <2>1
  <1>3. IsFiniteSet(B)
    <2>1. [k \in K |-> f[k]] \in Surjection(K, {f[k] : k \in K}) BY DEF Surjection
    <2>2. IsFiniteSet({f[k] : k \in K}) BY <2>1, FS_Surjection
    <2>3. B \in SUBSET {f[k] : k \in K} BY DEF Filled
    <2> HIDE DEF B
    <2> QED BY <2>2, <2>3, FS_Subset
  <1>4. ASSUME NEW i \in DOMAIN values PROVE \E b \in B : i \in W[b] /\ b = f[Key(b)]
    <2>1. PICK k \in K : i \in M[k] OBVIOUS
    <2>2. IsFiniteSet(M[k]) /\ Cardinality(M[k]) \in Nat
      BY FS_Subset, FS_CardinalityType DEF FiniteNumbers
    <2>3. Cardinality(M[k]) # 0 BY <2>1, <2>2, FS_EmptySet
    <2>4. f[k] \in B BY <2>2, <2>3 DEF Filled
    <2>5. W[f[k]] = M[k] BY <1>2, <2>4
    <2> HIDE DEF B, W
    <2> QED BY <1>1, <2>1, <2>4, <2>5
  <1>5. W \in [B -> SUBSET DOMAIN values] BY <1>1
  <1>6. \A b \in B : W[b] = M[Key(b)] OBVIOUS
  <1> HIDE DEF B, W, Key
  <1>7. \A b \in B : b.count = Cardinality(W[b]) BY <1>1, <1>6
  <1>8. \A b \in B, c \in B : b # c => W[b] \cap W[c] = {} BY <1>1, <1>6
  <1>9. CountSum(B) = Cardinality(DOMAIN values)
    BY <1>3, <1>4, <1>5, <1>7, <1>8, SumOfParts DEF FiniteNumbers
  <1>10. ASSUME NEW v \in Distinct(values) PROVE \E b \in B : b.min <= v /\ v <= b.max
    <2>1. PICK i \in DOMAIN values : values[i] = v BY DistinctFinite
    <2>2. PICK b \in B : i \in W[b] BY <1>4, <2>1
    <2> QED BY <1>1, <1>6, <2>1, <2>2
  <1> QED BY <1>9, <1>10 DEF Tiles, CountSum, B

\* One bucket for each exact value.
LEMMA ExactTiles ==
    ASSUME NEW values, FiniteNumbers(values)
    PROVE  Tiles({NumberBucket(v, v, CountOf(values, {v})) : v \in Distinct(values)}, values)
  <1> DEFINE K == Distinct(values)
             f == [v \in K |-> NumberBucket(v, v, CountOf(values, {v}))]
             M == [v \in K |-> {i \in DOMAIN values : values[i] \in {v}}]
  <1>1. /\ IsFiniteSet(K) /\ K \in SUBSET Int
        /\ \A i \in DOMAIN values : values[i] \in K
        /\ \A v \in K : \E i \in DOMAIN values : values[i] = v
    BY DistinctFinite
  <1> HIDE DEF K
  <1>2. M \in [K -> SUBSET DOMAIN values] OBVIOUS
  <1>3. \A v \in K : f[v].count = Cardinality(M[v]) /\ f[v].min = v /\ f[v].max = v
    BY DEF NumberBucket, CountOf
  <1>4. \A v \in K : v <= v BY <1>1
  <1>5. \A v \in K : \A i \in M[v] : values[i] = v OBVIOUS
  <1>6. \A i \in DOMAIN values : i \in M[values[i]] BY <1>1
  <1>7. \A v \in K : f[v].count > 0
    <2>1. ASSUME NEW v \in K PROVE Cardinality(M[v]) \in Nat /\ Cardinality(M[v]) # 0
      <3>1. M[v] \in SUBSET DOMAIN values BY <1>2
      <3>2. PICK i \in DOMAIN values : values[i] = v BY <1>1
      <3>3. M[v] # {} BY <1>6, <3>2
      <3> HIDE DEF M
      <3> QED BY <3>1, <3>3, FS_Subset, FS_CardinalityType, FS_EmptySet DEF FiniteNumbers
    <2> HIDE DEF M, f
    <2> QED BY <1>3, <2>1
  <1>8. {NumberBucket(v, v, CountOf(values, {v})) : v \in K} = {f[v] : v \in K} OBVIOUS
  <1> HIDE DEF f, M
  <1>9. Filled({f[v] : v \in K}) = {f[v] : v \in K} BY <1>7 DEF Filled
  <1>10. /\ \A v \in K : f[v].count = Cardinality(M[v])
         /\ \A v \in K, w \in K : f[v] = f[w] => v = w
         /\ \A v \in K, w \in K : \A i \in M[v] \cap M[w] : v = w
         /\ \A i \in DOMAIN values : \E v \in K : i \in M[v]
         /\ \A v \in K : \A i \in M[v] : f[v].min <= values[i] /\ values[i] <= f[v].max
    <2>1. \A v \in K, w \in K : f[v] = f[w] => v = w BY <1>3
    <2>2. \A v \in K, w \in K : \A i \in M[v] \cap M[w] : v = w BY <1>5
    <2>3. \A v \in K : \A i \in M[v] : f[v].min <= values[i] /\ values[i] <= f[v].max
      BY <1>3, <1>4, <1>5
    <2> QED BY <1>1, <1>3, <1>6, <2>1, <2>2, <2>3
  <1>11. IsFiniteSet(K) BY <1>1
  <1>12. Tiles(Filled({f[v] : v \in K}), values) BY <1>2, <1>10, <1>11, PartsTile
  <1> QED BY <1>8, <1>9, <1>12 DEF K

\* The ranges suggested for a number attribute account for every value, once, but
\* for the least when they start above it.
LEMMA NumbersTile ==
    ASSUME NEW values, FiniteNumbers(values)
    PROVE  \/ Tiles(BuildNumberBuckets(values), values)
           \/ TilesAbove(BuildNumberBuckets(values), values)
  <1> DEFINE distinct == Distinct(values)
             min == F!Min(distinct)
             max == F!Max(distinct)
             step == NiceNumber(max - min)
             K == Steps(min, max, step)
             In(k) == {w \in distinct : InStep(w, min, max, step, k)}
             f == [k \in K |-> NumberBucket(Start(min, step, k), Start(min, step, k + 1),
                                            CountOf(values, In(k)))]
             M == [k \in K |-> {i \in DOMAIN values : values[i] \in In(k)}]
  <1>1. CASE Cardinality(distinct) <= ExactValueBucketThreshold
    BY <1>1, ExactTiles DEF BuildNumberBuckets
  <1>2. CASE ~(Cardinality(distinct) <= ExactValueBucketThreshold)
    <2>1. BuildNumberBuckets(values) = Filled({f[k] : k \in K})
      <3>1. BuildNumberBuckets(values) =
              Filled({NumberBucket(Start(min, step, k), Start(min, step, k + 1),
                                   CountOf(values, In(k))) : k \in K})
        BY <1>2 DEF BuildNumberBuckets
      <3> HIDE DEF K, In
      <3>2. {NumberBucket(Start(min, step, k), Start(min, step, k + 1),
                          CountOf(values, In(k))) : k \in K} = {f[k] : k \in K}
        OBVIOUS
      <3> QED BY <3>1, <3>2
    <2>2. /\ IsFiniteSet(distinct) /\ distinct \in SUBSET Int
          /\ \A i \in DOMAIN values : values[i] \in distinct
      BY DistinctFinite
    <2> HIDE DEF distinct
    <2>3. distinct # {} BY <1>2, FS_EmptySet, BucketAssumption
    <2>4. max \in distinct /\ \A v \in distinct : v <= max BY <2>2, <2>3, HasMax
    <2>5. min \in distinct /\ \A v \in distinct : min <= v BY <2>2, <2>3, HasMin
    <2> HIDE DEF min, max
    <2>6. min \in Int /\ max \in Int BY <2>2, <2>4, <2>5
    <2>7. min < max
      <3>1. SUFFICES ASSUME min >= max PROVE FALSE BY <2>6
      <3>2. \A v \in distinct : v = min
        <4>1. ASSUME NEW v \in distinct PROVE v = min
          <5>1. v \in Int /\ v <= max /\ min <= v BY <2>2, <2>4, <2>5
          <5> QED BY <2>6, <3>1, <5>1
        <4> QED BY <4>1
      <3>3. distinct = {min} BY <2>5, <3>2
      <3>4. Cardinality(distinct) = 1 BY <3>3, FS_Singleton
      <3> QED BY <1>2, <3>4, BucketAssumption
    <2>8. step \in Nat \ {0} /\ (max - min = 1 => step = 1) BY <2>6, NiceNumberPositive
    <2> HIDE DEF step
    <2> DEFINE first == Start(min, step, 0)
               D == {i \in DOMAIN values : first <= values[i]}
               above == [i \in D |-> values[i]]
    <2>9. IsFiniteSet(K) /\ \A k \in K : k \in Int /\ 0 <= k
      <3>1. K \in SUBSET (0..(max - min + 3 * step)) BY DEF Steps
      <3>2. IsFiniteSet(0..(max - min + 3 * step)) BY <2>6, <2>8, FS_Interval
      <3>3. \A k \in K : k \in Int /\ 0 <= k BY DEF Steps
      <3> HIDE DEF K
      <3> QED BY <3>1, <3>2, <3>3, FS_Subset
    <2>10. \A k \in Int : Start(min, step, k) \in Int BY <2>6, <2>8, Starts
    <2>11. \A j \in Int, k \in Int : j < k => Start(min, step, j) < Start(min, step, k)
      BY <2>6, <2>8, StartsRise
    <2>12. first \in Int /\ first <= min + 1 /\ (step < 3 => first <= min)
      BY <2>6, <2>8, <2>10, FirstStart
    <2>13. first < max BY <2>6, <2>7, <2>8, <2>12
    <2>14. \A k \in K : Start(min, step, k) \in Int /\ first <= Start(min, step, k)
      BY <2>9, <2>10, <2>11
    <2>15. \A k \in K : /\ f[k].count = Cardinality(M[k])
                        /\ f[k].min = Start(min, step, k)
                        /\ f[k].max = Start(min, step, k + 1)
      <3> HIDE DEF K, In
      <3> QED BY DEF NumberBucket, CountOf
    <2>16. \A k \in K : M[k] \subseteq DOMAIN values
      OBVIOUS
    <2>17. \A k \in K : \A i \in M[k] : InStep(values[i], min, max, step, k)
      OBVIOUS
    <2>18. \A k \in K : \A i \in DOMAIN values :
             InStep(values[i], min, max, step, k) => i \in M[k]
      BY <2>2
    <2>19. \A i \in DOMAIN values : values[i] \in Int /\ min <= values[i] /\ values[i] <= max
      BY <2>2, <2>4, <2>5
    <2>20. M = [k \in K |-> M[k]] OBVIOUS
    <2> HIDE DEF f, M, In, K, first
    <2>21. \A k \in K : \A i \in M[k] : i \in D
      BY <2>12, <2>14, <2>16, <2>17, <2>19 DEF InStep
    <2>22. M \in [K -> SUBSET DOMAIN above] BY <2>20, <2>21
    <2>23. ASSUME NEW k \in K, NEW j \in K, f[k] = f[j] PROVE k = j
      <3>1. Start(min, step, k) = Start(min, step, j) BY <2>15, <2>23
      <3>2. k \in Int /\ j \in Int BY <2>9
      <3> QED BY <2>10, <2>11, <3>1, <3>2
    <2>24. ASSUME NEW k \in K, NEW j \in K, NEW i \in M[k] \cap M[j] PROVE k = j
      <3>1. values[i] \in Int BY <2>16, <2>19
      <3> QED BY <2>6, <2>8, <2>17, <3>1, CountedOnce DEF K
    <2>25. ASSUME NEW i \in D PROVE \E k \in K : i \in M[k]
      <3>1. values[i] \in Int /\ first <= values[i] /\ values[i] <= max BY <2>19
      <3>2. \E k \in K : InStep(values[i], min, max, step, k)
        BY <2>6, <2>7, <2>8, <2>13, <3>1, CountedSomewhere DEF K, first
      <3> QED BY <2>18, <3>2
    <2>26. ASSUME NEW k \in K, NEW i \in M[k]
           PROVE  f[k].min <= above[i] /\ above[i] <= f[k].max
      <3>1. above[i] = values[i] /\ i \in DOMAIN values BY <2>16, <2>21
      <3>2. values[i] >= Start(min, step, k)
            /\ (values[i] < Start(min, step, k + 1) \/ Start(min, step, k + 1) >= max)
        BY <2>17 DEF InStep
      <3>3. Start(min, step, k + 1) \in Int BY <2>9, <2>10
      <3>4. Start(min, step, k) <= values[i] /\ values[i] <= Start(min, step, k + 1)
        BY <2>6, <2>14, <2>19, <3>1, <3>2, <3>3
      <3> QED BY <2>15, <3>1, <3>4
    <2>27. FiniteNumbers(above)
      <3>1. IsFiniteSet(D) BY FS_Subset DEF FiniteNumbers
      <3> QED BY <2>19, <3>1 DEF FiniteNumbers
    <2>28. Tiles(Filled({f[k] : k \in K}), above)
      <3> DEFINE dom == DOMAIN above
      <3>1. dom = D OBVIOUS
      <3>2. /\ \A k \in K : f[k].count = Cardinality(M[k])
            /\ \A k \in K, j \in K : f[k] = f[j] => k = j
            /\ \A k \in K, j \in K : \A i \in M[k] \cap M[j] : k = j
            /\ \A i \in DOMAIN above : \E k \in K : i \in M[k]
            /\ \A k \in K : \A i \in M[k] : f[k].min <= above[i] /\ above[i] <= f[k].max
        BY <2>15, <2>23, <2>24, <2>25, <2>26, <3>1
      <3> HIDE DEF above
      <3> QED BY <2>9, <2>22, <2>27, <3>2, PartsTile
    <2>29. CASE first <= min
      <3>1. D = DOMAIN values BY <2>6, <2>12, <2>19, <2>29
      <3>2. DOMAIN above = DOMAIN values /\ Distinct(above) = Distinct(values)
        BY <3>1 DEF Distinct
      <3> HIDE DEF above
      <3>3. Tiles(Filled({f[k] : k \in K}), values) BY <2>28, <3>2 DEF Tiles
      <3> QED BY <2>1, <3>3
    <2>30. CASE first > min
      <3>1. D = {j \in DOMAIN values : values[j] # min} BY <2>6, <2>12, <2>19, <2>30
      <3>2. above = [i \in {j \in DOMAIN values : values[j] # min} |-> values[i]] BY <3>1
      <3>3. \A b \in Filled({f[k] : k \in K}) : min < b.min
        BY <2>6, <2>12, <2>14, <2>15, <2>30 DEF Filled
      <3>4. min \in Distinct(values) /\ \A v \in Distinct(values) : min <= v
        BY <2>5 DEF distinct
      <3> HIDE DEF above, D
      <3>5. TilesAbove(Filled({f[k] : k \in K}), values)
        BY <2>28, <3>2, <3>3, <3>4 DEF TilesAbove
      <3> QED BY <2>1, <3>5
    <2> QED BY <2>6, <2>12, <2>29, <2>30
  <1> QED BY <1>1, <1>2

\* The nice numbers from the last one at or below min to the first at or above max.
LEMMA NiceBounds ==
    ASSUME NEW min \in Int, NEW max \in Int, 1 <= min, min < max, max <= 10^MaxExponent
    PROVE  /\ IsFiniteSet(NiceSequence(min, max))
           /\ NiceSequence(min, max) \in SUBSET Int
           /\ \E x \in NiceSequence(min, max) : x <= min
           /\ \E x \in NiceSequence(min, max) : x >= max
  <1>1. IsFiniteSet(NiceNumbers)
    <2> DEFINE S == {1, 2, 5} \X (0..MaxExponent)
    <2>1. IsFiniteSet(1..5) /\ IsFiniteSet(0..MaxExponent)
      <3>1. 1 \in Int /\ 5 \in Int /\ 0 \in Int /\ MaxExponent \in Int BY BucketAssumption
      <3> QED BY <3>1, FS_Interval
    <2>2. {1, 2, 5} \in SUBSET (1..5) OBVIOUS
    <2>3. IsFiniteSet({1, 2, 5}) BY <2>1, <2>2, FS_Subset
    <2>4. IsFiniteSet(S) BY <2>1, <2>3, FS_Product
    <2>5. [s \in S |-> s[1] * 10^s[2]] \in Surjection(S, NiceNumbers)
      <3>1. \A s \in S : s[1] * 10^s[2] \in NiceNumbers BY DEF NiceNumbers
      <3>2. ASSUME NEW x \in NiceNumbers PROVE \E s \in S : x = s[1] * 10^s[2]
        <4>1. PICK m \in {1, 2, 5}, e \in 0..MaxExponent : x = m * 10^e BY DEF NiceNumbers
        <4>2. <<m, e>> \in S /\ <<m, e>>[1] = m /\ <<m, e>>[2] = e OBVIOUS
        <4> HIDE DEF S
        <4>3. x = <<m, e>>[1] * 10^(<<m, e>>[2]) BY <4>1, <4>2
        <4> QED BY <4>2, <4>3
      <3> HIDE DEF S
      <3> QED BY <3>1, <3>2 DEF Surjection
    <2> HIDE DEF S
    <2> QED BY <2>4, <2>5, FS_Surjection
  <1>2. NiceNumbers \in SUBSET Int
    <2>1. \A m \in {1, 2, 5}, e \in Nat : m * 10^e \in Int OBVIOUS
    <2> QED BY <2>1, BucketAssumption DEF NiceNumbers
  <1>3. NiceSequence(min, max) \in SUBSET NiceNumbers BY DEF NiceSequence
  <1>4. IsFiniteSet(NiceSequence(min, max)) BY <1>1, <1>3, FS_Subset
  <1>5. 1 \in NiceNumbers
    <2>1. 1 * 10^0 = 1 OBVIOUS
    <2>2. 0 \in 0..MaxExponent BY BucketAssumption
    <2>3. \E m \in {1, 2, 5}, e \in 0..MaxExponent : 1 = m * 10^e BY <2>1, <2>2
    <2> QED BY <2>3 DEF NiceNumbers
  <1>6. 10^MaxExponent \in NiceNumbers
    <2>1. 10^MaxExponent \in Int
      <3>1. \A e \in Nat : 10^e \in Int OBVIOUS
      <3> QED BY <3>1, BucketAssumption
    <2>2. 1 * 10^MaxExponent = 10^MaxExponent BY <2>1
    <2>3. MaxExponent \in 0..MaxExponent BY BucketAssumption
    <2> QED BY <2>2, <2>3 DEF NiceNumbers
  <1>7. \E x \in NiceSequence(min, max) : x <= min
    <2> DEFINE S == {x \in NiceNumbers : x <= min}
    <2>1. S \in SUBSET NiceNumbers /\ 1 \in S BY <1>5
    <2>2. IsFiniteSet(S) /\ S \in SUBSET Int /\ S # {}
      <3> HIDE DEF S
      <3> QED BY <1>1, <1>2, <2>1, FS_Subset
    <2>3. F!Max(S) \in S /\ \A y \in S : y <= F!Max(S)
      <3> HIDE DEF S
      <3> QED BY <2>2, HasMax
    <2>4. PICK x \in NiceNumbers : x <= min /\ \A y \in NiceNumbers : y <= min => y <= x
      BY <2>3
    <2>5. x \in Int BY <1>2
    <2>6. \A y \in NiceNumbers : x < y => min < y
      <3>1. ASSUME NEW y \in NiceNumbers, x < y, ~(min < y) PROVE FALSE
        <4>1. y \in Int BY <1>2
        <4>2. y <= min BY <3>1, <4>1
        <4> QED BY <2>4, <2>5, <3>1, <4>1, <4>2
      <3> QED BY <3>1
    <2>7. \A y \in NiceNumbers : y < x => y < max
      <3>1. ASSUME NEW y \in NiceNumbers, y < x PROVE y < max
        <4>1. y \in Int BY <1>2
        <4> QED BY <2>4, <2>5, <3>1, <4>1
      <3> QED BY <3>1
    <2>8. x \in NiceSequence(min, max) BY <2>6, <2>7 DEF NiceSequence
    <2> QED BY <2>4, <2>8
  <1>8. \E x \in NiceSequence(min, max) : x >= max
    <2> DEFINE S == {x \in NiceNumbers : x >= max}
    <2>1. S \in SUBSET NiceNumbers /\ 10^MaxExponent \in S
      <3>1. 10^MaxExponent \in Int BY <1>2, <1>6
      <3>2. 10^MaxExponent >= max BY <3>1
      <3> QED BY <1>6, <3>2
    <2>2. IsFiniteSet(S) /\ S \in SUBSET Int /\ S # {}
      <3> HIDE DEF S
      <3> QED BY <1>1, <1>2, <2>1, FS_Subset
    <2>3. F!Min(S) \in S /\ \A y \in S : F!Min(S) <= y
      <3> HIDE DEF S
      <3> QED BY <2>2, HasMin
    <2>4. PICK x \in NiceNumbers : x >= max /\ \A y \in NiceNumbers : y >= max => x <= y
      BY <2>3
    <2>5. x \in Int BY <1>2
    <2>6. \A y \in NiceNumbers : x < y => min < y
      <3>1. ASSUME NEW y \in NiceNumbers, x < y PROVE min < y
        <4>1. y \in Int BY <1>2
        <4> QED BY <2>4, <2>5, <3>1, <4>1
      <3> QED BY <3>1
    <2>7. \A y \in NiceNumbers : y < x => y < max
      <3>1. ASSUME NEW y \in NiceNumbers, y < x, ~(y < max) PROVE FALSE
        <4>1. y \in Int BY <1>2
        <4>2. y >= max BY <3>1, <4>1
        <4> QED BY <2>4, <2>5, <3>1, <4>1, <4>2
      <3> QED BY <3>1
    <2>8. x \in NiceSequence(min, max) BY <2>6, <2>7 DEF NiceSequence
    <2> QED BY <2>4, <2>8
  <1> QED BY <1>2, <1>3, <1>4, <1>7, <1>8

\* The tiers of BuildPriceBuckets (number_bucket.go:106-120) overlap nowhere.
LEMMA PricedOnce ==
    ASSUME NEW bounds \in SUBSET Int, NEW v \in Int,
           NEW a \in bounds, NEW b \in bounds, Adjacent(bounds, a, b), InTier(v, bounds, a, b),
           NEW c \in bounds, NEW d \in bounds, Adjacent(bounds, c, d), InTier(v, bounds, c, d)
    PROVE  a = c /\ b = d
  <1>1. a \in Int /\ b \in Int /\ c \in Int /\ d \in Int OBVIOUS
  <1>2. /\ a < b /\ \A x \in bounds : x <= a \/ b <= x
        /\ c < d /\ \A x \in bounds : x <= c \/ d <= x
    BY DEF Adjacent
  <1>3. /\ v >= a /\ (v < b \/ (v = b /\ \A x \in bounds : x <= b))
        /\ v >= c /\ (v < d \/ (v = d /\ \A x \in bounds : x <= d))
    BY DEF InTier
  <1>4. ~(a < c)
    <2>1. SUFFICES ASSUME a < c PROVE FALSE OBVIOUS
    <2>2. b <= c BY <1>1, <1>2, <2>1
    <2>3. v = b /\ d <= b BY <1>1, <1>3, <2>2
    <2> QED BY <1>1, <1>2, <2>2, <2>3
  <1>5. ~(c < a)
    <2>1. SUFFICES ASSUME c < a PROVE FALSE OBVIOUS
    <2>2. d <= a BY <1>1, <1>2, <2>1
    <2>3. v = d /\ b <= d BY <1>1, <1>3, <2>2
    <2> QED BY <1>1, <1>2, <2>2, <2>3
  <1>6. a = c BY <1>1, <1>4, <1>5
  <1>7. b <= d /\ d <= b
    <2>1. b <= c \/ d <= b BY <1>1, <1>2, <1>6
    <2>2. d <= a \/ b <= d BY <1>1, <1>2, <1>6
    <2> QED BY <1>1, <1>2, <1>6, <2>1, <2>2
  <1> QED BY <1>1, <1>6, <1>7

\* The tiers of BuildPriceBuckets leave no price out: the last one is closed.
LEMMA PricedSomewhere ==
    ASSUME NEW bounds \in SUBSET Int, IsFiniteSet(bounds), NEW min \in Int, NEW max \in Int,
           min < max, NEW v \in Int, min <= v, v <= max,
           \E x \in bounds : x <= min, \E x \in bounds : x >= max
    PROVE  \E a \in bounds, b \in bounds : Adjacent(bounds, a, b) /\ InTier(v, bounds, a, b)
  <1>1. PICK lo \in bounds : lo <= min OBVIOUS
  <1>2. PICK up \in bounds : up >= max OBVIOUS
  <1>3. lo \in Int /\ up \in Int BY <1>1, <1>2
  <1>4. ASSUME NEW w \in Int, NEW p \in bounds, p <= w, NEW q \in bounds, w < q
        PROVE  \E a \in bounds, b \in bounds : a <= w /\ w < b /\ Adjacent(bounds, a, b)
    <2> DEFINE below == {x \in bounds : x <= w}
               above == {x \in bounds : w < x}
    <2>1. below \in SUBSET bounds /\ below # {} /\ above \in SUBSET bounds /\ above # {}
      BY <1>4
    <2>2. /\ IsFiniteSet(below) /\ below \in SUBSET Int
          /\ IsFiniteSet(above) /\ above \in SUBSET Int
      <3> HIDE DEF below, above
      <3> QED BY <2>1, FS_Subset
    <2> DEFINE a == F!Max(below)
               b == F!Min(above)
    <2>3. /\ a \in below /\ \A x \in below : x <= a
          /\ b \in above /\ \A x \in above : b <= x
      <3> HIDE DEF below, above
      <3> QED BY <2>1, <2>2, HasMax, HasMin
    <2> HIDE DEF a, b
    <2>4. a \in Int /\ b \in Int /\ a <= w /\ w < b BY <2>2, <2>3
    <2>5. \A x \in bounds : x <= a \/ b <= x
      <3>1. ASSUME NEW x \in bounds PROVE x <= a \/ b <= x
        <4>1. x \in Int OBVIOUS
        <4>2. x \in below \/ x \in above BY <1>4, <4>1
        <4> HIDE DEF below, above
        <4> QED BY <2>3, <4>2
      <3> QED BY <3>1
    <2>6. a < b BY <1>4, <2>4
    <2>7. a \in bounds /\ b \in bounds BY <2>3
    <2> QED BY <2>4, <2>5, <2>6, <2>7 DEF Adjacent
  <1>5. CASE \E q \in bounds : v < q
    <2>1. PICK q \in bounds : v < q BY <1>5
    <2>2. lo <= v BY <1>1, <1>3
    <2>3. PICK a \in bounds, b \in bounds : a <= v /\ v < b /\ Adjacent(bounds, a, b)
      BY <1>4, <2>1, <2>2
    <2>4. a \in Int BY <2>3
    <2>5. InTier(v, bounds, a, b) BY <2>3, <2>4 DEF InTier
    <2> QED BY <2>3, <2>5
  <1>6. CASE ~\E q \in bounds : v < q
    <2>1. \A x \in bounds : x <= v
      <3>1. ASSUME NEW x \in bounds PROVE x <= v
        <4>1. x \in Int OBVIOUS
        <4> QED BY <1>6, <4>1
      <3> QED BY <3>1
    <2>2. v = up /\ v = max BY <1>2, <1>3, <2>1
    <2>3. v - 1 \in Int /\ lo <= v - 1 /\ v - 1 < up BY <1>1, <1>3, <2>2
    <2>4. PICK a \in bounds, b \in bounds :
            a <= v - 1 /\ v - 1 < b /\ Adjacent(bounds, a, b)
      BY <1>4, <2>3
    <2>5. a \in Int /\ b \in Int /\ b <= v BY <2>1, <2>4
    <2>6. b = v /\ v >= a BY <2>4, <2>5
    <2>7. InTier(v, bounds, a, b) BY <2>1, <2>6 DEF InTier
    <2> QED BY <2>4, <2>7
  <1> QED BY <1>5, <1>6

\* The tiers suggested for prices account for every price, once.
LEMMA PricesTile ==
    ASSUME NEW values, FiniteNumbers(values),
           \A i \in DOMAIN values : 1 <= values[i] /\ values[i] <= 10^MaxExponent
    PROVE  Tiles(BuildPriceBuckets(values), values)
  <1> DEFINE distinct == Distinct(values)
             min == F!Min(distinct)
             max == F!Max(distinct)
             bounds == NiceSequence(min, max)
             K == {t \in bounds \X bounds : Adjacent(bounds, t[1], t[2])}
             In(t) == {w \in distinct : InTier(w, bounds, t[1], t[2])}
             f == [t \in K |-> NumberBucket(t[1], t[2], CountOf(values, In(t)))]
             M == [t \in K |-> {i \in DOMAIN values : values[i] \in In(t)}]
  <1>1. CASE Cardinality(distinct) <= 1
    BY <1>1, ExactTiles DEF BuildPriceBuckets
  <1>2. CASE ~(Cardinality(distinct) <= 1)
    <2>1. BuildPriceBuckets(values) = Filled({f[t] : t \in K})
      <3>1. BuildPriceBuckets(values) =
              Filled({NumberBucket(t[1], t[2], CountOf(values, In(t))) : t \in K})
        BY <1>2 DEF BuildPriceBuckets
      <3> HIDE DEF K, In
      <3>2. {NumberBucket(t[1], t[2], CountOf(values, In(t))) : t \in K} = {f[t] : t \in K}
        OBVIOUS
      <3> QED BY <3>1, <3>2
    <2>2. /\ IsFiniteSet(distinct) /\ distinct \in SUBSET Int
          /\ \A i \in DOMAIN values : values[i] \in distinct
          /\ \A v \in distinct : \E i \in DOMAIN values : values[i] = v
      BY DistinctFinite
    <2> HIDE DEF distinct
    <2>3. distinct # {} BY <1>2, FS_EmptySet
    <2>4. max \in distinct /\ \A v \in distinct : v <= max BY <2>2, <2>3, HasMax
    <2>5. min \in distinct /\ \A v \in distinct : min <= v BY <2>2, <2>3, HasMin
    <2> HIDE DEF min, max
    <2>6. min \in Int /\ max \in Int BY <2>2, <2>4, <2>5
    <2>7. min < max
      <3>1. SUFFICES ASSUME min >= max PROVE FALSE BY <2>6
      <3>2. ASSUME NEW v \in distinct PROVE v = min
        <4>1. v \in Int /\ v <= max /\ min <= v BY <2>2, <2>4, <2>5
        <4> QED BY <2>6, <3>1, <4>1
      <3>3. distinct = {min} BY <2>5, <3>2
      <3>4. Cardinality(distinct) = 1 BY <3>3, FS_Singleton
      <3> QED BY <1>2, <3>4
    <2>8. 1 <= min /\ max <= 10^MaxExponent BY <2>2, <2>4, <2>5
    <2>9. /\ IsFiniteSet(bounds) /\ bounds \in SUBSET Int
          /\ \E x \in bounds : x <= min
          /\ \E x \in bounds : x >= max
      BY <2>6, <2>7, <2>8, NiceBounds
    <2> HIDE DEF bounds
    <2>10. IsFiniteSet(K)
      <3>1. IsFiniteSet(bounds \X bounds) BY <2>9, FS_Product
      <3>2. K \in SUBSET (bounds \X bounds) OBVIOUS
      <3> HIDE DEF K
      <3> QED BY <3>1, <3>2, FS_Subset
    <2>11. \A t \in K : /\ t[1] \in bounds /\ t[2] \in bounds /\ t = <<t[1], t[2]>>
                        /\ Adjacent(bounds, t[1], t[2])
      OBVIOUS
    <2>12. \A a \in bounds, b \in bounds :
             Adjacent(bounds, a, b) => /\ <<a, b>> \in K
                                       /\ <<a, b>>[1] = a /\ <<a, b>>[2] = b
      OBVIOUS
    <2> HIDE DEF K
    <2>13. M \in [K -> SUBSET DOMAIN values] OBVIOUS
    <2>14. \A t \in K : f[t].count = Cardinality(M[t]) /\ f[t].min = t[1] /\ f[t].max = t[2]
      <3> HIDE DEF In
      <3> QED BY DEF NumberBucket, CountOf
    <2>15. \A t \in K : \A i \in M[t] : /\ i \in DOMAIN values
                                        /\ InTier(values[i], bounds, t[1], t[2])
      OBVIOUS
    <2>16. \A t \in K : \A i \in DOMAIN values :
             InTier(values[i], bounds, t[1], t[2]) => i \in M[t]
      BY <2>2
    <2> HIDE DEF f, M, In
    <2>17. \A i \in DOMAIN values : values[i] \in Int BY DEF FiniteNumbers
    <2>18. ASSUME NEW t \in K, NEW u \in K, f[t] = f[u] PROVE t = u
      <3>1. t[1] = u[1] /\ t[2] = u[2] BY <2>14, <2>18
      <3> QED BY <2>11, <3>1
    <2>19. ASSUME NEW t \in K, NEW u \in K, NEW i \in M[t] \cap M[u] PROVE t = u
      <3>1. t[1] = u[1] /\ t[2] = u[2]
        BY <2>9, <2>11, <2>15, <2>17, PricedOnce
      <3> QED BY <2>11, <3>1
    <2>20. ASSUME NEW i \in DOMAIN values PROVE \E t \in K : i \in M[t]
      <3>1. min <= values[i] /\ values[i] <= max BY <2>2, <2>4, <2>5
      <3>2. PICK a \in bounds, b \in bounds :
              Adjacent(bounds, a, b) /\ InTier(values[i], bounds, a, b)
        BY <2>6, <2>7, <2>9, <2>17, <3>1, PricedSomewhere
      <3>3. <<a, b>> \in K /\ InTier(values[i], bounds, <<a, b>>[1], <<a, b>>[2])
        BY <2>12, <3>2
      <3> QED BY <2>16, <3>3
    <2>21. ASSUME NEW t \in K, NEW i \in M[t]
           PROVE  f[t].min <= values[i] /\ values[i] <= f[t].max
      <3>1. values[i] \in Int /\ t[1] \in Int /\ t[2] \in Int BY <2>9, <2>11, <2>15, <2>17
      <3>2. values[i] >= t[1] /\ (values[i] < t[2] \/ values[i] = t[2])
        BY <2>15 DEF InTier
      <3>3. t[1] <= values[i] /\ values[i] <= t[2] BY <3>1, <3>2
      <3> QED BY <2>14, <3>3
    <2>22. /\ \A t \in K : f[t].count = Cardinality(M[t])
           /\ \A t \in K, u \in K : f[t] = f[u] => t = u
           /\ \A t \in K, u \in K : \A i \in M[t] \cap M[u] : t = u
           /\ \A i \in DOMAIN values : \E t \in K : i \in M[t]
           /\ \A t \in K : \A i \in M[t] : f[t].min <= values[i] /\ values[i] <= f[t].max
      BY <2>14, <2>18, <2>19, <2>20, <2>21
    <2>23. Tiles(Filled({f[t] : t \in K}), values) BY <2>10, <2>13, <2>22, PartsTile
    <2> QED BY <2>1, <2>23
  <1> QED BY <1>1, <1>2

-----------------------------------------------------------------------------
(* Two definitions with one code are never live together, so no product holds  *)
(* values of both.                                                             *)

CodesOnce(values) == \A d \in DOMAIN values, e \in DOMAIN values : Code[d] = Code[e] => d = e

SavingAs(q) ==
    \/ q = Idle
    \/ /\ q = [pc |-> q.pc, of |-> q.of, category |-> q.category, brand |-> q.brand,
               price |-> q.price, values |-> q.values, kept |-> q.kept]
       /\ q.price # <<>> => PriceTyped(q.price[1])
       /\ q.values # <<>> => ValuesTyped(q.values[1])
       /\ q.pc \in {"create", "update"} /\ q.values # <<>> => CodesOnce(q.values[1])

DefinitionRow == [state : {"absent", "live", "deleted"}, required : BOOLEAN]
DefinitionsTyped == definitions \in [Definitions -> DefinitionRow]
LiveOnce == \A d \in LiveDefinitions, e \in LiveDefinitions : Code[d] = Code[e] => d = e
SavingsTyped == saving = [r \in Requests |-> saving[r]] /\ \A r \in Requests : SavingAs(saving[r])
HeldAs(q) == PriceTyped(q.price) /\ ValuesTyped(q.values) /\ CodesOnce(q.values)
HeldOnce == \A p \in Products : HeldAs(products[p])

FacetInv == DefinitionsTyped /\ LiveOnce /\ SavingsTyped /\ HeldOnce

LEMMA InitFacets == Init => FacetInv
  <1> SUFFICES ASSUME Init PROVE FacetInv OBVIOUS
  <1>1. DefinitionsTyped /\ LiveOnce
    BY DEF Init, DefinitionsTyped, DefinitionRow, LiveOnce, LiveDefinitions
  <1>2. SavingsTyped BY DEF Init, SavingsTyped, SavingAs
  <1>3. DOMAIN <<>> = {} OBVIOUS
  <1>4. HeldOnce
    BY <1>3 DEF Init, HeldOnce, HeldAs, NoProduct, PriceTyped, ValuesTyped, CodesOnce
  <1> QED BY <1>1, <1>2, <1>4 DEF FacetInv

\* What fits a category is live, so it has each code once.
LEMMA FitsOnce ==
    ASSUME LiveOnce, NEW category, NEW values, Fits(category, values)
    PROVE  CodesOnce(values)
  BY DEF Fits, Applicable, LiveOnce, CodesOnce

\* A definition is created or restored only while its code is free.
LEMMA DefinitionReplaced ==
    ASSUME DefinitionsTyped, LiveOnce, NEW d \in Definitions, NEW row \in DefinitionRow,
           definitions' = [definitions EXCEPT ![d] = row],
           row.state = "live" /\ definitions[d].state # "live" => ~CodeTaken(d)
    PROVE  DefinitionsTyped' /\ LiveOnce'
  <1>1. definitions' \in [Definitions -> DefinitionRow] BY DEF DefinitionsTyped
  <1>2. \A e \in Definitions : definitions'[e] = IF e = d THEN row ELSE definitions[e]
    BY DEF DefinitionsTyped
  <1>3. LiveDefinitions' \subseteq LiveDefinitions \cup (IF row.state = "live" THEN {d} ELSE {})
    BY <1>2 DEF LiveDefinitions
  <1>4. d \in LiveDefinitions <=> definitions[d].state = "live" BY DEF LiveDefinitions
  <1> QED BY <1>1, <1>3, <1>4 DEF DefinitionsTyped, LiveOnce, CodeTaken, DefinitionRow

LEMMA DefinitionKeeps ==
    ASSUME DefinitionsTyped, LiveOnce, DefinitionStep
    PROVE  DefinitionsTyped' /\ LiveOnce'
  <1>1. ASSUME NEW d \in Definitions, CreateDefinition(d) PROVE DefinitionsTyped' /\ LiveOnce'
    <2>1. PICK required \in BOOLEAN :
            definitions' = [definitions EXCEPT ![d] = [state |-> "live", required |-> required]]
      BY <1>1 DEF CreateDefinition
    <2>2. [state |-> "live", required |-> required] \in DefinitionRow BY DEF DefinitionRow
    <2> QED BY <1>1, <2>1, <2>2, DefinitionReplaced DEF CreateDefinition
  <1>2. ASSUME NEW d \in Definitions,
               UpdateDefinition(d) \/ DeleteDefinition(d) \/ RestoreDefinition(d)
        PROVE  DefinitionsTyped' /\ LiveOnce'
    <2>1. definitions[d] \in DefinitionRow BY DEF DefinitionsTyped
    <2>2. PICK row \in DefinitionRow :
            /\ definitions' = [definitions EXCEPT ![d] = row]
            /\ row.state = "live" /\ definitions[d].state # "live" => ~CodeTaken(d)
      <3>1. CASE UpdateDefinition(d)
        <4> DEFINE row == [definitions[d] EXCEPT !.required = ~@]
        <4>1. row \in DefinitionRow /\ row.state = definitions[d].state
          BY <2>1 DEF DefinitionRow
        <4>2. definitions' = [definitions EXCEPT ![d] = row] BY <3>1 DEF UpdateDefinition
        <4> QED BY <4>1, <4>2
      <3>2. CASE DeleteDefinition(d)
        <4> DEFINE row == [definitions[d] EXCEPT !.state = "deleted"]
        <4>1. row \in DefinitionRow /\ row.state = "deleted" BY <2>1 DEF DefinitionRow
        <4>2. definitions' = [definitions EXCEPT ![d] = row] BY <3>2 DEF DeleteDefinition
        <4> QED BY <4>1, <4>2
      <3>3. CASE RestoreDefinition(d)
        <4> DEFINE row == [definitions[d] EXCEPT !.state = "live"]
        <4>1. row \in DefinitionRow BY <2>1 DEF DefinitionRow
        <4>2. definitions' = [definitions EXCEPT ![d] = row] /\ ~CodeTaken(d)
          BY <3>3 DEF RestoreDefinition
        <4> QED BY <4>1, <4>2
      <3> QED BY <1>2, <3>1, <3>2, <3>3
    <2> QED BY <2>2, DefinitionReplaced
  <1>3. ASSUME NEW d, NEW c, AttachCategory(d, c) \/ DetachCategory(d, c)
        PROVE  DefinitionsTyped' /\ LiveOnce'
    BY <1>3 DEF AttachCategory, DetachCategory, DefinitionsTyped, LiveOnce, LiveDefinitions
  <1> QED BY <1>1, <1>2, <1>3 DEF DefinitionStep

\* What a row holds once a form is stored in it.
LEMMA WrittenHeld ==
    ASSUME HeldOnce, NEW p \in Products, NEW q, SavingAs(q),
           q.pc \in {"create", "update"}, NEW state
    PROVE  HeldAs(Written(p, q, state))
  <1>1. HeldAs(products[p]) BY DEF HeldOnce
  <1>2. q # Idle BY DEF Idle
  <1>3. /\ PriceTyped(Sent(q.price, products[p].price))
        /\ ValuesTyped(Sent(q.values, products[p].values))
        /\ CodesOnce(Sent(q.values, products[p].values))
    BY <1>1, <1>2 DEF SavingAs, Sent, HeldAs
  <1>4. /\ Written(p, q, state).price = Sent(q.price, products[p].price)
        /\ Written(p, q, state).values = Sent(q.values, products[p].values)
    BY DEF Written
  <1> QED BY <1>3, <1>4 DEF HeldAs

LEMMA ReplaceHeld ==
    ASSUME Shaped, HeldOnce, NEW p, NEW row, p \in Products => HeldAs(row),
           products' = [products EXCEPT ![p] = row]
    PROVE  HeldOnce'
  <1>1. \A x \in Products : products'[x] = IF x = p THEN row ELSE products[x] BY DEF Shaped
  <1>2. \A x \in Products : HeldAs(products'[x]) BY <1>1 DEF HeldOnce
  <1> QED BY <1>2 DEF HeldOnce, HeldAs, PriceTyped, ValuesTyped, CodesOnce

LEMMA SavingMoves ==
    ASSUME SavingsTyped, NEW r, NEW q, r \in Requests => SavingAs(q),
           saving' = [saving EXCEPT ![r] = q]
    PROVE  SavingsTyped'
  <1>1. saving' = [x \in Requests |-> IF x = r THEN q ELSE saving[x]] BY DEF SavingsTyped
  <1>2. \A x \in Requests : SavingAs(saving'[x]) BY <1>1 DEF SavingsTyped
  <1> QED BY <1>1, <1>2
      DEF SavingsTyped, SavingAs, Idle, PriceTyped, ValuesTyped, CodesOnce

LEMMA NextFacets == IInv /\ FacetInv /\ [Next]_vars => FacetInv'
  <1> SUFFICES ASSUME IInv, FacetInv, [Next]_vars PROVE FacetInv' OBVIOUS
  <1> USE DEF FacetInv
  <1>1. UNCHANGED definitions => DefinitionsTyped' /\ LiveOnce'
    BY DEF DefinitionsTyped, LiveOnce, LiveDefinitions
  <1>2. UNCHANGED products => HeldOnce'
    BY DEF HeldOnce, HeldAs, PriceTyped, ValuesTyped, CodesOnce
  <1>3. UNCHANGED saving => SavingsTyped'
    BY DEF SavingsTyped, SavingAs, Idle, PriceTyped, ValuesTyped, CodesOnce
  <1>4. SavingAs(Idle) BY DEF SavingAs
  <1>5. ASSUME DefinitionStep PROVE FacetInv'
    <2>1. UNCHANGED <<products, saving>>
      BY <1>5 DEF DefinitionStep, CreateDefinition, UpdateDefinition, DeleteDefinition,
                  RestoreDefinition, AttachCategory, DetachCategory
    <2> QED BY <1>2, <1>3, <1>5, <2>1, DefinitionKeeps
  <1>6. ASSUME NEW r \in Requests, NEW form \in Forms, StartCreate(r, form) PROVE FacetInv'
    <2> DEFINE vals == Sent(form.values, <<>>)
               q == [pc |-> "create", of |-> None, category |-> form.category[1],
                     brand |-> form.brand[1], price |-> form.price, values |-> <<vals>>,
                     kept |-> <<>>]
    <2>1. /\ saving' = [saving EXCEPT ![r] = q] /\ UNCHANGED <<definitions, attached, products>>
          /\ Fits(form.category[1], vals)
      BY <1>6 DEF StartCreate
    <2>2. CodesOnce(vals) BY <2>1, FitsOnce
    <2>3. ValuesTyped(vals)
      <3>1. DOMAIN <<>> = {} OBVIOUS
      <3> QED BY <3>1, FormsAssumption DEF Sent, ValuesTyped
    <2>4. form.price # <<>> => PriceTyped(form.price[1])
      BY FormsAssumption DEF PriceTyped
    <2>5. SavingAs(q) BY <2>2, <2>3, <2>4 DEF SavingAs
    <2> HIDE DEF q
    <2> QED BY <1>1, <1>2, <2>1, <2>5, SavingMoves
  <1>7. ASSUME NEW r \in Requests, NEW p \in Products, NEW form \in Forms,
               StartUpdate(r, p, form)
        PROVE  FacetInv'
    <2> DEFINE q == [pc |-> "validate", of |-> p,
                     category |-> Sent(form.category, products[p].category),
                     brand |-> Sent(form.brand, products[p].brand),
                     price |-> form.price, values |-> form.values, kept |-> Shown(p)]
    <2>1. saving' = [saving EXCEPT ![r] = q] /\ UNCHANGED <<definitions, attached, products>>
      BY <1>7 DEF StartUpdate
    <2>2. SavingAs(q) BY FormsAssumption DEF SavingAs, PriceTyped
    <2> HIDE DEF q
    <2> QED BY <1>1, <1>2, <2>1, <2>2, SavingMoves
  <1>8. ASSUME NEW r \in Requests, Validate(r) PROVE FacetInv'
    <2> DEFINE q == [saving[r] EXCEPT !.pc = "update"]
               fits == Fits(saving[r].category, Sent(saving[r].values, saving[r].kept))
    <2>1. /\ saving' = [saving EXCEPT ![r] = IF fits THEN q ELSE Idle]
          /\ UNCHANGED <<definitions, attached, products>> /\ saving[r].pc = "validate"
      BY <1>8 DEF Validate
    <2>2. SavingAs(saving[r]) /\ saving[r] # Idle BY <2>1 DEF SavingsTyped, Idle
    <2>3. ASSUME fits PROVE SavingAs(q)
      <3>1. saving[r].values # <<>> => CodesOnce(saving[r].values[1])
        BY <2>3, FitsOnce DEF Sent
      <3>2. /\ q.pc = "update" /\ q.of = saving[r].of /\ q.category = saving[r].category
            /\ q.brand = saving[r].brand /\ q.price = saving[r].price
            /\ q.values = saving[r].values /\ q.kept = saving[r].kept
            /\ q = [pc |-> q.pc, of |-> q.of, category |-> q.category, brand |-> q.brand,
                    price |-> q.price, values |-> q.values, kept |-> q.kept]
        BY <2>2 DEF SavingAs
      <3> HIDE DEF q
      <3> QED BY <2>2, <3>1, <3>2 DEF SavingAs
    <2> HIDE DEF q, fits
    <2>4. SavingAs(IF fits THEN q ELSE Idle) BY <1>4, <2>3
    <2> QED BY <1>1, <1>2, <2>1, <2>4, SavingMoves
  <1>9. ASSUME NEW r \in Requests, Abandon(r) PROVE FacetInv'
    BY <1>1, <1>2, <1>4, <1>9, SavingMoves DEF Abandon
  <1>10. ASSUME NEW r \in Requests, StoreCreate(r) PROVE FacetInv'
    <2>1. PICK p \in Products : products' = [products EXCEPT ![p] = Written(p, saving[r], "live")]
      BY <1>10 DEF StoreCreate
    <2>2. SavingAs(saving[r]) /\ saving[r].pc = "create" BY <1>10 DEF StoreCreate, SavingsTyped
    <2>3. HeldOnce' BY <2>1, <2>2, WrittenHeld, ReplaceHeld DEF IInv
    <2>4. SavingsTyped' BY <1>4, <1>10, SavingMoves DEF StoreCreate
    <2> QED BY <1>1, <1>10, <2>3, <2>4 DEF StoreCreate
  <1>11. ASSUME NEW r \in Requests, StoreUpdate(r) PROVE FacetInv'
    <2> DEFINE p == saving[r].of
    <2>1. products' = [products EXCEPT ![p] = Written(p, saving[r], products[p].state)]
      BY <1>11 DEF StoreUpdate
    <2>2. SavingAs(saving[r]) /\ saving[r].pc = "update" BY <1>11 DEF StoreUpdate, SavingsTyped
    <2> HIDE DEF p
    <2>3. p \in Products => HeldAs(Written(p, saving[r], products[p].state))
      BY <2>2, WrittenHeld
    <2>4. HeldOnce' BY <2>1, <2>3, ReplaceHeld DEF IInv
    <2>5. SavingsTyped' BY <1>4, <1>11, SavingMoves DEF StoreUpdate
    <2> QED BY <1>1, <1>11, <2>4, <2>5 DEF StoreUpdate
  <1>12. ASSUME NEW p \in Products, DeleteProduct(p) \/ RestoreProduct(p) PROVE FacetInv'
    <2>1. PICK state : /\ products' = [products EXCEPT ![p].state = state]
                       /\ UNCHANGED <<definitions, saving>>
      BY <1>12 DEF DeleteProduct, RestoreProduct
    <2> DEFINE row == [products[p] EXCEPT !.state = state]
    <2>2. products' = [products EXCEPT ![p] = row] BY <2>1
    <2>3. row.price = products[p].price /\ row.values = products[p].values
      BY DEF IInv, Shaped, Fields
    <2>4. HeldAs(row) BY <2>3 DEF HeldOnce, HeldAs
    <2> HIDE DEF row
    <2> QED BY <1>1, <1>3, <2>1, <2>2, <2>4, ReplaceHeld DEF IInv
  <1>13. CASE UNCHANGED vars BY <1>1, <1>2, <1>3, <1>13 DEF vars
  <1> QED
    BY <1>5, <1>6, <1>7, <1>8, <1>9, <1>10, <1>11, <1>12, <1>13 DEF Next, ProductStep

LEMMA FacetsHold == Spec => [](IInv /\ FacetInv)
  BY InitFresh, NextFresh, InitFacets, NextFacets, PTL DEF Spec

\* A code is used again once its definition is deleted, and values of the deleted
\* definition stay in the products (attribute/infrastructure/postgres_repository.go);
\* yet no product ever holds values of two definitions with one code.
THEOREM CodesNeverShared == Spec => [](\A p \in Products : CodesOnce(products[p].values))
  <1>1. FacetInv => \A p \in Products : CodesOnce(products[p].values)
    BY DEF FacetInv, HeldOnce, HeldAs
  <1> QED BY <1>1, FacetsHold, PTL

-----------------------------------------------------------------------------
(* What a choice adds to a filter is what its own dimension left out.          *)

FilterAs(f) ==
    f = [category |-> f.category, categories |-> f.categories, brands |-> f.brands,
         min |-> f.min, max |-> f.max, tokens |-> f.tokens, ranges |-> f.ranges]

\* The dimensions are told apart.
LEMMA Dimensions ==
    /\ <<>> # <<"brand">> /\ <<>> # <<"price">> /\ <<"brand">> # <<"price">>
    /\ \A c : /\ <<"attribute", c>> \notin {<<>>, <<"brand">>, <<"price">>}
              /\ \A d : <<"attribute", c>> = <<"attribute", d>> <=> c = d
  OBVIOUS

LEMMA MatchesBrand ==
    ASSUME NEW f, FilterAs(f), NEW b, NEW q
    PROVE  Matches([f EXCEPT !.brands = {b}], <<>>, q)
             <=> Matches(f, <<"brand">>, q) /\ q.brand = b
  <1> DEFINE g == [f EXCEPT !.brands = {b}]
  <1>1. /\ g.category = f.category /\ g.categories = f.categories /\ g.brands = {b}
        /\ g.min = f.min /\ g.max = f.max /\ g.tokens = f.tokens /\ g.ranges = f.ranges
    BY DEF FilterAs
  <1> HIDE DEF g
  <1>2. /\ InScope(g, q) <=> InScope(f, q)
        /\ OfBrand(g, q) <=> q.brand = b
        /\ InPrice(g, q) <=> InPrice(f, q)
        /\ \A c : HasOption(g, q, c) <=> HasOption(f, q, c)
        /\ \A c : InRange(g, q, c) <=> InRange(f, q, c)
    BY <1>1 DEF InScope, OfBrand, InPrice, HasOption, InRange
  <1>3. Matches(g, <<>>, q) <=> Matches(f, <<"brand">>, q) /\ q.brand = b
    BY <1>1, <1>2, Dimensions DEF Matches
  <1> QED BY <1>3 DEF g

LEMMA MatchesPrice ==
    ASSUME NEW f, FilterAs(f), NEW lo, NEW hi, lo # None, NEW q
    PROVE  Matches([f EXCEPT !.min = lo, !.max = hi], <<>>, q)
             <=> /\ Matches(f, <<"price">>, q)
                 /\ q.price # None /\ Within(q.price, lo, hi)
  <1> DEFINE g == [f EXCEPT !.min = lo, !.max = hi]
  <1>1. /\ g.category = f.category /\ g.categories = f.categories /\ g.brands = f.brands
        /\ g.min = lo /\ g.max = hi /\ g.tokens = f.tokens /\ g.ranges = f.ranges
    BY DEF FilterAs
  <1> HIDE DEF g
  <1>2. /\ InScope(g, q) <=> InScope(f, q)
        /\ OfBrand(g, q) <=> OfBrand(f, q)
        /\ InPrice(g, q) <=> q.price # None /\ Within(q.price, lo, hi)
        /\ \A c : HasOption(g, q, c) <=> HasOption(f, q, c)
        /\ \A c : InRange(g, q, c) <=> InRange(f, q, c)
    BY <1>1 DEF InScope, OfBrand, InPrice, HasOption, InRange
  <1>3. Matches(g, <<>>, q) <=> /\ Matches(f, <<"price">>, q)
                                /\ q.price # None /\ Within(q.price, lo, hi)
    BY <1>1, <1>2, Dimensions DEF Matches
  <1> QED BY <1>3 DEF g

\* A filter with the options of one attribute replaced.
WithOption(f, code, o) ==
    [f EXCEPT !.tokens = {t \in @ : t[1] # code} \cup {<<code, o>>},
              !.ranges = [c \in DOMAIN @ \ {code} |-> @[c]]]

LEMMA MatchesOption ==
    ASSUME NEW f, FilterAs(f), NEW code, NEW o, NEW q
    PROVE  Matches(WithOption(f, code, o), <<>>, q)
             <=> Matches(f, <<"attribute", code>>, q) /\ <<code, o>> \in Range(q.tokens)
  <1> DEFINE g == WithOption(f, code, o)
  <1>1. /\ g.category = f.category /\ g.categories = f.categories /\ g.brands = f.brands
        /\ g.min = f.min /\ g.max = f.max
        /\ g.tokens = {t \in f.tokens : t[1] # code} \cup {<<code, o>>}
        /\ g.ranges = [c \in DOMAIN f.ranges \ {code} |-> f.ranges[c]]
    BY DEF FilterAs, WithOption
  <1> HIDE DEF g
  <1>2. /\ InScope(g, q) <=> InScope(f, q)
        /\ OfBrand(g, q) <=> OfBrand(f, q)
        /\ InPrice(g, q) <=> InPrice(f, q)
    BY <1>1 DEF InScope, OfBrand, InPrice
  <1>3. /\ HasOption(g, q, code) <=> <<code, o>> \in Range(q.tokens)
        /\ \A c : c # code => (HasOption(g, q, c) <=> HasOption(f, q, c))
    BY <1>1 DEF HasOption
  <1>4. \A c \in DOMAIN f.ranges \ {code} : InRange(g, q, c) <=> InRange(f, q, c)
    BY <1>1 DEF InRange
  <1>5. /\ {t[1] : t \in g.tokens} = ({t[1] : t \in f.tokens} \ {code}) \cup {code}
        /\ DOMAIN g.ranges = DOMAIN f.ranges \ {code}
    <2>1. \A t \in g.tokens : t[1] = code \/ t \in f.tokens BY <1>1
    <2>2. \A t \in f.tokens : t[1] # code => t \in g.tokens BY <1>1
    <2>3. <<code, o>> \in g.tokens /\ <<code, o>>[1] = code BY <1>1
    <2>4. {t[1] : t \in g.tokens} = ({t[1] : t \in f.tokens} \ {code}) \cup {code}
      BY <2>1, <2>2, <2>3
    <2> QED BY <1>1, <2>4
  <1>6. Matches(g, <<>>, q) <=>
          /\ q.state = "live" /\ InScope(f, q) /\ OfBrand(f, q) /\ InPrice(f, q)
          /\ <<code, o>> \in Range(q.tokens)
          /\ \A c \in {t[1] : t \in f.tokens} : c = code \/ HasOption(f, q, c)
          /\ \A c \in DOMAIN f.ranges : c = code \/ InRange(f, q, c)
    BY <1>2, <1>3, <1>4, <1>5, Dimensions DEF Matches
  <1>7. Matches(f, <<"attribute", code>>, q) <=>
          /\ q.state = "live" /\ InScope(f, q) /\ OfBrand(f, q) /\ InPrice(f, q)
          /\ \A c \in {t[1] : t \in f.tokens} : c = code \/ HasOption(f, q, c)
          /\ \A c \in DOMAIN f.ranges : c = code \/ InRange(f, q, c)
    BY Dimensions DEF Matches
  <1> QED BY <1>6, <1>7 DEF g

\* A filter with the bounds of one attribute replaced.
WithRange(f, code, lo, hi) ==
    [f EXCEPT !.tokens = {t \in @ : t[1] # code},
              !.ranges = [c \in DOMAIN @ \cup {code} |->
                            IF c = code THEN <<lo, hi>> ELSE @[c]]]

LEMMA MatchesRange ==
    ASSUME NEW f, FilterAs(f), NEW code, NEW lo, NEW hi, NEW q
    PROVE  Matches(WithRange(f, code, lo, hi), <<>>, q)
             <=> /\ Matches(f, <<"attribute", code>>, q)
                 /\ \E d \in DOMAIN q.values :
                      /\ Code[d] = code /\ DataType[d] = "number"
                      /\ Within(q.values[d], lo, hi)
  <1> DEFINE g == WithRange(f, code, lo, hi)
             valued == \E d \in DOMAIN q.values :
                         /\ Code[d] = code /\ DataType[d] = "number"
                         /\ Within(q.values[d], lo, hi)
  <1>1. /\ g.category = f.category /\ g.categories = f.categories /\ g.brands = f.brands
        /\ g.min = f.min /\ g.max = f.max
        /\ g.tokens = {t \in f.tokens : t[1] # code}
        /\ g.ranges = [c \in DOMAIN f.ranges \cup {code} |->
                         IF c = code THEN <<lo, hi>> ELSE f.ranges[c]]
    BY DEF FilterAs, WithRange
  <1> HIDE DEF g
  <1>2. /\ InScope(g, q) <=> InScope(f, q)
        /\ OfBrand(g, q) <=> OfBrand(f, q)
        /\ InPrice(g, q) <=> InPrice(f, q)
    BY <1>1 DEF InScope, OfBrand, InPrice
  <1>3. \A c : c # code => (HasOption(g, q, c) <=> HasOption(f, q, c))
    BY <1>1 DEF HasOption
  <1>4. /\ InRange(g, q, code) <=> valued
        /\ \A c \in DOMAIN f.ranges \ {code} : InRange(g, q, c) <=> InRange(f, q, c)
    BY <1>1 DEF InRange
  <1>5. /\ {t[1] : t \in g.tokens} = {t[1] : t \in f.tokens} \ {code}
        /\ DOMAIN g.ranges = DOMAIN f.ranges \cup {code}
    <2>1. \A t : t \in g.tokens <=> t \in f.tokens /\ t[1] # code BY <1>1
    <2>2. {t[1] : t \in g.tokens} = {t[1] : t \in f.tokens} \ {code} BY <2>1
    <2> QED BY <1>1, <2>2
  <1> HIDE DEF valued
  <1>6. Matches(g, <<>>, q) <=>
          /\ q.state = "live" /\ InScope(f, q) /\ OfBrand(f, q) /\ InPrice(f, q)
          /\ \A c \in {t[1] : t \in f.tokens} : c = code \/ HasOption(f, q, c)
          /\ \A c \in DOMAIN f.ranges : c = code \/ InRange(f, q, c)
          /\ valued
    BY <1>2, <1>3, <1>4, <1>5, Dimensions DEF Matches
  <1>7. Matches(f, <<"attribute", code>>, q) <=>
          /\ q.state = "live" /\ InScope(f, q) /\ OfBrand(f, q) /\ InPrice(f, q)
          /\ \A c \in {t[1] : t \in f.tokens} : c = code \/ HasOption(f, q, c)
          /\ \A c \in DOMAIN f.ranges : c = code \/ InRange(f, q, c)
    BY Dimensions DEF Matches
  <1> QED BY <1>6, <1>7 DEF g, valued

-----------------------------------------------------------------------------
(* What is counted is what is found. *)

LEMMA ListFinite == ASSUME NEW f, NEW exclude PROVE IsFiniteSet(List(f, exclude))
  <1>1. List(f, exclude) \in SUBSET Products BY DEF List
  <1> QED BY <1>1, FS_Subset, FormsAssumption

LEMMA BrandCounts ==
    ASSUME NEW f, FilterAs(f), NEW b \in DOMAIN BrandFacet(f)
    PROVE  BrandFacet(f)[b] = Cardinality(ChooseBrand(f, b))
  <1> DEFINE column == [p \in List(f, <<"brand">>) |-> products[p].brand]
  <1>1. BrandFacet(f) = [v \in {column[p] : p \in DOMAIN column} |->
                           Cardinality({p \in DOMAIN column : column[p] = v})]
    BY DEF BrandFacet, Grouped
  <1>2. {p \in DOMAIN column : column[p] = b} = ChooseBrand(f, b)
    BY MatchesBrand DEF ChooseBrand, List
  <1> HIDE DEF column
  <1> QED BY <1>1, <1>2

\* A price tier counts prices that its bounds, as a filter, let through.
LEMMA PriceCounts ==
    ASSUME HeldOnce, NEW f, FilterAs(f), NEW b \in PriceFacet(f)
    PROVE  CountedAs(b, ChoosePrice(f, b))
  <1> DEFINE values == Prices(f)
             bounds == NiceSequence(F!Min(Distinct(values)), F!Max(Distinct(values)))
             Counted(these) == {i \in DOMAIN values : values[i] \in these}
             Found(lo, hi) == List([f EXCEPT !.min = lo, !.max = hi], <<>>)
  <1>1. \A p \in DOMAIN values :
          /\ p \in Products /\ Matches(f, <<"price">>, products[p])
          /\ products[p].price # None /\ values[p] = products[p].price /\ values[p] > 0
    BY DEF Prices, List
  <1>2. \A p \in Products : Matches(f, <<"price">>, products[p]) /\ products[p].price # None
                              /\ products[p].price > 0 => p \in DOMAIN values
    BY DEF Prices, List
  <1> HIDE DEF values
  <1>3. \A p \in Products : products[p].price \in Int \cup {None}
    BY DEF HeldOnce, HeldAs, PriceTyped
  <1>4. \A p \in DOMAIN values : values[p] \in Int BY <1>1, <1>3
  <1>5. ASSUME NEW lo \in Int, NEW hi \in Int, NEW p \in Products
        PROVE  p \in Found(lo, hi) <=> /\ Matches(f, <<"price">>, products[p])
                                       /\ products[p].price # None
                                       /\ lo <= products[p].price /\ products[p].price <= hi
    <2>1. lo # None /\ hi # None BY FormsAssumption
    <2> QED BY <2>1, MatchesPrice DEF List, Within
  <1>6. \A lo, hi : Found(lo, hi) \subseteq Products BY DEF List
  <1>7. \A lo, hi : IsFiniteSet(Found(lo, hi)) BY ListFinite
  <1>8. ChoosePrice(f, b) = Found(b.min, b.max) BY DEF ChoosePrice
  <1> HIDE DEF Found
  <1>9. ASSUME NEW v \in Distinct(values), b = NumberBucket(v, v, CountOf(values, {v}))
        PROVE  CountedAs(b, ChoosePrice(f, b))
    <2>1. PICK i \in DOMAIN values : v = values[i] BY DEF Distinct
    <2>2. v \in Int /\ v > 0 BY <2>1, <1>1, <1>4
    <2>3. ASSUME NEW p \in Found(v, v) PROVE p \in Counted({v})
      <3>1. /\ p \in Products /\ Matches(f, <<"price">>, products[p])
            /\ products[p].price # None
            /\ v <= products[p].price /\ products[p].price <= v
        BY <1>5, <1>6, <2>2
      <3>2. products[p].price \in Int BY <1>3, <3>1
      <3>3. products[p].price = v BY <2>2, <3>1, <3>2
      <3> QED BY <1>1, <1>2, <2>2, <3>1, <3>3
    <2>4. ASSUME NEW p \in Counted({v}) PROVE p \in Found(v, v)
      <3>1. p \in DOMAIN values /\ values[p] = v OBVIOUS
      <3>2. v <= v BY <2>2
      <3> QED BY <1>1, <1>5, <2>2, <3>1, <3>2
    <2>5. Counted({v}) = Found(v, v) BY <2>3, <2>4
    <2>6. b.min = v /\ b.max = v /\ b.count = Cardinality(Found(v, v))
      BY <1>9, <2>5 DEF NumberBucket, CountOf
    <2>7. Cardinality(Found(v, v)) \in Nat BY <1>7, FS_CardinalityType
    <2> QED BY <1>8, <2>6, <2>7 DEF CountedAs
  <1>10. ASSUME NEW lo \in bounds, NEW hi \in bounds, Adjacent(bounds, lo, hi),
                b = NumberBucket(lo, hi, CountOf(values, {w \in Distinct(values) :
                                                             InTier(w, bounds, lo, hi)}))
         PROVE  CountedAs(b, ChoosePrice(f, b))
    <2> DEFINE these == {w \in Distinct(values) : InTier(w, bounds, lo, hi)}
    <2>1. lo \in Int /\ hi \in Int
      <3>1. \A m \in {1, 2, 5}, e \in Nat : m * 10^e \in Int OBVIOUS
      <3>2. \A x \in NiceNumbers : x \in Int BY <3>1, BucketAssumption DEF NiceNumbers
      <3> QED BY <3>2 DEF NiceSequence
    <2>2. lo < hi BY <1>10 DEF Adjacent
    <2>3. ASSUME NEW p \in Counted(these) PROVE p \in Found(lo, hi)
      <3>1. p \in DOMAIN values /\ InTier(values[p], bounds, lo, hi) OBVIOUS
      <3>2. values[p] \in Int BY <1>4, <3>1
      <3>3. lo <= values[p] /\ values[p] <= hi BY <2>1, <3>1, <3>2 DEF InTier
      <3> QED BY <1>1, <1>5, <2>1, <3>1, <3>3
    <2>4. Counted(these) \in SUBSET Found(lo, hi) BY <2>3
    <2>5. Cardinality(Counted(these)) <= Cardinality(Found(lo, hi)) BY <1>7, <2>4, FS_Subset
    <2>6. b.min = lo /\ b.max = hi /\ b.count = Cardinality(Counted(these))
      BY <1>10 DEF NumberBucket, CountOf
    <2> HIDE DEF these, Counted
    <2> QED BY <1>8, <2>1, <2>2, <2>5, <2>6 DEF CountedAs
  <1> HIDE DEF bounds
  <1>11. \/ \E v \in Distinct(values) : b = NumberBucket(v, v, CountOf(values, {v}))
         \/ \E t \in bounds \X bounds :
              /\ Adjacent(bounds, t[1], t[2])
              /\ b = NumberBucket(t[1], t[2], CountOf(values, {w \in Distinct(values) :
                                                                  InTier(w, bounds, t[1], t[2])}))
    <2>1. b \in BuildPriceBuckets(values) BY DEF PriceFacet, values
    <2> QED BY <2>1 DEF BuildPriceBuckets, Filled, bounds
  <1> QED
    <2>1. ASSUME NEW t \in bounds \X bounds, Adjacent(bounds, t[1], t[2]),
                 b = NumberBucket(t[1], t[2], CountOf(values, {w \in Distinct(values) :
                                                                  InTier(w, bounds, t[1], t[2])}))
          PROVE  CountedAs(b, ChoosePrice(f, b))
      <3>1. t[1] \in bounds /\ t[2] \in bounds OBVIOUS
      <3> QED BY <1>10, <2>1, <3>1
    <2> QED BY <1>9, <1>11, <2>1

\* One value for each product found: as many are counted as are found.
LEMMA OnePerProduct ==
    ASSUME NEW V, NEW found, IsFiniteSet(found),
           \A v \in V : v[1] \in found,
           \A v \in V, w \in V : v[1] = w[1] => v = w
    PROVE  /\ IsFiniteSet(V)
           /\ Cardinality(V) \in Nat /\ Cardinality(found) \in Nat
           /\ Cardinality(V) <= Cardinality(found)
           /\ (\A p \in found : \E v \in V : v[1] = p) => Cardinality(V) = Cardinality(found)
  <1> DEFINE owner == [v \in V |-> v[1]]
  <1>1. owner \in Injection(V, found) BY DEF Injection, IsInjective
  <1>2. (\A p \in found : \E v \in V : v[1] = p) => owner \in Surjection(V, found)
    BY DEF Surjection
  <1> HIDE DEF owner
  <1> QED BY <1>1, <1>2, FS_Injection, FS_CardinalityType

\* A range counts values that its bounds, as a filter, let through.
LEMMA NumberCounts ==
    ASSUME HeldOnce, NEW f, FilterAs(f), NEW code, NEW b \in NumberFacet(f, code)
    PROVE  CountedAs(b, ChooseRange(f, code, b))
  <1> DEFINE values == NumberValues(f, code)
             distinct == Distinct(values)
             min == F!Min(distinct)
             max == F!Max(distinct)
             step == NiceNumber(max - min)
             Counted(these) == {i \in DOMAIN values : values[i] \in these}
             Found(lo, hi) == List(WithRange(f, code, lo, hi), <<>>)
             listed == List(f, <<"attribute", code>>)
  <1>1. \A i \in DOMAIN values :
          /\ i = <<i[1], i[2]>>
          /\ i[1] \in listed /\ i[1] \in Products
          /\ Matches(f, <<"attribute", code>>, products[i[1]])
          /\ i[2] \in DOMAIN products[i[1]].values
          /\ Code[i[2]] = code /\ DataType[i[2]] = "number"
          /\ values[i] = products[i[1]].values[i[2]]
    BY DEF NumberValues, List
  <1>2. ASSUME NEW p \in Products, Matches(f, <<"attribute", code>>, products[p]),
               NEW d \in DOMAIN products[p].values, Code[d] = code, DataType[d] = "number"
        PROVE  <<p, d>> \in DOMAIN values /\ values[<<p, d>>] = products[p].values[d]
    <2>1. d \in Definitions BY DEF HeldOnce, HeldAs, ValuesTyped
    <2>2. p \in List(f, <<"attribute", code>>) BY <1>2 DEF List
    <2> QED BY <1>2, <2>1, <2>2 DEF NumberValues
  <1> HIDE DEF values
  <1>3. \A i \in DOMAIN values : values[i] \in Int
    BY <1>1 DEF HeldOnce, HeldAs, ValuesTyped
  <1>4. \A i \in DOMAIN values, j \in DOMAIN values : i[1] = j[1] => i = j
    BY <1>1 DEF HeldOnce, HeldAs, CodesOnce
  <1>5. ASSUME NEW lo \in Int, NEW hi \in Int, NEW p \in Products
        PROVE  p \in Found(lo, hi) <=>
                 /\ Matches(f, <<"attribute", code>>, products[p])
                 /\ \E d \in DOMAIN products[p].values :
                      /\ Code[d] = code /\ DataType[d] = "number"
                      /\ lo <= products[p].values[d] /\ products[p].values[d] <= hi
    <2>1. lo # None /\ hi # None BY FormsAssumption
    <2>2. \A v : Within(v, lo, hi) <=> lo <= v /\ v <= hi BY <2>1 DEF Within
    <2>3. Found(lo, hi) = {x \in Products : Matches(WithRange(f, code, lo, hi), <<>>, products[x])}
      BY DEF List
    <2> QED BY <2>2, <2>3, MatchesRange
  <1>6. \A lo, hi : Found(lo, hi) \subseteq Products /\ IsFiniteSet(Found(lo, hi))
    BY ListFinite DEF List
  <1>7. ChooseRange(f, code, b) = Found(b.min, b.max) BY DEF ChooseRange, WithRange
  <1>8. IsFiniteSet(listed) BY ListFinite
  <1> HIDE DEF Found, listed
  <1>9. ASSUME NEW lo \in Int, NEW hi \in Int, NEW these,
               \A w \in distinct : w \in these => lo <= w /\ w <= hi
        PROVE  /\ Cardinality(Counted(these)) \in Nat
               /\ Cardinality(Found(lo, hi)) \in Nat
               /\ Cardinality(Counted(these)) <= Cardinality(Found(lo, hi))
               /\ (\A w \in distinct : lo <= w /\ w <= hi => w \in these)
                    => Cardinality(Counted(these)) = Cardinality(Found(lo, hi))
    <2>1. ASSUME NEW i \in Counted(these) PROVE i[1] \in Found(lo, hi)
      <3>1. i \in DOMAIN values /\ values[i] \in these /\ values[i] \in distinct BY DEF Distinct
      <3>2. lo <= values[i] /\ values[i] <= hi BY <1>9, <3>1
      <3> QED BY <1>1, <1>5, <3>1, <3>2
    <2>2. \A i \in Counted(these), j \in Counted(these) : i[1] = j[1] => i = j BY <1>4
    <2>3. ASSUME \A w \in distinct : lo <= w /\ w <= hi => w \in these,
                 NEW p \in Found(lo, hi)
          PROVE  \E i \in Counted(these) : i[1] = p
      <3>1. p \in Products BY <1>6
      <3>2. PICK d \in DOMAIN products[p].values :
              /\ Matches(f, <<"attribute", code>>, products[p])
              /\ Code[d] = code /\ DataType[d] = "number"
              /\ lo <= products[p].values[d] /\ products[p].values[d] <= hi
        BY <1>5, <3>1
      <3>3. <<p, d>> \in DOMAIN values /\ values[<<p, d>>] = products[p].values[d]
        BY <1>2, <3>1, <3>2
      <3>4. values[<<p, d>>] \in distinct BY <3>3 DEF Distinct
      <3>5. <<p, d>> \in Counted(these) BY <2>3, <3>2, <3>3, <3>4
      <3>6. <<p, d>>[1] = p OBVIOUS
      <3> QED BY <3>5, <3>6
    <2> HIDE DEF Counted
    <2> QED BY <1>6, <2>1, <2>2, <2>3, OnePerProduct
  <1>10. IsFiniteSet(distinct) /\ distinct \in SUBSET Int
    <2>1. IsFiniteSet(DOMAIN values) BY <1>1, <1>4, <1>8, OnePerProduct
    <2>2. [i \in DOMAIN values |-> values[i]] \in Surjection(DOMAIN values, distinct)
      BY DEF Surjection, Distinct
    <2>3. IsFiniteSet(distinct) BY <2>1, <2>2, FS_Surjection
    <2> QED BY <1>3, <2>3 DEF Distinct
  <1> HIDE DEF distinct
  <1>11. ASSUME NEW v \in distinct, b = NumberBucket(v, v, CountOf(values, {v}))
         PROVE  CountedAs(b, ChooseRange(f, code, b))
    <2>1. v \in Int BY <1>10
    <2>2. \A w \in distinct : v <= w /\ w <= v <=> w \in {v} BY <1>10, <2>1
    <2>3. Cardinality(Counted({v})) = Cardinality(Found(v, v)) /\ Cardinality(Found(v, v)) \in Nat
      BY <1>9, <2>1, <2>2
    <2>4. b.min = v /\ b.max = v /\ b.count = Cardinality(Counted({v}))
      BY <1>11 DEF NumberBucket, CountOf
    <2> QED BY <1>7, <2>3, <2>4 DEF CountedAs
  <1>12. ASSUME NEW k \in Steps(min, max, step), distinct # {},
                b = NumberBucket(Start(min, step, k), Start(min, step, k + 1),
                                 CountOf(values, {w \in distinct : InStep(w, min, max, step, k)}))
         PROVE  CountedAs(b, ChooseRange(f, code, b))
    <2> DEFINE these == {w \in distinct : InStep(w, min, max, step, k)}
               lo == Start(min, step, k)
               hi == Start(min, step, k + 1)
    <2>1. max \in distinct /\ \A w \in distinct : w <= max BY <1>10, <1>12, HasMax
    <2>2. max \in Int BY <1>10, <2>1
    <2>3. min \in Int BY <1>10, <1>12, HasMin
    <2> HIDE DEF min, max
    <2>4. step \in Nat \ {0} BY <2>2, <2>3, NiceNumberPositive
    <2> HIDE DEF step
    <2>5. k \in Int /\ k + 1 \in Int /\ k < k + 1 BY DEF Steps
    <2>6. lo \in Int /\ hi \in Int /\ lo < hi BY <2>3, <2>4, <2>5, Starts, StartsRise
    <2> HIDE DEF lo, hi
    <2>7. ASSUME NEW w \in distinct, w \in these PROVE lo <= w /\ w <= hi
      <3>1. w \in Int /\ w <= max BY <1>10, <2>1
      <3>2. w >= lo /\ (w < hi \/ hi >= max) BY <2>7 DEF InStep, lo, hi
      <3> QED BY <2>2, <2>6, <3>1, <3>2
    <2>8. b.min = lo /\ b.max = hi /\ b.count = Cardinality(Counted(these))
      BY <1>12 DEF NumberBucket, CountOf, lo, hi
    <2> HIDE DEF these, Counted
    <2>9. Cardinality(Counted(these)) <= Cardinality(Found(lo, hi)) BY <1>9, <2>6, <2>7
    <2>10. lo # hi BY <2>6
    <2> QED BY <1>7, <2>8, <2>9, <2>10 DEF CountedAs
  <1>13. \/ \E v \in distinct : b = NumberBucket(v, v, CountOf(values, {v}))
         \/ /\ distinct # {}
            /\ \E k \in Steps(min, max, step) :
                 b = NumberBucket(Start(min, step, k), Start(min, step, k + 1),
                                  CountOf(values, {w \in distinct : InStep(w, min, max, step, k)}))
    <2>1. b \in BuildNumberBuckets(values) BY DEF NumberFacet, values
    <2>2. distinct = {} => Cardinality(distinct) <= ExactValueBucketThreshold
      BY FS_EmptySet, BucketAssumption
    <2> QED BY <2>1, <2>2 DEF BuildNumberBuckets, Filled, distinct
  <1> QED BY <1>11, <1>12, <1>13

\* A product that repeats no option has it in one place of its tokens.
LEMMA TokensOnce ==
    ASSUME IInv, HeldOnce, NEW p \in Products, ~Repeats(products[p]),
           NEW x \in DOMAIN products[p].tokens, NEW y \in DOMAIN products[p].tokens,
           products[p].tokens[x] = products[p].tokens[y]
    PROVE  x = y
  <1> DEFINE values == products[p].values
             valued == {d \in DOMAIN values : DataType[d] \in Tokenised}
             Of(d) == {<<d, i>> : i \in DOMAIN values[d]}
             all == {Of(d) : d \in valued}
             places == UNION all
             tokens == products[p].tokens
  <1>1. tokens = [at \in places |-> <<Code[at[1]], values[at[1]][at[2]]>>]
    BY DEF IInv, TokensFresh, TokensOf
  <1>2. IsFiniteSet(places)
    <2>1. valued \in SUBSET Definitions
          /\ \A d \in valued : IsFiniteSet(DOMAIN values[d])
      BY DEF HeldOnce, HeldAs, ValuesTyped
    <2>2. IsFiniteSet(valued) BY <2>1, FS_Subset, FormsAssumption
    <2>3. ASSUME NEW d \in valued PROVE IsFiniteSet(Of(d))
      <3>1. [i \in DOMAIN values[d] |-> <<d, i>>] \in Surjection(DOMAIN values[d], Of(d))
        BY DEF Surjection
      <3> QED BY <2>1, <3>1, FS_Surjection
    <2>4. [d \in valued |-> Of(d)] \in Surjection(valued, all) BY DEF Surjection
    <2>5. IsFiniteSet(all) BY <2>2, <2>4, FS_Surjection
    <2>6. \A T \in all : IsFiniteSet(T) BY <2>3
    <2> HIDE DEF all
    <2> QED BY <2>5, <2>6, FS_UNION
  <1>3. DOMAIN tokens = places /\ tokens = [at \in DOMAIN tokens |-> tokens[at]] BY <1>1
  <1> HIDE DEF places, tokens
  <1>4. tokens \in Surjection(DOMAIN tokens, Range(tokens))
    <2>1. tokens \in [DOMAIN tokens -> Range(tokens)] BY <1>3 DEF Range
    <2> QED BY <2>1 DEF Surjection, Range
  <1>5. Cardinality(DOMAIN tokens) = Cardinality(Range(tokens)) BY DEF Repeats, tokens
  <1>6. tokens \in Injection(DOMAIN tokens, Range(tokens))
    BY <1>2, <1>3, <1>4, <1>5, FS_SurjSameCardinalityImpliesInj
  <1>7. x \in DOMAIN tokens /\ y \in DOMAIN tokens /\ tokens[x] = tokens[y] BY DEF tokens
  <1> QED BY <1>6, <1>7 DEF Injection, IsInjective

\* An option is counted once in each product found by it.
LEMMA OptionCounts ==
    ASSUME IInv, HeldOnce, NEW f, FilterAs(f), NEW code, NEW o \in DOMAIN TokenFacet(f, code),
           \A p \in ChooseOption(f, code, o) : ~Repeats(products[p])
    PROVE  TokenFacet(f, code)[o] = Cardinality(ChooseOption(f, code, o))
  <1> DEFINE listed == List(f, <<"attribute", code>>)
             t == <<code, o>>
             found == ChooseOption(f, code, o)
             V == Occurrences(listed, t)
  <1>1. TokenFacet(f, code)[o] = Cardinality(V) BY DEF TokenFacet
  <1>2. found = {p \in Products : /\ Matches(f, <<"attribute", code>>, products[p])
                                  /\ t \in Range(products[p].tokens)}
    <2>1. found = {p \in Products : Matches(WithOption(f, code, o), <<>>, products[p])}
      BY DEF ChooseOption, List, WithOption
    <2> QED BY <2>1, MatchesOption
  <1>3. IsFiniteSet(found) BY ListFinite DEF ChooseOption
  <1>4. ASSUME NEW v \in V
        PROVE  /\ v = <<v[1], v[2]>> /\ v[1] \in found
               /\ v[2] \in DOMAIN products[v[1]].tokens /\ products[v[1]].tokens[v[2]] = t
    <2>1. PICK p \in listed :
            v \in {<<p, at>> : at \in {x \in DOMAIN products[p].tokens : products[p].tokens[x] = t}}
      BY DEF Occurrences
    <2>2. PICK at \in DOMAIN products[p].tokens : products[p].tokens[at] = t /\ v = <<p, at>>
      BY <2>1
    <2>3. v[1] = p /\ v[2] = at BY <2>2
    <2>4. t \in Range(products[p].tokens) BY <2>2 DEF Range
    <2>5. p \in found BY <1>2, <2>4 DEF List
    <2> QED BY <2>2, <2>3, <2>5
  <1>5. ASSUME NEW p \in found PROVE \E v \in V : v[1] = p
    <2>1. p \in listed BY <1>2 DEF List
    <2>2. PICK at \in DOMAIN products[p].tokens : products[p].tokens[at] = t
      BY <1>2 DEF Range
    <2>3. <<p, at>> \in {<<p, x>> : x \in {y \in DOMAIN products[p].tokens :
                                              products[p].tokens[y] = t}}
      BY <2>2
    <2>4. <<p, at>> \in V BY <2>1, <2>3 DEF Occurrences
    <2> QED BY <2>4
  <1> HIDE DEF V, found, t
  <1>6. ASSUME NEW v \in V, NEW w \in V, v[1] = w[1] PROVE v = w
    <2>1. v[1] \in Products /\ ~Repeats(products[v[1]]) BY <1>2, <1>4 DEF found
    <2>2. v[2] = w[2] BY <1>4, <1>6, <2>1, TokensOnce
    <2> QED BY <1>4, <1>6, <2>2
  <1>7. Cardinality(V) = Cardinality(found) BY <1>3, <1>4, <1>5, <1>6, OnePerProduct
  <1> QED BY <1>1, <1>7 DEF found

\* The number beside a choice is the number of products that choosing it finds,
\* in every state, for every catalog and every filter (facet_repository.go).
THEOREM CountsRight == Spec => []FacetCounts
  <1>1. IInv /\ FacetInv => FacetCounts
    <2> SUFFICES ASSUME IInv, HeldOnce, NEW f \in Filters
                 PROVE  /\ \A b \in DOMAIN BrandFacet(f) :
                             BrandFacet(f)[b] = Cardinality(ChooseBrand(f, b))
                        /\ \A b \in PriceFacet(f) : CountedAs(b, ChoosePrice(f, b))
                        /\ \A c : \A o \in DOMAIN TokenFacet(f, c) :
                             \/ TokenFacet(f, c)[o] = Cardinality(ChooseOption(f, c, o))
                             \/ \E p \in ChooseOption(f, c, o) : Repeats(products[p])
                        /\ \A c : \A b \in NumberFacet(f, c) :
                             CountedAs(b, ChooseRange(f, c, b))
      BY DEF FacetCounts, FacetInv
    <2>1. FilterAs(f) BY FiltersAssumption DEF FilterAs
    <2> QED BY <2>1, BrandCounts, PriceCounts, OptionCounts, NumberCounts
  <1> QED BY <1>1, FacetsHold, PTL

\* The suggested ranges account for every price of the products found, once, and for
\* every number but the least, which the first may start above, in every state and
\* wherever float64 rounds (number_bucket.go:23-73, 88-123).
THEOREM AlwaysTile == Spec => []BucketsTile
  <1>1. IInv /\ FacetInv => BucketsTile
    <2> SUFFICES ASSUME HeldOnce, NEW f \in Filters
                 PROVE  /\ Tiles(PriceFacet(f), Prices(f))
                        /\ \A c : \/ Tiles(NumberFacet(f, c), NumberValues(f, c))
                                  \/ TilesAbove(NumberFacet(f, c), NumberValues(f, c))
      BY DEF BucketsTile, FacetInv
    <2>1. FiniteNumbers(Prices(f))
          /\ \A p \in DOMAIN Prices(f) : 1 <= Prices(f)[p] /\ Prices(f)[p] <= 10^MaxExponent
      <3>1. DOMAIN Prices(f) \in SUBSET Products BY DEF Prices, List
      <3>2. IsFiniteSet(DOMAIN Prices(f)) BY <3>1, FS_Subset, FormsAssumption
      <3>3. ASSUME NEW p \in DOMAIN Prices(f)
            PROVE  /\ Prices(f)[p] = products[p].price
                   /\ products[p].price # None /\ products[p].price > 0
        BY DEF Prices
      <3>4. \A p \in DOMAIN Prices(f) : PriceTyped(products[p].price)
        BY <3>1 DEF HeldOnce, HeldAs
      <3>5. ASSUME NEW p \in DOMAIN Prices(f)
            PROVE  /\ Prices(f)[p] \in Int
                   /\ 1 <= Prices(f)[p] /\ Prices(f)[p] <= 10^MaxExponent
        BY <3>3, <3>4 DEF PriceTyped
      <3> QED BY <3>2, <3>5 DEF FiniteNumbers
    <2>2. ASSUME NEW c PROVE FiniteNumbers(NumberValues(f, c))
      <3> DEFINE values == NumberValues(f, c)
                 listed == List(f, <<"attribute", c>>)
      <3>1. DOMAIN values \in SUBSET (listed \X Definitions) BY DEF NumberValues
      <3>2. IsFiniteSet(listed) /\ IsFiniteSet(Definitions) BY ListFinite, FormsAssumption
      <3>3. \A i \in DOMAIN values :
              /\ i[1] \in Products /\ i[2] \in DOMAIN products[i[1]].values
              /\ DataType[i[2]] = "number" /\ values[i] = products[i[1]].values[i[2]]
        BY DEF NumberValues, List
      <3> HIDE DEF values, listed
      <3>4. IsFiniteSet(listed \X Definitions) BY <3>2, FS_Product
      <3>5. IsFiniteSet(DOMAIN values) BY <3>1, <3>4, FS_Subset
      <3>6. \A i \in DOMAIN values : values[i] \in Int
        BY <3>3 DEF HeldOnce, HeldAs, ValuesTyped
      <3> QED BY <3>5, <3>6 DEF FiniteNumbers, values
    <2> QED BY <2>1, <2>2, PricesTile, NumbersTile DEF PriceFacet, NumberFacet
  <1> QED BY <1>1, FacetsHold, PTL
=============================================================================
