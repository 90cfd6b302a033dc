------------------------------ MODULE Catalog ------------------------------
(* The filtered product list of the shop: the list, the choices offered beside *)
(* it with their counts (facets), and the edits of products and of attribute   *)
(* definitions that they are computed from.                                    *)
EXTENDS NumberBuckets, Sequences, Functions

CONSTANTS Categories, Brands, Products, Definitions,
          Code,          \* of each definition; several may share one
          DataType,      \* "number", "select", "multiselect", "boolean" or "text"
          Attachable,    \* the definition-category pairs that staff attach
          MayRequire,    \* the definitions that staff make required
          Forms,         \* what a product form may send
          Filters,       \* what a shopper may ask for
          Requests,
          None

Sent(field, kept) == IF field = <<>> THEN kept ELSE field[1]

VARIABLES definitions,  \* attribute_definitions
          attached,     \* category_attribute_definitions
          products,     \* products with their product_attribute_values
          saving        \* the product forms being saved

vars == <<definitions, attached, products, saving>>

States == {"absent", "live", "deleted"}
NoProduct == [state |-> "absent", category |-> None, brand |-> None, price |-> None,
              values |-> <<>>, tokens |-> <<>>]
Idle == [pc |-> "idle"]

LiveDefinitions == {d \in Definitions : definitions[d].state = "live"}
LiveProducts == {p \in Products : products[p].state = "live"}

Init ==
    /\ definitions = [d \in Definitions |-> [state |-> "absent", required |-> FALSE]]
    /\ attached = {}
    /\ products = [p \in Products |-> NoProduct]
    /\ saving = [r \in Requests |-> Idle]

-----------------------------------------------------------------------------
(* Attribute definitions. *)

CodeTaken(d) == \E e \in LiveDefinitions \ {d} : Code[e] = Code[d]

\* A code is unique among the live definitions.
CreateDefinition(d) ==
    /\ definitions[d].state = "absent"
    /\ ~CodeTaken(d)
    /\ \E required \in IF d \in MayRequire THEN BOOLEAN ELSE {FALSE} :
         definitions' = [definitions EXCEPT ![d] = [state |-> "live", required |-> required]]
    /\ UNCHANGED <<attached, products, saving>>

\* The code and the data type cannot be changed.
UpdateDefinition(d) ==
    /\ d \in LiveDefinitions \cap MayRequire
    /\ definitions' = [definitions EXCEPT ![d].required = ~@]
    /\ UNCHANGED <<attached, products, saving>>

DeleteDefinition(d) ==
    /\ d \in LiveDefinitions
    /\ definitions' = [definitions EXCEPT ![d].state = "deleted"]
    /\ UNCHANGED <<attached, products, saving>>

RestoreDefinition(d) ==
    /\ definitions[d].state = "deleted"
    /\ ~CodeTaken(d)
    /\ definitions' = [definitions EXCEPT ![d].state = "live"]
    /\ UNCHANGED <<attached, products, saving>>

AttachCategory(d, c) ==
    /\ d \in LiveDefinitions
    /\ attached' = attached \cup {<<d, c>>}
    /\ UNCHANGED <<definitions, products, saving>>

\* Without any category left, the definition applies to all of them.
DetachCategory(d, c) ==
    /\ <<d, c>> \in attached
    /\ attached' = attached \ {<<d, c>>}
    /\ UNCHANGED <<definitions, products, saving>>

\* GetApplicableForCategory, for any of several categories.
Applicable(categories) ==
    {d \in LiveDefinitions :
        \/ \E c \in categories : <<d, c>> \in attached
        \/ \A c \in Categories : <<d, c>> \notin attached}

-----------------------------------------------------------------------------
(* Products. *)

\* facet_tokens: one for each option of each value of these types.
Tokenised == {"select", "multiselect", "boolean"}
TokensOf(values) ==
    LET places == UNION {{<<d, i>> : i \in DOMAIN values[d]} :
                            d \in {e \in DOMAIN values : DataType[e] \in Tokenised}}
    IN  [at \in places |-> <<Code[at[1]], values[at[1]][at[2]]>>]

\* A number, or a finite list of options.
ValuesTyped(values) ==
    /\ DOMAIN values \subseteq Definitions
    /\ \A d \in DOMAIN values :
         /\ DataType[d] = "number" => values[d] \in Int
         /\ DataType[d] \in Tokenised => IsFiniteSet(DOMAIN values[d])

\* Prices are whole numbers.
PriceTyped(price) == price = None \/ (price \in Int /\ price <= 10^MaxExponent)
ASSUME FormsAssumption ==
    /\ IsFiniteSet(Products) /\ IsFiniteSet(Definitions)
    /\ None \notin Int
    /\ \A form \in Forms :
         /\ form.price # <<>> => PriceTyped(form.price[1])
         /\ form.values # <<>> => ValuesTyped(form.values[1])

\* attachAttributeValues: what the page of a product shows.
Shown(p) == [d \in DOMAIN products[p].values \cap LiveDefinitions |-> products[p].values[d]]

\* validateAttributeValues
Fits(category, values) ==
    /\ DOMAIN values \subseteq Applicable({category})
    /\ \A d \in Applicable({category}) : definitions[d].required => d \in DOMAIN values

\* CreateProduct: of may be any product that does not exist yet.
StartCreate(r, form) ==
    /\ saving[r] = Idle
    /\ form.category # <<>> /\ form.brand # <<>> /\ form.price # <<>>
    /\ Fits(form.category[1], Sent(form.values, <<>>))
    /\ saving' = [saving EXCEPT ![r] =
         [pc |-> "create", of |-> None, category |-> form.category[1], brand |-> form.brand[1],
          price |-> form.price, values |-> <<Sent(form.values, <<>>)>>, kept |-> <<>>]]
    /\ UNCHANGED <<definitions, attached, products>>

\* UpdateProduct up to GetByID: the copy it changes, and the values it shows.
StartUpdate(r, p, form) ==
    /\ saving[r] = Idle
    /\ p \in LiveProducts
    /\ saving' = [saving EXCEPT ![r] =
         [pc |-> "validate", of |-> p,
          category |-> Sent(form.category, products[p].category),
          brand |-> Sent(form.brand, products[p].brand),
          price |-> form.price, values |-> form.values, kept |-> Shown(p)]]
    /\ UNCHANGED <<definitions, attached, products>>

\* The rules are those of the definitions as they are by now.
Validate(r) ==
    /\ saving[r].pc = "validate"
    /\ saving' = [saving EXCEPT ![r] =
         IF Fits(saving[r].category, Sent(saving[r].values, saving[r].kept))
           THEN [saving[r] EXCEPT !.pc = "update"] ELSE Idle]
    /\ UNCHANGED <<definitions, attached, products>>

\* One transaction: the row, the values if they were sent, and with them the
\* tokens.
Written(p, q, state) ==
    LET values == Sent(q.values, products[p].values)
    IN  [state |-> state, category |-> q.category, brand |-> q.brand,
         price |-> Sent(q.price, products[p].price), values |-> values,
         tokens |-> IF q.values = <<>> THEN products[p].tokens ELSE TokensOf(values)]

StoreCreate(r) ==
    /\ saving[r].pc = "create"
    /\ \E p \in Products :
         /\ products[p].state = "absent"
         /\ products' = [products EXCEPT ![p] = Written(p, saving[r], "live")]
    /\ saving' = [saving EXCEPT ![r] = Idle]
    /\ UNCHANGED <<definitions, attached>>

\* Mutant: an edit leaves the tokens of its old values.
StoreStaleTokens(r) ==
    /\ saving[r].pc = "update"
    /\ LET p == saving[r].of IN
         products' = [products EXCEPT ![p] =
            [Written(p, saving[r], products[p].state) EXCEPT !.tokens = products[p].tokens]]
    /\ saving' = [saving EXCEPT ![r] = Idle]
    /\ UNCHANGED <<definitions, attached>>

\* WHERE id: also if the product was deleted since.
StoreUpdate(r) ==
    /\ saving[r].pc = "update"
    /\ LET p == saving[r].of IN
         products' = [products EXCEPT ![p] = Written(p, saving[r], products[p].state)]
    /\ saving' = [saving EXCEPT ![r] = Idle]
    /\ UNCHANGED <<definitions, attached>>

Abandon(r) ==
    /\ saving[r] # Idle
    /\ saving' = [saving EXCEPT ![r] = Idle]
    /\ UNCHANGED <<definitions, attached, products>>

DeleteProduct(p) ==
    /\ p \in LiveProducts
    /\ products' = [products EXCEPT ![p].state = "deleted"]
    /\ UNCHANGED <<definitions, attached, saving>>

RestoreProduct(p) ==
    /\ products[p].state = "deleted"
    /\ products' = [products EXCEPT ![p].state = "live"]
    /\ UNCHANGED <<definitions, attached, saving>>

DefinitionStep ==
    \/ \E d \in Definitions : \/ CreateDefinition(d) \/ UpdateDefinition(d)
                              \/ DeleteDefinition(d) \/ RestoreDefinition(d)
    \/ \E d \in Definitions, c \in Categories :
         <<d, c>> \in Attachable /\ (AttachCategory(d, c) \/ DetachCategory(d, c))

ProductStep ==
    \/ \E r \in Requests, form \in Forms :
         StartCreate(r, form) \/ \E p \in Products : StartUpdate(r, p, form)
    \/ \E r \in Requests : Validate(r) \/ StoreCreate(r) \/ StoreUpdate(r) \/ Abandon(r)
    \/ \E p \in Products : DeleteProduct(p) \/ RestoreProduct(p)

Next == DefinitionStep \/ ProductStep

\* Staff save products and edit definitions in any interleaving.
Spec == Init /\ [][Next]_vars

-----------------------------------------------------------------------------
(* The list and its facets.  A dimension is left out when its own choices are *)
(* counted: <<"brand">>, <<"price">> or <<"attribute", code>>; <<>> is none.   *)

AnyProduct == [category |-> None, categories |-> {}, brands |-> {}, min |-> None, max |-> None,
               tokens |-> {}, ranges |-> <<>>]

ASSUME FiltersAssumption ==
    \A f \in Filters :
      f = [category |-> f.category, categories |-> f.categories, brands |-> f.brands,
           min |-> f.min, max |-> f.max, tokens |-> f.tokens, ranges |-> f.ranges]

Within(v, min, max) == (min = None \/ min <= v) /\ (max = None \/ v <= max)

InScope(f, q) ==
    IF f.category # None THEN q.category = f.category
    ELSE f.categories = {} \/ q.category \in f.categories
OfBrand(f, q) == f.brands = {} \/ q.brand \in f.brands
InPrice(f, q) ==
    \/ f.min = None /\ f.max = None
    \/ q.price # None /\ Within(q.price, f.min, f.max)
HasOption(f, q, code) == \E t \in f.tokens \cap Range(q.tokens) : t[1] = code
InRange(f, q, code) ==
    \E d \in DOMAIN q.values :
        /\ Code[d] = code /\ DataType[d] = "number"
        /\ Within(q.values[d], f.ranges[code][1], f.ranges[code][2])

\* buildFilterConditions: one option of each attribute asked for is enough.
Matches(f, exclude, q) ==
    /\ q.state = "live"
    /\ InScope(f, q)
    /\ exclude = <<"brand">> \/ OfBrand(f, q)
    /\ exclude = <<"price">> \/ InPrice(f, q)
    /\ \A c \in {t[1] : t \in f.tokens} : exclude = <<"attribute", c>> \/ HasOption(f, q, c)
    /\ \A c \in DOMAIN f.ranges : exclude = <<"attribute", c>> \/ InRange(f, q, c)

List(f, exclude) == {p \in Products : Matches(f, exclude, products[p])}

\* GROUP BY: how many of the products listed have each value of a column.
Grouped(column) ==
    [v \in {column[p] : p \in DOMAIN column} |->
        Cardinality({p \in DOMAIN column : column[p] = v})]

BrandFacet(f) == Grouped([p \in List(f, <<"brand">>) |-> products[p].brand])

\* Within the scope of the page, only if it spans listed categories.
CategoryFacet(f) ==
    IF f.categories = {} THEN <<>>
    ELSE Grouped([p \in List(f, <<>>) |-> products[p].category])

\* A price of 0 is a price on request.
Prices(f) ==
    [p \in {l \in List(f, <<"price">>) : products[l].price # None /\ products[l].price > 0}
        |-> products[p].price]
PriceFacet(f) == BuildPriceBuckets(Prices(f))

\* The attributes offered: those of the categories that the page spans,
\* whatever options are chosen on it.
Scope(f) == [AnyProduct EXCEPT !.category = f.category, !.categories = f.categories,
                               !.brands = f.brands]
Controls(f) ==
    LET listed == List(Scope(f), <<>>)
    IN  IF listed = {} THEN {} ELSE Applicable({products[p].category : p \in listed})

Occurrences(listed, t) ==
    UNION {{<<p, at>> : at \in {x \in DOMAIN products[p].tokens : products[p].tokens[x] = t}} :
              p \in listed}
OptionsOf(listed, code) ==
    {t[2] : t \in {u \in UNION {Range(products[p].tokens) : p \in listed} : u[1] = code}}

\* Mutant: the options not chosen vanish from the counts.
TokenFacetOwn(f, code) ==
    LET listed == List(f, <<>>)
    IN  [o \in OptionsOf(listed, code) |-> Cardinality(Occurrences(listed, <<code, o>>))]
TokenFacet(f, code) ==
    LET listed == List(f, <<"attribute", code>>)
    IN  [o \in OptionsOf(listed, code) |-> Cardinality(Occurrences(listed, <<code, o>>))]

\* Values of every number definition with that code, deleted ones too.
NumberValues(f, code) ==
    LET valued == {pd \in List(f, <<"attribute", code>>) \X Definitions :
                      /\ pd[2] \in DOMAIN products[pd[1]].values
                      /\ Code[pd[2]] = code /\ DataType[pd[2]] = "number"}
    IN  [pd \in valued |-> products[pd[1]].values[pd[2]]]
NumberFacet(f, code) == BuildNumberBuckets(NumberValues(f, code))

TokenCodes(f) == {Code[d] : d \in {c \in Controls(f) : DataType[c] # "number"}}
NumberCodes(f) == {Code[d] : d \in {c \in Controls(f) : DataType[c] = "number"}}

-----------------------------------------------------------------------------
\* What a shopper gets by choosing what the page offers.
ChooseBrand(f, b) == List([f EXCEPT !.brands = {b}], <<>>)
ChoosePrice(f, b) == List([f EXCEPT !.min = b.min, !.max = b.max], <<>>)
ChooseOption(f, code, o) ==
    List([f EXCEPT !.tokens = {t \in @ : t[1] # code} \cup {<<code, o>>},
                   !.ranges = [c \in DOMAIN @ \ {code} |-> @[c]]], <<>>)
ChooseRange(f, code, b) ==
    List([f EXCEPT !.tokens = {t \in @ : t[1] # code},
                   !.ranges = [c \in DOMAIN @ \cup {code} |->
                                 IF c = code THEN <<b.min, b.max>> ELSE @[c]]], <<>>)

Repeats(q) == Cardinality(Range(q.tokens)) # Cardinality(DOMAIN q.tokens)
CountedAs(b, found) ==
    b.count <= Cardinality(found) /\ (b.min = b.max => b.count = Cardinality(found))

\* The number beside a choice is the number of products that choosing it finds,
\* whatever else is chosen, for brands, options and exact values; a range, which
\* is closed when chosen and half-open when counted, finds no fewer.  Only a
\* product that repeats an option is counted more than once.  This needs that no
\* product ever holds values of two definitions with one code, though a code is
\* used again after its definition is deleted.
FacetCounts ==
    \A f \in Filters :
        /\ \A b \in DOMAIN BrandFacet(f) : BrandFacet(f)[b] = Cardinality(ChooseBrand(f, b))
        /\ \A b \in PriceFacet(f) : CountedAs(b, ChoosePrice(f, b))
        /\ \A c \in TokenCodes(f) : \A o \in DOMAIN TokenFacet(f, c) :
             \/ TokenFacet(f, c)[o] = Cardinality(ChooseOption(f, c, o))
             \/ \E p \in ChooseOption(f, c, o) : Repeats(products[p])
        /\ \A c \in NumberCodes(f) : \A b \in NumberFacet(f, c) :
             CountedAs(b, ChooseRange(f, c, b))

Shows(values, t) ==
    \E d \in DOMAIN values :
        DataType[d] \in Tokenised /\ Code[d] = t[1] /\ t[2] \in Range(values[d])
TokensIn(q) == UNION {Range(TokensOf(Sent(form.values, q.values))) : form \in Forms}

\* The list and the page agree: a product is found by an option exactly if its
\* page shows that option, or showed it until its definition was deleted
\* (facet_repository.go:13-18, "called after every write").
FoundAsShown ==
    \A p \in LiveProducts : \A t \in TokensIn(products[p]) :
        LET found == p \in List([AnyProduct EXCEPT !.tokens = {t}], <<>>)
        IN  /\ Shows(Shown(p), t) => found
            /\ found => Shows(products[p].values, t)

\* Every price that the products found have falls in one suggested range, and is
\* counted there once; so does every number but the least, which is in none when
\* rounding puts the first start above it (number_bucket.go:51: 17 * 0.1 > 1.7).
BucketsTile ==
    \A f \in Filters :
        /\ Tiles(PriceFacet(f), Prices(f))
        /\ \A c \in NumberCodes(f) :
             LET buckets == NumberFacet(f, c)
                 values == NumberValues(f, c)
             IN  Tiles(buckets, values) \/ TilesAbove(buckets, values)

\* "exact distinct prices if few enough, otherwise round-number ranges"
\* (types.go:624), "if a number attribute (or price) has this many or fewer
\* distinct values ..., show one bucket per exact value" (number_bucket.go:8).
FewPricesExact ==
    \A f \in Filters :
        Cardinality(Distinct(Prices(f))) <= ExactValueBucketThreshold =>
          \A b \in PriceFacet(f) : b.min = b.max
=============================================================================
