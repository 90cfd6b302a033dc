----------------------------- MODULE VariantTree -----------------------------
(***************************************************************************)
(* The variants of a product: which one is the default, and what the shop  *)
(* lists for the product (the display cache columns of products).  A tree  *)
(* is the sequence of variants in the order of the request.  Options,      *)
(* components, codes, stock and weight are left out: neither the default   *)
(* nor a price depends on them.                                            *)
(***************************************************************************)
EXTENDS Integers, Sequences, FiniteSets

\* NULL in a price column.
CONSTANT NoPrice

ASSUME PriceAssumption == NoPrice \notin Int

F == INSTANCE FiniteSetsExt

Variant == [isDefault : BOOLEAN, componentOnly : BOOLEAN, active : BOOLEAN,
            original : Int, sale : Int \cup {NoPrice}]

Marked(vs) == {i \in DOMAIN vs : vs[i].isDefault}
Standalone(vs) == {i \in DOMAIN vs : ~vs[i].componentOnly}

IsFirst(i, S) == i \in S /\ \A j \in S : i <= j

\* The variant that the request marks, else the first standalone one, else the
\* first one.
DefaultIndex(vs) ==
    LET candidates == IF Marked(vs) # {} THEN Marked(vs) ELSE Standalone(vs)
    IN  IF candidates = {} THEN 1 ELSE CHOOSE i \in candidates : IsFirst(i, candidates)

\* resolveDefaultVariant refuses an empty tree, two marks and a default that
\* is not sold on its own.
AnyDefault(vs) == vs # <<>> /\ \A i, j \in Marked(vs) : i = j
Resolvable(vs) ==
    /\ vs # <<>>
    /\ \A i, j \in Marked(vs) : i = j
    /\ ~vs[DefaultIndex(vs)].componentOnly

ResolveDefaultVariant(vs) == [vs EXCEPT ![DefaultIndex(vs)].isDefault = TRUE]

ValidPrices(vs) ==
    \A i \in DOMAIN vs : /\ vs[i].original >= 0
                         /\ vs[i].sale # NoPrice => vs[i].sale >= 0

\* COALESCE(NULLIF(sale_price, 0), original_price)
RawPrice(v) == IF v.sale = NoPrice THEN v.original ELSE v.sale
ListPrice(v) == IF v.sale \in {NoPrice, 0} THEN v.original ELSE v.sale

\* What the variants on sale cost.
OnSale(vs) == {i \in Standalone(vs) : vs[i].active}
SalePrices(vs) == {ListPrice(vs[i]) : i \in OnSale(vs)}

\* What RecomputeDisplayCache stores.  variant = 0 is a NULL default_variant_id.
DisplayCache(vs) ==
    LET dv   == Marked(vs) \cap Standalone(vs)
        default == IF dv = {} THEN 0 ELSE CHOOSE i \in dv : TRUE
    IN  [variant |-> default,
         price |-> IF dv = {} THEN NoPrice ELSE ListPrice(vs[default]),
         min |-> IF OnSale(vs) = {} THEN NoPrice ELSE F!Min(SalePrices(vs)),
         max |-> IF OnSale(vs) = {} THEN NoPrice ELSE F!Max(SalePrices(vs))]
=============================================================================
