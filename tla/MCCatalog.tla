----------------------------- MODULE MCCatalog -----------------------------
(* A small shop for TLC: the power of an air conditioner is a number; its mode *)
(* was multiselect in one definition and select in the one that replaced it.   *)
(* Powers are counted in tenths of the last decimal entered.                   *)
EXTENDS Catalog, TLC

CONSTANTS c1, c2, b1, b2, power, modes, mode

Cats == {c1, c2}
BrandSet == {b1, b2}
Defs == {power, modes, mode}
CodeOf == (power :> "power") @@ (modes :> "mode") @@ (mode :> "mode")
TypeOf == (power :> "number") @@ (modes :> "multiselect") @@ (mode :> "select")
Pairs == {<<modes, c1>>, <<mode, c2>>}
Required == {mode}

Form(category, brand, price, values) ==
    [category |-> category, brand |-> brand, price |-> price, values |-> values]

FormSet == {
    Form(<<c1>>, <<b1>>, <<2>>, << (power :> 20) @@ (modes :> <<"cool">>) >>),
    Form(<<c1>>, <<b2>>, <<5>>, << (power :> 30) @@ (modes :> <<"cool", "heat">>) >>),
    Form(<<c2>>, <<b1>>, <<0>>, << mode :> <<"heat">> >>),
    Form(<<>>, <<>>, <<None>>, << (power :> 50) @@ (modes :> <<"heat", "heat">>) >>),
    Form(<<>>, <<>>, <<>>, << (modes :> <<"cool">>) @@ (mode :> <<"cool">>) >>) }

FilterSet == {
    AnyProduct,
    [AnyProduct EXCEPT !.brands = {b1}, !.tokens = {<<"mode", "cool">>, <<"mode", "heat">>}],
    [AnyProduct EXCEPT !.category = c1, !.ranges = "power" :> <<10, 30>>],
    [AnyProduct EXCEPT !.categories = {c1, c2}, !.min = 2, !.max = 4],
    [AnyProduct EXCEPT !.tokens = {<<"mode", "cool">>}, !.max = 5] }

\* Where float64 rounds: 50 - 20 is less than three tens; 20 / 20 is less than 1;
\* 2 * 10 is more than 20; 20 added to 20 is less than 40.
LowRanges == {30}
ShortOf == {<<20, 20>>}
DriftAt == (<<20, 10, 0>> :> 1) @@ (<<30, 20, 1>> :> -1)

Symmetry == Permutations(Products)
=============================================================================
