----------------------------- MODULE MCProducts -----------------------------
(* The catalogue with two categories, for TLC: "inverter" applies to both    *)
(* and the first requires it, "model" applies to the first only.             *)
EXTENDS Products, TLC

CONSTANTS catA, catB

MCCategories == {catA, catB}
MCAttributes == {"inverter", "model"}
MCApplicable == catA :> {"inverter", "model"} @@ catB :> {"inverter"}
MCRequired == catA :> {"inverter"} @@ catB :> {}

Kind(d, c, on, o, s) ==
    [isDefault |-> d, componentOnly |-> c, active |-> on, original |-> o, sale |-> s]

\* None; a component marked as the default, which is refused; a component and an
\* inactive variant before the one that becomes the default; a default with the
\* sale price 0, on sale beside a cheaper and a dearer one and a component that
\* costs nothing.
FewTrees == {
    <<>>,
    <<Kind(TRUE, TRUE, TRUE, 0, NoPrice), Kind(FALSE, FALSE, TRUE, 2, 0)>>,
    <<Kind(FALSE, TRUE, TRUE, 0, NoPrice), Kind(FALSE, FALSE, FALSE, 3, NoPrice),
      Kind(FALSE, FALSE, TRUE, 3, 1)>>,
    <<Kind(FALSE, FALSE, TRUE, 3, 1), Kind(TRUE, FALSE, TRUE, 2, 0),
      Kind(FALSE, FALSE, TRUE, 4, NoPrice), Kind(FALSE, TRUE, TRUE, 0, NoPrice)>> }

Symmetry == Permutations(Requests) \cup Permutations(Products)
=============================================================================
