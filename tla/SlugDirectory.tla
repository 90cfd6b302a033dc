--------------------------- MODULE SlugDirectory ---------------------------
(***************************************************************************)
(* What the slug registry promises: every slug has at most one holder, a   *)
(* holder has at most one slug, and nobody loses a slug to somebody else.  *)
(***************************************************************************)
CONSTANTS Slugs, Holders, Nobody

VARIABLE holder     \* holder[s]: who answers to slug s

Init == holder = [s \in Slugs |-> Nobody]

Holds(h) == {s \in Slugs : holder[s] = h}

\* h gets a free slug, giving up the one it had.
Take(h, s) ==
    /\ holder[s] = Nobody
    /\ holder' = [x \in Slugs |-> IF x = s THEN h
                                  ELSE IF x \in Holds(h) THEN Nobody ELSE holder[x]]

\* h gives up its slug.
GiveUp(h) ==
    /\ Holds(h) # {}
    /\ holder' = [x \in Slugs |-> IF x \in Holds(h) THEN Nobody ELSE holder[x]]

Next == \E h \in Holders : GiveUp(h) \/ \E s \in Slugs : Take(h, s)

Spec == Init /\ [][Next]_holder
=============================================================================
