---------------------------- MODULE VisitorPaths ----------------------------
(***************************************************************************)
(* What slug changes promise visitors: every path that led to a piece of   *)
(* content still leads to it after it moves, and its new path does too.    *)
(* Content that comes or moves may revive dead paths, and takes over only  *)
(* the path it moves to.                                                   *)
(***************************************************************************)
CONSTANTS Paths, Contents, Nothing, NoPath

VARIABLES
    leads,      \* leads[p]: the content a visitor of p ends up at
    home        \* home[e]: the path of content e, while it is there

Init == /\ leads = [p \in Paths |-> Nothing]
        /\ home = [e \in Contents |-> NoPath]

\* Content e gets the paths in own, and perhaps dead ones; no link to any other
\* content changes.
Gains(e, own) ==
    \A p \in Paths :
        IF p \in own THEN leads'[p] = e
        ELSE leads'[p] = leads[p] \/ (leads[p] = Nothing /\ leads'[p] = e)

Appear(e, p) ==
    /\ home[e] = NoPath
    /\ home' = [home EXCEPT ![e] = p]
    /\ Gains(e, {})

Move(e, new) ==
    /\ home[e] # NoPath
    /\ home' = [home EXCEPT ![e] = new]
    /\ Gains(e, {home[e], new})

Disappear(e) ==
    /\ home' = [home EXCEPT ![e] = NoPath]
    /\ leads' = [p \in Paths |-> IF leads[p] = e THEN Nothing ELSE leads[p]]

Next == \E e \in Contents : Disappear(e) \/ \E p \in Paths : Appear(e, p) \/ Move(e, p)

Spec == Init /\ [][Next]_<<leads, home>>
=============================================================================
