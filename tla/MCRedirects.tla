----------------------------- MODULE MCRedirects -----------------------------
(* Redirects on a small site, for TLC. *)
EXTENDS Redirects, TLC

\* Paths that may be a source are interchangeable; so are the requests.
PathSymmetry == Permutations(Paths \ Reserved)
Symmetry == PathSymmetry \cup Permutations(Admins)
=============================================================================
