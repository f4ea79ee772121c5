------------------------------ MODULE MCRatings ------------------------------
(* A few requests at once.                                                 *)
EXTENDS Ratings, TLC

Symmetry == Permutations(Requests)

(* Bound: how often rows are doubled. *)
Bounded == favourites <= 3 /\ ratings <= 3 /\ votes <= 3
==============================================================================
