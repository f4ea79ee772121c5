----------------------------- MODULE MCFavourites ----------------------------
(* Two tracks and three requests under way at once.                        *)
EXTENDS Favourites, TLC

Symmetry == Permutations(Requests) \union Permutations(Tracks)

(* Bound: a list in doubt is followed with one request at a time and a row *)
(* of each track, until it is loaded again.                                *)
Bounded ==
  "list" \in doubt =>
    Cardinality(Busy) <= 1 /\ Len(list) <= 2 /\ \A t \in Tracks : rows[t] <= 1
==============================================================================
