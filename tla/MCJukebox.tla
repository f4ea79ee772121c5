------------------------------ MODULE MCJukebox ------------------------------
(* The jukebox with a small library, few threads and few voters.           *)
EXTENDS Jukebox, TLC

(* Bound: how often a track is put on the list. *)
Bounded == \A t \in Tracks : handlers[t] <= 2

Symmetry == Permutations(Tracks)
==============================================================================
