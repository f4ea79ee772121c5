--------------------------- MODULE MCTrackHistory ---------------------------
(* A short history and a few plays. *)
EXTENDS TrackHistory, TLC
==============================================================================
