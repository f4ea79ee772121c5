---------------------------- MODULE MCPageSession ----------------------------
(* Two log ins and one other request under way at once.                    *)
EXTENDS PageSession
==============================================================================
