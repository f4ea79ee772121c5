-------------------------- MODULE MCChannelRequests --------------------------
(* Instances of ChannelRequests: two requests, with races and ids that wrap*)
(* around, and three, with one of each listener, in their quiet states.    *)
EXTENDS ChannelRequests, TLC

CONSTANTS a, b, c

TwoRequests == {a, b}
TwoKinds == a :> "callback" @@ b :> "aeskey"

ThreeRequests == {a, b, c}
ThreeKinds == TwoKinds @@ c :> "header"
=============================================================================
