----------------------------- MODULE RemoteCalls -----------------------------
(***************************************************************************)
(* What those who call a remote service may rely on.  A request is made    *)
(* once.  Its reply arrives in packets, whose parts its own call receives, *)
(* each one once, until the reply is over.  A call ends once: it returns   *)
(* what it has received, when its reply is over and no more can come, or it*)
(* fails, when nothing need have come, and a late reply changes nothing.   *)
(*                                                                         *)
(* That is so as long as the service can be trusted.  Afterwards parts may *)
(* be lost, be received that are none, or reach another call, and a call   *)
(* may return too early; it still ends only once.                          *)
(*                                                                         *)
(* Nothing here is code.  ChannelRequests is the channel layer of          *)
(* SharpSpotLib, and implements this specification.                        *)
(***************************************************************************)
EXTENDS Integers

CONSTANT Requests

VARIABLES
  phase,     \* of the reply: "none" without a request, "open" or "over"
  given,     \* the parts of the reply that the server has given
  received,  \* those its own call has
  foreign,   \* calls that have parts of another reply
  outcome,   \* "none", "returned" or "failed"
  trusted    \* nothing has disturbed the service

vars == <<phase, given, received, foreign, outcome, trusted>>

Init ==
  /\ phase = [r \in Requests |-> "none"]
  /\ given = [r \in Requests |-> 0]
  /\ received = [r \in Requests |-> 0]
  /\ foreign = {}
  /\ outcome = [r \in Requests |-> "none"]
  /\ trusted = TRUE

Ask(r) ==
  /\ phase[r] = "none" /\ outcome[r] = "none"
  /\ phase' = [phase EXCEPT ![r] = "open"]
  /\ UNCHANGED <<given, received, foreign, outcome, trusted>>

(* A packet with a part of the reply or without, which may be the last.    *)
Packet(r) ==
  /\ phase[r] = "open"
  /\ phase' \in {phase, [phase EXCEPT ![r] = "over"]}
  /\ \E n \in 0..1 :
       /\ given' = [given EXCEPT ![r] = @ + n]
       /\ received' = [received EXCEPT ![r] = @ + n]
  /\ UNCHANGED <<foreign, outcome, trusted>>

Misdeliver(r) ==
  /\ phase[r] = "open" /\ ~trusted'
  /\ phase' \in {phase, [phase EXCEPT ![r] = "over"]}
  /\ \E n, m \in 0..1 :
       /\ given' = [given EXCEPT ![r] = @ + n]
       /\ received' = [received EXCEPT ![r] = @ + m]
  /\ \E others \in {{}} \union {{c} : c \in Requests \ {r}} :
       foreign' = foreign \union others
  /\ UNCHANGED outcome

Return(r) ==
  /\ outcome[r] = "none" /\ (trusted => phase[r] = "over")
  /\ outcome' = [outcome EXCEPT ![r] = "returned"]
  /\ UNCHANGED <<phase, given, received, foreign, trusted>>

Fail(r) ==
  /\ outcome[r] = "none"
  /\ outcome' = [outcome EXCEPT ![r] = "failed"]
  /\ UNCHANGED <<phase, given, received, foreign, trusted>>

Disturb ==
  /\ trusted /\ trusted' = FALSE
  /\ UNCHANGED <<phase, given, received, foreign, outcome>>

Next ==
  \/ \E r \in Requests : Ask(r) \/ Packet(r) \/ Misdeliver(r) \/ Return(r) \/ Fail(r)
  \/ Disturb

Spec == Init /\ [][Next]_vars
==============================================================================
