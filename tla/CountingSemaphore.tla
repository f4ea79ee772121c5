-------------------------- MODULE CountingSemaphore --------------------------
(***************************************************************************)
(* What a counting semaphore promises to the threads that call it: a call  *)
(* that asks for n permits is either granted, taking all n in one step     *)
(* when they are there, or given up; permits come back only by a release,  *)
(* and never more of them than the semaphore was built for.                *)
(*                                                                         *)
(* Nothing here is code.  MonitorSemaphore is the monitor-based class of   *)
(* SharpSpotLib, and implements this specification.                        *)
(***************************************************************************)
EXTENDS Integers

CONSTANTS
  Threads,   \* the threads that call the semaphore
  MaxCount,  \* the permits it can hold at most
  Initial    \* the permits it is constructed with

VARIABLES
  permits,   \* permits nobody holds
  asked      \* permits each thread's pending call asks for, 0 without a call

vars == <<permits, asked>>

Init ==
  /\ permits = Initial
  /\ asked = [t \in Threads |-> 0]

Ask(t, n) ==
  /\ asked[t] = 0
  /\ asked' = [asked EXCEPT ![t] = n]
  /\ UNCHANGED permits

Grant(t) ==
  /\ asked[t] > 0
  /\ permits >= asked[t]
  /\ permits' = permits - asked[t]
  /\ asked' = [asked EXCEPT ![t] = 0]

GiveUp(t) ==
  /\ asked[t] > 0
  /\ asked' = [asked EXCEPT ![t] = 0]
  /\ UNCHANGED permits

Return(n) ==
  /\ permits + n <= MaxCount
  /\ permits' = permits + n
  /\ UNCHANGED asked

Next ==
  \/ \E t \in Threads : Grant(t) \/ GiveUp(t)
  \/ \E t \in Threads, n \in 1..MaxCount : Ask(t, n)
  \/ \E n \in 1..MaxCount : Return(n)

(* A call whose permits stay available is not left hanging.                *)
Spec == Init /\ [][Next]_vars /\ \A t \in Threads : WF_vars(Grant(t))

SafeSpec == Init /\ [][Next]_vars
=============================================================================
