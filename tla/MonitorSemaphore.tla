-------------------------- MODULE MonitorSemaphore --------------------------
(***************************************************************************)
(* DotNet/Semaphore.cs: a counting semaphore built from one monitor.       *)
(*                                                                         *)
(* Each lock(_lock) block runs without interruption except at Monitor.Wait,*)
(* which gives the lock up.  A thread is then in the monitor's wait set    *)
(* until a Pulse or PulseAll moves it to the ready queue, or its timeout   *)
(* or an exception takes it out.  In each of these cases it has to get the *)
(* lock back before it goes on, so others may run in between.              *)
(***************************************************************************)
EXTENDS Integers, FiniteSets

CONSTANTS
  Threads,   \* threads that call AcquireUninterruptibly, TryAcquire, Release
  MaxCount,  \* maxCount of the constructor
  Initial    \* availableCount of the constructor

ASSUME CountAssumption ==
  /\ MaxCount \in Nat \ {0}
  /\ Initial \in 0..MaxCount

VARIABLES
  available,  \* _availableCount
  pc,         \* where each thread is, see Places
  want,       \* acquireCount of each thread's current or last call
  timed       \* the call is TryAcquire with a timeout

vars == <<available, pc, want, timed>>

(***************************************************************************)
(* idle: outside the class.  ready: inside, contending for the lock with   *)
(* the while condition still to be tested.  waiting: in the wait set.      *)
(* expired: Monitor.Wait has timed out and the lock is not back yet.       *)
(***************************************************************************)
Places == {"idle", "ready", "waiting", "expired"}

Waiting == {t \in Threads : pc[t] = "waiting"}

Init ==
  /\ available = Initial
  /\ pc = [t \in Threads |-> "idle"]
  /\ want = [t \in Threads |-> 1]
  /\ timed = [t \in Threads |-> FALSE]

(* AcquireUninterruptibly() asks for one permit, without a timeout.        *)
AcquireUninterruptibly(t) ==
  /\ pc[t] = "idle"
  /\ pc' = [pc EXCEPT ![t] = "ready"]
  /\ want' = [want EXCEPT ![t] = 1]
  /\ timed' = [timed EXCEPT ![t] = FALSE]
  /\ UNCHANGED available

TryAcquire(t, n) ==
  /\ pc[t] = "idle"
  /\ pc' = [pc EXCEPT ![t] = "ready"]
  /\ want' = [want EXCEPT ![t] = n]
  /\ timed' = [timed EXCEPT ![t] = TRUE]
  /\ UNCHANGED available

(* The thread has the lock and finds too few permits: Monitor.Wait.        *)
Block(t) ==
  /\ pc[t] = "ready"
  /\ available < want[t]
  /\ pc' = [pc EXCEPT ![t] = "waiting"]
  /\ UNCHANGED <<available, want, timed>>

(* Mutant: one permit is taken, however many were asked for.               *)
TakeOne(t) ==
  /\ pc[t] = "ready"
  /\ available >= want[t]
  /\ available' = available - 1
  /\ pc' = [pc EXCEPT ![t] = "idle"]
  /\ UNCHANGED <<want, timed>>

(* The thread has the lock and finds its permits: it takes them, returns.  *)
Take(t) ==
  /\ pc[t] = "ready"
  /\ available >= want[t]
  /\ available' = available - want[t]
  /\ pc' = [pc EXCEPT ![t] = "idle"]
  /\ UNCHANGED <<want, timed>>

(* The timeout of Monitor.Wait runs out, whatever is available by now.     *)
Expire(t) ==
  /\ pc[t] = "waiting"
  /\ timed[t]
  /\ pc' = [pc EXCEPT ![t] = "expired"]
  /\ UNCHANGED <<available, want, timed>>

(* Mutant: the result of Monitor.Wait is ignored and the loop goes on.     *)
RefuseLoops(t) ==
  /\ pc[t] = "expired"
  /\ pc' = [pc EXCEPT ![t] = "ready"]
  /\ UNCHANGED <<available, want, timed>>

(* Monitor.Wait returns false and so does TryAcquire: no second test.      *)
Refuse(t) ==
  /\ pc[t] = "expired"
  /\ pc' = [pc EXCEPT ![t] = "idle"]
  /\ UNCHANGED <<available, want, timed>>

(* An exception ends Monitor.Wait (a web request that is aborted): the     *)
(* handler pulses one other waiter and throws on.                          *)
Interrupt(t) ==
  /\ pc[t] = "waiting"
  /\ \/ /\ Waiting = {t}
        /\ pc' = [pc EXCEPT ![t] = "idle"]
     \/ \E u \in Waiting \ {t} :
          pc' = [pc EXCEPT ![t] = "idle", ![u] = "ready"]
  /\ UNCHANGED <<available, want, timed>>

(* Mutant: Pulse in place of PulseAll.                                     *)
ReleasePulsesOne(n) ==
  /\ available + n <= MaxCount
  /\ available' = available + n
  /\ \/ Waiting = {} /\ UNCHANGED pc
     \/ \E t \in Waiting : pc' = [pc EXCEPT ![t] = "ready"]
  /\ UNCHANGED <<want, timed>>

(* Mutant: the limit is tested before the permits are added.               *)
ReleaseOver(n) ==
  /\ available < MaxCount
  /\ available' = available + n
  /\ pc' = [t \in Threads |-> IF pc[t] = "waiting" THEN "ready" ELSE pc[t]]
  /\ UNCHANGED <<want, timed>>

(* Release(n): more than _maxCount permits throw and change nothing.       *)
Release(n) ==
  /\ available + n <= MaxCount
  /\ available' = available + n
  /\ pc' = [t \in Threads |-> IF pc[t] = "waiting" THEN "ready" ELSE pc[t]]
  /\ UNCHANGED <<want, timed>>

Next ==
  \/ \E t \in Threads :
       \/ AcquireUninterruptibly(t)
       \/ \E n \in 1..MaxCount : TryAcquire(t, n)
       \/ Block(t)
       \/ Take(t)
       \/ Expire(t)
       \/ Refuse(t)
       \/ Interrupt(t)
  \/ \E n \in 1..MaxCount : Release(n)

(***************************************************************************)
(* A thread that contends for the lock gets it, and a timeout that is left *)
(* running runs out.  Nobody has to call, and nobody has to release.       *)
(***************************************************************************)
Fairness ==
  \A t \in Threads :
    /\ WF_vars(Block(t) \/ Take(t))
    /\ WF_vars(Expire(t))
    /\ WF_vars(Refuse(t))

Spec == Init /\ [][Next]_vars /\ Fairness

-----------------------------------------------------------------------------
TypeOK ==
  /\ available \in 0..MaxCount
  /\ pc \in [Threads -> Places]
  /\ want \in [Threads -> 1..MaxCount]
  /\ timed \in [Threads -> BOOLEAN]

(* No wakeup is lost: no thread sleeps in the wait set while the permits   *)
(* it asked for are available.  Callers ask for different numbers (one for *)
(* a reply, two for User()), so it matters that Release pulses all waiters *)
(* and that each of them tests again.                                      *)
NoLostWakeup ==
  \A t \in Threads : pc[t] = "waiting" => available < want[t]

(* The class implements the counting semaphore: permits move only by whole *)
(* grants and releases, and a call whose permits stay available ends.      *)
Abstract ==
  INSTANCE CountingSemaphore WITH
    permits <- available,
    asked <- [t \in Threads |-> IF pc[t] = "idle" THEN 0 ELSE want[t]]

ImplementsSemaphore == Abstract!Spec
ImplementsSafely == Abstract!SafeSpec

(* A TryAcquire returns once pulses stop.  While they go on it need not:   *)
(* every pulse starts the whole timeout again, so the call has no bound.   *)
Pulse == (\E n \in 1..MaxCount : Release(n)) \/ (\E t \in Threads : Interrupt(t))

TimedCallReturns ==
  (<>[][~Pulse]_vars) =>
    \A t \in Threads : (pc[t] # "idle" /\ timed[t]) ~> (pc[t] = "idle")
=============================================================================
