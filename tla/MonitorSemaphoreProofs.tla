----------------------- MODULE MonitorSemaphoreProofs -----------------------
(***************************************************************************)
(* Proofs about MonitorSemaphore, for any set of threads and any capacity: *)
(* its type, that no wakeup is lost, and that it implements the counting   *)
(* semaphore (the safety half; the liveness half is left to TLC).          *)
(***************************************************************************)
EXTENDS MonitorSemaphore, TLAPS

(* The state of the semaphore keeps its type: in particular the permits    *)
(* never leave 0..MaxCount, whatever is acquired and released.             *)
THEOREM TypeCorrect == Spec => []TypeOK
<1> USE CountAssumption
<1>1. Init => TypeOK
  BY DEF Init, TypeOK, Places
<1>2. TypeOK /\ [Next]_vars => TypeOK'
  <2> SUFFICES ASSUME TypeOK, [Next]_vars
               PROVE  TypeOK'
    OBVIOUS
  <2> USE DEF TypeOK, Places
  <2>1. ASSUME NEW t \in Threads, AcquireUninterruptibly(t)
        PROVE  TypeOK'
    BY <2>1 DEF AcquireUninterruptibly
  <2>2. ASSUME NEW t \in Threads, NEW n \in 1..MaxCount, TryAcquire(t, n)
        PROVE  TypeOK'
    BY <2>2 DEF TryAcquire
  <2>3. ASSUME NEW t \in Threads, Block(t)
        PROVE  TypeOK'
    BY <2>3 DEF Block
  <2>4. ASSUME NEW t \in Threads, Take(t)
        PROVE  TypeOK'
    BY <2>4 DEF Take
  <2>5. ASSUME NEW t \in Threads, Expire(t)
        PROVE  TypeOK'
    BY <2>5 DEF Expire
  <2>6. ASSUME NEW t \in Threads, Refuse(t)
        PROVE  TypeOK'
    BY <2>6 DEF Refuse
  <2>7. ASSUME NEW t \in Threads, Interrupt(t)
        PROVE  TypeOK'
    BY <2>7 DEF Interrupt, Waiting
  <2>8. ASSUME NEW n \in 1..MaxCount, Release(n)
        PROVE  TypeOK'
    BY <2>8 DEF Release
  <2>9. CASE UNCHANGED vars
    BY <2>9 DEF vars
  <2> QED
    BY <2>1, <2>2, <2>3, <2>4, <2>5, <2>6, <2>7, <2>8, <2>9 DEF Next
<1> QED
  BY <1>1, <1>2, PTL DEF Spec

(* No thread sleeps in the wait set while its permits are available.  Only *)
(* Release adds permits, and it empties the wait set; a thread enters the  *)
(* wait set only under the lock, having just found too few.                *)
THEOREM NoWakeupLost == Spec => []NoLostWakeup
<1> USE CountAssumption
<1>1. Init => NoLostWakeup
  BY DEF Init, NoLostWakeup
<1>2. TypeOK /\ NoLostWakeup /\ [Next]_vars => NoLostWakeup'
  <2> SUFFICES ASSUME TypeOK, NoLostWakeup, [Next]_vars
               PROVE  NoLostWakeup'
    OBVIOUS
  <2> USE DEF TypeOK, NoLostWakeup
  <2>1. ASSUME NEW t \in Threads, AcquireUninterruptibly(t)
        PROVE  NoLostWakeup'
    BY <2>1 DEF AcquireUninterruptibly
  <2>2. ASSUME NEW t \in Threads, NEW n \in 1..MaxCount, TryAcquire(t, n)
        PROVE  NoLostWakeup'
    BY <2>2 DEF TryAcquire
  <2>3. ASSUME NEW t \in Threads, Block(t)
        PROVE  NoLostWakeup'
    BY <2>3 DEF Block
  <2>4. ASSUME NEW t \in Threads, Take(t)
        PROVE  NoLostWakeup'
    BY <2>4 DEF Take
  <2>5. ASSUME NEW t \in Threads, Expire(t) \/ Refuse(t)
        PROVE  NoLostWakeup'
    BY <2>5 DEF Expire, Refuse
  <2>6. ASSUME NEW t \in Threads, Interrupt(t)
        PROVE  NoLostWakeup'
    BY <2>6 DEF Interrupt, Waiting
  <2>7. ASSUME NEW n \in 1..MaxCount, Release(n)
        PROVE  NoLostWakeup'
    BY <2>7 DEF Release
  <2>8. CASE UNCHANGED vars
    BY <2>8 DEF vars
  <2> QED
    BY <2>1, <2>2, <2>3, <2>4, <2>5, <2>6, <2>7, <2>8 DEF Next
<1> QED
  BY <1>1, <1>2, TypeCorrect, PTL DEF Spec

(* Every step of the monitor is a step of the counting semaphore, or none: *)
(* permits move only by whole grants and by releases.                      *)
THEOREM RefinesSemaphore == Spec => ImplementsSafely
<1> USE CountAssumption
<1>1. Init => Abstract!Init
  BY DEF Init, Abstract!Init
<1>2. TypeOK /\ [Next]_vars => [Abstract!Next]_(Abstract!vars)
  <2> SUFFICES ASSUME TypeOK, [Next]_vars
               PROVE  Abstract!Next \/ UNCHANGED Abstract!vars
    BY DEF Abstract!vars
  <2> DEFINE asked == [t \in Threads |-> IF pc[t] = "idle" THEN 0 ELSE want[t]]
  <2> USE DEF TypeOK, Places
  <2>1. ASSUME NEW t \in Threads, AcquireUninterruptibly(t)
        PROVE  Abstract!Next
    <3>1. asked' = [asked EXCEPT ![t] = 1]
      BY <2>1 DEF AcquireUninterruptibly
    <3>2. Abstract!Ask(t, 1)
      BY <2>1, <3>1 DEF AcquireUninterruptibly, Abstract!Ask
    <3> QED
      BY <3>2 DEF Abstract!Next
  <2>2. ASSUME NEW t \in Threads, NEW n \in 1..MaxCount, TryAcquire(t, n)
        PROVE  Abstract!Next
    <3>1. asked' = [asked EXCEPT ![t] = n]
      BY <2>2 DEF TryAcquire
    <3>2. Abstract!Ask(t, n)
      BY <2>2, <3>1 DEF TryAcquire, Abstract!Ask
    <3> QED
      BY <3>2 DEF Abstract!Next
  <2>3. ASSUME NEW t \in Threads, Take(t)
        PROVE  Abstract!Next
    <3>1. asked' = [asked EXCEPT ![t] = 0]
      BY <2>3 DEF Take
    <3>2. Abstract!Grant(t)
      BY <2>3, <3>1 DEF Take, Abstract!Grant
    <3> QED
      BY <3>2 DEF Abstract!Next
  <2>4. ASSUME NEW t \in Threads, Refuse(t)
        PROVE  Abstract!Next
    <3>1. asked' = [asked EXCEPT ![t] = 0]
      BY <2>4 DEF Refuse
    <3>2. Abstract!GiveUp(t)
      BY <2>4, <3>1 DEF Refuse, Abstract!GiveUp
    <3> QED
      BY <3>2 DEF Abstract!Next
  <2>5. ASSUME NEW t \in Threads, Interrupt(t)
        PROVE  Abstract!Next
    <3>1. asked' = [asked EXCEPT ![t] = 0]
      BY <2>5 DEF Interrupt, Waiting
    <3>2. Abstract!GiveUp(t)
      BY <2>5, <3>1 DEF Interrupt, Abstract!GiveUp
    <3> QED
      BY <3>2 DEF Abstract!Next
  <2>6. ASSUME NEW n \in 1..MaxCount, Release(n)
        PROVE  Abstract!Next
    <3>1. asked' = asked
      BY <2>6 DEF Release
    <3>2. Abstract!Return(n)
      BY <2>6, <3>1 DEF Release, Abstract!Return
    <3> QED
      BY <3>2 DEF Abstract!Next
  <2>7. ASSUME NEW t \in Threads, Block(t) \/ Expire(t)
        PROVE  UNCHANGED Abstract!vars
    BY <2>7 DEF Block, Expire, Abstract!vars
  <2>8. CASE UNCHANGED vars
    BY <2>8 DEF vars, Abstract!vars
  <2> QED
    BY <2>1, <2>2, <2>3, <2>4, <2>5, <2>6, <2>7, <2>8 DEF Next
<1> QED
  BY <1>1, <1>2, TypeCorrect, PTL DEF Spec, ImplementsSafely, Abstract!SafeSpec
=============================================================================
