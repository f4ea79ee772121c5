------------------------ MODULE ChannelRequestsProofs ------------------------
(***************************************************************************)
(* Proofs about ChannelRequests, for any set of requests: its type, and    *)
(* that replies are never mixed up and Run survives every packet as long   *)
(* as the dictionary is not used by two threads at once and ids still fit  *)
(* their 16 bits.                                                          *)
(***************************************************************************)
EXTENDS ChannelRequests, TLAPS

Calls == {"unregister", "release"}

LEMMA CallSequences ==
  /\ EndCalls \in Seq(Calls)
  /\ ErrorCalls \in Seq(Calls)
  /\ EndCalls \o EndCalls \in Seq(Calls)
  /\ <<>> \in Seq(Calls)
  BY DEF EndCalls, ErrorCalls, Calls

LEMMA Successor == \A n \in Nat : n + 1 \in Nat
  OBVIOUS

LEMMA DeliverType ==
  ASSUME TypeOK, NEW r \in Requests, NEW c \in registered, Deliver(r, c)
  PROVE  /\ state' \in [Requests -> {"header", "data", "end"}]
         /\ got' \in [Requests -> Nat]
         /\ mixed' \subseteq Requests
         /\ current' \in Requests \union {None}
         /\ todo' \in Seq(Calls)
  <1>1. got' \in [Requests -> Nat] /\ mixed' \subseteq Requests
    <2>1. c \in Requests
      BY DEF TypeOK
    <2>2. CASE r = c
      BY <2>1, <2>2 DEF TypeOK, Deliver
    <2>3. CASE r # c
      BY <2>1, <2>3 DEF TypeOK, Deliver
    <2> QED
      BY <2>2, <2>3
  <1>2. CASE Kind[c] = "aeskey"
    BY <1>1, <1>2, CallSequences DEF TypeOK, Deliver
  <1>3. CASE Kind[c] # "aeskey"
    BY <1>1, <1>3 DEF TypeOK, Deliver, Calls
  <1> QED
    BY <1>2, <1>3

(* The variables of Run and of the listeners keep their types in a packet. *)
LEMMA PacketType ==
  ASSUME TypeOK, NEW r \in Requests, NEW c \in registered,
         HeaderPacket(r, c) \/ DataPacket(r, c) \/ EndPacket(c) \/ ErrorPacket(c)
  PROVE  /\ state' \in [Requests -> {"header", "data", "end"}]
         /\ got' \in [Requests -> Nat]
         /\ mixed' \subseteq Requests
         /\ current' \in Requests \union {None}
         /\ todo' \in Seq(Calls)
  <1>1. CASE Deliver(r, c)
    BY <1>1, DeliverType
  <1>2. CASE HeaderPacket(r, c) /\ ~Deliver(r, c)
    BY <1>2 DEF TypeOK, HeaderPacket, Calls
  <1>3. CASE DataPacket(r, c) /\ ~Deliver(r, c)
    BY <1>3 DEF TypeOK, DataPacket, Calls
  <1>4. CASE EndPacket(c)
    BY <1>4, CallSequences DEF TypeOK, EndPacket, Calls
  <1>5. CASE ErrorPacket(c)
    BY <1>5, CallSequences DEF TypeOK, ErrorPacket, listener
  <1> QED
    BY <1>1, <1>2, <1>3, <1>4, <1>5

LEMMA ReceiveType ==
  ASSUME TypeOK, NEW r \in Requests, Receive(r)
  PROVE  TypeOK'
  <1> USE DEF TypeOK
  <1>1. reply' \in [Requests -> {"none", "headers", "data", "key", "ended", "failed"}]
        /\ sent' \in [Requests -> Nat]
    <2>1. CASE ReceiveHeaders(r) \/ ReceiveEnd(r) \/ ReceiveError(r)
      BY <2>1 DEF ReceiveHeaders, ReceiveEnd, ReceiveError
    <2>2. CASE ReceiveData(r)
      BY <2>2 DEF ReceiveData
    <2>3. CASE ReceiveKey(r)
      BY <2>3 DEF ReceiveKey
    <2> QED
      BY <2>1, <2>2, <2>3 DEF Receive
  <1>2. \/ Miss(r)
        \/ /\ \E c \in Target(r) :
                HeaderPacket(r, c) \/ DataPacket(r, c) \/ EndPacket(c) \/ ErrorPacket(c)
           /\ Handled
    <2>1. CASE ReceiveHeaders(r)
      BY <2>1 DEF ReceiveHeaders
    <2>2. CASE ReceiveData(r) \/ ReceiveKey(r)
      BY <2>2 DEF ReceiveData, ReceiveKey
    <2>3. CASE ReceiveEnd(r)
      BY <2>3 DEF ReceiveEnd
    <2>4. CASE ReceiveError(r)
      BY <2>4 DEF ReceiveError
    <2> QED
      BY <2>1, <2>2, <2>3, <2>4 DEF Receive
  <1>3. CASE Miss(r)
    BY <1>1, <1>3 DEF Miss, Adding, listener
  <1>4. ASSUME NEW c \in Target(r), Handled,
               HeaderPacket(r, c) \/ DataPacket(r, c) \/ EndPacket(c) \/ ErrorPacket(c)
        PROVE  TypeOK'
    <2>1. c \in registered
      BY DEF Target, Keyed
    <2> QED
      BY <1>1, <1>4, <2>1, PacketType DEF Handled, Calls
  <1> QED
    BY <1>2, <1>3, <1>4

LEMMA CallType ==
  ASSUME TypeOK, NEW r \in Requests, Call(r) \/ Expire(r)
  PROVE  TypeOK'
  <1> USE DEF TypeOK, Steps, Final, Failed, Goto, NotPump
  <1>1. CASE ReadId(r)
    BY <1>1 DEF ReadId
  <1>6. CASE WriteId(r)
    <2>1. id[r] \in Nat /\ nextId' = id[r] + 1
      BY <1>6 DEF WriteId
    <2>2. nextId' \in Nat
      BY <2>1, Successor
    <2> QED
      <3>1. pc' \in [Requests -> Steps]
        BY <1>6 DEF WriteId
      <3> QED
        BY <1>6, <2>2, <3>1 DEF WriteId
  <1>7. CASE RefusePlay(r)
    BY <1>7 DEF RefusePlay
  <1>2. CASE BeginRegister(r) \/ Register(r) \/ RegisterThrows(r)
    BY <1>2 DEF BeginRegister, Register, RegisterThrows, Adding
  <1>3. CASE RegisterRaced(r)
    BY <1>3 DEF RegisterRaced
  <1>4. CASE Send(r) \/ SendLost(r)
    BY <1>4 DEF Send, SendLost
  <1>5. CASE Acquire(r) \/ Expire(r) \/ GetData(r)
    BY <1>5 DEF Acquire, Expire, GetData
  <1> QED
    BY <1>1, <1>2, <1>3, <1>4, <1>5, <1>6, <1>7 DEF Call

(* The variables keep their types: ids are numbers, at most one permit is  *)
(* out per listener, and only the two listener calls are ever left to do.  *)
THEOREM TypeCorrect == Spec => []TypeOK
<1>1. Init => TypeOK
  BY RequestAssumption, CallSequences DEF Init, TypeOK, Steps, Final, Failed, Calls
<1>2. TypeOK /\ [Next]_vars => TypeOK'
  <2> SUFFICES ASSUME TypeOK, [Next]_vars
               PROVE  TypeOK'
    OBVIOUS
  <2>1. ASSUME NEW r \in Requests, Call(r) \/ Expire(r)
        PROVE  TypeOK'
    BY <2>1, CallType
  <2>2. ASSUME NEW r \in Requests, Receive(r)
        PROVE  TypeOK'
    BY <2>2, ReceiveType
  <2>3. CASE Unregister
    <3>1. Tail(todo) \in Seq(Calls)
      BY <2>3 DEF Unregister, TypeOK, Calls
    <3> QED
      BY <2>3, <3>1 DEF TypeOK, Unregister, Calls, Adding, listener, server
  <2>4. CASE Release
    <3>1. Tail(todo) \in Seq(Calls)
      BY <2>4 DEF Release, TypeOK, Calls
    <3> QED
      BY <2>4, <3>1 DEF TypeOK, Release, Calls, listener, server
  <2>5. CASE Drop \/ Stop
    BY <2>5 DEF Drop, Stop, TypeOK, listener, server
  <2>6. CASE UNCHANGED vars
    BY <2>6 DEF vars, TypeOK
  <2> QED
    BY <2>1, <2>2, <2>3, <2>4, <2>5, <2>6 DEF Next
<1> QED
  BY <1>1, <1>2, PTL DEF Spec

-----------------------------------------------------------------------------
Rests == {<<>>, EndCalls, ErrorCalls, JustRelease, JustUnregister}

(* The listener calls that remain to be made, and how they are made.       *)
LEMMA CallFacts ==
  /\ <<>> \notin {EndCalls, ErrorCalls, JustRelease, JustUnregister}
  /\ EndCalls \notin {ErrorCalls, JustRelease, JustUnregister}
  /\ ErrorCalls \notin {JustRelease, JustUnregister}
  /\ JustRelease # JustUnregister
  /\ \A s \in Rests \ {<<>>} :
       Head(s) = IF s \in {EndCalls, JustUnregister} THEN "unregister" ELSE "release"
  /\ Tail(EndCalls) = JustRelease
  /\ Tail(ErrorCalls) = JustUnregister
  /\ Tail(JustRelease) = <<>>
  /\ Tail(JustUnregister) = <<>>
  <1> USE DEF EndCalls, ErrorCalls, JustRelease, JustUnregister
  <1>1. Len(EndCalls) = 2 /\ Len(ErrorCalls) = 2 /\ Len(JustRelease) = 1 /\ Len(JustUnregister) = 1
    OBVIOUS
  <1>2. EndCalls[1] = "unregister" /\ ErrorCalls[1] = "release"
    OBVIOUS
  <1>3. JustRelease[1] = "release" /\ JustUnregister[1] = "unregister"
    OBVIOUS
  <1> QED
    BY <1>1, <1>2, <1>3 DEF Rests

LEMMA SmallModulus == \A n \in Nat : n < WireIds => n % WireIds = n
  BY RequestAssumption

(* The lookup of a packet finds the channel of the reply it belongs to.    *)
LEMMA TargetFound ==
  ASSUME TypeOK, Quiet, QuietInv, NEW r \in Pending
  PROVE  Target(r) = {r}
  <1>1. r \in registered /\ r \in Requests /\ id[r] \in Nat /\ id[r] < WireIds
    BY DEF QuietInv, ReplyInv, Pending, Quiet, TypeOK
  <1>2. Target(r) = Keyed(id[r])
    BY <1>1, SmallModulus DEF Target
  <1> QED
    BY <1>1, <1>2 DEF Keyed, QuietInv, UniqueIds

(* Quiet is never regained: ids only change while they are 0.              *)
LEMMA QuietBefore ==
  ASSUME TypeOK, IInv, [Next]_vars, Quiet'
  PROVE  Quiet
  <1>1. raced \subseteq raced'
    <2>1. ASSUME NEW r \in Requests, Call(r) \/ Expire(r)
          PROVE  raced \subseteq raced'
      BY <2>1 DEF Call, ReadId, WriteId, RefusePlay, BeginRegister, Register,
                  RegisterThrows, RegisterRaced, Send, SendLost, Acquire, GetData, Expire
    <2>2. ASSUME NEW r \in Requests, Receive(r)
          PROVE  raced \subseteq raced'
      <3>1. Miss(r) \/ Handled
        BY <2>2 DEF Receive, ReceiveHeaders, ReceiveData, ReceiveKey, ReceiveEnd, ReceiveError
      <3> QED
        BY <3>1 DEF Miss, Handled
    <2>3. CASE Unregister \/ Release \/ Drop \/ Stop \/ UNCHANGED vars
      BY <2>3 DEF Unregister, Release, Drop, Stop, vars
    <2> QED
      BY <2>1, <2>2, <2>3 DEF Next
  <1>2. \A c \in Requests : id'[c] = id[c] \/ id[c] = 0
    <2>1. ASSUME NEW r \in Requests, ReadId(r)
          PROVE  \A c \in Requests : id'[c] = id[c] \/ id[c] = 0
      BY <2>1 DEF ReadId, Goto, IInv, TypeOK
    <2>2. ASSUME NEW r \in Requests, Call(r) \/ Expire(r), ~ReadId(r)
          PROVE  id' = id
      BY <2>2 DEF Call, WriteId, RefusePlay, BeginRegister, Register,
                  RegisterThrows, RegisterRaced, Send, SendLost, Acquire, GetData, Expire
    <2>3. ASSUME NEW r \in Requests, Receive(r)
          PROVE  id' = id
      <3>1. Miss(r) \/ Handled
        BY <2>3 DEF Receive, ReceiveHeaders, ReceiveData, ReceiveKey, ReceiveEnd, ReceiveError
      <3> QED
        BY <3>1 DEF Miss, Handled
    <2>4. CASE Unregister \/ Release \/ Drop \/ Stop \/ UNCHANGED vars
      BY <2>4 DEF Unregister, Release, Drop, Stop, vars
    <2> QED
      BY <2>1, <2>2, <2>3, <2>4 DEF Next
  <1>3. raced = {}
    BY <1>1 DEF Quiet
  <1>4. ASSUME NEW c \in Requests
        PROVE  id[c] < WireIds
    <2>1. id'[c] < WireIds
      BY DEF Quiet
    <2>2. 0 < WireIds
      BY RequestAssumption
    <2> QED
      BY <1>2, <2>1, <2>2
  <1> QED
    BY <1>3, <1>4 DEF Quiet

LEMMA CallStep ==
  ASSUME TypeOK, Quiet, QuietInv, Quiet', NEW r \in Requests, Call(r) \/ Expire(r)
  PROVE  QuietInv'
  <1> USE DEF TypeOK, QuietInv, Goto, NotPump, Steps, Final, Failed, Before
  <1>1. CASE ReadId(r) \/ WriteId(r) \/ RefusePlay(r) \/ BeginRegister(r)
    <2>1. /\ pc[r] \in {"new", "id read", "built"}
          /\ pc' \in {[pc EXCEPT ![r] = p] : p \in {"id read", "built", "adding", "null"}}
          /\ \A c \in Requests \ {r} : id'[c] = id[c]
          /\ UNCHANGED <<registered, reply, state, got, mixed, done, sent, pump, current, todo>>
      BY <1>1 DEF ReadId, WriteId, RefusePlay, BeginRegister
    <2>2. r \notin registered
      BY <2>1 DEF CallerInv
    <2>3. UniqueIds'
      BY <2>1, <2>2 DEF UniqueIds
    <2>4. CallerInv'
      BY ZenonT(60), <2>1 DEF CallerInv
    <2>5. ReplyInv'
      BY <2>1 DEF ReplyInv, Pending
    <2>6. PumpInv'
      BY <2>1 DEF PumpInv
    <2> QED
      BY <2>1, <2>3, <2>4, <2>5, <2>6
  <1>2. CASE Register(r)
    <2>1. UniqueIds'
      BY <1>2 DEF Register, UniqueIds, Keyed
    <2>2. CallerInv'
      BY <1>2 DEF Register, CallerInv
    <2>3. ReplyInv'
      BY <1>2 DEF Register, ReplyInv, Pending
    <2>4. PumpInv'
      BY <1>2 DEF Register, PumpInv, CallerInv
    <2> QED
      BY <1>2, <2>1, <2>2, <2>3, <2>4 DEF Register
  <1>3. CASE RegisterThrows(r)
    <2>1. /\ pc' = [pc EXCEPT ![r] = "threw"]
          /\ pc[r] = "adding"
          /\ UNCHANGED <<id, registered, reply, state, got, mixed, done, sent, pump, current, todo>>
      BY <1>3 DEF RegisterThrows
    <2>2. CallerInv'
      BY <2>1 DEF CallerInv
    <2>3. PumpInv'
      BY <2>1 DEF PumpInv
    <2> QED
      BY <2>1, <2>2, <2>3 DEF UniqueIds, ReplyInv, Pending
  <1>4. CASE RegisterRaced(r)
    BY <1>4 DEF RegisterRaced, Quiet
  <1>5. CASE Send(r)
    <2>1. UniqueIds'
      BY <1>5 DEF Send, UniqueIds
    <2>2. CallerInv'
      BY <1>5 DEF Send, CallerInv
    <2>3. ReplyInv'
      BY <1>5 DEF Send, ReplyInv, Pending, CallerInv
    <2>4. PumpInv'
      BY <1>5 DEF Send, PumpInv, CallerInv
    <2> QED
      BY <1>5, <2>1, <2>2, <2>3, <2>4 DEF Send
  <1>6. CASE SendLost(r) \/ Expire(r) \/ GetData(r)
    <2>1. /\ pc' \in {[pc EXCEPT ![r] = p] : p \in {"null", "waiting", "timeout", "threw", "returned"}}
          /\ pc[r] \in {"sending", "waiting", "answered"}
          /\ pc'[r] = "returned" => pc[r] = "answered"
          /\ UNCHANGED <<id, registered, reply, state, got, mixed, done, sent, pump, current, todo>>
      BY <1>6 DEF SendLost, Expire, GetData
    <2>2. CallerInv'
      BY ZenonT(60), <2>1 DEF CallerInv
    <2>3. PumpInv'
      BY <2>1 DEF PumpInv
    <2> QED
      BY <2>1, <2>2, <2>3 DEF UniqueIds, ReplyInv, Pending
  <1>7. CASE Acquire(r)
    <2>1. reply[r] \in {"ended", "failed"}
      <3>1. done[r] # 0
        <4>1. done[r] = 1
          BY <1>7 DEF Acquire
        <4> QED
          BY ONLY <4>1
      <3>2. reply[r] # "none" /\ r \notin Pending
        BY <3>1 DEF ReplyInv
      <3> QED
        BY <3>2 DEF Pending
    <2>2. CallerInv'
      BY <1>7, <2>1 DEF Acquire, CallerInv
    <2>3. ReplyInv'
      BY <1>7, <2>1 DEF Acquire, ReplyInv, Pending
    <2>4. PumpInv'
      <3>3. done[r] # 0
        <4>1. done[r] = 1
          BY <1>7 DEF Acquire
        <4> QED
          BY ONLY <4>1
      <3>1. current = r => todo \in {<<>>, JustUnregister}
        BY <3>3 DEF PumpInv
      <3>2. /\ pc' = [pc EXCEPT ![r] = "answered"]
            /\ done' = [done EXCEPT ![r] = 0]
            /\ UNCHANGED <<registered, reply, pump, current, todo>>
        BY <1>7 DEF Acquire
      <3> QED
        BY <3>1, <3>2 DEF PumpInv
    <2> QED
      BY <1>7, <2>2, <2>3, <2>4 DEF Acquire, UniqueIds
  <1> QED
    BY <1>1, <1>2, <1>3, <1>4, <1>5, <1>6, <1>7 DEF Call

LEMMA ReceiveStep ==
  ASSUME TypeOK, Quiet, QuietInv, Quiet', NEW r \in Requests, Receive(r)
  PROVE  QuietInv'
  <1> USE DEF QuietInv
  <1>1. r \in Pending /\ todo = <<>> /\ pump = "running"
    BY DEF Receive, ReceiveHeaders, ReceiveData, ReceiveKey, ReceiveEnd, ReceiveError,
           Pending, Idle
  <1>2. Target(r) = {r}
    BY <1>1, TargetFound
  <1>3. ~Miss(r)
    BY <1>2 DEF Miss, Quiet
  <1>4. /\ r \in registered
        /\ state[r] = IF reply[r] = "headers" THEN "header" ELSE "data"
        /\ Kind[r] = "aeskey" <=> reply[r] = "key"
        /\ pc[r] \notin Before \union {"sending", "answered", "returned"}
    BY <1>1 DEF ReplyInv, CallerInv, Pending
  <1>5. ASSUME UNCHANGED <<id, registered>>
        PROVE  UniqueIds'
    BY <1>5 DEF UniqueIds
  <1> USE DEF TypeOK
  <1>6. CASE ReceiveHeaders(r)
    <2>1. /\ reply' = [reply EXCEPT ![r] = "data"]
          /\ state' = [state EXCEPT ![r] = "data"]
          /\ reply[r] = "headers"
          /\ UNCHANGED <<id, pc, registered, got, mixed, done, sent, pump, current, todo>>
      BY <1>2, <1>3, <1>4, <1>6 DEF ReceiveHeaders, HeaderPacket, Handled
    <2>2. CallerInv'
      BY <1>4, <2>1 DEF CallerInv, Before
    <2>3. ReplyInv'
      BY <1>4, <2>1 DEF ReplyInv, Pending
    <2>4. PumpInv'
      BY <1>1, <2>1 DEF PumpInv
    <2> QED
      BY <1>5, <2>1, <2>2, <2>3, <2>4
  <1>7. CASE ReceiveData(r)
    <2>1. /\ got' = [got EXCEPT ![r] = got[r] + 1]
          /\ sent' = [sent EXCEPT ![r] = sent[r] + 1]
          /\ UNCHANGED <<id, pc, registered, reply, state, mixed, done, pump, current, todo>>
      BY <1>2, <1>3, <1>4, <1>7 DEF ReceiveData, DataPacket, Deliver, Handled
    <2>2. CallerInv'
      BY <2>1 DEF CallerInv
    <2>3. ReplyInv'
      BY <2>1 DEF ReplyInv, Pending
    <2>4. PumpInv'
      BY <2>1 DEF PumpInv
    <2> QED
      BY <1>5, <2>1, <2>2, <2>3, <2>4
  <1>8. CASE ReceiveKey(r)
    <2>1. /\ got' = [got EXCEPT ![r] = got[r] + 1]
          /\ sent' = [sent EXCEPT ![r] = sent[r] + 1]
          /\ state' = [state EXCEPT ![r] = "end"]
          /\ reply' = [reply EXCEPT ![r] = "ended"]
          /\ current' = r /\ todo' = EndCalls
          /\ UNCHANGED <<id, pc, registered, mixed, done, pump>>
      BY <1>2, <1>3, <1>4, <1>8 DEF ReceiveKey, DataPacket, Deliver, Handled
    <2>2. CallerInv'
      BY <1>4, <2>1 DEF CallerInv, Before
    <2>3. ReplyInv'
      BY <2>1 DEF ReplyInv, Pending
    <2>4. PumpInv'
      BY <1>1, <1>4, <2>1, CallFacts DEF PumpInv, ReplyInv
    <2> QED
      BY <1>5, <2>1, <2>2, <2>3, <2>4
  <1>9. CASE ReceiveEnd(r)
    <2>1. /\ state' = [state EXCEPT ![r] = "end"]
          /\ reply' = [reply EXCEPT ![r] = "ended"]
          /\ current' = r /\ todo' = EndCalls
          /\ UNCHANGED <<id, pc, registered, got, sent, mixed, done, pump>>
      BY <1>2, <1>3, <1>4, <1>9 DEF ReceiveEnd, EndPacket, Handled
    <2>2. CallerInv'
      BY <1>4, <2>1 DEF CallerInv, Before
    <2>3. ReplyInv'
      BY <2>1 DEF ReplyInv, Pending
    <2>4. PumpInv'
      BY <1>1, <1>4, <2>1, CallFacts DEF PumpInv, ReplyInv
    <2> QED
      BY <1>5, <2>1, <2>2, <2>3, <2>4
  <1>10. CASE ReceiveError(r)
    <2>1. /\ reply' = [reply EXCEPT ![r] = "failed"]
          /\ current' = r /\ todo' = ErrorCalls
          /\ UNCHANGED <<id, pc, registered, state, got, sent, mixed, done, pump>>
      BY <1>2, <1>3, <1>4, <1>10 DEF ReceiveError, ErrorPacket, Handled, listener
    <2>2. CallerInv'
      BY <1>4, <2>1 DEF CallerInv, Before
    <2>3. ReplyInv'
      BY <2>1 DEF ReplyInv, Pending
    <2>4. PumpInv'
      BY <1>1, <1>4, <2>1, CallFacts DEF PumpInv, ReplyInv
    <2> QED
      BY <1>5, <2>1, <2>2, <2>3, <2>4
  <1> QED
    BY <1>6, <1>7, <1>8, <1>9, <1>10 DEF Receive

LEMMA UnregisterStep ==
  ASSUME TypeOK, Quiet, QuietInv, Quiet', Unregister
  PROVE  QuietInv'
  <1> USE CallFacts DEF TypeOK, QuietInv, Rests
  <1>1. todo \in {EndCalls, JustUnregister}
    BY DEF Unregister, PumpInv
  <1>2. todo' = IF todo = EndCalls THEN JustRelease ELSE <<>>
    BY <1>1 DEF Unregister
  <1>3. /\ current \in registered /\ current \in Requests
        /\ reply[current] = IF todo = EndCalls THEN "ended" ELSE "failed"
        /\ todo = EndCalls =>
             done[current] = 0 /\ pc[current] \notin {"answered", "returned"}
    BY <1>1 DEF PumpInv
  <1>4. Keyed(id[current]) = {current}
    BY <1>3 DEF Keyed, UniqueIds
  <1>5. Adding = {}
    BY DEF Unregister, Quiet
  <1>6. /\ registered' = registered \ {current}
        /\ UNCHANGED <<id, pc, reply, state, got, sent, mixed, done, pump, current>>
    BY <1>4, <1>5 DEF Unregister, listener, server
  <1>7. reply[current] \in {"ended", "failed"}
    BY <1>3
  <1>8. pc[current] # "sending"
    BY <1>3, <1>7 DEF CallerInv
  <1>9. UniqueIds'
    BY <1>6 DEF UniqueIds
  <1>10. CallerInv'
    BY <1>6, <1>8 DEF CallerInv
  <1>11. ReplyInv'
    BY <1>6, <1>7 DEF ReplyInv, Pending
  <1>12. PumpInv'
    BY <1>1, <1>2, <1>3, <1>6 DEF PumpInv
  <1> QED
    BY <1>6, <1>9, <1>10, <1>11, <1>12

LEMMA ReleaseStep ==
  ASSUME TypeOK, Quiet, QuietInv, Quiet', Release
  PROVE  QuietInv'
  <1> USE CallFacts DEF TypeOK, QuietInv, Rests
  <1>1. todo \in {ErrorCalls, JustRelease}
    BY DEF Release, PumpInv
  <1>2. /\ current \in Requests
        /\ done[current] = 0
        /\ pc[current] \notin {"answered", "returned"}
        /\ reply[current] = IF todo = ErrorCalls THEN "failed" ELSE "ended"
        /\ todo = ErrorCalls => current \in registered
    BY <1>1 DEF PumpInv
  <1>3. done[current] # 1
    BY ONLY <1>2
  <1>4. /\ done' = [done EXCEPT ![current] = 1]
        /\ todo' = IF todo = ErrorCalls THEN JustUnregister ELSE <<>>
        /\ UNCHANGED <<id, pc, registered, reply, state, got, sent, mixed, pump, current>>
    BY <1>1, <1>3 DEF Release, listener, server
  <1>5. CallerInv'
    BY <1>2, <1>4 DEF CallerInv
  <1>6. ReplyInv'
    BY <1>2, <1>4 DEF ReplyInv, Pending
  <1>7. PumpInv'
    BY <1>1, <1>2, <1>4 DEF PumpInv
  <1> QED
    BY <1>4, <1>5, <1>6, <1>7 DEF UniqueIds

(* What the caller, the reply and the receiver of each channel know of one *)
(* another stays in step, as long as dictionary calls do not overlap and   *)
(* ids fit.                                                                *)
THEOREM InductiveInvariant == Spec => []IInv
<1>1. Init => IInv
  BY RequestAssumption DEF Init, IInv, QuietInv, UniqueIds, CallerInv, ReplyInv,
    PumpInv, Pending, Before
<1>2. TypeOK /\ IInv /\ [Next]_vars => IInv'
  <2> SUFFICES ASSUME TypeOK, IInv, [Next]_vars
               PROVE  IInv'
    OBVIOUS
  <2>1. \A r \in Requests : pc'[r] = "new" => id'[r] = 0
    <3>1. ASSUME NEW r \in Requests, Call(r) \/ Expire(r)
          PROVE  \A c \in Requests : pc'[c] = "new" => pc[c] = "new" /\ id'[c] = id[c]
      BY <3>1 DEF Call, ReadId, WriteId, RefusePlay, BeginRegister, Register, Goto,
                  RegisterThrows, RegisterRaced, Send, SendLost, Acquire, GetData,
                  Expire, TypeOK
    <3>2. ASSUME NEW r \in Requests, Receive(r)
          PROVE  UNCHANGED <<id, pc>>
      <4>1. Miss(r) \/ Handled
        BY <3>2 DEF Receive, ReceiveHeaders, ReceiveData, ReceiveKey, ReceiveEnd, ReceiveError
      <4> QED
        BY <4>1 DEF Miss, Handled
    <3>3. CASE Unregister \/ Release \/ Drop \/ Stop \/ UNCHANGED vars
      BY <3>3 DEF Unregister, Release, Drop, Stop, vars, IInv
    <3> QED
      BY <3>1, <3>2, <3>3 DEF Next, IInv
  <2>2. ASSUME Quiet'
        PROVE  QuietInv'
    <3>1. Quiet
      BY <2>2, QuietBefore
    <3>2. QuietInv
      BY <3>1 DEF IInv
    <3>3. CASE Drop \/ Stop \/ UNCHANGED vars
      BY <3>2, <3>3 DEF Drop, Stop, vars, QuietInv, UniqueIds, CallerInv, ReplyInv,
        PumpInv, Pending, listener, server
    <3> QED
      BY <2>2, <3>1, <3>2, <3>3, CallStep, ReceiveStep, UnregisterStep, ReleaseStep
      DEF Next
  <2> QED
    BY <2>1, <2>2 DEF IInv
<1> QED
  BY <1>1, <1>2, TypeCorrect, PTL DEF Spec

(* No reply is mixed up with another and none of its packets is lost, also *)
(* for callers that share an id and for replies that come too late.        *)
THEOREM RepliesKeptApart == Spec => []OwnReply
<1>1. IInv => OwnReply
  BY DEF IInv, QuietInv, ReplyInv, OwnReply
<1> QED
  BY <1>1, InductiveInvariant, PTL

(* No packet of the server can make Run throw.                             *)
THEOREM RunSurvives == Spec => []ReceiverSurvives
<1>1. IInv => ReceiverSurvives
  BY DEF IInv, QuietInv, PumpInv, ReceiverSurvives
<1> QED
  BY <1>1, InductiveInvariant, PTL

(* A caller whose reply has ended finds its channel unregistered.          *)
THEOREM UnregisteredBeforeReturn == Spec => []ReturnedUnregistered
<1>1. IInv => ReturnedUnregistered
  BY CallFacts DEF IInv, QuietInv, CallerInv, PumpInv, ReturnedUnregistered
<1> QED
  BY <1>1, InductiveInvariant, PTL

(* What a caller was woken to read does not change any more: a packet that *)
(* adds data is one of a reply in progress, whose caller still waits.      *)
THEOREM ResultIsFinal == Spec => ResultFinal
<1>1. ASSUME TypeOK, IInv, [Next]_vars, Quiet', NEW r \in Requests,
             done[r] = 1 \/ pc[r] \in {"answered", "returned"}
      PROVE  got'[r] = got[r]
  <2>1. Quiet /\ QuietInv
    BY <1>1, QuietBefore DEF IInv
  <2>2. r \notin Pending
    <3>1. CASE done[r] = 1
      <4>1. done[r] # 0
        BY ONLY <3>1
      <4> QED
        BY <2>1, <4>1 DEF QuietInv, ReplyInv
    <3>2. CASE pc[r] \in {"answered", "returned"}
      BY <2>1, <3>2 DEF QuietInv, CallerInv, Pending
    <3> QED
      BY <1>1, <3>1, <3>2
  <2>3. ASSUME NEW q \in Requests, Receive(q)
        PROVE  got'[r] = got[r]
    <3>1. q \in Pending
      BY <2>3 DEF Receive, ReceiveHeaders, ReceiveData, ReceiveKey, ReceiveEnd,
                  ReceiveError, Pending
    <3>2. Target(q) = {q} /\ q # r
      BY <1>1, <2>1, <2>2, <3>1, TargetFound
    <3>3. \/ UNCHANGED got
          \/ Deliver(q, q)
      BY <2>3, <3>2 DEF Receive, ReceiveHeaders, ReceiveData, ReceiveKey, ReceiveEnd,
        ReceiveError, Miss, HeaderPacket, DataPacket, EndPacket, ErrorPacket, listener
    <3> QED
      BY <1>1, <3>2, <3>3 DEF Deliver, TypeOK
  <2>4. ASSUME NEW q \in Requests, Call(q) \/ Expire(q)
        PROVE  got'[r] = got[r]
    BY <2>4 DEF Call, ReadId, WriteId, RefusePlay, BeginRegister, Register, NotPump,
                RegisterThrows, RegisterRaced, Send, SendLost, Acquire, GetData, Expire
  <2>5. CASE Unregister \/ Release \/ Drop \/ Stop \/ UNCHANGED vars
    BY <2>5 DEF Unregister, Release, Drop, Stop, vars, listener
  <2> QED
    BY <1>1, <2>3, <2>4, <2>5 DEF Next
<1>2. TypeOK /\ IInv /\ [Next]_vars =>
        [\A r \in Requests :
           Quiet' /\ (done[r] = 1 \/ pc[r] \in {"answered", "returned"})
             => got'[r] = got[r]]_vars
  BY <1>1
<1> QED
  BY <1>2, InductiveInvariant, TypeCorrect, PTL DEF Spec, ResultFinal
-----------------------------------------------------------------------------
(* The refinement.  Each step is one of a remote service, or none.         *)

(* A caller that has not sent its request has no reply, disturbed or not.  *)
Unsent == \A r \in Requests : pc[r] \in Before \union {"sending"} => reply[r] = "none"

LEMMA UnsentInvariant == Spec => []Unsent
<1>1. Init => Unsent
  BY DEF Init, Unsent
<1>2. TypeOK /\ Unsent /\ [Next]_vars => Unsent'
  <2> SUFFICES ASSUME TypeOK, Unsent, [Next]_vars
               PROVE  Unsent'
    OBVIOUS
  <2>1. ASSUME NEW r \in Requests, Call(r) \/ Expire(r)
        PROVE  Unsent'
    <3>1. \A q \in Requests : pc'[q] \in Before \union {"sending"} =>
            pc[q] \in Before \union {"sending"}
      BY <2>1 DEF Call, ReadId, WriteId, RefusePlay, BeginRegister, Register, RegisterThrows,
         RegisterRaced, Send, SendLost, Acquire, GetData, Expire, Goto, Before, TypeOK
    <3>2. \A q \in Requests : pc'[q] \in Before \union {"sending"} => reply'[q] = reply[q]
      BY <2>1 DEF Call, ReadId, WriteId, RefusePlay, BeginRegister, Register, RegisterThrows,
         RegisterRaced, Send, SendLost, Acquire, GetData, Expire, Goto, Before, TypeOK
    <3> QED
      BY <3>1, <3>2 DEF Unsent
  <2>2. ASSUME NEW r \in Requests, Receive(r)
        PROVE  Unsent'
    <3>1. UNCHANGED pc
      BY <2>2 DEF Receive, ReceiveHeaders, ReceiveData, ReceiveKey, ReceiveEnd, ReceiveError,
         Miss, Handled
    <3>2. \A q \in Requests : reply[q] = "none" => reply'[q] = "none"
      BY <2>2 DEF Receive, ReceiveHeaders, ReceiveData, ReceiveKey, ReceiveEnd, ReceiveError,
         TypeOK
    <3> QED
      BY <3>1, <3>2 DEF Unsent
  <2>3. CASE Unregister \/ Release \/ Drop \/ Stop \/ UNCHANGED vars
    BY <2>3 DEF Unregister, Release, Drop, Stop, vars, server, Unsent
  <2> QED
    BY <2>1, <2>2, <2>3 DEF Next
<1> QED
  BY <1>1, <1>2, TypeCorrect, PTL DEF Spec

(* A step that no call notices may still be the one that disturbs them.    *)
LEMMA Disturbing ==
  ASSUME UNCHANGED <<Phases, sent, got, mixed, Outcomes>>, Quiet' => Quiet
  PROVE  [Abstract!Next]_(Abstract!vars)
<1>1. CASE Quiet /\ ~Quiet'
  <2>1. Abstract!Disturb
    BY <1>1 DEF Abstract!Disturb
  <2> QED
    BY <2>1 DEF Abstract!Next
<1>2. CASE Quiet' <=> Quiet
  <2>1. UNCHANGED Abstract!vars
    BY <1>2 DEF Abstract!vars
  <2> QED
    BY <2>1
<1> QED
  BY <1>1, <1>2

LEMMA SendAsks ==
  ASSUME TypeOK, Unsent, NEW r \in Requests, Send(r)
  PROVE  Abstract!Ask(r)
<1>1. pc[r] = "sending" /\ reply[r] = "none" /\ pc' = [pc EXCEPT ![r] = "waiting"]
  BY DEF Send, Goto, Unsent
<1>2. PICK k \in {"key", "headers"} : reply' = [reply EXCEPT ![r] = k]
  BY DEF Send
<1>3. UNCHANGED <<sent, got, mixed, id, raced>>
  BY DEF Send, NotPump
<1>4. Phases[r] = "none" /\ Outcomes[r] = "none"
  BY <1>1 DEF Phases, Outcomes, Failed
<1>5. Phases' = [Phases EXCEPT ![r] = "open"]
  BY <1>1, <1>2 DEF Phases, Pending, TypeOK
<1>6. UNCHANGED Outcomes
  BY <1>1 DEF Outcomes, Failed, TypeOK
<1>7. Quiet' <=> Quiet
  BY <1>3 DEF Quiet
<1> QED
  BY <1>3, <1>4, <1>5, <1>6, <1>7 DEF Abstract!Ask

(* The other steps of a caller end its call or are not noticed.            *)
LEMMA CallEnds ==
  ASSUME TypeOK, IInv, NEW r \in Requests, Call(r) \/ Expire(r), ~Send(r),
         Quiet' => Quiet
  PROVE  [Abstract!Next]_(Abstract!vars)
<1>1. UNCHANGED <<reply, sent, got, mixed>>
  BY DEF Call, ReadId, WriteId, RefusePlay, BeginRegister, Register, RegisterThrows,
     RegisterRaced, SendLost, Acquire, GetData, Expire, NotPump
<1>2. UNCHANGED Phases
  BY <1>1 DEF Phases, Pending
<1>3. pc[r] \notin Final
  BY DEF Call, ReadId, WriteId, RefusePlay, BeginRegister, Register, RegisterThrows,
     RegisterRaced, SendLost, Acquire, GetData, Expire, Goto, Final, Failed
<1>4. PICK to \in Steps :
        /\ pc' = [pc EXCEPT ![r] = to]
        /\ to \in Final => UNCHANGED <<id, raced>>
        /\ to = "returned" => pc[r] = "answered"
  BY DEF Call, ReadId, WriteId, RefusePlay, BeginRegister, Register, RegisterThrows,
     RegisterRaced, SendLost, Acquire, GetData, Expire, Goto, Steps, Final, Failed
<1>5. Outcomes[r] = "none"
  BY <1>3 DEF Outcomes, Final
<1>6. CASE to \notin Final
  <2>1. UNCHANGED Outcomes
    BY <1>3, <1>4, <1>6 DEF Outcomes, Final, TypeOK
  <2> QED
    BY <1>1, <1>2, <2>1, Disturbing
<1>7. CASE to \in Failed
  <2>1. Outcomes' = [Outcomes EXCEPT ![r] = "failed"]
    BY <1>4, <1>7 DEF Outcomes, Failed, TypeOK
  <2>2. Quiet' <=> Quiet
    BY <1>4, <1>7 DEF Quiet, Final
  <2>3. Abstract!Fail(r)
    BY <1>1, <1>2, <1>5, <2>1, <2>2 DEF Abstract!Fail
  <2> QED
    BY <2>3 DEF Abstract!Next
<1>8. CASE to = "returned"
  <2>1. Outcomes' = [Outcomes EXCEPT ![r] = "returned"]
    BY <1>4, <1>8 DEF Outcomes, Failed, TypeOK
  <2>2. Quiet' <=> Quiet
    BY <1>4, <1>8 DEF Quiet, Final
  <2>3. Quiet => Phases[r] = "over"
    BY <1>4, <1>8 DEF IInv, QuietInv, CallerInv, Phases, Pending
  <2>4. Abstract!Return(r)
    BY <1>1, <1>2, <1>5, <2>1, <2>2, <2>3 DEF Abstract!Return
  <2> QED
    BY <2>4 DEF Abstract!Next
<1> QED
  BY <1>6, <1>7, <1>8 DEF Final

(* What a packet of the reply to r may change.                             *)
LEMMA ReceiveChanges ==
  ASSUME TypeOK, NEW r \in Requests, Receive(r)
  PROVE  /\ r \in Pending /\ UNCHANGED pc
         /\ \/ UNCHANGED reply
            \/ reply' \in {[reply EXCEPT ![r] = k] : k \in {"data", "ended", "failed"}}
         /\ \E n \in 0..1 : sent' = [sent EXCEPT ![r] = @ + n]
         /\ \E m \in 0..1 : got' = [got EXCEPT ![r] = @ + m]
         /\ \E others \in {{}} \union {{c} : c \in Requests \ {r}} :
              mixed' = mixed \union others
<1>1. r \in Pending
  BY DEF Receive, ReceiveHeaders, ReceiveData, ReceiveKey, ReceiveEnd, ReceiveError, Pending
<1>2. UNCHANGED pc
  BY DEF Receive, ReceiveHeaders, ReceiveData, ReceiveKey, ReceiveEnd, ReceiveError,
     Miss, Handled
<1>3. \/ UNCHANGED reply
      \/ reply' \in {[reply EXCEPT ![r] = k] : k \in {"data", "ended", "failed"}}
  BY DEF Receive, ReceiveHeaders, ReceiveData, ReceiveKey, ReceiveEnd, ReceiveError
<1>4. sent = [sent EXCEPT ![r] = @ + 0] /\ got = [got EXCEPT ![r] = @ + 0]
  BY DEF TypeOK
<1>5. \E n \in 0..1 : sent' = [sent EXCEPT ![r] = @ + n]
  <2>1. UNCHANGED sent \/ sent' = [sent EXCEPT ![r] = @ + 1]
    BY DEF Receive, ReceiveHeaders, ReceiveData, ReceiveKey, ReceiveEnd, ReceiveError
  <2>2. 0 \in 0..1 /\ 1 \in 0..1
    OBVIOUS
  <2> QED
    BY <1>4, <2>1, <2>2
<1>6. \/ UNCHANGED <<got, mixed>>
      \/ \E c \in Target(r) : Deliver(r, c)
  BY DEF Receive, ReceiveHeaders, ReceiveData, ReceiveKey, ReceiveEnd, ReceiveError, Miss,
     listener, HeaderPacket, DataPacket, EndPacket, ErrorPacket
<1>7. \/ UNCHANGED <<got, mixed>>
      \/ got' = [got EXCEPT ![r] = @ + 1] /\ UNCHANGED mixed
      \/ UNCHANGED got /\ \E c \in Requests \ {r} : mixed' = mixed \union {c}
  BY <1>6 DEF Deliver, Target, Keyed, TypeOK
<1>8. \E m \in 0..1 : got' = [got EXCEPT ![r] = @ + m]
  <2>1. 0 \in 0..1 /\ 1 \in 0..1
    OBVIOUS
  <2> QED
    BY <1>4, <1>7, <2>1
<1>9. \E others \in {{}} \union {{c} : c \in Requests \ {r}} : mixed' = mixed \union others
  <2>1. mixed = mixed \union {}
    OBVIOUS
  <2> QED
    BY <1>7, <2>1
<1> QED
  BY <1>1, <1>2, <1>3, <1>5, <1>8, <1>9

(* A packet reaches its own call, with all it has, or the service is not   *)
(* to be trusted any more.                                                 *)
LEMMA ReceiveDelivers ==
  ASSUME TypeOK, IInv, IInv', NEW r \in Requests, Receive(r), Quiet' => Quiet
  PROVE  Abstract!Packet(r) \/ Abstract!Misdeliver(r)
<1>1. r \in Pending /\ UNCHANGED pc
  BY ReceiveChanges
<1>2. Phases[r] = "open"
  BY <1>1 DEF Phases, Pending
<1>3. UNCHANGED Outcomes
  BY <1>1 DEF Outcomes
<1>4. Phases' \in {Phases, [Phases EXCEPT ![r] = "over"]}
  <2>1. CASE UNCHANGED reply
    BY <2>1 DEF Phases, Pending
  <2>2. CASE reply' = [reply EXCEPT ![r] = "data"]
    BY <1>1, <2>2 DEF Phases, Pending, TypeOK
  <2>3. ASSUME NEW k \in {"ended", "failed"}, reply' = [reply EXCEPT ![r] = k]
        PROVE  Phases' = [Phases EXCEPT ![r] = "over"]
    BY <2>3 DEF Phases, Pending, TypeOK
  <2> QED
    BY <2>1, <2>2, <2>3, ReceiveChanges
<1>5. PICK n \in 0..1 : sent' = [sent EXCEPT ![r] = @ + n]
  BY ReceiveChanges
<1>6. PICK m \in 0..1 : got' = [got EXCEPT ![r] = @ + m]
  BY ReceiveChanges
<1>7. CASE Quiet'
  <2>1. mixed = {} /\ mixed' = {} /\ got[r] = sent[r] /\ got'[r] = sent'[r]
    BY <1>7 DEF IInv, QuietInv, ReplyInv
  <2>2. n = m
    <3>1. sent'[r] = sent[r] + n /\ got'[r] = got[r] + m /\ sent[r] \in Nat
      BY <1>5, <1>6 DEF TypeOK
    <3> QED
      BY <2>1, <3>1
  <2>3. Abstract!Packet(r)
    BY <1>2, <1>3, <1>4, <1>5, <1>6, <1>7, <2>1, <2>2 DEF Abstract!Packet
  <2> QED
    BY <2>3
<1>8. CASE ~Quiet'
  <2>1. Abstract!Misdeliver(r)
    BY <1>2, <1>3, <1>4, <1>5, <1>6, <1>8, ReceiveChanges DEF Abstract!Misdeliver
  <2> QED
    BY <2>1
<1> QED
  BY <1>7, <1>8

(* Every step of callers, receiver and server is a step of a remote service*)
(* whose calls end once, and return only their own replies, when these are *)
(* over and in full, until dictionary calls overlap or ids outgrow packets.*)
THEOREM RefinesCalls == Spec => ImplementsCalls
<1>1. Init => Abstract!Init
  <2> SUFFICES ASSUME Init
               PROVE  Abstract!Init
    OBVIOUS
  <2>1. Phases = [r \in Requests |-> "none"] /\ Outcomes = [r \in Requests |-> "none"]
    BY DEF Init, Phases, Outcomes, Failed
  <2>2. Quiet
    BY RequestAssumption DEF Init, Quiet
  <2> QED
    BY <2>1, <2>2 DEF Init, Abstract!Init
<1>2. TypeOK /\ IInv /\ IInv' /\ Unsent /\ [Next]_vars => [Abstract!Next]_(Abstract!vars)
  <2> SUFFICES ASSUME TypeOK, IInv, IInv', Unsent, [Next]_vars
               PROVE  [Abstract!Next]_(Abstract!vars)
    OBVIOUS
  <2>1. Quiet' => Quiet
    BY QuietBefore
  <2>2. ASSUME NEW r \in Requests, Call(r) \/ Expire(r)
        PROVE  [Abstract!Next]_(Abstract!vars)
    BY <2>1, <2>2, SendAsks, CallEnds DEF Abstract!Next
  <2>3. ASSUME NEW r \in Requests, Receive(r)
        PROVE  [Abstract!Next]_(Abstract!vars)
    BY <2>1, <2>3, ReceiveDelivers DEF Abstract!Next
  <2>4. CASE Unregister \/ Release \/ Drop \/ Stop \/ UNCHANGED vars
    <3>1. UNCHANGED <<pc, reply, sent, got, mixed>>
      BY <2>4 DEF Unregister, Release, Drop, Stop, vars, listener, server
    <3>2. UNCHANGED <<Phases, Outcomes>>
      BY <3>1 DEF Phases, Outcomes, Pending
    <3> QED
      BY <2>1, <3>1, <3>2, Disturbing
  <2> QED
    BY <2>2, <2>3, <2>4 DEF Next
<1> QED
  BY <1>1, <1>2, UnsentInvariant, InductiveInvariant, TypeCorrect, PTL
     DEF Spec, ImplementsCalls, Abstract!Spec
=============================================================================
