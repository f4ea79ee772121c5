--------------------------- MODULE ChannelRequests ---------------------------
(***************************************************************************)
(* Requests over the channels of a Spotify connection (SharpSpotLib).      *)
(*                                                                         *)
(* A caller makes a ChannelCallback, a Channel with the next id, registers *)
(* the channel in the static dictionary, sends the request and blocks in   *)
(* Get(timeout).  The thread of SharpSpotConnection.Run receives packets   *)
(* in order, looks their channel up and calls its listener, which hands    *)
(* the caller its permit when the reply ends.  Nothing is locked but the   *)
(* semaphore.  The server, which is not in the repository, answers each    *)
(* request that reaches it with headers, data and an end, or an error, in  *)
(* any interleaving of the requests, or not at all.                        *)
(*                                                                         *)
(* The server's next packet of a reply is chosen when it is received: the  *)
(* socket keeps the order, so nothing distinguishes the two moments.       *)
(***************************************************************************)
EXTENDS Integers, Sequences

CONSTANTS
  Requests,  \* the requests made over the life of the process
  Kind,      \* the listener and channel type of each request
  None,      \* no request
  WireIds,   \* ids that fit the 16 bits a packet has for them: 2^16
  MaxData    \* bound on the data packets of one reply

ASSUME RequestAssumption ==
  /\ Kind \in [Requests -> {"callback", "header", "aeskey"}]
  /\ None \notin Requests
  /\ WireIds \in Nat \ {0}
  /\ MaxData \in Nat \ {0}

VARIABLES
  nextId,      \* Channel._nextId
  id,          \* Channel.Id of each request's channel
  pc,          \* where the caller of each request is
  registered,  \* the values of Channel._channels; the key of r is id[r]
  raced,       \* requests whose Add overlapped another use of _channels
  state,       \* Channel.State
  got,         \* data packets each listener was handed from its own reply
  mixed,       \* requests whose listener was handed data of another's reply
  done,        \* permits of each listener's _done
  reply,       \* how far the server's reply to each request is
  sent,        \* data packets of that reply so far
  pump,        \* the thread of Run
  current,     \* the channel whose packet Run is handling
  todo,        \* the calls that remain to be made for it
  open         \* the connection is up

caller == <<nextId, id, pc, raced>>
listener == <<state, got, mixed>>
server == <<reply, sent>>
vars == <<nextId, id, pc, registered, raced, state, got, mixed, done,
          reply, sent, pump, current, todo, open>>

Failed == {"null", "threw", "timeout"}
Final == Failed \union {"returned"}
Steps == Final \union
  {"new", "id read", "built", "adding", "sending", "waiting", "answered"}

Init ==
  /\ nextId = 0
  /\ id = [r \in Requests |-> 0]
  /\ pc = [r \in Requests |-> "new"]
  /\ registered = {}
  /\ raced = {}
  /\ state = [r \in Requests |->
                IF Kind[r] = "aeskey" THEN "data" ELSE "header"]
  /\ got = [r \in Requests |-> 0]
  /\ mixed = {}
  /\ done = [r \in Requests |-> 0]  \* the listener's constructor took the permit
  /\ reply = [r \in Requests |-> "none"]
  /\ sent = [r \in Requests |-> 0]
  /\ pump = "running"
  /\ current = None
  /\ todo = <<>>
  /\ open = TRUE

-----------------------------------------------------------------------------
(* The caller.                                                             *)

Goto(r, from, to) ==
  /\ pc[r] = from
  /\ pc' = [pc EXCEPT ![r] = to]

NotPump == UNCHANGED <<state, got, mixed, done, sent, pump, current, todo, open>>

(* _nextId++ is a read and a write of a static field that callers share.   *)
ReadId(r) ==
  /\ Goto(r, "new", "id read")
  /\ id' = [id EXCEPT ![r] = nextId]
  /\ UNCHANGED <<nextId, registered, raced, reply>> /\ NotPump

WriteId(r) ==
  /\ Goto(r, "id read", "built")
  /\ nextId' = id[r] + 1
  /\ UNCHANGED <<id, registered, raced, reply>> /\ NotPump

(* SendPlayRequest sends its notification before it makes the channel; the *)
(* exception of a lost connection makes GetMusicStream return null.        *)
RefusePlay(r) ==
  /\ Kind[r] = "aeskey"
  /\ ~open
  /\ Goto(r, "new", "null")
  /\ UNCHANGED <<nextId, id, registered, raced, reply>> /\ NotPump

Adding == {r \in Requests : pc[r] = "adding"}

BeginRegister(r) ==
  /\ Goto(r, "built", "adding")
  /\ raced' = IF Adding = {} THEN raced ELSE raced \union Adding \union {r}
  /\ UNCHANGED <<nextId, id, registered, reply>> /\ NotPump

Keyed(key) == {c \in registered : id[c] = key}

(* Mutant: _channels[id] = channel, which never throws.                    *)
RegisterOverwrites(r) ==
  /\ Goto(r, "adding", "sending")
  /\ registered' = (registered \ Keyed(id[r])) \union {r}
  /\ UNCHANGED <<nextId, id, raced, reply>> /\ NotPump

(* Dictionary.Add: an Add that nothing overlaps enters the channel, or     *)
(* throws if the key is there already.                                     *)
Register(r) ==
  /\ Keyed(id[r]) = {}
  /\ Goto(r, "adding", "sending")
  /\ registered' = registered \union {r}
  /\ UNCHANGED <<nextId, id, raced, reply>> /\ NotPump

RegisterThrows(r) ==
  /\ Keyed(id[r]) # {}
  /\ Goto(r, "adding", "threw")
  /\ UNCHANGED <<nextId, id, registered, raced, reply>> /\ NotPump

(* One that overlaps another change of the unlocked dictionary may miss    *)
(* the key, lose its own entry, or take the slot of an entry just added.   *)
RegisterRaced(r) ==
  /\ r \in raced
  /\ Goto(r, "adding", "sending")
  /\ registered' \in {registered, registered \union {r}}
       \union {(registered \ {c}) \union {r} : c \in raced \intersect registered}
  /\ UNCHANGED <<nextId, id, raced, reply>> /\ NotPump

(* The request reaches the server.                                         *)
Send(r) ==
  /\ open
  /\ Goto(r, "sending", "waiting")
  /\ reply' = [reply EXCEPT ![r] = IF Kind[r] = "aeskey" THEN "key" ELSE "headers"]
  /\ UNCHANGED <<nextId, id, registered, raced>> /\ NotPump

(* On a lost connection the socket throws, or takes bytes nobody reads.    *)
SendLost(r) ==
  /\ ~open
  /\ \/ Goto(r, "sending", "null")
     \/ Goto(r, "sending", "waiting")
  /\ UNCHANGED <<nextId, id, registered, raced, reply>> /\ NotPump

(* Get(timeout): the semaphore grants the permit, or the timeout runs out. *)
(* It may run out with the permit there: see MonitorSemaphore.             *)
Acquire(r) ==
  /\ done[r] = 1
  /\ Goto(r, "waiting", "answered")
  /\ done' = [done EXCEPT ![r] = 0]
  /\ UNCHANGED <<nextId, id, registered, raced, state, got, mixed,
                 reply, sent, pump, current, todo, open>>

(* Mutant: a caller that gives up takes its channel out.                   *)
ExpireUnregisters(r) ==
  /\ Goto(r, "waiting", "timeout")
  /\ registered' = registered \ {r}
  /\ UNCHANGED <<nextId, id, raced, reply>> /\ NotPump

(* Mutant: Get() in place of Get(timeout).                                 *)
ExpireNever(r) ==
  /\ FALSE
  /\ Goto(r, "waiting", "timeout")
  /\ UNCHANGED <<nextId, id, registered, raced, reply>> /\ NotPump

(* Mutant: the result of TryAcquire is ignored.                            *)
ExpireIgnored(r) ==
  /\ Goto(r, "waiting", "answered")
  /\ UNCHANGED <<nextId, id, registered, raced, reply>> /\ NotPump

Expire(r) ==
  /\ Goto(r, "waiting", "timeout")
  /\ UNCHANGED <<nextId, id, registered, raced, reply>> /\ NotPump

(* GetData of a ChannelCallback reads bytes[0]: a reply without data       *)
(* throws.  A ChannelHeaderCallback returns whatever URLs it has.          *)
GetData(r) ==
  /\ Goto(r, "answered",
          IF Kind[r] # "header" /\ got[r] = 0 /\ r \notin mixed
            THEN "threw" ELSE "returned")
  /\ UNCHANGED <<nextId, id, registered, raced, reply>> /\ NotPump

-----------------------------------------------------------------------------
(* The thread of Run.                                                      *)

Idle == pump = "running" /\ todo = <<>>

(* Mutants: the caller is woken first; the channel is left registered.     *)
EndCallsSwapped == <<"release", "unregister">>
EndCallsLeak == <<"release">>

EndCalls == <<"unregister", "release">>    \* ChannelEnd of both callbacks
ErrorCalls == <<"release", "unregister">>  \* Channel.Error

(* The dictionary lookup of a packet of r's reply.  A lookup that overlaps *)
(* an Add may miss; a key that is not found throws out of Run.             *)
Target(r) == Keyed(id[r] % WireIds)

Miss(r) ==
  /\ Target(r) = {} \/ Adding # {}
  /\ raced' = raced \union Adding
  /\ pump' = "crashed"
  /\ UNCHANGED <<nextId, id, pc, registered, done, current, todo, open>>
  /\ UNCHANGED listener

(* Channel.Process calls ChannelData and then, for a key, ChannelEnd.      *)
Deliver(r, c) ==
  /\ IF r = c THEN got' = [got EXCEPT ![c] = @ + 1] /\ UNCHANGED mixed
              ELSE mixed' = mixed \union {c} /\ UNCHANGED got
  /\ IF Kind[c] = "aeskey"
       THEN /\ state' = [state EXCEPT ![c] = "end"]
            /\ current' = c /\ todo' = EndCalls
       ELSE UNCHANGED <<state, current, todo>>

(* Mutant: the caller is woken as soon as the headers are complete.        *)
HeaderPacketWakes(r, c) ==
  IF state[c] = "header"
    THEN /\ state' = [state EXCEPT ![c] = "data"]
         /\ current' = c /\ todo' = <<"release">>
         /\ UNCHANGED <<got, mixed>>
    ELSE Deliver(r, c)

(* Process of a packet of headers, the last of them empty.  It is data to  *)
(* a channel that is past its headers.                                     *)
HeaderPacket(r, c) ==
  IF state[c] = "header"
    THEN /\ state' = [state EXCEPT ![c] = "data"]
         /\ UNCHANGED <<got, mixed, current, todo>>
    ELSE Deliver(r, c)

(* Process of a packet of data.  To a channel in its headers it is more    *)
(* headers: it is dropped, or its bytes happen to end them.                *)
DataPacket(r, c) ==
  IF state[c] = "header"
    THEN /\ state' \in {state, [state EXCEPT ![c] = "data"]}
         /\ UNCHANGED <<got, mixed, current, todo>>
    ELSE Deliver(r, c)

(* Process of an empty packet: dropped in the headers, otherwise the end,  *)
(* which a key channel then forces once more.                              *)
EndPacket(c) ==
  /\ UNCHANGED <<got, mixed>>
  /\ IF state[c] = "header"
       THEN UNCHANGED <<state, current, todo>>
       ELSE /\ state' = [state EXCEPT ![c] = "end"]
            /\ current' = c
            /\ todo' = IF Kind[c] = "aeskey" THEN EndCalls \o EndCalls ELSE EndCalls

ErrorPacket(c) ==
  /\ current' = c /\ todo' = ErrorCalls
  /\ UNCHANGED listener

Handled == UNCHANGED <<nextId, id, pc, registered, raced, done, pump, open>>

ReceiveHeaders(r) ==
  /\ Idle /\ open
  /\ reply[r] = "headers"
  /\ reply' = [reply EXCEPT ![r] = "data"]
  /\ UNCHANGED sent
  /\ \/ Miss(r)
     \/ (\E c \in Target(r) : HeaderPacket(r, c)) /\ Handled

ReceiveData(r) ==
  /\ Idle /\ open
  /\ reply[r] = "data" /\ sent[r] < MaxData
  /\ sent' = [sent EXCEPT ![r] = @ + 1]
  /\ UNCHANGED reply
  /\ \/ Miss(r)
     \/ (\E c \in Target(r) : DataPacket(r, c)) /\ Handled

ReceiveKey(r) ==
  /\ Idle /\ open
  /\ reply[r] = "key"
  /\ reply' = [reply EXCEPT ![r] = "ended"]
  /\ sent' = [sent EXCEPT ![r] = @ + 1]
  /\ \/ Miss(r)
     \/ (\E c \in Target(r) : DataPacket(r, c)) /\ Handled

ReceiveEnd(r) ==
  /\ Idle /\ open
  /\ reply[r] = "data"
  /\ reply' = [reply EXCEPT ![r] = "ended"]
  /\ UNCHANGED sent
  /\ \/ Miss(r)
     \/ (\E c \in Target(r) : EndPacket(c)) /\ Handled

ReceiveError(r) ==
  /\ Idle /\ open
  /\ reply[r] \in {"headers", "data", "key"}
  /\ reply' = [reply EXCEPT ![r] = "failed"]
  /\ UNCHANGED sent
  /\ \/ Miss(r)
     \/ (\E c \in Target(r) : ErrorPacket(c)) /\ Handled

(* Dictionary.Remove; one that overlaps an Add may leave the entry there.  *)
Unregister ==
  /\ pump = "running" /\ todo # <<>> /\ Head(todo) = "unregister"
  /\ todo' = Tail(todo)
  /\ raced' = raced \union Adding
  /\ \/ \E c \in Keyed(id[current]) : registered' = registered \ {c}
     \/ Keyed(id[current]) = {} /\ UNCHANGED registered
     \/ Adding # {} /\ UNCHANGED registered
  /\ UNCHANGED <<nextId, id, pc, done, pump, current, open>>
  /\ UNCHANGED listener /\ UNCHANGED server

(* Mutant: a second permit is added like the first.                        *)
ReleaseUnchecked ==
  /\ pump = "running" /\ todo # <<>> /\ Head(todo) = "release"
  /\ done' = [done EXCEPT ![current] = @ + 1]
  /\ todo' = Tail(todo)
  /\ UNCHANGED <<nextId, id, pc, registered, raced, pump, current, open>>
  /\ UNCHANGED listener /\ UNCHANGED server

(* _done.Release(); a second permit throws out of Run.                     *)
Release ==
  /\ pump = "running" /\ todo # <<>> /\ Head(todo) = "release"
  /\ IF done[current] = 1
       THEN pump' = "crashed" /\ UNCHANGED <<done, todo>>
       ELSE /\ done' = [done EXCEPT ![current] = 1]
            /\ todo' = Tail(todo)
            /\ UNCHANGED pump
  /\ UNCHANGED <<nextId, id, pc, registered, raced, current, open>>
  /\ UNCHANGED listener /\ UNCHANGED server

(* The connection goes away; ReceivePacket then throws ProtocolException,  *)
(* the one exception that Run expects.                                     *)
Drop ==
  /\ open
  /\ open' = FALSE
  /\ UNCHANGED <<nextId, id, pc, registered, raced, done, pump, current, todo>>
  /\ UNCHANGED listener /\ UNCHANGED server

Stop ==
  /\ Idle /\ ~open
  /\ pump' = "closed"
  /\ UNCHANGED <<nextId, id, pc, registered, raced, done, current, todo, open>>
  /\ UNCHANGED listener /\ UNCHANGED server

-----------------------------------------------------------------------------
Call(r) ==
  \/ ReadId(r) \/ WriteId(r) \/ RefusePlay(r)
  \/ BeginRegister(r) \/ Register(r) \/ RegisterThrows(r) \/ RegisterRaced(r)
  \/ Send(r) \/ SendLost(r) \/ Acquire(r) \/ GetData(r)

Receive(r) ==
  ReceiveHeaders(r) \/ ReceiveData(r) \/ ReceiveKey(r)
  \/ ReceiveEnd(r) \/ ReceiveError(r)

(* An exception that leaves Run takes the process down with it.            *)
Next ==
  /\ pump # "crashed"
  /\ \/ \E r \in Requests : Call(r) \/ Expire(r) \/ Receive(r)
     \/ Unregister \/ Release \/ Drop \/ Stop

(* Threads run and timeouts run out.  Nobody has to make a request, and    *)
(* the server has to answer nothing.                                       *)
Fairness ==
  /\ \A r \in Requests :
       /\ WF_vars(pump # "crashed" /\ pc[r] # "new" /\ Call(r))
       /\ WF_vars(pump # "crashed" /\ Expire(r))
  /\ WF_vars(pump # "crashed" /\ (Unregister \/ Release \/ Stop))

Spec == Init /\ [][Next]_vars /\ Fairness

(* A server that finishes every reply it begins.                           *)
ServerAnswers ==
  \A r \in Requests :
    SF_vars(pump # "crashed" /\ (ReceiveHeaders(r) \/ ReceiveKey(r) \/ ReceiveEnd(r)))
-----------------------------------------------------------------------------
TypeOK ==
  /\ nextId \in Nat
  /\ id \in [Requests -> Nat]
  /\ pc \in [Requests -> Steps]
  /\ registered \subseteq Requests
  /\ raced \subseteq Requests
  /\ state \in [Requests -> {"header", "data", "end"}]
  /\ got \in [Requests -> Nat]
  /\ mixed \subseteq Requests
  /\ done \in [Requests -> {0, 1}]
  /\ reply \in [Requests -> {"none", "headers", "data", "key", "ended", "failed"}]
  /\ sent \in [Requests -> Nat]
  /\ pump \in {"running", "closed", "crashed"}
  /\ current \in Requests \union {None}
  /\ todo \in Seq({"unregister", "release"})
  /\ open \in BOOLEAN

(* The unlocked dictionary was never used by two threads at once, and no   *)
(* id has outgrown the 16 bits that packets have for it.                   *)
Quiet ==
  /\ raced = {}
  /\ \A r \in Requests : id[r] < WireIds

Pending == {r \in Requests : reply[r] \in {"headers", "data", "key"}}

(* The inductive invariant.  Registered channels have different ids, and a *)
(* reply in progress has its channel registered, in the state its next     *)
(* packet needs and with the permit still to be given: by Run's remaining  *)
(* calls once the reply is over, and by nobody else.                       *)
Before == {"new", "id read", "built", "adding"}

JustRelease == <<"release">>        \* what is left of EndCalls
JustUnregister == <<"unregister">>  \* what is left of ErrorCalls

UniqueIds == \A r, c \in registered : id[r] = id[c] => r = c

CallerInv ==
  \A r \in Requests :
    /\ pc[r] \in Before \union {"sending"} => reply[r] = "none"
    /\ pc[r] \in Before => r \notin registered
    /\ pc[r] = "sending" => r \in registered
    /\ pc[r] \in {"answered", "returned"} =>
         reply[r] \in {"ended", "failed"} /\ done[r] = 0

ReplyInv ==
  \A r \in Requests :
    /\ got[r] = sent[r]
    /\ reply[r] = "none" =>
         /\ done[r] = 0
         /\ state[r] = IF Kind[r] = "aeskey" THEN "data" ELSE "header"
    /\ r \in Pending =>
         /\ r \in registered
         /\ done[r] = 0
         /\ state[r] = IF reply[r] = "headers" THEN "header" ELSE "data"
         /\ Kind[r] = "aeskey" <=> reply[r] = "key"

PumpInv ==
  /\ pump # "crashed"
  /\ todo \in {<<>>, EndCalls, ErrorCalls, JustRelease, JustUnregister}
  /\ todo # <<>> =>
       /\ current \in Requests
       /\ reply[current] = IF todo \in {EndCalls, JustRelease}
                             THEN "ended" ELSE "failed"
       /\ todo # JustRelease => current \in registered
       /\ todo # JustUnregister =>
            done[current] = 0 /\ pc[current] \notin {"answered", "returned"}
  /\ \A r \in registered : reply[r] = "ended" => todo = EndCalls /\ current = r

QuietInv == mixed = {} /\ UniqueIds /\ CallerInv /\ ReplyInv /\ PumpInv

IInv ==
  /\ \A r \in Requests : pc[r] = "new" => id[r] = 0
  /\ Quiet => QuietInv

(* As long as that holds, no reply is mixed up with another, and no packet *)
(* of a reply is lost, whichever callers got the same id from _nextId++    *)
(* and however late the reply is.                                          *)
OwnReply ==
  Quiet => mixed = {} /\ \A r \in Requests : got[r] = sent[r]

(* ... and Run survives every packet: those of late replies too, for which *)
(* nobody waits any more, and those of requests that share an id.          *)
ReceiverSurvives == Quiet => pump # "crashed"

(* ... and a caller whose reply has ended has its id free again: ChannelEnd*)
(* unregisters the channel before it wakes the caller.                     *)
ReturnedUnregistered ==
  Quiet =>
    \A r \in Requests :
      pc[r] \in {"answered", "returned"} /\ reply[r] = "ended" => r \notin registered

(* ... and what a caller was woken to read does not change any more.       *)
ResultFinal ==
  [][\A r \in Requests :
       Quiet' /\ (done[r] = 1 \/ pc[r] \in {"answered", "returned"})
         => got'[r] = got[r]]_vars

(* The channel layer implements calls of a remote service: a caller ends   *)
(* once, for good, and while Quiet holds it returns only when its own reply*)
(* is over, with all of that reply that the server has sent; a reply that  *)
(* comes after a timeout changes no outcome.                               *)
Phases ==
  [r \in Requests |->
     IF reply[r] = "none" THEN "none" ELSE IF r \in Pending THEN "open" ELSE "over"]

Outcomes ==
  [r \in Requests |->
     IF pc[r] = "returned" THEN "returned" ELSE IF pc[r] \in Failed THEN "failed" ELSE "none"]

Abstract ==
  INSTANCE RemoteCalls WITH
    phase <- Phases, given <- sent, received <- got, foreign <- mixed,
    outcome <- Outcomes, trusted <- Quiet

ImplementsCalls == Abstract!Spec

(* Every request comes back to its caller, with an answer or without.      *)
RequestReturns ==
  \A r \in Requests :
    pc[r] = "id read" ~> (pc[r] \in Final \/ pump = "crashed")

(* With a server that finishes its replies, no channel stays registered:   *)
(* a reply that comes after the timeout still clears its channel away.     *)
LateRepliesCleanUp ==
  ServerAnswers /\ [](open /\ Quiet) => <>[](registered = {})

=============================================================================
