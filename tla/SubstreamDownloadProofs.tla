----------------------- MODULE SubstreamDownloadProofs -----------------------
(* What is proved of downloads, for any number of them and any sizes.      *)
EXTENDS SubstreamDownload, TLAPS

(* A download that has no stream yet has nothing of one.                   *)
Fresh ==
  \A d \in Downloads :
    pc[d] \in {"idle", "opening"} =>
      stage[d] = "none" /\ written[d] = <<>> /\ ~full[d] /\ ~closed[d]

(* No entry of the cache has more than its substream.                      *)
Entries == \A o \in 0..FileParts : cache[o] <= Whole(o)

(* A streamer at work counts no more than its substream has, and an open   *)
(* stream has what came before the substream, and what was counted of it.  *)
Counts(d) ==
  /\ stage[d] = "header" => sent[d] = 0
  /\ stage[d] # "header" => total[d] <= sent[d]
  /\ sent[d] <= Whole(offset[d])
  /\ stage[d] = "data" /\ feeder[d] = "cache" => sent[d] = 0
  /\ stage[d] \in {"header", "data"} /\ feeder[d] = "cache" => cache[offset[d]] # Absent
  /\ stage[d] = "call" => sent[d] + data[d] <= Whole(offset[d])

Holds(d) ==
  /\ Len(written[d]) = IF stage[d] = "header" THEN offset[d] ELSE offset[d] + total[d]
  /\ stage[d] # "header" => total[d] = sent[d]

Active == {"header", "data", "call"} \union Ending

Filling ==
  \A d \in Downloads :
    stage[d] \in Active => Counts(d) /\ (~closed[d] => Holds(d))

(* While nothing has disturbed the downloads, that is so of closed streams *)
(* too, and a substream that ends is whole.                                *)
InFull(d) ==
  /\ Holds(d)
  /\ stage[d] = "call" /\ feeder[d] = "cache" => sent[d] + data[d] = Whole(offset[d])
  /\ stage[d] \in Ending => total[d] = Whole(offset[d])

Calm ==
  Undisturbed =>
    /\ \A d \in Downloads : stage[d] \in Active => InFull(d)
    /\ CacheWhole
    /\ AvailableInFull

IInv == TypeOK /\ StreamIsPrefix /\ Fresh /\ Entries /\ Filling /\ Calm

-----------------------------------------------------------------------------

(* What a substream has fits into the file, and one shorter than the others*)
(* is the last.                                                            *)
LEMMA WholeFacts ==
  ASSUME NEW o \in 0..FileParts
  PROVE  /\ Whole(o) \in 0..Parts
         /\ o + Whole(o) <= FileParts
         /\ Whole(o) < Parts => o + Whole(o) = FileParts
BY SizeAssumption DEF Whole

LEMMA InitialState == Init => IInv
<1> SUFFICES ASSUME Init
             PROVE  IInv
  OBVIOUS
<1> USE SizeAssumption
<1>1. TypeOK
  <2>1. written \in [Downloads -> Seq(1..FileParts)]
    BY DEF Init
  <2>2. 0 \in 0..Parts /\ 0 \in 0..FileParts
    OBVIOUS
  <2>3. Absent \in Absent..Parts /\ Absent \in Absent..FileParts
    BY DEF Absent
  <2> HIDE SizeAssumption
  <2>4. /\ available \in [Downloads -> 0..FileParts] /\ length \in [Downloads -> {0, FileParts}]
        /\ offset \in [Downloads -> 0..FileParts] /\ total \in [Downloads -> 0..Parts]
        /\ sent \in [Downloads -> 0..Parts] /\ data \in [Downloads -> 0..Parts]
    BY <2>2 DEF Init
  <2>5. /\ cache \in [0..FileParts -> Absent..Parts] /\ file \in Absent..FileParts
    BY <2>3 DEF Init
  <2>6. /\ pc \in [Downloads -> Steps] /\ restarted \in BOOLEAN
        /\ closed \in [Downloads -> BOOLEAN] /\ full \in [Downloads -> BOOLEAN]
        /\ stage \in [Downloads -> {"none", "header", "data", "call", "over", "broken"} \union Ending]
        /\ feeder \in [Downloads -> {"server", "cache"}]
        /\ decoded \in [Downloads -> BOOLEAN]
    BY DEF Init, Steps
  <2> QED
    BY <2>1, <2>4, <2>5, <2>6 DEF TypeOK
<1>2. StreamIsPrefix /\ Fresh
  BY DEF Init, StreamIsPrefix, Fresh
<1>3. Entries
  BY WholeFacts DEF Init, Entries, Absent
<1>4. Filling /\ Calm
  BY DEF Init, Filling, Calm, Active, Ending, CacheWhole, AvailableInFull
<1> QED
  BY <1>1, <1>2, <1>3, <1>4 DEF IInv

(* The steps of a download, but the one that makes its stream, leave the   *)
(* streamers, the cache and the bytes in the streams alone.                *)
LEMMA PollingSteps ==
  ASSUME IInv, NEW d \in Downloads,
         \/ DownloadTrack(d) \/ ReadAvailable(d) \/ ReadLength(d) \/ ReadZero(d)
         \/ CreateFile(d) \/ WriteFile(d) \/ Close(d)
  PROVE  IInv'
<1> USE SizeAssumption DEF IInv
<1>0. /\ UNCHANGED <<written, full, length, streamer, cache, restarted>>
      /\ \A e \in Downloads : closed[e] => closed'[e]
  BY DEF DownloadTrack, ReadAvailable, ReadLength, ReadZero, CreateFile, WriteFile, Close,
         TypeOK, stream, disk
<1>1. Len(written[d]) \in 0..FileParts
  BY DEF TypeOK, StreamIsPrefix
<1>a. pc \in [Downloads -> Steps] /\ closed \in [Downloads -> BOOLEAN]
  BY DEF TypeOK
<1>b. PICK to \in Steps : pc' = [pc EXCEPT ![d] = to] /\ (to = "opening" => pc[d] = "idle")
                        /\ to # "idle"
  BY DEF DownloadTrack, ReadAvailable, ReadLength, ReadZero, CreateFile, WriteFile, Close,
         Goto, Steps, Polling, Ended
<1>c. \/ UNCHANGED closed
      \/ closed' = [closed EXCEPT ![d] = TRUE] /\ pc[d] \in {"written", "failing"}
  BY DEF DownloadTrack, ReadAvailable, ReadLength, ReadZero, CreateFile, WriteFile, Close,
         Goto, stream
<1>d. \/ UNCHANGED available
      \/ available' = [available EXCEPT ![d] = Len(written[d])]
  BY DEF DownloadTrack, ReadAvailable, ReadLength, ReadZero, CreateFile, WriteFile, Close
<1>e. file' \in {file, 0, Len(written[d])}
  BY DEF DownloadTrack, ReadAvailable, ReadLength, ReadZero, CreateFile, WriteFile, Close, disk
<1>2. TypeOK'
  <2>1. pc' \in [Downloads -> Steps] /\ closed' \in [Downloads -> BOOLEAN]
    BY <1>a, <1>b, <1>c
  <2>2. available' \in [Downloads -> 0..FileParts]
    BY <1>1, <1>d DEF TypeOK
  <2>3. file' \in Absent..FileParts
    BY <1>1, <1>e DEF TypeOK, Absent
  <2> QED
    BY <1>0, <2>1, <2>2, <2>3 DEF TypeOK, streamer
<1>3. StreamIsPrefix' /\ Entries'
  BY <1>0 DEF StreamIsPrefix, Entries
<1>4. Fresh'
  <2> SUFFICES ASSUME NEW e \in Downloads, pc'[e] \in {"idle", "opening"}
               PROVE  (stage[e] = "none" /\ written[e] = <<>> /\ ~full[e] /\ ~closed[e])'
    BY DEF Fresh
  <2>1. pc[e] \in {"idle", "opening"}
    BY <1>a, <1>b
  <2>2. ~closed'[e]
    BY <1>a, <1>b, <1>c, <2>1 DEF Fresh
  <2> QED
    BY <1>0, <2>1, <2>2 DEF Fresh, streamer
<1>5. Filling'
  BY <1>0 DEF Filling, Counts, Holds, streamer
<1>6. Calm'
  BY <1>0 DEF Calm, Undisturbed, InFull, Holds, CacheWhole, AvailableInFull, streamer
<1> QED
  BY <1>2, <1>3, <1>4, <1>5, <1>6

-----------------------------------------------------------------------------

(* A call of one streamer: what it has to keep of its own streamer for the *)
(* invariant, since the others stay as they are.                           *)
Calls(d) ==
  /\ UNCHANGED <<loop, closed, file, restarted>>
  /\ stage[d] \in Active
  /\ \A e \in Downloads \ {d} :
       /\ stage'[e] = stage[e] /\ feeder'[e] = feeder[e] /\ offset'[e] = offset[e]
       /\ total'[e] = total[e] /\ sent'[e] = sent[e] /\ data'[e] = data[e]
       /\ written'[e] = written[e] /\ full'[e] = full[e]
  /\ closed[d] => written'[d] = written[d]

LEMMA CallKeeps ==
  ASSUME IInv, NEW d \in Downloads, Calls(d), TypeOK',
         \A o \in 0..FileParts : cache'[o] = cache[o] \/ cache'[o] \in 0..Whole(o),
         Len(written'[d]) <= FileParts,
         \A i \in DOMAIN written'[d] : written'[d][i] = i,
         stage'[d] \in Active => Counts(d)' /\ (~closed[d] => Holds(d)')
  PROVE  StreamIsPrefix' /\ Fresh' /\ Entries' /\ Filling'
<1>1. StreamIsPrefix'
  BY DEF IInv, StreamIsPrefix, Calls
<1>2. Fresh'
  BY DEF IInv, Fresh, Calls, loop, Active, Ending
<1>3. Entries'
  <2> SUFFICES ASSUME NEW o \in 0..FileParts
               PROVE  cache'[o] <= Whole(o)
    BY DEF Entries, Whole
  <2>1. CASE cache'[o] = cache[o]
    BY <2>1 DEF IInv, Entries
  <2>2. CASE cache'[o] \in 0..Whole(o)
    BY <2>2, WholeFacts
  <2> QED
    BY <2>1, <2>2
<1>4. Filling'
  <2> SUFFICES ASSUME NEW e \in Downloads, stage'[e] \in Active, e # d
               PROVE  Counts(e)' /\ (~closed'[e] => Holds(e)')
    BY DEF Filling, Calls
  <2>1. stage[e] \in Active /\ Counts(e) /\ (~closed[e] => Holds(e))
    BY DEF IInv, Filling, Calls
  <2>2. cache[offset[e]] # Absent => cache'[offset[e]] # Absent
    <3>1. offset[e] \in 0..FileParts
      BY DEF IInv, TypeOK
    <3>2. CASE cache'[offset[e]] \in 0..Whole(offset[e])
      <4>1. cache'[offset[e]] >= 0
        BY <3>1, <3>2, WholeFacts
      <4> QED
        BY ONLY <4>1 DEF Absent
    <3> QED
      BY <3>1, <3>2
  <2>3. Counts(e)'
    BY <2>1, <2>2 DEF Counts, Calls, Whole
  <2>4. ~closed'[e] => Holds(e)'
    BY <2>1 DEF Holds, Calls
  <2> QED
    BY <2>3, <2>4
<1> QED
  BY <1>1, <1>2, <1>3, <1>4

LEMMA CallCalm ==
  ASSUME IInv, NEW d \in Downloads, Calls(d),
         Undisturbed => CacheWhole',
         Undisturbed /\ stage'[d] \in Active => InFull(d)',
         Undisturbed /\ full'[d] => Len(written'[d]) = FileParts
  PROVE  Calm'
<1> SUFFICES ASSUME Undisturbed'
             PROVE  (/\ \A e \in Downloads : stage[e] \in Active => InFull(e)
                     /\ CacheWhole
                     /\ AvailableInFull)'
  BY DEF Calm
<1>1. Undisturbed
  BY DEF Undisturbed, Calls
<1>2. ASSUME NEW e \in Downloads, stage'[e] \in Active
      PROVE  InFull(e)'
  <2>1. CASE e = d
    BY <1>1, <1>2, <2>1
  <2>2. CASE e # d
    BY <1>1, <1>2, <2>2 DEF IInv, Calm, Calls, InFull, Holds, Whole
  <2> QED
    BY <2>1, <2>2
<1>3. AvailableInFull'
  BY <1>1 DEF IInv, Calm, AvailableInFull, Calls
<1> QED
  BY <1>1, <1>2, <1>3

-----------------------------------------------------------------------------

LEMMA StreamerFacts ==
  ASSUME IInv, NEW d \in Downloads, stage[d] \in Active
  PROVE  /\ offset[d] \in 0..FileParts /\ total[d] \in 0..Parts
         /\ sent[d] \in 0..Parts /\ data[d] \in 0..Parts
         /\ Whole(offset[d]) \in 0..Parts
         /\ offset[d] + Whole(offset[d]) <= FileParts
         /\ Whole(offset[d]) < Parts => offset[d] + Whole(offset[d]) = FileParts
         /\ Parts \in Nat \ {0} /\ FileParts \in Nat
         /\ written[d] \in Seq(1..FileParts) /\ Len(written[d]) \in 0..FileParts
         /\ \A i \in DOMAIN written[d] : written[d][i] = i
         /\ Counts(d)
         /\ ~closed[d] => Holds(d)
         /\ Undisturbed => InFull(d) /\ CacheWhole /\ (full[d] => Len(written[d]) = FileParts)
<1>1. offset[d] \in 0..FileParts /\ total[d] \in 0..Parts
      /\ sent[d] \in 0..Parts /\ data[d] \in 0..Parts
      /\ written[d] \in Seq(1..FileParts)
  BY DEF IInv, TypeOK
<1>2. Len(written[d]) \in 0..FileParts /\ \A i \in DOMAIN written[d] : written[d][i] = i
  BY <1>1, SizeAssumption DEF IInv, StreamIsPrefix
<1>3. Counts(d) /\ (~closed[d] => Holds(d))
  BY DEF IInv, Filling
<1>4. Undisturbed => InFull(d) /\ CacheWhole /\ (full[d] => Len(written[d]) = FileParts)
  BY DEF IInv, Calm, AvailableInFull
<1> QED
  BY <1>1, <1>2, <1>3, <1>4, WholeFacts, SizeAssumption

LEMMA HeaderStep ==
  ASSUME IInv, NEW d \in Downloads, ChannelHeader(d)
  PROVE  IInv'
<1>0. stage[d] = "header" /\ stage[d] \in Active
  BY DEF ChannelHeader, Called, Active
<1>1. /\ stage' = [stage EXCEPT ![d] = "data"] /\ total' = [total EXCEPT ![d] = 0]
      /\ UNCHANGED <<loop, stream, feeder, offset, sent, data, decoded, disk, restarted>>
  BY DEF ChannelHeader, Stage
<1>2. TypeOK'
  BY SMTT(30), <1>1, SizeAssumption DEF IInv, TypeOK, loop, stream, disk
<1>3. Calls(d) /\ UNCHANGED <<written, closed, cache, full>>
  BY <1>0, <1>1 DEF IInv, TypeOK, Calls, loop, stream, disk
<1>4. stage'[d] = "data" /\ total'[d] = 0
  BY <1>1 DEF IInv, TypeOK
<1>5. Counts(d)' /\ (Holds(d) => Holds(d)')
  BY <1>0, <1>1, <1>4, StreamerFacts DEF Counts, Holds, Whole, disk, stream, Active
<1>6. StreamIsPrefix' /\ Fresh' /\ Entries' /\ Filling'
  BY <1>0, <1>2, <1>3, <1>5, StreamerFacts, CallKeeps
<1>7. Undisturbed => InFull(d)' /\ CacheWhole' /\ (full'[d] => Len(written'[d]) = FileParts)
  BY ZenonT(60), <1>0, <1>1, <1>3, <1>4, <1>5, StreamerFacts
     DEF InFull, Ending, CacheWhole, Undisturbed, IInv, TypeOK
<1> QED
  BY <1>2, <1>3, <1>6, <1>7, CallCalm DEF IInv

LEMMA ReceiveStep ==
  ASSUME IInv, NEW d \in Downloads, Receive(d)
  PROVE  IInv'
<1>0. stage[d] = "data" /\ stage[d] \in Active
  BY DEF Receive, Called, Active
<1>1. /\ stage' = [stage EXCEPT ![d] = "call"]
      /\ UNCHANGED <<loop, stream, feeder, offset, total, sent, decoded, disk, restarted>>
  BY DEF Receive, Stage
<1>2. PICK n \in 0..Parts :
        /\ data' = [data EXCEPT ![d] = n]
        /\ sent[d] + n <= Whole(offset[d])
        /\ Undisturbed /\ feeder[d] = "cache" => sent[d] + n = Whole(offset[d])
  <2>1. CASE feeder[d] = "cache"
    <3>1. data' = [data EXCEPT ![d] = Stored(d)] /\ ~BeingStored(d)
      BY <2>1 DEF Receive
    <3>2. sent[d] = 0 /\ Stored(d) # Absent
      BY <1>0, <2>1, StreamerFacts DEF Counts, Stored
    <3>3. Stored(d) \in Absent..Parts /\ Stored(d) <= Whole(offset[d])
      BY <1>0, StreamerFacts DEF IInv, TypeOK, Stored, Entries
    <3>4. Stored(d) \in 0..Parts
      <4>1. Stored(d) \in Int /\ Stored(d) >= -1 /\ Stored(d) # -1 /\ Stored(d) <= Parts
        BY <3>2, <3>3, SizeAssumption DEF Absent
      <4> QED
        BY <4>1
    <3>5. Undisturbed => Stored(d) = Whole(offset[d])
      BY <1>0, <3>1, <3>2, StreamerFacts DEF CacheWhole, BeingStored, Stored
    <3>6. sent[d] + Stored(d) = Stored(d)
      BY <3>2, <3>4, SizeAssumption
    <3> QED
      BY <3>1, <3>3, <3>4, <3>5, <3>6
  <2>2. CASE feeder[d] # "cache"
    <3>1. data' = [data EXCEPT ![d] = 1] /\ sent[d] < Whole(offset[d])
      BY <2>2 DEF Receive
    <3>2. 1 \in 0..Parts /\ sent[d] + 1 <= Whole(offset[d])
      BY <1>0, <3>1, StreamerFacts
    <3> QED
      BY <2>2, <3>1, <3>2
  <2> QED
    BY <2>1, <2>2
<1>3. TypeOK'
  BY <1>1, <1>2, SizeAssumption DEF IInv, TypeOK, loop, stream, disk
<1>4. Calls(d) /\ UNCHANGED <<written, closed, cache, full>>
  BY <1>0, <1>1, <1>2 DEF IInv, TypeOK, Calls, loop, stream, disk
<1>5. stage'[d] = "call" /\ data'[d] = n
  BY <1>1, <1>2 DEF IInv, TypeOK
<1>6. Counts(d)' /\ (Holds(d) => Holds(d)')
  BY <1>0, <1>1, <1>2, <1>5, StreamerFacts DEF Counts, Holds, Whole, disk, stream
<1>7. StreamIsPrefix' /\ Fresh' /\ Entries' /\ Filling'
  BY <1>0, <1>3, <1>4, <1>6, StreamerFacts, CallKeeps
<1>8. Undisturbed => InFull(d)' /\ CacheWhole' /\ (full'[d] => Len(written'[d]) = FileParts)
  <2>1. Undisturbed => InFull(d)'
    BY <1>0, <1>1, <1>2, <1>5, <1>6, StreamerFacts DEF InFull, Ending, Whole
  <2> QED
    BY <2>1, <1>0, <1>1, <1>4, StreamerFacts DEF CacheWhole, Undisturbed, IInv, TypeOK
<1> QED
  BY <1>3, <1>4, <1>7, <1>8, CallCalm DEF IInv

LEMMA DecodeStep ==
  ASSUME IInv, NEW d \in Downloads, DecodeHeader(d)
  PROVE  IInv'
<1>0. stage[d] = "call" /\ stage[d] \in Active
  BY DEF DecodeHeader, Active
<1>1. /\ UNCHANGED <<loop, written, closed, full, stage, feeder, offset, total, sent, data,
                      disk, restarted>>
      /\ decoded' = [decoded EXCEPT ![d] = TRUE]
      /\ length' \in {length, [length EXCEPT ![d] = FileParts]}
  BY DEF DecodeHeader
<1>2. TypeOK'
  BY <1>1, SizeAssumption DEF IInv, TypeOK, loop, disk
<1>3. Calls(d) /\ UNCHANGED cache
  BY <1>0, <1>1 DEF Calls, loop, disk
<1>4. Counts(d)' /\ (Holds(d) => Holds(d)') /\ (InFull(d) => InFull(d)')
  BY <1>0, <1>1, StreamerFacts DEF Counts, Holds, InFull, Whole, disk
<1>5. StreamIsPrefix' /\ Fresh' /\ Entries' /\ Filling'
  BY <1>0, <1>1, <1>2, <1>3, <1>4, StreamerFacts, CallKeeps
<1>6. Undisturbed => InFull(d)' /\ CacheWhole' /\ (full'[d] => Len(written'[d]) = FileParts)
  BY <1>0, <1>1, <1>3, <1>4, StreamerFacts DEF CacheWhole, Undisturbed
<1> QED
  BY <1>2, <1>3, <1>5, <1>6, CallCalm DEF IInv

(* The end of a substream and its errors change the stage only.            *)
LEMMA StageStep ==
  ASSUME IInv, NEW d \in Downloads, ReceiveEnd(d) \/ ChannelError(d) \/ CheckStored(d)
  PROVE  IInv'
<1>0. stage[d] \in {"header", "data", "end"} /\ stage[d] \in Active
  BY DEF ReceiveEnd, ChannelError, CheckStored, Called, Active, Ending
<1>1. PICK s \in {"end", "broken", "create", "next"} :
        /\ stage' = [stage EXCEPT ![d] = s]
        /\ s = "end" => stage[d] = "data" /\ sent[d] = Whole(offset[d])
        /\ s \in {"create", "next"} => stage[d] = "end"
  BY DEF ReceiveEnd, ChannelError, CheckStored, Stage, Called
<1>2. UNCHANGED <<loop, stream, feeder, offset, total, sent, data, decoded, disk, restarted>>
  BY DEF ReceiveEnd, ChannelError, CheckStored
<1>3. TypeOK'
  BY <1>1, <1>2, SizeAssumption DEF IInv, TypeOK, loop, stream, disk, Ending
<1>4. Calls(d) /\ UNCHANGED <<written, closed, cache, full>>
  BY <1>0, <1>1, <1>2 DEF IInv, TypeOK, Calls, loop, stream, disk
<1>5. stage'[d] = s
  BY <1>1 DEF IInv, TypeOK
<1>6. s # "broken" => Counts(d)' /\ (Holds(d) => Holds(d)')
  BY <1>0, <1>1, <1>2, <1>5, StreamerFacts DEF Counts, Holds, Whole, disk, stream
<1>7. StreamIsPrefix' /\ Fresh' /\ Entries' /\ Filling'
  BY <1>0, <1>3, <1>4, <1>5, <1>6, StreamerFacts, CallKeeps DEF Active, Ending
<1>8. Undisturbed /\ s # "broken" => InFull(d)'
  BY <1>0, <1>1, <1>2, <1>5, <1>6, StreamerFacts DEF InFull, Holds, Ending, Whole
<1>9. Undisturbed => CacheWhole' /\ (full'[d] => Len(written'[d]) = FileParts)
  BY <1>0, <1>1, <1>2, <1>4, StreamerFacts DEF CacheWhole, Undisturbed, IInv, TypeOK
<1> QED
  BY <1>3, <1>4, <1>5, <1>7, <1>8, <1>9, CallCalm DEF IInv, Active, Ending

LEMMA FunctionIsSequence ==
  ASSUME NEW n \in Nat, NEW S, NEW f \in [1..n -> S]
  PROVE  f \in Seq(S) /\ Len(f) = n
OBVIOUS

(* The call of ChannelData that writes what it has been given.             *)
LEMMA DataStep ==
  ASSUME IInv, NEW d \in Downloads, ChannelData(d)
  PROVE  IInv'
<1>0. stage[d] = "call" /\ stage[d] \in Active
  BY DEF ChannelData, Active
<1> DEFINE parts == [i \in 1..data[d] |-> offset[d] + sent[d] + i]
<1>1. PICK s \in {"end", "data"} :
        /\ stage' = [stage EXCEPT ![d] = s]
        /\ s = "end" <=> feeder[d] = "cache"
  BY DEF ChannelData, Stage
<1>2. /\ sent' = [sent EXCEPT ![d] = sent[d] + data[d]]
      /\ UNCHANGED <<loop, length, closed, full, feeder, offset, data, decoded, disk,
                     restarted>>
  BY DEF ChannelData, IInv, TypeOK
<1>3. \/ closed[d] /\ UNCHANGED <<written, total>>
      \/ /\ ~closed[d]
         /\ written' = [written EXCEPT ![d] = written[d] \o parts]
         /\ total' = [total EXCEPT ![d] = total[d] + data[d]]
  BY DEF ChannelData
<1>4. /\ sent[d] + data[d] \in 0..Parts /\ total[d] + data[d] \in 0..Parts
      /\ sent[d] + data[d] <= Whole(offset[d]) /\ total[d] <= sent[d]
  BY <1>0, StreamerFacts DEF Counts
<1>5. /\ parts \in Seq(1..FileParts) /\ Len(parts) = data[d]
      /\ DOMAIN parts = 1..data[d]
      /\ \A i \in 1..data[d] : parts[i] = offset[d] + sent[d] + i
  <2>1. ASSUME NEW i \in 1..data[d]
        PROVE  offset[d] + sent[d] + i \in 1..FileParts
    BY SMTT(30), <1>0, <1>4, StreamerFacts
  <2>2. data[d] \in Nat
    BY <1>0, StreamerFacts
  <2>3. parts \in [1..data[d] -> 1..FileParts]
    BY <2>1
  <2>4. DOMAIN parts = 1..data[d] /\ \A i \in 1..data[d] : parts[i] = offset[d] + sent[d] + i
    OBVIOUS
  <2> HIDE DEF parts
  <2>5. parts \in Seq(1..FileParts) /\ Len(parts) = data[d]
    BY ONLY <2>2, <2>3, FunctionIsSequence
  <2> QED
    BY <2>4, <2>5
<1> HIDE DEF parts
<1>6. TypeOK'
  <2>1. written' \in [Downloads -> Seq(1..FileParts)]
    <3>1. written[d] \o parts \in Seq(1..FileParts)
      BY <1>0, <1>5, StreamerFacts
    <3> QED
      BY ZenonT(60), <1>3, <3>1 DEF IInv, TypeOK
  <2>2. total' \in [Downloads -> 0..Parts] /\ sent' \in [Downloads -> 0..Parts]
    BY ZenonT(60), <1>2, <1>3, <1>4 DEF IInv, TypeOK
  <2> QED
    BY <1>1, <1>2, <2>1, <2>2 DEF IInv, TypeOK, loop, disk, Ending
<1>7. Calls(d) /\ UNCHANGED <<closed, cache, full>>
  BY <1>0, <1>1, <1>2, <1>3 DEF IInv, TypeOK, Calls, loop, disk
<1>f. /\ offset[d] \in 0..FileParts /\ total[d] \in Nat /\ sent[d] \in Nat /\ data[d] \in Nat
      /\ Whole(offset[d]) \in Nat /\ offset[d] + Whole(offset[d]) <= FileParts
      /\ FileParts \in Nat
      /\ Undisturbed => CacheWhole /\ (full[d] => Len(written[d]) = FileParts)
  BY <1>0, StreamerFacts
<1>8. stage'[d] = s /\ sent'[d] = sent[d] + data[d] /\ offset' = offset /\ feeder' = feeder
      /\ closed' = closed /\ full' = full
  BY <1>1, <1>2 DEF IInv, TypeOK
<1>9. CASE closed[d]
  <2>0. written'[d] = written[d] /\ total'[d] = total[d]
    BY <1>3, <1>9
  <2>1. Counts(d)'
    <3>1. Whole(offset[d])' = Whole(offset[d])
      BY <1>8 DEF Whole
    <3> QED
      BY <1>1, <1>4, <1>8, <1>f, <2>0, <3>1 DEF Counts
  <2>2. StreamIsPrefix' /\ Fresh' /\ Entries' /\ Filling'
    BY <1>0, <1>6, <1>7, <1>9, <2>0, <2>1, StreamerFacts, CallKeeps
  <2>3. ASSUME Undisturbed
        PROVE  data[d] = 0 /\ InFull(d)'
    <3>1. Len(written[d]) = FileParts /\ Len(written[d]) = offset[d] + total[d]
          /\ total[d] = sent[d]
      BY <1>0, <1>9, <2>3, StreamerFacts DEF Undisturbed, InFull, Holds
    <3>2. data[d] = 0
      BY <1>0, <1>4, <3>1, StreamerFacts
    <3> QED
      BY <1>0, <1>1, <1>8, <2>0, <2>3, <3>1, <3>2, StreamerFacts
         DEF InFull, Holds, Ending, Whole
  <2>4. Undisturbed => CacheWhole' /\ (full'[d] => Len(written'[d]) = FileParts)
    BY ZenonT(60), <1>0, <1>1, <1>7, <1>8, <2>0, StreamerFacts DEF CacheWhole, Undisturbed, IInv, TypeOK
  <2> QED
    BY <1>6, <1>7, <2>2, <2>3, <2>4, CallCalm DEF IInv
<1>10. CASE ~closed[d]
  <2>0. written'[d] = written[d] \o parts /\ total'[d] = total[d] + data[d]
    BY <1>3, <1>10 DEF IInv, TypeOK
  <2>1. total[d] = sent[d] /\ Len(written[d]) = offset[d] + total[d]
    BY <1>0, <1>10, StreamerFacts DEF Holds
  <2>2. /\ Len(written'[d]) = offset[d] + total[d] + data[d]
        /\ \A i \in DOMAIN written'[d] : written'[d][i] = i
    <3>1. written[d] \in Seq(1..FileParts) /\ \A i \in 1..Len(written[d]) : written[d][i] = i
      BY <1>0, StreamerFacts
    <3>2. Len(written[d]) \in Nat /\ data[d] \in Nat
      BY <1>0, StreamerFacts
    <3>3. \A i \in 1..data[d] : parts[i] = Len(written[d]) + i
      BY <1>0, <1>5, <2>1, StreamerFacts
    <3>4. DOMAIN written'[d] = 1..(Len(written[d]) + data[d])
          /\ Len(written'[d]) = Len(written[d]) + data[d]
      <4>1. written'[d] \in Seq(1..FileParts)
        BY <1>6 DEF TypeOK
      <4>2. parts \in Seq(1..FileParts) /\ Len(parts) = data[d]
        BY <1>5
      <4>3. Len(written[d] \o parts) = Len(written[d]) + Len(parts)
        BY ONLY <3>1, <4>2, SMTT(30)
      <4>4. Len(written'[d]) = Len(written[d]) + data[d]
        BY <2>0, <4>2, <4>3
      <4> QED
        BY ONLY <4>1, <4>4
    <3>5. ASSUME NEW i \in 1..(Len(written[d]) + data[d])
          PROVE  written'[d][i] = i
      <4>1. CASE i <= Len(written[d])
        BY <1>5, <2>0, <3>1, <3>2, <4>1
      <4>2. CASE i > Len(written[d])
        <5>1. i - Len(written[d]) \in 1..data[d]
          BY <3>2, <4>2
        <5>2. written'[d][i] = parts[i - Len(written[d])]
          BY <1>5, <2>0, <3>1, <3>2, <4>2
        <5> QED
          BY <3>2, <3>3, <5>1, <5>2
      <4> QED
        BY <3>2, <4>1, <4>2
    <3> QED
      BY <2>1, <3>4, <3>5
  <2>3. Len(written'[d]) <= FileParts
    BY <1>0, <1>4, <2>1, <2>2, StreamerFacts
  <2>4. Counts(d)' /\ Holds(d)'
    <3>1. Whole(offset[d])' = Whole(offset[d])
      BY <1>8 DEF Whole
    <3>2. Counts(d)'
      BY <1>1, <1>4, <1>8, <1>f, <2>0, <2>1, <3>1 DEF Counts
    <3>3. Holds(d)'
      BY <1>1, <1>8, <1>f, <2>0, <2>1, <2>2 DEF Holds
    <3> QED
      BY <3>2, <3>3
  <2>5. StreamIsPrefix' /\ Fresh' /\ Entries' /\ Filling'
    BY <1>0, <1>6, <1>7, <2>2, <2>3, <2>4, CallKeeps
  <2>6. Undisturbed => InFull(d)'
    BY <1>0, <1>1, <1>8, <2>0, <2>1, <2>4, StreamerFacts DEF InFull, Ending, Whole
  <2>7. Undisturbed => CacheWhole' /\ (full'[d] => Len(written'[d]) = FileParts)
    <3>1. Undisturbed /\ full[d] => data[d] = 0
      BY <1>4, <1>f, <2>1
    <3>2. Undisturbed /\ full'[d] => Len(written'[d]) = FileParts
      BY <1>8, <1>f, <2>1, <2>2, <3>1
    <3>3. Undisturbed => CacheWhole'
      BY <1>0, <1>1, <1>7, <1>8, <1>f DEF CacheWhole, Undisturbed, IInv, TypeOK
    <3> QED
      BY <3>2, <3>3
  <2> QED
    BY <1>6, <1>7, <2>5, <2>6, <2>7, CallCalm DEF IInv
<1> QED
  BY <1>9, <1>10

LEMMA StoreSteps ==
  ASSUME IInv, NEW d \in Downloads, CreateEntry(d) \/ StoreEntry(d)
  PROVE  IInv'
<1>0. stage[d] \in {"create", "store"} /\ stage[d] \in Active /\ stage[d] \in Ending
  BY DEF CreateEntry, StoreEntry, Active, Ending
<1>f. /\ offset[d] \in 0..FileParts /\ total[d] \in 0..Parts /\ Whole(offset[d]) \in 0..Parts
      /\ total[d] \in 0..Whole(offset[d]) /\ 0 \in 0..Whole(offset[d]) /\ Parts \in Nat
      /\ Undisturbed => CacheWhole /\ InFull(d) /\ (full[d] => Len(written[d]) = FileParts)
  BY <1>0, StreamerFacts DEF Counts, Active, Ending
<1>1. PICK s \in {"store", "next"} : stage' = [stage EXCEPT ![d] = s]
  BY DEF CreateEntry, StoreEntry, Stage
<1>2. \/ UNCHANGED cache /\ stage[d] = "create"
      \/ cache' = [cache EXCEPT ![offset[d]] = 0] /\ s = "store" /\ stage[d] = "create"
      \/ cache' = [cache EXCEPT ![offset[d]] = total[d]] /\ stage[d] = "store"
  BY <1>1 DEF CreateEntry, StoreEntry, Stage, IInv, TypeOK
<1>3. UNCHANGED <<loop, stream, feeder, offset, total, sent, data, decoded, file, restarted>>
  BY DEF CreateEntry, StoreEntry
<1>4. \A o \in 0..FileParts : cache'[o] = cache[o] \/ cache'[o] \in 0..Whole(o)
  BY <1>2, <1>f DEF IInv, TypeOK
<1>5. TypeOK'
  <2>1. cache' \in [0..FileParts -> Absent..Parts]
    <3>1. 0 \in Absent..Parts /\ total[d] \in Absent..Parts
      BY <1>f DEF Absent
    <3> QED
      BY <1>2, <3>1 DEF IInv, TypeOK
  <2> QED
    BY <1>1, <1>3, <2>1 DEF IInv, TypeOK, loop, stream, Ending
<1>6. Calls(d) /\ UNCHANGED <<written, closed, full>>
  BY <1>0, <1>1, <1>3 DEF IInv, TypeOK, Calls, loop, stream
<1>7. stage'[d] = s /\ stage'[d] \in Ending
  BY <1>1 DEF IInv, TypeOK, Ending
<1>8. Counts(d)' /\ (Holds(d) => Holds(d)') /\ (InFull(d) => InFull(d)')
  <2>1. /\ UNCHANGED <<feeder, offset, total, sent, data, written>>
        /\ Whole(offset[d])' = Whole(offset[d])
    BY <1>3 DEF stream, Whole
  <2>2. Counts(d) /\ stage[d] \notin {"header", "data", "call"}
        /\ stage'[d] \notin {"header", "data", "call"}
    BY <1>0, <1>1, <1>7, StreamerFacts DEF Ending
  <2>3. Counts(d)'
    BY <2>1, <2>2 DEF Counts
  <2>4. Holds(d) => Holds(d)'
    BY <2>1, <2>2 DEF Holds
  <2>5. InFull(d) => InFull(d)'
    BY <1>0, <2>1, <2>2, <2>4 DEF InFull
  <2> QED
    BY <2>3, <2>4, <2>5
<1>9. StreamIsPrefix' /\ Fresh' /\ Entries' /\ Filling'
  <2>1. Len(written'[d]) <= FileParts /\ \A i \in DOMAIN written'[d] : written'[d][i] = i
    BY <1>0, <1>6, StreamerFacts
  <2>2. Counts(d)' /\ (~closed[d] => Holds(d)')
    BY <1>0, <1>8, StreamerFacts
  <2> QED
    BY ONLY <1>4, <1>5, <1>6, <2>1, <2>2, IInv, d \in Downloads, CallKeeps
<1>10. ASSUME Undisturbed
       PROVE  CacheWhole'
  <2> SUFFICES ASSUME NEW o \in 0..FileParts
               PROVE  \/ cache'[o] \in {Absent, Whole(o)}
                      \/ \E e \in Downloads : stage'[e] = "store" /\ offset'[e] = o
    BY DEF CacheWhole, Whole
  <2>1. CASE o = offset[d]
    <3>1. CASE stage[d] = "store"
      BY <1>f, <1>2, <1>10, <2>1, <3>1 DEF InFull, Ending, IInv, TypeOK
    <3>2. CASE s = "store"
      BY <1>3, <1>7, <2>1, <3>2
    <3>3. CASE stage[d] = "create" /\ UNCHANGED cache
      BY <1>f, <1>1, <1>3, <1>10, <3>3 DEF CacheWhole, IInv, TypeOK
    <3> QED
      BY <1>2, <3>1, <3>2, <3>3
  <2>2. CASE o # offset[d]
    <3>1. cache'[o] = cache[o]
      BY <1>2, <2>2 DEF IInv, TypeOK
    <3>2. \A e \in Downloads : stage[e] = "store" /\ offset[e] = o => stage'[e] = "store"
      BY <1>1, <2>2 DEF IInv, TypeOK
    <3> QED
      BY <1>f, <1>3, <1>10, <3>1, <3>2 DEF CacheWhole
  <2> QED
    BY <2>1, <2>2
<1> QED
  BY <1>5, <1>6, <1>8, <1>9, <1>10, <1>f, CallCalm DEF IInv

LEMMA NextStep ==
  ASSUME IInv, NEW d \in Downloads, NextSubstream(d)
  PROVE  IInv'
<1>0. stage[d] = "next" /\ stage[d] \in Active /\ stage[d] \in Ending
  BY DEF NextSubstream, Active, Ending
<1>f. /\ offset[d] \in 0..FileParts /\ total[d] \in 0..Parts /\ Whole(offset[d]) \in 0..Parts
      /\ total[d] <= Whole(offset[d]) /\ Parts \in Nat \ {0} /\ FileParts \in Nat
      /\ offset[d] + Whole(offset[d]) <= FileParts
      /\ Whole(offset[d]) < Parts => offset[d] + Whole(offset[d]) = FileParts
      /\ Undisturbed => CacheWhole /\ InFull(d) /\ (full[d] => Len(written[d]) = FileParts)
  BY <1>0, StreamerFacts DEF Counts, Active, Ending
<1>1. UNCHANGED <<loop, length, written, closed, total, data, decoded, disk, restarted>>
  BY DEF NextSubstream
<1>2. CASE total[d] < Parts
  <2>1. /\ full' = [full EXCEPT ![d] = TRUE] /\ stage' = [stage EXCEPT ![d] = "over"]
        /\ UNCHANGED <<offset, sent, feeder>>
    BY <1>2 DEF NextSubstream, Stage
  <2>2. TypeOK'
    BY <1>1, <2>1 DEF IInv, TypeOK, loop, disk
  <2>3. Calls(d)
    BY <1>0, <1>1, <2>1 DEF IInv, TypeOK, Calls, loop, disk
  <2>4. stage'[d] \notin Active
    BY <2>1 DEF IInv, TypeOK, Active, Ending
  <2>5. StreamIsPrefix' /\ Fresh' /\ Entries' /\ Filling'
    BY <1>0, <1>1, <2>2, <2>3, <2>4, StreamerFacts, CallKeeps DEF disk
  <2>6. Undisturbed => Len(written'[d]) = FileParts
    BY <1>0, <1>f, <1>1, <1>2 DEF InFull, Holds
  <2>7. Undisturbed => CacheWhole'
    BY <1>0, <1>f, <1>1, <2>1, <2>3 DEF CacheWhole, Undisturbed, disk, IInv, TypeOK
  <2> QED
    BY <2>2, <2>3, <2>4, <2>5, <2>6, <2>7, CallCalm DEF IInv
<1>3. CASE ~(total[d] < Parts)
  <2>1. total[d] = Parts /\ Whole(offset[d]) = Parts
        /\ offset[d] + Parts \in 0..FileParts
    BY <1>f, <1>3
  <2>2. Ask(d, offset[d] + Parts) /\ UNCHANGED full
    BY <1>3 DEF NextSubstream
  <2>3. PICK s \in {"header", "broken"}, by \in {"server", "cache"} :
          /\ stage' = [stage EXCEPT ![d] = s] /\ feeder' = [feeder EXCEPT ![d] = by]
          /\ by = "cache" => cache[offset[d] + Parts] # Absent
    BY <2>2 DEF Ask
  <2>4. offset' = [offset EXCEPT ![d] = offset[d] + Parts] /\ sent' = [sent EXCEPT ![d] = 0]
    BY <2>2 DEF Ask
  <2>5. TypeOK'
    <3>1. offset' \in [Downloads -> 0..FileParts]
      BY <2>1, <2>4 DEF IInv, TypeOK
    <3>2. sent' \in [Downloads -> 0..Parts]
      <4>1. 0 \in 0..Parts
        BY <1>f
      <4> QED
        BY ONLY <2>4, <4>1, IInv DEF IInv, TypeOK
    <3>3. /\ stage' \in [Downloads ->
               {"none", "header", "data", "call", "over", "broken"} \union Ending]
          /\ feeder' \in [Downloads -> {"server", "cache"}]
      BY <2>3 DEF IInv, TypeOK
    <3> QED
      BY ONLY <1>1, <2>2, <3>1, <3>2, <3>3, IInv DEF IInv, TypeOK, loop, disk
  <2>6. Calls(d)
    BY <1>0, <1>1, <2>2, <2>3, <2>4 DEF IInv, TypeOK, Calls, loop, disk
  <2>7. /\ stage'[d] = s /\ offset'[d] = offset[d] + Parts /\ sent'[d] = 0 /\ feeder'[d] = by
        /\ UNCHANGED <<cache, written, closed, full>>
    BY <1>1, <2>2, <2>3, <2>4 DEF IInv, TypeOK, disk
  <2>8. s = "header" => Counts(d)' /\ (Holds(d) => Holds(d)')
    <3>1. Whole(offset[d])' >= 0
      BY <1>f, <2>1, <2>7, WholeFacts DEF Whole
    <3> QED
      BY <1>0, <1>f, <2>1, <2>3, <2>7, <3>1 DEF Counts, Holds
  <2>9. StreamIsPrefix' /\ Fresh' /\ Entries' /\ Filling'
    BY <1>0, <2>3, <2>5, <2>6, <2>7, <2>8, StreamerFacts, CallKeeps DEF Active, Ending
  <2>10. Undisturbed /\ s = "header" => InFull(d)'
    BY <1>f, <2>7, <2>8 DEF InFull, Ending
  <2>11. Undisturbed => CacheWhole' /\ (full'[d] => Len(written'[d]) = FileParts)
    BY <1>0, <1>f, <2>3, <2>4, <2>7 DEF CacheWhole, Undisturbed, IInv, TypeOK
  <2> QED
    BY <2>3, <2>5, <2>6, <2>7, <2>9, <2>10, <2>11, CallCalm DEF IInv, Active, Ending
<1> QED
  BY <1>2, <1>3

-----------------------------------------------------------------------------

(* A new stream starts empty, with the first substream; or there is none.  *)
LEMMA OpenStep ==
  ASSUME IInv, NEW d \in Downloads, GetMusicStream(d)
  PROVE  IInv'
<1>0. pc[d] = "opening" /\ UNCHANGED <<available, stream, disk, restarted, total, data, decoded>>
  BY DEF GetMusicStream, Goto, streamer
<1>1. stage[d] = "none" /\ written[d] = <<>> /\ ~full[d] /\ ~closed[d]
  BY <1>0 DEF IInv, Fresh
<1>2. PICK to \in {"available", "failed"} : pc' = [pc EXCEPT ![d] = to]
  BY DEF GetMusicStream, Goto
<1>3. pc' \in [Downloads -> Steps]
  BY <1>2 DEF IInv, TypeOK, Steps, Polling, Ended
<1>4. StreamIsPrefix' /\ Entries'
  BY <1>0 DEF IInv, StreamIsPrefix, Entries, stream, disk, Whole
<1>5. CASE UNCHANGED streamer
  <2>1. TypeOK'
    BY <1>0, <1>3, <1>5 DEF IInv, TypeOK, stream, streamer, disk
  <2>2. Fresh'
    BY <1>0, <1>2, <1>5 DEF IInv, TypeOK, Fresh, stream, streamer
  <2>3. Filling'
    BY <1>0, <1>5 DEF IInv, Filling, Counts, Holds, stream, streamer, disk, Whole
  <2>4. Calm'
    BY <1>0, <1>5 DEF IInv, Calm, Undisturbed, InFull, Holds, CacheWhole, AvailableInFull,
       stream, streamer, disk, Whole
  <2> QED
    BY <1>4, <2>1, <2>2, <2>3, <2>4 DEF IInv
<1>6. CASE Ask(d, 0)
  <2>1. 0 \in 0..FileParts /\ 0 \in 0..Parts /\ Whole(0) \in 0..Parts /\ Whole(0) >= 0
    <3>1. 0 \in 0..FileParts /\ 0 \in 0..Parts
      BY SizeAssumption
    <3> QED
      BY <3>1, WholeFacts, SizeAssumption
  <2>2. PICK s \in {"header", "broken"}, by \in {"server", "cache"} :
          /\ stage' = [stage EXCEPT ![d] = s] /\ feeder' = [feeder EXCEPT ![d] = by]
          /\ by = "cache" => cache[0] # Absent
    BY <1>6 DEF Ask
  <2>3. offset' = [offset EXCEPT ![d] = 0] /\ sent' = [sent EXCEPT ![d] = 0]
    BY <1>6 DEF Ask
  <2>4. TypeOK'
    <3>1. offset' \in [Downloads -> 0..FileParts] /\ sent' \in [Downloads -> 0..Parts]
      BY ONLY <2>1, <2>3, IInv DEF IInv, TypeOK
    <3>2. /\ stage' \in [Downloads ->
               {"none", "header", "data", "call", "over", "broken"} \union Ending]
          /\ feeder' \in [Downloads -> {"server", "cache"}]
      BY <2>2 DEF IInv, TypeOK
    <3> QED
      BY ONLY <1>0, <1>3, <3>1, <3>2, IInv DEF IInv, TypeOK, stream, disk
  <2>5. /\ stage'[d] = s /\ feeder'[d] = by /\ offset'[d] = 0 /\ sent'[d] = 0
        /\ pc'[d] = to
    BY <1>2, <2>2, <2>3 DEF IInv, TypeOK
  <2>6. \A e \in Downloads \ {d} :
          /\ stage'[e] = stage[e] /\ feeder'[e] = feeder[e] /\ offset'[e] = offset[e]
          /\ sent'[e] = sent[e] /\ pc'[e] = pc[e]
    BY <1>2, <2>2, <2>3 DEF IInv, TypeOK
  <2>7. UNCHANGED <<length, written, closed, full, cache, file, restarted, total, data>>
    BY <1>0 DEF stream, disk
  <2>8. Fresh'
    BY <2>5, <2>6, <2>7 DEF IInv, Fresh
  <2>9. s = "header" => Counts(d)' /\ Holds(d)'
    <3>1. Whole(offset[d])' = Whole(0)
      BY <2>5 DEF Whole
    <3>2. s = "header" => Counts(d)'
      BY <2>1, <2>2, <2>5, <2>7, <3>1 DEF Counts
    <3>3. s = "header" => Holds(d)'
      BY <1>1, <2>5, <2>7 DEF Holds
    <3> QED
      BY <3>2, <3>3
  <2>10. Filling'
    <3> SUFFICES ASSUME NEW e \in Downloads, stage'[e] \in Active
                 PROVE  Counts(e)' /\ (~closed'[e] => Holds(e)')
      BY DEF Filling
    <3>1. CASE e = d
      BY <2>2, <2>5, <2>9, <3>1 DEF Active, Ending
    <3>2. CASE e # d
      <4>1. Counts(e) /\ (~closed[e] => Holds(e))
        BY <2>6, <3>2 DEF IInv, Filling
      <4> QED
        BY <2>6, <2>7, <3>2, <4>1 DEF Counts, Holds, Whole
    <3> QED
      BY <3>1, <3>2
  <2>11. Calm'
    <3> SUFFICES ASSUME Undisturbed
                 PROVE  (/\ \A e \in Downloads : stage[e] \in Active => InFull(e)
                         /\ CacheWhole
                         /\ AvailableInFull)'
      BY <2>7 DEF Calm, Undisturbed
    <3>1. AvailableInFull'
      BY <2>7 DEF IInv, Calm, AvailableInFull
    <3>2. CacheWhole'
      BY <1>1, <2>6, <2>7 DEF IInv, Calm, CacheWhole, Whole
    <3>3. ASSUME NEW e \in Downloads, stage'[e] \in Active
          PROVE  InFull(e)'
      <4>1. CASE e = d
        BY <2>2, <2>5, <2>9, <3>3, <4>1 DEF InFull, Active, Ending
      <4>2. CASE e # d
        BY <2>6, <2>7, <3>3, <4>2 DEF IInv, Calm, InFull, Holds, Whole
      <4> QED
        BY <4>1, <4>2
    <3> QED
      BY <3>1, <3>2, <3>3
  <2> QED
    BY <1>4, <2>4, <2>8, <2>10, <2>11 DEF IInv
<1> QED
  BY <1>5, <1>6 DEF GetMusicStream

(* The end of the process leaves no streamer at work, and entries that are *)
(* no longer than they were to become.                                     *)
LEMMA CrashStep ==
  ASSUME IInv, Crash
  PROVE  IInv'
<1>0. /\ UNCHANGED <<available, stream, feeder, offset, total, sent, data, decoded, file>>
      /\ restarted' = TRUE
      /\ stage' = [d \in Downloads |-> "none"]
      /\ pc' = [d \in Downloads |-> IF pc[d] \in Ended \union {"idle"} THEN pc[d] ELSE "lost"]
  BY DEF Crash
<1>1. PICK cut \in 0..Parts :
        cache' = [o \in 0..FileParts |->
          IF \E d \in Downloads : stage[d] = "store" /\ offset[d] = o /\ cut <= total[d]
            THEN cut ELSE cache[o]]
  BY DEF Crash
<1>2. Entries'
  <2> SUFFICES ASSUME NEW o \in 0..FileParts
               PROVE  cache'[o] <= Whole(o)
    BY DEF Entries, Whole
  <2>1. CASE \E d \in Downloads : stage[d] = "store" /\ offset[d] = o /\ cut <= total[d]
    <3>1. PICK d \in Downloads : stage[d] = "store" /\ offset[d] = o /\ cut <= total[d]
      BY <2>1
    <3>2. total[d] \in Nat /\ Whole(o) \in Nat /\ total[d] <= Whole(o)
      BY <3>1, StreamerFacts DEF Active, Ending, Counts
    <3> QED
      BY <1>1, <2>1, <3>1, <3>2
  <2>2. CASE ~\E d \in Downloads : stage[d] = "store" /\ offset[d] = o /\ cut <= total[d]
    BY <1>1, <2>2 DEF IInv, Entries
  <2> QED
    BY <2>1, <2>2
<1>3. TypeOK'
  <2>1. cache' \in [0..FileParts -> Absent..Parts]
    <3>1. cut \in Absent..Parts
      BY SizeAssumption DEF Absent
    <3> QED
      BY <1>1, <3>1 DEF IInv, TypeOK
  <2>2. pc' \in [Downloads -> Steps]
    BY <1>0 DEF IInv, TypeOK, Steps, Ended
  <2> QED
    BY <1>0, <2>1, <2>2 DEF IInv, TypeOK, stream
<1>4. Fresh'
  BY <1>0 DEF IInv, TypeOK, Fresh, stream, Ended
<1>5. StreamIsPrefix' /\ Filling' /\ Calm'
  BY <1>0 DEF IInv, StreamIsPrefix, Filling, Active, Ending, Calm, Undisturbed, stream
<1> QED
  BY <1>2, <1>3, <1>4, <1>5 DEF IInv

-----------------------------------------------------------------------------

LEMMA InductiveInvariant == Spec => []IInv
<1>1. IInv /\ [Next]_vars => IInv'
  <2> SUFFICES ASSUME IInv, [Next]_vars
               PROVE  IInv'
    OBVIOUS
  <2>1. CASE Crash
    BY <2>1, CrashStep
  <2>2. CASE UNCHANGED vars
    <3>1. UNCHANGED <<pc, available, length, written, closed, full, stage, feeder, offset,
                      total, sent, data, decoded, cache, file, restarted>>
      BY <2>2 DEF vars, loop, stream, streamer, disk
    <3>2. TypeOK' /\ StreamIsPrefix' /\ Fresh' /\ Entries'
      BY <3>1 DEF IInv, TypeOK, StreamIsPrefix, Fresh, Entries, Whole
    <3>3. Filling'
      BY <3>1 DEF IInv, Filling, Counts, Holds, Whole
    <3>4. Calm'
      BY <3>1 DEF IInv, Calm, Undisturbed, InFull, Holds, CacheWhole, AvailableInFull, Whole
    <3> QED
      BY <3>2, <3>3, <3>4 DEF IInv
  <2>3. ASSUME NEW d \in Downloads, DownloadTrack(d) \/ Download(d)
        PROVE  IInv'
    BY <2>3, PollingSteps, OpenStep DEF Download
  <2>4. ASSUME NEW d \in Downloads, Feed(d) \/ ChannelError(d)
        PROVE  IInv'
    BY <2>4, HeaderStep, ReceiveStep, DecodeStep, DataStep, StageStep DEF Feed
  <2>5. ASSUME NEW d \in Downloads, Finish(d)
        PROVE  IInv'
    BY <2>5, StageStep, StoreSteps, NextStep DEF Finish
  <2>6. ASSUME NEW d \in Downloads, LoadThrows(d)
        PROVE  IInv'
    BY <2>6, CrashStep DEF LoadThrows
  <2> QED
    BY <2>1, <2>2, <2>3, <2>4, <2>5, <2>6 DEF Next
<1> QED
  BY <1>1, InitialState, PTL DEF Spec

(* Whatever the downloads do, the counts stay within the buffers.          *)
THEOREM TypeCorrect == Spec => []TypeOK
<1>1. IInv => TypeOK
  BY DEF IInv
<1> QED
  BY <1>1, InductiveInvariant, PTL

(* What a stream holds is a beginning of the file, also after a crash, with*)
(* cut off entries in the cache and several downloads at once.             *)
THEOREM HoldsAPrefix == Spec => []StreamIsPrefix
<1>1. IInv => StreamIsPrefix
  BY DEF IInv
<1> QED
  BY <1>1, InductiveInvariant, PTL

(* Errors of the server and downloads that run at once never leave a       *)
(* substream cut short in the cache: only a crash or a closed stream may.  *)
THEOREM CacheStaysWhole == Spec => []CacheWhole
<1>1. IInv => CacheWhole
  BY DEF IInv, Calm, CacheWhole
<1> QED
  BY <1>1, InductiveInvariant, PTL

(* Nor do they let a stream say that all is available before it is.        *)
THEOREM AvailableMeansAll == Spec => []AvailableInFull
<1>1. IInv => AvailableInFull
  BY DEF IInv, Calm, AvailableInFull
<1> QED
  BY <1>1, InductiveInvariant, PTL
-----------------------------------------------------------------------------
(* The refinement.  It needs more of the streamers at work than the        *)
(* properties do: where a substream begins in its stream, closed or not,   *)
(* and that a stream that has anything has been measured.                  *)

Unopened ==
  \A d \in Downloads :
    pc[d] \in {"idle", "opening"} => ~decoded[d] /\ length[d] = 0 /\ offset[d] = 0

(* What was counted of a substream is what the stream has of it.           *)
Aligned(d) ==
  Len(written[d]) = IF stage[d] = "header" THEN offset[d] ELSE offset[d] + total[d]

(* The header is decoded by the first data that the streamer is called     *)
(* with; only the cache calls it with none.                                *)
Undecoded(d) ==
  ~decoded[d] => stage[d] \in {"header", "data", "call"} /\ offset[d] = 0 /\ sent[d] = 0

Unmeasured(d) ==
  decoded[d] /\ ~closed[d] /\ length[d] = 0 =>
    /\ stage[d] \in {"call"} \union Ending /\ total[d] = 0
    /\ stage[d] = "call" => data[d] = 0 /\ feeder[d] = "cache"

Fits(d) ==
  /\ ~full[d] /\ Aligned(d) /\ Undecoded(d) /\ Unmeasured(d)
  /\ stage[d] = "call" /\ feeder[d] = "server" => data[d] = 1

InStep == Unopened /\ \A d \in Downloads : stage[d] \in Active => Fits(d)

LEMMA InitiallyInStep == Init => InStep
BY DEF Init, InStep, Unopened, Active, Ending

(* A call of a streamer keeps the others in step, and has to keep its own. *)
LEMMA CallInStep ==
  ASSUME IInv, InStep, NEW d \in Downloads, Calls(d),
         \A e \in Downloads \ {d} : decoded'[e] = decoded[e] /\ length'[e] = length[e],
         stage'[d] \in Active => Fits(d)'
  PROVE  InStep'
<1>1. pc[d] \notin {"idle", "opening"}
  BY DEF IInv, Fresh, Calls, Active, Ending
<1>2. Unopened'
  BY <1>1 DEF InStep, Unopened, Calls, loop
<1>3. ASSUME NEW e \in Downloads, e # d, stage'[e] \in Active
      PROVE  Fits(e)'
  BY <1>3 DEF InStep, Calls, Fits, Aligned, Undecoded, Unmeasured
<1> QED
  BY <1>2, <1>3 DEF InStep

(* A step that leaves the streams and the streamers as they are, but may   *)
(* close a stream or start a download.                                     *)
LEMMA PollingInStep ==
  ASSUME IInv, InStep, NEW d \in Downloads,
         \/ DownloadTrack(d) \/ ReadAvailable(d) \/ ReadLength(d) \/ ReadZero(d)
         \/ CreateFile(d) \/ WriteFile(d) \/ Close(d)
  PROVE  InStep'
<1>1. /\ UNCHANGED <<length, written, full, streamer>>
      /\ \A e \in Downloads : closed[e] => closed'[e]
  BY DEF DownloadTrack, ReadAvailable, ReadLength, ReadZero, CreateFile, WriteFile, Close,
         IInv, TypeOK, stream, disk
<1>2. \A e \in Downloads : pc'[e] \in {"idle", "opening"} => pc[e] \in {"idle", "opening"}
  BY DEF DownloadTrack, ReadAvailable, ReadLength, ReadZero, CreateFile, WriteFile, Close,
         Goto, IInv, TypeOK
<1>3. Unopened'
  BY <1>1, <1>2 DEF InStep, Unopened, streamer
<1>4. ASSUME NEW e \in Downloads, stage'[e] \in Active
      PROVE  Fits(e)'
  BY <1>1, <1>4 DEF InStep, Fits, Aligned, Undecoded, Unmeasured, streamer
<1> QED
  BY <1>3, <1>4 DEF InStep

LEMMA FeedInStep ==
  ASSUME IInv, InStep, NEW d \in Downloads,
         \/ ChannelHeader(d) \/ Receive(d) \/ ReceiveEnd(d) \/ ChannelError(d)
  PROVE  InStep'
<1>0. stage[d] \in {"header", "data"} /\ stage[d] \in Active
  BY DEF ChannelHeader, Receive, ReceiveEnd, ChannelError, Called, Active
<1>1. UNCHANGED <<loop, stream, feeder, offset, sent, decoded, disk, restarted>>
  BY DEF ChannelHeader, Receive, ReceiveEnd, ChannelError
<1>2. Fits(d) /\ Counts(d)
  BY <1>0, StreamerFacts DEF InStep
<1>3. PICK s \in {"data", "call", "end", "broken"} : stage' = [stage EXCEPT ![d] = s]
  BY DEF ChannelHeader, Receive, ReceiveEnd, ChannelError, Stage
<1>4. stage'[d] = s
  BY <1>3 DEF IInv, TypeOK
<1>5. Calls(d)
  <2>1. UNCHANGED total \/ total' = [total EXCEPT ![d] = 0]
    BY DEF ChannelHeader, Receive, ReceiveEnd, ChannelError
  <2>2. \A e \in Downloads \ {d} : total'[e] = total[e]
    BY <2>1 DEF IInv, TypeOK
  <2>3. \A e \in Downloads \ {d} : data'[e] = data[e]
    BY DEF ChannelHeader, Receive, ReceiveEnd, ChannelError, IInv, TypeOK
  <2> QED
    BY <1>0, <1>1, <1>3, <2>2, <2>3 DEF IInv, TypeOK, Calls, loop, stream, disk
<1>6. ASSUME ChannelHeader(d)
      PROVE  Fits(d)'
  <2>1. stage[d] = "header" /\ stage'[d] = "data" /\ total'[d] = 0
    BY <1>6 DEF ChannelHeader, Called, Stage, IInv, TypeOK
  <2>2. Aligned(d)'
    <3>1. Len(written[d]) = offset[d] /\ offset[d] = offset[d] + 0
      BY <1>0, <1>2, <2>1, StreamerFacts DEF Fits, Aligned
    <3> QED
      BY <1>1, <2>1, <3>1 DEF Aligned, stream
  <2> QED
    BY <1>1, <1>2, <2>1, <2>2 DEF Fits, Undecoded, Unmeasured, Ending, stream
<1>7. ASSUME Receive(d)
      PROVE  Fits(d)'
  <2>1. stage[d] = "data" /\ stage'[d] = "call" /\ UNCHANGED total
    BY <1>7 DEF Receive, Called, Stage, IInv, TypeOK
  <2>2. feeder[d] = "server" => data'[d] = 1
    BY <1>7 DEF Receive, IInv, TypeOK
  <2> QED
    BY <1>1, <1>2, <2>1, <2>2 DEF Fits, Aligned, Undecoded, Unmeasured, Ending, stream
<1>8. ASSUME ReceiveEnd(d)
      PROVE  Fits(d)'
  <2>1. stage[d] = "data" /\ stage'[d] = "end" /\ UNCHANGED <<total, data>>
        /\ sent[d] = Whole(offset[d])
    BY <1>8 DEF ReceiveEnd, Called, Stage, IInv, TypeOK
  <2>2. decoded[d]
    <3>1. Whole(0) > 0
      BY SizeAssumption DEF Whole
    <3> QED
      BY <1>2, <2>1, <3>1 DEF Fits, Undecoded
  <2> QED
    BY <1>1, <1>2, <2>1, <2>2 DEF Fits, Aligned, Undecoded, Unmeasured, Ending, stream
<1>9. ASSUME ChannelError(d)
      PROVE  stage'[d] \notin Active
  BY <1>9 DEF ChannelError, Stage, IInv, TypeOK, Active, Ending
<1> QED
  BY <1>1, <1>5, <1>6, <1>7, <1>8, <1>9, CallInStep DEF stream

LEMMA DecodeInStep ==
  ASSUME IInv, InStep, NEW d \in Downloads, DecodeHeader(d)
  PROVE  InStep'
<1>0. stage[d] = "call" /\ stage[d] \in Active /\ ~decoded[d]
  BY DEF DecodeHeader, Active
<1>1. /\ UNCHANGED <<loop, written, closed, full, stage, feeder, offset, total, sent, data>>
      /\ decoded' = [decoded EXCEPT ![d] = TRUE] /\ UNCHANGED <<disk, restarted>>
  BY DEF DecodeHeader
<1>2. Fits(d) /\ Counts(d)
  BY <1>0, StreamerFacts DEF InStep
<1>3. Calls(d)
  BY <1>0, <1>1 DEF Calls, loop, disk
<1>4. \A e \in Downloads \ {d} : decoded'[e] = decoded[e] /\ length'[e] = length[e]
  BY <1>1 DEF DecodeHeader, IInv, TypeOK
<1>5. decoded'[d]
  BY <1>1 DEF IInv, TypeOK
<1>6. ~closed[d] /\ data[d] # 0 => length'[d] # 0
  BY SizeAssumption DEF DecodeHeader, IInv, TypeOK
<1>7. total[d] = 0
  BY <1>0, <1>2, StreamerFacts DEF Fits, Undecoded, Counts
<1>8. Fits(d)'
  BY <1>0, <1>1, <1>2, <1>5, <1>6, <1>7, StreamerFacts
     DEF Fits, Aligned, Undecoded, Unmeasured, IInv, TypeOK
<1> QED
  BY <1>3, <1>4, <1>8, CallInStep

LEMMA ConcatLength ==
  ASSUME NEW S, NEW a \in Seq(S), NEW b \in Seq(S)
  PROVE  Len(a \o b) = Len(a) + Len(b)
OBVIOUS

(* What ChannelData adds to an open stream are the parts that follow.      *)
LEMMA Appended ==
  ASSUME IInv, InStep, NEW d \in Downloads, ChannelData(d), ~closed[d]
  PROVE  LET parts == [i \in 1..data[d] |-> Len(written[d]) + i]
         IN  /\ written' = [written EXCEPT ![d] = written[d] \o parts]
             /\ parts \in Seq(Nat) /\ Len(parts) = data[d]
             /\ Len(written'[d]) = Len(written[d]) + data[d]
<1>0. stage[d] = "call" /\ stage[d] \in Active
  BY DEF ChannelData, Active
<1> DEFINE parts == [i \in 1..data[d] |-> Len(written[d]) + i]
<1>1. /\ data[d] \in Nat /\ Len(written[d]) \in Nat /\ written[d] \in Seq(1..FileParts)
      /\ Len(written[d]) = offset[d] + sent[d]
  BY <1>0, StreamerFacts DEF Holds
<1>2. written' = [written EXCEPT ![d] = written[d] \o parts]
  BY <1>1 DEF ChannelData
<1>3. parts \in [1..data[d] -> Nat]
  BY <1>1
<1> HIDE DEF parts
<1>4. parts \in Seq(Nat) /\ Len(parts) = data[d]
  BY ONLY <1>1, <1>3, FunctionIsSequence
<1>5. written[d] \in Seq(Nat)
  BY <1>1, SizeAssumption
<1>6. Len(written[d] \o parts) = Len(written[d]) + Len(parts)
  BY ONLY <1>4, <1>5, ConcatLength
<1>7. written'[d] = written[d] \o parts
  BY <1>2 DEF IInv, TypeOK
<1> QED
  BY <1>2, <1>4, <1>6, <1>7 DEF parts

LEMMA DataInStep ==
  ASSUME IInv, InStep, NEW d \in Downloads, ChannelData(d)
  PROVE  InStep'
<1>0. stage[d] = "call" /\ stage[d] \in Active /\ decoded[d]
  BY DEF ChannelData, Active
<1>1. /\ UNCHANGED <<loop, length, closed, full, feeder, offset, data, decoded, disk, restarted>>
      /\ sent' = [sent EXCEPT ![d] = sent[d] + data[d]]
  BY DEF ChannelData
<1>2. Fits(d)
  BY <1>0 DEF InStep
<1>3. stage' = [stage EXCEPT ![d] = IF feeder[d] = "cache" THEN "end" ELSE "data"]
  BY DEF ChannelData, Stage
<1>4. stage'[d] = IF feeder[d] = "cache" THEN "end" ELSE "data"
  BY <1>3 DEF IInv, TypeOK
<1>5. Calls(d)
  <2>1. \A e \in Downloads \ {d} : written'[e] = written[e] /\ total'[e] = total[e]
    BY DEF ChannelData, IInv, TypeOK
  <2>2. closed[d] => written'[d] = written[d]
    BY DEF ChannelData
  <2> QED
    BY <1>0, <1>1, <1>3, <2>1, <2>2 DEF IInv, TypeOK, Calls, loop, disk
<1>6. Aligned(d)'
  <2>1. CASE closed[d]
    <3>1. UNCHANGED <<written, total>>
      BY <2>1 DEF ChannelData
    <3> QED
      BY <1>0, <1>1, <1>2, <1>4, <3>1 DEF Fits, Aligned
  <2>2. CASE ~closed[d]
    <3>1. total'[d] = total[d] + data[d]
      BY <2>2 DEF ChannelData, IInv, TypeOK
    <3>2. Len(written'[d]) = Len(written[d]) + data[d]
      BY <2>2, Appended
    <3>3. offset[d] \in Int /\ total[d] \in Int /\ data[d] \in Int
      BY <1>0, StreamerFacts
    <3> QED
      BY <1>0, <1>1, <1>2, <1>4, <3>1, <3>2, <3>3 DEF Fits, Aligned
  <2> QED
    BY <2>1, <2>2
<1>7. Unmeasured(d)'
  <2>1. ~closed[d] => total'[d] = total[d] + data[d]
    BY DEF ChannelData, IInv, TypeOK
  <2> QED
    BY <1>0, <1>1, <1>2, <1>4, <2>1 DEF Fits, Unmeasured, Ending
<1>8. Fits(d)'
  BY <1>0, <1>1, <1>2, <1>4, <1>6, <1>7 DEF Fits, Undecoded
<1> QED
  BY <1>1, <1>5, <1>8, CallInStep

LEMMA FinishInStep ==
  ASSUME IInv, InStep, NEW d \in Downloads,
         CheckStored(d) \/ CreateEntry(d) \/ StoreEntry(d)
  PROVE  InStep'
<1>0. stage[d] \in Active /\ stage[d] \in Ending
  BY DEF CheckStored, CreateEntry, StoreEntry, Active, Ending
<1>1. UNCHANGED <<loop, stream, feeder, offset, total, sent, data, decoded, file, restarted>>
  BY DEF CheckStored, CreateEntry, StoreEntry, disk
<1>2. PICK s \in {"create", "store", "next"} : stage' = [stage EXCEPT ![d] = s]
  BY DEF CheckStored, CreateEntry, StoreEntry, Stage
<1>3. Calls(d)
  BY <1>0, <1>1, <1>2 DEF IInv, TypeOK, Calls, loop, stream
<1>4. Fits(d)'
  <2>1. stage'[d] \in Ending /\ stage'[d] \notin {"header", "data", "call"}
        /\ stage[d] \notin {"header", "data", "call"}
    BY <1>0, <1>2 DEF IInv, TypeOK, Ending
  <2> QED
    BY <1>0, <1>1, <2>1 DEF InStep, Fits, Aligned, Undecoded, Unmeasured, stream
<1> QED
  BY <1>1, <1>3, <1>4, CallInStep DEF stream

(* What the end of a whole substream and of the last one do.               *)
LEMMA NextChoices ==
  ASSUME IInv, NEW d \in Downloads, NextSubstream(d)
  PROVE  \/ /\ total[d] < Parts
            /\ full' = [full EXCEPT ![d] = TRUE]
            /\ stage' = [stage EXCEPT ![d] = "over"]
            /\ UNCHANGED <<offset, sent, feeder>>
         \/ /\ total[d] = Parts /\ UNCHANGED full
            /\ offset' = [offset EXCEPT ![d] = offset[d] + Parts]
            /\ sent' = [sent EXCEPT ![d] = 0]
            /\ stage' \in {[stage EXCEPT ![d] = s] : s \in {"header", "broken"}}
            /\ feeder' \in {[feeder EXCEPT ![d] = f] : f \in {"server", "cache"}}
<1>1. total[d] \in 0..Parts
  BY DEF IInv, TypeOK
<1>2. CASE total[d] < Parts
  BY <1>2 DEF NextSubstream, Stage
<1>3. CASE ~(total[d] < Parts)
  <2>1. total[d] = Parts
    BY <1>1, <1>3, SizeAssumption
  <2>2. Ask(d, offset[d] + Parts) /\ UNCHANGED full
    BY <1>3 DEF NextSubstream
  <2> QED
    BY <2>1, <2>2 DEF Ask
<1> QED
  BY <1>2, <1>3

LEMMA NextInStep ==
  ASSUME IInv, InStep, NEW d \in Downloads, NextSubstream(d)
  PROVE  InStep'
<1>0. stage[d] = "next" /\ stage[d] \in Active
  BY DEF NextSubstream, Active, Ending
<1>1. UNCHANGED <<loop, length, written, closed, total, data, decoded, disk, restarted>>
  BY DEF NextSubstream
<1>2. Fits(d)
  BY <1>0 DEF InStep
<1>3. CASE total[d] < Parts
  <2>1. /\ full' = [full EXCEPT ![d] = TRUE] /\ stage' = [stage EXCEPT ![d] = "over"]
        /\ UNCHANGED <<offset, sent, feeder>>
    BY <1>3, NextChoices, SizeAssumption
  <2>2. Calls(d)
    BY <1>0, <1>1, <2>1 DEF IInv, TypeOK, Calls, loop, disk
  <2>3. stage'[d] \notin Active
    BY <2>1 DEF IInv, TypeOK, Active, Ending
  <2> QED
    BY <1>1, <2>2, <2>3, CallInStep
<1>4. CASE ~(total[d] < Parts)
  <2>1. /\ total[d] = Parts /\ UNCHANGED full
        /\ offset' = [offset EXCEPT ![d] = offset[d] + Parts]
        /\ sent' = [sent EXCEPT ![d] = 0]
    BY <1>4, NextChoices
  <2>2. PICK s \in {"header", "broken"}, f \in {"server", "cache"} :
          stage' = [stage EXCEPT ![d] = s] /\ feeder' = [feeder EXCEPT ![d] = f]
    BY <1>4, NextChoices
  <2>3. Calls(d)
    BY <1>0, <1>1, <2>1, <2>2 DEF IInv, TypeOK, Calls, loop, disk
  <2>4. stage'[d] = s /\ offset'[d] = offset[d] + Parts
    BY <2>1, <2>2 DEF IInv, TypeOK
  <2>5. ASSUME s = "header"
        PROVE  Fits(d)'
    <3>1. Aligned(d)'
      BY <1>0, <1>1, <1>2, <2>1, <2>4, <2>5 DEF Fits, Aligned
    <3>2. decoded[d] /\ (~closed[d] => length[d] # 0)
      BY <1>0, <1>2, <2>1, SizeAssumption DEF Fits, Undecoded, Unmeasured
    <3> QED
      BY <1>1, <1>2, <2>1, <2>4, <2>5, <3>1, <3>2 DEF Fits, Undecoded, Unmeasured
  <2>6. s = "broken" => stage'[d] \notin Active
    BY <2>4 DEF Active, Ending
  <2> QED
    BY <1>1, <2>3, <2>5, <2>6, CallInStep
<1> QED
  BY <1>3, <1>4

LEMMA OpenInStep ==
  ASSUME IInv, InStep, NEW d \in Downloads, GetMusicStream(d)
  PROVE  InStep' /\ UNCHANGED offset
<1>0. /\ pc[d] = "opening" /\ stage[d] = "none" /\ written[d] = <<>> /\ ~full[d]
      /\ ~decoded[d] /\ length[d] = 0 /\ offset[d] = 0
      /\ UNCHANGED <<stream, total, data, decoded>>
  BY DEF GetMusicStream, Goto, IInv, Fresh, InStep, Unopened, streamer
<1>1. UNCHANGED offset
  BY <1>0 DEF GetMusicStream, Ask, IInv, TypeOK, streamer
<1>2. Unopened'
  <2>1. \A e \in Downloads : pc'[e] \in {"idle", "opening"} => pc[e] \in {"idle", "opening"}
    BY DEF GetMusicStream, Goto, IInv, TypeOK
  <2> QED
    BY <1>0, <1>1, <2>1 DEF InStep, Unopened, stream
<1>3. CASE UNCHANGED streamer
  BY <1>0, <1>2, <1>3 DEF InStep, Fits, Aligned, Undecoded, Unmeasured, stream, streamer
<1>4. CASE Ask(d, 0)
  <2>1. PICK s \in {"header", "broken"}, f \in {"server", "cache"} :
          stage' = [stage EXCEPT ![d] = s] /\ feeder' = [feeder EXCEPT ![d] = f]
    BY <1>4 DEF Ask
  <2>2. sent' = [sent EXCEPT ![d] = 0]
    BY <1>4 DEF Ask
  <2>3. ASSUME NEW e \in Downloads, stage'[e] \in Active
        PROVE  Fits(e)'
    <3>1. CASE e = d
      <4>1. stage'[d] = "header" /\ sent'[d] = 0
        BY <2>1, <2>2, <2>3, <3>1 DEF IInv, TypeOK, Active, Ending
      <4> QED
        BY <1>0, <1>1, <3>1, <4>1 DEF Fits, Aligned, Undecoded, Unmeasured, stream
    <3>2. CASE e # d
      <4>1. stage'[e] = stage[e] /\ feeder'[e] = feeder[e] /\ sent'[e] = sent[e]
        BY <2>1, <2>2, <3>2 DEF IInv, TypeOK
      <4> QED
        BY <1>0, <1>1, <2>3, <4>1 DEF InStep, Fits, Aligned, Undecoded, Unmeasured, stream
    <3> QED
      BY <3>1, <3>2
  <2> QED
    BY <1>1, <1>2, <2>3 DEF InStep
<1> QED
  BY <1>1, <1>3, <1>4 DEF GetMusicStream

LEMMA CrashInStep ==
  ASSUME IInv, InStep, Crash
  PROVE  InStep'
BY DEF Crash, InStep, Unopened, Active, Ending, Ended, IInv, TypeOK, stream

LEMMA StepInStep ==
  ASSUME IInv, InStep, [Next]_vars
  PROVE  InStep'
<1>1. CASE Crash
  BY <1>1, CrashInStep
<1>2. CASE UNCHANGED vars
  BY <1>2 DEF vars, loop, stream, streamer, disk, InStep, Unopened, Fits, Aligned,
     Undecoded, Unmeasured
<1>3. ASSUME NEW d \in Downloads, DownloadTrack(d) \/ Download(d)
      PROVE  InStep'
  BY <1>3, PollingInStep, OpenInStep DEF Download
<1>4. ASSUME NEW d \in Downloads, Feed(d) \/ ChannelError(d)
      PROVE  InStep'
  BY <1>4, FeedInStep, DecodeInStep, DataInStep DEF Feed
<1>5. ASSUME NEW d \in Downloads, Finish(d)
      PROVE  InStep'
  BY <1>5, FinishInStep, NextInStep DEF Finish
<1>6. ASSUME NEW d \in Downloads, LoadThrows(d)
      PROVE  InStep'
  BY <1>6, CrashInStep DEF LoadThrows
<1> QED
  BY <1>1, <1>2, <1>3, <1>4, <1>5, <1>6 DEF Next

-----------------------------------------------------------------------------
(* Each step is one of the stream that grows, or none.                     *)

LEMMA Unseen ==
  ASSUME UNCHANGED <<length, written, offset, full, closed, restarted>>
  PROVE  UNCHANGED Abstract!vars
<1>1. Undisturbed' <=> Undisturbed
  BY DEF Undisturbed
<1> QED
  BY <1>1 DEF Abstract!vars

(* A step that may disturb the downloads, and leaves their streams alone.  *)
LEMMA Disturbing ==
  ASSUME UNCHANGED <<length, written, offset, full>>, Undisturbed' => Undisturbed
  PROVE  [Abstract!Next]_(Abstract!vars)
<1>1. CASE Undisturbed /\ ~Undisturbed'
  <2>1. Abstract!Disturb
    BY <1>1 DEF Abstract!Disturb
  <2> QED
    BY <2>1 DEF Abstract!Next
<1>2. CASE Undisturbed' <=> Undisturbed
  <2>1. UNCHANGED Abstract!vars
    BY <1>2 DEF Abstract!vars
  <2> QED
    BY <2>1
<1> QED
  BY <1>1, <1>2

LEMMA CloseDisturbs ==
  ASSUME IInv, NEW d \in Downloads, Close(d)
  PROVE  [Abstract!Next]_(Abstract!vars)
<1>1. UNCHANGED <<length, written, offset, full, restarted>>
  BY DEF Close, streamer
<1>2. \A e \in Downloads : closed[e] => closed'[e]
  BY DEF Close, IInv, TypeOK
<1>3. Undisturbed' => Undisturbed
  BY <1>1, <1>2 DEF Undisturbed
<1> QED
  BY <1>1, <1>3, Disturbing

LEMMA CrashDisturbs ==
  ASSUME Crash
  PROVE  [Abstract!Next]_(Abstract!vars)
<1>1. UNCHANGED <<length, written, offset, full>> /\ ~Undisturbed'
  BY DEF Crash, Undisturbed, stream
<1> QED
  BY <1>1, Disturbing

LEMMA DecodeMeasures ==
  ASSUME IInv, InStep, NEW d \in Downloads, DecodeHeader(d)
  PROVE  [Abstract!Next]_(Abstract!vars)
<1>0. stage[d] = "call" /\ stage[d] \in Active /\ ~decoded[d]
  BY DEF DecodeHeader, Active
<1>1. UNCHANGED <<written, offset, full, closed, restarted>>
  BY DEF DecodeHeader
<1>2. CASE UNCHANGED length
  BY <1>1, <1>2, Unseen
<1>3. CASE length' = [length EXCEPT ![d] = FileParts]
  <2>1. Fits(d) /\ Counts(d)
    BY <1>0, StreamerFacts DEF InStep
  <2>2. offset[d] = 0 /\ total[d] = 0
    BY <1>0, <2>1, StreamerFacts DEF Fits, Undecoded, Counts
  <2>3. Len(written[d]) = 0 /\ written[d] \in Seq(1..FileParts)
    BY <1>0, <2>1, <2>2, StreamerFacts DEF Fits, Aligned
  <2>4. written[d] = <<>>
    BY <2>3
  <2>5. Undisturbed' <=> Undisturbed
    BY <1>1 DEF Undisturbed
  <2>6. Abstract!Measure(d)
    BY <1>1, <1>3, <2>1, <2>4, <2>5 DEF Fits, Abstract!Measure
  <2> QED
    BY <2>6 DEF Abstract!Next
<1> QED
  BY <1>2, <1>3 DEF DecodeHeader

LEMMA DataGrows ==
  ASSUME IInv, InStep, NEW d \in Downloads, ChannelData(d)
  PROVE  [Abstract!Next]_(Abstract!vars)
<1>0. stage[d] = "call" /\ stage[d] \in Active /\ decoded[d]
  BY DEF ChannelData, Active
<1>1. UNCHANGED <<length, closed, full, offset, restarted>>
  BY DEF ChannelData
<1>2. CASE closed[d]
  <2>1. UNCHANGED written
    BY <1>2 DEF ChannelData
  <2> QED
    BY <1>1, <2>1, Unseen
<1>3. CASE ~closed[d]
  <2> DEFINE parts == [i \in 1..data[d] |-> Len(written[d]) + i]
  <2>1. /\ written' = [written EXCEPT ![d] = written[d] \o parts]
        /\ parts \in Seq(Nat) /\ Len(parts) = data[d]
        /\ Len(written'[d]) = Len(written[d]) + data[d]
    BY <1>3, Appended
  <2>2. CASE data[d] = 0
    <3>1. written[d] \in Seq(1..FileParts)
      BY <1>0, StreamerFacts
    <3> HIDE DEF parts
    <3>2. parts = <<>>
      BY <2>1, <2>2
    <3>3. written[d] \o parts = written[d]
      BY <3>1, <3>2
    <3>4. UNCHANGED written
      BY <2>1, <3>3 DEF IInv, TypeOK
    <3> QED
      BY <1>1, <3>4, Unseen
  <2>3. CASE data[d] # 0
    <3>1. data[d] \in 1..Parts
      BY <1>0, <2>3, StreamerFacts
    <3>2. ~full[d] /\ length[d] = FileParts
      BY <1>0, <1>3, <2>3 DEF InStep, Fits, Unmeasured, IInv, TypeOK
    <3>3. Len(written[d]) = offset[d] + sent[d] /\ sent[d] + data[d] <= Whole(offset[d])
      BY <1>0, <1>3, StreamerFacts DEF Holds, Counts
    <3>4. /\ Len(written[d]) + data[d] <= FileParts
          /\ Len(written[d]) + data[d] <= offset[d] + Parts
      <4>1. /\ offset[d] \in Nat /\ sent[d] \in Nat /\ data[d] \in Nat /\ Parts \in Nat
            /\ FileParts \in Nat /\ Whole(offset[d]) \in Nat /\ Whole(offset[d]) <= Parts
            /\ offset[d] + Whole(offset[d]) <= FileParts
        BY <1>0, StreamerFacts
      <4> QED
        BY <3>3, <4>1
    <3>5. Undisturbed' <=> Undisturbed
      <4>1. \A e \in Downloads : closed[e] => written'[e] = written[e]
        BY <1>3, <2>1 DEF IInv, TypeOK
      <4> QED
        BY <1>1, <4>1 DEF Undisturbed
    <3>6. Abstract!Grow(d, data[d])
      BY <1>1, <2>1, <3>2, <3>4, <3>5 DEF Abstract!Grow, Abstract!Following
    <3> QED
      BY <3>1, <3>6 DEF Abstract!Next
  <2> QED
    BY <2>2, <2>3
<1> QED
  BY <1>2, <1>3

LEMMA NextTurns ==
  ASSUME IInv, InStep, NEW d \in Downloads, NextSubstream(d)
  PROVE  [Abstract!Next]_(Abstract!vars)
<1>0. stage[d] = "next" /\ stage[d] \in Active /\ stage[d] \in Ending
  BY DEF NextSubstream, Active, Ending
<1>1. UNCHANGED <<length, written, closed, restarted>>
  BY DEF NextSubstream
<1>2. Fits(d)
  BY <1>0 DEF InStep
<1>3. Undisturbed' <=> Undisturbed
  BY <1>1 DEF Undisturbed
<1>4. CASE total[d] < Parts
  <2>1. full' = [full EXCEPT ![d] = TRUE] /\ UNCHANGED offset
    BY <1>4, NextChoices, SizeAssumption
  <2>2. Undisturbed => Len(written[d]) = FileParts
    BY <1>0, <1>4, StreamerFacts DEF InFull, Holds
  <2>3. Abstract!Complete(d)
    BY <1>1, <1>2, <1>3, <2>1, <2>2 DEF Fits, Abstract!Complete
  <2> QED
    BY <2>3 DEF Abstract!Next
<1>5. CASE ~(total[d] < Parts)
  <2>1. /\ total[d] = Parts /\ UNCHANGED full
        /\ offset' = [offset EXCEPT ![d] = offset[d] + Parts]
    BY <1>5, NextChoices
  <2>2. Len(written[d]) = offset[d] + Parts
    BY <1>0, <1>2, <2>1 DEF Fits, Aligned
  <2>3. Abstract!Turn(d)
    BY <1>1, <1>2, <1>3, <2>1, <2>2 DEF Fits, Abstract!Turn
  <2> QED
    BY <2>3 DEF Abstract!Next
<1> QED
  BY <1>4, <1>5

LEMMA StepGrows ==
  ASSUME IInv, InStep, [Next]_vars
  PROVE  [Abstract!Next]_(Abstract!vars)
<1>1. CASE Crash
  BY <1>1, CrashDisturbs
<1>2. CASE UNCHANGED vars
  BY <1>2, Unseen DEF vars, stream, streamer
<1>3. ASSUME NEW d \in Downloads,
             DownloadTrack(d) \/ ReadAvailable(d) \/ ReadLength(d) \/ ReadZero(d)
               \/ CreateFile(d) \/ WriteFile(d)
      PROVE  UNCHANGED Abstract!vars
  <2>1. UNCHANGED <<stream, streamer, restarted>>
    BY <1>3 DEF DownloadTrack, ReadAvailable, ReadLength, ReadZero, CreateFile, WriteFile
  <2> QED
    BY <2>1, Unseen DEF stream, streamer
<1>4. ASSUME NEW d \in Downloads, GetMusicStream(d)
      PROVE  UNCHANGED Abstract!vars
  <2>1. UNCHANGED <<stream, restarted>>
    BY <1>4 DEF GetMusicStream
  <2> QED
    BY <1>4, <2>1, OpenInStep, Unseen DEF stream
<1>5. ASSUME NEW d \in Downloads,
             ChannelHeader(d) \/ Receive(d) \/ ReceiveEnd(d) \/ ChannelError(d)
               \/ CheckStored(d) \/ CreateEntry(d) \/ StoreEntry(d)
      PROVE  UNCHANGED Abstract!vars
  <2>1. UNCHANGED <<stream, offset, restarted>>
    BY <1>5 DEF ChannelHeader, Receive, ReceiveEnd, ChannelError, CheckStored, CreateEntry,
       StoreEntry
  <2> QED
    BY <2>1, Unseen DEF stream
<1>6. ASSUME NEW d \in Downloads, LoadThrows(d)
      PROVE  [Abstract!Next]_(Abstract!vars)
  BY <1>6, CrashDisturbs DEF LoadThrows
<1> QED
  BY <1>1, <1>2, <1>3, <1>4, <1>5, <1>6, CloseDisturbs, DecodeMeasures, DataGrows, NextTurns
     DEF Next, Download, Feed, Finish

(* Every step of the streamer, of a download and of the process is a step  *)
(* of a stream that grows block by block and is complete when it says so,  *)
(* or none: a crash and a stream closed early may only cut a stream short. *)
THEOREM RefinesStream == Spec => ImplementsStream
<1>1. Init => Abstract!Init
  BY DEF Init, Abstract!Init, Undisturbed
<1>2. IInv /\ InStep /\ [Next]_vars => InStep'
  BY StepInStep
<1>3. IInv /\ InStep /\ [Next]_vars => [Abstract!Next]_(Abstract!vars)
  BY StepGrows
<1> QED
  BY <1>1, <1>2, <1>3, InitiallyInStep, InductiveInvariant, PTL
     DEF Spec, ImplementsStream, Abstract!Spec
==============================================================================
