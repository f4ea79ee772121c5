-------------------------- MODULE SubstreamDownload --------------------------
(***************************************************************************)
(* Downloads of one music file.  DoDownload opens a MusicStream and polls  *)
(* it until it is full; a ChannelStreamer fills it, substream by substream.*)
(* A substream comes from the server, on the thread of Run, or out of the  *)
(* SubstreamCache, on a thread of its own; at its end it is stored in the  *)
(* cache and the next one is asked for on that same thread.  Nothing is    *)
(* locked.  Downloads of the same file may run at once, and after a crash. *)
(*                                                                         *)
(* Lengths count parts of the file, one for each packet of data.           *)
(***************************************************************************)
EXTENDS Integers, Sequences

CONSTANTS
  Downloads,  \* the calls of DoDownload
  Parts,      \* _channelLength: what a whole substream has
  FileParts   \* what the file has, and its Ogg header says

ASSUME SizeAssumption == Parts \in Nat \ {0} /\ FileParts \in Nat \ {0}

VARIABLES
  pc,         \* where each download is
  available,  \* the AvailableLength its loop has read last
  length,     \* MusicStream.Length
  written,    \* the parts in the stream, up to _writePosition
  closed,     \* the stream is closed
  full,       \* MusicStream.AllAvailable
  stage,      \* where its ChannelStreamer is
  feeder,     \* who calls the streamer: "server", on Run's thread, or "cache"
  offset,     \* _channelOffset
  total,      \* _channelTotal
  sent,       \* parts of the substream the streamer was called with
  data,       \* those of the call of ChannelData that is being made
  decoded,    \* _header is not null
  cache,      \* the parts of the stored substream at each offset
  file,       \* the parts in the file of the music cache, zeros apart
  restarted   \* the process has ended, and was started again

loop == <<pc, available>>
stream == <<length, written, closed, full>>
streamer == <<stage, feeder, offset, total, sent, data, decoded>>
disk == <<cache, file>>
vars == <<loop, stream, streamer, disk, restarted>>

Absent == -1  \* no such file

Polling == {"available", "length", "zero"}
Ended == {"done", "failed", "lost"}
Steps == Polling \union Ended \union
  {"idle", "opening", "create", "writing", "written", "failing"}
Ending == {"end", "create", "store", "next"}

(* What the substream at an offset has: the last one may be short, empty.  *)
Whole(o) == IF FileParts - o < Parts THEN FileParts - o ELSE Parts

Init ==
  /\ pc = [d \in Downloads |-> "idle"]
  /\ available = [d \in Downloads |-> 0]
  /\ length = [d \in Downloads |-> 0]
  /\ written = [d \in Downloads |-> <<>>]
  /\ closed = [d \in Downloads |-> FALSE]
  /\ full = [d \in Downloads |-> FALSE]
  /\ stage = [d \in Downloads |-> "none"]
  /\ feeder = [d \in Downloads |-> "server"]
  /\ offset = [d \in Downloads |-> 0]
  /\ total = [d \in Downloads |-> 0]
  /\ sent = [d \in Downloads |-> 0]
  /\ data = [d \in Downloads |-> 0]
  /\ decoded = [d \in Downloads |-> FALSE]
  /\ cache = [o \in 0..FileParts |-> Absent]
  /\ file = Absent
  /\ restarted = FALSE

-----------------------------------------------------------------------------
(* The download.                                                           *)

Goto(d, from, to) == pc[d] = from /\ pc' = [pc EXCEPT ![d] = to]

(* DownloadTrack starts the thread if there is no file.                    *)
DownloadTrack(d) ==
  /\ file = Absent
  /\ Goto(d, "idle", "opening")
  /\ UNCHANGED <<available, stream, streamer, disk, restarted>>

(* Ask for the substream at o.  One that cannot be sent is not sent again: *)
(* its exception is ignored, and the streamer is broken.                   *)
Ask(d, o) ==
  /\ offset' = [offset EXCEPT ![d] = o]
  /\ sent' = [sent EXCEPT ![d] = 0]
  /\ \/ /\ cache[o] # Absent
        /\ stage' = [stage EXCEPT ![d] = "header"]
        /\ feeder' = [feeder EXCEPT ![d] = "cache"]
     \/ /\ cache[o] = Absent
        /\ stage' \in {[stage EXCEPT ![d] = s] : s \in {"header", "broken"}}
        /\ feeder' = [feeder EXCEPT ![d] = "server"]

(* GetMusicStream makes the stream and its streamer, whose constructor     *)
(* asks for the first substream; or a request before that fails.           *)
GetMusicStream(d) ==
  /\ \/ Goto(d, "opening", "available") /\ Ask(d, 0) /\ UNCHANGED <<total, data, decoded>>
     \/ Goto(d, "opening", "failed") /\ UNCHANGED streamer
  /\ UNCHANGED <<available, stream, disk, restarted>>

(* The condition of the loop reads AvailableLength, Length, Length.        *)
ReadAvailable(d) ==
  /\ Goto(d, "available", "length")
  /\ available' = [available EXCEPT ![d] = Len(written[d])]
  /\ UNCHANGED <<stream, streamer, disk, restarted>>

ReadLength(d) ==
  /\ Goto(d, "length", IF available[d] < length[d] THEN "available" ELSE "zero")
  /\ UNCHANGED <<available, stream, streamer, disk, restarted>>

ReadZero(d) ==
  /\ Goto(d, "zero", IF length[d] = 0 THEN "available" ELSE "create")
  /\ UNCHANGED <<available, stream, streamer, disk, restarted>>

(* WriteAllBytes creates the file, or throws, as it does if another        *)
(* download is writing it; then it writes the buffer, where parts that are *)
(* not there are zeros.                                                    *)
CreateFile(d) ==
  /\ \/ /\ \A e \in Downloads : pc[e] # "writing"
        /\ Goto(d, "create", "writing")
        /\ file' = 0
     \/ Goto(d, "create", "failing") /\ UNCHANGED file
  /\ UNCHANGED <<available, stream, streamer, cache, restarted>>

WriteFile(d) ==
  /\ Goto(d, "writing", "written")
  /\ file' = Len(written[d])
  /\ UNCHANGED <<available, stream, streamer, cache, restarted>>

Close(d) ==
  /\ Goto(d, "written", "done") \/ Goto(d, "failing", "failed")
  /\ closed' = [closed EXCEPT ![d] = TRUE]
  /\ UNCHANGED <<available, length, written, full, streamer, disk, restarted>>

Download(d) ==
  \/ GetMusicStream(d) \/ ReadAvailable(d) \/ ReadLength(d) \/ ReadZero(d)
  \/ CreateFile(d) \/ WriteFile(d) \/ Close(d)

-----------------------------------------------------------------------------
(* The streamer.                                                           *)

(* Run's thread has no other call of a streamer under way.                 *)
RunIsFree(d) ==
  \A e \in Downloads \ {d} :
    feeder[e] = "server" => stage[e] \notin {"call"} \union Ending

Called(d, s) == stage[d] = s /\ (feeder[d] = "server" => RunIsFree(d))

Stage(d, s) == stage' = [stage EXCEPT ![d] = s]

Stored(d) == cache[offset[d]]

(* Another download is storing the substream.                              *)
BeingStored(d) ==
  \E e \in Downloads \ {d} : stage[e] = "store" /\ offset[e] = offset[d]

(* Mutant: the count goes on from the last substream's.                    *)
ChannelHeaderKeeps(d) ==
  /\ Called(d, "header")
  /\ Stage(d, "data")
  /\ UNCHANGED <<loop, stream, feeder, offset, total, sent, data, decoded, disk, restarted>>

ChannelHeader(d) ==
  /\ Called(d, "header")
  /\ Stage(d, "data")
  /\ total' = [total EXCEPT ![d] = 0]
  /\ UNCHANGED <<loop, stream, feeder, offset, sent, data, decoded, disk, restarted>>

(* A packet with the next part, or all that Load finds in the cache.       *)
Receive(d) ==
  /\ Called(d, "data")
  /\ Stage(d, "call")
  /\ IF feeder[d] = "cache"
       THEN ~BeingStored(d) /\ data' = [data EXCEPT ![d] = Stored(d)]
       ELSE sent[d] < Whole(offset[d]) /\ data' = [data EXCEPT ![d] = 1]
  /\ UNCHANGED <<loop, stream, feeder, offset, total, sent, decoded, disk, restarted>>

(* The first call of ChannelData sets the length of the stream to that in  *)
(* the header it decodes, which an empty entry does not have.              *)
DecodeHeader(d) ==
  /\ stage[d] = "call" /\ ~decoded[d]
  /\ decoded' = [decoded EXCEPT ![d] = TRUE]
  /\ length' = IF closed[d] \/ data[d] = 0 THEN length
               ELSE [length EXCEPT ![d] = FileParts]
  /\ UNCHANGED <<loop, written, closed, full, stage, feeder, offset, total, sent, data,
                 disk, restarted>>

(* Mutant: the stream is written to before its length is set.              *)
ChannelDataFirst(d) ==
  /\ stage[d] = "call"
  /\ Stage(d, IF feeder[d] = "cache" THEN "end" ELSE "data")
  /\ sent' = [sent EXCEPT ![d] = @ + data[d]]
  /\ IF closed[d]
       THEN UNCHANGED <<written, total>>
       ELSE /\ written' = [written EXCEPT ![d] =
                 @ \o [i \in 1..data[d] |-> offset[d] + sent[d] + i]]
            /\ total' = [total EXCEPT ![d] = @ + data[d]]
  /\ UNCHANGED <<loop, length, closed, full, feeder, offset, data, decoded, disk,
                 restarted>>

(* It writes to the stream and counts, unless the stream is closed: that   *)
(* exception is dropped.  Load's thread calls ChannelEnd next.             *)
ChannelData(d) ==
  /\ stage[d] = "call" /\ decoded[d]
  /\ Stage(d, IF feeder[d] = "cache" THEN "end" ELSE "data")
  /\ sent' = [sent EXCEPT ![d] = @ + data[d]]
  /\ IF closed[d]
       THEN UNCHANGED <<written, total>>
       ELSE /\ written' = [written EXCEPT ![d] =
                 @ \o [i \in 1..data[d] |-> offset[d] + sent[d] + i]]
            /\ total' = [total EXCEPT ![d] = @ + data[d]]
  /\ UNCHANGED <<loop, length, closed, full, feeder, offset, data, decoded, disk,
                 restarted>>

(* The empty packet after the last part of the substream.                  *)
ReceiveEnd(d) ==
  /\ Called(d, "data") /\ feeder[d] = "server" /\ sent[d] = Whole(offset[d])
  /\ Stage(d, "end")
  /\ UNCHANGED <<loop, stream, feeder, offset, total, sent, data, decoded, disk, restarted>>

(* Mutant: an error is taken for the end.                                  *)
ChannelErrorEnds(d) ==
  /\ Called(d, "data") /\ feeder[d] = "server"
  /\ Stage(d, "end")
  /\ UNCHANGED <<loop, stream, feeder, offset, total, sent, data, decoded, disk, restarted>>

(* ChannelError ignores the error, and no packet follows it.               *)
ChannelError(d) ==
  /\ Called(d, "header") \/ Called(d, "data")
  /\ feeder[d] = "server"
  /\ Stage(d, "broken")
  /\ UNCHANGED <<loop, stream, feeder, offset, total, sent, data, decoded, disk, restarted>>

(* ChannelEnd: store the substream if the cache does not have it, ...      *)
CheckStored(d) ==
  /\ stage[d] = "end"
  /\ Stage(d, IF Stored(d) = Absent THEN "create" ELSE "next")
  /\ UNCHANGED <<loop, stream, feeder, offset, total, sent, data, decoded, disk, restarted>>

(* ... in a new file, or in one that another download has made since then, *)
(* unless that one has it open still or another exception is ignored; ...  *)
CreateEntry(d) ==
  /\ stage[d] = "create"
  /\ \/ /\ ~BeingStored(d)
        /\ Stage(d, "store")
        /\ cache' = [cache EXCEPT ![offset[d]] = 0]
     \/ Stage(d, "next") /\ UNCHANGED cache
  /\ UNCHANGED <<loop, stream, feeder, offset, total, sent, data, decoded, file, restarted>>

StoreEntry(d) ==
  /\ stage[d] = "store"
  /\ Stage(d, "next")
  /\ cache' = [cache EXCEPT ![offset[d]] = total[d]]
  /\ UNCHANGED <<loop, stream, feeder, offset, total, sent, data, decoded, file, restarted>>

(* Mutants: a short substream is not the last; a whole one is.             *)
NextSubstreamAnyway(d) ==
  /\ stage[d] = "next"
  /\ IF offset[d] + Parts > FileParts
       THEN /\ full' = [full EXCEPT ![d] = TRUE]
            /\ Stage(d, "over")
            /\ UNCHANGED <<offset, sent, feeder>>
       ELSE Ask(d, offset[d] + Parts) /\ UNCHANGED full
  /\ UNCHANGED <<loop, length, written, closed, total, data, decoded, disk, restarted>>

NextSubstreamUpTo(d) ==
  /\ stage[d] = "next"
  /\ IF total[d] <= Parts
       THEN /\ full' = [full EXCEPT ![d] = TRUE]
            /\ Stage(d, "over")
            /\ UNCHANGED <<offset, sent, feeder>>
       ELSE Ask(d, offset[d] + Parts) /\ UNCHANGED full
  /\ UNCHANGED <<loop, length, written, closed, total, data, decoded, disk, restarted>>

(* ... then ask for the next one, unless this one was short, the last.     *)
NextSubstream(d) ==
  /\ stage[d] = "next"
  /\ IF total[d] < Parts
       THEN /\ full' = [full EXCEPT ![d] = TRUE]
            /\ Stage(d, "over")
            /\ UNCHANGED <<offset, sent, feeder>>
       ELSE Ask(d, offset[d] + Parts) /\ UNCHANGED full
  /\ UNCHANGED <<loop, length, written, closed, total, data, decoded, disk, restarted>>

Finish(d) == CheckStored(d) \/ CreateEntry(d) \/ StoreEntry(d) \/ NextSubstream(d)

(* What the server's packets make the streamer do, and Load's thread.      *)
Feed(d) ==
  ChannelHeader(d) \/ Receive(d) \/ DecodeHeader(d) \/ ChannelData(d) \/ ReceiveEnd(d)

-----------------------------------------------------------------------------
(* The process ends.  What is being stored is cut off anywhere.            *)
Crash ==
  /\ \E d \in Downloads : stage[d] # "none" \/ pc[d] \notin Ended \union {"idle"}
  /\ restarted' = TRUE
  /\ pc' = [d \in Downloads |-> IF pc[d] \in Ended \union {"idle"} THEN pc[d] ELSE "lost"]
  /\ stage' = [d \in Downloads |-> "none"]
  /\ \E cut \in 0..Parts :
       cache' = [o \in 0..FileParts |->
         IF \E d \in Downloads : stage[d] = "store" /\ offset[d] = o /\ cut <= total[d]
           THEN cut ELSE cache[o]]
  /\ UNCHANGED <<available, stream, feeder, offset, total, sent, data, decoded, file>>

(* Load cannot open a file that another download is writing; the null it   *)
(* returns throws in ChannelData, on a thread where nobody catches it.     *)
LoadThrows(d) ==
  /\ stage[d] = "data" /\ feeder[d] = "cache" /\ BeingStored(d)
  /\ Crash

Next ==
  \/ \E d \in Downloads :
       \/ DownloadTrack(d) \/ Download(d)
       \/ Feed(d) \/ ChannelError(d) \/ Finish(d) \/ LoadThrows(d)
  \/ Crash

(* Threads are scheduled; the server need not answer.                      *)
Spec ==
  /\ Init /\ [][Next]_vars
  /\ \A d \in Downloads :
       /\ WF_vars(Download(d))
       /\ WF_vars(Finish(d))
       /\ WF_vars(feeder[d] = "cache" /\ Feed(d))

ServerAnswers == \A d \in Downloads : SF_vars(feeder[d] = "server" /\ Feed(d))

-----------------------------------------------------------------------------

(* The variables have the types of the fields they stand for; the count of *)
(* a substream stays within the buffer that was made for it.               *)
TypeOK ==
  /\ pc \in [Downloads -> Steps]
  /\ available \in [Downloads -> 0..FileParts]
  /\ length \in [Downloads -> {0, FileParts}]
  /\ written \in [Downloads -> Seq(1..FileParts)]
  /\ closed \in [Downloads -> BOOLEAN]
  /\ full \in [Downloads -> BOOLEAN]
  /\ stage \in [Downloads -> {"none", "header", "data", "call", "over", "broken"} \union Ending]
  /\ feeder \in [Downloads -> {"server", "cache"}]
  /\ offset \in [Downloads -> 0..FileParts]
  /\ total \in [Downloads -> 0..Parts]
  /\ sent \in [Downloads -> 0..Parts]
  /\ data \in [Downloads -> 0..Parts]
  /\ decoded \in [Downloads -> BOOLEAN]
  /\ cache \in [0..FileParts -> Absent..Parts]
  /\ file \in Absent..FileParts
  /\ restarted \in BOOLEAN

(* What a stream holds is a beginning of the file, wherever its substreams *)
(* came from: from the server, from the cache, from entries that a crash or*)
(* another download has cut off.                                           *)
StreamIsPrefix ==
  \A d \in Downloads :
    /\ Len(written[d]) <= FileParts
    /\ \A i \in DOMAIN written[d] : written[d][i] = i

(* No process has ended, and no stream was closed before it was full.      *)
Undisturbed ==
  /\ ~restarted
  /\ \A d \in Downloads : closed[d] => Len(written[d]) = FileParts

(* Then what the cache has is whole, or being written: errors of the server*)
(* and downloads that run at once do not leave it a substream cut short.   *)
CacheWhole ==
  Undisturbed =>
    \A o \in 0..FileParts :
      \/ cache[o] \in {Absent, Whole(o)}
      \/ \E d \in Downloads : stage[d] = "store" /\ offset[d] = o

(* ... and a stream says that all is available only when all is.           *)
AvailableInFull ==
  Undisturbed => \A d \in Downloads : full[d] => Len(written[d]) = FileParts

(* The streamer implements a stream that grows: it is measured before it   *)
(* has anything, no substream is asked for before the one before it is all *)
(* written, and nothing is written to a stream that says all is available. *)
Abstract ==
  INSTANCE GrowingStream WITH
    Streams <- Downloads, Block <- Parts, Size <- FileParts,
    size <- length, content <- written, block <- offset, complete <- full,
    disturbed <- ~Undisturbed

ImplementsStream == Abstract!Spec

(* If the server answers, every request of it can be sent and nothing      *)
(* disturbs the downloads, each of them ends.                              *)
DownloadEnds ==
  /\ ServerAnswers
  /\ [](Undisturbed /\ \A d \in Downloads : stage[d] # "broken")
  => \A d \in Downloads : pc[d] = "available" ~> pc[d] \in Ended

-----------------------------------------------------------------------------
(* DownloaderAndCoverGrabber.cs:97 says "write all the bytes to the cache  *)
(* file": all are there when the loop is left.  But its two reads of Length*)
(* may lie on either side of SetLength, and an empty stream pass for full. *)
AllBytes == \A d \in Downloads : pc[d] = "create" => Len(written[d]) = FileParts
==============================================================================
