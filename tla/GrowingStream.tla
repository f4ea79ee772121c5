---------------------------- MODULE GrowingStream ----------------------------
(***************************************************************************)
(* What a stream that is being filled promises to those who read it.  It   *)
(* learns its size before it has anything; then it grows at its end, by the*)
(* next parts of the file, block after block, the next one not before the  *)
(* one before it is all there.  It is declared complete once, when it is,  *)
(* and never changes after that.  When a disturbance has cut it short it   *)
(* may be declared complete early; the rest of the promise stays.          *)
(*                                                                         *)
(* Nothing here is code.  SubstreamDownload is the ChannelStreamer with its*)
(* MusicStream and cache, and implements this specification.               *)
(***************************************************************************)
EXTENDS Integers, Sequences

CONSTANTS
  Streams,   \* the streams that are filled with the file
  Block,     \* the parts of a block
  Size       \* the parts of the file

VARIABLES
  size,      \* the size each stream knows of, 0 if it does not
  content,   \* the parts it has
  block,     \* where the block begins that it is being filled with
  complete,  \* it is declared complete
  disturbed  \* a stream may have been cut short

vars == <<size, content, block, complete, disturbed>>

Init ==
  /\ size = [s \in Streams |-> 0]
  /\ content = [s \in Streams |-> <<>>]
  /\ block = [s \in Streams |-> 0]
  /\ complete = [s \in Streams |-> FALSE]
  /\ disturbed = FALSE

Measure(s) ==
  /\ ~complete[s] /\ content[s] = <<>>
  /\ size' = [size EXCEPT ![s] = Size]
  /\ UNCHANGED <<content, block, complete, disturbed>>

Following(s, n) == [i \in 1..n |-> Len(content[s]) + i]

Grow(s, n) ==
  /\ ~complete[s] /\ size[s] = Size
  /\ Len(content[s]) + n <= Size /\ Len(content[s]) + n <= block[s] + Block
  /\ content' = [content EXCEPT ![s] = @ \o Following(s, n)]
  /\ UNCHANGED <<size, block, complete, disturbed>>

Turn(s) ==
  /\ ~complete[s] /\ Len(content[s]) = block[s] + Block
  /\ block' = [block EXCEPT ![s] = @ + Block]
  /\ UNCHANGED <<size, content, complete, disturbed>>

Complete(s) ==
  /\ ~complete[s] /\ (disturbed \/ Len(content[s]) = Size)
  /\ complete' = [complete EXCEPT ![s] = TRUE]
  /\ UNCHANGED <<size, content, block, disturbed>>

Disturb ==
  /\ ~disturbed /\ disturbed' = TRUE
  /\ UNCHANGED <<size, content, block, complete>>

Next ==
  \/ \E s \in Streams :
       \/ Measure(s) \/ Turn(s) \/ Complete(s)
       \/ \E n \in 1..Block : Grow(s, n)
  \/ Disturb

Spec == Init /\ [][Next]_vars
==============================================================================
