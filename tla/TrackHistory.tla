---------------------------- MODULE TrackHistory ----------------------------
(***************************************************************************)
(* The table of past tracks in the browser.  Its rows come from two        *)
(* sources that nothing keeps in step: the poller puts a row on top when   *)
(* it sees the track change, and scrolling appends blocks of the server's  *)
(* history, counted from the rows there are.  Plays are numbered in their  *)
(* order; the track of a play is its number.                               *)
(***************************************************************************)
EXTENDS Integers, Sequences, Functions, FiniteSets

CONSTANTS
  Amount,    \* how many entries are asked for at once
  MaxPlays   \* bound: the last play

ASSUME BoundsAssumption == Amount \in Nat \ {0} /\ MaxPlays \in Nat

VARIABLES
  cur,          \* UpcomingTracks[0]
  log,          \* the table TrackHistories, newest first
  poll, head,   \* the poller's request, and the track it is answered with
  track,        \* updater.track, 0 when it is null
  new, old,     \* the rows: those put on top, and those of the blocks
  loadingRows,  \* the flag, "closed" before the table is set up
  block, from,  \* the request for a block, the entries it skips, ...
  data,         \* ... and those it is answered with
  shown, opened,\* the rows on top, when it was sent; the track, when the first was
  inStep        \* whether each block was answered in step with the rows on top

server == <<cur, log>>
poller == <<poll, head, track>>
table == <<new, old, loadingRows, block, from, data, shown, opened, inStep>>
vars == <<server, poller, table>>

-----------------------------------------------------------------------------
(* The server.                                                             *)

Ended == log # <<>> /\ log[1] = cur

(* OnTrackPlayed(): the track is saved to the history, ...                 *)
AddTrackToPlayHistory ==
  /\ cur < MaxPlays /\ ~Ended
  /\ log' = <<cur>> \o log
  /\ UNCHANGED <<cur, poller, table>>

(* ... then leaves the list.  A track whose download fails just leaves it. *)
Remove ==
  /\ cur < MaxPlays
  /\ cur' = cur + 1
  /\ UNCHANGED <<log, poller, table>>

-----------------------------------------------------------------------------
(* The poller.                                                             *)

Poll ==
  /\ poll = "timer"
  /\ poll' = "sent"
  /\ UNCHANGED <<server, head, track, table>>

(* /Music/Current                                                          *)
Current ==
  /\ poll = "sent"
  /\ poll' = "answered" /\ head' = cur
  /\ UNCHANGED <<server, track, table>>

(* _parseJson() and onTrackChange().  Mutants: the null check is left out; *)
(* the row is that of the new track; the row is forgotten.                 *)
ParseJsonNull ==
  /\ poll = "answered"
  /\ poll' = "timer" /\ track' = head /\ head' = 0
  /\ new' = IF loadingRows # "closed" /\ head # track THEN <<track>> \o new ELSE new
  /\ UNCHANGED <<server, old, loadingRows, block, from, data, shown, opened, inStep>>

ParseJsonNew ==
  /\ poll = "answered"
  /\ poll' = "timer" /\ track' = head /\ head' = 0
  /\ new' = IF loadingRows # "closed" /\ track # 0 /\ head # track
            THEN <<head>> \o new ELSE new
  /\ UNCHANGED <<server, old, loadingRows, block, from, data, shown, opened, inStep>>

ParseJsonQuiet ==
  /\ poll = "answered"
  /\ poll' = "timer" /\ track' = head /\ head' = 0
  /\ new' = IF loadingRows = "no" /\ track # 0 /\ head # track THEN <<track>> \o new ELSE new
  /\ UNCHANGED <<server, old, loadingRows, block, from, data, shown, opened, inStep>>

ParseJson ==
  /\ poll = "answered"
  /\ poll' = "timer" /\ track' = head /\ head' = 0
  /\ new' = IF loadingRows # "closed" /\ track # 0 /\ head # track
            THEN <<track>> \o new ELSE new
  /\ UNCHANGED <<server, old, loadingRows, block, from, data, shown, opened, inStep>>

(* The answer is lost, or cannot be read: no further request is sent.      *)
LosePoll ==
  /\ poll = "sent"
  /\ poll' = "lost"
  /\ UNCHANGED <<server, head, track, table>>

-----------------------------------------------------------------------------
(* The table.                                                              *)

(* load__TrackHistory(), when the tab is clicked, and the first request of *)
(* setupElementAsScrolling().                                              *)
Open ==
  /\ loadingRows = "closed"
  /\ loadingRows' = "yes"
  /\ block' = "sent" /\ from' = 0
  /\ shown' = new /\ opened' = track
  /\ UNCHANGED <<server, poller, new, old, data, inStep>>

(* /Music/Playlist: the newest entries but the first few.  The answer is   *)
(* in step if the rows then on top were all the entries added since.       *)
Playlist ==
  /\ block = "sent"
  /\ block' = "answered"
  /\ data' = SubSeq(log, from + 1, IF from + Amount < Len(log) THEN from + Amount ELSE Len(log))
  /\ inStep' = (inStep /\ opened # 0 /\ Range(shown) = {e \in Range(log) : e >= opened})
  /\ UNCHANGED <<server, poller, new, old, loadingRows, from, shown, opened>>

(* The rows are appended, whether the block is the first or not.           *)
AppendRows ==
  /\ block = "answered"
  /\ block' = "none" /\ loadingRows' = "no"
  /\ old' = old \o data
  /\ from' = 0 /\ data' = <<>> /\ shown' = <<>>
  /\ UNCHANGED <<server, poller, new, opened, inStep>>

(* The answer is lost: the flag stays, and no block is asked for any more. *)
LoseBlock ==
  /\ block = "sent"
  /\ block' = "none"
  /\ from' = 0 /\ shown' = <<>>
  /\ UNCHANGED <<server, poller, new, old, loadingRows, data, opened, inStep>>

(* The page is scrolled down.  The row that says "Loading" is appended     *)
(* before the rows are counted.  Mutants: it is counted twice; the last    *)
(* row is not counted.                                                     *)
ScrollFar ==
  /\ loadingRows = "no"
  /\ loadingRows' = "yes"
  /\ block' = "sent" /\ from' = Len(new) + Len(old) + 2
  /\ shown' = new
  /\ UNCHANGED <<server, poller, new, old, data, opened, inStep>>

ScrollNear ==
  /\ loadingRows = "no"
  /\ loadingRows' = "yes"
  /\ block' = "sent" /\ from' = IF old = <<>> THEN 0 ELSE Len(new) + Len(old) - 1
  /\ shown' = new
  /\ UNCHANGED <<server, poller, new, old, data, opened, inStep>>

Scroll ==
  /\ loadingRows = "no"
  /\ loadingRows' = "yes"
  /\ block' = "sent" /\ from' = Len(new) + Len(old) + 1
  /\ shown' = new
  /\ UNCHANGED <<server, poller, new, old, data, opened, inStep>>

-----------------------------------------------------------------------------
Init ==
  /\ cur = 1 /\ log = <<>>
  /\ poll = "timer" /\ head = 0 /\ track = 0
  /\ new = <<>> /\ old = <<>> /\ loadingRows = "closed"
  /\ block = "none" /\ from = 0 /\ data = <<>>
  /\ shown = <<>> /\ opened = 0 /\ inStep = TRUE

Next ==
  \/ AddTrackToPlayHistory \/ Remove
  \/ Poll \/ Current \/ ParseJson \/ LosePoll
  \/ Open \/ Playlist \/ AppendRows \/ LoseBlock \/ Scroll

(* The timer runs out, and what is not lost is answered.                   *)
Fairness == WF_vars(Poll) /\ WF_vars(Current) /\ WF_vars(ParseJson)

Spec == Init /\ [][Next]_vars /\ Fairness

-----------------------------------------------------------------------------
(* Properties.                                                             *)

Plays == Nat \ {0}

TypeOK ==
  /\ cur \in Plays /\ head \in Nat /\ track \in Nat /\ opened \in Nat /\ from \in Nat
  /\ log \in Seq(Plays) /\ new \in Seq(Plays) /\ old \in Seq(Plays)
  /\ data \in Seq(Plays) /\ shown \in Seq(Plays)
  /\ poll \in {"timer", "sent", "answered", "lost"}
  /\ loadingRows \in {"closed", "yes", "no"}
  /\ block \in {"none", "sent", "answered"}
  /\ inStep \in BOOLEAN

Rows == new \o old

(* What the table lists is over: no row is that of the track that plays,   *)
(* unless it is in the history already and about to leave the list.        *)
Over(t) == t < cur \/ (t = cur /\ Ended)

RowsOver == \A i \in DOMAIN Rows : Over(Rows[i])

Descending(rows) == \A i, j \in DOMAIN rows : i < j => rows[i] > rows[j]

(* The rows on top are in order.  While the answers were in step with them *)
(* all rows are: none is listed twice.                                     *)
InOrder ==
  /\ Descending(new)
  /\ inStep => Descending(Rows)

(* Then, down to the last row, the table lacks at most one entry of those  *)
(* that were in the history when it was opened: the one at which the       *)
(* second block should start.                                              *)
OneSkipped ==
  inStep /\ old # <<>> =>
    Cardinality({e \in Range(log) : old[Len(old)] <= e /\ e < opened} \ Range(old)) <= 1

(* The track the page shows gets its row when another follows it, in       *)
(* whatever state the table is, unless the page has stopped polling.       *)
ChangeListed ==
  \A t \in 1..MaxPlays :
    (loadingRows # "closed" /\ track = t /\ cur # t) ~> (t \in Range(new) \/ poll = "lost")
==============================================================================
