------------------------- MODULE TrackHistoryProofs -------------------------
(***************************************************************************)
(* Theorems about TrackHistory, for any length of the history and of the   *)
(* blocks.                                                                 *)
(***************************************************************************)
EXTENDS TrackHistory, FiniteSetTheorems, TLAPS

AllOver(rows) == \A i \in DOMAIN rows : Over(rows[i])

(* What the table is filled from is over as well: the history, and the     *)
(* block on its way.                                                       *)
SourcesOver == AllOver(log) /\ AllOver(new) /\ AllOver(old) /\ AllOver(data)

(* The poller is never ahead, and an answer never behind it.               *)
PollerBehind ==
  /\ track <= cur
  /\ poll = "answered" => track <= head /\ head <= cur

IInv == TypeOK /\ SourcesOver /\ PollerBehind

-----------------------------------------------------------------------------
(* Sequences.                                                              *)

LEMMA ConsPlays ==
  ASSUME NEW t \in Plays, NEW rows \in Seq(Plays)
  PROVE  <<t>> \o rows \in Seq(Plays)
  OBVIOUS

LEMMA ConsOver ==
  ASSUME NEW t, NEW rows \in Seq(Plays), Over(t), AllOver(rows)
  PROVE  AllOver(<<t>> \o rows)
  BY DEF AllOver

LEMMA ConcatOver ==
  ASSUME NEW rows \in Seq(Plays), NEW more \in Seq(Plays), AllOver(rows), AllOver(more)
  PROVE  AllOver(rows \o more)
  BY DEF AllOver

LEMMA SubSeqOver ==
  ASSUME NEW rows \in Seq(Plays), NEW m \in Nat \ {0}, NEW n \in Nat, n <= Len(rows),
         AllOver(rows)
  PROVE  SubSeq(rows, m, n) \in Seq(Plays) /\ AllOver(SubSeq(rows, m, n))
  BY DEF AllOver

(* What is over stays so.                                                  *)
LEMMA OverStays ==
  ASSUME NEW t \in Plays, cur \in Plays, Over(t),
         AddTrackToPlayHistory \/ Remove \/ UNCHANGED server
  PROVE  Over(t)'
  BY DEF Over, Ended, Plays, AddTrackToPlayHistory, Remove, server

LEMMA AllOverStays ==
  ASSUME NEW rows \in Seq(Plays), cur \in Plays, AllOver(rows),
         AddTrackToPlayHistory \/ Remove \/ UNCHANGED server
  PROVE  \A i \in DOMAIN rows : Over(rows[i])'
  BY OverStays DEF AllOver

(* A step keeps the sources over if it changes none of them, ...           *)
LEMMA SourcesStay ==
  ASSUME IInv, AddTrackToPlayHistory \/ Remove \/ UNCHANGED server,
         NEW rows \in {log, new, old, data}
  PROVE  \A i \in DOMAIN rows : Over(rows[i])'
<1>1. rows \in Seq(Plays) /\ cur \in Plays /\ AllOver(rows)
  BY DEF IInv, TypeOK, SourcesOver
<1> QED
  BY <1>1, AllOverStays

-----------------------------------------------------------------------------
(* One lemma for each action.                                              *)

LEMMA AddTrackToPlayHistoryStep ==
  ASSUME IInv, AddTrackToPlayHistory
  PROVE  IInv'
<1>1. log' = <<cur>> \o log /\ UNCHANGED <<cur, poller, table>>
  BY DEF AddTrackToPlayHistory
<1>2. TypeOK'
  BY <1>1 DEF IInv, TypeOK, poller, table
<1>3. AllOver(log)'
  <2>1. Ended' /\ cur' = cur /\ cur \in Nat
    BY <1>1 DEF IInv, TypeOK, Ended, Plays
  <2>2. \A i \in DOMAIN log : log[i] \in Nat /\ log[i] <= cur
    <3>1. \A i \in DOMAIN log : log[i] \in Plays /\ Over(log[i])
      BY DEF IInv, TypeOK, SourcesOver, AllOver
    <3>2. \A t \in Plays : Over(t) => t \in Nat /\ t <= cur
      BY <2>1 DEF Over, Plays
    <3> QED
      BY <3>1, <3>2
  <2>3. \A i \in DOMAIN log' : log'[i] \in Nat /\ log'[i] <= cur
    BY <1>1, <2>1, <2>2 DEF IInv, TypeOK
  <2> QED
    BY <2>1, <2>3 DEF AllOver, Over
<1>4. AllOver(new)' /\ AllOver(old)' /\ AllOver(data)'
  BY <1>1, SourcesStay DEF AllOver, table, Over
<1>5. PollerBehind'
  BY <1>1 DEF IInv, PollerBehind, poller
<1> QED
  BY <1>2, <1>3, <1>4, <1>5 DEF IInv, SourcesOver

LEMMA RemoveStep ==
  ASSUME IInv, Remove
  PROVE  IInv'
<1>1. cur' = cur + 1 /\ UNCHANGED <<log, poller, table>>
  BY DEF Remove
<1>2. TypeOK'
  BY <1>1 DEF IInv, TypeOK, poller, table, Plays
<1>3. SourcesOver'
  BY <1>1, SourcesStay DEF SourcesOver, AllOver, table, Over
<1>4. PollerBehind'
  BY <1>1 DEF IInv, TypeOK, PollerBehind, poller, Plays
<1> QED
  BY <1>2, <1>3, <1>4 DEF IInv

(* Steps that change neither the server nor the rows or the block.         *)
LEMMA OtherStep ==
  ASSUME IInv, Poll \/ Current \/ LosePoll \/ Open \/ LoseBlock \/ Scroll
  PROVE  IInv'
<1>1. UNCHANGED <<server, new, old, data>>
  BY DEF Poll, Current, LosePoll, Open, LoseBlock, Scroll, table
<1>2. TypeOK'
  <2>1. ASSUME Poll PROVE TypeOK'
    BY <2>1 DEF IInv, TypeOK, Poll, server, poller, table
  <2>2. ASSUME Current PROVE TypeOK'
    BY <2>2 DEF IInv, TypeOK, Current, server, poller, table, Plays
  <2>3. ASSUME LosePoll PROVE TypeOK'
    BY <2>3 DEF IInv, TypeOK, LosePoll, server, poller, table
  <2>4. ASSUME Open PROVE TypeOK'
    BY <2>4 DEF IInv, TypeOK, Open, server, poller, table
  <2>5. ASSUME LoseBlock PROVE TypeOK'
    BY <2>5 DEF IInv, TypeOK, LoseBlock, server, poller, table
  <2>6. ASSUME Scroll PROVE TypeOK'
    BY <2>6 DEF IInv, TypeOK, Scroll, server, poller, table
  <2> QED
    BY <2>1, <2>2, <2>3, <2>4, <2>5, <2>6
<1>3. SourcesOver'
  BY <1>1 DEF IInv, SourcesOver, AllOver, Over, Ended, server
<1>4. PollerBehind'
  BY DEF IInv, TypeOK, PollerBehind, Poll, Current, LosePoll, Open, LoseBlock, Scroll, server, poller, Plays
<1> QED
  BY <1>2, <1>3, <1>4 DEF IInv

LEMMA ParseJsonStep ==
  ASSUME IInv, ParseJson
  PROVE  IInv'
<1>1. new' = new \/ (track # 0 /\ head # track /\ new' = <<track>> \o new)
  BY DEF ParseJson
<1>2. UNCHANGED <<server, old, loadingRows, block, from, data, shown, opened, inStep>>
  BY DEF ParseJson
<1>3. poll = "answered" /\ poll' = "timer" /\ track' = head /\ head' = 0
  BY DEF ParseJson
<1>4. new' \in Seq(Plays)
  <2>1. track # 0 => track \in Plays
    BY DEF IInv, TypeOK, Plays
  <2>2. new \in Seq(Plays)
    BY DEF IInv, TypeOK
  <2> QED
    BY <1>1, <2>1, <2>2, ConsPlays
<1>5. TypeOK'
  BY <1>2, <1>3, <1>4 DEF IInv, TypeOK, server
<1>6. AllOver(new')
  <2>1. track # 0 /\ head # track => Over(track)
    BY <1>3 DEF IInv, TypeOK, PollerBehind, Over, Plays
  <2> QED
    BY <1>1, <2>1, ConsOver DEF IInv, TypeOK, SourcesOver
<1>7. SourcesOver'
  BY <1>2, <1>6 DEF IInv, SourcesOver, AllOver, Over, Ended, server
<1>8. PollerBehind'
  BY <1>2, <1>3 DEF IInv, PollerBehind, server
<1> QED
  BY <1>5, <1>7, <1>8 DEF IInv

LEMMA PlaylistStep ==
  ASSUME IInv, Playlist
  PROVE  IInv'
<1>1. PICK n \in Nat : n <= Len(log) /\ data' = SubSeq(log, from + 1, n)
  BY SMTT(30), BoundsAssumption DEF IInv, TypeOK, Playlist
<1>2. data' \in Seq(Plays) /\ AllOver(data')
  BY <1>1, SubSeqOver DEF IInv, TypeOK, SourcesOver
<1>3. UNCHANGED <<server, poller, new, old, loadingRows, from, shown, opened>>
  BY DEF Playlist
<1>4. block' = "answered" /\ inStep' \in BOOLEAN
  BY DEF Playlist
<1>5. TypeOK'
  BY <1>2, <1>3, <1>4 DEF IInv, TypeOK, server, poller
<1>6. SourcesOver'
  BY <1>2, <1>3 DEF IInv, SourcesOver, AllOver, Over, Ended, server
<1>7. PollerBehind'
  BY <1>3 DEF IInv, PollerBehind, server, poller
<1> QED
  BY <1>5, <1>6, <1>7 DEF IInv

LEMMA AppendRowsStep ==
  ASSUME IInv, AppendRows
  PROVE  IInv'
<1>1. old' = old \o data /\ data' = <<>>
  BY DEF AppendRows
<1>2. UNCHANGED <<server, poller, new, opened, inStep>>
  BY DEF AppendRows
<1>3. old' \in Seq(Plays) /\ AllOver(old')
  BY <1>1, ConcatOver DEF IInv, TypeOK, SourcesOver
<1>4. TypeOK'
  BY <1>1, <1>2, <1>3 DEF IInv, TypeOK, AppendRows, server, poller
<1>5. SourcesOver'
  BY <1>1, <1>2, <1>3 DEF IInv, SourcesOver, AllOver, Over, Ended, server
<1>6. PollerBehind'
  BY <1>2 DEF IInv, PollerBehind, server, poller
<1> QED
  BY <1>4, <1>5, <1>6 DEF IInv

-----------------------------------------------------------------------------
LEMMA NextStep ==
  ASSUME IInv, [Next]_vars
  PROVE  IInv'
<1>1. ASSUME UNCHANGED vars PROVE IInv'
  BY <1>1 DEF IInv, TypeOK, SourcesOver, AllOver, Over, Ended, PollerBehind, vars, server, poller, table
<1> QED
  BY <1>1, AddTrackToPlayHistoryStep, RemoveStep, OtherStep, ParseJsonStep, PlaylistStep,
     AppendRowsStep DEF Next

THEOREM Invariance == Spec => []IInv
<1>1. Init => IInv
  BY DEF Init, IInv, TypeOK, SourcesOver, AllOver, PollerBehind, Plays
<1>2. IInv /\ [Next]_vars => IInv'
  BY NextStep
<1> QED
  BY <1>1, <1>2, PTL DEF Spec

(***************************************************************************)
(* The variables keep their types; above all no row is put on top for the  *)
(* track that the poller had before its first answer, which is none.       *)
(***************************************************************************)
THEOREM TypeCorrect == Spec => []TypeOK
<1>1. IInv => TypeOK
  BY DEF IInv
<1> QED
  BY <1>1, Invariance, PTL

(***************************************************************************)
(* Whatever the table lists is over, however the two sources of its rows   *)
(* and the two saves of the server interleave.                             *)
(***************************************************************************)
THEOREM ListedIsOver == Spec => []RowsOver
<1>1. IInv => RowsOver
  BY ConcatOver DEF IInv, TypeOK, SourcesOver, RowsOver, Rows, AllOver
<1> QED
  BY <1>1, Invariance, PTL

-----------------------------------------------------------------------------
(* Where the rows of the blocks are in the history.  The entries below the *)
(* track at which the table was opened are its last K, now and later; of   *)
(* those the j-th row is the j-th, or, after the first s rows, the next.   *)
got == old \o data

Spot(K, s, j) == Len(log) - K + j + (IF j > s THEN 1 ELSE 0)

Placed(K, s) ==
  /\ \A j \in 1..Len(got) : Spot(K, s, j) <= Len(log) /\ got[j] = log[Spot(K, s, j)]
  /\ \A i \in 1..Len(log) : log[i] < opened <=> i > Len(log) - K

(* The first block has been answered.                                      *)
Begun == block = "answered" \/ loadingRows = "no" \/ from # 0 \/ old # <<>>

RowsPlaced ==
  inStep /\ Begun => \E K \in 0..Len(log), s \in 0..Len(got) : Placed(K, s)

(* What is newer comes first, and the rows on top come after the opening.  *)
Ordered ==
  /\ Descending(log) /\ Descending(new) /\ Descending(shown)
  /\ opened <= track
  /\ \A i \in DOMAIN new : opened <= new[i] /\ new[i] < track

(* What the request for a block goes by.                                   *)
BlockAsked ==
  /\ loadingRows = "closed" => new = <<>> /\ old = <<>> /\ block = "none" /\ from = 0
  /\ loadingRows = "no" => block = "none"
  /\ block # "answered" => data = <<>>
  /\ block = "sent" =>
       IF from = 0 THEN old = <<>> /\ shown = <<>>
       ELSE from = Len(shown) + Len(old) + 1

OInv == Ordered /\ BlockAsked /\ RowsPlaced

(* A descending sequence has no value twice: the values of the rows and of *)
(* the newest entries are as many as there are rows and entries.           *)
LEMMA Counted ==
  ASSUME NEW rows \in Seq(Plays), NEW k \in 0..Len(rows), Descending(rows)
  PROVE  /\ IsFiniteSet({rows[i] : i \in 1..k})
         /\ Cardinality({rows[i] : i \in 1..k}) = k
<1> DEFINE R == {rows[i] : i \in 1..k}
           f == [i \in 1..k |-> rows[i]]
<1>1. k \in Nat /\ 1..k \subseteq DOMAIN rows
  OBVIOUS
<1>2. \A i, j \in 1..k : rows[i] = rows[j] => i = j
  BY <1>1 DEF Descending, Plays
<1>3. f \in Bijection(1..k, R)
  BY <1>2 DEF Bijection, Injection, Surjection, IsInjective
<1>4. ExistsBijection(1..k, R)
  BY <1>3 DEF ExistsBijection
<1>5. IsFiniteSet(1..k) /\ Cardinality(1..k) = k
  BY <1>1, FS_Interval
<1> QED
  BY <1>4, <1>5, FS_Bijection

LEMMA SameLength ==
  ASSUME NEW rows \in Seq(Plays), NEW more \in Seq(Plays), NEW k \in 0..Len(more),
         Descending(rows), Descending(more), Range(rows) = {more[i] : i \in 1..k}
  PROVE  Len(rows) = k
<1>1. Range(rows) = {rows[i] : i \in 1..Len(rows)}
  BY DEF Range
<1>2. Len(rows) \in 0..Len(rows)
  OBVIOUS
<1> QED
  BY <1>1, <1>2, Counted

-----------------------------------------------------------------------------
LEMMA AddTrackToPlayHistoryOrders ==
  ASSUME IInv, OInv, AddTrackToPlayHistory
  PROVE  OInv'
<1>1. log' = <<cur>> \o log /\ ~Ended /\ UNCHANGED <<cur, poller, table>>
  BY DEF AddTrackToPlayHistory
<1>2. cur \in Plays /\ log \in Seq(Plays) /\ opened \in Nat /\ opened <= cur
  BY DEF IInv, TypeOK, PollerBehind, OInv, Ordered, Plays
<1>3. /\ Len(log') = Len(log) + 1 /\ log'[1] = cur
      /\ \A i \in 1..Len(log) : log'[i + 1] = log[i]
  BY <1>1, <1>2
<1>4. \A i \in DOMAIN log : log[i] \in Plays /\ log[i] < cur
  BY <1>1, <1>2 DEF IInv, SourcesOver, AllOver, Over
<1>5. Descending(log')
  <2>1. Descending(log)
    BY DEF OInv, Ordered
  <2>2. \A i \in DOMAIN log' : i # 1 => i - 1 \in DOMAIN log /\ log'[i] = log[i - 1]
    BY <1>1, <1>2
  <2> QED
    BY SMTT(30), <1>2, <1>3, <1>4, <2>1, <2>2 DEF Descending, Plays
<1>6. Ordered' /\ BlockAsked'
  BY <1>1, <1>5 DEF OInv, Ordered, BlockAsked, Descending, poller, table
<1>7. RowsPlaced'
  <2>1. SUFFICES ASSUME inStep, Begun
                 PROVE  \E K \in 0..Len(log'), s \in 0..Len(got') : Placed(K, s)'
    BY <1>1 DEF RowsPlaced, Begun, table
  <2>2. PICK K \in 0..Len(log), s \in 0..Len(got) : Placed(K, s)
    BY <2>1 DEF OInv, RowsPlaced
  <2>3. got' = got /\ opened' = opened /\ got \in Seq(Plays)
    BY <1>1 DEF got, table, IInv, TypeOK
  <2>4. K \in 0..Len(log')
    BY <1>2, <1>3
  <2>5. \A j \in 1..Len(got) : Spot(K, s, j)' <= Len(log') /\ got[j] = log'[Spot(K, s, j)']
    <3>1. SUFFICES ASSUME NEW j \in 1..Len(got)
                   PROVE  Spot(K, s, j)' <= Len(log') /\ got[j] = log'[Spot(K, s, j)']
      OBVIOUS
    <3>2. Spot(K, s, j)' = Spot(K, s, j) + 1 /\ Spot(K, s, j) \in Int /\ Spot(K, s, j) >= 1
      BY <1>2, <1>3, <2>3 DEF Spot
    <3>3. Spot(K, s, j) <= Len(log) /\ got[j] = log[Spot(K, s, j)]
      BY <2>2 DEF Placed
    <3> QED
      BY <1>2, <1>3, <3>2, <3>3
  <2>6. \A i \in 1..Len(log') : log'[i] < opened <=> i > Len(log') - K
    <3>1. SUFFICES ASSUME NEW i \in 1..Len(log')
                   PROVE  log'[i] < opened <=> i > Len(log') - K
      OBVIOUS
    <3>2. CASE i = 1
      BY <1>2, <1>3, <3>2 DEF Plays
    <3>3. CASE i # 1
      <4>1. i - 1 \in 1..Len(log) /\ log'[i] = log[i - 1]
        BY <1>1, <1>2, <1>3, <3>3
      <4>2. log[i - 1] < opened <=> i - 1 > Len(log) - K
        BY <4>1, <2>2 DEF Placed
      <4> QED
        BY <1>2, <1>3, <4>1, <4>2
    <3> QED
      BY <3>2, <3>3
  <2>7. Placed(K, s)'
    BY <2>3, <2>5, <2>6 DEF Placed
  <2> QED
    BY <2>3, <2>4, <2>7
<1> QED
  BY <1>6, <1>7 DEF OInv

(* Steps that change neither the history nor the rows.                     *)
LEMMA PlacedStays ==
  ASSUME RowsPlaced, UNCHANGED <<log, old, data, opened, inStep>>, Begun' => Begun
  PROVE  RowsPlaced'
  BY DEF RowsPlaced, Placed, Spot, got

LEMMA OpenOrders ==
  ASSUME IInv, OInv, Open
  PROVE  OInv'
<1>1. /\ loadingRows = "closed" /\ loadingRows' = "yes" /\ block' = "sent" /\ from' = 0
      /\ shown' = new /\ opened' = track
      /\ UNCHANGED <<log, track, new, old, data>>
  BY DEF Open, server, poller
<1>2. new = <<>> /\ old = <<>> /\ data = <<>>
  BY <1>1 DEF OInv, BlockAsked
<1>3. Ordered'
  BY <1>1, <1>2 DEF IInv, TypeOK, OInv, Ordered, Descending
<1>4. BlockAsked'
  BY <1>1, <1>2 DEF BlockAsked
<1>5. RowsPlaced'
  BY <1>1, <1>2 DEF RowsPlaced, Begun
<1> QED
  BY <1>3, <1>4, <1>5 DEF OInv

LEMMA ScrollOrders ==
  ASSUME IInv, OInv, Scroll
  PROVE  OInv'
<1>1. /\ loadingRows = "no" /\ loadingRows' = "yes"
      /\ block' = "sent" /\ from' = Len(new) + Len(old) + 1 /\ shown' = new
      /\ UNCHANGED <<log, track, new, old, data, opened, inStep>>
  BY DEF Scroll, server, poller
<1>2. data = <<>> /\ Len(new) \in Nat /\ Len(old) \in Nat
  BY <1>1 DEF IInv, TypeOK, OInv, BlockAsked
<1>3. Ordered'
  BY <1>1 DEF OInv, Ordered, Descending
<1>4. BlockAsked'
  BY <1>1, <1>2 DEF BlockAsked
<1>5. RowsPlaced'
  BY <1>1, PlacedStays DEF OInv, Begun
<1> QED
  BY <1>3, <1>4, <1>5 DEF OInv

LEMMA LoseBlockOrders ==
  ASSUME IInv, OInv, LoseBlock
  PROVE  OInv'
<1>1. /\ block = "sent" /\ block' = "none" /\ from' = 0 /\ shown' = <<>>
      /\ UNCHANGED <<log, track, new, old, loadingRows, data, opened, inStep>>
  BY DEF LoseBlock, server, poller
<1>2. Ordered'
  BY <1>1 DEF OInv, Ordered, Descending
<1>3. BlockAsked'
  BY <1>1 DEF OInv, BlockAsked
<1>4. RowsPlaced'
  BY <1>1, PlacedStays DEF OInv, Begun
<1> QED
  BY <1>2, <1>3, <1>4 DEF OInv

LEMMA ParseJsonOrders ==
  ASSUME IInv, OInv, ParseJson
  PROVE  OInv'
<1>1. \/ new' = new
      \/ loadingRows # "closed" /\ track # 0 /\ head # track /\ new' = <<track>> \o new
  BY DEF ParseJson
<1>2. UNCHANGED <<log, old, loadingRows, block, from, data, shown, opened, inStep>>
  BY DEF ParseJson, server
<1>3. track' = head /\ track <= head /\ track \in Nat /\ head \in Nat /\ opened \in Nat
  BY DEF ParseJson, IInv, TypeOK, PollerBehind
<1>4. new \in Seq(Plays)
  BY DEF IInv, TypeOK
<1>5. Ordered'
  <2>1. Descending(new) /\ opened <= track
    BY DEF OInv, Ordered
  <2>2. \A i \in DOMAIN new : new[i] \in Nat /\ opened <= new[i] /\ new[i] < track
    BY <1>4 DEF OInv, Ordered, Plays
  <2>3. CASE new' = new
    BY <1>2, <1>3, <2>1, <2>2, <2>3 DEF OInv, Ordered, Descending
  <2>4. CASE head # track /\ new' = <<track>> \o new
    <3>1. /\ DOMAIN new' = 1..(Len(new) + 1) /\ new'[1] = track
          /\ \A i \in DOMAIN new' : i # 1 => i - 1 \in DOMAIN new /\ new'[i] = new[i - 1]
      BY <1>4, <2>4
    <3>2. \A i \in DOMAIN new' : opened <= new'[i] /\ new'[i] < head
      BY <1>3, <2>1, <2>2, <2>4, <3>1
    <3>3. Descending(new')
      BY <1>3, <2>1, <2>2, <3>1 DEF Descending
    <3> QED
      BY <1>2, <1>3, <2>1, <3>2, <3>3 DEF OInv, Ordered, Descending
  <2> QED
    BY <1>1, <2>3, <2>4
<1>6. BlockAsked'
  BY <1>1, <1>2 DEF OInv, BlockAsked
<1>7. RowsPlaced'
  BY <1>2, PlacedStays DEF OInv, Begun
<1> QED
  BY <1>5, <1>6, <1>7 DEF OInv

(* The poller's requests and the end of a track leave the table alone.     *)
LEMMA PollerOrders ==
  ASSUME OInv, Poll \/ Current \/ LosePoll \/ Remove \/ UNCHANGED vars
  PROVE  OInv'
<1>1. UNCHANGED <<log, track, table>>
  BY DEF Poll, Current, LosePoll, Remove, server, poller, vars
<1>2. Ordered' /\ BlockAsked'
  BY <1>1 DEF OInv, Ordered, BlockAsked, Descending, table
<1>3. RowsPlaced'
  BY <1>1, PlacedStays DEF OInv, Begun, table
<1> QED
  BY <1>2, <1>3 DEF OInv

LEMMA AppendRowsOrders ==
  ASSUME IInv, OInv, AppendRows
  PROVE  OInv'
<1>1. /\ block = "answered" /\ block' = "none" /\ loadingRows' = "no" /\ from' = 0
      /\ old' = old \o data /\ data' = <<>> /\ shown' = <<>>
      /\ UNCHANGED <<log, track, new, opened, inStep>>
  BY DEF AppendRows, server, poller
<1>2. got' = got
  BY <1>1 DEF IInv, TypeOK, got
<1>3. Ordered'
  BY <1>1 DEF OInv, Ordered, Descending
<1>4. BlockAsked'
  BY <1>1 DEF OInv, BlockAsked
<1>5. RowsPlaced'
  BY <1>1, <1>2 DEF OInv, RowsPlaced, Begun, Placed, Spot
<1> QED
  BY <1>3, <1>4, <1>5 DEF OInv

(* The rows a block brings follow those there are, one entry after them.   *)
LEMMA PlaylistOrders ==
  ASSUME IInv, OInv, Playlist
  PROVE  OInv'
<1>1. /\ block = "sent" /\ block' = "answered"
      /\ UNCHANGED <<log, track, new, old, loadingRows, from, shown, opened>>
  BY DEF Playlist, server, poller
<1>2. PICK n \in Nat : n <= Len(log) /\ data' = SubSeq(log, from + 1, n)
  BY SMTT(30), BoundsAssumption DEF IInv, TypeOK, Playlist
<1>3. /\ inStep' => inStep /\ Range(shown) = {e \in Range(log) : e >= opened}
  BY DEF Playlist
<1>4. /\ log \in Seq(Plays) /\ shown \in Seq(Plays) /\ old \in Seq(Plays)
      /\ from \in Nat /\ opened \in Nat /\ data = <<>>
  BY <1>1 DEF IInv, TypeOK, OInv, BlockAsked
<1>5. Ordered' /\ BlockAsked'
  BY <1>1 DEF OInv, Ordered, BlockAsked, Descending
<1>6. /\ data' \in Seq(Plays) /\ Len(data') = IF from < n THEN n - from ELSE 0
      /\ \A j \in 1..Len(data') : data'[j] = log[from + j]
  BY <1>2, <1>4
<1>7. got' = old \o data' /\ got' \in Seq(Plays) /\ Len(got') = Len(old) + Len(data')
  <2>1. got' = old \o data'
    BY <1>1 DEF got
  <2>2. old \in Seq(Plays) /\ data' \in Seq(Plays)
    BY <1>4, <1>6
  <2> QED
    BY <2>1, <2>2
<1>8. CASE from = 0
  <2>1. old = <<>> /\ shown = <<>>
    BY <1>1, <1>8 DEF OInv, BlockAsked
  <2>2. got' = data'
    BY <1>7, <1>6, <2>1
  <2>3. SUFFICES ASSUME inStep'
                 PROVE  \E K \in 0..Len(log'), s \in 0..Len(got') : Placed(K, s)'
    BY <1>5 DEF OInv, RowsPlaced
  <2>4. PICK K \in Nat, s \in Nat : K = Len(log) /\ s = Len(got')
    BY <1>4, <1>7
  <2>5. \A i \in 1..Len(log) : log[i] < opened
    BY <1>3, <1>4, <2>1, <2>3 DEF Range, Plays
  <2>6. \A j \in 1..Len(got') : Spot(K, s, j)' = j
    BY <1>1, <1>4, <2>4 DEF Spot
  <2>7. \A j \in 1..Len(got') : j <= Len(log) /\ got'[j] = log[j]
    BY <1>2, <1>4, <1>6, <1>8, <2>2
  <2>8. Placed(K, s)'
    BY <1>1, <1>4, <2>4, <2>5, <2>6, <2>7 DEF Placed
  <2> QED
    BY <1>1, <2>4, <2>8
<1>9. CASE from # 0
  <2>1. SUFFICES ASSUME inStep'
                 PROVE  \E K \in 0..Len(log'), s \in 0..Len(got') : Placed(K, s)'
    BY <1>5 DEF OInv, RowsPlaced
  <2>2. PICK K \in 0..Len(log), s \in 0..Len(got) : Placed(K, s)
    BY <1>3, <1>9, <2>1 DEF OInv, RowsPlaced, Begun
  <2>3. got = old
    BY <1>4 DEF got
  <2>4. Len(shown) = Len(log) - K
    <3>1. Len(log) - K \in 0..Len(log)
      BY <1>4
    <3>2. Range(shown) = {log[i] : i \in 1..(Len(log) - K)}
      <4>1. \A i \in 1..Len(log) : log[i] \in Nat /\ (log[i] >= opened <=> i <= Len(log) - K)
        <5>1. \A i \in 1..Len(log) : log[i] \in Nat
          BY <1>4 DEF Plays
        <5>2. \A i \in 1..Len(log) : log[i] < opened <=> i > Len(log) - K
          BY <2>2 DEF Placed
        <5>3. opened \in Nat /\ Len(log) \in Nat /\ K \in Nat
          BY <1>4
        <5> QED
          BY <5>1, <5>2, <5>3
      <4>2. \A e : e \in Range(shown) <=> \E i \in 1..Len(log) : e = log[i] /\ log[i] >= opened
        <5>1. Range(shown) = {e \in Range(log) : e >= opened}
          BY ONLY <1>3, <2>1
        <5>2. Range(log) = {log[i] : i \in 1..Len(log)}
          BY ONLY <1>4 DEF Range
        <5> QED
          BY ONLY <5>1, <5>2
      <4>3. \A i : i \in 1..(Len(log) - K) <=> i \in 1..Len(log) /\ i <= Len(log) - K
        BY <1>4, <3>1
      <4> QED
        BY <4>1, <4>2, <4>3
    <3> QED
      BY <1>4, <3>1, <3>2, SameLength DEF OInv, Ordered
  <2>5. from = Len(log) - K + Len(old) + 1
    BY <1>1, <1>9, <2>4 DEF OInv, BlockAsked
  <2>6. \A j \in 1..Len(got') :
           Spot(K, s, j)' <= Len(log') /\ got'[j] = log'[Spot(K, s, j)']
    <3>1. SUFFICES ASSUME NEW j \in 1..Len(got')
                   PROVE  Spot(K, s, j)' <= Len(log') /\ got'[j] = log'[Spot(K, s, j)']
      OBVIOUS
    <3>2. log' = log /\ Spot(K, s, j)' = Spot(K, s, j)
      BY <1>1 DEF Spot
    <3>3. CASE j <= Len(old)
      <4>1. j \in 1..Len(got) /\ got'[j] = got[j]
        BY <1>4, <1>6, <1>7, <2>3, <3>3
      <4> QED
        BY <2>2, <3>2, <4>1 DEF Placed
    <3>4. CASE j > Len(old)
      <4>1. Spot(K, s, j) = from + (j - Len(old))
        BY SMTT(30), <1>4, <2>3, <2>5, <3>4 DEF Spot
      <4>2. j - Len(old) \in 1..Len(data') /\ got'[j] = data'[j - Len(old)]
        BY <1>4, <1>6, <1>7, <3>4
      <4> QED
        BY <1>2, <1>4, <1>6, <3>2, <4>1, <4>2
    <3> QED
      BY <1>4, <3>3, <3>4
  <2>7. Placed(K, s)'
    BY <1>1, <2>2, <2>6 DEF Placed
  <2> QED
    BY <1>1, <1>4, <1>6, <1>7, <2>3, <2>7
<1> QED
  BY <1>8, <1>9

-----------------------------------------------------------------------------
LEMMA OrderInvariance == Spec => []OInv
<1>1. Init => OInv
  BY DEF Init, OInv, Ordered, BlockAsked, RowsPlaced, Begun, Descending
<1>2. IInv /\ OInv /\ [Next]_vars => OInv'
  BY AddTrackToPlayHistoryOrders, OpenOrders, ScrollOrders, LoseBlockOrders, ParseJsonOrders,
     PollerOrders, AppendRowsOrders, PlaylistOrders DEF Next
<1> QED
  BY <1>1, <1>2, Invariance, PTL DEF Spec

LEMMA Spots ==
  ASSUME TypeOK, NEW K \in 0..Len(log), NEW s \in Nat, NEW j \in 1..Len(old), Placed(K, s)
  PROVE  /\ Spot(K, s, j) \in 1..Len(log) /\ Spot(K, s, j) > Len(log) - K
         /\ old[j] = log[Spot(K, s, j)]
<1>1. /\ log \in Seq(Plays) /\ old \in Seq(Plays) /\ data \in Seq(Plays)
  BY DEF TypeOK
<1>2. j \in 1..Len(got) /\ got[j] = old[j]
  BY <1>1 DEF got
<1>3. Spot(K, s, j) <= Len(log) /\ got[j] = log[Spot(K, s, j)]
  BY <1>2 DEF Placed
<1> QED
  BY <1>1, <1>2, <1>3 DEF Spot

(***************************************************************************)
(* The rows are in order and none is listed twice, while the answers are   *)
(* in step with the rows on top.                                           *)
(***************************************************************************)
THEOREM RowsInOrder == Spec => []InOrder
<1>1. ASSUME IInv, OInv PROVE InOrder
  <2>1. Descending(new) /\ Descending(log)
    BY <1>1 DEF OInv, Ordered
  <2>2. /\ log \in Seq(Plays) /\ new \in Seq(Plays) /\ old \in Seq(Plays) /\ opened \in Nat
    BY <1>1 DEF IInv, TypeOK
  <2>3. ASSUME inStep, old = <<>> PROVE Descending(Rows)
    BY <2>1, <2>2, <2>3 DEF Rows
  <2>4. ASSUME inStep, old # <<>> PROVE Descending(Rows)
    <3>1. PICK K \in 0..Len(log), s \in 0..Len(got) : Placed(K, s)
      BY <1>1, <2>4 DEF OInv, RowsPlaced, Begun
    <3>2. s \in Nat /\ TypeOK
      BY <1>1 DEF IInv
    <3>3. \A j \in 1..Len(old) :
             /\ Spot(K, s, j) \in 1..Len(log) /\ Spot(K, s, j) > Len(log) - K
             /\ old[j] = log[Spot(K, s, j)]
      BY <3>1, <3>2, Spots
    <3>4. \A j \in 1..Len(old) : old[j] < opened
      BY <3>1, <3>3 DEF Placed
    <3>5. \A i, j \in 1..Len(old) : i < j => old[i] > old[j]
      <4>1. \A i, j \in 1..Len(old) : i < j => Spot(K, s, i) < Spot(K, s, j)
        BY <2>2, <3>1, <3>2 DEF Spot
      <4> QED
        BY SMTT(30), <2>1, <2>2, <3>3, <4>1 DEF Descending
    <3>6. \A i \in DOMAIN new : opened <= new[i] /\ new[i] \in Nat
      BY <1>1, <2>2 DEF OInv, Ordered, Plays
    <3>7. /\ DOMAIN Rows = 1..(Len(new) + Len(old))
          /\ \A i \in 1..Len(new) : Rows[i] = new[i]
          /\ \A i \in DOMAIN Rows : i > Len(new) =>
               i - Len(new) \in 1..Len(old) /\ Rows[i] = old[i - Len(new)]
      BY <2>2 DEF Rows
    <3>8. SUFFICES ASSUME NEW i \in DOMAIN Rows, NEW j \in DOMAIN Rows, i < j
                   PROVE  Rows[i] > Rows[j]
      BY DEF Descending
    <3>9. CASE j <= Len(new)
      BY <2>1, <2>2, <3>7, <3>8, <3>9 DEF Descending
    <3>10. CASE i <= Len(new) /\ j > Len(new)
      <4>1. Rows[i] = new[i] /\ new[i] \in Nat /\ opened <= new[i]
        BY <2>2, <3>6, <3>7, <3>10
      <4>2. Rows[j] < opened /\ Rows[j] \in Nat
        <5>1. j - Len(new) \in 1..Len(old) /\ Rows[j] = old[j - Len(new)]
          BY <3>7, <3>10
        <5> QED
          BY <2>2, <3>4, <5>1 DEF Plays
      <4> QED
        BY <2>2, <4>1, <4>2
    <3>11. CASE i > Len(new)
      BY <2>2, <3>5, <3>7, <3>8, <3>11
    <3> QED
      BY <2>2, <3>7, <3>8, <3>9, <3>10, <3>11
  <2> QED
    BY <2>1, <2>3, <2>4 DEF InOrder
<1> QED
  BY <1>1, Invariance, OrderInvariance, PTL

(***************************************************************************)
(* The "Loading" row that is counted costs one entry of the history in     *)
(* all, however many blocks are fetched.                                   *)
(***************************************************************************)
THEOREM OneEntrySkipped == Spec => []OneSkipped
<1>1. ASSUME IInv, OInv, inStep, old # <<>>
      PROVE  Cardinality({e \in Range(log) : old[Len(old)] <= e /\ e < opened} \ Range(old)) <= 1
  <2> DEFINE D == {e \in Range(log) : old[Len(old)] <= e /\ e < opened} \ Range(old)
  <2>1. /\ log \in Seq(Plays) /\ old \in Seq(Plays) /\ opened \in Nat /\ Descending(log)
    BY <1>1 DEF IInv, TypeOK, OInv, Ordered
  <2>2. PICK K \in 0..Len(log), s \in 0..Len(got) : Placed(K, s)
    BY <1>1 DEF OInv, RowsPlaced, Begun
  <2>3. s \in Nat /\ TypeOK
    BY <1>1 DEF IInv
  <2>4. \A j \in 1..Len(old) :
           Spot(K, s, j) \in 1..Len(log) /\ old[j] = log[Spot(K, s, j)]
    BY <2>2, <2>3, Spots
  <2>5. Len(old) \in 1..Len(old)
    BY <1>1, <2>1
  <2>6. ASSUME NEW e \in D PROVE e = log[Len(log) - K + s + 1]
    <3>1. PICK i \in 1..Len(log) : e = log[i]
      BY <2>1 DEF Range
    <3>2. i > Len(log) - K
      BY <2>2, <3>1 DEF Placed
    <3>3. i <= Spot(K, s, Len(old))
      <4>1. log[Spot(K, s, Len(old))] <= log[i] /\ Spot(K, s, Len(old)) \in 1..Len(log)
        <5>1. old[Len(old)] <= e
          OBVIOUS
        <5> QED
          BY <2>4, <2>5, <3>1, <5>1
      <4>2. \A a, b \in 1..Len(log) : log[a] \in Nat /\ (a < b => log[a] > log[b])
        BY <2>1 DEF Descending, Plays
      <4> QED
        BY <4>1, <4>2
    <3>4. \A j \in 1..Len(old) : i # Spot(K, s, j)
      BY <2>1, <2>4, <3>1 DEF Range
    <3> DEFINE m == i - (Len(log) - K)
    <3>5. m \in Nat /\ m >= 1 /\ m <= Len(old) + (IF Len(old) > s THEN 1 ELSE 0)
      BY <2>1, <2>3, <3>2, <3>3 DEF Spot
    <3>6. ~(m <= s)
      <4>1. ASSUME m <= s PROVE m \in 1..Len(old) /\ Spot(K, s, m) = i
        BY <2>1, <2>3, <3>5, <4>1 DEF Spot
      <4> QED
        BY <3>4, <4>1
    <3>7. ~(m > s + 1)
      <4>1. ASSUME m > s + 1 PROVE m - 1 \in 1..Len(old) /\ Spot(K, s, m - 1) = i
        BY SMTT(30), <2>1, <2>3, <3>5, <4>1 DEF Spot
      <4> QED
        BY <3>4, <4>1
    <3> QED
      BY <2>1, <2>3, <3>1, <3>5, <3>6, <3>7
  <2>7. D \in SUBSET {log[Len(log) - K + s + 1]}
    BY <2>6
  <2> HIDE DEF D
  <2>8. Cardinality(D) <= 1
    <3>1. PICK x : D \in SUBSET {x}
      BY <2>7
    <3>2. IsFiniteSet({x}) /\ Cardinality({x}) = 1
      BY FS_Singleton
    <3> QED
      BY <3>1, <3>2, FS_Subset
  <2> QED
    BY <2>8 DEF D
<1>2. IInv /\ OInv => OneSkipped
  BY <1>1 DEF OneSkipped
<1> QED
  BY <1>2, Invariance, OrderInvariance, PTL
=============================================================================
