-------------------------- MODULE FavouritesProofs ---------------------------
(***************************************************************************)
(* Theorems about Favourites, for any number of tracks and of requests     *)
(* under way.                                                              *)
(***************************************************************************)
EXTENDS Favourites, FiniteSetTheorems, TLAPS

-----------------------------------------------------------------------------
(* Occurrences in lists.                                                   *)

Places(s, t) == {i \in DOMAIN s : s[i] = t}

LEMMA OccurrencesCount ==
  ASSUME NEW s \in Seq(Tracks), NEW t
  PROVE  /\ IsFiniteSet(Places(s, t)) /\ Occurrences(s, t) = Cardinality(Places(s, t))
         /\ Occurrences(s, t) \in Nat
         /\ Occurrences(s, t) > 0 <=> \E i \in DOMAIN s : s[i] = t
<1>1. IsFiniteSet(1..Len(s)) /\ Places(s, t) \in SUBSET (1..Len(s))
  BY FS_Interval DEF Places
<1>2. IsFiniteSet(Places(s, t))
  BY <1>1, FS_Subset
<1>3. Occurrences(s, t) = Cardinality(Places(s, t))
  BY DEF Occurrences, Places
<1>4. Occurrences(s, t) \in Nat /\ (Occurrences(s, t) = 0 <=> Places(s, t) = {})
  BY <1>2, <1>3, FS_EmptySet, FS_CardinalityType
<1>5. Places(s, t) = {} <=> ~ \E i \in DOMAIN s : s[i] = t
  BY DEF Places
<1> QED
  BY <1>2, <1>3, <1>4, <1>5

(* A track that is there once is at one place.                             *)
LEMMA OnceAtOnePlace ==
  ASSUME NEW s \in Seq(Tracks), NEW t, Occurrences(s, t) <= 1,
         NEW i \in DOMAIN s, NEW j \in DOMAIN s, s[i] = t, s[j] = t
  PROVE  i = j
<1>1. IsFiniteSet(Places(s, t)) /\ Cardinality(Places(s, t)) \in Nat /\ Cardinality(Places(s, t)) <= 1
  BY OccurrencesCount
<1>2. i \in Places(s, t) /\ j \in Places(s, t)
  BY DEF Places
<1>3. Cardinality(Places(s, t)) # 0
  BY <1>1, <1>2, FS_EmptySet
<1>4. Cardinality(Places(s, t)) = 1
  BY <1>1, <1>3
<1>5. PICK x : Places(s, t) = {x}
  BY <1>1, <1>4, FS_Singleton
<1> QED
  BY <1>2, <1>5

LEMMA OccurrencesAppend ==
  ASSUME NEW s \in Seq(Tracks), NEW u \in Tracks, NEW t
  PROVE  /\ Append(s, u) \in Seq(Tracks)
         /\ Occurrences(Append(s, u), t) = Occurrences(s, t) + (IF u = t THEN 1 ELSE 0)
<1>1. Append(s, u) \in Seq(Tracks) /\ Len(s) \in Nat
  OBVIOUS
<1>2. DOMAIN Append(s, u) = DOMAIN s \union {Len(s) + 1} /\ Len(s) + 1 \notin DOMAIN s
  OBVIOUS
<1>3. Append(s, u)[Len(s) + 1] = u /\ \A i \in DOMAIN s : Append(s, u)[i] = s[i]
  OBVIOUS
<1>4. Places(Append(s, u), t) = IF u = t THEN Places(s, t) \union {Len(s) + 1} ELSE Places(s, t)
  BY <1>2, <1>3 DEF Places
<1>5. Len(s) + 1 \notin Places(s, t)
  BY <1>2 DEF Places
<1>6. IsFiniteSet(Places(s, t)) /\ Cardinality(Places(s, t)) \in Nat
      /\ Occurrences(s, t) = Cardinality(Places(s, t))
  BY OccurrencesCount
<1>7. Cardinality(Places(s, t) \union {Len(s) + 1}) = Cardinality(Places(s, t)) + 1
  BY <1>5, <1>6, FS_AddElement
<1>8. Occurrences(Append(s, u), t) = Cardinality(Places(Append(s, u), t))
  BY <1>1, OccurrencesCount
<1> QED
  BY <1>1, <1>4, <1>6, <1>7, <1>8

LEMMA OccurrencesRemove ==
  ASSUME NEW s \in Seq(Tracks), NEW i \in DOMAIN s, NEW t
  PROVE  /\ RemoveAt(s, i) \in Seq(Tracks)
         /\ Occurrences(RemoveAt(s, i), t) = Occurrences(s, t) - (IF s[i] = t THEN 1 ELSE 0)
<1> DEFINE r == RemoveAt(s, i)
<1>1. /\ r \in Seq(Tracks) /\ Len(r) = Len(s) - 1
      /\ \A j \in 1..Len(r) : r[j] = IF j < i THEN s[j] ELSE s[j + 1]
  <2>1. i \in 1..Len(s) /\ Len(s) \in Nat
    OBVIOUS
  <2>2. /\ SubSeq(s, 1, i - 1) \in Seq(Tracks) /\ Len(SubSeq(s, 1, i - 1)) = i - 1
        /\ \A j \in 1..(i - 1) : SubSeq(s, 1, i - 1)[j] = s[j]
    BY <2>1
  <2>3. /\ SubSeq(s, i + 1, Len(s)) \in Seq(Tracks) /\ Len(SubSeq(s, i + 1, Len(s))) = Len(s) - i
        /\ \A j \in 1..(Len(s) - i) : SubSeq(s, i + 1, Len(s))[j] = s[j + i]
    BY <2>1
  <2>4. r = SubSeq(s, 1, i - 1) \o SubSeq(s, i + 1, Len(s))
    BY ZenonT(20) DEF RemoveAt
  <2> DEFINE front == SubSeq(s, 1, i - 1)
             back == SubSeq(s, i + 1, Len(s))
  <2>5. front \in Seq(Tracks) /\ back \in Seq(Tracks) /\ r = front \o back
    BY <2>2, <2>3, <2>4
  <2>6. Len(front) = i - 1 /\ Len(back) = Len(s) - i
    BY <2>2, <2>3
  <2>7. \A j \in 1..(i - 1) : front[j] = s[j]
    BY <2>2
  <2>8. \A j \in 1..(Len(s) - i) : back[j] = s[j + i]
    BY <2>3
  <2> HIDE DEF r, front, back
  <2>9. r \in Seq(Tracks) /\ Len(r) = Len(s) - 1
    BY <2>1, <2>5, <2>6
  <2>10. \A j \in 1..Len(r) :
            r[j] = IF j <= Len(front) THEN front[j] ELSE back[j - Len(front)]
    BY <2>5
  <2>11. ASSUME NEW j \in 1..Len(r), j < i PROVE r[j] = s[j]
    <3>1. j \in 1..(i - 1) /\ j <= Len(front)
      BY <2>1, <2>6, <2>9, <2>11
    <3> QED
      BY <2>7, <2>10, <3>1
  <2>12. ASSUME NEW j \in 1..Len(r), ~ (j < i) PROVE r[j] = s[j + 1]
    <3>1. /\ j - Len(front) \in 1..(Len(s) - i) /\ ~ (j <= Len(front))
          /\ (j - Len(front)) + i = j + 1
      BY <2>1, <2>6, <2>9, <2>12
    <3>2. r[j] = back[j - Len(front)]
      BY <2>10, <3>1
    <3>3. back[j - Len(front)] = s[(j - Len(front)) + i]
      BY <2>8, <3>1
    <3> QED
      BY <3>1, <3>2, <3>3
  <2> QED
    BY <2>9, <2>11, <2>12
<1> HIDE DEF r
<1> DEFINE S == Places(s, t) \ {i}
           f == [j \in Places(r, t) |-> IF j < i THEN j ELSE j + 1]
<1>2. i \in 1..Len(s) /\ Len(s) \in Nat
  OBVIOUS
<1>3. Places(r, t) = {j \in 1..Len(r) : r[j] = t} /\ Places(s, t) = {j \in 1..Len(s) : s[j] = t}
  BY <1>1 DEF Places
<1>4. f \in [Places(r, t) -> S]
  <2>1. ASSUME NEW j \in Places(r, t) PROVE (IF j < i THEN j ELSE j + 1) \in S
    BY <1>1, <1>2, <1>3, <2>1
  <2> QED
    BY <2>1
<1>5. \A j, k \in Places(r, t) : f[j] = f[k] => j = k
  BY <1>1, <1>2, <1>3
<1>6. \A k \in S : \E j \in Places(r, t) : f[j] = k
  <2>1. SUFFICES ASSUME NEW k \in S PROVE \E j \in Places(r, t) : f[j] = k
    OBVIOUS
  <2>2. k \in 1..Len(s) /\ s[k] = t /\ k # i
    BY <1>3
  <2>3. CASE k < i
    <3>1. k \in Places(r, t)
      BY <1>1, <1>2, <1>3, <2>2, <2>3
    <3>2. f[k] = k
      BY <2>3, <3>1
    <3> QED
      BY <3>1, <3>2
  <2>4. CASE k > i
    <3>1. k - 1 \in Places(r, t)
      BY <1>1, <1>2, <1>3, <2>2, <2>4
    <3>2. f[k - 1] = k
      BY <1>2, <2>2, <2>4, <3>1
    <3> QED
      BY <3>1, <3>2
  <2> QED
    BY <1>2, <2>2, <2>3, <2>4
<1>7. ExistsBijection(Places(r, t), S)
  <2>1. f \in Injection(Places(r, t), S)
    BY <1>4, <1>5 DEF Injection, IsInjective
  <2>2. f \in Surjection(Places(r, t), S)
    BY <1>4, <1>6 DEF Surjection
  <2> QED
    BY <2>1, <2>2 DEF ExistsBijection, Bijection
<1>8. /\ IsFiniteSet(Places(s, t)) /\ Cardinality(Places(s, t)) \in Nat
      /\ Occurrences(s, t) = Cardinality(Places(s, t))
      /\ IsFiniteSet(Places(r, t)) /\ Occurrences(r, t) = Cardinality(Places(r, t))
  BY <1>1, OccurrencesCount
<1>9. Cardinality(S) = Cardinality(Places(s, t)) - (IF s[i] = t THEN 1 ELSE 0)
  <2>1. i \in Places(s, t) <=> s[i] = t
    BY <1>2, <1>3
  <2>2. Cardinality(S) = IF i \in Places(s, t) THEN Cardinality(Places(s, t)) - 1
                                               ELSE Cardinality(Places(s, t))
    BY ONLY <1>8, FS_RemoveElement
  <2> HIDE DEF S
  <2> QED
    BY <1>8, <2>1, <2>2
<1>10. Cardinality(Places(r, t)) = Cardinality(S)
  <2> HIDE DEF S
  <2> QED
    BY <1>7, <1>8, FS_Bijection
<1> QED
  BY <1>1, <1>8, <1>9, <1>10 DEF r

(* A place is found for exactly the tracks that are there.                 *)
Place(s, t) ==
  IF \E i \in DOMAIN s : s[i] = t
  THEN CHOOSE i \in DOMAIN s : s[i] = t /\ \A j \in 1..(i - 1) : s[j] # t
  ELSE 0

LEMMA Found ==
  ASSUME NEW s \in Seq(Tracks), NEW t
  PROVE  /\ Place(s, t) \in Nat
         /\ Place(s, t) > 0 <=> Occurrences(s, t) > 0
         /\ Place(s, t) > 0 => Place(s, t) \in DOMAIN s /\ s[Place(s, t)] = t
<1>1. CASE ~ \E i \in DOMAIN s : s[i] = t
  BY <1>1, OccurrencesCount DEF Place
<1>2. CASE \E i \in DOMAIN s : s[i] = t
  <2>1. \E i \in DOMAIN s : s[i] = t /\ \A j \in 1..(i - 1) : s[j] # t
    <3>1. Places(s, t) \subseteq Nat /\ Places(s, t) # {}
      BY <1>2 DEF Places
    <3>2. PICK i \in Places(s, t) :
             \A j \in Places(s, t) : ~ (<<j, i>> \in OpToRel(<, Nat))
      BY <3>1, NatLessThanWellFounded, WFMin
    <3>3. \A j \in Places(s, t) : ~ (j < i)
      BY <3>1, <3>2 DEF OpToRel
    <3> QED
      BY <3>3 DEF Places
  <2>2. Place(s, t) = CHOOSE i \in DOMAIN s : s[i] = t /\ \A j \in 1..(i - 1) : s[j] # t
    BY <1>2 DEF Place
  <2>3. Place(s, t) \in DOMAIN s /\ s[Place(s, t)] = t
    BY <2>1, <2>2
  <2> QED
    BY <1>2, <2>3, OccurrencesCount
<1> QED
  BY <1>1, <1>2

(* isInFavourites() and createTrackTd() go by it.                          *)
LEMMA Drawn ==
  ASSUME list \in Seq(Tracks), NEW t
  PROVE  /\ isInFavourites(t) = Place(list, t)
         /\ createTrackTd(t) = IF Occurrences(list, t) > 0 THEN {"minus"} ELSE {"plus"}
<1>1. isInFavourites(t) = Place(list, t)
  BY DEF isInFavourites, Place
<1> QED
  BY <1>1, Found DEF createTrackTd

LEMMA DrawnNext ==
  ASSUME list' \in Seq(Tracks), NEW t
  PROVE  createTrackTd(t)' = IF Occurrences(list', t) > 0 THEN {"minus"} ELSE {"plus"}
<1>1. isInFavourites(t)' = Place(list', t)
  BY DEF isInFavourites, Place
<1> QED
  BY <1>1, Found DEF createTrackTd

-----------------------------------------------------------------------------
(* The invariant.                                                          *)

(* What a request can be.                                                  *)
Shape(q) ==
  \/ q = Idle
  \/ q.op = "add" /\ q.track \in Tracks /\ q.pc \in {"check", "save", "Success", "Error"}
  \/ /\ q.op = "remove" /\ q.track \in Tracks
     /\ q.pc \in {"lookup", "delete", "gone", "Success", "Error"}
  \/ q.op = "load" /\ q.track = None /\ q.pc \in {"list", "answer"}

Shapes == \A r \in Requests : Shape(req[r])

(* A row that will be deleted is there.                                    *)
RowThere == \A r \in Requests : req[r].pc = "delete" => rows[req[r].track] > 0

(* A list that is loaded with nothing else under way is right.             *)
LoadSound ==
  \A r \in Requests : req[r].op = "load" /\ req[r].fresh =>
    /\ \A q \in Requests : q # r => req[q].pc = "idle"
    /\ req[r].pc = "answer" => \A t \in Tracks : Occurrences(req[r].data, t) = rows[t]

(* Rows that were added or deleted, which the page does not know yet.      *)
Added(t) ==
  {r \in Requests : req[r].op = "add" /\ req[r].track = t /\ req[r].pc = "Success"}

Removed(t) ==
  {r \in Requests : req[r].op = "remove" /\ req[r].track = t /\ req[r].pc = "Success"}

(* List and rows differ by these.                                          *)
Balanced ==
  \A t \in Tracks :
    rows[t] + Cardinality(Removed(t)) = Occurrences(list, t) + Cardinality(Added(t))

(* Removals under way are of one track, which is not added meanwhile; ...  *)
OneTrack == \A p, q \in Removing : req[p].track = req[q].track

Twice ==
  \A p, q \in Removing : p # q =>
    Occurrences(list, req[p].track) <= 1 /\ Adding(req[p].track) = {}

(* ... each has its place in the list, or the track is gone from there.    *)
PlaceHeld ==
  \A r \in Removing :
    \/ req[r].index \in DOMAIN list /\ list[req[r].index] = req[r].track
    \/ Occurrences(list, req[r].track) = 0 /\ Adding(req[r].track) = {}

(* The icon of a single request waits for it, and it will not fail.        *)
Single(r, t) ==
  /\ On(t) = {r} /\ req[r].fresh /\ icon[t] = {"clock"}
  /\ req[r].op = "add" => Occurrences(list, t) = 0 /\ req[r].pc # "Error"
  /\ req[r].op = "remove" => Occurrences(list, t) = 1 /\ req[r].pc \notin {"Error", "gone"}

IconKept ==
  \A t \in Tracks \ doubt :
    /\ On(t) = {} => icon[t] = createTrackTd(t)
    /\ \A r \in On(t) : Single(r, t)

Certain == Balanced /\ OneTrack /\ Twice /\ PlaceHeld /\ IconKept

IInv == /\ TypeOK /\ Shapes /\ RowThere /\ LoadSound
        /\ "list" \notin doubt => Certain

-----------------------------------------------------------------------------
(* Parts of a step.                                                        *)

(* Sets of requests that differ by one.                                    *)
LEMMA OneMore ==
  ASSUME NEW S \in SUBSET Requests, NEW r \in Requests, r \notin S
  PROVE  /\ IsFiniteSet(S) /\ Cardinality(S) \in Nat
         /\ Cardinality(S \union {r}) = Cardinality(S) + 1
<1>1. IsFiniteSet(S)
  BY FS_Subset, FavouritesAssumption
<1> QED
  BY <1>1, FS_AddElement, FS_CardinalityType

LEMMA Counts ==
  ASSUME NEW t
  PROVE  /\ Cardinality(Added(t)) \in Nat /\ Cardinality(Removed(t)) \in Nat
         /\ Cardinality(Added(t)) = 0 <=> Added(t) = {}
         /\ Cardinality(Removed(t)) = 0 <=> Removed(t) = {}
<1>1. Added(t) \in SUBSET Requests /\ Removed(t) \in SUBSET Requests
  BY DEF Added, Removed
<1>2. IsFiniteSet(Added(t)) /\ IsFiniteSet(Removed(t))
  BY <1>1, FS_Subset, FavouritesAssumption
<1> QED
  BY <1>2, FS_CardinalityType, FS_EmptySet

(* Clicks under way stay so, at their tracks and places.                   *)
SameClick(q) ==
  IF req[q].op \in {"add", "remove"}
  THEN /\ req'[q].op = req[q].op /\ req'[q].track = req[q].track
       /\ req'[q].index = req[q].index /\ req'[q].pc # "idle"
  ELSE req'[q].op \notin {"add", "remove"}

LEMMA SameClicks ==
  ASSUME Shapes, Shapes', \A q \in Requests : SameClick(q)
  PROVE  /\ Removing' = Removing
         /\ \A t \in Tracks : Adding(t)' = Adding(t) /\ On(t)' = On(t)
<1>1. \A q \in Requests : q \in Busy <=> req[q].op # "none"
  BY DEF Shapes, Shape, Busy, Idle
<1>2. \A q \in Requests : q \in Busy' <=> req'[q].op # "none"
  BY DEF Shapes, Shape, Busy, Idle
<1>3. Busy \subseteq Requests /\ Busy' \subseteq Requests
  BY DEF Busy
<1>4. \A q \in Requests : req[q].track \in Tracks <=> req[q].op \in {"add", "remove"}
  BY FavouritesAssumption DEF Shapes, Shape, Idle
<1>5. \A q \in Requests : req'[q].track \in Tracks <=> req'[q].op \in {"add", "remove"}
  BY FavouritesAssumption DEF Shapes, Shape, Idle
<1>6. \A q \in Requests : q \in Removing <=> req[q].op = "remove"
  BY <1>1 DEF Removing
<1>7. \A q \in Requests : q \in Removing' <=> req'[q].op = "remove"
  BY <1>2 DEF Removing
<1>8. Removing' = Removing
  BY <1>3, <1>6, <1>7 DEF SameClick, Removing
<1>9. ASSUME NEW t \in Tracks PROVE On(t)' = On(t)
  <2>1. \A q \in Requests : q \in On(t) <=> req[q].op # "none" /\ req[q].track = t
    BY <1>1 DEF On
  <2>2. \A q \in Requests : q \in On(t)' <=> req'[q].op # "none" /\ req'[q].track = t
    BY <1>2 DEF On
  <2>3. On(t) \subseteq Requests /\ On(t)' \subseteq Requests
    BY <1>3 DEF On
  <2>4. ASSUME NEW q \in Requests PROVE q \in On(t)' <=> q \in On(t)
    <3>1. CASE req[q].op \in {"add", "remove"}
      <4>1. req'[q].op = req[q].op /\ req'[q].track = req[q].track
        BY <3>1 DEF SameClick
      <4> QED
        BY <2>1, <2>2, <3>1, <4>1
    <3>2. CASE req[q].op \notin {"add", "remove"}
      <4>1. req'[q].op \notin {"add", "remove"}
        BY <3>2 DEF SameClick
      <4> QED
        BY <1>4, <1>5, <2>1, <2>2, <3>2, <4>1
    <3> QED
      BY <3>1, <3>2
  <2> QED
    BY <2>3, <2>4
<1>10. ASSUME NEW t \in Tracks PROVE Adding(t)' = Adding(t)
  <2>1. On(t)' = On(t) /\ On(t) \subseteq Requests
    BY <1>3, <1>9 DEF On
  <2>2. \A q \in Requests : req[q].op = "add" <=> req'[q].op = "add"
    BY DEF SameClick
  <2> QED
    BY <2>1, <2>2 DEF Adding
<1> QED
  BY <1>8, <1>9, <1>10

(* Then what is said of removals stays true, if the list does not change.  *)
LEMMA RemovalsStay ==
  ASSUME Shapes, Shapes', \A q \in Requests : SameClick(q), list' = list,
         OneTrack, Twice, PlaceHeld
  PROVE  OneTrack' /\ Twice' /\ PlaceHeld'
<1>1. /\ Removing' = Removing
      /\ \A t \in Tracks : Adding(t)' = Adding(t)
  BY SameClicks
<1>2. \A q \in Removing : /\ q \in Requests /\ req[q].track \in Tracks
                          /\ req'[q].track = req[q].track /\ req'[q].index = req[q].index
  BY DEF Removing, Busy, SameClick, Shapes, Shape, Idle
<1>3. OneTrack'
  BY <1>1, <1>2 DEF OneTrack
<1>4. Twice'
  BY <1>1, <1>2 DEF Twice
<1>5. PlaceHeld'
  BY <1>1, <1>2 DEF PlaceHeld
<1> QED
  BY <1>3, <1>4, <1>5

LEMMA BalanceStays ==
  ASSUME Balanced, UNCHANGED <<rows, list>>,
         \A t \in Tracks : Added(t)' = Added(t) /\ Removed(t)' = Removed(t)
  PROVE  Balanced'
  BY DEF Balanced

-----------------------------------------------------------------------------
(* The server.                                                             *)

(* What a step on the server changes of requests: r goes on, others only   *)
(* find their row gone.                                                    *)
Goes(r, pc) ==
  /\ req'[r].op = req[r].op /\ req'[r].track = req[r].track
  /\ req'[r].index = req[r].index /\ req'[r].fresh = req[r].fresh
  /\ req'[r].data = req[r].data /\ req'[r].pc = pc
  /\ \A q \in Requests \ {r} : req'[q] = req[q]

Request ==
  [op : {"none", "add", "remove", "load"},
   track : Tracks \union {None}, pc : Steps, index : Nat,
   fresh : BOOLEAN, data : Seq(Tracks)]

Records == [Requests -> Request]

LEMMA PcChanged ==
  ASSUME NEW q \in Request, NEW pc \in Steps
  PROVE  [q EXCEPT !.pc = pc] \in Request
  BY DEF Request

LEMMA Untouched ==
  ASSUME Shapes, NEW q \in Requests, req'[q] = req[q]
  PROVE  Shape(req'[q]) /\ SameClick(q)
<1>1. req'[q] = req[q] /\ Shape(req[q])
  BY DEF Shapes
<1>2. SameClick(q)
  BY <1>1 DEF SameClick, Shape, Idle
<1> QED
  BY <1>1, <1>2

LEMMA GotoTyped ==
  ASSUME TypeOK, NEW r \in Requests, NEW pc \in Steps, Goto(r, pc)
  PROVE  req' \in Records
<1>1. req \in Records /\ req[r] \in Request
  BY DEF TypeOK, Records, Request
<1>2. [req[r] EXCEPT !.pc = pc] \in Request
  BY <1>1, PcChanged
<1>3. req' = [req EXCEPT ![r] = [req[r] EXCEPT !.pc = pc]]
  BY DEF Goto
<1> QED
  BY <1>1, <1>2, <1>3 DEF Records

LEMMA GotoGoes ==
  ASSUME TypeOK, NEW r \in Requests, NEW pc, Goto(r, pc)
  PROVE  Goes(r, pc)
  BY DEF TypeOK, Goto, Goes

(* A request that is single finds as many rows as the list has of the track. *)
LEMMA SingleFinds ==
  ASSUME IInv, "list" \notin doubt, NEW t \in Tracks \ doubt, NEW r \in On(t),
         req[r].pc # "Success"
  PROVE  Single(r, t) /\ rows[t] = Occurrences(list, t)
<1>1. Certain /\ TypeOK
  BY DEF IInv
<1>2. Single(r, t)
  BY <1>1 DEF Certain, IconKept
<1>3. Added(t) = {} /\ Removed(t) = {}
  <2>1. \A p \in Requests : req[p].track = t /\ req[p].pc = "Success" => p = r
    BY <1>2 DEF Single, On, Busy
  <2> QED
    BY <2>1 DEF Added, Removed
<1>4. rows[t] + Cardinality(Removed(t)) = Occurrences(list, t) + Cardinality(Added(t))
  BY <1>1 DEF Certain, Balanced
<1>5. Cardinality(Removed(t)) = 0 /\ Cardinality(Added(t)) = 0
  BY <1>3, Counts
<1>6. rows[t] \in Nat /\ Occurrences(list, t) \in Nat
  BY <1>1, OccurrencesCount DEF TypeOK
<1> QED
  BY <1>2, <1>4, <1>5, <1>6

(* A step on the server keeps what is certain if it keeps the balance and  *)
(* no single request fails.                                                *)
LEMMA Served ==
  ASSUME IInv, Shapes', "list" \notin doubt, UNCHANGED <<list, icon, doubt>>,
         \A q \in Requests : SameClick(q) /\ req'[q].fresh = req[q].fresh,
         Balanced',
         \A t \in Tracks \ doubt : \A q \in On(t) :
           /\ req[q].op = "add" => req'[q].pc # "Error"
           /\ req[q].op = "remove" => req'[q].pc \notin {"Error", "gone"}
  PROVE  Certain'
<1>1. Certain /\ Shapes
  BY DEF IInv
<1>2. OneTrack' /\ Twice' /\ PlaceHeld'
  BY <1>1, RemovalsStay DEF Certain
<1>3. IconKept'
  <2>1. SUFFICES ASSUME NEW t \in Tracks \ doubt
                 PROVE  /\ On(t)' = {} => icon'[t] = createTrackTd(t)'
                        /\ \A q \in On(t)' : Single(q, t)'
    BY DEF IconKept
  <2>2. On(t)' = On(t)
    BY <1>1, SameClicks
  <2>3. createTrackTd(t)' = createTrackTd(t)
    BY DEF createTrackTd, isInFavourites
  <2>4. ASSUME NEW q \in On(t) PROVE Single(q, t)'
    <3>1. Single(q, t) /\ q \in Requests /\ req[q].track = t
      BY <1>1, <2>4 DEF Certain, IconKept, On, Busy
    <3>2. req[q].op \in {"add", "remove"}
      BY <1>1, <3>1, FavouritesAssumption DEF Shapes, Shape, Idle
    <3>3. req'[q].op = req[q].op
      BY <3>1, <3>2 DEF SameClick
    <3> QED
      BY <2>1, <2>2, <2>4, <3>1, <3>3 DEF Single
  <2> QED
    BY <1>1, <2>2, <2>3, <2>4 DEF Certain, IconKept
<1> QED
  BY <1>2, <1>3 DEF Certain

(* A request that goes on keeps its kind.                                  *)
Follows(q, pc) ==
  \/ q.op = "add" /\ pc \in {"check", "save", "Success", "Error"}
  \/ q.op = "remove" /\ pc \in {"lookup", "delete", "gone", "Success", "Error"}
  \/ q.op = "load" /\ pc \in {"list", "answer"}

LEMMA GoesOn ==
  ASSUME Shapes, NEW r \in Requests, NEW pc, Goes(r, pc), Follows(req[r], pc)
  PROVE  /\ Shapes'
         /\ \A q \in Requests : SameClick(q) /\ req'[q].fresh = req[q].fresh
<1>1. ASSUME NEW q \in Requests, q # r
      PROVE  Shape(req'[q]) /\ SameClick(q) /\ req'[q].fresh = req[q].fresh
  BY <1>1, Untouched DEF Goes
<1>2. Shape(req'[r])
  BY DEF Shapes, Shape, Goes, Follows, Idle
<1>3. SameClick(r) /\ req'[r].fresh = req[r].fresh
  BY DEF SameClick, Goes, Follows
<1> QED
  BY <1>1, <1>2, <1>3 DEF Shapes

LEMMA CheckStep ==
  ASSUME IInv, NEW r \in Requests, Check(r)
  PROVE  IInv'
<1> DEFINE t == req[r].track
           pc == IF rows[t] = 0 THEN "save" ELSE "Error"
<1>1. req[r].pc = "check" /\ Goto(r, pc) /\ UNCHANGED <<rows, list, icon, doubt>>
  BY DEF Check
<1>2. TypeOK /\ Shapes /\ RowThere /\ LoadSound
  BY DEF IInv
<1>3. t \in Tracks /\ req[r].op = "add"
  BY <1>1, <1>2 DEF Shapes, Shape, Idle
<1> HIDE DEF pc
<1>4. pc \in {"save", "Error"}
  BY DEF pc
<1>5. Goes(r, pc)
  BY <1>1, <1>2, GotoGoes
<1>6. TypeOK'
  <2>1. req' \in Records
    BY <1>1, <1>2, <1>4, GotoTyped DEF Steps
  <2> QED
    BY <1>1, <1>2, <2>1 DEF TypeOK, Records, Request
<1>7. Shapes' /\ \A q \in Requests : SameClick(q) /\ req'[q].fresh = req[q].fresh
  <2>1. Follows(req[r], pc)
    BY <1>3, <1>4 DEF Follows
  <2> QED
    BY <1>2, <1>5, <2>1, GoesOn
<1>8. RowThere' /\ LoadSound'
  BY <1>1, <1>2, <1>3, <1>4, <1>5 DEF RowThere, LoadSound, Goes
<1>9. ASSUME "list" \notin doubt PROVE Certain'
  <2>1. \A u \in Tracks : Added(u)' = Added(u) /\ Removed(u)' = Removed(u)
    BY <1>1, <1>3, <1>4, <1>5 DEF Added, Removed, Goes
  <2>2. Balanced'
    BY <1>1, <1>9, <2>1, BalanceStays DEF IInv, Certain
  <2>3. ASSUME NEW u \in Tracks \ doubt, NEW q \in On(u)
        PROVE  /\ req[q].op = "add" => req'[q].pc # "Error"
               /\ req[q].op = "remove" => req'[q].pc \notin {"Error", "gone"}
    <3>1. q \in Requests /\ req[q].track = u /\ Single(q, u)
      BY <1>9 DEF On, Busy, IInv, Certain, IconKept
    <3>2. CASE q # r
      BY <1>5, <3>1, <3>2 DEF Goes, Single
    <3>3. CASE q = r
      <4>1. rows[t] = 0
        BY <1>1, <1>3, <1>9, <2>3, <3>1, <3>3, SingleFinds DEF Single
      <4> QED
        BY <1>3, <1>5, <3>3, <4>1 DEF Goes, pc
    <3> QED
      BY <3>2, <3>3
  <2> QED
    BY <1>1, <1>7, <1>9, <2>2, <2>3, Served
<1> QED
  BY <1>1, <1>6, <1>7, <1>8, <1>9 DEF IInv

LEMMA LookupStep ==
  ASSUME IInv, NEW r \in Requests, Lookup(r)
  PROVE  IInv'
<1> DEFINE t == req[r].track
           pc == IF rows[t] > 0 THEN "delete" ELSE "Error"
<1>1. req[r].pc = "lookup" /\ Goto(r, pc) /\ UNCHANGED <<rows, list, icon, doubt>>
  BY DEF Lookup
<1>2. TypeOK /\ Shapes /\ RowThere /\ LoadSound
  BY DEF IInv
<1>3. t \in Tracks /\ req[r].op = "remove"
  BY <1>1, <1>2 DEF Shapes, Shape, Idle
<1> HIDE DEF pc
<1>4. pc \in {"delete", "Error"} /\ (pc = "delete" => rows[t] > 0)
  BY DEF pc
<1>5. Goes(r, pc)
  BY <1>1, <1>2, GotoGoes
<1>6. TypeOK'
  <2>1. req' \in Records
    BY <1>1, <1>2, <1>4, GotoTyped DEF Steps
  <2> QED
    BY <1>1, <1>2, <2>1 DEF TypeOK, Records, Request
<1>7. Shapes' /\ \A q \in Requests : SameClick(q) /\ req'[q].fresh = req[q].fresh
  <2>1. Follows(req[r], pc)
    BY <1>3, <1>4 DEF Follows
  <2> QED
    BY <1>2, <1>5, <2>1, GoesOn
<1>8. RowThere' /\ LoadSound'
  BY <1>1, <1>2, <1>3, <1>4, <1>5 DEF RowThere, LoadSound, Goes
<1>9. ASSUME "list" \notin doubt PROVE Certain'
  <2>1. \A u \in Tracks : Added(u)' = Added(u) /\ Removed(u)' = Removed(u)
    BY <1>1, <1>3, <1>4, <1>5 DEF Added, Removed, Goes
  <2>2. Balanced'
    BY <1>1, <1>9, <2>1, BalanceStays DEF IInv, Certain
  <2>3. ASSUME NEW u \in Tracks \ doubt, NEW q \in On(u)
        PROVE  /\ req[q].op = "add" => req'[q].pc # "Error"
               /\ req[q].op = "remove" => req'[q].pc \notin {"Error", "gone"}
    <3>1. q \in Requests /\ req[q].track = u /\ Single(q, u)
      BY <1>9 DEF On, Busy, IInv, Certain, IconKept
    <3>2. CASE q # r
      BY <1>5, <3>1, <3>2 DEF Goes, Single
    <3>3. CASE q = r
      <4>1. rows[t] = 1
        BY <1>1, <1>3, <1>9, <2>3, <3>1, <3>3, SingleFinds DEF Single
      <4> QED
        BY <1>3, <1>5, <3>3, <4>1 DEF Goes, pc
    <3> QED
      BY <3>2, <3>3
  <2> QED
    BY <1>1, <1>7, <1>9, <2>2, <2>3, Served
<1> QED
  BY <1>1, <1>6, <1>7, <1>8, <1>9 DEF IInv

LEMMA DeleteGoneStep ==
  ASSUME IInv, NEW r \in Requests, DeleteGone(r)
  PROVE  IInv'
<1>1. req[r].pc = "gone" /\ Goto(r, "Error") /\ UNCHANGED <<rows, list, icon, doubt>>
  BY DEF DeleteGone
<1>2. TypeOK /\ Shapes /\ RowThere /\ LoadSound
  BY DEF IInv
<1>3. req[r].track \in Tracks /\ req[r].op = "remove"
  BY <1>1, <1>2 DEF Shapes, Shape, Idle
<1>4. Goes(r, "Error")
  BY <1>1, <1>2, GotoGoes
<1>5. TypeOK'
  <2>1. req' \in Records
    BY <1>1, <1>2, GotoTyped DEF Steps
  <2> QED
    BY <1>1, <1>2, <2>1 DEF TypeOK, Records, Request
<1>6. Shapes' /\ \A q \in Requests : SameClick(q) /\ req'[q].fresh = req[q].fresh
  <2>1. Follows(req[r], "Error")
    BY <1>3 DEF Follows
  <2> QED
    BY <1>2, <1>4, <2>1, GoesOn
<1>7. RowThere' /\ LoadSound'
  BY <1>1, <1>2, <1>3, <1>4 DEF RowThere, LoadSound, Goes
<1>8. ASSUME "list" \notin doubt PROVE Certain'
  <2>1. \A u \in Tracks : Added(u)' = Added(u) /\ Removed(u)' = Removed(u)
    BY <1>1, <1>3, <1>4 DEF Added, Removed, Goes
  <2>2. Balanced'
    BY <1>1, <1>8, <2>1, BalanceStays DEF IInv, Certain
  <2>3. ASSUME NEW u \in Tracks \ doubt, NEW q \in On(u)
        PROVE  /\ req[q].op = "add" => req'[q].pc # "Error"
               /\ req[q].op = "remove" => req'[q].pc \notin {"Error", "gone"}
    <3>1. q \in Requests /\ req[q].track = u /\ Single(q, u)
      BY <1>8 DEF On, Busy, IInv, Certain, IconKept
    <3>2. q # r
      BY <1>1, <1>3, <3>1 DEF Single
    <3> QED
      BY <1>4, <3>1, <3>2 DEF Goes, Single
  <2> QED
    BY <1>1, <1>6, <1>8, <2>2, <2>3, Served
<1> QED
  BY <1>1, <1>5, <1>6, <1>7, <1>8 DEF IInv

LEMMA SaveStep ==
  ASSUME IInv, NEW r \in Requests, Save(r)
  PROVE  IInv'
<1>1. req[r].pc = "save" /\ Goto(r, "Success") /\ UNCHANGED <<list, icon, doubt>>
  BY DEF Save
<1>2. TypeOK /\ Shapes /\ RowThere /\ LoadSound
  BY DEF IInv
<1>3. PICK t \in Tracks : t = req[r].track /\ req[r].op = "add"
  BY <1>1, <1>2 DEF Shapes, Shape, Idle
<1>4. Goes(r, "Success")
  BY <1>1, <1>2, GotoGoes
<1>5. /\ rows' \in [Tracks -> Nat] /\ rows'[t] = rows[t] + 1
      /\ \A u \in Tracks : rows[u] \in Nat /\ (u # t => rows'[u] = rows[u])
  BY <1>2, <1>3 DEF TypeOK, Save
<1>6. TypeOK'
  <2>1. req' \in Records
    BY <1>1, <1>2, GotoTyped DEF Steps
  <2> QED
    BY <1>1, <1>2, <1>5, <2>1 DEF TypeOK, Records, Request
<1>7. Shapes' /\ \A q \in Requests : SameClick(q) /\ req'[q].fresh = req[q].fresh
  <2>1. Follows(req[r], "Success")
    BY <1>3 DEF Follows
  <2> QED
    BY <1>2, <1>4, <2>1, GoesOn
<1>8. RowThere'
  <2>1. ASSUME NEW q \in Requests, req'[q].pc = "delete" PROVE rows'[req'[q].track] > 0
    <3>1. q # r /\ req'[q] = req[q]
      BY <1>4, <2>1 DEF Goes
    <3>2. req[q].track \in Tracks /\ rows[req[q].track] > 0
      BY <1>2, <2>1, <3>1 DEF RowThere, Shapes, Shape, Idle
    <3> QED
      BY <1>5, <3>1, <3>2
  <2> QED
    BY <2>1 DEF RowThere
<1>9. LoadSound'
  BY <1>1, <1>2, <1>3, <1>4 DEF LoadSound, Goes
<1>10. ASSUME "list" \notin doubt PROVE Certain'
  <2>1. \A u \in Tracks : Removed(u)' = Removed(u) /\ (u # t => Added(u)' = Added(u))
    BY <1>1, <1>3, <1>4 DEF Added, Removed, Goes
  <2>2. /\ Added(t)' = Added(t) \union {r} /\ r \notin Added(t)
        /\ Added(t) \in SUBSET Requests
    BY <1>1, <1>3, <1>4 DEF Added, Goes
  <2>3. Cardinality(Added(t)') = Cardinality(Added(t)) + 1
    BY <2>2, OneMore
  <2>4. Balanced'
    <3>1. ASSUME NEW u \in Tracks
          PROVE  rows'[u] + Cardinality(Removed(u)') = Occurrences(list, u) + Cardinality(Added(u)')
      <4>1. rows[u] + Cardinality(Removed(u)) = Occurrences(list, u) + Cardinality(Added(u))
        BY <1>10 DEF IInv, Certain, Balanced
      <4>2. Cardinality(Removed(u)) \in Nat /\ Cardinality(Added(u)) \in Nat /\ Occurrences(list, u) \in Nat
        BY <1>2, Counts, OccurrencesCount DEF TypeOK
      <4>3. CASE u = t
        BY <1>5, <2>1, <2>3, <4>1, <4>2, <4>3
      <4>4. CASE u # t
        BY <1>5, <2>1, <4>1, <4>4
      <4> QED
        BY <4>3, <4>4
    <3> QED
      BY <1>1, <3>1 DEF Balanced
  <2>5. ASSUME NEW u \in Tracks \ doubt, NEW q \in On(u)
        PROVE  /\ req[q].op = "add" => req'[q].pc # "Error"
               /\ req[q].op = "remove" => req'[q].pc \notin {"Error", "gone"}
    <3>1. q \in Requests /\ req[q].track = u /\ Single(q, u)
      BY <1>10 DEF On, Busy, IInv, Certain, IconKept
    <3> QED
      BY <1>4, <3>1 DEF Goes, Single
  <2> QED
    BY <1>1, <1>7, <1>10, <2>4, <2>5, Served
<1> QED
  BY <1>1, <1>6, <1>7, <1>8, <1>9, <1>10 DEF IInv
LEMMA DeleteStep ==
  ASSUME IInv, NEW r \in Requests, Delete(r)
  PROVE  IInv'
<1>1. req[r].pc = "delete" /\ UNCHANGED <<list, icon, doubt>>
  BY DEF Delete
<1>2. TypeOK /\ Shapes /\ RowThere /\ LoadSound
  BY DEF IInv
<1>3. PICK t \in Tracks : t = req[r].track /\ req[r].op = "remove"
  BY <1>1, <1>2 DEF Shapes, Shape, Idle
<1>4. rows[t] > 0
  BY <1>1, <1>2, <1>3 DEF RowThere
<1>5. /\ rows' \in [Tracks -> Nat] /\ rows'[t] = rows[t] - 1
      /\ \A u \in Tracks : rows[u] \in Nat /\ (u # t => rows'[u] = rows[u])
  BY <1>2, <1>3, <1>4 DEF TypeOK, Delete
<1>6. req' = [q \in Requests |->
         IF q = r THEN [req[r] EXCEPT !.pc = "Success"] ELSE Gone(req[q], t)]
  BY <1>3 DEF Delete
<1>7. TypeOK'
  <2>1. req' \in Records
    <3>1. \A q \in Requests : req[q] \in Request
      BY <1>2 DEF TypeOK, Request
    <3>2. \A q \in Requests : /\ [req[q] EXCEPT !.pc = "Success"] \in Request
                              /\ [req[q] EXCEPT !.pc = "gone"] \in Request
      BY <3>1, PcChanged DEF Steps
    <3>3. \A q \in Requests : Gone(req[q], t) \in Request
      BY <3>1, <3>2 DEF Gone
    <3> QED
      BY <1>6, <3>2, <3>3 DEF Records
  <2> QED
    BY <1>1, <1>2, <1>5, <2>1 DEF TypeOK, Records, Request
<1>8. /\ req'[r].op = "remove" /\ req'[r].track = t /\ req'[r].pc = "Success"
      /\ req'[r].index = req[r].index /\ req'[r].fresh = req[r].fresh
  BY <1>2, <1>3, <1>6 DEF TypeOK
<1>9. ASSUME NEW q \in Requests, q # r
      PROVE  /\ req'[q].op = req[q].op /\ req'[q].track = req[q].track
             /\ req'[q].index = req[q].index /\ req'[q].fresh = req[q].fresh
             /\ req'[q].data = req[q].data
             /\ req'[q].pc = IF req[q].pc = "delete" /\ req[q].track = t THEN "gone" ELSE req[q].pc
             /\ req[q].pc # "delete" => req'[q] = req[q]
  BY <1>2, <1>6, <1>9 DEF TypeOK, Gone
<1>10. Shapes'
  <2>1. ASSUME NEW q \in Requests, q # r PROVE Shape(req'[q])
    <3>1. Shape(req[q])
      BY <1>2 DEF Shapes
    <3>2. CASE req[q].pc = "delete"
      <4>1. req[q].op = "remove" /\ req[q].track \in Tracks
        BY <3>1, <3>2 DEF Shape, Idle
      <4>2. req'[q].op = "remove" /\ req'[q].track \in Tracks /\ req'[q].pc \in {"delete", "gone"}
        BY <1>9, <2>1, <3>2, <4>1
      <4> QED
        BY <4>2 DEF Shape
    <3>3. CASE req[q].pc # "delete"
      BY <1>9, <2>1, <3>1, <3>3
    <3> QED
      BY <3>2, <3>3
  <2>2. Shape(req'[r])
    BY <1>8 DEF Shape
  <2> QED
    BY <2>1, <2>2 DEF Shapes
<1>11. \A q \in Requests : SameClick(q) /\ req'[q].fresh = req[q].fresh
  <2>1. ASSUME NEW q \in Requests, q # r PROVE SameClick(q) /\ req'[q].fresh = req[q].fresh
    BY <1>2, <1>9, <2>1 DEF SameClick, Shapes, Shape, Idle
  <2>2. SameClick(r)
    BY <1>3, <1>8 DEF SameClick
  <2> QED
    BY <1>8, <2>1, <2>2
<1>12. RowThere'
  <2>1. ASSUME NEW q \in Requests, req'[q].pc = "delete" PROVE rows'[req'[q].track] > 0
    <3>1. q # r
      BY <1>8, <2>1
    <3>2. req[q].pc = "delete" /\ req[q].track # t /\ req'[q].track = req[q].track
      BY <1>9, <2>1, <3>1
    <3>3. req[q].track \in Tracks /\ rows[req[q].track] > 0
      BY <1>2, <3>2 DEF RowThere, Shapes, Shape, Idle
    <3> QED
      BY <1>5, <3>2, <3>3
  <2> QED
    BY <2>1 DEF RowThere
<1>13. LoadSound'
  <2>1. ASSUME NEW q \in Requests, req'[q].op = "load", req'[q].fresh PROVE FALSE
    <3>1. q # r /\ req[q].op = "load" /\ req[q].fresh
      BY <1>8, <1>9, <2>1
    <3> QED
      BY <1>1, <1>2, <3>1 DEF LoadSound
  <2> QED
    BY <2>1 DEF LoadSound
<1>14. ASSUME "list" \notin doubt PROVE Certain'
  <2>1. \A u \in Tracks : Added(u)' = Added(u) /\ (u # t => Removed(u)' = Removed(u))
    <3>1. ASSUME NEW u \in Tracks, NEW q \in Requests
          PROVE  /\ q \in Added(u)' <=> q \in Added(u)
                 /\ u # t => (q \in Removed(u)' <=> q \in Removed(u))
      <4>1. CASE q = r
        BY <1>1, <1>3, <1>8, <4>1 DEF Added, Removed
      <4>2. CASE q # r
        BY <1>9, <4>2 DEF Added, Removed
      <4> QED
        BY <4>1, <4>2
    <3>2. \A u \in Tracks : /\ Added(u) \subseteq Requests /\ Added(u)' \subseteq Requests
                            /\ Removed(u) \subseteq Requests /\ Removed(u)' \subseteq Requests
      BY DEF Added, Removed
    <3> QED
      BY <3>1, <3>2
  <2>2. /\ Removed(t)' = Removed(t) \union {r} /\ r \notin Removed(t)
        /\ Removed(t) \in SUBSET Requests
    <3>1. ASSUME NEW q \in Requests, q # r PROVE q \in Removed(t)' <=> q \in Removed(t)
      BY <1>9, <3>1 DEF Removed
    <3>2. r \in Removed(t)' /\ r \notin Removed(t)
      BY <1>1, <1>8 DEF Removed
    <3>3. Removed(t) \subseteq Requests /\ Removed(t)' \subseteq Requests
      BY DEF Removed
    <3> QED
      BY <3>1, <3>2, <3>3
  <2>3. Cardinality(Removed(t)') = Cardinality(Removed(t)) + 1
    BY <2>2, OneMore
  <2>4. Balanced'
    <3>1. ASSUME NEW u \in Tracks
          PROVE  rows'[u] + Cardinality(Removed(u)') = Occurrences(list, u) + Cardinality(Added(u)')
      <4>1. rows[u] + Cardinality(Removed(u)) = Occurrences(list, u) + Cardinality(Added(u))
        BY <1>14 DEF IInv, Certain, Balanced
      <4>2. Cardinality(Removed(u)) \in Nat /\ Cardinality(Added(u)) \in Nat /\ Occurrences(list, u) \in Nat
        BY <1>2, Counts, OccurrencesCount DEF TypeOK
      <4>3. CASE u = t
        BY <1>5, <2>1, <2>3, <4>1, <4>2, <4>3
      <4>4. CASE u # t
        BY <1>5, <2>1, <4>1, <4>4
      <4> QED
        BY <4>3, <4>4
    <3> QED
      BY <1>1, <3>1 DEF Balanced
  <2>5. ASSUME NEW u \in Tracks \ doubt, NEW q \in On(u)
        PROVE  /\ req[q].op = "add" => req'[q].pc # "Error"
               /\ req[q].op = "remove" => req'[q].pc \notin {"Error", "gone"}
    <3>1. q \in Requests /\ req[q].track = u /\ Single(q, u)
      BY <1>14 DEF On, Busy, IInv, Certain, IconKept
    <3>2. CASE q = r
      BY <1>8, <3>2
    <3>3. CASE q # r
      <4>1. u # t
        BY <1>1, <1>3, <3>1, <3>3 DEF Single, On, Busy
      <4> QED
        BY <1>9, <3>1, <3>3, <4>1 DEF Single
    <3> QED
      BY <3>2, <3>3
  <2> QED
    BY <1>1, <1>10, <1>11, <1>14, <2>4, <2>5, Served
<1> QED
  BY <1>1, <1>7, <1>10, <1>12, <1>13, <1>14 DEF IInv

LEMMA RowsFinite ==
  ASSUME rows \in [Tracks -> Nat]
  PROVE  Cardinality(Rows) \in Nat
<1> DEFINE f == [t \in Tracks |-> {t} \X (1..rows[t])]
           S == {{t} \X (1..rows[t]) : t \in Tracks}
<1>1. f \in Surjection(Tracks, S)
  BY DEF Surjection
<1>2. IsFiniteSet(S)
  BY <1>1, FS_Surjection, FavouritesAssumption
<1>3. ASSUME NEW t \in Tracks PROVE IsFiniteSet({t} \X (1..rows[t]))
  <2>1. IsFiniteSet({t}) /\ IsFiniteSet(1..rows[t])
    <3>1. rows[t] \in Int /\ 1 \in Int
      OBVIOUS
    <3> QED
      BY <3>1, FS_Singleton, FS_Interval
  <2> QED
    BY <2>1, FS_Product
<1>4. \A T \in S : IsFiniteSet(T)
  BY <1>3
<1> HIDE DEF S
<1>5. IsFiniteSet(UNION S)
  BY <1>2, <1>4, FS_UNION
<1>6. Rows = UNION S
  BY DEF S, Rows
<1> QED
  BY <1>5, <1>6, FS_CardinalityType

LEMMA GetUsersFavouritesStep ==
  ASSUME IInv, NEW r \in Requests, GetUsersFavourites(r)
  PROVE  IInv'
<1>1. req[r].pc = "list" /\ UNCHANGED <<rows, list, icon, doubt>>
  BY DEF GetUsersFavourites
<1>2. TypeOK /\ Shapes /\ RowThere /\ LoadSound
  BY DEF IInv
<1>3. req[r].op = "load" /\ req[r].track = None
  BY <1>1, <1>2 DEF Shapes, Shape, Idle
<1>4. PICK s \in [1..Cardinality(Rows) -> Tracks] :
         /\ \A t \in Tracks : Occurrences(s, t) = rows[t]
         /\ req' = [req EXCEPT ![r].pc = "answer", ![r].data = s]
  BY DEF GetUsersFavourites
<1>5. s \in Seq(Tracks)
  <2>1. Cardinality(Rows) \in Nat
    BY <1>2, RowsFinite DEF TypeOK
  <2> QED
    BY <2>1
<1>6. TypeOK'
  <2>1. req' \in Records
    <3>1. req \in Records /\ req[r] \in Request
      BY <1>2 DEF TypeOK, Records, Request
    <3>2. [req[r] EXCEPT !.pc = "answer", !.data = s] \in Request
      BY <1>5, <3>1 DEF Request, Steps
    <3>3. req' = [req EXCEPT ![r] = [req[r] EXCEPT !.pc = "answer", !.data = s]]
      BY <1>4, <3>1 DEF Records, Request
    <3> QED
      BY <3>1, <3>2, <3>3 DEF Records
  <2> QED
    BY <1>1, <1>2, <2>1 DEF TypeOK, Records, Request
<1>7. /\ req'[r].op = "load" /\ req'[r].track = None /\ req'[r].pc = "answer"
      /\ req'[r].fresh = req[r].fresh /\ req'[r].data = s
      /\ \A q \in Requests : q # r => req'[q] = req[q]
  BY <1>2, <1>3, <1>4 DEF TypeOK
<1>8. Shapes'
  BY <1>2, <1>7 DEF Shapes, Shape
<1>9. \A q \in Requests : SameClick(q) /\ req'[q].fresh = req[q].fresh
  <2>1. ASSUME NEW q \in Requests, q # r PROVE SameClick(q)
    BY <1>2, <1>7, <2>1, Untouched
  <2>2. SameClick(r)
    BY <1>3, <1>7 DEF SameClick
  <2> QED
    BY <1>7, <2>1, <2>2
<1>10. RowThere'
  BY <1>1, <1>2, <1>7 DEF RowThere
<1>11. LoadSound'
  <2>1. ASSUME NEW p \in Requests, req'[p].op = "load", req'[p].fresh
        PROVE  /\ \A q \in Requests : q # p => req'[q].pc = "idle"
               /\ req'[p].pc = "answer" => \A t \in Tracks : Occurrences(req'[p].data, t) = rows'[t]
    <3>1. CASE p = r
      <4>1. req[r].op = "load" /\ req[r].fresh
        BY <1>3, <1>7, <2>1, <3>1
      <4>2. \A q \in Requests : q # r => req[q].pc = "idle"
        BY <1>2, <4>1 DEF LoadSound
      <4>3. \A q \in Requests : q # r => req'[q].pc = "idle"
        BY <1>7, <4>2
      <4>4. \A t \in Tracks : Occurrences(req'[r].data, t) = rows'[t]
        BY <1>1, <1>4, <1>7
      <4> QED
        BY <3>1, <4>3, <4>4
    <3>2. CASE p # r
      BY <1>1, <1>2, <1>7, <2>1, <3>2 DEF LoadSound
    <3> QED
      BY <3>1, <3>2
  <2> QED
    BY <2>1 DEF LoadSound
<1>12. ASSUME "list" \notin doubt PROVE Certain'
  <2>1. \A u \in Tracks : Added(u)' = Added(u) /\ Removed(u)' = Removed(u)
    BY <1>3, <1>7 DEF Added, Removed
  <2>2. Balanced'
    BY <1>1, <1>12, <2>1, BalanceStays DEF IInv, Certain
  <2>3. ASSUME NEW u \in Tracks \ doubt, NEW q \in On(u)
        PROVE  /\ req[q].op = "add" => req'[q].pc # "Error"
               /\ req[q].op = "remove" => req'[q].pc \notin {"Error", "gone"}
    <3>1. q \in Requests /\ Single(q, u)
      BY <1>12 DEF On, Busy, IInv, Certain, IconKept
    <3> QED
      BY <1>3, <1>7, <3>1 DEF Single
  <2> QED
    BY <1>1, <1>8, <1>9, <1>12, <2>2, <2>3, Served
<1> QED
  BY <1>1, <1>6, <1>8, <1>10, <1>11, <1>12 DEF IInv

(* A request that is no longer fresh.                                      *)
Stale(q) == [q EXCEPT !.fresh = FALSE]

LEMMA StaleFacts ==
  ASSUME NEW q \in Request
  PROVE  /\ Stale(q) \in Request /\ ~ Stale(q).fresh
         /\ Stale(q).op = q.op /\ Stale(q).track = q.track /\ Stale(q).pc = q.pc
         /\ Stale(q).index = q.index /\ Stale(q).data = q.data
  BY DEF Request, Stale

LEMMA ElsewhereStep ==
  ASSUME IInv, NEW t \in Tracks, Elsewhere(t)
  PROVE  IInv'
<1>1. TypeOK /\ Shapes /\ RowThere /\ LoadSound /\ \A q \in Requests : req[q] \in Request
  BY DEF IInv, TypeOK, Request
<1>2. UNCHANGED <<list, icon>> /\ doubt' = doubt \union {"list"}
  BY DEF Elsewhere
<1>3. /\ rows' \in [Tracks -> Nat]
      /\ \A u \in Tracks : u # t => rows'[u] = rows[u]
      /\ rows[t] = 0 => rows'[t] = 1
  <2>1. rows \in [Tracks -> Nat]
    BY <1>1 DEF TypeOK
  <2>2. CASE rows[t] > 0 /\ rows' = [rows EXCEPT ![t] = @ - 1]
    BY <2>1, <2>2
  <2>3. CASE rows[t] = 0 /\ rows' = [rows EXCEPT ![t] = 1]
    BY <2>1, <2>3
  <2>4. \/ rows[t] > 0 /\ rows' = [rows EXCEPT ![t] = @ - 1]
        \/ rows[t] = 0 /\ rows' = [rows EXCEPT ![t] = 1]
    BY DEF Elsewhere
  <2> QED
    BY <2>2, <2>3, <2>4
<1>4. \A q \in Requests :
        req'[q] = IF q \in Loading THEN Stale(req[q])
                  ELSE IF rows[t] > 0 THEN Gone(req[q], t) ELSE req[q]
  BY DEF Elsewhere, Stale
<1>5. \A q \in Requests : q \in Loading <=> req[q].op = "load"
  BY <1>1 DEF Loading, Busy, Shapes, Shape, Idle
<1>6. ASSUME NEW q \in Requests
      PROVE  /\ req'[q] \in Request /\ req'[q].op = req[q].op /\ req'[q].track = req[q].track
             /\ req[q].op = "load" => ~ req'[q].fresh /\ req'[q].pc = req[q].pc
             /\ req[q].op # "load" =>
                  \/ req'[q] = req[q] /\ ~ (req[q].pc = "delete" /\ req[q].track = t /\ rows[t] > 0)
                  \/ req[q].pc = "delete" /\ req'[q].pc = "gone"
  <2>1. CASE req[q].op = "load"
    <3>1. req[q] \in Request /\ req'[q] = Stale(req[q])
      BY <1>1, <1>4, <1>5, <2>1
    <3> QED
      BY <2>1, <3>1, StaleFacts
  <2>2. CASE req[q].op # "load" /\ rows[t] > 0 /\ req[q].pc = "delete" /\ req[q].track = t
    <3>1. req'[q] = [req[q] EXCEPT !.pc = "gone"]
      BY <1>4, <1>5, <2>2 DEF Gone
    <3>2. req'[q] \in Request
      BY <1>1, <3>1, PcChanged DEF Steps
    <3>3. req'[q].op = req[q].op /\ req'[q].track = req[q].track /\ req'[q].pc = "gone"
      BY <1>1, <3>1 DEF Request
    <3> QED
      BY <2>2, <3>2, <3>3
  <2>3. CASE req[q].op # "load" /\ ~ (rows[t] > 0 /\ req[q].pc = "delete" /\ req[q].track = t)
    <3>1. req'[q] = req[q]
      BY <1>4, <1>5, <2>3 DEF Gone
    <3> QED
      BY <1>1, <2>3, <3>1
  <2> QED
    BY <2>1, <2>2, <2>3
<1>7. TypeOK'
  <2>1. req' = [q \in Requests |-> req'[q]]
    BY DEF Elsewhere
  <2>2. req' \in Records
    BY <1>6, <2>1 DEF Records
  <2> QED
    BY <1>1, <1>2, <1>3, <2>2 DEF TypeOK, Records, Request
<1>8. Shapes'
  <2>1. ASSUME NEW q \in Requests PROVE Shape(req'[q])
    <3>1. Shape(req[q])
      BY <1>1 DEF Shapes
    <3>2. CASE req'[q] = req[q]
      BY <3>1, <3>2
    <3>3. CASE req[q].op = "load"
      BY <1>6, <3>1, <3>3 DEF Shape, Idle
    <3>4. CASE req[q].op # "load" /\ req[q].pc = "delete" /\ req'[q].pc = "gone"
      BY <1>6, <3>1, <3>4 DEF Shape, Idle
    <3> QED
      BY <1>6, <3>2, <3>3, <3>4
  <2> QED
    BY <2>1 DEF Shapes
<1>9. RowThere'
  <2>1. ASSUME NEW q \in Requests, req'[q].pc = "delete" PROVE rows'[req'[q].track] > 0
    <3>1. req'[q] = req[q] /\ ~ (req[q].track = t /\ rows[t] > 0)
      BY <1>1, <1>6, <2>1 DEF Shapes, Shape, Idle
    <3>2. req[q].track \in Tracks /\ rows[req[q].track] > 0
      BY <1>1, <2>1, <3>1 DEF RowThere, Shapes, Shape, Idle
    <3> QED
      BY <1>3, <3>1, <3>2
  <2> QED
    BY <2>1 DEF RowThere
<1>10. LoadSound'
  BY <1>6 DEF LoadSound
<1> QED
  BY <1>2, <1>7, <1>8, <1>9, <1>10 DEF IInv

-----------------------------------------------------------------------------
(* The page.                                                               *)

(* The icons, where neither requests nor the list change.                  *)
LEMMA IconStays ==
  ASSUME Shapes, Shapes', \A q \in Requests : SameClick(q), NEW t \in Tracks,
         \A q \in On(t) : req'[q].fresh = req[q].fresh /\ req'[q].pc = req[q].pc,
         list' = list, icon'[t] = icon[t],
         On(t) = {} => icon[t] = createTrackTd(t),
         \A r \in On(t) : Single(r, t)
  PROVE  /\ On(t)' = {} => icon'[t] = createTrackTd(t)'
         /\ \A q \in On(t)' : Single(q, t)'
<1>1. On(t)' = On(t)
  BY SameClicks
<1>2. createTrackTd(t)' = createTrackTd(t)
  BY DEF createTrackTd, isInFavourites
<1>3. ASSUME NEW q \in On(t) PROVE Single(q, t)'
  <2>1. q \in Requests /\ req[q].track = t /\ Single(q, t)
    BY DEF On, Busy
  <2>2. req[q].op \in {"add", "remove"}
    BY <2>1, FavouritesAssumption DEF Shapes, Shape, Idle
  <2>3. req'[q].op = req[q].op
    BY <2>1, <2>2 DEF SameClick
  <2> QED
    BY <1>1, <1>3, <2>1, <2>3 DEF Single
<1> QED
  BY <1>1, <1>2, <1>3

LEMMA RedrawStep ==
  ASSUME IInv, NEW t \in Tracks, Redraw(t)
  PROVE  IInv'
<1>1. TypeOK /\ Shapes /\ RowThere /\ LoadSound /\ \A q \in Requests : req[q] \in Request
  BY DEF IInv, TypeOK, Request
<1>2. /\ UNCHANGED <<rows, list>> /\ icon' = [icon EXCEPT ![t] = createTrackTd(t)]
      /\ doubt' = IF On(t) # {} THEN doubt \union {t} ELSE doubt \ {t}
  BY DEF Redraw
<1>3. \A q \in Requests :
        req'[q] = IF q \in On(t) THEN Stale(req[q]) ELSE req[q]
  BY DEF Redraw, Stale
<1>4. ASSUME NEW q \in Requests
      PROVE  /\ req'[q] \in Request /\ req'[q].op = req[q].op /\ req'[q].track = req[q].track
             /\ req'[q].pc = req[q].pc /\ req'[q].index = req[q].index
             /\ req'[q].data = req[q].data
             /\ q \notin On(t) => req'[q] = req[q]
  BY <1>1, <1>3, StaleFacts
<1>5. \A q \in Requests : req[q].op = "load" => req'[q] = req[q]
  <2>1. \A q \in Requests : req[q].op = "load" => q \notin On(t)
    BY <1>1, FavouritesAssumption DEF On, Shapes, Shape, Idle
  <2> QED
    BY <1>4, <2>1
<1>6. TypeOK'
  <2>1. req' \in Records
    <3>1. req' = [q \in Requests |-> req'[q]]
      BY DEF Redraw
    <3> QED
      BY <1>4, <3>1 DEF Records
  <2>2. icon' \in [Tracks -> (SUBSET Icons) \ {{}}]
    <3>1. createTrackTd(t) \in (SUBSET Icons) \ {{}}
      BY DEF createTrackTd, Icons
    <3> QED
      BY <1>1, <1>2, <3>1 DEF TypeOK
  <2> QED
    BY <1>1, <1>2, <2>1, <2>2 DEF TypeOK, Records, Request
<1>7. Shapes'
  <2>1. ASSUME NEW q \in Requests PROVE Shape(req'[q])
    <3>1. Shape(req[q])
      BY <1>1 DEF Shapes
    <3>2. CASE q \notin On(t)
      BY <1>4, <3>1, <3>2
    <3>3. CASE q \in On(t)
      <4>1. req[q].pc # "idle"
        BY <3>3 DEF On, Busy
      <4> QED
        BY <1>4, <3>1, <4>1 DEF Shape, Idle
    <3> QED
      BY <3>2, <3>3
  <2> QED
    BY <2>1 DEF Shapes
<1>8. RowThere' /\ LoadSound'
  BY <1>1, <1>2, <1>4, <1>5 DEF RowThere, LoadSound
<1>9. ASSUME "list" \notin doubt' PROVE Certain'
  <2>1. Certain
    BY <1>2, <1>9, FavouritesAssumption DEF IInv
  <2>2. \A q \in Requests : SameClick(q)
    BY <1>1, <1>4 DEF SameClick, Shapes, Shape, Idle
  <2>3. OneTrack' /\ Twice' /\ PlaceHeld'
    BY <1>1, <1>2, <1>7, <2>1, <2>2, RemovalsStay DEF Certain
  <2>4. \A u \in Tracks : Added(u)' = Added(u) /\ Removed(u)' = Removed(u)
    BY <1>4 DEF Added, Removed
  <2>5. Balanced'
    BY <1>2, <2>1, <2>4, BalanceStays DEF Certain
  <2>6. ASSUME NEW u \in Tracks \ doubt'
        PROVE  /\ On(u)' = {} => icon'[u] = createTrackTd(u)'
               /\ \A q \in On(u)' : Single(q, u)'
    <3>1. CASE u = t
      <4>1. On(t) = {} /\ On(t)' = {}
        BY <1>1, <1>2, <1>7, <2>2, <2>6, <3>1, SameClicks
      <4>2. icon'[t] = createTrackTd(t) /\ createTrackTd(t)' = createTrackTd(t)
        BY <1>1, <1>2 DEF TypeOK, createTrackTd, isInFavourites
      <4> QED
        BY <3>1, <4>1, <4>2
    <3>2. CASE u # t
      <4>1. u \in Tracks \ doubt /\ icon'[u] = icon[u]
        BY <1>1, <1>2, <2>6, <3>2 DEF TypeOK
      <4>2. \A q \in On(u) : req'[q].fresh = req[q].fresh /\ req'[q].pc = req[q].pc
        BY <1>4, <3>2 DEF On, Busy
      <4> QED
        BY <1>1, <1>2, <1>7, <2>1, <2>2, <4>1, <4>2, IconStays DEF Certain, IconKept
    <3> QED
      BY <3>1, <3>2
  <2>7. IconKept'
    BY <2>6 DEF IconKept
  <2> QED
    BY <2>3, <2>5, <2>7 DEF Certain
<1> QED
  BY <1>6, <1>7, <1>8, <1>9 DEF IInv

(* A request that is answered or lost is gone, and the others are as before. *)
Ends(r) == req' = [req EXCEPT ![r] = Idle]

LEMMA Ended ==
  ASSUME TypeOK, Shapes, NEW r \in Requests, Ends(r)
  PROVE  /\ req' \in Records /\ Shapes' /\ req'[r] = Idle
         /\ \A q \in Requests : q # r => req'[q] = req[q]
<1>1. req \in Records /\ Idle \in Request
  BY DEF TypeOK, Records, Request, Idle, Steps
<1>2. req' \in Records /\ req'[r] = Idle /\ \A q \in Requests : q # r => req'[q] = req[q]
  BY <1>1 DEF Ends, Records
<1> QED
  BY <1>2 DEF Shapes, Shape

LEMMA EndedSound ==
  ASSUME TypeOK, Shapes, RowThere, LoadSound, rows' = rows, NEW r \in Requests, Ends(r)
  PROVE  RowThere' /\ LoadSound'
<1>1. req'[r] = Idle /\ \A q \in Requests : q # r => req'[q] = req[q]
  BY Ended
<1>2. req'[r].pc = "idle" /\ req'[r].op = "none"
  BY <1>1 DEF Idle
<1>3. RowThere'
  BY <1>1, <1>2 DEF RowThere
<1>4. LoadSound'
  BY <1>1, <1>2 DEF LoadSound
<1> QED
  BY <1>3, <1>4

LEMMA EndedSets ==
  ASSUME TypeOK, Shapes, NEW r \in Requests, Ends(r)
  PROVE  /\ Removing' = Removing \ {r}
         /\ \A t \in Tracks : /\ On(t)' = On(t) \ {r} /\ Adding(t)' = Adding(t) \ {r}
                              /\ Added(t)' = Added(t) \ {r}
                              /\ Removed(t)' = Removed(t) \ {r}
<1>1. req'[r] = Idle /\ \A q \in Requests : q # r => req'[q] = req[q]
  BY Ended
<1>2. req'[r].pc = "idle" /\ req'[r].op = "none"
  BY <1>1 DEF Idle
<1>3. Busy' = Busy \ {r}
  BY <1>1, <1>2 DEF Busy
<1>4. Removing' = Removing \ {r}
  BY <1>1, <1>3 DEF Removing, Busy
<1>5. ASSUME NEW t \in Tracks PROVE On(t)' = On(t) \ {r}
  BY <1>1, <1>3 DEF On, Busy
<1>6. ASSUME NEW t \in Tracks PROVE Adding(t)' = Adding(t) \ {r}
  <2>1. On(t)' = On(t) \ {r} /\ On(t) \subseteq Requests
    BY <1>5 DEF On, Busy
  <2> QED
    BY <1>1, <2>1 DEF Adding
<1>7. ASSUME NEW t \in Tracks
      PROVE  Added(t)' = Added(t) \ {r} /\ Removed(t)' = Removed(t) \ {r}
  BY <1>1, <1>2 DEF Added, Removed
<1> QED
  BY <1>4, <1>5, <1>6, <1>7

LEMMA OneLess ==
  ASSUME NEW S \in SUBSET Requests, NEW r \in S
  PROVE  /\ Cardinality(S) \in Nat /\ Cardinality(S \ {r}) \in Nat
         /\ Cardinality(S) = Cardinality(S \ {r}) + 1
<1>1. S \ {r} \in SUBSET Requests /\ r \in Requests /\ r \notin S \ {r} /\ (S \ {r}) \union {r} = S
  OBVIOUS
<1>2. /\ Cardinality(S \ {r}) \in Nat
      /\ Cardinality((S \ {r}) \union {r}) = Cardinality(S \ {r}) + 1
  <2> DEFINE T == S \ {r}
  <2>1. T \in SUBSET Requests /\ r \in Requests /\ r \notin T
    BY <1>1
  <2> HIDE DEF T
  <2>2. Cardinality(T) \in Nat /\ Cardinality(T \union {r}) = Cardinality(T) + 1
    BY <2>1, OneMore
  <2> QED
    BY <2>2 DEF T
<1>3. Cardinality(S) = Cardinality((S \ {r}) \union {r})
  BY <1>1
<1> QED
  BY <1>2, <1>3

(* The icon of a track that a step does not touch.                         *)
LEMMA IconApart ==
  ASSUME TypeOK, list' \in Seq(Tracks), NEW t \in Tracks,
         On(t)' = On(t), icon'[t] = icon[t],
         Occurrences(list', t) = Occurrences(list, t),
         \A q \in On(t) : req'[q] = req[q],
         On(t) = {} => icon[t] = createTrackTd(t),
         \A r \in On(t) : Single(r, t)
  PROVE  /\ On(t)' = {} => icon'[t] = createTrackTd(t)'
         /\ \A q \in On(t)' : Single(q, t)'
<1>1. list \in Seq(Tracks)
  BY DEF TypeOK
<1>2. createTrackTd(t) = IF Occurrences(list, t) > 0 THEN {"minus"} ELSE {"plus"}
  BY <1>1, Drawn
<1>3. createTrackTd(t)' = IF Occurrences(list', t) > 0 THEN {"minus"} ELSE {"plus"}
  BY DrawnNext
<1>4. createTrackTd(t)' = createTrackTd(t)
  BY <1>2, <1>3
<1>5. ASSUME NEW q \in On(t) PROVE Single(q, t)'
  <2>1. Single(q, t) /\ req'[q] = req[q]
    BY <1>5
  <2> QED
    BY <2>1 DEF Single
<1> QED
  BY <1>4, <1>5

LEMMA LoseStep ==
  ASSUME IInv, NEW r \in Requests, Lose(r)
  PROVE  IInv'
<1>1. /\ Ends(r) /\ req[r].pc # "idle" /\ UNCHANGED <<rows, list, icon>>
      /\ doubt' = doubt \union (IF req[r].op = "load" THEN {} ELSE {"list", req[r].track})
  BY DEF Lose, Ends
<1>2. TypeOK /\ Shapes /\ RowThere /\ LoadSound
  BY DEF IInv
<1>3. /\ req' \in Records /\ Shapes' /\ req'[r] = Idle
      /\ \A q \in Requests : q # r => req'[q] = req[q]
  BY <1>1, <1>2, Ended
<1>4. RowThere' /\ LoadSound'
  BY <1>1, <1>2, EndedSound
<1>5. \/ req[r].op = "load" /\ req[r].track = None
      \/ req[r].op # "load" /\ req[r].track \in Tracks
  <2>1. Shape(req[r]) /\ req[r].pc # "idle"
    BY <1>1, <1>2 DEF Shapes
  <2>2. req[r] # Idle
    BY <2>1 DEF Idle
  <2> QED
    BY <2>1, <2>2 DEF Shape
<1>6. doubt' \subseteq Tracks \union {"list"}
  BY <1>1, <1>2, <1>5 DEF TypeOK
<1>7. TypeOK'
  BY <1>1, <1>2, <1>3, <1>6 DEF TypeOK, Records, Request
<1>8. ASSUME "list" \notin doubt' PROVE Certain'
  <2>1. req[r].op = "load" /\ req[r].track = None /\ doubt' = doubt /\ Certain
    BY <1>1, <1>5, <1>8 DEF IInv
  <2>2. Removing' = Removing /\ \A u \in Tracks : /\ On(u)' = On(u) /\ Adding(u)' = Adding(u)
                                                  /\ Added(u)' = Added(u)
                                                  /\ Removed(u)' = Removed(u)
    <3>1. r \notin Removing /\ \A u \in Tracks : r \notin On(u) /\ r \notin Adding(u)
                                                 /\ r \notin Added(u) /\ r \notin Removed(u)
      <4>1. req[r].op # "remove" /\ \A u \in Tracks : req[r].track # u
        BY <2>1, FavouritesAssumption
      <4> QED
        BY <4>1 DEF Removing, On, Adding, Added, Removed
    <3>2. Removing' = Removing \ {r}
          /\ \A u \in Tracks : /\ On(u)' = On(u) \ {r} /\ Adding(u)' = Adding(u) \ {r}
                                /\ Added(u)' = Added(u) \ {r}
                                /\ Removed(u)' = Removed(u) \ {r}
      BY <1>1, <1>2, EndedSets
    <3>3. ASSUME NEW S, r \notin S PROVE S \ {r} = S
      BY <3>3
    <3> QED
      BY <3>1, <3>2, <3>3
  <2>3. Balanced'
    BY <1>1, <2>1, <2>2, BalanceStays DEF Certain
  <2>4. \A q \in Requests : SameClick(q)
    <3>1. SameClick(r)
      BY <1>3, <2>1 DEF SameClick, Idle
    <3>2. ASSUME NEW q \in Requests, q # r PROVE SameClick(q)
      BY <1>2, <1>3, <3>2, Untouched
    <3> QED
      BY <3>1, <3>2
  <2>5. OneTrack' /\ Twice' /\ PlaceHeld'
    BY <1>1, <1>2, <1>3, <2>1, <2>4, RemovalsStay DEF Certain
  <2>6. ASSUME NEW u \in Tracks \ doubt
        PROVE  /\ On(u)' = {} => icon'[u] = createTrackTd(u)'
               /\ \A q \in On(u)' : Single(q, u)'
    <3>1. \A q \in On(u) : req'[q] = req[q]
      BY <1>3, <2>1, FavouritesAssumption DEF On, Busy
    <3>2. /\ On(u) = {} => icon[u] = createTrackTd(u)
          /\ \A q \in On(u) : Single(q, u)
      BY <2>1 DEF Certain, IconKept
    <3>3. /\ On(u)' = On(u) /\ icon'[u] = icon[u] /\ list' \in Seq(Tracks)
          /\ Occurrences(list', u) = Occurrences(list, u)
      BY <1>1, <1>2, <2>2 DEF TypeOK
    <3> QED
      BY <1>2, <3>1, <3>2, <3>3, IconApart
  <2> QED
    BY <2>1, <2>3, <2>5, <2>6 DEF Certain, IconKept
<1> QED
  BY <1>3, <1>4, <1>7, <1>8 DEF IInv

(* The answer to a request to add a track.                                 *)
LEMMA AddReplyStep ==
  ASSUME IInv, NEW r \in Requests, AddReply(r)
  PROVE  IInv'
<1>1. TypeOK /\ Shapes /\ RowThere /\ LoadSound
  BY DEF IInv
<1>2. /\ Ends(r) /\ UNCHANGED <<rows, doubt>>
      /\ req[r].op = "add" /\ req[r].pc \in {"Success", "Error"}
  BY DEF AddReply, Answered, Ends
<1>3. PICK t \in Tracks : t = req[r].track
  BY <1>1, <1>2 DEF Shapes, Shape, Idle
<1>4. /\ list' = IF req[r].pc = "Success" THEN Append(list, t) ELSE list
      /\ icon' = IF req[r].fresh
                 THEN [icon EXCEPT ![t] = (@ \ {"clock"}) \union {"minus"}] ELSE icon
  BY <1>3 DEF AddReply, Answered
<1>5. /\ req' \in Records /\ Shapes' /\ req'[r] = Idle
      /\ \A q \in Requests : q # r => req'[q] = req[q]
      /\ RowThere' /\ LoadSound'
  BY <1>1, <1>2, Ended, EndedSound
<1>6. /\ list \in Seq(Tracks) /\ list' \in Seq(Tracks)
      /\ \A u \in Tracks :
           Occurrences(list', u) = Occurrences(list, u)
                                     + (IF u = t /\ req[r].pc = "Success" THEN 1 ELSE 0)
  <2>1. list \in Seq(Tracks)
    BY <1>1 DEF TypeOK
  <2>2. \A u \in Tracks : Occurrences(list, u) \in Nat
    BY <2>1, OccurrencesCount
  <2>3. CASE req[r].pc = "Success"
    <3>1. /\ Append(list, t) \in Seq(Tracks)
          /\ \A u \in Tracks : Occurrences(Append(list, t), u)
                                 = Occurrences(list, u) + (IF t = u THEN 1 ELSE 0)
      BY <2>1, OccurrencesAppend
    <3> QED
      BY <1>4, <2>1, <2>3, <3>1
  <2>4. CASE req[r].pc # "Success"
    BY <1>4, <2>1, <2>2, <2>4
  <2> QED
    BY <2>3, <2>4
<1>7. /\ icon' \in [Tracks -> (SUBSET Icons) \ {{}}]
      /\ \A u \in Tracks : u # t => icon'[u] = icon[u]
      /\ req[r].fresh => icon'[t] = (icon[t] \ {"clock"}) \union {"minus"}
  <2>1. icon \in [Tracks -> (SUBSET Icons) \ {{}}]
    BY <1>1 DEF TypeOK
  <2>2. (icon[t] \ {"clock"}) \union {"minus"} \in (SUBSET Icons) \ {{}}
    BY <2>1 DEF Icons
  <2> QED
    BY <1>4, <2>1, <2>2
<1>8. TypeOK'
  BY <1>1, <1>2, <1>5, <1>6, <1>7 DEF TypeOK, Records, Request
<1>9. ASSUME "list" \notin doubt' PROVE Certain'
  <2>1. Certain /\ "list" \notin doubt
    BY <1>2, <1>9 DEF IInv
  <2>2. /\ r \in Adding(t) /\ r \in On(t) /\ r \notin Removing
        /\ \A u \in Tracks : /\ u # t => r \notin On(u) /\ r \notin Adding(u)
                             /\ r \in Added(u) <=> u = t /\ req[r].pc = "Success"
                             /\ r \notin Removed(u)
    BY <1>2, <1>3 DEF Adding, On, Busy, Removing, Added, Removed
  <2>3. Removing' = Removing
        /\ \A u \in Tracks : /\ On(u)' = On(u) \ {r} /\ Adding(u)' = Adding(u) \ {r}
                             /\ Added(u)' = Added(u) \ {r}
                             /\ Removed(u)' = Removed(u)
    <3>1. Removing' = Removing \ {r}
          /\ \A u \in Tracks : /\ On(u)' = On(u) \ {r} /\ Adding(u)' = Adding(u) \ {r}
                               /\ Added(u)' = Added(u) \ {r}
                               /\ Removed(u)' = Removed(u) \ {r}
      BY <1>1, <1>2, EndedSets
    <3>2. ASSUME NEW S, r \notin S PROVE S \ {r} = S
      BY <3>2
    <3> QED
      BY <2>2, <3>1, <3>2
  <2>4. Balanced'
    <3>1. ASSUME NEW u \in Tracks
          PROVE  rows'[u] + Cardinality(Removed(u)') = Occurrences(list', u) + Cardinality(Added(u)')
      <4>1. rows[u] + Cardinality(Removed(u)) = Occurrences(list, u) + Cardinality(Added(u))
        BY <2>1 DEF Certain, Balanced
      <4>2. /\ Cardinality(Removed(u)) \in Nat /\ Cardinality(Added(u)) \in Nat
            /\ Occurrences(list, u) \in Nat /\ rows[u] \in Nat
        BY <1>1, Counts, OccurrencesCount DEF TypeOK
      <4>3. Cardinality(Removed(u)') = Cardinality(Removed(u)) /\ rows'[u] = rows[u]
        BY <1>2, <2>3
      <4>4. Added(u) \in SUBSET Requests /\ Added(u)' = Added(u) \ {r}
        BY <2>3 DEF Added
      <4>5. CASE r \in Added(u)
        <5>1. /\ Cardinality(Added(u) \ {r}) \in Nat
              /\ Cardinality(Added(u)) = Cardinality(Added(u) \ {r}) + 1
          BY <4>4, <4>5, OneLess
        <5>2. Cardinality(Added(u)') = Cardinality(Added(u) \ {r})
          BY <4>4
        <5>3. Occurrences(list', u) = Occurrences(list, u) + 1
          BY <1>6, <2>2, <4>5
        <5> QED
          BY <4>1, <4>2, <4>3, <5>1, <5>2, <5>3
      <4>6. CASE r \notin Added(u)
        <5>1. Added(u)' = Added(u)
          BY <4>4, <4>6
        <5>2. Occurrences(list', u) = Occurrences(list, u)
          BY <1>6, <2>2, <4>2, <4>6
        <5> QED
          BY <4>1, <4>3, <5>1, <5>2
      <4> QED
        BY <4>5, <4>6
    <3> QED
      BY <3>1 DEF Balanced
  <2>5. ASSUME NEW p \in Removing
        PROVE  /\ p \in Requests /\ req'[p] = req[p] /\ req[p].track \in Tracks
               /\ Adding(req[p].track)' \subseteq Adding(req[p].track)
               /\ Adding(req[p].track) = {} =>
                    Occurrences(list', req[p].track) = Occurrences(list, req[p].track)
    <3>1. p \in Requests /\ p # r /\ req[p].track \in Tracks
      BY <1>1, <2>2, <2>5 DEF Removing, Busy, Shapes, Shape, Idle
    <3>2. Adding(req[p].track) = {} => req[p].track # t
      BY <2>2
    <3>3. Occurrences(list, req[p].track) \in Nat
      BY <1>6, OccurrencesCount
    <3> QED
      BY <1>5, <1>6, <2>3, <3>1, <3>2, <3>3
  <2>6. OneTrack'
    BY <2>1, <2>3, <2>5 DEF Certain, OneTrack
  <2>7. Twice'
    BY <2>1, <2>3, <2>5 DEF Certain, Twice
  <2>8. PlaceHeld'
    <3>1. ASSUME NEW p \in Removing
          PROVE  \/ req'[p].index \in DOMAIN list' /\ list'[req'[p].index] = req'[p].track
                 \/ Occurrences(list', req'[p].track) = 0 /\ Adding(req[p].track)' = {}
      <4>1. CASE req[p].index \in DOMAIN list /\ list[req[p].index] = req[p].track
        <5>1. req[p].index \in DOMAIN list' /\ list'[req[p].index] = req[p].track
          <6>1. \A i \in DOMAIN list : i \in DOMAIN Append(list, t) /\ Append(list, t)[i] = list[i]
            BY <1>6
          <6> QED
            BY <1>4, <4>1, <6>1
        <5> QED
          BY <2>5, <5>1
      <4>2. CASE Occurrences(list, req[p].track) = 0 /\ Adding(req[p].track) = {}
        BY <2>5, <4>2
      <4> QED
        BY <2>1, <4>1, <4>2 DEF Certain, PlaceHeld
    <3> QED
      BY <2>3, <3>1 DEF PlaceHeld
  <2>9. ASSUME NEW u \in Tracks \ doubt
        PROVE  /\ On(u)' = {} => icon'[u] = createTrackTd(u)'
               /\ \A q \in On(u)' : Single(q, u)'
    <3>1. /\ On(u) = {} => icon[u] = createTrackTd(u)
          /\ \A q \in On(u) : Single(q, u)
      BY <2>1 DEF Certain, IconKept
    <3>2. CASE u = t
      <4>1. Single(r, t)
        BY <2>2, <3>1, <3>2
      <4>2. req[r].pc = "Success" /\ On(t)' = {} /\ icon'[t] = {"minus"}
        BY <1>2, <1>7, <2>3, <4>1 DEF Single
      <4>3. Occurrences(list', t) > 0
        BY <1>2, <1>6, <4>1, <4>2 DEF Single
      <4>4. createTrackTd(t)' = {"minus"}
        BY <1>6, <4>3, DrawnNext
      <4> QED
        BY <3>2, <4>2, <4>4
    <3>3. CASE u # t
      <4>1. r \notin On(u) /\ On(u)' = On(u)
        BY <2>2, <2>3, <3>3
      <4>2. \A q \in On(u) : req'[q] = req[q]
        BY <1>5, <4>1 DEF On, Busy
      <4>3. Occurrences(list', u) = Occurrences(list, u) /\ icon'[u] = icon[u]
        BY <1>6, <1>7, <3>3, OccurrencesCount
      <4> QED
        BY <1>1, <1>6, <3>1, <4>1, <4>2, <4>3, IconApart
    <3> QED
      BY <3>2, <3>3
  <2> QED
    BY <1>2, <2>4, <2>6, <2>7, <2>8, <2>9 DEF Certain, IconKept
<1> QED
  BY <1>5, <1>8, <1>9 DEF IInv

(* The answer to a request to remove a track: in a list that is not in     *)
(* doubt it finds the track at the place it has held.                      *)
LEMMA RemovesOne ==
  ASSUME IInv, "list" \notin doubt, NEW r \in Requests, NEW t \in Tracks,
         t = req[r].track, req[r].op = "remove", req[r].pc = "Success"
  PROVE  /\ req[r].index \in DOMAIN list /\ list[req[r].index] = t
         /\ r \in Removing /\ r \in Removed(t)
<1>1. Certain /\ TypeOK
  BY DEF IInv
<1>2. r \in Removing /\ r \in Removed(t)
  BY DEF Removing, Busy, Removed
<1>3. \/ req[r].index \in DOMAIN list /\ list[req[r].index] = t
      \/ Occurrences(list, t) = 0 /\ Adding(t) = {}
  BY <1>1, <1>2 DEF Certain, PlaceHeld
<1>4. ~ (Occurrences(list, t) = 0 /\ Adding(t) = {})
  <2>1. SUFFICES ASSUME Occurrences(list, t) = 0, Adding(t) = {} PROVE FALSE
    OBVIOUS
  <2>2. Added(t) = {}
    BY <2>1 DEF Added, Adding, On, Busy
  <2>3. /\ Cardinality(Removed(t)) \in Nat /\ Cardinality(Removed(t)) # 0
        /\ Cardinality(Added(t)) = 0 /\ rows[t] \in Nat
    BY <1>1, <1>2, <2>2, Counts DEF TypeOK
  <2>4. rows[t] + Cardinality(Removed(t)) = Occurrences(list, t) + Cardinality(Added(t))
    BY <1>1 DEF Certain, Balanced
  <2> QED
    BY <2>1, <2>3, <2>4
<1> QED
  BY <1>2, <1>3, <1>4

LEMMA RemoveReplyStep ==
  ASSUME IInv, NEW r \in Requests, RemoveReply(r)
  PROVE  IInv'
<1>1. TypeOK /\ Shapes /\ RowThere /\ LoadSound
  BY DEF IInv
<1>2. /\ Ends(r) /\ UNCHANGED <<rows, doubt>>
      /\ req[r].op = "remove" /\ req[r].pc \in {"Success", "Error"}
  BY DEF RemoveReply, Answered, Ends
<1>3. PICK t \in Tracks : t = req[r].track
  BY <1>1, <1>2 DEF Shapes, Shape, Idle
<1>4. /\ list' = IF req[r].pc = "Success" THEN Splice(list, req[r].index) ELSE list
      /\ icon' = IF req[r].fresh
                 THEN [icon EXCEPT ![t] = (@ \ {"clock"}) \union {"plus"}] ELSE icon
  BY <1>3 DEF RemoveReply, Answered
<1>5. /\ req' \in Records /\ Shapes' /\ req'[r] = Idle
      /\ \A q \in Requests : q # r => req'[q] = req[q]
      /\ RowThere' /\ LoadSound'
  BY <1>1, <1>2, Ended, EndedSound
<1>6. list \in Seq(Tracks) /\ list' \in Seq(Tracks)
  <2>1. list \in Seq(Tracks)
    BY <1>1 DEF TypeOK
  <2>2. CASE req[r].pc = "Success" /\ req[r].index \in DOMAIN list
    <3>1. RemoveAt(list, req[r].index) \in Seq(Tracks)
      BY <2>1, <2>2, OccurrencesRemove
    <3> QED
      BY <1>4, <2>1, <2>2, <3>1 DEF Splice
  <2>3. CASE ~ (req[r].pc = "Success" /\ req[r].index \in DOMAIN list)
    BY <1>4, <2>1, <2>3 DEF Splice
  <2> QED
    BY <2>2, <2>3
<1>7. /\ icon' \in [Tracks -> (SUBSET Icons) \ {{}}]
      /\ \A u \in Tracks : u # t => icon'[u] = icon[u]
      /\ req[r].fresh => icon'[t] = (icon[t] \ {"clock"}) \union {"plus"}
  <2>1. icon \in [Tracks -> (SUBSET Icons) \ {{}}]
    BY <1>1 DEF TypeOK
  <2>2. (icon[t] \ {"clock"}) \union {"plus"} \in (SUBSET Icons) \ {{}}
    BY <2>1 DEF Icons
  <2> QED
    BY <1>4, <2>1, <2>2
<1>8. TypeOK'
  BY <1>1, <1>2, <1>5, <1>6, <1>7 DEF TypeOK, Records, Request
<1>9. ASSUME "list" \notin doubt' PROVE Certain'
  <2>1. Certain /\ "list" \notin doubt
    BY <1>2, <1>9 DEF IInv
  <2>2. \A u \in Tracks :
          /\ Occurrences(list, u) \in Nat
          /\ Occurrences(list', u) = Occurrences(list, u)
                                       - (IF u = t /\ req[r].pc = "Success" THEN 1 ELSE 0)
    <3>1. \A u \in Tracks : Occurrences(list, u) \in Nat
      BY <1>6, OccurrencesCount
    <3>2. CASE req[r].pc = "Success"
      <4>1. req[r].index \in DOMAIN list /\ list[req[r].index] = t
        BY <1>2, <1>3, <2>1, <3>2, RemovesOne
      <4>2. \A u \in Tracks : Occurrences(RemoveAt(list, req[r].index), u)
                                = Occurrences(list, u) - (IF t = u THEN 1 ELSE 0)
        BY <1>6, <4>1, OccurrencesRemove
      <4>3. list' = RemoveAt(list, req[r].index)
        BY <1>4, <3>2, <4>1 DEF Splice
      <4> QED
        BY <3>1, <3>2, <4>2, <4>3
    <3>3. CASE req[r].pc # "Success"
      BY <1>4, <3>1, <3>3
    <3> QED
      BY <3>2, <3>3
  <2>3. /\ r \in Removing /\ r \in On(t)
        /\ \A u \in Tracks : /\ u # t => r \notin On(u)
                             /\ r \notin Adding(u) /\ r \notin Added(u)
                             /\ r \in Removed(u) <=> u = t /\ req[r].pc = "Success"
    BY <1>2, <1>3 DEF Adding, On, Busy, Removing, Added, Removed
  <2>4. Removing' = Removing \ {r}
        /\ \A u \in Tracks : /\ On(u)' = On(u) \ {r} /\ Adding(u)' = Adding(u)
                             /\ Added(u)' = Added(u)
                             /\ Removed(u)' = Removed(u) \ {r}
    <3>1. Removing' = Removing \ {r}
          /\ \A u \in Tracks : /\ On(u)' = On(u) \ {r} /\ Adding(u)' = Adding(u) \ {r}
                               /\ Added(u)' = Added(u) \ {r}
                               /\ Removed(u)' = Removed(u) \ {r}
      BY <1>1, <1>2, EndedSets
    <3>2. ASSUME NEW S, r \notin S PROVE S \ {r} = S
      BY <3>2
    <3> QED
      BY <2>3, <3>1, <3>2
  <2>5. Balanced'
    <3>1. ASSUME NEW u \in Tracks
          PROVE  rows'[u] + Cardinality(Removed(u)') = Occurrences(list', u) + Cardinality(Added(u)')
      <4>1. rows[u] + Cardinality(Removed(u)) = Occurrences(list, u) + Cardinality(Added(u))
        BY <2>1 DEF Certain, Balanced
      <4>2. /\ Cardinality(Removed(u)) \in Nat /\ Cardinality(Added(u)) \in Nat
            /\ Occurrences(list, u) \in Nat /\ rows[u] \in Nat
        BY <1>1, <2>2, Counts DEF TypeOK
      <4>3. Cardinality(Added(u)') = Cardinality(Added(u)) /\ rows'[u] = rows[u]
        BY <1>2, <2>4
      <4>4. Removed(u) \in SUBSET Requests /\ Removed(u)' = Removed(u) \ {r}
        BY <2>4 DEF Removed
      <4>5. CASE r \in Removed(u)
        <5>1. /\ Cardinality(Removed(u) \ {r}) \in Nat
              /\ Cardinality(Removed(u)) = Cardinality(Removed(u) \ {r}) + 1
          BY <4>4, <4>5, OneLess
        <5>2. Cardinality(Removed(u)') = Cardinality(Removed(u) \ {r})
          BY <4>4
        <5>3. Occurrences(list', u) = Occurrences(list, u) - 1
          BY <2>2, <2>3, <4>5
        <5> QED
          BY <4>1, <4>2, <4>3, <5>1, <5>2, <5>3
      <4>6. CASE r \notin Removed(u)
        <5>1. Removed(u)' = Removed(u)
          BY <4>4, <4>6
        <5>2. Occurrences(list', u) = Occurrences(list, u)
          BY <2>2, <2>3, <4>2, <4>6
        <5> QED
          BY <4>1, <4>3, <5>1, <5>2
      <4> QED
        BY <4>5, <4>6
    <3> QED
      BY <3>1 DEF Balanced
  <2>6. ASSUME NEW p \in Removing'
        PROVE  /\ p \in Requests /\ p \in Removing /\ p # r
               /\ req'[p] = req[p] /\ req[p].track = t
               /\ Occurrences(list, t) <= 1 /\ Adding(t) = {} /\ Adding(t)' = {}
    <3>1. p \in Requests /\ p \in Removing /\ p # r /\ req'[p] = req[p]
      BY <1>5, <2>4 DEF Removing, Busy
    <3>2. req[p].track = t
      BY <1>3, <2>1, <2>3, <3>1 DEF Certain, OneTrack
    <3>3. Occurrences(list, t) <= 1 /\ Adding(t) = {}
      BY <2>1, <2>3, <3>1, <3>2 DEF Certain, Twice
    <3> QED
      BY <2>4, <3>1, <3>2, <3>3
  <2>7. OneTrack'
    BY <2>6 DEF OneTrack
  <2>8. Twice'
    <3>1. Removing' # {} => Occurrences(list', t) <= 1
      BY <2>2, <2>6
    <3> QED
      BY <2>6, <3>1 DEF Twice
  <2>9. PlaceHeld'
    <3>1. ASSUME NEW p \in Removing'
          PROVE  \/ req[p].index \in DOMAIN list' /\ list'[req[p].index] = t
                 \/ Occurrences(list', t) = 0
      <4>1. CASE req[r].pc = "Success"
        <5>1. req[r].index \in DOMAIN list /\ list[req[r].index] = t
          BY <1>2, <1>3, <2>1, <4>1, RemovesOne
        <5>2. Occurrences(list, t) > 0
          BY <1>6, <5>1, OccurrencesCount
        <5> QED
          BY <2>2, <2>6, <4>1, <5>2
      <4>2. CASE req[r].pc # "Success"
        <5>1. list' = list
          BY <1>4, <4>2
        <5> QED
          BY <2>1, <2>6, <5>1 DEF Certain, PlaceHeld
      <4> QED
        BY <4>1, <4>2
    <3> QED
      BY <2>6, <3>1 DEF PlaceHeld
  <2>10. ASSUME NEW u \in Tracks \ doubt
         PROVE  /\ On(u)' = {} => icon'[u] = createTrackTd(u)'
                /\ \A q \in On(u)' : Single(q, u)'
    <3>1. /\ On(u) = {} => icon[u] = createTrackTd(u)
          /\ \A q \in On(u) : Single(q, u)
      BY <2>1 DEF Certain, IconKept
    <3>2. CASE u = t
      <4>1. Single(r, t)
        BY <2>3, <3>1, <3>2
      <4>2. req[r].pc = "Success" /\ On(t)' = {} /\ icon'[t] = {"plus"}
        BY <1>2, <1>7, <2>4, <4>1 DEF Single
      <4>3. Occurrences(list', t) = 0
        BY <1>2, <2>2, <4>1, <4>2 DEF Single
      <4>4. createTrackTd(t)' = {"plus"}
        BY <1>6, <4>3, DrawnNext
      <4> QED
        BY <3>2, <4>2, <4>4
    <3>3. CASE u # t
      <4>1. r \notin On(u) /\ On(u)' = On(u)
        BY <2>3, <2>4, <3>3
      <4>2. \A q \in On(u) : req'[q] = req[q]
        BY <1>5, <4>1 DEF On, Busy
      <4>3. Occurrences(list', u) = Occurrences(list, u) /\ icon'[u] = icon[u]
        BY <1>7, <2>2, <3>3
      <4> QED
        BY <1>1, <1>6, <3>1, <4>1, <4>2, <4>3, IconApart
    <3> QED
      BY <3>2, <3>3
  <2> QED
    BY <1>2, <2>5, <2>7, <2>8, <2>9, <2>10 DEF Certain, IconKept
<1> QED
  BY <1>5, <1>8, <1>9 DEF IInv

(* The answer to the list being asked for.                                 *)
LEMMA LoadReplyStep ==
  ASSUME IInv, NEW r \in Requests, LoadReply(r)
  PROVE  IInv'
<1>1. TypeOK /\ Shapes /\ RowThere /\ LoadSound
  BY DEF IInv
<1>2. /\ Ends(r) /\ UNCHANGED <<rows, icon>>
      /\ req[r].op = "load" /\ req[r].pc = "answer" /\ list' = req[r].data
      /\ doubt' = IF req[r].fresh
                  THEN (doubt \ {"list"}) \union Tracks ELSE doubt \union {"list"}
  BY DEF LoadReply, Ends
<1>3. /\ req' \in Records /\ Shapes' /\ req'[r] = Idle
      /\ \A q \in Requests : q # r => req'[q] = req[q]
      /\ RowThere' /\ LoadSound'
  BY <1>1, <1>2, Ended, EndedSound
<1>4. list' \in Seq(Tracks) /\ doubt' \subseteq Tracks \union {"list"}
  BY <1>1, <1>2 DEF TypeOK
<1>5. TypeOK'
  BY <1>1, <1>2, <1>3, <1>4 DEF TypeOK, Records, Request
<1>6. ASSUME "list" \notin doubt' PROVE Certain'
  <2>1. req[r].fresh /\ Tracks \ doubt' = {}
    BY <1>2, <1>6
  <2>2. /\ \A q \in Requests : req'[q].pc = "idle"
        /\ \A t \in Tracks : Occurrences(list', t) = rows'[t]
    <3>1. /\ \A q \in Requests : q # r => req[q].pc = "idle"
          /\ \A t \in Tracks : Occurrences(list', t) = rows'[t]
      BY <1>1, <1>2, <2>1 DEF LoadSound
    <3>2. req'[r].pc = "idle"
      BY <1>3 DEF Idle
    <3> QED
      BY <1>3, <3>1, <3>2
  <2>3. Removing' = {} /\ \A t \in Tracks : Added(t)' = {} /\ Removed(t)' = {}
    BY <2>2 DEF Removing, Busy, Added, Removed
  <2>4. Balanced'
    <3>1. \A t \in Tracks : rows'[t] \in Nat
      BY <1>5 DEF TypeOK
    <3>2. \A t \in Tracks : Cardinality(Added(t)') = 0 /\ Cardinality(Removed(t)') = 0
      BY <2>3, FS_EmptySet
    <3> QED
      BY <2>2, <3>1, <3>2 DEF Balanced
  <2>5. OneTrack' /\ Twice' /\ PlaceHeld'
    BY <2>3 DEF OneTrack, Twice, PlaceHeld
  <2>6. IconKept'
    BY <2>1 DEF IconKept
  <2> QED
    BY <2>4, <2>5, <2>6 DEF Certain
<1> QED
  BY <1>3, <1>5, <1>6 DEF IInv

(* A request that is sent: loads under way are no longer the only ones.    *)
Carries(r, op, t, pc, index) ==
  /\ req[r] = Idle
  /\ req'[r].op = op /\ req'[r].track = t /\ req'[r].pc = pc /\ req'[r].index = index

OthersKept(r) ==
  \A q \in Requests \ {r} :
    /\ req'[q].op = req[q].op /\ req'[q].track = req[q].track
    /\ req'[q].pc = req[q].pc /\ req'[q].index = req[q].index
    /\ req[q].op # "load" => req'[q] = req[q]
    /\ req[q].op = "load" => ~ req'[q].fresh

LEMMA Sent ==
  ASSUME TypeOK, Shapes, NEW r \in Requests, NEW op \in {"add", "remove", "load"},
         NEW t \in Tracks \union {None}, NEW pc \in Steps, NEW index \in Nat,
         NEW fresh \in BOOLEAN, Send(r, op, t, pc, index, fresh)
  PROVE  /\ req' \in Records /\ Carries(r, op, t, pc, index) /\ req'[r].fresh = fresh
         /\ OthersKept(r)
<1>1. \A q \in Requests : req[q] \in Request
  BY DEF TypeOK, Request
<1>2. PICK new :
        new = [Idle EXCEPT !.op = op, !.track = t, !.pc = pc, !.index = index,
                           !.fresh = fresh]
  OBVIOUS
<1>3. Idle \in Request
  BY DEF Idle, Request, Steps
<1>4. /\ new \in Request /\ new.fresh = fresh
      /\ new.op = op /\ new.track = t /\ new.pc = pc /\ new.index = index
  BY <1>2, <1>3 DEF Request
<1>5. /\ req[r].pc = "idle"
      /\ req' = [q \in Requests |->
           IF q = r THEN new
           ELSE IF req[q].op = "load" THEN Stale(req[q]) ELSE req[q]]
  BY <1>2 DEF Send, Stale
<1>6. req'[r] = new
  BY <1>5
<1>7. ASSUME NEW q \in Requests, q # r
      PROVE  /\ req'[q] \in Request
             /\ req'[q].op = req[q].op /\ req'[q].track = req[q].track
             /\ req'[q].pc = req[q].pc /\ req'[q].index = req[q].index
             /\ req[q].op # "load" => req'[q] = req[q]
             /\ req[q].op = "load" => ~ req'[q].fresh
  <2>1. req[q] \in Request
    BY <1>1
  <2>2. CASE req[q].op = "load"
    <3>1. req'[q] = Stale(req[q])
      BY <1>5, <1>7, <2>2
    <3> QED
      BY <2>1, <2>2, <3>1, StaleFacts
  <2>3. CASE req[q].op # "load"
    <3>1. req'[q] = req[q]
      BY <1>5, <1>7, <2>3
    <3> QED
      BY <2>1, <2>3, <3>1
  <2> QED
    BY <2>2, <2>3
<1>8. req' \in Records
  <2>1. \A q \in Requests : req'[q] \in Request
    BY <1>4, <1>6, <1>7
  <2>2. req' = [q \in Requests |-> req'[q]]
    BY <1>5
  <2> QED
    BY <2>1, <2>2 DEF Records
<1>9. req[r] = Idle
  BY <1>5 DEF Shapes, Shape
<1>10. Carries(r, op, t, pc, index)
  BY <1>4, <1>6, <1>9 DEF Carries
<1>11. req'[r].fresh = fresh
  BY <1>4, <1>6
<1>12. OthersKept(r)
  BY <1>7 DEF OthersKept
<1> QED
  BY <1>8, <1>10, <1>11, <1>12

LEMMA SentSound ==
  ASSUME TypeOK, Shapes, RowThere, rows' = rows,
         NEW r \in Requests, NEW op \in {"add", "remove", "load"},
         NEW t \in Tracks \union {None}, NEW pc \in Steps \ {"delete", "answer"},
         NEW index \in Nat, NEW fresh \in BOOLEAN, Send(r, op, t, pc, index, fresh),
         op = "load" /\ fresh => Busy = {}
  PROVE  RowThere' /\ LoadSound'
<1>0. /\ req' \in Records /\ Carries(r, op, t, pc, index) /\ req'[r].fresh = fresh
      /\ OthersKept(r)
  BY Sent
<1>1. /\ req'[r].op = op /\ req'[r].track = t /\ req'[r].pc = pc /\ req'[r].fresh = fresh
      /\ \A q \in Requests : q # r =>
           /\ req'[q].op = req[q].op /\ req'[q].track = req[q].track
           /\ req'[q].pc = req[q].pc
           /\ req[q].op # "load" => req'[q] = req[q]
           /\ req[q].op = "load" => ~ req'[q].fresh
  BY <1>0 DEF Carries, OthersKept
<1>2. RowThere'
  BY <1>1 DEF RowThere
<1>3. LoadSound'
  <2>1. ASSUME NEW p \in Requests, req'[p].op = "load", req'[p].fresh
        PROVE  /\ \A q \in Requests : q # p => req'[q].pc = "idle"
               /\ req'[p].pc # "answer"
    <3>1. p = r
      BY <1>1, <2>1
    <3>2. Busy = {}
      BY <1>1, <2>1, <3>1
    <3>3. \A q \in Requests : req[q].pc = "idle"
      BY <3>2 DEF Busy
    <3> QED
      BY <1>1, <3>1, <3>3
  <2> QED
    BY <2>1 DEF LoadSound
<1> QED
  BY <1>2, <1>3

LEMMA LoadStep ==
  ASSUME IInv, NEW r \in Requests, Load(r)
  PROVE  IInv'
<1>1. TypeOK /\ Shapes /\ RowThere /\ LoadSound
  BY DEF IInv
<1>2. PICK fresh \in BOOLEAN :
        /\ fresh <=> Busy = {}
        /\ Send(r, "load", None, "list", 0, fresh) /\ UNCHANGED <<rows, list, icon, doubt>>
  BY DEF Load
<1>3. /\ req' \in Records
      /\ req[r] = Idle
      /\ req'[r].op = "load" /\ req'[r].track = None /\ req'[r].pc = "list"
      /\ \A q \in Requests : q # r =>
           /\ req'[q].op = req[q].op /\ req'[q].track = req[q].track
           /\ req'[q].pc = req[q].pc /\ req'[q].index = req[q].index
           /\ req[q].op # "load" => req'[q] = req[q]
  <2>1. "list" \in Steps /\ "load" \in {"add", "remove", "load"} /\ 0 \in Nat
    BY DEF Steps
  <2>2. req' \in Records /\ Carries(r, "load", None, "list", 0) /\ OthersKept(r)
    BY <1>1, <1>2, <2>1, Sent
  <2> QED
    BY <2>2 DEF Carries, OthersKept
<1>4. RowThere' /\ LoadSound'
  BY <1>1, <1>2, SentSound DEF Steps
<1>5. TypeOK'
  BY <1>1, <1>2, <1>3 DEF TypeOK, Records, Request
<1>6. Shapes'
  <2>1. ASSUME NEW q \in Requests PROVE Shape(req'[q])
    <3>1. CASE q = r
      BY <1>3, <3>1 DEF Shape
    <3>2. CASE q # r /\ req[q].op # "load"
      BY <1>1, <1>3, <3>2 DEF Shapes
    <3>3. CASE q # r /\ req[q].op = "load"
      <4>1. Shape(req[q]) /\ req[q] # Idle
        BY <1>1, <3>3 DEF Shapes, Idle
      <4> QED
        BY <1>3, <3>3, <4>1 DEF Shape
    <3> QED
      BY <3>1, <3>2, <3>3
  <2> QED
    BY <2>1 DEF Shapes
<1>7. ASSUME "list" \notin doubt' PROVE Certain'
  <2>1. Certain
    BY <1>2, <1>7 DEF IInv
  <2>2. req[r].op = "none" /\ req[r].track = None /\ req[r].pc = "idle"
    BY <1>3 DEF Idle
  <2>3. \A q \in Requests : SameClick(q)
    <3>1. SameClick(r)
      BY <1>3, <2>2 DEF SameClick
    <3>2. ASSUME NEW q \in Requests, q # r PROVE SameClick(q)
      BY <1>1, <1>3, <3>2 DEF SameClick, Shapes, Shape, Idle
    <3> QED
      BY <3>1, <3>2
  <2>4. OneTrack' /\ Twice' /\ PlaceHeld'
    BY <1>1, <1>2, <1>6, <2>1, <2>3, RemovalsStay DEF Certain
  <2>5. \A u \in Tracks : Added(u)' = Added(u) /\ Removed(u)' = Removed(u)
    <3>1. ASSUME NEW u \in Tracks, NEW q \in Requests
          PROVE  q \in Added(u)' <=> q \in Added(u)
      BY <1>3, <2>2 DEF Added
    <3>2. ASSUME NEW u \in Tracks, NEW q \in Requests
          PROVE  q \in Removed(u)' <=> q \in Removed(u)
      BY <1>3, <2>2 DEF Removed
    <3>3. \A u \in Tracks : /\ Added(u) \subseteq Requests /\ Added(u)' \subseteq Requests
                            /\ Removed(u) \subseteq Requests /\ Removed(u)' \subseteq Requests
      BY DEF Added, Removed
    <3> QED
      BY <3>1, <3>2, <3>3
  <2>6. Balanced'
    BY <1>2, <2>1, <2>5, BalanceStays DEF Certain
  <2>7. ASSUME NEW u \in Tracks \ doubt'
        PROVE  /\ On(u)' = {} => icon'[u] = createTrackTd(u)'
               /\ \A q \in On(u)' : Single(q, u)'
    <3>1. ASSUME NEW q \in On(u) PROVE q \in Requests /\ q # r /\ req'[q] = req[q]
      <4>1. q \in Requests /\ req[q].pc # "idle" /\ req[q].track = u
        BY DEF On, Busy
      <4>2. req[q].op # "load"
        <5>1. Shape(req[q]) /\ req[q].track # None
          BY <1>1, <4>1, FavouritesAssumption DEF Shapes
        <5> QED
          BY <5>1 DEF Shape, Idle
      <4> QED
        BY <1>3, <2>2, <4>1, <4>2
    <3>2. /\ On(u) = {} => icon[u] = createTrackTd(u)
          /\ \A q \in On(u) : Single(q, u)
      BY <1>2, <2>1 DEF Certain, IconKept
    <3>3. On(u)' = On(u)
      BY <1>1, <1>6, <2>3, SameClicks
    <3>4. /\ icon'[u] = icon[u] /\ list' \in Seq(Tracks)
          /\ Occurrences(list', u) = Occurrences(list, u)
      BY <1>1, <1>2 DEF TypeOK
    <3> QED
      BY <1>1, <3>1, <3>2, <3>3, <3>4, IconApart
  <2> QED
    BY <2>1, <2>4, <2>6, <2>7 DEF Certain, IconKept
<1> QED
  BY <1>4, <1>5, <1>6, <1>7 DEF IInv

(* Sets of requests, when one is sent and no list is loaded.               *)
LEMMA SentSets ==
  ASSUME TypeOK, Shapes, NEW r \in Requests, NEW t \in Tracks,
         req[r] = Idle, req'[r].track = t, req'[r].pc \in {"check", "lookup"},
         \A q \in Requests : q # r => req'[q] = req[q]
  PROVE  /\ r \notin Removing /\ \A u \in Tracks : r \notin On(u)
         /\ Removing' = Removing \union (IF req'[r].op = "remove" THEN {r} ELSE {})
         /\ On(t)' = On(t) \union {r}
         /\ Adding(t)' = Adding(t) \union (IF req'[r].op = "add" THEN {r} ELSE {})
         /\ \A u \in Tracks : /\ u # t => On(u)' = On(u) /\ Adding(u)' = Adding(u)
                              /\ Added(u)' = Added(u) /\ Removed(u)' = Removed(u)
<1>1. req[r].pc = "idle" /\ req[r].op = "none" /\ req'[r].pc # "idle"
  BY DEF Idle
<1>2. r \notin Busy /\ Busy' = Busy \union {r} /\ Busy \subseteq Requests
  BY <1>1 DEF Busy
<1>3. r \notin Removing /\ \A u \in Tracks : r \notin On(u) /\ On(u) \subseteq Requests
  BY <1>2 DEF Removing, On
<1>4. Removing' = Removing \union (IF req'[r].op = "remove" THEN {r} ELSE {})
  BY <1>2 DEF Removing
<1>5. On(t)' = On(t) \union {r} /\ \A u \in Tracks : u # t => On(u)' = On(u)
  BY <1>2 DEF On
<1>6. Adding(t)' = Adding(t) \union (IF req'[r].op = "add" THEN {r} ELSE {})
  BY <1>3, <1>5 DEF Adding
<1>7. ASSUME NEW u \in Tracks, u # t PROVE Adding(u)' = Adding(u)
  <2>1. On(u)' = On(u) /\ \A q \in On(u) : req'[q] = req[q]
    BY <1>3, <1>5, <1>7
  <2> QED
    BY <2>1 DEF Adding
<1>8. ASSUME NEW u \in Tracks PROVE Added(u)' = Added(u) /\ Removed(u)' = Removed(u)
  BY <1>1 DEF Added, Removed
<1> QED
  BY <1>3, <1>4, <1>5, <1>6, <1>7, <1>8

LEMMA ClickStep ==
  ASSUME IInv, NEW r \in Requests, NEW t \in Tracks, Click(r, t)
  PROVE  IInv'
<1>1. TypeOK /\ Shapes /\ RowThere /\ LoadSound /\ list \in Seq(Tracks)
  BY DEF IInv, TypeOK
<1>2. PICK index \in Nat :
        /\ index = isInFavourites(t)
        /\ index > 0 <=> Occurrences(list, t) > 0
        /\ index > 0 => index \in DOMAIN list /\ list[index] = t
  BY <1>1, Drawn, Found
<1>3. PICK op \in {"add", "remove"}, pc \in {"check", "lookup"}, fresh \in BOOLEAN :
        /\ IF index > 0 THEN op = "remove" /\ pc = "lookup" ELSE op = "add" /\ pc = "check"
        /\ fresh
        /\ Send(r, op, t, pc, index, fresh)
  <2>1. CASE index > 0
    <3>1. Send(r, "remove", t, "lookup", index, TRUE)
      BY <1>2, <2>1, Zenon DEF Click
    <3> QED
      BY <2>1, <3>1, Zenon
  <2>2. CASE index = 0
    <3>1. ~ (index > 0) /\ index = isInFavourites(t)
      BY <1>2, <2>2
    <3>2. Send(r, "add", t, "check", 0, TRUE)
      BY <3>1, Zenon DEF Click
    <3>3. Send(r, "add", t, "check", index, TRUE)
      BY <2>2, <3>2, Zenon
    <3> QED
      BY <3>1, <3>3, Zenon
  <2> QED
    BY <2>1, <2>2
<1>4. /\ icon' = [icon EXCEPT ![t] = (@ \ {"plus", "minus"}) \union {"clock"}]
      /\ doubt' = doubt \union Unsettled(t, index) /\ UNCHANGED <<rows, list>>
  BY <1>2 DEF Click
<1>5. pc \in Steps \ {"delete", "answer"} /\ op \in {"add", "remove", "load"}
  BY DEF Steps
<1>6. /\ req' \in Records /\ req[r] = Idle
      /\ req'[r].op = op /\ req'[r].track = t /\ req'[r].pc = pc
      /\ req'[r].index = index /\ req'[r].fresh
      /\ \A q \in Requests : q # r =>
           /\ req'[q].op = req[q].op /\ req'[q].track = req[q].track
           /\ req'[q].pc = req[q].pc /\ req'[q].index = req[q].index
           /\ req[q].op # "load" => req'[q] = req[q]
  <2>1. t \in Tracks \union {None} /\ pc \in Steps
    BY <1>5
  <2>2. Send(r, op, t, pc, index, fresh) /\ fresh
    BY <1>3
  <2>3. /\ req' \in Records /\ Carries(r, op, t, pc, index) /\ req'[r].fresh = fresh
        /\ OthersKept(r)
    BY <1>1, <1>5, <2>1, <2>2, Sent, Zenon
  <2> QED
    BY <2>2, <2>3 DEF Carries, OthersKept
<1>7. RowThere' /\ LoadSound'
  BY <1>1, <1>3, <1>4, <1>5, SentSound
<1>8. /\ icon' \in [Tracks -> (SUBSET Icons) \ {{}}]
      /\ \A u \in Tracks : u # t => icon'[u] = icon[u]
      /\ icon'[t] = (icon[t] \ {"plus", "minus"}) \union {"clock"}
  <2>1. icon \in [Tracks -> (SUBSET Icons) \ {{}}]
    BY <1>1 DEF TypeOK
  <2>2. (icon[t] \ {"plus", "minus"}) \union {"clock"} \in (SUBSET Icons) \ {{}}
    BY <2>1 DEF Icons
  <2> QED
    BY <1>4, <2>1, <2>2
<1>9. TypeOK'
  <2>1. doubt' \subseteq Tracks \union {"list"}
    BY <1>1, <1>4 DEF TypeOK, Unsettled
  <2> QED
    BY <1>1, <1>4, <1>6, <1>8, <2>1 DEF TypeOK, Records, Request
<1>10. Shapes'
  <2>1. ASSUME NEW q \in Requests PROVE Shape(req'[q])
    <3>1. CASE q = r
      BY <1>3, <1>6, <3>1 DEF Shape
    <3>2. CASE q # r /\ req[q].op # "load"
      BY <1>1, <1>6, <3>2 DEF Shapes
    <3>3. CASE q # r /\ req[q].op = "load"
      <4>1. Shape(req[q]) /\ req[q] # Idle
        BY <1>1, <3>3 DEF Shapes, Idle
      <4> QED
        BY <1>6, <3>3, <4>1 DEF Shape
    <3> QED
      BY <3>1, <3>2, <3>3
  <2> QED
    BY <2>1 DEF Shapes
<1>11. ASSUME "list" \notin doubt' PROVE Certain'
  <2>1. /\ Certain /\ Loading = {}
        /\ index = 0 => Removing \intersect On(t) = {}
        /\ index > 0 => Removing \subseteq On(t)
        /\ index > 0 /\ Removing # {} => Adding(t) = {} /\ Occurrences(list, t) <= 1
    <3>1. "list" \notin doubt /\ "list" \notin Unsettled(t, index)
      BY <1>4, <1>11
    <3>2. Occurrences(list, t) \in Nat
      BY <1>1, OccurrencesCount
    <3> QED
      BY <3>1, <3>2 DEF IInv, Unsettled
  <2>2. \A q \in Requests : q # r => req'[q] = req[q]
    <3>1. ASSUME NEW q \in Requests PROVE req[q].op # "load"
      <4>1. Shape(req[q]) /\ q \notin Loading
        BY <1>1, <2>1 DEF Shapes
      <4> QED
        BY <4>1 DEF Loading, Busy, Shape, Idle
    <3> QED
      BY <1>6, <3>1
  <2>3. /\ r \notin Removing /\ \A u \in Tracks : r \notin On(u)
        /\ Removing' = Removing \union (IF op = "remove" THEN {r} ELSE {})
        /\ On(t)' = On(t) \union {r}
        /\ Adding(t)' = Adding(t) \union (IF op = "add" THEN {r} ELSE {})
        /\ \A u \in Tracks : /\ u # t => On(u)' = On(u) /\ Adding(u)' = Adding(u)
                             /\ Added(u)' = Added(u) /\ Removed(u)' = Removed(u)
    BY <1>1, <1>6, <2>2, SentSets
  <2>4. Balanced'
    BY <1>4, <2>1, <2>3, BalanceStays DEF Certain
  <2>5. ASSUME NEW p \in Removing
        PROVE  /\ p \in Requests /\ req'[p] = req[p] /\ req[p].track \in Tracks
               /\ index = 0 => req[p].track # t
               /\ index > 0 => req[p].track = t
               /\ Adding(req[p].track)' = Adding(req[p].track)
    <3>1. /\ p \in Requests /\ req'[p] = req[p] /\ req[p].track \in Tracks /\ p \in Busy
      BY <1>1, <2>2, <2>3, <2>5 DEF Removing, Busy, Shapes, Shape, Idle
    <3>2. index = 0 => req[p].track # t
      BY <2>1, <2>5, <3>1 DEF On
    <3>3. index > 0 => req[p].track = t
      BY <2>1, <2>5 DEF On
    <3>4. CASE index = 0
      BY <2>3, <3>1, <3>2, <3>4
    <3>5. CASE index > 0
      <4>1. op = "remove"
        BY <1>3, <3>5
      <4> QED
        BY <2>3, <3>1, <3>3, <3>5, <4>1
    <3> QED
      BY <3>1, <3>2, <3>3, <3>4, <3>5
  <2>6. OneTrack' /\ Twice' /\ PlaceHeld'
    <3>1. CASE index = 0
      <4>1. Removing' = Removing
        BY <1>3, <2>3, <3>1
      <4>2. OneTrack'
        BY <2>1, <2>5, <4>1 DEF Certain, OneTrack
      <4>3. Twice'
        BY <1>4, <2>1, <2>5, <4>1 DEF Certain, Twice
      <4>4. PlaceHeld'
        BY <1>4, <2>1, <2>5, <4>1 DEF Certain, PlaceHeld
      <4> QED
        BY <4>2, <4>3, <4>4
    <3>2. CASE index > 0
      <4>1. Removing' = Removing \union {r} /\ Adding(t)' = Adding(t)
        BY <1>3, <2>3, <3>2
      <4>2. \A p \in Removing' : req'[p].track = t
        BY <1>6, <2>5, <3>2, <4>1
      <4>3. OneTrack'
        BY <4>2 DEF OneTrack
      <4>4. Twice'
        <5>1. ASSUME NEW p \in Removing', NEW q \in Removing', p # q
              PROVE  Occurrences(list', t) <= 1 /\ Adding(t)' = {}
          <6>1. Removing # {}
            BY <4>1, <5>1
          <6> QED
            BY <1>4, <2>1, <3>2, <4>1, <6>1
        <5> QED
          BY <4>2, <5>1 DEF Twice
      <4>5. PlaceHeld'
        <5>1. ASSUME NEW p \in Removing
              PROVE  \/ req'[p].index \in DOMAIN list' /\ list'[req'[p].index] = t
                     \/ Occurrences(list', t) = 0 /\ Adding(t)' = {}
          <6>1. req'[p] = req[p] /\ req[p].track = t
            BY <2>5, <3>2
          <6>2. \/ req[p].index \in DOMAIN list /\ list[req[p].index] = t
                \/ Occurrences(list, t) = 0 /\ Adding(t) = {}
            BY <2>1, <6>1 DEF Certain, PlaceHeld
          <6> QED
            BY <1>4, <4>1, <6>1, <6>2
        <5>2. req'[r].index \in DOMAIN list' /\ list'[req'[r].index] = t
          BY <1>2, <1>4, <1>6, <3>2
        <5> QED
          BY <4>1, <4>2, <5>1, <5>2 DEF PlaceHeld
      <4> QED
        BY <4>3, <4>4, <4>5
    <3> QED
      BY <3>1, <3>2
  <2>7. ASSUME NEW u \in Tracks \ doubt'
        PROVE  /\ On(u)' = {} => icon'[u] = createTrackTd(u)'
               /\ \A q \in On(u)' : Single(q, u)'
    <3>1. /\ On(u) = {} => icon[u] = createTrackTd(u)
          /\ \A q \in On(u) : Single(q, u)
      BY <1>4, <2>1 DEF Certain, IconKept
    <3>2. CASE u = t
      <4>1. On(t) = {} /\ Occurrences(list, t) \in Nat /\ Occurrences(list, t) <= 1
        <5>1. t \notin Unsettled(t, index) /\ t # "list"
          BY <1>4, <3>2, FavouritesAssumption
        <5>2. Occurrences(list, t) \in Nat
          BY <1>1, OccurrencesCount
        <5> QED
          BY <5>1, <5>2 DEF Unsettled
      <4>2. On(t)' = {r} /\ icon[t] \subseteq {"minus", "plus"} /\ icon'[t] = {"clock"}
        <5>1. icon[t] \subseteq {"minus", "plus"}
          BY <3>1, <3>2, <4>1 DEF createTrackTd
        <5> QED
          BY <1>8, <2>3, <4>1, <5>1
      <4>3. /\ op = "add" => Occurrences(list', t) = 0
            /\ op = "remove" => Occurrences(list', t) = 1
        BY <1>2, <1>3, <1>4, <4>1
      <4>4. Single(r, t)'
        BY <1>6, <4>2, <4>3 DEF Single
      <4> QED
        BY <3>2, <4>2, <4>4
    <3>3. CASE u # t
      <4>1. r \notin On(u) /\ On(u)' = On(u)
        BY <2>3, <3>3
      <4>2. \A q \in On(u) : req'[q] = req[q]
        BY <2>2, <4>1 DEF On, Busy
      <4>3. /\ icon'[u] = icon[u] /\ list' \in Seq(Tracks)
            /\ Occurrences(list', u) = Occurrences(list, u)
        BY <1>1, <1>4, <1>8, <3>3
      <4> QED
        BY <1>1, <3>1, <4>1, <4>2, <4>3, IconApart
    <3> QED
      BY <3>2, <3>3
  <2> QED
    BY <2>4, <2>6, <2>7 DEF Certain, IconKept
<1> QED
  BY <1>7, <1>9, <1>10, <1>11 DEF IInv

-----------------------------------------------------------------------------
(* The theorems.                                                           *)

(* The sequences of a set have each of its members once.                   *)
LEMMA ListedOnce ==
  ASSUME NEW S \in SUBSET Tracks, NEW s \in SetToSeqs(S)
  PROVE  /\ s \in Seq(Tracks)
         /\ \A t \in Tracks : Occurrences(s, t) = IF t \in S THEN 1 ELSE 0
<1>1. IsFiniteSet(S)
  BY FS_Subset, FavouritesAssumption
<1>2. PICK n \in Nat : n = Cardinality(S)
  BY <1>1, FS_CardinalityType
<1>3. /\ s \in [1..n -> S]
      /\ \A i, j \in 1..n : i # j => s[i] # s[j]
  BY <1>2 DEF SetToSeqs
<1>4. s \in Seq(Tracks) /\ DOMAIN s = 1..n
  BY <1>3
<1>5. s \in Injection(1..n, S)
  BY <1>3 DEF Injection, IsInjective
<1>6. Cardinality(1..n) = n
  BY FS_Interval
<1>7. s \in Surjection(1..n, S)
  BY <1>1, <1>2, <1>5, <1>6, FS_Injection
<1>8. ASSUME NEW t \in Tracks PROVE Occurrences(s, t) = IF t \in S THEN 1 ELSE 0
  <2>1. Occurrences(s, t) = Cardinality(Places(s, t))
    BY <1>4, OccurrencesCount
  <2>2. CASE t \in S
    <3>1. PICK i \in 1..n : s[i] = t
      BY <1>7, <2>2 DEF Surjection
    <3>2. Places(s, t) = {i}
      BY <1>3, <1>4, <3>1 DEF Places
    <3> QED
      BY <2>1, <2>2, <3>2, FS_Singleton
  <2>3. CASE t \notin S
    <3>1. Places(s, t) = {}
      BY <1>3, <1>4, <2>3 DEF Places
    <3> QED
      BY <2>1, <2>3, <3>1, FS_EmptySet
  <2> QED
    BY <2>2, <2>3
<1> QED
  BY <1>4, <1>8

LEMMA InitHolds == Init => IInv
<1>1. SUFFICES ASSUME Init PROVE IInv
  OBVIOUS
<1>2. PICK S \in SUBSET Tracks :
        list \in SetToSeqs(S) /\ rows = [t \in Tracks |-> IF t \in S THEN 1 ELSE 0]
  BY <1>1 DEF Init
<1>3. /\ icon = [t \in Tracks |-> createTrackTd(t)]
      /\ req = [r \in Requests |-> Idle] /\ doubt = {}
  BY <1>1 DEF Init
<1>4. /\ list \in Seq(Tracks) /\ rows \in [Tracks -> Nat]
      /\ \A t \in Tracks : Occurrences(list, t) = rows[t] /\ rows[t] \in Nat
  BY <1>2, ListedOnce
<1>5. \A r \in Requests : req[r] = Idle /\ req[r].pc = "idle" /\ req[r].op = "none"
  BY <1>3 DEF Idle
<1>6. TypeOK
  <2>1. \A t \in Tracks : createTrackTd(t) \in (SUBSET Icons) \ {{}}
    BY DEF createTrackTd, Icons
  <2>2. Idle \in Request
    BY DEF Idle, Request, Steps
  <2>3. req \in Records
    BY <1>3, <2>2 DEF Records
  <2> QED
    BY <1>3, <1>4, <2>1, <2>3 DEF TypeOK, Records, Request
<1>7. Shapes /\ RowThere /\ LoadSound
  BY <1>5 DEF Shapes, Shape, RowThere, LoadSound
<1>8. /\ Removing = {}
      /\ \A t \in Tracks : On(t) = {} /\ Added(t) = {} /\ Removed(t) = {}
  BY <1>5 DEF Removing, On, Busy, Added, Removed
<1>9. Balanced
  <2>1. \A t \in Tracks : Cardinality(Added(t)) = 0 /\ Cardinality(Removed(t)) = 0
    BY <1>8, FS_EmptySet
  <2> QED
    BY <1>4, <2>1 DEF Balanced
<1>10. OneTrack /\ Twice /\ PlaceHeld
  BY <1>8 DEF OneTrack, Twice, PlaceHeld
<1>11. IconKept
  BY <1>3, <1>8 DEF IconKept
<1> QED
  BY <1>6, <1>7, <1>9, <1>10, <1>11 DEF IInv, Certain

LEMMA StutterHolds == IInv /\ UNCHANGED vars => IInv'
<1>1. SUFFICES ASSUME IInv, UNCHANGED vars PROVE IInv'
  OBVIOUS
<1>2. UNCHANGED <<rows, list, icon, req, doubt>>
  BY <1>1 DEF vars
<1>3. TypeOK' /\ Shapes' /\ RowThere' /\ LoadSound'
  BY <1>1, <1>2 DEF IInv, TypeOK, Shapes, RowThere, LoadSound
<1>4. /\ Busy' = Busy /\ Removing' = Removing
      /\ \A t \in Tracks : /\ On(t)' = On(t) /\ Adding(t)' = Adding(t)
                           /\ Added(t)' = Added(t) /\ Removed(t)' = Removed(t)
                           /\ createTrackTd(t)' = createTrackTd(t)
  BY <1>2 DEF Busy, Removing, On, Adding, Added, Removed, createTrackTd, isInFavourites
<1>5. ASSUME "list" \notin doubt' PROVE Certain'
  <2>1. Certain
    BY <1>1, <1>2, <1>5 DEF IInv
  <2>2. Balanced'
    BY <1>2, <1>4, <2>1, BalanceStays DEF Certain
  <2>3. \A p \in Removing : p \in Requests /\ req[p].track \in Tracks
    BY <1>1 DEF IInv, Removing, Busy, Shapes, Shape, Idle
  <2>4. OneTrack' /\ Twice' /\ PlaceHeld'
    BY <1>2, <1>4, <2>1, <2>3 DEF Certain, OneTrack, Twice, PlaceHeld
  <2>5. IconKept'
    BY <1>2, <1>4, <2>1 DEF Certain, IconKept, Single
  <2> QED
    BY <2>2, <2>4, <2>5 DEF Certain
<1> QED
  BY <1>3, <1>5 DEF IInv

(* What is not in doubt stays right, whatever the order of clicks, steps   *)
(* on the server and answers.                                              *)
THEOREM Invariance == Spec => []IInv
<1>1. IInv /\ [Next]_vars => IInv'
  <2>1. SUFFICES ASSUME IInv, [Next]_vars PROVE IInv'
    OBVIOUS
  <2>2. ASSUME NEW r \in Requests, NEW t \in Tracks, Click(r, t) PROVE IInv'
    BY <2>1, <2>2, ClickStep
  <2>3. ASSUME NEW r \in Requests, Load(r) PROVE IInv'
    BY <2>1, <2>3, LoadStep
  <2>4. ASSUME NEW r \in Requests, Reply(r) PROVE IInv'
    BY <2>1, <2>4, AddReplyStep, RemoveReplyStep, LoadReplyStep DEF Reply
  <2>5. ASSUME NEW r \in Requests, Lose(r) PROVE IInv'
    BY <2>1, <2>5, LoseStep
  <2>6. ASSUME NEW r \in Requests, Serve(r) PROVE IInv'
    BY <2>1, <2>6, CheckStep, SaveStep, LookupStep, DeleteStep, DeleteGoneStep,
       GetUsersFavouritesStep DEF Serve
  <2>7. ASSUME NEW t \in Tracks, Redraw(t) \/ Elsewhere(t) PROVE IInv'
    BY <2>1, <2>7, RedrawStep, ElsewhereStep
  <2>8. CASE UNCHANGED vars
    BY <2>1, <2>8, StutterHolds
  <2> QED
    BY <2>1, <2>2, <2>3, <2>4, <2>5, <2>6, <2>7, <2>8 DEF Next
<1> QED
  BY <1>1, InitHolds, PTL DEF Spec

(* The types of the variables.  No row is deleted that is not there, and   *)
(* nothing but tracks gets into the list of the page.                      *)
THEOREM TypeCorrect == Spec => []TypeOK
<1>1. IInv => TypeOK
  BY DEF IInv
<1> QED
  BY <1>1, Invariance, PTL

(* The page's own copy of the favourites equals the rows of the server as  *)
(* soon as nothing about a track is under way: double clicks, duplicate    *)
(* rows, overtaking answers of GetFavourites and AddToFavourites included. *)
THEOREM ListInStep == Spec => []ListMatches
<1>1. IInv => ListMatches
  <2>1. SUFFICES ASSUME IInv, "list" \notin doubt, NEW t \in Tracks, On(t) = {}
                 PROVE  Occurrences(list, t) = rows[t]
    BY DEF ListMatches
  <2>2. Added(t) = {} /\ Removed(t) = {}
    BY <2>1 DEF Added, Removed, On, Busy
  <2>3. Cardinality(Added(t)) = 0 /\ Cardinality(Removed(t)) = 0
    BY <2>2, FS_EmptySet
  <2>4. rows[t] + Cardinality(Removed(t)) = Occurrences(list, t) + Cardinality(Added(t))
    BY <2>1 DEF IInv, Certain, Balanced
  <2>5. rows[t] \in Nat /\ Occurrences(list, t) \in Nat
    BY <2>1, OccurrencesCount DEF IInv, TypeOK
  <2> QED
    BY <2>3, <2>4, <2>5
<1> QED
  BY <1>1, Invariance, PTL

(* The icon of a track then says what a click will do to it.               *)
THEOREM IconsInStep == Spec => []IconsMatch
<1>1. IInv => IconsMatch
  BY DEF IInv, Certain, IconKept, IconsMatch
<1> QED
  BY <1>1, Invariance, PTL
=============================================================================
