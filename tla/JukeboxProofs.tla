---------------------------- MODULE JukeboxProofs ----------------------------
(***************************************************************************)
(* The jukebox for any library, buffer and number of threads: the types,   *)
(* that no removal from the list is left without its refill, that no track *)
(* stays downloading or playing without a thread that does it, and that a  *)
(* downloaded first track always has a thread that will play it.           *)
(***************************************************************************)
EXTENDS Jukebox, FiniteSetTheorems, TLAPS

LEMMA OccurrencesNat ==
  ASSUME NEW s \in Seq(Tracks), NEW t
  PROVE  Occurrences(t, s) \in Nat
<1>1. Len(s) \in Nat /\ DOMAIN s = 1..Len(s)
  OBVIOUS
<1>2. IsFiniteSet(1..Len(s))
  BY <1>1, FS_Interval
<1>3. IsFiniteSet({i \in DOMAIN s : s[i] = t})
  BY <1>1, <1>2, FS_Subset
<1> QED
  BY <1>3, FS_CardinalityType DEF Occurrences

LEMMA OccursPositive ==
  ASSUME NEW s \in Seq(Tracks), NEW i \in DOMAIN s
  PROVE  s[i] \in Tracks /\ Occurrences(s[i], s) > 0
<1> DEFINE places == {j \in DOMAIN s : s[j] = s[i]}
<1>1. Occurrences(s[i], s) \in Nat
  BY OccurrencesNat
<1>2. IsFiniteSet(places)
  BY FS_Interval, FS_Subset
<1>3. places # {}
  OBVIOUS
<1>4. Cardinality(places) # 0
  BY <1>2, <1>3, FS_EmptySet
<1> QED
  BY <1>1, <1>4 DEF Occurrences

LEMMA RemoveAtType ==
  ASSUME NEW s \in Seq(Tracks), NEW i \in DOMAIN s
  PROVE  RemoveAt(s, i) \in Seq(Tracks)
<1>1. SubSeq(s, 1, i - 1) \in Seq(Tracks) /\ SubSeq(s, i + 1, Len(s)) \in Seq(Tracks)
  OBVIOUS
<1> QED
  BY <1>1 DEF RemoveAt

LEMMA RemoveAtElements ==
  ASSUME NEW s \in Seq(Tracks), NEW i \in DOMAIN s, NEW j \in DOMAIN RemoveAt(s, i)
  PROVE  \E k \in DOMAIN s : RemoveAt(s, i)[j] = s[k]
<1> DEFINE before == SubSeq(s, 1, i - 1)
           after == SubSeq(s, i + 1, Len(s))
<1>1. i \in 1..Len(s) /\ Len(s) \in Nat
  OBVIOUS
<1>2. /\ before \in Seq(Tracks) /\ Len(before) = i - 1
      /\ \A k \in 1..(i - 1) : before[k] = s[k]
  BY <1>1
<1>3. /\ after \in Seq(Tracks) /\ Len(after) = Len(s) - i
      /\ \A k \in 1..(Len(s) - i) : after[k] = s[i + k]
  BY <1>1
<1>4. RemoveAt(s, i) = before \o after
  BY DEF RemoveAt
<1> HIDE DEF before, after
<1>5. j \in 1..(Len(s) - 1)
  BY <1>1, <1>2, <1>3, <1>4
<1>6. CASE j \in 1..(i - 1)
  <2>1. RemoveAt(s, i)[j] = before[j]
    BY <1>1, <1>2, <1>3, <1>4, <1>6
  <2>2. before[j] = s[j] /\ j \in DOMAIN s
    BY <1>1, <1>2, <1>6
  <2> QED
    BY <2>1, <2>2
<1>7. CASE j \notin 1..(i - 1)
  <2>1. j - (i - 1) \in 1..(Len(s) - i) /\ j + 1 \in DOMAIN s
    BY <1>1, <1>5, <1>7
  <2>2. RemoveAt(s, i)[j] = after[j - (i - 1)]
    BY <1>1, <1>2, <1>3, <1>4, <1>5, <1>7
  <2>3. after[j - (i - 1)] = s[i + (j - (i - 1))]
    BY <1>3, <2>1
  <2>4. i + (j - (i - 1)) = j + 1
    BY <1>1, <1>5
  <2> QED
    BY <2>1, <2>2, <2>3, <2>4
<1> QED
  BY <1>6, <1>7

LEMMA CurrentTrackType ==
  ASSUME playlist \in Seq(Tracks)
  PROVE  CurrentTrack \in Tracks \union {None}
BY DEF CurrentTrack

LEMMA FetchedType ==
  ASSUME NEW n \in Nat, NEW s \in Fetched(n), JukeboxAssumption
  PROVE  s \in Seq(Tracks)
<1>1. CASE Repeats
  BY <1>1 DEF Fetched
<1>2. CASE ~Repeats
  <2> DEFINE fresh == {t \in Tracks : handlers[t] = 0 /\
                         \A w \in Workers : \A i \in DOMAIN held[w] : held[w][i] # t}
  <2>1. PICK m \in 0..n : s \in [1..m -> fresh]
    BY <1>2 DEF Fetched
  <2>2. s \in [1..m -> Tracks]
    BY <2>1
  <2> QED
    BY <2>1, <2>2
<1> QED
  BY <1>1, <1>2

Event == {"Downloaded", "Failed", "Played"}

LEMMA RaiseType ==
  ASSUME TypeOK, NEW w \in Workers, NEW t \in Tracks, NEW event \in Event,
         Raise(w, t, event)
  PROVE  /\ state' \in [Tracks -> TrackStates]
         /\ rest' \in [Workers -> Seq(Event \X Tracks)]
         /\ about' \in [Workers -> Tracks \union {None}]
         /\ pc' \in [Workers -> Steps]
<1> DEFINE calls == [i \in 1..handlers[t] |-> <<event, t>>]
<1>1. handlers[t] \in Nat
  BY DEF TypeOK
<1>2. calls \in Seq(Event \X Tracks)
  BY <1>1
<1>3. rest[w] \in Seq(Event \X Tracks)
  BY DEF TypeOK, Event
<1>4. calls \o rest[w] \in Seq(Event \X Tracks)
  BY <1>2, <1>3
<1>5. rest' = [rest EXCEPT ![w] = calls \o rest[w]]
  BY DEF Raise
<1>6. rest \in [Workers -> Seq(Event \X Tracks)]
  BY DEF TypeOK, Event
<1>7. rest' \in [Workers -> Seq(Event \X Tracks)]
  BY <1>4, <1>5, <1>6
<1>8. state' \in [Tracks -> TrackStates]
  BY DEF Raise, TypeOK, Event, TrackStates
<1>9. about' \in [Workers -> Tracks \union {None}] /\ pc' \in [Workers -> Steps]
  BY DEF Raise, Goto, TypeOK, Steps
<1> QED
  BY <1>7, <1>8, <1>9

(* The events of a track reach its handlers because whatever is on the     *)
(* list, or in the hands of a thread, has been subscribed to, ...          *)
ListSubscribed == \A i \in DOMAIN playlist : handlers[playlist[i]] > 0

AboutSubscribed ==
  \A w \in Workers :
    pc[w] \in Sounds \union Fetching \union {"load"} =>
      about[w] \in Tracks /\ handlers[about[w]] > 0

(* ... so that a thread that is to call a handler has one to call.         *)
RestNonEmpty == \A w \in Workers : pc[w] = "handler" => rest[w] # <<>>

(* Nothing runs when the process has crashed.                              *)
CrashedIdle == crashed => \A w \in Workers : pc[w] = "idle"

IInv == TypeOK /\ ListSubscribed /\ AboutSubscribed /\ RestNonEmpty /\ CrashedIdle

LEMMA InitialTypes == JukeboxAssumption /\ Init => TypeOK
<1> SUFFICES ASSUME JukeboxAssumption, Init
             PROVE  TypeOK
  OBVIOUS
<1>1. playlist \in Seq(Tracks) /\ votes \in Seq([user : Users, track : Tracks])
  BY DEF Init
<1>2. rest \in [Workers -> Seq({"Downloaded", "Failed", "Played"} \X Tracks)]
  BY DEF Init
<1>3. held \in [Workers -> Seq(Tracks)]
  BY DEF Init
<1>4. pc \in [Workers -> Steps]
  BY DEF Init, Steps, Organizing
<1> QED
  BY <1>1, <1>2, <1>3, <1>4 DEF Init, TypeOK, TrackStates

LEMMA CrashTypes ==
  ASSUME TypeOK, Crash
  PROVE  TypeOK'
<1>1. (playlist \in Seq(Tracks) /\ votes \in Seq([user : Users, track : Tracks]))'
  BY DEF Crash
<1>2. (rest \in [Workers -> Seq({"Downloaded", "Failed", "Played"} \X Tracks)])'
  BY DEF Crash
<1>3. (held \in [Workers -> Seq(Tracks)])'
  BY DEF Crash
<1> QED
  BY <1>1, <1>2, <1>3 DEF Crash, TypeOK, TrackStates, Steps

LEMMA WorkTypes ==
  ASSUME IInv, JukeboxAssumption, NEW w \in Workers,
         Work(w) \/ Fetch(w)
  PROVE  TypeOK'
<1> USE DEF IInv
<1> DEFINE Calls == Seq({"Downloaded", "Failed", "Played"} \X Tracks)
<1>a. pc \in [Workers -> Steps] /\ about \in [Workers -> Tracks \union {None}]
      /\ state \in [Tracks -> TrackStates] /\ rest \in [Workers -> Calls]
  BY DEF TypeOK
<1>b. CurrentTrack \in Tracks \union {None}
  BY CurrentTrackType DEF TypeOK
<1>1. CASE StartSound(w)
  <2>1. pc' \in [Workers -> Steps]
    BY <1>1, <1>a DEF StartSound, Goto, Steps, Sounds
  <2> QED
    BY <1>1, <2>1 DEF StartSound, TypeOK
<1>2. CASE EndSound(w)
  <2>1. pc' \in [Workers -> Steps]
    BY <1>2, <1>a DEF EndSound, Goto, Steps, Sounds
  <2> QED
    BY <1>2, <2>1 DEF EndSound, TypeOK
<1>3. CASE OnPlayed(w)
  <2>1. about[w] \in Tracks /\ Raise(w, about[w], "Played")
    BY <1>3 DEF OnPlayed, At, AboutSubscribed, Sounds
  <2> QED
    BY <1>3, <2>1, RaiseType DEF OnPlayed, TypeOK, Event
<1>4. CASE Downloaded(w)
  <2>1. about[w] \in Tracks /\ Raise(w, about[w], "Downloaded")
    BY <1>4 DEF Downloaded, At, AboutSubscribed, Fetching
  <2> QED
    BY <1>4, <2>1, RaiseType DEF Downloaded, TypeOK, Event
<1>5. CASE DownloadFails(w)
  <2>1. about[w] \in Tracks /\ Raise(w, about[w], "Failed")
    BY <1>5 DEF DownloadFails, At, AboutSubscribed, Fetching
  <2> QED
    BY <1>5, <2>1, RaiseType DEF DownloadFails, TypeOK, Event
<1>6. ASSUME NEW step \in {"check", "remove"}, Handle(w, step), At(w, "handler")
      PROVE  /\ Head(rest[w])[2] \in Tracks
             /\ rest' \in [Workers -> Calls] /\ pc' \in [Workers -> Steps]
  <2>1. rest[w] \in Calls /\ rest[w] # <<>>
    BY <1>6, <1>a DEF At, RestNonEmpty
  <2>2. Head(rest[w]) \in {"Downloaded", "Failed", "Played"} \X Tracks
        /\ Tail(rest[w]) \in Calls
    BY <2>1
  <2>3. pc' \in [Workers -> Steps]
    BY <1>6, <1>a DEF Handle, Goto, Steps, Organizing
  <2>4. rest' = [rest EXCEPT ![w] = Tail(rest[w])]
    BY <1>6 DEF Handle
  <2> QED
    BY <1>a, <2>2, <2>3, <2>4
<1>7. CASE OnTrackDownloaded(w)
  BY <1>7, <1>6 DEF OnTrackDownloaded, Handling, Handle, TypeOK
<1>8. CASE OnTrackPlayed(w)
  <2>1. about' \in [Workers -> Tracks \union {None}]
    BY <1>8, <1>6, <1>a DEF OnTrackPlayed, Handling
  <2> QED
    BY <1>8, <1>6, <2>1 DEF OnTrackPlayed, Handling, Handle, TypeOK
<1>9. CASE OnTrackDownloadError(w)
  <2>1. about' \in [Workers -> Tracks \union {None}]
    BY <1>9, <1>6, <1>a DEF OnTrackDownloadError, Handling
  <2>2. favourites' \in SUBSET Tracks
    BY <1>9 DEF OnTrackDownloadError, TypeOK
  <2> QED
    BY <1>9, <1>6, <2>1, <2>2 DEF OnTrackDownloadError, Handling, Handle, TypeOK
<1>10. CASE RemoveTrack(w)
  <2>1. playlist' \in Seq(Tracks)
    BY <1>10, RemoveAtType DEF RemoveTrack, TypeOK
  <2>2. about' \in [Workers -> Tracks \union {None}]
    BY <1>10, <1>a DEF RemoveTrack
  <2>3. pc' \in [Workers -> Steps]
    BY <1>10, <1>a DEF RemoveTrack, Goto, Steps, Organizing
  <2> QED
    BY <1>10, <2>1, <2>2, <2>3 DEF RemoveTrack, TypeOK
<1>11. CASE CheckCurrent(w)
  <2>1. pc' \in [Workers -> Steps]
    BY <1>11, <1>a DEF CheckCurrent, Goto, Steps, Organizing
  <2> QED
    BY <1>11, <2>1 DEF CheckCurrent, TypeOK
<1>12. CASE Play(w)
  <2>1. state' \in [Tracks -> TrackStates]
    BY <1>12, <1>a, <1>b DEF Play, TrackStates
  <2>2. about' \in [Workers -> Tracks \union {None}] /\ pc' \in [Workers -> Steps]
    BY ZenonT(60), <1>12, <1>a, <1>b DEF Play, Silenced, Steps, Organizing, Sounds
  <2>3. votes' \in Seq([user : Users, track : Tracks])
    BY <1>12 DEF Play
  <2> QED
    BY <1>12, <2>1, <2>2, <2>3 DEF Play, TypeOK
<1>13. CASE FetchMissing(w)
  <2>1. Missing > 0 => Missing \in Nat
    BY DEF Missing, TypeOK, JukeboxAssumption
  <2>2. held' \in [Workers -> Seq(Tracks)]
    BY <1>13, <2>1, FetchedType DEF FetchMissing, TypeOK
  <2>3. pc' \in [Workers -> Steps]
    BY <1>13, <1>a DEF FetchMissing, Goto, Steps, Organizing
  <2> QED
    BY <1>13, <2>2, <2>3 DEF FetchMissing, TypeOK
<1>14. CASE AddTracks(w)
  <2>1. held[w] \in Seq(Tracks) /\ playlist \in Seq(Tracks)
    BY DEF TypeOK
  <2>2. playlist' \in Seq(Tracks)
    BY <1>14, <2>1 DEF AddTracks
  <2>3. handlers' \in [Tracks -> Nat]
    BY <1>14, <2>1, OccurrencesNat DEF AddTracks, TypeOK
  <2>4. held' \in [Workers -> Seq(Tracks)]
    BY <1>14 DEF AddTracks, TypeOK
  <2>5. pc' \in [Workers -> Steps]
    BY <1>14, <1>a DEF AddTracks, Goto, Steps, Organizing
  <2> QED
    BY <1>14, <2>2, <2>3, <2>4, <2>5 DEF AddTracks, TypeOK
<1>15. CASE DownloadNextTrack(w)
  <2>1. pc' \in [Workers -> Steps]
    BY <1>15, <1>a DEF DownloadNextTrack, Goto, AfterHandler, Steps, Organizing
  <2>2. \A i \in DOMAIN playlist : playlist[i] \in Tracks
    BY DEF TypeOK
  <2>3. about' \in [Workers -> Tracks \union {None}]
    BY <1>15, <1>a, <2>2 DEF DownloadNextTrack
  <2> QED
    BY <1>15, <2>1, <2>3 DEF DownloadNextTrack, TypeOK
<1>16. CASE Download(w)
  <2>1. about[w] \in Tracks
    BY <1>16 DEF Download, At, AboutSubscribed
  <2>2. CASE about[w] \in files
    <3>1. Raise(w, about[w], "Downloaded")
      BY <1>16, <2>2 DEF Download
    <3> QED
      BY <1>16, <2>1, <3>1, RaiseType DEF Download, TypeOK, Event
  <2>3. CASE about[w] \notin files
    <3>1. state' \in [Tracks -> TrackStates]
      BY <1>16, <1>a, <2>3 DEF Download, TrackStates
    <3>2. pc' \in [Workers -> Steps] /\ about' \in [Workers -> Tracks \union {None}]
      BY <1>16, <1>a, <2>1, <2>3 DEF Download, AfterHandler, Steps, Fetching
    <3>3. UNCHANGED rest
      BY <1>16, <2>3 DEF Download
    <3> QED
      BY <1>16, <3>1, <3>2, <3>3 DEF Download, TypeOK
  <2> QED
    BY <2>2, <2>3
<1>17. CASE PlayThrows(w)
  BY <1>17, CrashTypes DEF PlayThrows
<1>18. CASE WriteFile(w)
  <2>1. about[w] \in Tracks
    BY <1>18 DEF WriteFile, At, AboutSubscribed, Fetching
  <2>2. pc' \in [Workers -> Steps] /\ files' \in SUBSET Tracks
    BY <1>18, <1>a, <2>1 DEF WriteFile, Goto, TypeOK, Steps, Fetching
  <2> QED
    BY <1>18, <2>2 DEF WriteFile, TypeOK
<1> QED
  BY <1>1, <1>2, <1>3, <1>4, <1>5, <1>7, <1>8, <1>9, <1>10, <1>11, <1>12, <1>13,
     <1>14, <1>15, <1>16, <1>17, <1>18 DEF Work, Fetch

Subscribed == ListSubscribed /\ AboutSubscribed /\ RestNonEmpty

(* Raising an event for a track that has a handler leaves one to call.     *)
LEMMA RaiseSubscribed ==
  ASSUME IInv, NEW w \in Workers, NEW t \in Tracks, handlers[t] > 0,
         NEW event \in Event, Raise(w, t, event), UNCHANGED <<playlist, handlers>>
  PROVE  Subscribed'
<1> USE DEF IInv
<1> DEFINE calls == [i \in 1..handlers[t] |-> <<event, t>>]
<1>1. handlers[t] \in Nat /\ handlers[t] > 0
  BY DEF TypeOK
<1>2. calls \in Seq(Event \X Tracks) /\ Len(calls) = handlers[t]
  BY <1>1
<1>3. rest[w] \in Seq(Event \X Tracks)
  BY DEF TypeOK, Event
<1> HIDE DEF calls
<1>4. calls \o rest[w] # <<>>
  BY <1>1, <1>2, <1>3
<1>5. /\ pc' = [pc EXCEPT ![w] = "handler"]
      /\ about' = [about EXCEPT ![w] = None]
      /\ rest' = [rest EXCEPT ![w] = calls \o rest[w]]
  BY DEF Raise, Goto, calls
<1>6. RestNonEmpty'
  BY <1>4, <1>5 DEF RestNonEmpty, TypeOK
<1>7. AboutSubscribed'
  BY <1>5 DEF AboutSubscribed, TypeOK, Sounds, Fetching
<1> QED
  BY <1>6, <1>7 DEF ListSubscribed, Subscribed

LEMMA WorkSubscribed ==
  ASSUME IInv, JukeboxAssumption, NEW w \in Workers,
         Work(w) \/ Fetch(w)
  PROVE  Subscribed'
<1> USE DEF IInv
<1>a. /\ pc \in [Workers -> Steps] /\ about \in [Workers -> Tracks \union {None}]
      /\ playlist \in Seq(Tracks) /\ None \notin Tracks
      /\ rest \in [Workers -> Seq(Event \X Tracks)]
  BY DEF TypeOK, Event, JukeboxAssumption
<1>1. CASE StartSound(w) \/ EndSound(w)
  BY <1>1, <1>a DEF StartSound, EndSound, At, Goto, Subscribed, ListSubscribed,
     AboutSubscribed, RestNonEmpty, Sounds, Fetching
<1>2. CASE OnPlayed(w)
  BY <1>2, RaiseSubscribed DEF OnPlayed, At, AboutSubscribed, Sounds, Fetching, Event
<1>3. CASE WriteFile(w)
  BY <1>3, <1>a DEF WriteFile, At, Goto, Subscribed, ListSubscribed, AboutSubscribed,
     RestNonEmpty, Fetching, Sounds
<1>4. CASE Downloaded(w) \/ DownloadFails(w)
  BY <1>4, RaiseSubscribed DEF Downloaded, DownloadFails, At, AboutSubscribed, Fetching,
     Event
<1>5. CASE OnTrackDownloaded(w) \/ OnTrackPlayed(w) \/ OnTrackDownloadError(w)
  <2>1. UNCHANGED <<playlist, handlers>>
    BY <1>5 DEF OnTrackDownloaded, OnTrackPlayed, OnTrackDownloadError, Handle
  <2>2. /\ pc' = [pc EXCEPT ![w] = "check"] \/ pc' = [pc EXCEPT ![w] = "remove"]
        /\ rest' = [rest EXCEPT ![w] = Tail(@)]
        /\ \A v \in Workers \ {w} : about'[v] = about[v]
    BY <1>5, <1>a DEF OnTrackDownloaded, OnTrackPlayed, OnTrackDownloadError,
       Handle, Goto
  <2> QED
    BY ZenonT(60), <1>a, <2>1, <2>2 DEF Subscribed, ListSubscribed, AboutSubscribed,
       RestNonEmpty, Sounds, Fetching
<1>6. CASE RemoveTrack(w)
  <2>1. ListSubscribed'
    <3>1. CASE UNCHANGED playlist
      BY <1>6, <3>1 DEF RemoveTrack, ListSubscribed
    <3>2. ASSUME NEW i \in DOMAIN playlist, playlist' = RemoveAt(playlist, i)
          PROVE  ListSubscribed'
      <4>1. \A j \in DOMAIN playlist' : \E k \in DOMAIN playlist : playlist'[j] = playlist[k]
        BY <3>2, <1>a, RemoveAtElements
      <4> QED
        BY <4>1, <1>6 DEF RemoveTrack, ListSubscribed
    <3> QED
      BY <1>6, <3>1, <3>2 DEF RemoveTrack
  <2>2. AboutSubscribed' /\ RestNonEmpty'
    BY <1>6, <1>a DEF RemoveTrack, Goto, AboutSubscribed, RestNonEmpty, Sounds, Fetching
  <2> QED
    BY <2>1, <2>2 DEF Subscribed
<1>7. CASE CheckCurrent(w) \/ FetchMissing(w)
  BY <1>7, <1>a DEF CheckCurrent, FetchMissing, Goto, Subscribed, ListSubscribed,
     AboutSubscribed, RestNonEmpty, Sounds, Fetching
<1>8. CASE Play(w)
  <2>1. CurrentTrack \in Tracks /\ handlers[CurrentTrack] > 0
    BY <1>8, <1>a DEF Play, CurrentTrack, ListSubscribed
  <2>2. PICK v \in NewThread :
          /\ pc' = [x \in Workers |-> IF x = v THEN "sleeping"
                                 ELSE IF x = w THEN "count" ELSE Silenced(x)]
          /\ about' = [about EXCEPT ![v] = CurrentTrack]
    BY <1>8 DEF Play
  <2>3. AboutSubscribed'
    BY <1>8, <1>a, <2>1, <2>2 DEF Play, AboutSubscribed, Silenced, Sounds, Fetching
  <2>4. RestNonEmpty'
    BY <1>8, <1>a, <2>2 DEF Play, RestNonEmpty, Silenced
  <2> QED
    BY <1>8, <2>3, <2>4 DEF Play, Subscribed, ListSubscribed
<1>9. CASE AddTracks(w)
  <2>1. held[w] \in Seq(Tracks) /\ handlers \in [Tracks -> Nat]
    BY DEF TypeOK
  <2>2. \A t \in Tracks : handlers'[t] = handlers[t] + Occurrences(t, held[w])
                          /\ Occurrences(t, held[w]) \in Nat
    BY <1>9, <2>1, OccurrencesNat DEF AddTracks
  <2>3. \A i \in DOMAIN held[w] : held[w][i] \in Tracks /\ Occurrences(held[w][i], held[w]) > 0
    BY <2>1, OccursPositive
  <2>4. ListSubscribed'
    <3> SUFFICES ASSUME NEW i \in DOMAIN playlist'
                 PROVE  handlers'[playlist'[i]] > 0
      BY DEF ListSubscribed
    <3>1. playlist' = playlist \o held[w]
      BY <1>9 DEF AddTracks
    <3>2. CASE i \in DOMAIN playlist
      <4>1. playlist'[i] = playlist[i] /\ playlist[i] \in Tracks
        BY <3>1, <3>2, <2>1, <1>a
      <4> QED
        BY <4>1, <3>2, <2>1, <2>2 DEF ListSubscribed
    <3>3. CASE i \notin DOMAIN playlist
      <4>1. i - Len(playlist) \in DOMAIN held[w] /\ playlist'[i] = held[w][i - Len(playlist)]
        BY <3>1, <3>3, <2>1, <1>a
      <4> QED
        BY <4>1, <2>1, <2>2, <2>3
    <3> QED
      BY <3>2, <3>3
  <2>5. AboutSubscribed'
    <3>1. \A t \in Tracks : handlers[t] > 0 => handlers'[t] > 0
      BY <2>1, <2>2
    <3> QED
      BY <1>9, <1>a, <3>1 DEF AddTracks, Goto, AboutSubscribed, Sounds, Fetching
  <2>6. RestNonEmpty'
    BY <1>9, <1>a DEF AddTracks, Goto, RestNonEmpty
  <2> QED
    BY <2>4, <2>5, <2>6 DEF Subscribed
<1>10. CASE DownloadNextTrack(w)
  <2>1. CASE UNCHANGED about /\ Goto(w, AfterHandler(w))
    BY <1>10, <1>a, <2>1 DEF DownloadNextTrack, Goto, AfterHandler, Subscribed,
       ListSubscribed, AboutSubscribed, RestNonEmpty, Sounds, Fetching
  <2>2. ASSUME NEW i \in DOMAIN playlist, Goto(w, "load"),
               about' = [about EXCEPT ![w] = playlist[i]]
        PROVE  Subscribed'
    <3>1. playlist[i] \in Tracks /\ handlers[playlist[i]] > 0
      BY <1>a DEF ListSubscribed
    <3> QED
      BY <1>10, <1>a, <2>2, <3>1 DEF DownloadNextTrack, Goto, Subscribed,
         ListSubscribed, AboutSubscribed, RestNonEmpty, Sounds, Fetching
  <2> QED
    BY <1>10, <2>1, <2>2 DEF DownloadNextTrack
<1>11. CASE Download(w)
  <2>1. about[w] \in Tracks /\ handlers[about[w]] > 0
    BY <1>11 DEF Download, At, AboutSubscribed
  <2>2. UNCHANGED <<playlist, handlers>>
    BY <1>11 DEF Download
  <2>3. CASE Raise(w, about[w], "Downloaded")
    BY <2>1, <2>2, <2>3, RaiseSubscribed DEF Event
  <2>4. ASSUME NEW v \in NewThread,
               pc' = [pc EXCEPT ![w] = AfterHandler(w), ![v] = "loading"],
               about' = [about EXCEPT ![w] = None, ![v] = about[w]],
               UNCHANGED rest
        PROVE  Subscribed'
    <3>1. v \in Workers /\ v # w
      BY <1>11, <2>4 DEF NewThread, Download, At
    <3> QED
      BY <1>a, <2>1, <2>2, <2>4, <3>1 DEF AfterHandler, Subscribed, ListSubscribed,
         AboutSubscribed, RestNonEmpty, Sounds, Fetching
  <2> QED
    BY <1>11, <2>3, <2>4 DEF Download
<1>12. CASE PlayThrows(w)
  BY <1>12 DEF PlayThrows, Crash, Subscribed, ListSubscribed, AboutSubscribed,
     RestNonEmpty, Sounds, Fetching
<1> QED
  BY <1>1, <1>2, <1>3, <1>4, <1>5, <1>6, <1>7, <1>8, <1>9, <1>10, <1>11, <1>12
  DEF Work, Fetch

-----------------------------------------------------------------------------

LEMMA RequestTypes ==
  ASSUME IInv, JukeboxAssumption,
         (\E u \in Users : AddVote(u) \/ \E t \in Tracks : CheckVote(u, t))
           \/ Skip \/ Restart
  PROVE  TypeOK'
<1> USE DEF IInv
<1>a. pc \in [Workers -> Steps]
  BY DEF TypeOK
<1>b. [w \in Workers |-> Silenced(w)] \in [Workers -> Steps]
  BY <1>a DEF Silenced, Steps, Sounds, Fetching
<1>1. ASSUME NEW u \in Users, AddVote(u)
      PROVE  TypeOK'
  <2>1. voting[u] \in Tracks
    BY <1>1 DEF AddVote, TypeOK
  <2>2. votes' \in Seq([user : Users, track : Tracks])
    BY <1>1, <2>1 DEF AddVote, TypeOK
  <2>3. voting' \in [Users -> Tracks \union {None}]
    BY <1>1 DEF AddVote, TypeOK
  <2>4. pc' \in [Workers -> Steps]
    BY <1>1, <1>a, <1>b DEF AddVote
  <2> QED
    BY <1>1, <2>2, <2>3, <2>4 DEF AddVote, TypeOK
<1>2. ASSUME NEW u \in Users, NEW t \in Tracks, CheckVote(u, t)
      PROVE  TypeOK'
  BY <1>2 DEF CheckVote, thread, TypeOK
<1>3. CASE Skip
  BY <1>3, <1>b DEF Skip, TypeOK
<1>4. CASE Restart
  BY <1>4, <1>a DEF Restart, Goto, TypeOK, Steps, Organizing
<1> QED
  BY <1>1, <1>2, <1>3, <1>4

LEMMA RequestSubscribed ==
  ASSUME IInv, JukeboxAssumption,
         (\E u \in Users : AddVote(u) \/ \E t \in Tracks : CheckVote(u, t))
           \/ Skip \/ Restart
  PROVE  Subscribed'
<1> USE DEF IInv, Subscribed
<1>a. pc \in [Workers -> Steps]
  BY DEF TypeOK
<1>1. ASSUME pc' = [w \in Workers |-> Silenced(w)] \/ UNCHANGED pc,
             UNCHANGED <<playlist, handlers, about, rest>>
      PROVE  Subscribed'
  BY <1>1, <1>a DEF Silenced, ListSubscribed, AboutSubscribed, RestNonEmpty, Sounds, Fetching
<1>2. ASSUME NEW u \in Users, AddVote(u)
      PROVE  Subscribed'
  BY <1>1, <1>2 DEF AddVote
<1>3. ASSUME NEW u \in Users, NEW t \in Tracks, CheckVote(u, t)
      PROVE  Subscribed'
  BY <1>1, <1>3 DEF CheckVote, thread
<1>4. CASE Skip
  BY <1>1, <1>4 DEF Skip
<1>5. CASE Restart
  BY <1>5, <1>a DEF Restart, Goto, ListSubscribed, AboutSubscribed, RestNonEmpty, Sounds, Fetching
<1> QED
  BY <1>2, <1>3, <1>4, <1>5

LEMMA CrashedStep ==
  ASSUME IInv, [Next]_vars
  PROVE  CrashedIdle'
<1>1. ASSUME NEW w \in Workers, Work(w) \/ Fetch(w)
      PROVE  CrashedIdle'
  <2>1. CASE PlayThrows(w)
    BY <2>1 DEF PlayThrows, Crash, CrashedIdle
  <2>2. CASE ~PlayThrows(w)
    <3>1. ~crashed /\ crashed' = crashed
      BY <1>1, <2>2 DEF Work, Fetch, WriteFile, Downloaded, DownloadFails, StartSound, EndSound, OnPlayed,
         OnTrackDownloaded, OnTrackPlayed, OnTrackDownloadError, Handling, Handle,
         RemoveTrack, CheckCurrent, Play, FetchMissing, AddTracks, DownloadNextTrack,
         Download, At
    <3> QED
      BY <3>1 DEF CrashedIdle
  <2> QED
    BY <2>1, <2>2
<1>2. ASSUME NEW w \in Workers, ClashThrows(w)
      PROVE  CrashedIdle'
  BY <1>2 DEF ClashThrows, Crash, CrashedIdle
<1>3. ASSUME NEW u \in Users, AddVote(u) \/ \E t \in Tracks : CheckVote(u, t)
      PROVE  CrashedIdle'
  BY <1>3 DEF AddVote, CheckVote, CrashedIdle
<1>4. CASE Skip \/ Restart
  BY <1>4 DEF Skip, Restart, CrashedIdle
<1>5. CASE UNCHANGED vars
  BY <1>5 DEF vars, CrashedIdle, IInv
<1> QED
  BY <1>1, <1>2, <1>3, <1>4, <1>5 DEF Next

LEMMA InductiveInvariant == JukeboxAssumption => (Spec => []IInv)
<1> SUFFICES ASSUME JukeboxAssumption
             PROVE  Spec => []IInv
  OBVIOUS
<1>1. Init => IInv
  BY InitialTypes DEF Init, IInv, ListSubscribed, AboutSubscribed, RestNonEmpty, Sounds, Fetching,
     CrashedIdle
<1>2. IInv /\ [Next]_vars => IInv'
  <2> SUFFICES ASSUME IInv, [Next]_vars
               PROVE  TypeOK' /\ Subscribed'
    BY CrashedStep DEF IInv, Subscribed
  <2>1. ASSUME NEW w \in Workers, Work(w) \/ Fetch(w)
        PROVE  TypeOK' /\ Subscribed'
    BY <2>1, WorkTypes, WorkSubscribed
  <2>2. ASSUME NEW w \in Workers, ClashThrows(w)
        PROVE  TypeOK' /\ Subscribed'
    BY <2>2, CrashTypes DEF ClashThrows, Crash, IInv, Subscribed, ListSubscribed,
       AboutSubscribed, RestNonEmpty, Sounds, Fetching
  <2>3. CASE (\E u \in Users : AddVote(u) \/ \E t \in Tracks : CheckVote(u, t))
               \/ Skip \/ Restart
    BY <2>3, RequestTypes, RequestSubscribed
  <2>4. CASE UNCHANGED vars
    BY <2>4 DEF vars, IInv, TypeOK, Subscribed, ListSubscribed, AboutSubscribed,
       RestNonEmpty
  <2> QED
    BY <2>1, <2>2, <2>3, <2>4 DEF Next
<1> QED
  BY <1>1, <1>2, PTL DEF Spec

(* TypeOK, for any library, buffer, number of threads and of users.        *)
THEOREM TypeCorrect == JukeboxAssumption => (Spec => []TypeOK)
BY InductiveInvariant, PTL DEF IInv

-----------------------------------------------------------------------------
(* No removal is left without its refill.                                  *)

(* The thread that has still to count the list, or brings enough for it.   *)
Refills(w) ==
  \/ pc[w] \in {"remove", "check", "play", "count"}
  \/ pc[w] = "add" /\ Len(playlist) + Len(held[w]) >= BufferSize

(* A step that leaves the list alone and moves no thread out of the steps  *)
(* that refill, or the one that moves to a later such step, keeps a refill.*)
LEMMA RefillKept ==
  ASSUME Refilling, UNCHANGED playlist,
         \A w \in Workers : Refills(w) => Refills(w)',
         crashed => crashed' \/ \E w \in Workers : Refills(w)'
  PROVE  Refilling'
BY DEF Refilling, Refills

LEMMA FetchedLength ==
  ASSUME Repeats, NEW n \in Nat, NEW s \in Fetched(n)
  PROVE  Len(s) = n
BY DEF Fetched

LEMMA RefillingStep ==
  ASSUME IInv, JukeboxAssumption, Repeats, Refilling, [Next]_vars
  PROVE  Refilling'
<1> USE DEF IInv
<1>a. /\ pc \in [Workers -> Steps] /\ BufferSize \in Nat
      /\ playlist \in Seq(Tracks) /\ held \in [Workers -> Seq(Tracks)]
  BY DEF TypeOK, JukeboxAssumption
<1>1. ASSUME NEW w \in Workers, RemoveTrack(w)
      PROVE  Refilling'
  BY <1>1, <1>a DEF RemoveTrack, Goto, Refilling
<1>2. ASSUME NEW w \in Workers, AddTracks(w)
      PROVE  Refilling'
  <2> SUFFICES ASSUME Len(playlist') < BufferSize
               PROVE  crashed' \/ \E v \in Workers : Refills(v)'
    BY DEF Refilling, Refills
  <2>1. /\ held[w] \in Seq(Tracks) /\ Len(held[w]) \in Nat /\ Len(playlist) \in Nat
        /\ Len(playlist') = Len(playlist) + Len(held[w])
    BY <1>2, <1>a DEF AddTracks
  <2>2. Len(playlist) < BufferSize
    BY <2>1, <1>a
  <2>3. ~crashed
    BY <1>2 DEF AddTracks, At
  <2>4. PICK v \in Workers : Refills(v)
    BY <2>2, <2>3 DEF Refilling, Refills
  <2>5. v # w
    BY <2>1, <2>4, <1>2, <1>a DEF AddTracks, At, Refills
  <2>6. pc'[v] = pc[v] /\ held'[v] = held[v]
    BY <2>5, <1>2, <1>a DEF AddTracks, Goto
  <2>7. Len(held[v]) \in Nat
    BY <1>a
  <2>8. Len(playlist) + Len(held[v]) >= BufferSize => Len(playlist') + Len(held[v]) >= BufferSize
    BY <2>1, <2>7, <1>a
  <2> QED
    BY <2>4, <2>6, <2>8 DEF Refills
<1>3. ASSUME NEW w \in Workers, FetchMissing(w)
      PROVE  Refilling'
  <2>0. Len(playlist) \in Nat /\ UNCHANGED <<playlist, crashed>>
    BY <1>3, <1>a DEF FetchMissing
  <2>1. CASE Missing > 0
    <3>1. PICK s \in Fetched(Missing) : held' = [held EXCEPT ![w] = s]
      <4>1. ~(Missing <= 0)
        BY <2>0, <2>1, <1>a DEF Missing
      <4> QED
        BY <1>3, <4>1 DEF FetchMissing
    <3>2. Missing \in Nat
      BY <2>0, <2>1, <1>a DEF Missing
    <3>3. Len(held'[w]) = BufferSize - Len(playlist)
      BY <3>1, <3>2, <1>a, FetchedLength DEF Missing
    <3>4. Len(playlist') + Len(held'[w]) >= BufferSize
      BY <3>3, <2>0, <1>a
    <3>5. pc'[w] = "add"
      BY <1>3, <2>1, <1>a, <2>0 DEF FetchMissing, Goto, Missing
    <3> QED
      BY <3>4, <3>5 DEF Refilling
  <2>2. CASE ~(Missing > 0)
    BY <2>0, <2>2, <1>a DEF Refilling, Missing
  <2> QED
    BY <2>1, <2>2
<1>4. ASSUME NEW w \in Workers, CheckCurrent(w)
      PROVE  Refilling'
  BY <1>4, <1>a, RefillKept DEF CheckCurrent, Goto, Refills
<1>5. ASSUME NEW w \in Workers, Play(w)
      PROVE  Refilling'
  <2>1. pc'[w] = "count"
    BY <1>5, <1>a DEF Play, NewThread, At
  <2> QED
    BY <2>1 DEF Refilling
<1>6. ASSUME NEW w \in Workers,
             StartSound(w) \/ EndSound(w) \/ DownloadNextTrack(w)
               \/ OnTrackDownloaded(w) \/ OnTrackPlayed(w) \/ OnTrackDownloadError(w)
      PROVE  Refilling'
  <2>1. UNCHANGED <<playlist, held, crashed>>
    BY <1>6 DEF StartSound, EndSound, DownloadNextTrack, OnTrackDownloaded,
       OnTrackPlayed, OnTrackDownloadError, Handle
  <2>2. /\ pc[w] \in {"sleeping", "sounding", "next", "handler"}
        /\ \E step : pc' = [pc EXCEPT ![w] = step]
    BY <1>6 DEF StartSound, EndSound, DownloadNextTrack, OnTrackDownloaded,
       OnTrackPlayed, OnTrackDownloadError, Handle, Handling, At, Goto
  <2>3. \A v \in Workers : Refills(v) => Refills(v)'
    BY <2>1, <2>2, <1>a DEF Refills
  <2> QED
    BY <2>1, <2>3, RefillKept
<1>7. ASSUME NEW w \in Workers,
             OnPlayed(w) \/ Fetch(w) \/ Download(w)
      PROVE  Refilling'
  <2>1. UNCHANGED <<playlist, held, crashed>>
    BY <1>7 DEF OnPlayed, Fetch, WriteFile, Downloaded, DownloadFails, Download
  <2>2. \A v \in Workers :
          pc'[v] = pc[v] \/ pc[v] \in Fetching \union {"finished", "load", "idle"}
    BY <1>7, <1>a DEF OnPlayed, Fetch, WriteFile, Downloaded, DownloadFails, Download,
       Raise, At, Goto, NewThread, Fetching
  <2>3. \A v \in Workers : Refills(v) => Refills(v)'
    BY <2>1, <2>2 DEF Refills, Fetching
  <2> QED
    BY <2>1, <2>3, RefillKept
<1>8. ASSUME Crash
      PROVE  Refilling'
  BY <1>8 DEF Crash, Refilling
<1>9. ASSUME UNCHANGED <<playlist, held, crashed>>,
             pc' = [w \in Workers |-> Silenced(w)] \/ UNCHANGED pc
      PROVE  Refilling'
  <2>1. \A v \in Workers : Refills(v) => Refills(v)'
    BY <1>9 DEF Refills, Silenced
  <2> QED
    BY <1>9, <2>1, RefillKept
<1>10. CASE Restart
  <2>1. Web \in Workers
    BY DEF Web, JukeboxAssumption
  <2>2. pc'[Web] = "check"
    BY <1>10, <1>a, <2>1 DEF Restart, Goto
  <2> QED
    BY <2>1, <2>2 DEF Refilling
<1>11. ASSUME NEW u \in Users, AddVote(u) \/ \E t \in Tracks : CheckVote(u, t)
       PROVE  Refilling'
  BY <1>9, <1>11 DEF AddVote, CheckVote, thread
<1>12. CASE Skip
  BY <1>9, <1>12 DEF Skip
<1>13. CASE UNCHANGED vars
  BY <1>9, <1>13 DEF vars
<1> QED
  BY <1>1, <1>2, <1>3, <1>4, <1>5, <1>6, <1>7, <1>8, <1>10, <1>11, <1>12, <1>13
     DEF Next, Work, Fetch, PlayThrows, ClashThrows

(* Refilling, for any library, buffer, number of threads and of users: two *)
(* OrganizePlaylists may make the list too long, but never leave it short. *)
THEOREM NoRemovalUnfilled == JukeboxAssumption /\ Repeats => (Spec => []Refilling)
<1> SUFFICES ASSUME JukeboxAssumption, Repeats
             PROVE  Spec => []Refilling
  OBVIOUS
<1>1. Init => Refilling
  <2>1. Web \in Workers
    BY DEF Web, JukeboxAssumption
  <2> QED
    BY <2>1 DEF Init, Refilling
<1>2. IInv /\ Refilling /\ [Next]_vars => Refilling'
  BY RefillingStep
<1>3. Spec => []IInv
  BY InductiveInvariant
<1> QED
  BY <1>1, <1>2, <1>3, PTL DEF Spec

-----------------------------------------------------------------------------
(* No track is left downloading or playing.                                *)

(* A thread that downloads or plays t.                                     *)
Loads(w, t) == pc[w] \in Fetching /\ about[w] = t
Plays(w, t) == pc[w] \in Sounds /\ about[w] = t

(* States stay as they are, and every thread keeps what it does.           *)
LEMMA AttendanceKept ==
  ASSUME Attended, UNCHANGED state,
         \A w \in Workers, t \in Tracks :
           (Loads(w, t) => Loads(w, t)') /\ (Plays(w, t) => Plays(w, t)')
  PROVE  Attended'
BY DEF Attended, Loads, Plays

(* A thread that does neither any more has set the state of its track.     *)
LEMMA RaiseAttended ==
  ASSUME IInv, Attended, NEW w \in Workers, NEW t \in Tracks, NEW event \in Event,
         Raise(w, t, event),
         about[w] = t \/ pc[w] \notin Sounds \union Fetching
  PROVE  Attended'
<1>1. /\ state' = [state EXCEPT ![t] = event] /\ event \notin {"Downloading", "Playing"}
      /\ \A v \in Workers \ {w} : pc'[v] = pc[v] /\ about'[v] = about[v]
      /\ state \in [Tracks -> TrackStates]
  BY DEF Raise, Goto, Event, IInv, TypeOK
<1> QED
  BY <1>1 DEF Attended

LEMMA AttendedStep ==
  ASSUME IInv, JukeboxAssumption, Attended, [Next]_vars
  PROVE  Attended'
<1> USE DEF IInv
<1>a. /\ pc \in [Workers -> Steps] /\ about \in [Workers -> Tracks \union {None}]
      /\ state \in [Tracks -> TrackStates]
  BY DEF TypeOK
<1>1. ASSUME NEW w \in Workers, StartSound(w) \/ EndSound(w) \/ WriteFile(w)
      PROVE  Attended'
  BY <1>1, <1>a, AttendanceKept DEF StartSound, EndSound, WriteFile, At, Goto, Loads,
     Plays, Sounds, Fetching
<1>2. ASSUME NEW w \in Workers, OnPlayed(w) \/ Downloaded(w) \/ DownloadFails(w)
      PROVE  Attended'
  BY <1>2, RaiseAttended DEF OnPlayed, Downloaded, DownloadFails, At,
     AboutSubscribed, Sounds, Fetching, Event
<1>3. ASSUME NEW w \in Workers,
             \/ OnTrackDownloaded(w) \/ OnTrackPlayed(w) \/ OnTrackDownloadError(w)
             \/ RemoveTrack(w) \/ CheckCurrent(w) \/ FetchMissing(w) \/ AddTracks(w)
             \/ DownloadNextTrack(w)
      PROVE  Attended'
  <2>1. UNCHANGED state
    BY <1>3 DEF OnTrackDownloaded, OnTrackPlayed, OnTrackDownloadError, Handle,
       RemoveTrack, CheckCurrent, FetchMissing, AddTracks, DownloadNextTrack
  <2>2. pc[w] \notin Sounds \union Fetching
    BY <1>3 DEF OnTrackDownloaded, OnTrackPlayed, OnTrackDownloadError, Handling,
       RemoveTrack, CheckCurrent, FetchMissing, AddTracks, DownloadNextTrack, At, Sounds,
       Fetching
  <2>3. \A v \in Workers \ {w} : pc'[v] = pc[v] /\ about'[v] = about[v]
    BY <1>3, <1>a DEF OnTrackDownloaded, OnTrackPlayed, OnTrackDownloadError, Handle,
       RemoveTrack, CheckCurrent, FetchMissing, AddTracks, DownloadNextTrack, Goto
  <2> QED
    BY <2>1, <2>2, <2>3, AttendanceKept DEF Loads, Plays
<1>4. ASSUME NEW w \in Workers, Play(w)
      PROVE  Attended'
  <2>1. CurrentTrack \in Tracks
    BY <1>4, CurrentTrackType DEF Play, TypeOK
  <2>2. PICK v \in NewThread :
          /\ pc' = [x \in Workers |-> IF x = v THEN "sleeping"
                                 ELSE IF x = w THEN "count" ELSE Silenced(x)]
          /\ about' = [about EXCEPT ![v] = CurrentTrack]
    BY <1>4 DEF Play
  <2>3. v \in Workers /\ pc[v] = "idle" /\ pc[w] = "play"
    BY <1>4, <2>2 DEF NewThread, Play, At
  <2>4. pc'[v] \in Sounds /\ about'[v] = CurrentTrack
    BY <1>a, <2>2, <2>3 DEF Sounds
  <2>5. ASSUME NEW x \in Workers, NEW t \in Tracks
        PROVE  (Loads(x, t) => Loads(x, t)') /\ (Plays(x, t) => Plays(x, t)')
    BY <1>a, <2>2, <2>3 DEF Loads, Plays, Silenced, Sounds, Fetching
  <2>6. state' = [state EXCEPT ![CurrentTrack] = "Playing"]
    BY <1>4 DEF Play
  <2>7. ASSUME NEW t \in Tracks, state'[t] = "Playing"
        PROVE  \E x \in Workers : Plays(x, t)'
    BY <1>a, <2>3, <2>4, <2>5, <2>6, <2>7 DEF Attended, Plays
  <2>8. ASSUME NEW t \in Tracks, state'[t] = "Downloading"
        PROVE  \E x \in Workers : Loads(x, t)'
    BY <1>a, <2>1, <2>5, <2>6, <2>8 DEF Attended, Loads
  <2> QED
    BY <2>7, <2>8 DEF Attended, Loads, Plays
<1>5. ASSUME NEW w \in Workers, Download(w)
      PROVE  Attended'
  <2>1. about[w] \in Tracks /\ pc[w] = "load"
    BY <1>5 DEF Download, At, AboutSubscribed
  <2>2. CASE Raise(w, about[w], "Downloaded")
    BY <2>1, <2>2, RaiseAttended DEF Event
  <2>3. ASSUME NEW v \in NewThread,
               state' = [state EXCEPT ![about[w]] = "Downloading"],
               pc' = [pc EXCEPT ![w] = AfterHandler(w), ![v] = "loading"],
               about' = [about EXCEPT ![w] = None, ![v] = about[w]]
        PROVE  Attended'
    <3>1. v \in Workers /\ pc[v] = "idle" /\ v # w
      BY <2>1 DEF NewThread
    <3>2. pc'[v] \in Fetching /\ about'[v] = about[w]
      BY <1>a, <2>3, <3>1 DEF Fetching
    <3>3. ASSUME NEW x \in Workers, NEW t \in Tracks
          PROVE  (Loads(x, t) => Loads(x, t)') /\ (Plays(x, t) => Plays(x, t)')
      BY <1>a, <2>1, <2>3, <3>1 DEF Loads, Plays, Sounds, Fetching
    <3>4. ASSUME NEW t \in Tracks, state'[t] = "Playing"
          PROVE  \E x \in Workers : Plays(x, t)'
      BY <1>a, <2>1, <2>3, <3>3, <3>4 DEF Attended, Plays
    <3>5. ASSUME NEW t \in Tracks, state'[t] = "Downloading"
          PROVE  \E x \in Workers : Loads(x, t)'
      BY <1>a, <2>1, <2>3, <3>1, <3>2, <3>3, <3>5 DEF Attended, Loads
    <3> QED
      BY <3>4, <3>5 DEF Attended, Loads, Plays
  <2> QED
    BY <1>5, <2>2, <2>3 DEF Download
<1>6. ASSUME Crash
      PROVE  Attended'
  BY <1>6 DEF Crash, Attended
<1>7. ASSUME UNCHANGED <<state, about>>,
             pc' = [w \in Workers |-> Silenced(w)] \/ UNCHANGED pc
      PROVE  Attended'
  <2>1. ASSUME NEW x \in Workers, NEW t \in Tracks
        PROVE  (Loads(x, t) => Loads(x, t)') /\ (Plays(x, t) => Plays(x, t)')
    BY <1>7 DEF Loads, Plays, Silenced, Sounds, Fetching
  <2> QED
    BY <1>7, <2>1, AttendanceKept
<1>8. CASE Restart
  <2>1. \A t \in Tracks : state'[t] = state[t]
    BY <1>8 DEF Restart
  <2>2. \A w \in Workers : pc[w] = "idle"
    BY <1>8 DEF Restart, CrashedIdle
  <2> QED
    BY <2>1, <2>2 DEF Attended, Sounds, Fetching
<1>9. ASSUME NEW u \in Users, AddVote(u) \/ \E t \in Tracks : CheckVote(u, t)
      PROVE  Attended'
  BY <1>7, <1>9 DEF AddVote, CheckVote, thread
<1>10. CASE Skip
  BY <1>7, <1>10 DEF Skip
<1>11. CASE UNCHANGED vars
  BY <1>7, <1>11 DEF vars
<1> QED
  BY <1>1, <1>2, <1>3, <1>4, <1>5, <1>6, <1>8, <1>9, <1>10, <1>11
     DEF Next, Work, Fetch, PlayThrows, ClashThrows

(* Attended, for any library, buffer, number of threads and of users: each *)
(* track that is downloading or playing has a thread that will end that.   *)
THEOREM EveryTrackAttended == JukeboxAssumption => (Spec => []Attended)
<1> SUFFICES ASSUME JukeboxAssumption
             PROVE  Spec => []Attended
  OBVIOUS
<1>1. Init => Attended
  BY DEF Init, Attended
<1>2. IInv /\ Attended /\ [Next]_vars => Attended'
  BY AttendedStep
<1>3. Spec => []IInv
  BY InductiveInvariant
<1> QED
  BY <1>1, <1>2, <1>3, PTL DEF Spec

-----------------------------------------------------------------------------
(* A downloaded first track is not overlooked.                             *)

(* In a library so large that no track comes twice, what a thread fetched  *)
(* was never on the list, and no other thread fetched it; ...              *)
FreshHeld ==
  \A w \in Workers : \A i \in DOMAIN held[w] : handlers[held[w][i]] = 0

HeldApart ==
  \A v, w \in Workers : v # w =>
    \A i \in DOMAIN held[v], j \in DOMAIN held[w] : held[v][i] # held[w][j]

(* ... so nothing has happened to it.                                      *)
UnsubscribedNew == \A t \in Tracks : handlers[t] = 0 => state[t] = "New"

Fresh == FreshHeld /\ HeldApart /\ UnsubscribedNew

LEMMA FetchedFresh ==
  ASSUME ~Repeats, NEW n \in Nat, NEW s \in Fetched(n), NEW i \in DOMAIN s
  PROVE  /\ s[i] \in Tracks /\ handlers[s[i]] = 0
         /\ \A w \in Workers : \A j \in DOMAIN held[w] : held[w][j] # s[i]
<1> DEFINE fresh == {t \in Tracks : handlers[t] = 0 /\
                       \A w \in Workers : \A j \in DOMAIN held[w] : held[w][j] # t}
<1>1. PICK m \in 0..n : s \in [1..m -> fresh]
  BY DEF Fetched
<1>2. s[i] \in fresh
  BY <1>1
<1> QED
  BY <1>2

LEMMA OccursNever ==
  ASSUME NEW s \in Seq(Tracks), NEW t, \A i \in DOMAIN s : s[i] # t
  PROVE  Occurrences(t, s) = 0
<1>1. {i \in DOMAIN s : s[i] = t} = {}
  OBVIOUS
<1> QED
  BY <1>1, FS_EmptySet DEF Occurrences

LEMMA AddFresh ==
  ASSUME IInv, Fresh, NEW w \in Workers, AddTracks(w)
  PROVE  Fresh'
<1>1. /\ held \in [Workers -> Seq(Tracks)] /\ handlers \in [Tracks -> Nat]
      /\ held[w] \in Seq(Tracks)
  BY DEF IInv, TypeOK
<1>2. /\ held' = [held EXCEPT ![w] = <<>>] /\ UNCHANGED state
      /\ handlers' = [t \in Tracks |-> handlers[t] + Occurrences(t, held[w])]
  BY DEF AddTracks
<1>3. held'[w] = <<>> /\ \A v \in Workers \ {w} : held'[v] = held[v]
  BY <1>1, <1>2
<1>4. ASSUME NEW v \in Workers, NEW i \in DOMAIN held'[v]
      PROVE  handlers'[held'[v][i]] = 0
  <2>1. v # w /\ held'[v] = held[v]
    BY <1>3, <1>4
  <2>2. held[v][i] \in Tracks /\ handlers[held[v][i]] = 0
    BY <1>1, <1>4, <2>1 DEF Fresh, FreshHeld
  <2>3. Occurrences(held[v][i], held[w]) = 0
    <3>1. \A j \in DOMAIN held[w] : held[w][j] # held[v][i]
      BY <1>4, <2>1 DEF Fresh, HeldApart
    <3> QED
      BY <1>1, <3>1, OccursNever
  <2> QED
    BY <1>2, <2>1, <2>2, <2>3
<1>5. HeldApart'
  BY <1>3 DEF Fresh, HeldApart
<1>6. ASSUME NEW t \in Tracks, handlers'[t] = 0
      PROVE  handlers[t] = 0
  <2>1. Occurrences(t, held[w]) \in Nat /\ handlers[t] \in Nat
    BY <1>1, OccurrencesNat
  <2>2. handlers[t] + Occurrences(t, held[w]) = 0
    BY <1>2, <1>6
  <2> QED
    BY <2>1, <2>2
<1> QED
  BY <1>2, <1>4, <1>5, <1>6 DEF Fresh, FreshHeld, UnsubscribedNew

LEMMA FetchFresh ==
  ASSUME IInv, JukeboxAssumption, ~Repeats, Fresh, NEW w \in Workers, FetchMissing(w)
  PROVE  Fresh'
<1>1. held \in [Workers -> Seq(Tracks)] /\ UNCHANGED <<handlers, state>>
  BY DEF IInv, TypeOK, FetchMissing
<1>2. CASE UNCHANGED held
  BY <1>1, <1>2 DEF Fresh, FreshHeld, HeldApart, UnsubscribedNew
<1>3. ASSUME Missing > 0, NEW s \in Fetched(Missing), held' = [held EXCEPT ![w] = s]
      PROVE  Fresh'
  <2>1. Missing \in Nat
    BY <1>3 DEF Missing, IInv, TypeOK, JukeboxAssumption
  <2>2. ASSUME NEW i \in DOMAIN s
        PROVE  /\ handlers[s[i]] = 0
               /\ \A v \in Workers : \A j \in DOMAIN held[v] : held[v][j] # s[i]
    BY <1>3, <2>1, <2>2, FetchedFresh
  <2>3. held'[w] = s /\ \A v \in Workers \ {w} : held'[v] = held[v]
    BY <1>1, <1>3
  <2> QED
    BY <1>1, <2>2, <2>3 DEF Fresh, FreshHeld, HeldApart, UnsubscribedNew
<1> QED
  BY <1>2, <1>3 DEF FetchMissing

(* A track whose state changes has been subscribed to.                     *)
LEMMA SetFresh ==
  ASSUME IInv, Fresh, NEW t \in Tracks, handlers[t] > 0, NEW value,
         state' = [state EXCEPT ![t] = value], UNCHANGED <<handlers, held>>
  PROVE  Fresh'
<1>1. state \in [Tracks -> TrackStates] /\ handlers[t] # 0
  BY DEF IInv, TypeOK
<1>2. \A x \in Tracks : handlers[x] = 0 => state'[x] = state[x]
  BY <1>1
<1> QED
  BY <1>2 DEF Fresh, FreshHeld, HeldApart, UnsubscribedNew

LEMMA CrashFresh ==
  ASSUME Crash
  PROVE  Fresh'
BY DEF Crash, Fresh, FreshHeld, HeldApart, UnsubscribedNew

LEMMA FreshStep ==
  ASSUME IInv, JukeboxAssumption, ~Repeats, Fresh, [Next]_vars
  PROVE  Fresh'
<1>1. ASSUME NEW w \in Workers, OnPlayed(w) \/ Downloaded(w) \/ DownloadFails(w) \/ Download(w)
      PROVE  Fresh'
  <2>1. about[w] \in Tracks /\ handlers[about[w]] > 0
    BY <1>1 DEF OnPlayed, Downloaded, DownloadFails, Download, At, IInv, AboutSubscribed,
       Sounds, Fetching
  <2>2. /\ \E value : state' = [state EXCEPT ![about[w]] = value]
        /\ UNCHANGED <<handlers, held>>
    BY <1>1 DEF OnPlayed, Downloaded, DownloadFails, Download, Raise
  <2> QED
    BY <2>1, <2>2, SetFresh
<1>2. ASSUME NEW w \in Workers, Play(w)
      PROVE  Fresh'
  <2>1. CurrentTrack \in Tracks /\ handlers[CurrentTrack] > 0
    BY <1>2 DEF Play, CurrentTrack, IInv, TypeOK, ListSubscribed
  <2>2. /\ state' = [state EXCEPT ![CurrentTrack] = "Playing"]
        /\ UNCHANGED <<handlers, held>>
    BY <1>2 DEF Play
  <2> QED
    BY <2>1, <2>2, SetFresh
<1>3. ASSUME UNCHANGED <<state, handlers, held>>
      PROVE  Fresh'
  BY <1>3 DEF Fresh, FreshHeld, HeldApart, UnsubscribedNew
<1>4. ASSUME NEW w \in Workers,
             \/ StartSound(w) \/ EndSound(w) \/ WriteFile(w) \/ OnTrackDownloaded(w)
             \/ OnTrackPlayed(w) \/ OnTrackDownloadError(w) \/ RemoveTrack(w)
             \/ CheckCurrent(w) \/ DownloadNextTrack(w)
      PROVE  Fresh'
  BY <1>3, <1>4 DEF StartSound, EndSound, WriteFile, OnTrackDownloaded, OnTrackPlayed,
     OnTrackDownloadError, Handle, RemoveTrack, CheckCurrent, DownloadNextTrack
<1>5. ASSUME NEW u \in Users, AddVote(u) \/ \E t \in Tracks : CheckVote(u, t)
      PROVE  Fresh'
  BY <1>3, <1>5 DEF AddVote, CheckVote, thread
<1>6. CASE Skip \/ Restart
  BY <1>3, <1>6 DEF Skip, Restart
<1>7. CASE UNCHANGED vars
  BY <1>3, <1>7 DEF vars
<1> QED
  BY <1>1, <1>2, <1>4, <1>5, <1>6, <1>7, AddFresh, FetchFresh, CrashFresh
     DEF Next, Work, Fetch, PlayThrows, ClashThrows

(* A thread that will look at the first track.                             *)
Looks(w) == pc[w] \in {"handler", "remove", "check", "play"}

(* Nothing becomes downloaded or first, and no thread stops looking.       *)
LEMMA HeadKept ==
  ASSUME HeadPlays, UNCHANGED playlist,
         CurrentTrack # None /\ state'[CurrentTrack] = "Downloaded"
           => state[CurrentTrack] = "Downloaded",
         \A w \in Workers : Looks(w) => Looks(w)'
  PROVE  HeadPlays'
<1>1. CurrentTrack' = CurrentTrack
  BY DEF CurrentTrack
<1> QED
  BY <1>1 DEF HeadPlays, Looks

LEMMA HeadStep ==
  ASSUME IInv, JukeboxAssumption, Fresh, HeadPlays, [Next]_vars
  PROVE  HeadPlays'
<1>a. /\ pc \in [Workers -> Steps] /\ playlist \in Seq(Tracks)
      /\ state \in [Tracks -> TrackStates] /\ held \in [Workers -> Seq(Tracks)]
  BY DEF IInv, TypeOK
<1>1. ASSUME NEW w \in Workers,
             \/ OnPlayed(w) \/ Downloaded(w) \/ DownloadFails(w) \/ RemoveTrack(w)
             \/ OnTrackDownloaded(w) \/ OnTrackPlayed(w) \/ OnTrackDownloadError(w)
      PROVE  HeadPlays'
  <2>1. pc'[w] \in {"handler", "remove", "check"}
    BY <1>1, <1>a DEF OnPlayed, Downloaded, DownloadFails, RemoveTrack, OnTrackDownloaded,
       OnTrackPlayed, OnTrackDownloadError, Raise, Handle, Goto
  <2> QED
    BY <2>1 DEF HeadPlays
<1>2. ASSUME NEW w \in Workers, CheckCurrent(w)
      PROVE  HeadPlays'
  <2>1. CurrentTrack' = CurrentTrack /\ UNCHANGED state
    BY <1>2 DEF CheckCurrent, CurrentTrack
  <2>2. pc'[w] = "play" \/ ~(CurrentTrack # None /\ state[CurrentTrack] = "Downloaded")
    BY <1>2, <1>a DEF CheckCurrent, Goto
  <2> QED
    BY <2>1, <2>2 DEF HeadPlays
<1>3. ASSUME NEW w \in Workers, Play(w)
      PROVE  HeadPlays'
  <2>1. CurrentTrack' = CurrentTrack /\ CurrentTrack \in Tracks
    BY <1>3, <1>a DEF Play, CurrentTrack
  <2>2. state'[CurrentTrack] = "Playing"
    BY <1>3, <1>a, <2>1 DEF Play
  <2> QED
    BY <2>1, <2>2 DEF HeadPlays
<1>4. ASSUME NEW w \in Workers,
             \/ StartSound(w) \/ EndSound(w) \/ WriteFile(w) \/ FetchMissing(w)
             \/ DownloadNextTrack(w)
      PROVE  HeadPlays'
  <2>1. /\ UNCHANGED <<playlist, state>> /\ ~Looks(w)
        /\ \A v \in Workers \ {w} : pc'[v] = pc[v]
    BY <1>4, <1>a DEF StartSound, EndSound, WriteFile, FetchMissing, DownloadNextTrack,
       At, Goto, Looks
  <2> QED
    BY <2>1, HeadKept DEF Looks
<1>5. ASSUME NEW w \in Workers, Download(w)
      PROVE  HeadPlays'
  <2>1. CASE Raise(w, about[w], "Downloaded")
    <3>1. pc'[w] = "handler"
      BY <1>a, <2>1 DEF Raise, Goto
    <3> QED
      BY <3>1 DEF HeadPlays
  <2>2. ASSUME NEW v \in NewThread,
               state' = [state EXCEPT ![about[w]] = "Downloading"],
               pc' = [pc EXCEPT ![w] = AfterHandler(w), ![v] = "loading"]
        PROVE  HeadPlays'
    <3>1. pc[v] = "idle" /\ pc[w] = "load" /\ UNCHANGED playlist
      BY <1>5, <2>2 DEF NewThread, Download, At
    <3>2. \A x \in Workers : Looks(x) => Looks(x)'
      BY <1>a, <2>2, <3>1 DEF Looks
    <3>3. CurrentTrack # None => CurrentTrack \in Tracks
      BY <1>a DEF CurrentTrack
    <3>4. CurrentTrack # None /\ state'[CurrentTrack] = "Downloaded"
            => state[CurrentTrack] = "Downloaded"
      BY <1>a, <2>2, <3>3
    <3> QED
      BY <3>1, <3>2, <3>4, HeadKept
  <2> QED
    BY <1>5, <2>1, <2>2 DEF Download
<1>6. ASSUME NEW w \in Workers, AddTracks(w)
      PROVE  HeadPlays'
  <2>1. /\ playlist' = playlist \o held[w] /\ UNCHANGED state
        /\ held[w] \in Seq(Tracks)
    BY <1>6, <1>a DEF AddTracks
  <2>2. CASE playlist # <<>>
    <3>1. CurrentTrack' = CurrentTrack
      BY <1>a, <2>1, <2>2 DEF CurrentTrack
    <3>2. \A v \in Workers : Looks(v) => Looks(v)'
      BY <1>6, <1>a DEF AddTracks, At, Goto, Looks
    <3> QED
      BY <2>1, <3>1, <3>2 DEF HeadPlays, Looks
  <2>3. CASE playlist = <<>> /\ held[w] # <<>>
    <3>1. playlist' = held[w]
      BY <2>1, <2>3
    <3>2. CurrentTrack' = held[w][1] /\ 1 \in DOMAIN held[w] /\ held[w][1] \in Tracks
      BY <2>1, <2>3, <3>1 DEF CurrentTrack
    <3>3. state[held[w][1]] = "New"
      BY <3>2 DEF Fresh, FreshHeld, UnsubscribedNew
    <3> QED
      BY <2>1, <3>2, <3>3 DEF HeadPlays
  <2>4. CASE playlist = <<>> /\ held[w] = <<>>
    <3>1. CurrentTrack' = None
      BY <2>1, <2>4 DEF CurrentTrack
    <3> QED
      BY <3>1 DEF HeadPlays
  <2> QED
    BY <2>2, <2>3, <2>4
<1>7. ASSUME Crash
      PROVE  HeadPlays'
  <2>1. CurrentTrack' = None
    BY <1>7 DEF Crash, CurrentTrack
  <2> QED
    BY <2>1 DEF HeadPlays
<1>8. ASSUME UNCHANGED <<playlist, state>>,
             pc' = [w \in Workers |-> Silenced(w)] \/ UNCHANGED pc
      PROVE  HeadPlays'
  <2>1. \A w \in Workers : Looks(w) => Looks(w)'
    BY <1>8 DEF Looks, Silenced
  <2> QED
    BY <1>8, <2>1, HeadKept
<1>9. ASSUME NEW u \in Users, AddVote(u) \/ \E t \in Tracks : CheckVote(u, t)
      PROVE  HeadPlays'
  BY <1>8, <1>9 DEF AddVote, CheckVote, thread
<1>10. CASE Skip
  BY <1>8, <1>10 DEF Skip
<1>11. CASE Restart
  <2>1. Web \in Workers
    BY DEF Web, JukeboxAssumption
  <2>2. pc'[Web] = "check"
    BY <1>11, <1>a, <2>1 DEF Restart, Goto
  <2> QED
    BY <2>1, <2>2 DEF HeadPlays
<1>12. CASE UNCHANGED vars
  BY <1>8, <1>12 DEF vars
<1> QED
  BY <1>1, <1>2, <1>3, <1>4, <1>5, <1>6, <1>7, <1>9, <1>10, <1>11, <1>12
     DEF Next, Work, Fetch, PlayThrows, ClashThrows

(* HeadPlays, for any number of threads, users and tracks, in a library    *)
(* from which no track comes twice: the end of a download is never         *)
(* overlooked, whichever thread organizes the list meanwhile.              *)
THEOREM HeadIsPlayed == JukeboxAssumption /\ ~Repeats => (Spec => []HeadPlays)
<1> SUFFICES ASSUME JukeboxAssumption, ~Repeats
             PROVE  Spec => []HeadPlays
  OBVIOUS
<1>1. Init => Fresh /\ HeadPlays
  BY DEF Init, Fresh, FreshHeld, HeldApart, UnsubscribedNew, HeadPlays, CurrentTrack
<1>2. IInv /\ Fresh /\ HeadPlays /\ [Next]_vars => Fresh' /\ HeadPlays'
  BY FreshStep, HeadStep
<1>3. Spec => []IInv
  BY InductiveInvariant
<1> QED
  BY <1>1, <1>2, <1>3, PTL DEF Spec

==============================================================================
