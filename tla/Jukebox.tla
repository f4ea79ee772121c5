------------------------------- MODULE Jukebox -------------------------------
(***************************************************************************)
(* The playlist of the web site: MusicService, the Track objects, the      *)
(* player of Spoffice.Irrklang and the downloader of Spoffice.Spotify.     *)
(*                                                                         *)
(* Nothing is locked.  Each download and each playing of a track is a      *)
(* thread; at its end it raises an event of the track, whose handlers, one *)
(* for each time the track was put on the list, run OrganizePlaylist on    *)
(* that thread.  Votes and skips come from web requests.  A step is one    *)
(* operation on what the threads share, so that OrganizePlaylist is        *)
(* interleaved with everything else.  A track is one object: the object    *)
(* context, a static, returns the same one each time a row is fetched.     *)
(***************************************************************************)
EXTENDS Integers, FiniteSets, SequencesExt

CONSTANTS
  Tracks,      \* rows of the Tracks table
  BufferSize,  \* TrackBufferSize, 4 in the code
  Workers,     \* bound on the threads that live at a time
  Users,       \* the users who vote
  None,        \* no track
  Repeats      \* TRUE: the database may return a track it returned before;
               \* FALSE: a library too large for that to happen

ASSUME JukeboxAssumption ==
  /\ BufferSize \in Nat \ {0}
  /\ IsFiniteSet(Tracks) /\ Cardinality(Tracks) >= BufferSize
  /\ IsFiniteSet(Users)
  /\ Workers # {}
  /\ None \notin Tracks
  /\ Repeats \in BOOLEAN

VARIABLES
  playlist,    \* MusicService.UpcomingTracks
  state,       \* Track.State
  handlers,    \* subscriptions of OrganizePlaylist's handlers to each track
  favourites,  \* tracks that are a favourite of somebody
  files,       \* tracks whose file is in the music cache
  votes,       \* MusicService.Votes, each with the track it was cast against
  voting,      \* the track of each user's request between check and vote
  pc,          \* where each thread is
  about,       \* the track it is about
  rest,        \* the event handlers it has still to call
  held,        \* the tracks it fetched and has not added yet
  crashed      \* an exception nobody catches ended the process

thread == <<pc, about, rest, held>>
vars == <<playlist, state, handlers, favourites, files, votes, voting,
          pc, about, rest, held, crashed>>

TrackStates ==
  {"New", "Downloading", "Downloaded", "Failed", "Playing", "Played"}
Organizing == {"check", "play", "count", "add", "next", "load"}
Sounds == {"sleeping", "sounding", "finished"}
Fetching == {"loading", "writing"}
Steps == Organizing \union Sounds \union Fetching \union {"idle", "handler", "remove"}

CurrentTrack == IF playlist = <<>> THEN None ELSE Head(playlist)

(* The thread of the request that makes the MusicService.                  *)
Web == CHOOSE w \in Workers : TRUE

Occurrences(t, s) == Cardinality({i \in DOMAIN s : s[i] = t})

(* The first request makes the MusicService, whose constructor organizes   *)
(* the empty list.  The files are what earlier runs of the process left.   *)
Init ==
  /\ playlist = <<>>
  /\ state = [t \in Tracks |-> "New"]
  /\ handlers = [t \in Tracks |-> 0]
  /\ favourites = Tracks
  /\ files \in SUBSET Tracks
  /\ votes = <<>>
  /\ voting = [u \in Users |-> None]
  /\ pc = [w \in Workers |-> IF w = Web THEN "check" ELSE "idle"]
  /\ about = [w \in Workers |-> None]
  /\ rest = [w \in Workers |-> <<>>]
  /\ held = [w \in Workers |-> <<>>]
  /\ crashed = FALSE

-----------------------------------------------------------------------------
(* Threads and events.                                                     *)

At(w, step) == ~crashed /\ pc[w] = step

Goto(w, step) == pc' = [pc EXCEPT ![w] = step]

(* The thread that is started next, if the bound leaves one.  Threads that *)
(* do not run are alike: which one it is does not matter.                  *)
NewThread ==
  {v \in Workers : pc[v] = "idle" /\ v = CHOOSE x \in Workers : pc[x] = "idle"}

(* Where a thread is when StopAllSounds returns.                           *)
Silenced(w) == IF pc[w] = "sounding" THEN "finished" ELSE pc[w]

(* OrganizePlaylist returned: the next handler is called, or the thread    *)
(* ends.                                                                   *)
AfterHandler(w) == IF rest[w] = <<>> THEN "idle" ELSE "handler"

(* OnDownloaded, OnDownloadError and OnPlayed: set the state, call each    *)
(* handler that is subscribed now.                                         *)
Raise(w, t, event) ==
  /\ state' = [state EXCEPT ![t] = event]
  /\ rest' = [rest EXCEPT ![w] = [i \in 1..handlers[t] |-> <<event, t>>] \o rest[w]]
  /\ about' = [about EXCEPT ![w] = None]
  /\ Goto(w, "handler")

(* Mutant: the event is forgotten.                                         *)
DownloadedSilently(w) ==
  /\ At(w, "writing")
  /\ Goto(w, "idle")
  /\ UNCHANGED <<playlist, state, handlers, favourites, files, votes, voting, about,
                 rest, held, crashed>>

(* DoDownload has all the bytes and creates the file.  It is there for the *)
(* other threads from now on, before it is written and the state changes.  *)
WriteFile(w) ==
  /\ At(w, "loading")
  /\ files' = files \union {about[w]}
  /\ Goto(w, "writing")
  /\ UNCHANGED <<playlist, state, handlers, favourites, votes, voting, about, rest,
                 held, crashed>>

(* DoDownload ends with the file written, or with any exception.           *)
Downloaded(w) ==
  /\ At(w, "writing")
  /\ Raise(w, about[w], "Downloaded")
  /\ UNCHANGED <<playlist, handlers, favourites, files, votes, voting, held, crashed>>

DownloadFails(w) ==
  /\ At(w, "loading") \/ At(w, "writing")
  /\ Raise(w, about[w], "Failed")
  /\ UNCHANGED <<playlist, handlers, favourites, files, votes, voting, held, crashed>>

(* DoPlay sleeps a second before it starts the sound, then waits for the   *)
(* sound to end.                                                           *)
StartSound(w) ==
  /\ At(w, "sleeping")
  /\ about[w] \in files
  /\ Goto(w, "sounding")
  /\ UNCHANGED <<playlist, state, handlers, favourites, files, votes, voting,
                 about, rest, held, crashed>>

EndSound(w) ==
  /\ At(w, "sounding")
  /\ Goto(w, "finished")
  /\ UNCHANGED <<playlist, state, handlers, favourites, files, votes, voting,
                 about, rest, held, crashed>>

OnPlayed(w) ==
  /\ At(w, "finished")
  /\ Raise(w, about[w], "Played")
  /\ UNCHANGED <<playlist, handlers, favourites, files, votes, voting, held, crashed>>

(* The next handler the thread calls is of this event.                     *)
Handling(w, event) == At(w, "handler") /\ Head(rest[w])[1] = event

Handle(w, step) ==
  /\ rest' = [rest EXCEPT ![w] = Tail(@)]
  /\ Goto(w, step)
  /\ UNCHANGED <<playlist, state, handlers, files, votes, voting, held, crashed>>

(* Mutant: the list is refilled only.                                      *)
OnTrackDownloadedRefill(w) ==
  /\ Handling(w, "Downloaded")
  /\ Handle(w, "count")
  /\ UNCHANGED <<about, favourites>>

OnTrackDownloaded(w) ==
  /\ Handling(w, "Downloaded")
  /\ Handle(w, "check")
  /\ UNCHANGED <<about, favourites>>

(* The play history is left out: it only narrows what GetTracksToPlay      *)
(* returns, and Fetched allows every choice.                               *)
OnTrackPlayed(w) ==
  /\ Handling(w, "Played")
  /\ Handle(w, "remove")
  /\ about' = [about EXCEPT ![w] = Head(rest[w])[2]]
  /\ UNCHANGED favourites

(* FullyRemoveTrack deletes the first favourite it finds, if the database  *)
(* lets it; the track may be the favourite of others.                      *)
OnTrackDownloadError(w) ==
  /\ Handling(w, "Failed")
  /\ Handle(w, "remove")
  /\ about' = [about EXCEPT ![w] = Head(rest[w])[2]]
  /\ favourites' \in {favourites, favourites \ {Head(rest[w])[2]}}

(* UpcomingTracks.Remove takes the first occurrence out, if there is one.  *)
RemoveTrack(w) ==
  /\ At(w, "remove")
  /\ \/ \E i \in DOMAIN playlist :
          /\ playlist[i] = about[w]
          /\ \A j \in 1..(i - 1) : playlist[j] # about[w]
          /\ playlist' = RemoveAt(playlist, i)
     \/ /\ \A i \in DOMAIN playlist : playlist[i] # about[w]
        /\ UNCHANGED playlist
  /\ about' = [about EXCEPT ![w] = None]
  /\ Goto(w, "check")
  /\ UNCHANGED <<state, handlers, favourites, files, votes, voting, rest, held, crashed>>

-----------------------------------------------------------------------------
(* OrganizePlaylist.                                                       *)

(* It looks whether the first track is downloaded, then plays the track    *)
(* that is first when it reads the list again.                             *)
CheckCurrent(w) ==
  /\ At(w, "check")
  /\ Goto(w, IF CurrentTrack # None /\ state[CurrentTrack] = "Downloaded"
             THEN "play" ELSE "count")
  /\ UNCHANGED <<playlist, state, handlers, favourites, files, votes, voting,
                 about, rest, held, crashed>>

(* PlayTrack stops the sounds that play, and starts the thread of the next *)
(* one; the votes are cleared.                                             *)
Play(w) ==
  /\ At(w, "play")
  /\ CurrentTrack # None
  /\ state' = [state EXCEPT ![CurrentTrack] = "Playing"]
  /\ \E v \in NewThread :
       /\ pc' = [x \in Workers |-> IF x = v THEN "sleeping"
                                   ELSE IF x = w THEN "count" ELSE Silenced(x)]
       /\ about' = [about EXCEPT ![v] = CurrentTrack]
  /\ votes' = <<>>
  /\ UNCHANGED <<playlist, handlers, favourites, files, voting, rest, held, crashed>>

(* What the stored procedure may return when it is asked for n tracks: rows*)
(* of favourites, a track once for each, and random tracks, once each, in  *)
(* any order; all of them new ones if there are so many.                   *)
Fetched(n) ==
  IF Repeats
  THEN {s \in [1..n -> Tracks] :
          \A t \in Tracks : Occurrences(t, s) > 1 => t \in favourites}
  ELSE LET fresh == {t \in Tracks : handlers[t] = 0 /\
                       \A w \in Workers : \A i \in DOMAIN held[w] : held[w][i] # t}
       IN {s \in UNION {[1..m -> fresh] : m \in 0..n} :
             /\ IsInjective(s)
             /\ Len(s) = n \/ Len(s) = Cardinality(fresh)}

(* Mutant: off by one.                                                     *)
MissingOneLess == BufferSize - 1 - Len(playlist)

Missing == BufferSize - Len(playlist)

FetchMissing(w) ==
  /\ At(w, "count")
  /\ \/ /\ Missing > 0
        /\ \E s \in Fetched(Missing) : held' = [held EXCEPT ![w] = s]
        /\ Goto(w, "add")
     \/ /\ Missing <= 0
        /\ Goto(w, "next")
        /\ UNCHANGED held
  /\ UNCHANGED <<playlist, state, handlers, favourites, files, votes, voting,
                 about, rest, crashed>>

(* Each of them is subscribed to, again if it was before, and added.       *)
AddTracks(w) ==
  /\ At(w, "add")
  /\ playlist' = playlist \o held[w]
  /\ handlers' = [t \in Tracks |-> handlers[t] + Occurrences(t, held[w])]
  /\ held' = [held EXCEPT ![w] = <<>>]
  /\ Goto(w, "next")
  /\ UNCHANGED <<state, favourites, files, votes, voting, about, rest, crashed>>

(* Mutant: the current track is taken to be downloaded.                    *)
DownloadableLater(i) ==
  /\ state[playlist[i]] = "New"
  /\ i > 1 /\ state[playlist[i - 1]] # "Downloading"

(* The first new track that does not follow one that downloads.            *)
Downloadable(i) ==
  /\ state[playlist[i]] = "New"
  /\ i > 1 => state[playlist[i - 1]] # "Downloading"

DownloadNextTrack(w) ==
  /\ At(w, "next")
  /\ \/ \E i \in DOMAIN playlist :
          /\ Downloadable(i)
          /\ \A j \in 1..(i - 1) : ~Downloadable(j)
          /\ about' = [about EXCEPT ![w] = playlist[i]]
          /\ Goto(w, "load")
     \/ /\ \A i \in DOMAIN playlist : ~Downloadable(i)
        /\ Goto(w, AfterHandler(w))
        /\ UNCHANGED about
  /\ UNCHANGED <<playlist, state, handlers, favourites, files, votes, voting,
                 rest, held, crashed>>

(* A track whose file is there is downloaded at once, on this thread.      *)
Download(w) ==
  /\ At(w, "load")
  /\ \/ /\ about[w] \in files
        /\ Raise(w, about[w], "Downloaded")
     \/ /\ about[w] \notin files
        /\ state' = [state EXCEPT ![about[w]] = "Downloading"]
        /\ \E v \in NewThread :
             /\ pc' = [pc EXCEPT ![w] = AfterHandler(w), ![v] = "loading"]
             /\ about' = [about EXCEPT ![w] = None, ![v] = about[w]]
        /\ UNCHANGED rest
  /\ UNCHANGED <<playlist, handlers, favourites, files, votes, voting, held, crashed>>

-----------------------------------------------------------------------------
(* Web requests.                                                           *)

(* A vote against a track is a vote to skip it when it is the current one. *)
(* The request checks that, and that the user has not voted, ...           *)
CheckVote(u, t) ==
  /\ ~crashed
  /\ voting[u] = None
  /\ t = CurrentTrack
  /\ \A i \in DOMAIN votes : votes[i].user # u
  /\ voting' = [voting EXCEPT ![u] = t]
  /\ UNCHANGED <<playlist, state, handlers, favourites, files, votes, thread, crashed>>

(* Mutant: a vote is added that was not checked.                           *)
AddVoteUnchecked(u) ==
  /\ ~crashed
  /\ votes' = Append(votes, [user |-> u, track |-> voting[u]])
  /\ voting' = [voting EXCEPT ![u] = None]
  /\ \E online \in 1..Cardinality(Users) :
       IF CurrentTrack # None /\ Len(votes') >= (online + 1) \div 2
       THEN pc' = [w \in Workers |-> Silenced(w)]
       ELSE UNCHANGED pc
  /\ UNCHANGED <<playlist, state, handlers, favourites, files, about, rest, held,
                 crashed>>

(* ... then adds the vote, and stops the player when half of those online, *)
(* the voter among them, have voted.  Without a current track the request  *)
(* fails and the player goes on.                                           *)
AddVote(u) ==
  /\ ~crashed
  /\ voting[u] # None
  /\ votes' = Append(votes, [user |-> u, track |-> voting[u]])
  /\ voting' = [voting EXCEPT ![u] = None]
  /\ \E online \in 1..Cardinality(Users) :
       IF CurrentTrack # None /\ Len(votes') >= (online + 1) \div 2
       THEN pc' = [w \in Workers |-> Silenced(w)]
       ELSE UNCHANGED pc
  /\ UNCHANGED <<playlist, state, handlers, favourites, files, about, rest, held,
                 crashed>>

Skip ==
  /\ ~crashed
  /\ CurrentTrack # None
  /\ \E w \in Workers : pc[w] = "sounding"
  /\ pc' = [w \in Workers |-> Silenced(w)]
  /\ UNCHANGED <<playlist, state, handlers, favourites, files, votes, voting,
                 about, rest, held, crashed>>

-----------------------------------------------------------------------------
(* An exception on a thread ends the process, and with it all but the      *)
(* database and the files.                                                 *)
Crash ==
  /\ crashed' = TRUE
  /\ playlist' = <<>> /\ votes' = <<>>
  /\ state' = [t \in Tracks |-> "New"]
  /\ handlers' = [t \in Tracks |-> 0]
  /\ voting' = [u \in Users |-> None]
  /\ pc' = [v \in Workers |-> "idle"]
  /\ about' = [v \in Workers |-> None]
  /\ rest' = [v \in Workers |-> <<>>]
  /\ held' = [v \in Workers |-> <<>>]
  /\ UNCHANGED <<favourites, files>>

(* There is no track to play, or no file of it: Play2D returns a null then,*)
(* which DoPlay uses.                                                      *)
PlayThrows(w) ==
  /\ \/ At(w, "play") /\ CurrentTrack = None
     \/ At(w, "sleeping") /\ about[w] \notin files
  /\ Crash

(* Neither the object context nor a list that is enumerated bears another  *)
(* thread.                                                                 *)
UsesContext(w) ==
  \/ pc[w] = "handler" /\ Head(rest[w])[1] # "Downloaded"
  \/ pc[w] = "count" /\ Missing > 0

ChangesList(w) == pc[w] \in {"remove", "add"}

ClashThrows(w) ==
  /\ ~crashed
  /\ \E v \in Workers \ {w} :
       \/ UsesContext(w) /\ UsesContext(v)
       \/ pc[w] = "next" /\ ChangesList(v)
  /\ Crash

(* The web server starts the process again for the next request.           *)
Restart ==
  /\ crashed
  /\ crashed' = FALSE
  /\ Goto(Web, "check")
  /\ UNCHANGED <<playlist, state, handlers, favourites, files, votes, voting,
                 about, rest, held>>

Work(w) ==
  \/ StartSound(w) \/ EndSound(w) \/ OnPlayed(w)
  \/ OnTrackDownloaded(w) \/ OnTrackPlayed(w) \/ OnTrackDownloadError(w)
  \/ RemoveTrack(w) \/ CheckCurrent(w) \/ Play(w)
  \/ FetchMissing(w) \/ AddTracks(w) \/ DownloadNextTrack(w) \/ Download(w)
  \/ PlayThrows(w)

Fetch(w) == WriteFile(w) \/ Downloaded(w) \/ DownloadFails(w)

Next ==
  \/ \E w \in Workers : Work(w) \/ Fetch(w) \/ ClashThrows(w)
  \/ \E u \in Users : AddVote(u) \/ \E t \in Tracks : CheckVote(u, t)
  \/ Skip \/ Restart

(* Threads are scheduled, and sounds end.                                  *)
Spec == Init /\ [][Next]_vars /\ \A w \in Workers : WF_vars(Work(w))

(* Spotify answers, so that downloads end too.                             *)
DownloadsEnd == \A w \in Workers : WF_vars(Fetch(w))

AnsweredSpec == Spec /\ DownloadsEnd

-----------------------------------------------------------------------------

(* The variables have the types of the fields they stand for.              *)
TypeOK ==
  /\ playlist \in Seq(Tracks)
  /\ state \in [Tracks -> TrackStates]
  /\ handlers \in [Tracks -> Nat]
  /\ favourites \in SUBSET Tracks
  /\ files \in SUBSET Tracks
  /\ votes \in Seq([user : Users, track : Tracks])
  /\ voting \in [Users -> Tracks \union {None}]
  /\ pc \in [Workers -> Steps]
  /\ about \in [Workers -> Tracks \union {None}]
  /\ rest \in [Workers -> Seq({"Downloaded", "Failed", "Played"} \X Tracks)]
  /\ held \in [Workers -> Seq(Tracks)]
  /\ crashed \in BOOLEAN

(* However the unlocked OrganizePlaylists of several threads interleave, a *)
(* list that is too short has a thread that has still to count it, or that *)
(* brings enough tracks: no removal is left without its refill.            *)
Refilling ==
  Len(playlist) < BufferSize =>
    \/ crashed
    \/ \E w \in Workers :
         \/ pc[w] \in {"remove", "check", "play", "count"}
         \/ pc[w] = "add" /\ Len(playlist) + Len(held[w]) >= BufferSize

(* A track that says it is downloading or playing is in the hands of a     *)
(* thread that does so, whose end will change its state: a track can be    *)
(* downloaded or played by two threads, never by none.                     *)
Attended ==
  \A t \in Tracks :
    /\ state[t] = "Downloading" =>
         \E w \in Workers : pc[w] \in Fetching /\ about[w] = t
    /\ state[t] = "Playing" =>
         \E w \in Workers : pc[w] \in Sounds /\ about[w] = t

(* A first track that is downloaded does not wait to be played but for a   *)
(* thread that will look at the list.  (So it is when no track is fetched  *)
(* a second time.)                                                         *)
HeadPlays ==
  CurrentTrack # None /\ state[CurrentTrack] = "Downloaded" =>
    \E w \in Workers : pc[w] \in {"handler", "remove", "check", "play"}

(* No track stays on the list of upcoming tracks for ever: it is played,   *)
(* or fails, and is removed.                                               *)
UpcomingTracksLeave ==
  \A t \in Tracks : t \in Range(playlist) ~> t \notin Range(playlist)
==============================================================================
