------------------------------- MODULE Ratings -------------------------------
(***************************************************************************)
(* What one user thinks of one track, as the server keeps it: rows of the  *)
(* tables Favourites and Ratings, and votes to skip the track.  Nothing in *)
(* the tables forbids a second row.  Clicks and votes of the user, from    *)
(* one page or several, and the player's removal of the track run at once, *)
(* each in steps of a lookup or a save.                                    *)
(***************************************************************************)
EXTENDS Integers, FiniteSets

CONSTANTS Requests   \* the requests of the user that can be under way at once

VARIABLES
  favourites,  \* how many rows of the table Favourites there are
  ratings,     \* and of the table Ratings
  votes,       \* how often the user is in MusicService.Votes
  op,          \* the request each is, or "none"
  pc,          \* the step it is at
  alone,       \* the requests that have met no other
  overlaps     \* which requests, "for" or "against", were under way twice at once

vars == <<favourites, ratings, votes, op, pc, alone, overlaps>>

Ops == {"add", "remove", "for", "against", "drop"}

(* A click adds as a vote for does.                                        *)
Side(o) == IF o \in {"add", "for"} THEN "for"
           ELSE IF o = "against" THEN "against" ELSE "none"

Init ==
  /\ favourites \in {0, 1} /\ ratings \in {0, 1} /\ votes = 0
  /\ op = [r \in Requests |-> "none"]
  /\ pc = [r \in Requests |-> "idle"]
  /\ alone = {}
  /\ overlaps = {}

-----------------------------------------------------------------------------
First(o) == IF o = "add" THEN "check" ELSE IF o = "remove" THEN "lookup"
            ELSE IF o = "for" THEN "rating" ELSE IF o = "against" THEN "rated"
            ELSE "anybodys"

(* /Favourites/Add, /Favourites/Remove and /Music/Vote, or the download of *)
(* the track failed, which takes the place of a request.  A request notes  *)
(* whether any other is under way with it, and starts from single rows.    *)
Send(r, o) ==
  /\ pc[r] = "idle"
  /\ op' = [op EXCEPT ![r] = o]
  /\ pc' = [pc EXCEPT ![r] = First(o)]
  /\ alone' = {q \in {r} : /\ favourites \in {0, 1} /\ ratings \in {0, 1}
                          /\ \A p \in Requests : pc[p] = "idle"}
  /\ overlaps' = overlaps \union
       {s \in {Side(o)} \ {"none"} : \E q \in Requests : Side(op[q]) = s}
  /\ UNCHANGED <<favourites, ratings, votes>>

At(r, step) == pc[r] = step

Goto(r, step) == pc' = [pc EXCEPT ![r] = step] /\ UNCHANGED <<op, alone>>

(* The end of AddToFavourites() and RemoveFromFavourites(): a click is     *)
(* answered, a vote goes on.                                               *)
Then(r, step) == IF op[r] = "against" THEN step ELSE "answer"

(* Mutant: the row is not looked for.                                      *)
CheckNot(r) ==
  /\ At(r, "check")
  /\ Goto(r, "save")
  /\ UNCHANGED <<favourites, ratings, votes, overlaps>>

(* AddToFavourites(): a lookup, and the save of a new row.                 *)
Check(r) ==
  /\ At(r, "check")
  /\ Goto(r, IF favourites = 0 THEN "save" ELSE "answer")
  /\ UNCHANGED <<favourites, ratings, votes, overlaps>>

Save(r) ==
  /\ At(r, "save")
  /\ favourites' = favourites + 1
  /\ Goto(r, "answer")
  /\ UNCHANGED <<ratings, votes, overlaps>>

(* RemoveFromFavourites(): the lookup of the oldest row, and its deletion. *)
Lookup(r) ==
  /\ At(r, "lookup")
  /\ Goto(r, IF favourites # 0 THEN "delete" ELSE Then(r, "rate"))
  /\ UNCHANGED <<favourites, ratings, votes, overlaps>>

(* A row that is deleted is gone for every other request that found it.    *)
GoneFavourite(step) ==
  IF step = "delete" THEN "gone delete" ELSE IF step = "drop own" THEN "drop" ELSE step

GoneRating(step) == IF step = "unrate" THEN "gone unrate" ELSE step

(* Mutant: others that found the row can delete it again.                  *)
DeleteAlone(r) ==
  /\ At(r, "delete")
  /\ favourites' = favourites - 1
  /\ Goto(r, Then(r, "rate"))
  /\ UNCHANGED <<ratings, votes, overlaps>>

Delete(r) ==
  /\ At(r, "delete")
  /\ favourites' = favourites - 1
  /\ pc' = [q \in Requests |-> IF q = r THEN Then(r, "rate") ELSE GoneFavourite(pc[q])]
  /\ UNCHANGED <<ratings, votes, op, alone, overlaps>>

(* Its deletion fails, which is caught.                                    *)
DeleteGone(r) ==
  /\ At(r, "gone delete")
  /\ Goto(r, Then(r, "rate"))
  /\ UNCHANGED <<favourites, ratings, votes, overlaps>>

(* VoteForTrack(): a rating is deleted, then the favourite added.          *)
FindRating(r) ==
  /\ At(r, "rating")
  /\ Goto(r, IF ratings # 0 THEN "unrate" ELSE "check")
  /\ UNCHANGED <<favourites, ratings, votes, overlaps>>

(* Mutant: the favourite is not added.                                     *)
UnrateOnly(r) ==
  /\ At(r, "unrate")
  /\ ratings' = ratings - 1
  /\ pc' = [q \in Requests |-> IF q = r THEN "answer" ELSE GoneRating(pc[q])]
  /\ UNCHANGED <<favourites, votes, op, alone, overlaps>>

Unrate(r) ==
  /\ At(r, "unrate")
  /\ ratings' = ratings - 1
  /\ pc' = [q \in Requests |-> IF q = r THEN "check" ELSE GoneRating(pc[q])]
  /\ UNCHANGED <<favourites, votes, op, alone, overlaps>>

(* This deletion fails as well, and nothing catches it: the request fails. *)
UnrateGone(r) ==
  /\ At(r, "gone unrate")
  /\ Goto(r, "answer")
  /\ UNCHANGED <<favourites, ratings, votes, overlaps>>

(* VoteAgainstTrack(): with a rating there already nothing is done; else a *)
(* favourite is removed, and in a save of its own the rating added.        *)
Rated(r) ==
  /\ At(r, "rated")
  /\ Goto(r, IF ratings # 0 THEN "current" ELSE "favourite")
  /\ UNCHANGED <<favourites, ratings, votes, overlaps>>

FindFavourite(r) ==
  /\ At(r, "favourite")
  /\ Goto(r, IF favourites # 0 THEN "lookup" ELSE "rate")
  /\ UNCHANGED <<favourites, ratings, votes, overlaps>>

Rate(r) ==
  /\ At(r, "rate")
  /\ ratings' = ratings + 1
  /\ Goto(r, "current")
  /\ UNCHANGED <<favourites, votes, overlaps>>

(* Mutant: the votes are not searched.                                     *)
ContainsNot(r) ==
  /\ At(r, "current")
  /\ Goto(r, "vote") \/ Goto(r, "answer")
  /\ UNCHANGED <<favourites, ratings, votes, overlaps>>

(* Vote() goes on in either case.  If the track is the current one the     *)
(* user is looked for among the votes, ...                                 *)
Contains(r) ==
  /\ At(r, "current")
  /\ \/ votes = 0 /\ Goto(r, "vote")
     \/ Goto(r, "answer")
  /\ UNCHANGED <<favourites, ratings, votes, overlaps>>

(* ... and added.                                                          *)
AddVote(r) ==
  /\ At(r, "vote")
  /\ votes' = votes + 1
  /\ Goto(r, "answer")
  /\ UNCHANGED <<favourites, ratings, overlaps>>

Answer(r) ==
  /\ At(r, "answer")
  /\ op' = [op EXCEPT ![r] = "none"]
  /\ pc' = [pc EXCEPT ![r] = "idle"]
  /\ alone' = alone \ {r}
  /\ UNCHANGED <<favourites, ratings, votes, overlaps>>

(* FullyRemoveTrack(), after a failed download: a favourite of anybody is  *)
(* found, or none, ...                                                     *)
FindAnybodys(r) ==
  /\ At(r, "anybodys")
  /\ \/ favourites # 0 /\ Goto(r, "drop own")
     \/ Goto(r, "drop") \/ Goto(r, "answer")
  /\ UNCHANGED <<favourites, ratings, votes, overlaps>>

(* ... with one all ratings are deleted, then that favourite.              *)
DropRatings(r, own) ==
  /\ At(r, IF own THEN "drop own" ELSE "drop")
  /\ ratings' = 0
  /\ pc' = [q \in Requests |->
       IF q # r THEN GoneRating(pc[q]) ELSE IF own THEN "delete" ELSE "answer"]
  /\ UNCHANGED <<favourites, votes, op, alone, overlaps>>

Run(r) ==
  \/ Check(r) \/ Save(r) \/ Lookup(r) \/ Delete(r) \/ DeleteGone(r)
  \/ FindRating(r) \/ Unrate(r) \/ UnrateGone(r)
  \/ Rated(r) \/ FindFavourite(r) \/ Rate(r) \/ Contains(r) \/ AddVote(r) \/ Answer(r)
  \/ FindAnybodys(r) \/ \E own \in BOOLEAN : DropRatings(r, own)

(* Votes.Clear() when the next track is played.                            *)
Clear ==
  /\ votes # 0
  /\ votes' = 0
  /\ UNCHANGED <<favourites, ratings, op, pc, alone, overlaps>>

Next ==
  \/ \E r \in Requests : Run(r) \/ \E o \in Ops : Send(r, o)
  \/ Clear

Spec == Init /\ [][Next]_vars

-----------------------------------------------------------------------------
(* Properties.                                                             *)

Steps == {"idle", "check", "save", "lookup", "delete", "gone delete", "rating", "unrate",
          "gone unrate", "rated", "favourite", "rate", "current", "vote", "answer", "anybodys", "drop own", "drop"}

TypeOK ==
  /\ favourites \in Nat /\ ratings \in Nat /\ votes \in Nat
  /\ op \in [Requests -> Ops \union {"none"}]
  /\ pc \in [Requests -> Steps]
  /\ alone \subseteq Requests
  /\ overlaps \subseteq {"for", "against"}

(* There is a second row, or a second vote of the user, only if two        *)
(* requests that add one were under way at the same time: a row that is    *)
(* looked for and not found is not saved by anybody else in between.       *)
SingleRows ==
  /\ favourites > 1 => "for" \in overlaps
  /\ ratings > 1 => "against" \in overlaps
  /\ votes > 1 => "against" \in overlaps

(* A vote that met no other request has its effect: against it, a track is *)
(* no favourite and rated once, for it, a favourite and not rated.         *)
VotesDecide ==
  [][\A r \in Requests :
       (/\ r \in alone /\ op[r] \in {"for", "against"}
        /\ pc[r] \notin {"current", "vote", "answer"} /\ pc'[r] \in {"current", "answer"})
       => IF op[r] = "for" THEN favourites' = 1 /\ ratings' = 0
          ELSE ratings' = 1 /\ (pc[r] = "rate" => favourites' = 0)]_vars
==============================================================================
