----------------------------- MODULE Favourites ------------------------------
(***************************************************************************)
(* The favourites of one user: the rows the server keeps, the list the     *)
(* page got when the user logged in and changes on its own since, and the  *)
(* icon of each track, which says whether a click will add or remove it.   *)
(* Votes and failed downloads change the rows, and not the list.  Requests *)
(* run on the server in steps, a lookup and a save at a time; clicks do    *)
(* not wait for each other.                                                *)
(***************************************************************************)
EXTENDS Naturals, FiniteSets, Sequences, SequencesExt

CONSTANTS
  Tracks,
  Requests,   \* the requests that can be under way at once
  None

ASSUME FavouritesAssumption ==
  /\ IsFiniteSet(Tracks) /\ IsFiniteSet(Requests)
  /\ None \notin Tracks /\ "list" \notin Tracks

VARIABLES
  rows,     \* how many rows of the table Favourites the user has of each track
  list,     \* favourites of the page
  icon,     \* the classes of the icon of each track
  req,      \* the requests under way
  doubt     \* what interference has put in doubt, see the properties

vars == <<rows, list, icon, req, doubt>>

Icons == {"plus", "minus", "clock"}

Occurrences(s, t) == Cardinality({i \in DOMAIN s : s[i] = t})

Idle ==
  [op |-> "none", track |-> None, pc |-> "idle", index |-> 0, fresh |-> FALSE,
   data |-> <<>>]

Busy == {r \in Requests : req[r].pc # "idle"}

On(t) == {r \in Busy : req[r].track = t}

(* isInFavourites(), from 1; 0 is none.                                    *)
isInFavourites(t) ==
  IF \E i \in DOMAIN list : list[i] = t
  THEN CHOOSE i \in DOMAIN list : list[i] = t /\ \A j \in 1..(i - 1) : list[j] # t
  ELSE 0

(* createTrackTd()                                                         *)
createTrackTd(t) == IF isInFavourites(t) > 0 THEN {"minus"} ELSE {"plus"}

(* The user logs in to a page: the list is what the server has.            *)
Init ==
  /\ \E S \in SUBSET Tracks :
       /\ list \in SetToSeqs(S)
       /\ rows = [t \in Tracks |-> IF t \in S THEN 1 ELSE 0]
  /\ icon = [t \in Tracks |-> createTrackTd(t)]
  /\ req = [r \in Requests |-> Idle]
  /\ doubt = {}

-----------------------------------------------------------------------------
(* The page.                                                               *)

(* A request is sent.  A load takes note of what else is under way.        *)
Send(r, op, t, pc, index, fresh) ==
  /\ req[r].pc = "idle"
  /\ req' = [q \in Requests |->
       IF q = r THEN [Idle EXCEPT !.op = op, !.track = t, !.pc = pc,
                                  !.index = index, !.fresh = fresh]
       ELSE IF req[q].op = "load" THEN [req[q] EXCEPT !.fresh = FALSE]
       ELSE req[q]]

Removing == {r \in Busy : req[r].op = "remove"}

Loading == {r \in Busy : req[r].op = "load"}

Adding(t) == {r \in On(t) : req[r].op = "add"}

(* What a click puts in doubt: the icon, if a click on it is under way     *)
(* already or the track is there twice; the list, if it is loaded just     *)
(* now, if a track is added that is removed still, and if a removal comes  *)
(* on top of another and is not simply a second click on the same track.   *)
Unsettled(t, index) ==
  (IF On(t) # {} \/ Occurrences(list, t) > 1 THEN {t} ELSE {})
    \union
  (IF \/ Loading # {}
      \/ index = 0 /\ Removing \intersect On(t) # {}
      \/ index > 0 /\ Removing \ On(t) # {}
      \/ index > 0 /\ Removing # {} /\ (Adding(t) # {} \/ Occurrences(list, t) > 1)
   THEN {"list"} ELSE {})

ClickKeepsMinus(r, t) ==
  LET index == isInFavourites(t) IN
  /\ IF index > 0 THEN Send(r, "remove", t, "lookup", index, TRUE)
     ELSE Send(r, "add", t, "check", 0, TRUE)
  /\ icon' = [icon EXCEPT ![t] = (@ \ {"plus"}) \union {"clock"}]
  /\ doubt' = doubt \union Unsettled(t, index)
  /\ UNCHANGED <<rows, list>>

(* The place in the list is looked up here, for when the reply will come.  *)
Click(r, t) ==
  LET index == isInFavourites(t) IN
  /\ IF index > 0 THEN Send(r, "remove", t, "lookup", index, TRUE)
     ELSE Send(r, "add", t, "check", 0, TRUE)
  /\ icon' = [icon EXCEPT ![t] = (@ \ {"plus", "minus"}) \union {"clock"}]
  /\ doubt' = doubt \union Unsettled(t, index)
  /\ UNCHANGED <<rows, list>>

(* onLogin(): the list is asked for again.                                 *)
Load(r) ==
  /\ Send(r, "load", None, "list", 0, Busy = {})
  /\ UNCHANGED <<rows, list, icon, doubt>>

(* A table with the track is filled again, by a search, an album, ...: the *)
(* new icon is none that a request under way would change.                 *)
Redraw(t) ==
  /\ icon' = [icon EXCEPT ![t] = createTrackTd(t)]
  /\ req' = [r \in Requests |->
       IF r \in On(t) THEN [req[r] EXCEPT !.fresh = FALSE] ELSE req[r]]
  /\ doubt' = IF On(t) # {} THEN doubt \union {t} ELSE doubt \ {t}
  /\ UNCHANGED <<rows, list>>

(* splice(index, 1) takes nothing from a list that is shorter by now.      *)
Splice(s, index) == IF index \in DOMAIN s THEN RemoveAt(s, index) ELSE s

(* A reply ends the clock in the icon the click was made on.               *)
Answered(r, class) ==
  /\ req' = [req EXCEPT ![r] = Idle]
  /\ LET t == req[r].track IN
     icon' = IF req[r].fresh
             THEN [icon EXCEPT ![t] = (@ \ {"clock"}) \union {class}] ELSE icon
  /\ UNCHANGED <<rows, doubt>>

AddReplyPushes(r) ==
  /\ req[r].op = "add" /\ req[r].pc \in {"Success", "Error"}
  /\ Answered(r, "minus")
  /\ list' = Append(list, IF req[r].pc = "Success" THEN req[r].track ELSE None)

AddReply(r) ==
  /\ req[r].op = "add" /\ req[r].pc \in {"Success", "Error"}
  /\ Answered(r, "minus")
  /\ list' = IF req[r].pc = "Success" THEN Append(list, req[r].track) ELSE list

RemoveReply(r) ==
  /\ req[r].op = "remove" /\ req[r].pc \in {"Success", "Error"}
  /\ Answered(r, "plus")
  /\ list' = IF req[r].pc = "Success" THEN Splice(list, req[r].index) ELSE list

(* The icons that are there already are left as they are.                  *)
LoadReply(r) ==
  /\ req[r].op = "load" /\ req[r].pc = "answer"
  /\ req' = [req EXCEPT ![r] = Idle]
  /\ list' = req[r].data
  /\ doubt' = IF req[r].fresh
              THEN (doubt \ {"list"}) \union Tracks ELSE doubt \union {"list"}
  /\ UNCHANGED <<rows, icon>>

Reply(r) == AddReply(r) \/ RemoveReply(r) \/ LoadReply(r)

(* A request that is not answered, or fails on the server.                 *)
Lose(r) ==
  /\ req[r].pc \in {"check", "lookup", "Success", "Error", "list", "answer"}
  /\ req' = [req EXCEPT ![r] = Idle]
  /\ doubt' = doubt \union (IF req[r].op = "load" THEN {} ELSE {"list", req[r].track})
  /\ UNCHANGED <<rows, list, icon>>

-----------------------------------------------------------------------------
(* The server.                                                             *)

Goto(r, pc) == req' = [req EXCEPT ![r].pc = pc]

(* AddToFavourites(): the lookup, and the save of a new row.               *)
Check(r) ==
  /\ req[r].pc = "check"
  /\ Goto(r, IF rows[req[r].track] = 0 THEN "save" ELSE "Error")
  /\ UNCHANGED <<rows, list, icon, doubt>>

Save(r) ==
  /\ req[r].pc = "save"
  /\ rows' = [rows EXCEPT ![req[r].track] = @ + 1]
  /\ Goto(r, "Success")
  /\ UNCHANGED <<list, icon, doubt>>

(* RemoveFromFavourites(): the lookup, which finds the oldest row.         *)
Lookup(r) ==
  /\ req[r].pc = "lookup"
  /\ Goto(r, IF rows[req[r].track] > 0 THEN "delete" ELSE "Error")
  /\ UNCHANGED <<rows, list, icon, doubt>>

(* The oldest row is gone for every other request that found it.           *)
Gone(q, t) ==
  IF q.pc = "delete" /\ q.track = t THEN [q EXCEPT !.pc = "gone"] ELSE q

DeleteAnyway(r) ==
  /\ req[r].pc = "delete"
  /\ LET t == req[r].track IN rows' = [rows EXCEPT ![t] = @ - 1]
  /\ req' = [req EXCEPT ![r].pc = "Success"]
  /\ UNCHANGED <<list, icon, doubt>>

Delete(r) ==
  /\ req[r].pc = "delete"
  /\ LET t == req[r].track IN
     /\ rows' = [rows EXCEPT ![t] = @ - 1]
     /\ req' = [q \in Requests |->
          IF q = r THEN [req[r] EXCEPT !.pc = "Success"] ELSE Gone(req[q], t)]
  /\ UNCHANGED <<list, icon, doubt>>

(* The deletion of a row that is gone is an error.                         *)
DeleteGone(r) ==
  /\ req[r].pc = "gone"
  /\ Goto(r, "Error")
  /\ UNCHANGED <<rows, list, icon, doubt>>

(* The rows of the user, in no stated order.                               *)
Rows == UNION {{t} \X (1..rows[t]) : t \in Tracks}

GetUsersFavourites(r) ==
  /\ req[r].pc = "list"
  /\ \E s \in [1..Cardinality(Rows) -> Tracks] :
       /\ \A t \in Tracks : Occurrences(s, t) = rows[t]
       /\ req' = [req EXCEPT ![r].pc = "answer", ![r].data = s]
  /\ UNCHANGED <<rows, list, icon, doubt>>

Serve(r) ==
  \/ Check(r) \/ Save(r) \/ Lookup(r) \/ Delete(r) \/ DeleteGone(r)
  \/ GetUsersFavourites(r)

(* What the page does not hear of: a vote for a track adds a row, one      *)
(* against it or a failed download deletes one.                            *)
Elsewhere(t) ==
  /\ \/ rows[t] > 0 /\ rows' = [rows EXCEPT ![t] = @ - 1]
     \/ rows[t] = 0 /\ rows' = [rows EXCEPT ![t] = 1]
  /\ req' = [r \in Requests |->
       IF r \in Loading THEN [req[r] EXCEPT !.fresh = FALSE]
       ELSE IF rows[t] > 0 THEN Gone(req[r], t) ELSE req[r]]
  /\ doubt' = doubt \union {"list"}
  /\ UNCHANGED <<list, icon>>

-----------------------------------------------------------------------------
Next ==
  \/ \E r \in Requests :
       \/ \E t \in Tracks : Click(r, t)
       \/ Load(r) \/ Reply(r) \/ Lose(r) \/ Serve(r)
  \/ \E t \in Tracks : Redraw(t) \/ Elsewhere(t)

Spec == Init /\ [][Next]_vars

-----------------------------------------------------------------------------
(* Properties.                                                             *)

Steps == {"idle", "check", "save", "lookup", "delete", "gone", "list",
          "Success", "Error", "answer"}

TypeOK ==
  /\ rows \in [Tracks -> Nat]
  /\ list \in Seq(Tracks)
  /\ icon \in [Tracks -> (SUBSET Icons) \ {{}}]
  /\ req \in [Requests ->
       [op : {"none", "add", "remove", "load"},
        track : Tracks \union {None}, pc : Steps, index : Nat,
        fresh : BOOLEAN, data : Seq(Tracks)]]
  /\ doubt \subseteq Tracks \union {"list"}

(* The list of the page has a track as often as the server has a row of    *)
(* it, as soon as no request about it is under way: through double clicks, *)
(* duplicate rows and answers in any order.  Not so once two removals have *)
(* overlapped, since each took its place in the list at the click; after a *)
(* vote, which the page does not follow up; and after losses.  A list that *)
(* is loaded with nothing else under way is right again.                   *)
ListMatches ==
  "list" \notin doubt =>
    \A t \in Tracks :
      On(t) = {} /\ Loading = {} =>
        Occurrences(list, t) = rows[t]

(* An icon then promises what a click will do, and shows no clock, unless  *)
(* it was clicked a second time or drawn while the first was under way.    *)
IconsMatch ==
  "list" \notin doubt =>
    \A t \in Tracks \ doubt :
      On(t) = {} =>
        icon[t] = createTrackTd(t)
==============================================================================
