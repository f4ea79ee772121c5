---------------------------- MODULE RatingsProofs ----------------------------
(***************************************************************************)
(* Theorems about Ratings, for any number of requests at once.             *)
(***************************************************************************)
EXTENDS Ratings, TLAPS

(* Which operations reach the step that a request is at.                   *)
Reaches(r) ==
  /\ pc[r] \in {"check", "save"} => op[r] \in {"add", "for"}
  /\ pc[r] \in {"rating", "unrate", "gone unrate"} => op[r] = "for"
  /\ pc[r] \in {"rated", "favourite", "rate", "current", "vote"} => op[r] = "against"
  /\ pc[r] = "lookup" => op[r] \in {"remove", "against"}
  /\ pc[r] \in {"delete", "gone delete"} => op[r] \in {"remove", "against", "drop"}
  /\ pc[r] \in {"anybodys", "drop own", "drop"} => op[r] = "drop"

(* The steps of a vote against a track that was not rated.                 *)
Unrated == {"favourite", "lookup", "delete", "gone delete", "rate"}

(* What a request knows of the rows: what it is about to delete is there,  *)
(* and what it has not found is not, while no other request adds the same. *)
Knows(r) ==
  /\ pc[r] \in {"delete", "drop own"} => favourites # 0
  /\ pc[r] = "unrate" => ratings # 0
  /\ pc[r] = "save" => favourites = 0 \/ "for" \in overlaps
  /\ op[r] = "against" /\ pc[r] \in Unrated => ratings = 0 \/ "against" \in overlaps
  /\ pc[r] = "vote" => votes = 0 \/ "against" \in overlaps

(* The steps before a request has added anything.                          *)
Early == {"check", "save", "rating", "unrate", "rated", "favourite", "lookup", "delete",
          "anybodys", "drop own", "drop"}

(* A request that has met no other knows more: that there are not two rows,*)
(* that what it has removed has not come back, and that nobody has deleted *)
(* what it has found.                                                      *)
KnowsAlone(r) ==
  /\ pc[r] \in Early => favourites \in {0, 1} /\ ratings \in {0, 1}
  /\ pc[r] \in {"save", "rate"} => favourites = 0
  /\ op[r] = "for" /\ pc[r] \in {"check", "save"} => ratings = 0
  /\ op[r] = "against" /\ pc[r] \in Unrated => ratings = 0
  /\ pc[r] \notin {"gone unrate", "gone delete"}

Fits(r) == Reaches(r) /\ Knows(r) /\ (r \in alone => KnowsAlone(r))

MeetsNone == \A r \in alone, q \in Requests : q # r => pc[q] = "idle"

(* Overlapping requests are noted, ...                                     *)
Noted ==
  \A s \in {"for", "against"} : s \notin overlaps =>
    \A p, q \in Requests : Side(op[p]) = s /\ Side(op[q]) = s => p = q

(* ... and without them there are no second rows.                          *)
Single ==
  /\ favourites \in {0, 1} \/ "for" \in overlaps
  /\ ratings \in {0, 1} \/ "against" \in overlaps
  /\ votes \in {0, 1} \/ "against" \in overlaps

IInv == TypeOK /\ Noted /\ Single /\ MeetsNone /\ \A r \in Requests : Fits(r)

-----------------------------------------------------------------------------
(* A request that moves on keeps what all others know, if no other moves   *)
(* from where it is but to find that a row is gone; no other is alone.     *)
LEMMA Running ==
  ASSUME IInv, NEW r \in Requests, pc[r] # "idle",
         UNCHANGED <<op, alone, overlaps>>, TypeOK', Single', Fits(r)',
         \A q \in Requests \ {r} :
           /\ pc[q] = "idle" => pc'[q] = "idle"
           /\ Reaches(q)' /\ Knows(q)'
  PROVE  IInv'
<1>1. Noted'
  BY DEF IInv, Noted
<1>2. alone \subseteq {r}
  BY DEF IInv, TypeOK, MeetsNone
<1>3. MeetsNone'
  BY <1>2 DEF IInv, TypeOK, MeetsNone
<1>4. \A q \in Requests \ {r} : Fits(q)'
  BY <1>2 DEF Fits
<1> QED
  BY <1>1, <1>3, <1>4 DEF IInv

(* A lookup, or an end of an operation, which changes no row.              *)
LEMMA Looking ==
  ASSUME IInv, NEW r \in Requests, pc[r] # "idle", NEW step \in Steps, Goto(r, step),
         UNCHANGED <<favourites, ratings, votes, overlaps>>, Fits(r)'
  PROVE  IInv'
<1>1. UNCHANGED <<op, alone>> /\ pc' = [pc EXCEPT ![r] = step]
  BY DEF Goto
<1>2. TypeOK'
  BY <1>1 DEF IInv, TypeOK
<1>3. Single'
  BY DEF IInv, Single
<1>4. ASSUME NEW q \in Requests \ {r}
      PROVE  (pc[q] = "idle" => pc'[q] = "idle") /\ Reaches(q)' /\ Knows(q)'
  <2>1. pc'[q] = pc[q]
    BY <1>1 DEF IInv, TypeOK
  <2> QED
    BY <1>1, <2>1 DEF IInv, Fits, Reaches, Knows
<1> QED
  BY <1>1, <1>2, <1>3, <1>4, Running

(* The lookups.                                                            *)

LEMMA CheckStep ==
  ASSUME IInv, NEW r \in Requests, Check(r)
  PROVE  IInv'
<1>1. pc[r] = "check" /\ Fits(r)
  BY DEF IInv, Check, At
<1>2. PICK step \in {"save", "answer"} : Goto(r, step) /\ (step = "save" => favourites = 0)
  BY DEF Check
<1>3. pc'[r] = step /\ UNCHANGED <<op, alone, favourites, ratings, votes, overlaps>>
  BY <1>2 DEF IInv, TypeOK, Check, Goto
<1>4. Fits(r)'
  BY <1>1, <1>2, <1>3 DEF Fits, Reaches, Knows, KnowsAlone, Early, Unrated
<1> QED
  BY <1>1, <1>2, <1>3, <1>4, Looking DEF Steps

LEMMA LookupStep ==
  ASSUME IInv, NEW r \in Requests, Lookup(r)
  PROVE  IInv'
<1>1. pc[r] = "lookup" /\ Fits(r)
  BY DEF IInv, Lookup, At
<1>2. PICK step \in {"delete", "rate", "answer"} : Goto(r, step)
        /\ (step = "delete" => favourites # 0)
        /\ (step = "rate" => favourites = 0 /\ op[r] = "against")
  BY DEF Lookup, Then
<1>3. pc'[r] = step /\ UNCHANGED <<op, alone, favourites, ratings, votes, overlaps>>
  BY <1>2 DEF IInv, TypeOK, Lookup, Goto
<1>4. Fits(r)'
  BY <1>1, <1>2, <1>3 DEF Fits, Reaches, Knows, KnowsAlone, Early, Unrated
<1> QED
  BY <1>1, <1>2, <1>3, <1>4, Looking DEF Steps

LEMMA DeleteGoneStep ==
  ASSUME IInv, NEW r \in Requests, DeleteGone(r)
  PROVE  IInv'
<1>1. pc[r] = "gone delete" /\ Fits(r)
  BY DEF IInv, DeleteGone, At
<1>2. PICK step \in {"rate", "answer"} : Goto(r, step) /\ (step = "rate" => op[r] = "against")
  BY DEF DeleteGone, Then
<1>3. pc'[r] = step /\ UNCHANGED <<op, alone, favourites, ratings, votes, overlaps>>
  BY <1>2 DEF IInv, TypeOK, DeleteGone, Goto
<1>4. Fits(r)'
  BY <1>1, <1>2, <1>3 DEF Fits, Reaches, Knows, KnowsAlone, Early, Unrated
<1> QED
  BY <1>1, <1>2, <1>3, <1>4, Looking DEF Steps

LEMMA FindRatingStep ==
  ASSUME IInv, NEW r \in Requests, FindRating(r)
  PROVE  IInv'
<1>1. pc[r] = "rating" /\ Fits(r)
  BY DEF IInv, FindRating, At
<1>2. PICK step \in {"unrate", "check"} : Goto(r, step) /\ (ratings = 0 <=> step = "check")
  BY DEF FindRating
<1>3. pc'[r] = step /\ UNCHANGED <<op, alone, favourites, ratings, votes, overlaps>>
  BY <1>2 DEF IInv, TypeOK, FindRating, Goto
<1>4. Fits(r)'
  BY <1>1, <1>2, <1>3 DEF Fits, Reaches, Knows, KnowsAlone, Early, Unrated
<1> QED
  BY <1>1, <1>2, <1>3, <1>4, Looking DEF Steps

LEMMA UnrateGoneStep ==
  ASSUME IInv, NEW r \in Requests, UnrateGone(r)
  PROVE  IInv'
<1>1. pc[r] = "gone unrate" /\ Fits(r)
  BY DEF IInv, UnrateGone, At
<1>2. PICK step \in {"answer"} : Goto(r, step)
  BY DEF UnrateGone
<1>3. pc'[r] = step /\ UNCHANGED <<op, alone, favourites, ratings, votes, overlaps>>
  BY <1>2 DEF IInv, TypeOK, UnrateGone, Goto
<1>4. Fits(r)'
  BY <1>1, <1>2, <1>3 DEF Fits, Reaches, Knows, KnowsAlone, Early, Unrated
<1> QED
  BY <1>1, <1>2, <1>3, <1>4, Looking DEF Steps

LEMMA RatedStep ==
  ASSUME IInv, NEW r \in Requests, Rated(r)
  PROVE  IInv'
<1>1. pc[r] = "rated" /\ Fits(r)
  BY DEF IInv, Rated, At
<1>2. PICK step \in {"current", "favourite"} : Goto(r, step) /\ (step = "favourite" => ratings = 0)
  BY DEF Rated
<1>3. pc'[r] = step /\ UNCHANGED <<op, alone, favourites, ratings, votes, overlaps>>
  BY <1>2 DEF IInv, TypeOK, Rated, Goto
<1>4. Fits(r)'
  BY <1>1, <1>2, <1>3 DEF Fits, Reaches, Knows, KnowsAlone, Early, Unrated
<1> QED
  BY <1>1, <1>2, <1>3, <1>4, Looking DEF Steps

LEMMA FindFavouriteStep ==
  ASSUME IInv, NEW r \in Requests, FindFavourite(r)
  PROVE  IInv'
<1>1. pc[r] = "favourite" /\ Fits(r)
  BY DEF IInv, FindFavourite, At
<1>2. PICK step \in {"lookup", "rate"} : Goto(r, step) /\ (step = "rate" => favourites = 0)
  BY DEF FindFavourite
<1>3. pc'[r] = step /\ UNCHANGED <<op, alone, favourites, ratings, votes, overlaps>>
  BY <1>2 DEF IInv, TypeOK, FindFavourite, Goto
<1>4. Fits(r)'
  BY <1>1, <1>2, <1>3 DEF Fits, Reaches, Knows, KnowsAlone, Early, Unrated
<1> QED
  BY <1>1, <1>2, <1>3, <1>4, Looking DEF Steps

LEMMA ContainsStep ==
  ASSUME IInv, NEW r \in Requests, Contains(r)
  PROVE  IInv'
<1>1. pc[r] = "current" /\ Fits(r)
  BY DEF IInv, Contains, At
<1>2. PICK step \in {"vote", "answer"} : Goto(r, step) /\ (step = "vote" => votes = 0)
  BY DEF Contains
<1>3. pc'[r] = step /\ UNCHANGED <<op, alone, favourites, ratings, votes, overlaps>>
  BY <1>2 DEF IInv, TypeOK, Contains, Goto
<1>4. Fits(r)'
  BY <1>1, <1>2, <1>3 DEF Fits, Reaches, Knows, KnowsAlone, Early, Unrated
<1> QED
  BY <1>1, <1>2, <1>3, <1>4, Looking DEF Steps

LEMMA FindAnybodysStep ==
  ASSUME IInv, NEW r \in Requests, FindAnybodys(r)
  PROVE  IInv'
<1>1. pc[r] = "anybodys" /\ Fits(r)
  BY DEF IInv, FindAnybodys, At
<1>2. PICK step \in {"drop own", "drop", "answer"} : Goto(r, step)
        /\ (step = "drop own" => favourites # 0)
  BY DEF FindAnybodys
<1>3. pc'[r] = step /\ UNCHANGED <<op, alone, favourites, ratings, votes, overlaps>>
  BY <1>2 DEF IInv, TypeOK, FindAnybodys, Goto
<1>4. Fits(r)'
  BY <1>1, <1>2, <1>3 DEF Fits, Reaches, Knows, KnowsAlone, Early, Unrated
<1> QED
  BY <1>1, <1>2, <1>3, <1>4, Looking DEF Steps

-----------------------------------------------------------------------------
(* The steps that change rows.                                             *)

(* Nobody else is about to save a favourite, unless that is noted.         *)
LEMMA SaveStep ==
  ASSUME IInv, NEW r \in Requests, Save(r)
  PROVE  IInv'
<1>1. pc[r] = "save" /\ Fits(r) /\ op[r] \in {"add", "for"}
  BY DEF IInv, Save, At, Fits, Reaches
<1>2. favourites' \in Nat /\ favourites' # 0 /\ (favourites = 0 => favourites' = 1)
  BY DEF IInv, TypeOK, Save
<1>3. UNCHANGED <<ratings, votes, op, alone, overlaps>> /\ pc' = [pc EXCEPT ![r] = "answer"]
  BY DEF Save, Goto
<1>4. TypeOK'
  BY <1>2, <1>3 DEF IInv, TypeOK, Steps
<1>5. Single'
  BY <1>1, <1>2, <1>3 DEF IInv, Single, Fits, Knows
<1>6. Fits(r)'
  <2>1. pc'[r] = "answer"
    BY <1>3 DEF IInv, TypeOK
  <2> QED
    BY <2>1 DEF Fits, Reaches, Knows, KnowsAlone, Early, Unrated
<1>7. ASSUME NEW q \in Requests \ {r}
      PROVE  (pc[q] = "idle" => pc'[q] = "idle") /\ Reaches(q)' /\ Knows(q)'
  <2>1. pc'[q] = pc[q] /\ op'[q] = op[q] /\ Reaches(q) /\ Knows(q)
    BY <1>3 DEF IInv, TypeOK, Fits
  <2>2. pc[q] = "save" => "for" \in overlaps
    BY <1>1, <2>1 DEF IInv, Noted, Side, Reaches
  <2> QED
    BY <1>2, <1>3, <2>1, <2>2 DEF Reaches, Knows
<1> QED
  BY <1>1, <1>3, <1>4, <1>5, <1>6, <1>7, Running

(* A row that is deleted was there, so nobody relies on its absence; those *)
(* that have found it too learn that it is gone.                           *)
LEMMA DeleteStep ==
  ASSUME IInv, NEW r \in Requests, Delete(r)
  PROVE  IInv'
<1>1. pc[r] = "delete" /\ Fits(r) /\ favourites # 0
  BY DEF IInv, Delete, At, Fits, Knows
<1>2. favourites' \in Nat /\ (favourites \in {0, 1} => favourites' = 0)
  BY <1>1 DEF IInv, TypeOK, Delete
<1>3. UNCHANGED <<ratings, votes, op, alone, overlaps>>
  BY DEF Delete
<1>4. /\ pc'[r] = Then(r, "rate")
      /\ \A q \in Requests \ {r} : pc'[q] = GoneFavourite(pc[q])
  BY DEF Delete
<1>5. TypeOK'
  <2>1. pc' \in [Requests -> Steps]
    BY DEF IInv, TypeOK, Delete, Then, GoneFavourite, Steps
  <2> QED
    BY <1>2, <1>3, <2>1 DEF IInv, TypeOK
<1>6. Single'
  BY <1>2, <1>3 DEF IInv, Single
<1>7. Fits(r)'
  <2>1. pc'[r] \in {"rate", "answer"} /\ (pc'[r] = "rate" => op[r] = "against")
    BY <1>4 DEF Then
  <2> QED
    BY <1>1, <1>2, <1>3, <2>1 DEF Fits, Reaches, Knows, KnowsAlone, Early, Unrated
<1>8. ASSUME NEW q \in Requests \ {r}
      PROVE  (pc[q] = "idle" => pc'[q] = "idle") /\ Reaches(q)' /\ Knows(q)'
  <2>1. Reaches(q) /\ Knows(q)
    BY DEF IInv, Fits
  <2>2. \/ pc[q] = "delete" /\ pc'[q] = "gone delete"
        \/ pc[q] = "drop own" /\ pc'[q] = "drop"
        \/ pc[q] \notin {"delete", "drop own"} /\ pc'[q] = pc[q]
    BY <1>4 DEF GoneFavourite
  <2> QED
    BY <1>1, <1>3, <2>1, <2>2 DEF Reaches, Knows, Unrated
<1> QED
  BY <1>1, <1>3, <1>5, <1>6, <1>7, <1>8, Running

(* The same for ratings.                                                   *)
LEMMA UnrateStep ==
  ASSUME IInv, NEW r \in Requests, Unrate(r)
  PROVE  IInv'
<1>1. pc[r] = "unrate" /\ Fits(r) /\ ratings # 0
  BY DEF IInv, Unrate, At, Fits, Knows
<1>2. ratings' \in Nat /\ (ratings \in {0, 1} => ratings' = 0)
  BY <1>1 DEF IInv, TypeOK, Unrate
<1>3. UNCHANGED <<favourites, votes, op, alone, overlaps>>
  BY DEF Unrate
<1>4. pc'[r] = "check" /\ \A q \in Requests \ {r} : pc'[q] = GoneRating(pc[q])
  BY DEF Unrate
<1>5. TypeOK'
  <2>1. pc' \in [Requests -> Steps]
    BY DEF IInv, TypeOK, Unrate, GoneRating, Steps
  <2> QED
    BY <1>2, <1>3, <2>1 DEF IInv, TypeOK
<1>6. Single'
  BY <1>2, <1>3 DEF IInv, Single
<1>7. Fits(r)'
  BY <1>1, <1>2, <1>3, <1>4 DEF Fits, Reaches, Knows, KnowsAlone, Early, Unrated
<1>8. ASSUME NEW q \in Requests \ {r}
      PROVE  (pc[q] = "idle" => pc'[q] = "idle") /\ Reaches(q)' /\ Knows(q)'
  <2>1. Reaches(q) /\ Knows(q)
    BY DEF IInv, Fits
  <2>2. \/ pc[q] = "unrate" /\ pc'[q] = "gone unrate"
        \/ pc[q] # "unrate" /\ pc'[q] = pc[q]
    BY <1>4 DEF GoneRating
  <2> QED
    BY <1>1, <1>3, <2>1, <2>2 DEF Reaches, Knows, Unrated
<1> QED
  BY <1>1, <1>3, <1>5, <1>6, <1>7, <1>8, Running

(* All ratings go, which leaves no more than there were.                   *)
LEMMA DropRatingsStep ==
  ASSUME IInv, NEW r \in Requests, NEW own \in BOOLEAN, DropRatings(r, own)
  PROVE  IInv'
<1>1. pc[r] = (IF own THEN "drop own" ELSE "drop") /\ Fits(r) /\ op[r] = "drop"
  BY DEF IInv, DropRatings, At, Fits, Reaches
<1>2. ratings' = 0 /\ UNCHANGED <<favourites, votes, op, alone, overlaps>>
  BY DEF DropRatings
<1>3. /\ pc'[r] = IF own THEN "delete" ELSE "answer"
      /\ \A q \in Requests \ {r} : pc'[q] = GoneRating(pc[q])
  BY DEF DropRatings
<1>4. TypeOK'
  <2>1. pc' \in [Requests -> Steps]
    BY DEF IInv, TypeOK, DropRatings, GoneRating, Steps
  <2> QED
    BY <1>2, <2>1 DEF IInv, TypeOK
<1>5. Single'
  BY <1>2 DEF IInv, Single
<1>6. Fits(r)'
  BY <1>1, <1>2, <1>3 DEF Fits, Reaches, Knows, KnowsAlone, Early, Unrated
<1>7. ASSUME NEW q \in Requests \ {r}
      PROVE  (pc[q] = "idle" => pc'[q] = "idle") /\ Reaches(q)' /\ Knows(q)'
  <2>1. Reaches(q) /\ Knows(q)
    BY DEF IInv, Fits
  <2>2. \/ pc[q] = "unrate" /\ pc'[q] = "gone unrate"
        \/ pc[q] # "unrate" /\ pc'[q] = pc[q]
    BY <1>3 DEF GoneRating
  <2> QED
    BY <1>2, <2>1, <2>2 DEF Reaches, Knows, Unrated
<1> QED
  BY <1>1, <1>2, <1>4, <1>5, <1>6, <1>7, Running

(* No other vote against the track is under way, unless that is noted.     *)
LEMMA OnlyAgainst ==
  ASSUME IInv, NEW r \in Requests, NEW q \in Requests \ {r},
         op[r] = "against", op[q] = "against"
  PROVE  "against" \in overlaps
BY DEF IInv, Noted, Side

LEMMA RateStep ==
  ASSUME IInv, NEW r \in Requests, Rate(r)
  PROVE  IInv'
<1>1. pc[r] = "rate" /\ Fits(r) /\ op[r] = "against"
  BY DEF IInv, Rate, At, Fits, Reaches
<1>2. ratings' \in Nat /\ ratings' # 0 /\ (ratings = 0 => ratings' = 1)
  BY DEF IInv, TypeOK, Rate
<1>3. UNCHANGED <<favourites, votes, op, alone, overlaps>> /\ pc' = [pc EXCEPT ![r] = "current"]
  BY DEF Rate, Goto
<1>4. TypeOK'
  BY <1>2, <1>3 DEF IInv, TypeOK, Steps
<1>5. Single'
  BY <1>1, <1>2, <1>3 DEF IInv, Single, Fits, Knows, Unrated
<1>6. Fits(r)'
  <2>1. pc'[r] = "current"
    BY <1>3 DEF IInv, TypeOK
  <2> QED
    BY <1>1, <1>3, <2>1 DEF Fits, Reaches, Knows, KnowsAlone, Early, Unrated
<1>7. ASSUME NEW q \in Requests \ {r}
      PROVE  (pc[q] = "idle" => pc'[q] = "idle") /\ Reaches(q)' /\ Knows(q)'
  <2>1. pc'[q] = pc[q] /\ op'[q] = op[q] /\ Reaches(q) /\ Knows(q)
    BY <1>3 DEF IInv, TypeOK, Fits
  <2>2. op[q] = "against" => "against" \in overlaps
    BY <1>1, OnlyAgainst
  <2> QED
    BY <1>2, <1>3, <2>1, <2>2 DEF Reaches, Knows
<1> QED
  BY <1>1, <1>3, <1>4, <1>5, <1>6, <1>7, Running

LEMMA AddVoteStep ==
  ASSUME IInv, NEW r \in Requests, AddVote(r)
  PROVE  IInv'
<1>1. pc[r] = "vote" /\ Fits(r) /\ op[r] = "against"
  BY DEF IInv, AddVote, At, Fits, Reaches
<1>2. votes' \in Nat /\ (votes = 0 => votes' = 1)
  BY DEF IInv, TypeOK, AddVote
<1>3. UNCHANGED <<favourites, ratings, op, alone, overlaps>> /\ pc' = [pc EXCEPT ![r] = "answer"]
  BY DEF AddVote, Goto
<1>4. TypeOK'
  BY <1>2, <1>3 DEF IInv, TypeOK, Steps
<1>5. Single'
  BY <1>1, <1>2, <1>3 DEF IInv, Single, Fits, Knows
<1>6. Fits(r)'
  <2>1. pc'[r] = "answer"
    BY <1>3 DEF IInv, TypeOK
  <2> QED
    BY <2>1 DEF Fits, Reaches, Knows, KnowsAlone, Early, Unrated
<1>7. ASSUME NEW q \in Requests \ {r}
      PROVE  (pc[q] = "idle" => pc'[q] = "idle") /\ Reaches(q)' /\ Knows(q)'
  <2>1. pc'[q] = pc[q] /\ op'[q] = op[q] /\ Reaches(q) /\ Knows(q)
    BY <1>3 DEF IInv, TypeOK, Fits
  <2>2. pc[q] = "vote" => "against" \in overlaps
    BY <1>1, <2>1, OnlyAgainst DEF Reaches
  <2> QED
    BY <1>3, <2>1, <2>2 DEF Reaches, Knows
<1> QED
  BY <1>1, <1>3, <1>4, <1>5, <1>6, <1>7, Running

-----------------------------------------------------------------------------
(* The steps at which requests come and go.                                *)

LEMMA AnswerStep ==
  ASSUME IInv, NEW r \in Requests, Answer(r)
  PROVE  IInv'
<1>1. /\ op' = [op EXCEPT ![r] = "none"] /\ pc' = [pc EXCEPT ![r] = "idle"]
      /\ alone' = alone \ {r} /\ UNCHANGED <<favourites, ratings, votes, overlaps>>
  BY DEF Answer
<1>2. TypeOK'
  BY <1>1 DEF IInv, TypeOK, Steps
<1>3. \A q \in Requests :
        IF q = r THEN op'[q] = "none" /\ pc'[q] = "idle" ELSE op'[q] = op[q] /\ pc'[q] = pc[q]
  BY <1>1 DEF IInv, TypeOK
<1>4. Noted'
  BY <1>1, <1>3 DEF IInv, Noted, Side
<1>5. Single'
  BY <1>1 DEF IInv, Single
<1>6. MeetsNone'
  BY <1>1, <1>3 DEF IInv, MeetsNone
<1>7. ASSUME NEW q \in Requests
      PROVE  Fits(q)'
  <2>1. CASE q = r
    BY <1>3, <2>1 DEF Fits, Reaches, Knows, KnowsAlone, Early, Unrated
  <2>2. CASE q # r
    BY <1>1, <1>3, <2>2 DEF IInv, Fits, Reaches, Knows, KnowsAlone
  <2> QED
    BY <2>1, <2>2
<1> QED
  BY <1>2, <1>4, <1>5, <1>6, <1>7 DEF IInv

LEMMA SendStep ==
  ASSUME IInv, NEW r \in Requests, NEW o \in Ops, Send(r, o)
  PROVE  IInv'
<1>1. /\ op' = [op EXCEPT ![r] = o] /\ pc' = [pc EXCEPT ![r] = First(o)]
      /\ UNCHANGED <<favourites, ratings, votes>>
  BY DEF Send
<1>2. /\ First(o) \in {"check", "lookup", "rating", "rated", "anybodys"}
      /\ First(o) = "check" => o = "add"
      /\ First(o) = "lookup" => o = "remove"
      /\ First(o) = "rating" => o = "for"
      /\ First(o) = "rated" => o = "against"
      /\ First(o) = "anybodys" => o = "drop"
  BY DEF First, Ops
<1>3. /\ alone' \subseteq {r}
      /\ r \in alone' => /\ favourites \in {0, 1} /\ ratings \in {0, 1}
                         /\ \A q \in Requests : pc[q] = "idle"
  BY DEF Send
<1>4. /\ overlaps \subseteq overlaps' /\ overlaps' \subseteq overlaps \union ({Side(o)} \ {"none"})
      /\ \A q \in Requests : Side(op[q]) = Side(o) /\ Side(o) # "none" => Side(o) \in overlaps'
  BY DEF Send
<1>5. \A q \in Requests :
        IF q = r THEN op'[q] = o /\ pc'[q] = First(o) ELSE op'[q] = op[q] /\ pc'[q] = pc[q]
  BY <1>1 DEF IInv, TypeOK
<1>6. TypeOK'
  <2>1. overlaps' \subseteq {"for", "against"}
    BY <1>4 DEF IInv, TypeOK, Side
  <2>2. pc' \in [Requests -> Steps]
    BY <1>1, <1>2 DEF IInv, TypeOK, Steps
  <2>3. op' \in [Requests -> Ops \union {"none"}]
    BY <1>1 DEF IInv, TypeOK
  <2> QED
    BY <1>1, <1>3, <2>1, <2>2, <2>3 DEF IInv, TypeOK
<1>7. Noted'
  <2> SUFFICES ASSUME NEW s \in {"for", "against"}, s \notin overlaps',
                      NEW p \in Requests, NEW q \in Requests,
                      Side(op'[p]) = s, Side(op'[q]) = s, p # q
               PROVE  FALSE
    BY DEF Noted
  <2>1. ~(Side(op[p]) = s /\ Side(op[q]) = s)
    BY <1>4 DEF IInv, Noted
  <2>2. p = r \/ q = r
    BY <1>5, <2>1
  <2>3. Side(o) = s /\ \E x \in Requests : Side(op[x]) = s
    BY <1>5, <2>2
  <2> QED
    BY <1>4, <2>3
<1>8. Single'
  BY <1>1, <1>4 DEF IInv, Single
<1>9. MeetsNone'
  BY <1>3, <1>5 DEF MeetsNone
<1>10. ASSUME NEW q \in Requests
       PROVE  Fits(q)'
  <2>1. CASE q = r
    BY <1>1, <1>2, <1>3, <1>5, <2>1 DEF Fits, Reaches, Knows, KnowsAlone, Early, Unrated
  <2>2. CASE q # r
    <3>1. q \notin alone' /\ Reaches(q) /\ Knows(q)
      BY <1>3, <2>2 DEF IInv, Fits
    <3> QED
      BY <1>1, <1>4, <1>5, <2>2, <3>1 DEF Fits, Reaches, Knows
  <2> QED
    BY <2>1, <2>2
<1> QED
  BY <1>6, <1>7, <1>8, <1>9, <1>10 DEF IInv

(* No votes are what everybody who looked for one has found.               *)
LEMMA ClearStep ==
  ASSUME IInv, votes' \in {0, votes}, UNCHANGED <<favourites, ratings, op, pc, alone, overlaps>>
  PROVE  IInv'
<1>1. TypeOK'
  BY DEF IInv, TypeOK
<1>2. Noted' /\ MeetsNone'
  BY DEF IInv, Noted, MeetsNone
<1>3. Single'
  BY DEF IInv, Single
<1>4. ASSUME NEW r \in Requests
      PROVE  Fits(r)'
  <2>1. Fits(r)
    BY DEF IInv
  <2> QED
    BY <2>1 DEF Fits, Reaches, Knows, KnowsAlone
<1> QED
  BY <1>1, <1>2, <1>3, <1>4 DEF IInv

(* Every step.                                                             *)
LEMMA NextStep ==
  ASSUME IInv, [Next]_vars
  PROVE  IInv'
<1>1. ASSUME NEW r \in Requests, Run(r) PROVE IInv'
  BY <1>1, CheckStep, SaveStep, LookupStep, DeleteStep, DeleteGoneStep, FindRatingStep,
     UnrateStep, UnrateGoneStep, RatedStep, FindFavouriteStep, RateStep, ContainsStep,
     AddVoteStep, AnswerStep, FindAnybodysStep, DropRatingsStep DEF Run
<1>2. ASSUME NEW r \in Requests, NEW o \in Ops, Send(r, o) PROVE IInv'
  BY <1>2, SendStep
<1>3. ASSUME Clear \/ UNCHANGED vars PROVE IInv'
  BY <1>3, ClearStep DEF Clear, vars
<1> QED
  BY <1>1, <1>2, <1>3 DEF Next

LEMMA InitHolds ==
  ASSUME Init
  PROVE  IInv
<1>1. TypeOK
  BY DEF Init, TypeOK, Steps
<1>2. Noted
  BY DEF Init, Noted, Side
<1>3. Single
  BY DEF Init, Single
<1>4. MeetsNone
  BY DEF Init, MeetsNone
<1>5. \A r \in Requests : Fits(r)
  BY DEF Init, Fits, Reaches, Knows
<1> QED
  BY <1>1, <1>2, <1>3, <1>4, <1>5 DEF IInv

THEOREM Invariance == Spec => []IInv
<1>1. Init => IInv
  BY InitHolds
<1>2. IInv /\ [Next]_vars => IInv'
  BY NextStep
<1> QED
  BY <1>1, <1>2, PTL DEF Spec

(***************************************************************************)
(* The variables keep their types; above all no more rows are ever deleted *)
(* than there are, because a row that two requests found is deleted once.  *)
(***************************************************************************)
THEOREM TypeCorrect == Spec => []TypeOK
<1>1. IInv => TypeOK
  BY DEF IInv
<1> QED
  BY <1>1, Invariance, PTL

(***************************************************************************)
(* A second row, or a second vote of the user, comes only of two requests  *)
(* to add it that were under way at the same time.                         *)
(***************************************************************************)
THEOREM RowsStaySingle == Spec => []SingleRows
<1>1. IInv => SingleRows
  BY DEF IInv, Single, SingleRows
<1> QED
  BY <1>1, Invariance, PTL

-----------------------------------------------------------------------------
(* The end of a vote that met no other request, as VotesDecide says.       *)
Ends(r) ==
  /\ r \in alone /\ op[r] \in {"for", "against"}
  /\ pc[r] \notin {"current", "vote", "answer"} /\ pc'[r] \in {"current", "answer"}

Decides(r) ==
  IF op[r] = "for" THEN favourites' = 1 /\ ratings' = 0
  ELSE ratings' = 1 /\ (pc[r] = "rate" => favourites' = 0)

(* A request that is alone is not moved on by a step of another.           *)
LEMMA OwnStep ==
  ASSUME IInv, NEW r \in Requests, NEW q \in Requests, Run(q), Ends(r)
  PROVE  q = r
<1> SUFFICES ASSUME q # r PROVE FALSE
  OBVIOUS
<1>1. pc[q] = "idle"
  BY DEF IInv, MeetsNone, Ends
<1> QED
  BY <1>1 DEF Run, Check, Save, Lookup, Delete, DeleteGone, FindRating, Unrate, UnrateGone,
     Rated, FindFavourite, Rate, Contains, AddVote, Answer, FindAnybodys, DropRatings, At

(* The last save of a vote, or the lookup that makes one superfluous.      *)
LEMMA EndDecides ==
  ASSUME IInv, NEW r \in Requests, Run(r), Ends(r)
  PROVE  Decides(r)
<1>0. Reaches(r) /\ KnowsAlone(r)
  BY DEF IInv, Fits, Ends
<1>1. CASE Check(r)
  <2>1. op[r] = "for" /\ favourites \in {0, 1} /\ ratings = 0
    BY <1>0, <1>1 DEF Ends, Check, At, Reaches, KnowsAlone, Early
  <2>2. favourites # 0 /\ UNCHANGED <<favourites, ratings>>
    BY <1>1 DEF IInv, TypeOK, Ends, Check, Goto
  <2> QED
    BY <2>1, <2>2 DEF Decides
<1>2. CASE Save(r)
  <2>1. op[r] = "for" /\ favourites = 0 /\ ratings = 0
    BY <1>0, <1>2 DEF Ends, Save, At, Reaches, KnowsAlone
  <2>2. favourites' = 1 /\ ratings' = ratings
    BY <2>1, <1>2 DEF Save
  <2> QED
    BY <2>1, <2>2 DEF Decides
<1>3. CASE Rated(r)
  <2>1. op[r] = "against" /\ pc[r] = "rated" /\ ratings \in {0, 1}
    BY <1>0, <1>3 DEF Rated, At, Reaches, KnowsAlone, Early
  <2>2. ratings # 0 /\ ratings' = ratings
    BY <1>3 DEF IInv, TypeOK, Ends, Rated, Goto
  <2> QED
    BY <2>1, <2>2 DEF Decides
<1>4. CASE Rate(r)
  <2>1. op[r] = "against" /\ pc[r] = "rate" /\ ratings = 0 /\ favourites = 0
    BY <1>0, <1>4 DEF Rate, At, Reaches, KnowsAlone, Unrated
  <2>2. ratings' = 1 /\ favourites' = favourites
    BY <2>1, <1>4 DEF Rate
  <2> QED
    BY <2>1, <2>2 DEF Decides
<1>5. CASE UnrateGone(r)
  BY <1>0, <1>5 DEF UnrateGone, At, KnowsAlone
<1>6. CASE DeleteGone(r)
  BY <1>0, <1>6 DEF DeleteGone, At, KnowsAlone
<1>7. CASE FindAnybodys(r) \/ \E own \in BOOLEAN : DropRatings(r, own)
  BY <1>0, <1>7 DEF Ends, FindAnybodys, DropRatings, At, Reaches
<1>8. CASE Contains(r) \/ AddVote(r) \/ Answer(r)
  BY <1>8 DEF Ends, Contains, AddVote, Answer, At
<1>9. CASE Lookup(r)
  BY <1>0, <1>9 DEF IInv, TypeOK, Ends, Lookup, At, Goto, Then, Reaches
<1>10. CASE Delete(r)
  BY <1>0, <1>10 DEF IInv, TypeOK, Ends, Delete, At, Then, Reaches
<1>11. CASE FindRating(r) \/ Unrate(r) \/ FindFavourite(r)
  BY <1>11 DEF IInv, TypeOK, Ends, FindRating, Unrate, FindFavourite, At, Goto
<1> QED
  BY <1>1, <1>2, <1>3, <1>4, <1>5, <1>6, <1>7, <1>8, <1>9, <1>10, <1>11 DEF Run

LEMMA StepDecides ==
  ASSUME IInv, [Next]_vars, NEW r \in Requests, Ends(r)
  PROVE  Decides(r)
<1>1. ASSUME NEW q \in Requests, Run(q) PROVE Decides(r)
  BY <1>1, OwnStep, EndDecides
<1>2. ASSUME NEW q \in Requests, NEW o \in Ops, Send(q, o) PROVE FALSE
  <2>1. pc'[r] \in {pc[r], First(o)}
    BY <1>2 DEF IInv, TypeOK, Send
  <2>2. First(o) \notin {"current", "answer"}
    BY DEF First
  <2> QED
    BY <2>1, <2>2 DEF Ends
<1>3. ASSUME Clear \/ UNCHANGED vars PROVE FALSE
  BY <1>3 DEF Ends, Clear, vars
<1> QED
  BY <1>1, <1>2, <1>3 DEF Next

(***************************************************************************)
(* A vote that meets no other request has its effect.                      *)
(***************************************************************************)
THEOREM VotesTakeEffect == Spec => VotesDecide
<1>1. IInv /\ [Next]_vars =>
        [\A r \in Requests :
           (/\ r \in alone /\ op[r] \in {"for", "against"}
            /\ pc[r] \notin {"current", "vote", "answer"} /\ pc'[r] \in {"current", "answer"})
           => IF op[r] = "for" THEN favourites' = 1 /\ ratings' = 0
              ELSE ratings' = 1 /\ (pc[r] = "rate" => favourites' = 0)]_vars
  BY StepDecides DEF Ends, Decides
<1> QED
  BY <1>1, Invariance, PTL DEF Spec, VotesDecide
==============================================================================
