-------------------------- MODULE PageSessionProofs --------------------------
(***************************************************************************)
(* Proofs about PageSession, for any number of log ins and clicks under    *)
(* way.  The counts of the requests are kept apart by kind: lemmas say     *)
(* what sending, answering and ending a request does to each.              *)
(***************************************************************************)
EXTENDS PageSession, TLAPS

Flights == [Kinds -> [Phases -> Nat]]

(* Pending, of any counts.                                                 *)
Total(f, k) ==
  f[k]["sent"] + f[k]["bare"] + f[k]["in"] + f[k]["out"]
    + f[k]["data"] + f[k]["empty"] + f[k]["failed"]

(* The requests of the other kinds, and their counts, stay.                *)
SameBut(f, g, k) ==
  \A j \in Kinds : j # k => g[j] = f[j] /\ Total(g, j) = Total(f, j)

LEMMA TotalNat ==
  ASSUME NEW f \in Flights, NEW k \in Kinds
  PROVE  /\ Total(f, k) \in Nat
         /\ \A p \in Phases : f[k][p] \in Nat /\ f[k][p] <= Total(f, k)
<1>1. \A p \in Phases : f[k][p] \in Nat
  BY DEF Flights
<1>2. QED BY <1>1 DEF Total, Phases

(* One count changes.                                                      *)
SetCount(f, k, p, n) == [f EXCEPT ![k][p] = n]

LEMMA SettingCounts ==
  ASSUME NEW f \in Flights, NEW k \in Kinds, NEW p \in Phases, NEW n \in Nat,
         NEW g, g = SetCount(f, k, p, n)
  PROVE  /\ g \in Flights
         /\ SameBut(f, g, k)
         /\ Total(g, k) = Total(f, k) + n - f[k][p]
         /\ \A q \in Phases : q # p => g[k][q] = f[k][q]
         /\ g[k][p] = n
<1>1. /\ g \in Flights
      /\ \A j \in Kinds : j # k => g[j] = f[j]
      /\ \A q \in Phases : q # p => g[k][q] = f[k][q]
      /\ g[k][p] = n
  BY DEF Flights, SetCount
<1>2. \A j \in Kinds, q \in Phases : f[j][q] \in Nat /\ g[j][q] \in Nat
  BY <1>1 DEF Flights
<1>3. Total(g, k) = Total(f, k) + n - f[k][p]
  <2>1. \A q \in Phases : g[k][q] = IF q = p THEN n ELSE f[k][q]
    BY <1>1
  <2>2. /\ g[k]["sent"] = IF p = "sent" THEN n ELSE f[k]["sent"]
        /\ g[k]["bare"] = IF p = "bare" THEN n ELSE f[k]["bare"]
        /\ g[k]["in"] = IF p = "in" THEN n ELSE f[k]["in"]
        /\ g[k]["out"] = IF p = "out" THEN n ELSE f[k]["out"]
        /\ g[k]["data"] = IF p = "data" THEN n ELSE f[k]["data"]
        /\ g[k]["empty"] = IF p = "empty" THEN n ELSE f[k]["empty"]
        /\ g[k]["failed"] = IF p = "failed" THEN n ELSE f[k]["failed"]
    BY ONLY <2>1 DEF Phases
  <2>3. /\ f[k]["sent"] \in Nat
        /\ f[k]["bare"] \in Nat
        /\ f[k]["in"] \in Nat
        /\ f[k]["out"] \in Nat
        /\ f[k]["data"] \in Nat
        /\ f[k]["empty"] \in Nat
        /\ f[k]["failed"] \in Nat
    BY ONLY <1>2, k \in Kinds DEF Phases
  <2>4. CASE p = "sent"
    BY ONLY <2>2, <2>3, <2>4, n \in Nat DEF Total
  <2>5. CASE p = "bare"
    BY ONLY <2>2, <2>3, <2>5, n \in Nat DEF Total
  <2>6. CASE p = "in"
    BY ONLY <2>2, <2>3, <2>6, n \in Nat DEF Total
  <2>7. CASE p = "out"
    BY ONLY <2>2, <2>3, <2>7, n \in Nat DEF Total
  <2>8. CASE p = "data"
    BY ONLY <2>2, <2>3, <2>8, n \in Nat DEF Total
  <2>9. CASE p = "empty"
    BY ONLY <2>2, <2>3, <2>9, n \in Nat DEF Total
  <2>10. CASE p = "failed"
    BY ONLY <2>2, <2>3, <2>10, n \in Nat DEF Total
  <2>11. QED BY <2>4, <2>5, <2>6, <2>7, <2>8, <2>9, <2>10, p \in Phases DEF Phases
<1>4. SameBut(f, g, k)
  BY <1>1 DEF Total, SameBut
<1>5. QED BY <1>1, <1>3, <1>4

(* A request more.                                                         *)
LEMMA Loading ==
  ASSUME NEW f \in Flights, NEW k \in Kinds, NEW c \in BOOLEAN,
         NEW g, g = Load(f, k, c)
  PROVE  /\ g \in Flights
         /\ SameBut(f, g, k)
         /\ Total(g, k) = Total(f, k) + 1
         /\ g[k]["in"] = f[k]["in"]
<1>1. PICK p \in {"sent", "bare"} : g = SetCount(f, k, p, f[k][p] + 1)
  <2>1. CASE c
    BY <2>1 DEF Load, SetCount
  <2>2. CASE ~c
    BY <2>2 DEF Load, SetCount
  <2>3. QED BY <2>1, <2>2
<1>2. p \in Phases /\ "in" \in Phases /\ p # "in"
  BY DEF Phases
<1>3. f[k][p] \in Nat /\ f[k][p] + 1 \in Nat /\ Total(f, k) \in Nat
  BY <1>2, TotalNat
<1>4. PICK n \in Nat : n = f[k][p] + 1
  BY <1>3
<1>5. p \in Phases
  BY <1>2
<1>6. g = SetCount(f, k, p, n)
  BY <1>1, <1>4
<1>7. /\ g \in Flights
      /\ SameBut(f, g, k)
      /\ Total(g, k) = Total(f, k) + n - f[k][p]
      /\ \A q \in Phases : q # p => g[k][q] = f[k][q]
  BY ONLY SettingCounts, <1>5, <1>6, f \in Flights, k \in Kinds, n \in Nat
<1>8. QED BY <1>2, <1>3, <1>4, <1>7

(* A request less.                                                         *)
LEMMA Ending ==
  ASSUME NEW f \in Flights, NEW k \in Kinds, NEW p \in Phases, f[k][p] > 0,
         NEW g, g = Without(f, k, p)
  PROVE  /\ g \in Flights
         /\ SameBut(f, g, k)
         /\ Total(f, k) > 0
         /\ Total(g, k) = Total(f, k) - 1
         /\ p # "in" => g[k]["in"] = f[k]["in"]
         /\ g[k]["in"] <= f[k]["in"]
<1>1. /\ f[k][p] \in Nat /\ f[k][p] - 1 \in Nat
      /\ Total(f, k) \in Nat /\ f[k][p] <= Total(f, k)
      /\ "in" \in Phases /\ f[k]["in"] \in Nat
  <2>1. "in" \in Phases
    BY DEF Phases
  <2>2. QED BY <2>1, TotalNat
<1>2. PICK n \in Nat : n = f[k][p] - 1
  BY <1>1
<1>3. g = SetCount(f, k, p, n)
  BY <1>2 DEF Without, SetCount
<1>4. /\ g \in Flights
      /\ SameBut(f, g, k)
      /\ Total(g, k) = Total(f, k) + n - f[k][p]
      /\ \A q \in Phases : q # p => g[k][q] = f[k][q]
      /\ g[k][p] = n
  BY ONLY SettingCounts, <1>3, f \in Flights, k \in Kinds, p \in Phases, n \in Nat
<1>5. QED BY <1>1, <1>2, <1>4

(* A request answered: its count moves from one phase to another.          *)
Move(f, k, p, q) == [f EXCEPT ![k][p] = @ - 1, ![k][q] = @ + 1]

LEMMA Answering ==
  ASSUME NEW f \in Flights, NEW k \in Kinds, NEW p \in Phases, NEW q \in Phases,
         p # q, f[k][p] > 0,
         NEW g, g = Move(f, k, p, q)
  PROVE  /\ g \in Flights
         /\ SameBut(f, g, k)
         /\ Total(g, k) = Total(f, k)
         /\ q # "in" => g[k]["in"] <= f[k]["in"]
<1>1. PICK h : h = Without(f, k, p)
  OBVIOUS
<1>2. /\ h \in Flights
      /\ SameBut(f, h, k)
      /\ Total(h, k) = Total(f, k) - 1
      /\ h[k]["in"] <= f[k]["in"]
  BY <1>1, Ending
<1>3. /\ h[k][q] \in Nat /\ Total(f, k) \in Nat /\ "in" \in Phases
  <2>1. "in" \in Phases
    BY DEF Phases
  <2>2. QED BY <1>2, <2>1, TotalNat
<1>4. PICK n \in Nat : n = h[k][q] + 1
  BY <1>3
<1>5. g = SetCount(h, k, q, n)
  BY <1>1, <1>4 DEF Move, Without, SetCount, Flights
<1>6. h \in Flights
  BY <1>2
<1>7. /\ g \in Flights
      /\ SameBut(h, g, k)
      /\ Total(g, k) = Total(h, k) + n - h[k][q]
      /\ \A r \in Phases : r # q => g[k][r] = h[k][r]
  BY ONLY SettingCounts, <1>5, <1>6, k \in Kinds, q \in Phases, n \in Nat
<1>8. SameBut(f, g, k)
  BY <1>2, <1>7 DEF SameBut
<1>9. Total(g, k) = Total(f, k)
  BY <1>2, <1>3, <1>4, <1>7
<1>10. q # "in" => g[k]["in"] <= f[k]["in"]
  BY <1>2, <1>3, <1>7
<1>11. QED BY <1>7, <1>8, <1>9, <1>10

-----------------------------------------------------------------------------
(* The inductive invariant: the poll is no log in and cannot break its     *)
(* chain unnoticed, there is nothing to cut without a layout, and while    *)
(* the page is logged in favourites are under way that will close a form.  *)

NoLoginByPoll == flight["poll"]["in"] = 0

NothingToCut == ~layout => cut = "no"

FormsPending ==
  (session /\ ~stale /\ ~lost /\ FormVisible) => Pending("favourites") > 0

IInv == TypeOK /\ OneChain /\ NoLoginByPoll /\ NothingToCut /\ FormsPending

-----------------------------------------------------------------------------
(* What the invariant says, without a detour through the counts: of the    *)
(* polls and favourites under way only the number matters.                 *)
Chain(f, l, t, c) ==
  Total(f, "poll") + (IF t THEN 1 ELSE 0) = IF l /\ c = "no" THEN 1 ELSE 0

Typed(f) ==
  /\ f \in Flights
  /\ session \in BOOLEAN /\ stale \in BOOLEAN /\ lost \in BOOLEAN
  /\ loginForm \in {"none", "open", "closed"}
  /\ registerForm \in {"none", "open", "closed"}
  /\ registerForm # "none" => loginForm # "none"
  /\ loginButton \in BOOLEAN /\ layout \in BOOLEAN /\ timer \in BOOLEAN
  /\ cut \in {"no", "lost", "out", "empty"}

LEMMA Restated ==
  /\ TypeOK <=> Typed(flight)
  /\ OneChain <=> Chain(flight, layout, timer, cut)
  /\ FormsPending <=> ((session /\ ~stale /\ ~lost /\ FormVisible)
                          => Total(flight, "favourites") > 0)
BY DEF TypeOK, Typed, OneChain, FormsPending, Pending, Total, Chain, Flights

LEMMA RestatedNext ==
  /\ TypeOK' <=> Typed(flight)'
  /\ OneChain' <=> Chain(flight', layout', timer', cut')
  /\ FormsPending' <=> ((session' /\ ~stale' /\ ~lost' /\ FormVisible')
                          => Total(flight', "favourites") > 0)
BY DEF TypeOK, Typed, OneChain, FormsPending, Pending, Total, Chain, Flights

LEMMA PollAndFavourites ==
  /\ "poll" \in Kinds /\ "favourites" \in Kinds /\ "status" \in Kinds
  /\ "logon" \in Kinds /\ "register" \in Kinds /\ "click" \in Kinds
  /\ Entries \subseteq Kinds
  BY DEF Kinds, Entries

LEMMA PhaseNames ==
  /\ "sent" \in Phases /\ "bare" \in Phases /\ "in" \in Phases /\ "out" \in Phases
  /\ "data" \in Phases /\ "empty" \in Phases /\ "failed" \in Phases
  BY DEF Phases

-----------------------------------------------------------------------------
(* An answer moves a request on and changes no number.                     *)
LEMMA AnswerStep ==
  ASSUME IInv, NEW k \in Kinds, NEW p \in Phases, NEW q \in Phases,
         p # q, k = "poll" => q # "in", Answer(k, p, q)
  PROVE  IInv'
<1>1. Typed(flight) /\ flight \in Flights
  BY Restated DEF IInv, Typed
<1>2. flight' = Move(flight, k, p, q) /\ flight[k][p] > 0
  BY DEF Answer, Move
<1>3. /\ flight' \in Flights
      /\ SameBut(flight, flight', k)
      /\ Total(flight', k) = Total(flight, k)
      /\ q # "in" => flight'[k]["in"] <= flight[k]["in"]
  BY ONLY Answering, <1>1, <1>2, k \in Kinds, p \in Phases, q \in Phases, p # q
<1>4. \A j \in Kinds : Total(flight', j) = Total(flight, j)
  BY <1>3 DEF SameBut
<1>5. UNCHANGED <<session, loginForm, registerForm, loginButton, layout, timer, cut, stale, lost>>
  BY DEF Answer, page, forms
<1>6. TypeOK'
  BY <1>1, <1>3, <1>5, RestatedNext DEF Typed
<1>7. OneChain'
  BY <1>4, <1>5, PollAndFavourites, Restated, RestatedNext DEF Chain, IInv
<1>8. NoLoginByPoll'
  <2>1. CASE k = "poll"
    <3>1. flight["poll"]["in"] = 0
      BY DEF IInv, NoLoginByPoll
    <3>2. flight'["poll"]["in"] \in Nat
      BY <1>3, PollAndFavourites, PhaseNames, TotalNat
    <3>3. QED BY <2>1, <3>1, <3>2, <1>3 DEF NoLoginByPoll
  <2>2. CASE k # "poll"
    BY <2>2, <1>3, PollAndFavourites DEF SameBut, IInv, NoLoginByPoll
  <2>3. QED BY <2>1, <2>2
<1>9. NothingToCut'
  BY <1>5 DEF IInv, NothingToCut
<1>10. FormsPending'
  BY <1>4, <1>5, PollAndFavourites, Restated, RestatedNext DEF IInv, FormVisible
<1>11. QED BY <1>6, <1>7, <1>8, <1>9, <1>10 DEF IInv

(* A loss can end the chain, and is remembered.                            *)
LEMMA LoseStep ==
  ASSUME IInv, NEW k \in Kinds, NEW p \in Phases, Lose(k, p)
  PROVE  IInv'
<1>1. Typed(flight) /\ flight \in Flights
  BY Restated DEF IInv, Typed
<1>2. flight' = Without(flight, k, p) /\ flight[k][p] > 0
  BY DEF Lose
<1>3. /\ flight' \in Flights
      /\ SameBut(flight, flight', k)
      /\ Total(flight, k) > 0
      /\ Total(flight', k) = Total(flight, k) - 1
      /\ flight'[k]["in"] <= flight[k]["in"]
  BY ONLY Ending, <1>1, <1>2, PollAndFavourites, PhaseNames, k \in Kinds, p \in Phases
<1>4. /\ Total(flight, "poll") \in Nat /\ Total(flight', "poll") \in Nat
      /\ Total(flight, "favourites") \in Nat /\ Total(flight', "favourites") \in Nat
  BY <1>1, <1>3, PollAndFavourites, TotalNat
<1>5. /\ UNCHANGED <<session, loginForm, registerForm, loginButton, layout, timer, stale>>
      /\ lost' = TRUE
      /\ cut' = IF k = "poll" THEN "lost" ELSE cut
  BY DEF Lose, forms
<1>6. TypeOK'
  BY <1>1, <1>3, <1>5, RestatedNext DEF Typed
<1>7. OneChain'
  <2>1. Chain(flight, layout, timer, cut)
    BY Restated DEF IInv
  <2>2. CASE k = "poll"
    BY <2>1, <2>2, <1>3, <1>4, <1>5, RestatedNext DEF Chain
  <2>3. CASE k # "poll"
    <3>1. Total(flight', "poll") = Total(flight, "poll")
      BY <2>3, <1>3, PollAndFavourites DEF SameBut
    <3>2. QED BY <2>1, <2>3, <3>1, <1>5, RestatedNext DEF Chain
  <2>4. QED BY <2>2, <2>3
<1>8. NoLoginByPoll'
  <2>1. CASE k = "poll"
    <3>1. flight["poll"]["in"] = 0
      BY DEF IInv, NoLoginByPoll
    <3>2. flight'["poll"]["in"] \in Nat
      BY <1>3, PollAndFavourites, PhaseNames, TotalNat
    <3>3. QED BY <2>1, <3>1, <3>2, <1>3 DEF NoLoginByPoll
  <2>2. CASE k # "poll"
    BY <2>2, <1>3, PollAndFavourites DEF SameBut, IInv, NoLoginByPoll
  <2>3. QED BY <2>1, <2>2
<1>9. NothingToCut'
  <2>1. CASE k = "poll"
    <3>1. Chain(flight, layout, timer, cut)
      BY Restated DEF IInv
    <3>2. layout
      BY <2>1, <3>1, <1>1, <1>3, <1>4 DEF Chain, Typed
    <3>3. QED BY <3>2, <1>5 DEF NothingToCut
  <2>2. CASE k # "poll"
    BY <2>2, <1>5 DEF IInv, NothingToCut
  <2>3. QED BY <2>1, <2>2
<1>10. FormsPending'
  BY <1>5 DEF FormsPending
<1>11. QED BY <1>6, <1>7, <1>8, <1>9, <1>10 DEF IInv

(* A reply of a log out ends the chain if a poll gets it, and shows a form *)
(* to a page that is logged in only when it was late.                      *)
LEMMA LoggedOutStep ==
  ASSUME IInv, NEW k \in Kinds, LoggedOut(k)
  PROVE  IInv'
<1>1. Typed(flight) /\ flight \in Flights
  BY Restated DEF IInv, Typed
<1>2. flight' = Without(flight, k, "out") /\ flight[k]["out"] > 0
  BY DEF LoggedOut
<1>3. /\ flight' \in Flights
      /\ SameBut(flight, flight', k)
      /\ Total(flight, k) > 0
      /\ Total(flight', k) = Total(flight, k) - 1
      /\ flight'[k]["in"] <= flight[k]["in"]
  BY ONLY Ending, <1>1, <1>2, PollAndFavourites, PhaseNames, k \in Kinds, "out" \in Phases
<1>4. /\ Total(flight, "poll") \in Nat /\ Total(flight', "poll") \in Nat
      /\ Total(flight, "favourites") \in Nat /\ Total(flight', "favourites") \in Nat
  BY <1>1, <1>3, PollAndFavourites, TotalNat
<1>5. /\ UNCHANGED <<session, registerForm, loginButton, layout, timer, lost>>
      /\ loginForm' \in {"open", loginForm} /\ loginForm' # "none"
      /\ cut' = IF k = "poll" THEN "out" ELSE cut
      /\ stale' = (stale \/ session)
  BY DEF LoggedOut, DisplayLoginForm
<1>6. TypeOK'
  <2>1. loginForm' \in {"none", "open", "closed"} /\ stale' \in BOOLEAN
        /\ cut' \in {"no", "lost", "out", "empty"}
    BY <1>1, <1>5 DEF Typed
  <2>2. QED BY <2>1, <1>1, <1>3, <1>5, RestatedNext DEF Typed
<1>7. OneChain'
  <2>1. Chain(flight, layout, timer, cut)
    BY Restated DEF IInv
  <2>2. CASE k = "poll"
    BY <2>1, <2>2, <1>3, <1>4, <1>5, RestatedNext DEF Chain
  <2>3. CASE k # "poll"
    <3>1. Total(flight', "poll") = Total(flight, "poll")
      BY <2>3, <1>3, PollAndFavourites DEF SameBut
    <3>2. QED BY <2>1, <2>3, <3>1, <1>5, RestatedNext DEF Chain
  <2>4. QED BY <2>2, <2>3
<1>8. NoLoginByPoll'
  <2>1. CASE k = "poll"
    <3>1. flight["poll"]["in"] = 0
      BY DEF IInv, NoLoginByPoll
    <3>2. flight'["poll"]["in"] \in Nat
      BY <1>3, PollAndFavourites, PhaseNames, TotalNat
    <3>3. QED BY <2>1, <3>1, <3>2, <1>3 DEF NoLoginByPoll
  <2>2. CASE k # "poll"
    BY <2>2, <1>3, PollAndFavourites DEF SameBut, IInv, NoLoginByPoll
  <2>3. QED BY <2>1, <2>2
<1>9. NothingToCut'
  <2>1. CASE k = "poll"
    <3>1. Chain(flight, layout, timer, cut)
      BY Restated DEF IInv
    <3>2. layout
      BY <2>1, <3>1, <1>1, <1>3, <1>4 DEF Chain, Typed
    <3>3. QED BY <3>2, <1>5 DEF NothingToCut
  <2>2. CASE k # "poll"
    BY <2>2, <1>5 DEF IInv, NothingToCut
  <2>3. QED BY <2>1, <2>2
<1>10. FormsPending'
  BY <1>5 DEF FormsPending
<1>11. QED BY <1>6, <1>7, <1>8, <1>9, <1>10 DEF IInv

(* The chain goes from the poll to the timer.                              *)
LEMMA ParseJsonStep ==
  ASSUME IInv, ParseJson
  PROVE  IInv'
<1>1. Typed(flight) /\ flight \in Flights
  BY Restated DEF IInv, Typed
<1>2. flight' = Without(flight, "poll", "data") /\ flight["poll"]["data"] > 0
  BY DEF ParseJson
<1>3. /\ flight' \in Flights
      /\ SameBut(flight, flight', "poll")
      /\ Total(flight, "poll") > 0
      /\ Total(flight', "poll") = Total(flight, "poll") - 1
      /\ flight'["poll"]["in"] <= flight["poll"]["in"]
  BY ONLY Ending, <1>1, <1>2, PollAndFavourites, PhaseNames, "poll" \in Kinds, "data" \in Phases
<1>4. /\ Total(flight, "poll") \in Nat /\ Total(flight', "poll") \in Nat
      /\ Total(flight, "favourites") \in Nat /\ Total(flight', "favourites") \in Nat
  BY <1>1, <1>3, PollAndFavourites, TotalNat
<1>5. UNCHANGED <<session, loginForm, registerForm, loginButton, layout, cut, stale, lost>>
      /\ timer' = TRUE
  BY DEF ParseJson, forms
<1>6. TypeOK'
  BY <1>1, <1>3, <1>5, RestatedNext DEF Typed
<1>7. OneChain'
  <2>1. Chain(flight, layout, timer, cut)
    BY Restated DEF IInv
  <2>2. QED BY <2>1, <1>1, <1>3, <1>4, <1>5, RestatedNext DEF Chain, Typed
<1>8. NoLoginByPoll'
  <2>1. CASE "poll" = "poll"
    <3>1. flight["poll"]["in"] = 0
      BY DEF IInv, NoLoginByPoll
    <3>2. flight'["poll"]["in"] \in Nat
      BY <1>3, PollAndFavourites, PhaseNames, TotalNat
    <3>3. QED BY <2>1, <3>1, <3>2, <1>3 DEF NoLoginByPoll
  <2>2. CASE "poll" # "poll"
    BY <2>2, <1>3, PollAndFavourites DEF SameBut, IInv, NoLoginByPoll
  <2>3. QED BY <2>1, <2>2
<1>9. NothingToCut'
  BY <1>5 DEF IInv, NothingToCut
<1>10. FormsPending'
  <2>1. Total(flight', "favourites") = Total(flight, "favourites")
    BY <1>3, PollAndFavourites DEF SameBut
  <2>2. QED BY <2>1, <1>5, Restated, RestatedNext DEF IInv, FormVisible
<1>11. QED BY <1>6, <1>7, <1>8, <1>9, <1>10 DEF IInv

(* An empty list ends the chain.                                           *)
LEMMA ParseJsonThrowsStep ==
  ASSUME IInv, ParseJsonThrows
  PROVE  IInv'
<1>1. Typed(flight) /\ flight \in Flights
  BY Restated DEF IInv, Typed
<1>2. flight' = Without(flight, "poll", "empty") /\ flight["poll"]["empty"] > 0
  BY DEF ParseJsonThrows
<1>3. /\ flight' \in Flights
      /\ SameBut(flight, flight', "poll")
      /\ Total(flight, "poll") > 0
      /\ Total(flight', "poll") = Total(flight, "poll") - 1
      /\ flight'["poll"]["in"] <= flight["poll"]["in"]
  BY ONLY Ending, <1>1, <1>2, PollAndFavourites, PhaseNames, "poll" \in Kinds, "empty" \in Phases
<1>4. /\ Total(flight, "poll") \in Nat /\ Total(flight', "poll") \in Nat
      /\ Total(flight, "favourites") \in Nat /\ Total(flight', "favourites") \in Nat
  BY <1>1, <1>3, PollAndFavourites, TotalNat
<1>5. UNCHANGED <<session, loginForm, registerForm, loginButton, layout, timer, stale, lost>>
      /\ cut' = "empty"
  BY DEF ParseJsonThrows, forms
<1>6. TypeOK'
  BY <1>1, <1>3, <1>5, RestatedNext DEF Typed
<1>7. OneChain'
  <2>1. Chain(flight, layout, timer, cut)
    BY Restated DEF IInv
  <2>2. QED BY <2>1, <1>1, <1>3, <1>4, <1>5, RestatedNext DEF Chain, Typed
<1>8. NoLoginByPoll'
  <2>1. CASE "poll" = "poll"
    <3>1. flight["poll"]["in"] = 0
      BY DEF IInv, NoLoginByPoll
    <3>2. flight'["poll"]["in"] \in Nat
      BY <1>3, PollAndFavourites, PhaseNames, TotalNat
    <3>3. QED BY <2>1, <3>1, <3>2, <1>3 DEF NoLoginByPoll
  <2>2. CASE "poll" # "poll"
    BY <2>2, <1>3, PollAndFavourites DEF SameBut, IInv, NoLoginByPoll
  <2>3. QED BY <2>1, <2>2
<1>9. NothingToCut'
  <2>1. Chain(flight, layout, timer, cut)
    BY Restated DEF IInv
  <2>2. layout
    BY <2>1, <1>1, <1>3, <1>4 DEF Chain, Typed
  <2>3. QED BY <2>2, <1>5 DEF NothingToCut
<1>10. FormsPending'
  <2>1. Total(flight', "favourites") = Total(flight, "favourites")
    BY <1>3, PollAndFavourites DEF SameBut
  <2>2. QED BY <2>1, <1>5, Restated, RestatedNext DEF IInv, FormVisible
<1>11. QED BY <1>6, <1>7, <1>8, <1>9, <1>10 DEF IInv

LEMMA OtherStep ==
  ASSUME IInv, NEW k \in Kinds, NEW p \in Phases, Other(k, p)
  PROVE  IInv'
<1>1. Typed(flight) /\ flight \in Flights
  BY Restated DEF IInv, Typed
<1>2. flight' = Without(flight, k, p) /\ flight[k][p] > 0
  BY DEF Other
<1>3. /\ flight' \in Flights
      /\ SameBut(flight, flight', k)
      /\ Total(flight, k) > 0
      /\ Total(flight', k) = Total(flight, k) - 1
      /\ flight'[k]["in"] <= flight[k]["in"]
  BY ONLY Ending, <1>1, <1>2, PollAndFavourites, PhaseNames, k \in Kinds, p \in Phases
<1>4. k # "poll" /\ k # "favourites"
  BY DEF Other
<1>5. UNCHANGED <<session, loginForm, registerForm, loginButton, layout, timer, cut, stale, lost>>
  BY DEF Other, page, forms
<1>6. TypeOK'
  BY <1>1, <1>3, <1>5, RestatedNext DEF Typed
<1>7. OneChain'
  <2>1. Total(flight', "poll") = Total(flight, "poll")
    BY <1>3, <1>4, PollAndFavourites DEF SameBut
  <2>2. QED BY <2>1, <1>5, Restated, RestatedNext DEF Chain, IInv
<1>8. NoLoginByPoll'
  BY <1>3, <1>4, PollAndFavourites DEF SameBut, IInv, NoLoginByPoll
<1>9. NothingToCut'
  BY <1>5 DEF IInv, NothingToCut
<1>10. FormsPending'
  <2>1. Total(flight', "favourites") = Total(flight, "favourites")
    BY <1>3, <1>4, PollAndFavourites DEF SameBut
  <2>2. QED BY <2>1, <1>5, Restated, RestatedNext DEF IInv, FormVisible
<1>11. QED BY <1>6, <1>7, <1>8, <1>9, <1>10 DEF IInv

(* The end of the session makes requests bare, and ends none.              *)
LEMMA ExpireStep ==
  ASSUME IInv, Expire
  PROVE  IInv'
<1>1. Typed(flight) /\ flight \in Flights
  BY Restated DEF IInv, Typed
<1>2. flight' = [k \in Kinds |-> [flight[k] EXCEPT
                  !["sent"] = 0, !["bare"] = @ + flight[k]["sent"]]]
  BY DEF Expire
<1>3. \A k \in Kinds, p \in Phases : flight[k][p] \in Nat
  BY <1>1 DEF Flights
<1>4. \A k \in Kinds :
        /\ flight'[k] \in [Phases -> Nat]
        /\ flight'[k]["sent"] = 0
        /\ flight'[k]["bare"] = flight[k]["bare"] + flight[k]["sent"]
        /\ \A p \in Phases \ {"sent", "bare"} : flight'[k][p] = flight[k][p]
  <2> SUFFICES ASSUME NEW k \in Kinds
               PROVE  /\ flight'[k] \in [Phases -> Nat]
                      /\ flight'[k]["sent"] = 0
                      /\ flight'[k]["bare"] = flight[k]["bare"] + flight[k]["sent"]
                      /\ \A p \in Phases \ {"sent", "bare"} : flight'[k][p] = flight[k][p]
    OBVIOUS
  <2>1. flight[k] \in [Phases -> Nat]
    BY <1>1 DEF Flights
  <2>2. flight[k]["bare"] + flight[k]["sent"] \in Nat
    BY <1>3, PhaseNames
  <2>3. flight'[k] = [flight[k] EXCEPT !["sent"] = 0, !["bare"] = flight[k]["bare"] + flight[k]["sent"]]
    BY <1>2
  <2>4. QED BY <2>1, <2>2, <2>3, PhaseNames
<1>5. flight' \in Flights
  BY <1>2, <1>4 DEF Flights
<1>6. \A k \in Kinds : Total(flight', k) = Total(flight, k) /\ flight'[k]["in"] = flight[k]["in"]
  <2> SUFFICES ASSUME NEW k \in Kinds
               PROVE  Total(flight', k) = Total(flight, k) /\ flight'[k]["in"] = flight[k]["in"]
    OBVIOUS
  <2>1. /\ flight'[k]["sent"] = 0
        /\ flight'[k]["bare"] = flight[k]["bare"] + flight[k]["sent"]
        /\ flight'[k]["in"] = flight[k]["in"]
        /\ flight'[k]["out"] = flight[k]["out"]
        /\ flight'[k]["data"] = flight[k]["data"]
        /\ flight'[k]["empty"] = flight[k]["empty"]
        /\ flight'[k]["failed"] = flight[k]["failed"]
    BY <1>4 DEF Phases
  <2>2. /\ flight[k]["sent"] \in Nat
        /\ flight[k]["bare"] \in Nat
        /\ flight[k]["in"] \in Nat
        /\ flight[k]["out"] \in Nat
        /\ flight[k]["data"] \in Nat
        /\ flight[k]["empty"] \in Nat
        /\ flight[k]["failed"] \in Nat
    BY <1>3 DEF Phases
  <2>3. QED BY ONLY <2>1, <2>2 DEF Total
<1>7. UNCHANGED <<loginForm, registerForm, loginButton, layout, timer, cut, stale, lost>>
      /\ session' = FALSE
  BY DEF Expire, page, forms
<1>8. TypeOK'
  BY <1>1, <1>5, <1>7, RestatedNext DEF Typed
<1>9. OneChain'
  BY <1>6, <1>7, PollAndFavourites, Restated, RestatedNext DEF Chain, IInv
<1>10. NoLoginByPoll'
  BY <1>6, PollAndFavourites DEF IInv, NoLoginByPoll
<1>11. NothingToCut'
  BY <1>7 DEF IInv, NothingToCut
<1>12. FormsPending'
  BY <1>7 DEF FormsPending
<1>13. QED BY <1>8, <1>9, <1>10, <1>11, <1>12 DEF IInv

(* A log in asks for the favourites, and is none of the polls.             *)
LEMMA LoggedInStep ==
  ASSUME IInv, NEW k \in Kinds, LoggedIn(k)
  PROVE  IInv'
<1>1. Typed(flight) /\ flight \in Flights
  BY Restated DEF IInv, Typed
<1>2. PICK h : h = Without(flight, k, "in")
  OBVIOUS
<1>3. flight[k]["in"] > 0 /\ flight' = Load(h, "favourites", session')
  BY <1>2 DEF LoggedIn
<1>4. k # "poll" /\ session' \in BOOLEAN
  BY <1>1, <1>3 DEF IInv, NoLoginByPoll, LoggedIn, Typed
<1>5. h \in Flights /\ SameBut(flight, h, k)
  BY ONLY Ending, <1>1, <1>2, <1>3, PhaseNames, k \in Kinds
<1>6. /\ flight' \in Flights
      /\ SameBut(h, flight', "favourites")
      /\ Total(flight', "favourites") = Total(h, "favourites") + 1
  BY ONLY Loading, <1>3, <1>4, <1>5, PollAndFavourites
<1>7. /\ flight'["poll"] = flight["poll"]
      /\ Total(flight', "poll") = Total(flight, "poll")
  BY <1>4, <1>5, <1>6, PollAndFavourites DEF SameBut
<1>8. UNCHANGED <<loginForm, registerForm, loginButton, layout, timer, cut, stale, lost>>
  BY DEF LoggedIn, page, forms
<1>9. TypeOK'
  BY <1>1, <1>4, <1>6, <1>8, RestatedNext DEF Typed
<1>10. OneChain'
  BY <1>7, <1>8, Restated, RestatedNext DEF Chain, IInv
<1>11. NoLoginByPoll'
  BY <1>7 DEF IInv, NoLoginByPoll
<1>12. NothingToCut'
  BY <1>8 DEF IInv, NothingToCut
<1>13. FormsPending'
  <2>1. Total(h, "favourites") \in Nat
    BY <1>5, PollAndFavourites, TotalNat
  <2>2. QED BY <2>1, <1>6, RestatedNext
<1>14. QED BY <1>9, <1>10, <1>11, <1>12, <1>13 DEF IInv

(* The first favourites start the chain; with any no form is left.         *)
LEMMA FavouritesStep ==
  ASSUME IInv, Favourites
  PROVE  IInv'
<1>1. Typed(flight) /\ flight \in Flights
  BY Restated DEF IInv, Typed
<1>2. PICK h : h = Without(flight, "favourites", "data")
  OBVIOUS
<1>3. /\ flight["favourites"]["data"] > 0
      /\ flight' = IF layout THEN h ELSE Load(h, "poll", session)
  BY <1>2 DEF Favourites, CreateLayout
<1>4. h \in Flights /\ SameBut(flight, h, "favourites")
  BY ONLY Ending, <1>1, <1>2, <1>3, PollAndFavourites, PhaseNames
<1>5. h["poll"]["in"] = flight["poll"]["in"] /\ Total(h, "poll") = Total(flight, "poll")
  BY <1>4, PollAndFavourites DEF SameBut
<1>6. /\ loginForm' = Close(loginForm) /\ registerForm' = Close(registerForm)
      /\ layout' = TRUE
      /\ UNCHANGED <<session, loginButton, timer, cut, stale, lost>>
  BY DEF Favourites
<1>7. /\ loginForm' \in {"none", "open", "closed"} /\ registerForm' \in {"none", "open", "closed"}
      /\ registerForm' # "none" => loginForm' # "none"
      /\ loginForm' # "open" /\ registerForm' # "open"
  BY <1>1, <1>6 DEF Typed, Close
<1>8. /\ flight' \in Flights
      /\ Total(flight', "poll") = IF layout THEN Total(h, "poll") ELSE Total(h, "poll") + 1
      /\ flight'["poll"]["in"] = h["poll"]["in"]
  <2>1. CASE layout
    BY <2>1, <1>3, <1>4
  <2>2. CASE ~layout
    <3>1. flight' = Load(h, "poll", session) /\ session \in BOOLEAN
      BY <2>2, <1>1, <1>3 DEF Typed
    <3>2. /\ flight' \in Flights
          /\ Total(flight', "poll") = Total(h, "poll") + 1
          /\ flight'["poll"]["in"] = h["poll"]["in"]
      BY ONLY Loading, <3>1, <1>4, PollAndFavourites
    <3>3. QED BY <2>2, <3>2
  <2>3. QED BY <2>1, <2>2
<1>9. TypeOK'
  BY <1>1, <1>6, <1>7, <1>8, RestatedNext DEF Typed
<1>10. OneChain'
  <2>1. Chain(flight, layout, timer, cut)
    BY Restated DEF IInv
  <2>2. Total(flight, "poll") \in Nat /\ timer \in BOOLEAN
    BY <1>1, PollAndFavourites, TotalNat DEF Typed
  <2>3. ~layout => cut = "no"
    BY DEF IInv, NothingToCut
  <2>4. CASE layout
    BY <2>1, <2>4, <1>5, <1>6, <1>8, RestatedNext DEF Chain
  <2>5. CASE ~layout
    <3>1. Total(flight, "poll") = 0 /\ ~timer
      BY <2>1, <2>2, <2>5 DEF Chain
    <3>2. Total(flight', "poll") = 1 /\ ~timer' /\ layout' /\ cut' = "no"
      BY <3>1, <2>3, <2>5, <1>5, <1>6, <1>8
    <3>3. QED BY <3>2, RestatedNext DEF Chain
  <2>6. QED BY <2>4, <2>5
<1>11. NoLoginByPoll'
  BY <1>5, <1>8 DEF IInv, NoLoginByPoll
<1>12. NothingToCut'
  BY <1>6 DEF NothingToCut
<1>13. FormsPending'
  BY <1>7 DEF FormsPending, FormVisible
<1>14. QED BY <1>9, <1>10, <1>11, <1>12, <1>13 DEF IInv

(* The chain goes from the timer to the poll.                              *)
LEMMA PollStep ==
  ASSUME IInv, Poll
  PROVE  IInv'
<1>1. Typed(flight) /\ flight \in Flights /\ session \in BOOLEAN
  BY Restated DEF IInv, Typed
<1>2. flight' = Load(flight, "poll", session)
  BY DEF Poll
<1>3. /\ flight' \in Flights
      /\ SameBut(flight, flight', "poll")
      /\ Total(flight', "poll") = Total(flight, "poll") + 1
      /\ flight'["poll"]["in"] = flight["poll"]["in"]
  BY ONLY Loading, <1>1, <1>2, PollAndFavourites
<1>4. /\ timer /\ timer' = FALSE
      /\ UNCHANGED <<session, loginForm, registerForm, loginButton, layout, cut, stale, lost>>
  BY DEF Poll, forms
<1>5. Total(flight, "poll") \in Nat
  BY <1>1, PollAndFavourites, TotalNat
<1>6. TypeOK'
  BY <1>1, <1>3, <1>4, RestatedNext DEF Typed
<1>7. OneChain'
  <2>1. Chain(flight, layout, timer, cut)
    BY Restated DEF IInv
  <2>2. QED BY <2>1, <1>3, <1>4, <1>5, RestatedNext DEF Chain
<1>8. NoLoginByPoll'
  BY <1>3 DEF IInv, NoLoginByPoll
<1>9. NothingToCut'
  BY <1>4 DEF IInv, NothingToCut
<1>10. FormsPending'
  <2>1. Total(flight', "favourites") = Total(flight, "favourites")
    BY <1>3, PollAndFavourites DEF SameBut
  <2>2. QED BY <2>1, <1>4, Restated, RestatedNext DEF IInv, FormVisible
<1>11. QED BY <1>6, <1>7, <1>8, <1>9, <1>10 DEF IInv

(* The user sends requests that are no polls, and changes forms only when  *)
(* one is there already.                                                   *)
LEMMA UserStep ==
  ASSUME IInv, User
  PROVE  IInv'
<1>1. Typed(flight) /\ flight \in Flights /\ session \in BOOLEAN
  BY Restated DEF IInv, Typed
<1>2. \/ flight' = flight
      \/ \E k \in {"logon", "register", "click"} : flight' = Load(flight, k, session)
  BY DEF User, SubmitLoginForm, DisplayRegisterForm, SubmitRegisterForm,
         CancelRegisterForm, Click
<1>3. /\ flight' \in Flights
      /\ flight'["poll"] = flight["poll"]
      /\ Total(flight', "poll") = Total(flight, "poll")
      /\ Total(flight', "favourites") = Total(flight, "favourites")
  <2>1. CASE flight' = flight
    BY <2>1, <1>1
  <2>2. ASSUME NEW k \in {"logon", "register", "click"}, flight' = Load(flight, k, session)
        PROVE  /\ flight' \in Flights
               /\ flight'["poll"] = flight["poll"]
               /\ Total(flight', "poll") = Total(flight, "poll")
               /\ Total(flight', "favourites") = Total(flight, "favourites")
    <3>1. k \in Kinds /\ k # "poll" /\ k # "favourites"
      BY PollAndFavourites
    <3>2. flight' \in Flights /\ SameBut(flight, flight', k)
      BY ONLY Loading, <2>2, <3>1, <1>1
    <3>3. QED BY <3>1, <3>2, PollAndFavourites DEF SameBut
  <2>3. QED BY <1>2, <2>1, <2>2
<1>4. UNCHANGED <<session, layout, timer, cut, stale, lost>>
  BY DEF User, SubmitLoginForm, DisplayRegisterForm, SubmitRegisterForm,
         CancelRegisterForm, Click, page, forms
<1>5. /\ loginForm' \in {"none", "open", "closed"}
      /\ registerForm' \in {"none", "open", "closed"}
      /\ registerForm' # "none" => loginForm' # "none"
      /\ loginButton' \in BOOLEAN
      /\ FormVisible' => FormVisible
  BY <1>1 DEF User, SubmitLoginForm, DisplayRegisterForm, SubmitRegisterForm,
         CancelRegisterForm, Click, page, forms, Typed, FormVisible
<1>6. TypeOK'
  BY <1>1, <1>3, <1>4, <1>5, RestatedNext DEF Typed
<1>7. OneChain'
  BY <1>3, <1>4, Restated, RestatedNext DEF Chain, IInv
<1>8. NoLoginByPoll'
  BY <1>3 DEF IInv, NoLoginByPoll
<1>9. NothingToCut'
  BY <1>4 DEF IInv, NothingToCut
<1>10. FormsPending'
  BY <1>3, <1>4, <1>5, Restated, RestatedNext DEF IInv
<1>11. QED BY <1>6, <1>7, <1>8, <1>9, <1>10 DEF IInv

-----------------------------------------------------------------------------
LEMMA InitInvariant == Init => IInv
<1> SUFFICES ASSUME Init PROVE IInv
  OBVIOUS
<1> DEFINE z == [k \in Kinds |-> [p \in Phases |-> 0]]
<1>1. z \in Flights /\ \A k \in Kinds : Total(z, k) = 0 /\ z[k]["in"] = 0
  BY PhaseNames DEF Flights, Total
<1>2. flight = Load(z, "status", session) /\ session \in BOOLEAN
  BY DEF Init
<1> HIDE DEF z
<1>3. flight \in Flights /\ SameBut(z, flight, "status")
  BY ONLY Loading, <1>1, <1>2, PollAndFavourites
<1>4. Total(flight, "poll") = 0 /\ flight["poll"]["in"] = 0
  BY <1>1, <1>3, PollAndFavourites DEF SameBut
<1>5. TypeOK
  BY <1>2, <1>3, Restated DEF Init, Typed
<1>6. OneChain
  BY <1>4, Restated DEF Init, Chain
<1>7. NoLoginByPoll /\ NothingToCut /\ FormsPending
  BY <1>4 DEF Init, NoLoginByPoll, NothingToCut, FormsPending, FormVisible
<1>8. QED BY <1>5, <1>6, <1>7 DEF IInv

LEMMA NextInvariant == IInv /\ [Next]_vars => IInv'
<1> SUFFICES ASSUME IInv, [Next]_vars PROVE IInv'
  OBVIOUS
<1>1. ASSUME NEW k \in Kinds, Serve(k) PROVE IInv'
  <2>1. CASE k = "status" /\ Status
    BY <2>1, AnswerStep, PhaseNames DEF Status
  <2>2. CASE k = "logon" /\ LogOn
    BY <2>2, AnswerStep, PhaseNames DEF LogOn
  <2>3. CASE k = "register" /\ Register
    BY <2>3, AnswerStep, PhaseNames DEF Register
  <2>4. CASE k \in {"favourites", "poll", "click"} /\ Authorized(k)
    BY <2>4, AnswerStep, PhaseNames DEF Authorized
  <2>5. CASE k = "poll" /\ CurrentOfNone
    BY <2>5, AnswerStep, PhaseNames DEF CurrentOfNone
  <2>6. QED BY <1>1, <2>1, <2>2, <2>3, <2>4, <2>5 DEF Serve
<1>2. ASSUME NEW k \in Kinds, NEW p \in Phases, Reply(k, p) PROVE IInv'
  BY <1>2, LoggedInStep, LoggedOutStep, FavouritesStep, ParseJsonStep,
     ParseJsonThrowsStep, OtherStep DEF Reply
<1>3. ASSUME NEW k \in Kinds, NEW p \in Phases, Lose(k, p) PROVE IInv'
  BY <1>3, LoseStep
<1>4. CASE Poll
  BY <1>4, PollStep
<1>5. CASE User
  BY <1>5, UserStep
<1>6. CASE Expire
  BY <1>6, ExpireStep
<1>7. CASE UNCHANGED vars
  BY <1>7 DEF vars, page, forms, IInv, TypeOK, OneChain, NoLoginByPoll,
     NothingToCut, FormsPending, Pending, FormVisible
<1>8. QED BY <1>1, <1>2, <1>3, <1>4, <1>5, <1>6, <1>7 DEF Next

LEMMA InductiveInvariant == Spec => []IInv
BY InitInvariant, NextInvariant, PTL DEF Spec

-----------------------------------------------------------------------------
(* The types of the page, for any number of requests under way.            *)
THEOREM TypeCorrect == Spec => []TypeOK
<1>1. IInv => TypeOK
  BY DEF IInv
<1>2. QED BY <1>1, InductiveInvariant, PTL

(* However many log ins are under way, the page never polls twice at once, *)
(* and until the chain is cut it does not stop.                            *)
THEOREM PollsInOneChain == Spec => []OneChain
<1>1. IInv => OneChain
  BY DEF IInv
<1>2. QED BY <1>1, InductiveInvariant, PTL

(* No form is left once the log ins of a page that is logged in are over.  *)
THEOREM FormsLeave == Spec => []FormsMatchSession
<1>1. IInv => FormsMatchSession
  <2> SUFFICES ASSUME IInv, session, ~stale, ~lost, FormVisible
               PROVE  \E k \in Entries : Pending(k) # 0
    BY DEF FormsMatchSession
  <2>1. Pending("favourites") > 0
    BY DEF IInv, FormsPending
  <2>2. QED BY <2>1 DEF Entries
<1>2. QED BY <1>1, InductiveInvariant, PTL
==============================================================================
