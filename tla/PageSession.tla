----------------------------- MODULE PageSession -----------------------------
(***************************************************************************)
(* The session of one browser page: who is logged in, which forms are      *)
(* shown, and the polling of the current track, which starts with the      *)
(* layout.  Every request goes through load(), which has no error handler  *)
(* and gives a reply that tells of a log in or out to dealWithLoginData()  *)
(* instead of the function that asked.  Handlers run one after another;    *)
(* replies come in any order, late, or not at all.                         *)
(***************************************************************************)
EXTENDS Naturals

CONSTANTS
  MaxLogins,  \* bound of the log ins of a user under way at once
  MaxClicks   \* bound of their other requests under way at once

ASSUME BoundAssumption == MaxLogins \in Nat /\ MaxClicks \in Nat

VARIABLES
  session,       \* the page has a valid cookie
  flight,        \* the number of requests of each kind and phase
  loginForm,     \* "none" (null), "open" or "closed"
  registerForm,
  loginButton,   \* loginButton is not null
  layout,        \* layout is not null
  timer,         \* requestTimeout of the MusicInfoUpdater is set
  cut,           \* what ended the polling, or "no"
  stale,         \* a reply saying LoggedIn = false came when it was not so
  lost           \* a request or a reply was lost

forms == <<loginForm, registerForm, loginButton>>
page == <<forms, layout, timer, cut>>
vars == <<session, flight, page, stale, lost>>

Entries == {"status", "logon", "register", "favourites"}
Kinds == Entries \union {"poll", "click"}
Phases == {"sent", "bare", "in", "out", "data", "empty", "failed"}

(* load() of a further request, which is sent with the cookie or is bare,  *)
(* and the end of one.                                                     *)
Load(f, k, cookie) ==
  IF cookie THEN [f EXCEPT ![k]["sent"] = @ + 1] ELSE [f EXCEPT ![k]["bare"] = @ + 1]

Without(f, k, p) == [f EXCEPT ![k][p] = @ - 1]

Pending(k) ==
  flight[k]["sent"] + flight[k]["bare"] + flight[k]["in"] + flight[k]["out"]
    + flight[k]["data"] + flight[k]["empty"] + flight[k]["failed"]

FormVisible == "open" \in {loginForm, registerForm}

(* init() has asked for the status; a cookie may be there from before.     *)
Init ==
  /\ session \in BOOLEAN
  /\ flight = Load([k \in Kinds |-> [p \in Phases |-> 0]], "status", session)
  /\ loginForm = "none" /\ registerForm = "none" /\ loginButton = FALSE
  /\ layout = FALSE /\ timer = FALSE /\ cut = "no"
  /\ stale = FALSE /\ lost = FALSE

-----------------------------------------------------------------------------
(* The server.                                                             *)

Answer(k, p, reply) ==
  /\ flight[k][p] > 0
  /\ flight' = [flight EXCEPT ![k][p] = @ - 1, ![k][reply] = @ + 1]
  /\ UNCHANGED <<session, page, stale, lost>>

(* GET /Account/LogOn                                                      *)
Status ==
  Answer("status", "sent", "in") \/ Answer("status", "bare", "out")

(* POST /Account/LogOn and /Account/Register, with any cookie.  A failed   *)
(* registration is no login data.                                          *)
LogOn ==
  \E p \in {"sent", "bare"} : Answer("logon", p, "in") \/ Answer("logon", p, "out")

Register ==
  \E p \in {"sent", "bare"} :
    Answer("register", p, "in") \/ Answer("register", p, "failed")

(* Controllers that want authorization: without it the request is sent on  *)
(* to the status, which answers in its place.                              *)
Authorized(k) ==
  Answer(k, "sent", "data") \/ Answer(k, "bare", "out")

(* GET /Music/Current while the list of upcoming tracks is empty.          *)
CurrentOfNone == Answer("poll", "sent", "empty")

(* The ticket in the cookie runs out, for requests on the way as well.     *)
Expire ==
  /\ session
  /\ session' = FALSE
  /\ flight' = [k \in Kinds |-> [flight[k] EXCEPT
                 !["sent"] = 0, !["bare"] = @ + flight[k]["sent"]]]
  /\ UNCHANGED <<page, stale, lost>>

Serve(k) ==
  \/ k = "status" /\ Status
  \/ k = "logon" /\ LogOn
  \/ k = "register" /\ Register
  \/ k \in {"favourites", "poll", "click"} /\ Authorized(k)
  \/ k = "poll" /\ CurrentOfNone

-----------------------------------------------------------------------------
(* Replies.                                                                *)

(* Any request can fail, or time out.  A failed poll is not repeated.      *)
Lose(k, p) ==
  /\ flight[k][p] > 0
  /\ flight' = Without(flight, k, p)
  /\ lost' = TRUE
  /\ cut' = IF k = "poll" THEN "lost" ELSE cut
  /\ UNCHANGED <<session, forms, layout, timer, stale>>

(* A log in brings a cookie.  onLogin() asks for the favourites first.     *)
LoggedIn(k) ==
  /\ flight[k]["in"] > 0
  /\ session' = (session \/ k # "status")
  /\ flight' = Load(Without(flight, k, "in"), "favourites", session')
  /\ UNCHANGED <<page, stale, lost>>

(* displayLoginForm(), or only its button if the form is there: neither    *)
(* gets by without the button, unless the form is made.                    *)
DisplayLoginFormOnce ==
  IF loginForm = "none" THEN "open" ELSE loginForm

DisplayLoginForm ==
  IF loginForm = "none" \/ loginButton THEN "open" ELSE loginForm

(* dealWithLoginData(), not logged in.  A poll that gets this reply never  *)
(* reaches the function that would set the timer for the next one.         *)
LoggedOut(k) ==
  /\ flight[k]["out"] > 0
  /\ flight' = Without(flight, k, "out")
  /\ loginForm' = DisplayLoginForm
  /\ cut' = IF k = "poll" THEN "out" ELSE cut
  /\ stale' = (stale \/ session)
  /\ UNCHANGED <<session, registerForm, loginButton, layout, timer, lost>>

Close(form) == IF form = "none" THEN "none" ELSE "closed"

(* onLogin() goes on: the forms are closed, and unless it is there already *)
(* the layout is created.  Its updater polls at once.                      *)
CreateLayoutAgain(f) == Load(f, "poll", session)

CreateLayout(f) == IF layout THEN f ELSE Load(f, "poll", session)

FavouritesFirstTime ==
  /\ flight["favourites"]["data"] > 0
  /\ flight' = CreateLayout(Without(flight, "favourites", "data"))
  /\ loginForm' = IF layout THEN loginForm ELSE Close(loginForm)
  /\ registerForm' = IF layout THEN registerForm ELSE Close(registerForm)
  /\ layout' = TRUE
  /\ UNCHANGED <<session, loginButton, timer, cut, stale, lost>>

Favourites ==
  /\ flight["favourites"]["data"] > 0
  /\ flight' = CreateLayout(Without(flight, "favourites", "data"))
  /\ loginForm' = Close(loginForm)
  /\ registerForm' = Close(registerForm)
  /\ layout' = TRUE
  /\ UNCHANGED <<session, loginButton, timer, cut, stale, lost>>

(* _parseJson() of the updater: in place of the old timer a new one.       *)
ParseJsonOnce ==
  /\ flight["poll"]["data"] > 0
  /\ flight' = Without(flight, "poll", "data")
  /\ timer' = FALSE
  /\ UNCHANGED <<session, forms, layout, cut, stale, lost>>

ParseJson ==
  /\ flight["poll"]["data"] > 0
  /\ flight' = Without(flight, "poll", "data")
  /\ timer' = TRUE
  /\ UNCHANGED <<session, forms, layout, cut, stale, lost>>

(* It reads the first track before anything else, and throws without one.  *)
ParseJsonThrows ==
  /\ flight["poll"]["empty"] > 0
  /\ flight' = Without(flight, "poll", "empty")
  /\ cut' = "empty"
  /\ UNCHANGED <<session, forms, layout, timer, stale, lost>>

(* Replies that leave the session, the forms and the polling alone.        *)
Other(k, p) ==
  /\ <<k, p>> \in {<<"click", "data">>, <<"register", "failed">>}
  /\ flight[k][p] > 0
  /\ flight' = Without(flight, k, p)
  /\ UNCHANGED <<session, page, stale, lost>>

Reply(k, p) ==
  \/ p = "in" /\ LoggedIn(k)
  \/ p = "out" /\ LoggedOut(k)
  \/ <<k, p>> = <<"favourites", "data">> /\ Favourites
  \/ <<k, p>> = <<"poll", "data">> /\ ParseJson
  \/ <<k, p>> = <<"poll", "empty">> /\ ParseJsonThrows
  \/ Other(k, p)

(* The timer of the updater: its load().                                   *)
Poll ==
  /\ timer
  /\ timer' = FALSE
  /\ flight' = Load(flight, "poll", session)
  /\ UNCHANGED <<session, forms, layout, cut, stale, lost>>

-----------------------------------------------------------------------------
(* The user.                                                               *)

MoreLogins ==
  Pending("logon") + Pending("register") + Pending("favourites") < MaxLogins

SubmitLoginForm ==
  /\ loginForm = "open" /\ MoreLogins
  /\ loginButton' = TRUE
  /\ flight' = Load(flight, "logon", session)
  /\ UNCHANGED <<session, loginForm, registerForm, layout, timer, cut, stale, lost>>

DisplayRegisterFormAlone ==
  /\ loginForm = "open"
  /\ loginForm' = "none" /\ registerForm' = "open"
  /\ UNCHANGED <<session, flight, loginButton, layout, timer, cut, stale, lost>>

DisplayRegisterForm ==
  /\ loginForm = "open"
  /\ loginForm' = "closed" /\ registerForm' = "open"
  /\ UNCHANGED <<session, flight, loginButton, layout, timer, cut, stale, lost>>

SubmitRegisterForm ==
  /\ registerForm = "open" /\ MoreLogins
  /\ flight' = Load(flight, "register", session)
  /\ UNCHANGED <<session, page, stale, lost>>

CancelRegisterForm ==
  /\ registerForm = "open"
  /\ registerForm' = "closed" /\ loginForm' = "open"
  /\ UNCHANGED <<session, flight, loginButton, layout, timer, cut, stale, lost>>

(* Search, album, vote, ...: the forms are not modal.                      *)
Click ==
  /\ layout /\ Pending("click") < MaxClicks
  /\ flight' = Load(flight, "click", session)
  /\ UNCHANGED <<session, page, stale, lost>>

User ==
  \/ SubmitLoginForm \/ DisplayRegisterForm \/ SubmitRegisterForm
  \/ CancelRegisterForm \/ Click

-----------------------------------------------------------------------------
Next ==
  \/ \E k \in Kinds : Serve(k) \/ \E p \in Phases : Reply(k, p) \/ Lose(k, p)
  \/ Poll \/ User \/ Expire

(* Requests are answered or fail, the browser runs its handlers; nothing   *)
(* obliges the user or the cookie.                                         *)
Fairness ==
  /\ WF_vars(Poll)
  /\ \A k \in Kinds : WF_vars(Serve(k))
  /\ \A k \in Kinds, p \in Phases : WF_vars(Reply(k, p))

Spec == Init /\ [][Next]_vars
FairSpec == Spec /\ Fairness

-----------------------------------------------------------------------------
(* Properties.                                                             *)

(* Types.  There is no register form without a login form to come back to. *)
TypeOK ==
  /\ session \in BOOLEAN
  /\ flight \in [Kinds -> [Phases -> Nat]]
  /\ loginForm \in {"none", "open", "closed"}
  /\ registerForm \in {"none", "open", "closed"}
  /\ loginButton \in BOOLEAN
  /\ layout \in BOOLEAN
  /\ timer \in BOOLEAN
  /\ cut \in {"no", "lost", "out", "empty"}
  /\ stale \in BOOLEAN
  /\ lost \in BOOLEAN
  /\ registerForm # "none" => loginForm # "none"

(* However many log ins are under way, the page polls in one chain: from   *)
(* the layout on there is one poll or the timer of the next, never both.   *)
(* What the code does not do is start the chain again: once it was cut,    *)
(* by a loss, an expired session or an empty list, there is none.          *)
OneChain ==
  Pending("poll") + (IF timer THEN 1 ELSE 0)
    = IF layout /\ cut = "no" THEN 1 ELSE 0

(* Once logged in, and with no log in still under way, no form is left,    *)
(* register form included, unless a reply was lost or one that says the    *)
(* opposite came late.                                                     *)
FormsMatchSession ==
  (session /\ ~stale /\ ~lost /\ \A k \in Entries : Pending(k) = 0) => ~FormVisible

(* The polling goes on until it is cut.                                    *)
PollsGoOn ==
  /\ layout ~> (timer \/ cut # "no")
  /\ timer ~> ~timer

(* An expired session is noticed by the next poll, which brings up a form, *)
(* unless the poll is lost, or the user registered and never pressed the   *)
(* login button, which is looked for only then.                            *)
ExpiryShown ==
  (layout /\ cut = "no" /\ ~session)
    ~> (session \/ FormVisible \/ cut \in {"lost", "empty"}
          \/ (loginForm = "closed" /\ ~loginButton))
==============================================================================
