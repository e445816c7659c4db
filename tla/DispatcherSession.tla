-------------------------- MODULE DispatcherSession --------------------------
(***************************************************************************)
(* The session of one dispatcher in one browser (apps/ops-web/src): the    *)
(* cookies fleet_session and fleet_refresh, the proxy in front of the      *)
(* pages, the forwarder behind /api, the refresh and callback routes,      *)
(* login, logout and the server actions.                                   *)
(*                                                                         *)
(* A request carries the cookies of the moment it is sent and changes them *)
(* when its answer arrives; several are under way at once.  An answer that *)
(* asks neither Keycloak nor the order of anything else is fixed when the  *)
(* request is sent.  The document of a tab stays, and hears its calls,     *)
(* until the next one arrives, and a second navigation of a tab replaces   *)
(* the first.  Nobody hears the answer of a request that was given up,     *)
(* although it is served.                                                  *)
(*                                                                         *)
(* Keycloak is external.  Whether it rotates refresh tokens is a setting   *)
(* of its realm that is not in the repository.                             *)
(***************************************************************************)
EXTENDS Integers, Functions

CONSTANTS
  Tabs,
  Slots,      \* requests that can be under way
  None,
  Rotates,    \* Keycloak accepts only the newest refresh token of a session
  MaxLogins,  \* bound on Keycloak sessions
  MaxTokens   \* bound on the refresh tokens in all; the maximal lifespan of the sessions

ASSUME DispatcherAssumption ==
  /\ None \notin Slots /\ None \notin Tabs /\ None \notin Nat \X Nat
  /\ Rotates \in BOOLEAN
  /\ MaxLogins \in Nat /\ MaxTokens \in Nat

VARIABLES
  access,   \* fleet_session, as far as the API will honour it
  held,     \* fleet_refresh
  secrets,  \* oidc_state and oidc_code_verifier: the tab whose login wrote them
  view,     \* view[t]: the document of the tab
  nav,      \* nav[t]: the request of the tab's navigation
  req,      \* requests under way
  issued,   \* issued[s]: refresh tokens Keycloak has issued for its session s
  ended,    \* Keycloak sessions that are over
  troubled  \* history: sessions of which a token was sent by two requests at once, or an answer lost

jar == <<access, held>>
keycloak == <<issued, ended>>
webVars == <<jar, secrets, view, nav, req, keycloak, troubled>>

\* The board and the page of an order.  The admin pages load theirs by the calls that any page
\* can make.
Pages == {"board", "review"}
Sessions == 1 .. MaxLogins
RefreshTokens == Sessions \X (1 .. MaxTokens)
SessionOf(token) == token[1]

\* What an answer does to the cookies.
Keep == [does |-> "keep", token |-> None]
Forget == [does |-> "forget", token |-> None]
EndAccess == [does |-> "end", token |-> None]
Store(token) == [does |-> "store", token |-> token]

Free == [stage |-> "free", tab |-> None, kind |-> "none", page |-> "none", token |-> None,
         cookies |-> Keep, go |-> "none"]

\* A request of tab t that Keycloak has to see, with the refresh token it carries.
Asks(t, kind, page, token) ==
  [Free EXCEPT !.stage = "sent", !.tab = t, !.kind = kind, !.page = page, !.token = token]

\* A request of tab t whose answer the cookies it carries decide.
Gets(t, kind, page, cookies, go) ==
  [Free EXCEPT !.stage = "answered", !.tab = t, !.kind = kind, !.page = page,
               !.cookies = cookies, !.go = go]

WebTypeOK ==
  /\ access \in {"none", "valid", "expired"} /\ held \in RefreshTokens \cup {None}
  /\ secrets \in Tabs \cup {None}
  /\ view \in [Tabs -> Pages \cup {"login", "idp"}]
  /\ nav \in [Tabs -> Slots \cup {None}]
  /\ req \in [Slots ->
       [stage : {"free", "sent", "answered"}, tab : Tabs \cup {None},
        kind : {"none", "page", "refresh", "callback", "call", "action"},
        page : Pages \cup {"none"}, token : RefreshTokens \cup {None},
        cookies : [does : {"keep", "forget", "end", "store"}, token : RefreshTokens \cup {None}],
        go : Pages \cup {"none", "refresh", "login"}]]
  /\ issued \in [Sessions -> 0 .. MaxTokens]
  /\ ended \subseteq Sessions
  /\ troubled \subseteq Sessions

WebInit ==
  /\ access = "none" /\ held = None /\ secrets = None
  /\ view = [t \in Tabs |-> "login"]
  /\ nav = [t \in Tabs |-> None]
  /\ req = [r \in Slots |-> Free]
  /\ issued = [s \in Sessions |-> 0]
  /\ ended = {}
  /\ troubled = {}

-----------------------------------------------------------------------------
(* Browser: sending *)

Presents(q) == q.kind \in {"refresh", "call"} /\ q.token # None

\* Two requests under way with one refresh token.
Contended(q, r) ==
  IF Presents(q) /\ \E o \in Slots \ {r} : Presents(req[o]) /\ req[o].token = q.token
    THEN {SessionOf(q.token)} ELSE {}

\* The answers of these requests will not be heard; one that has yet to reach Keycloak still will.
GivenUp(set) ==
  [r \in set |-> IF req[r].stage = "sent" /\ Presents(req[r])
                   THEN Asks(None, req[r].kind, "none", req[r].token) ELSE Free]

LostBy(set) == {SessionOf(req[r].token) : r \in {o \in set : req[o].cookies.does = "store" /\ Presents(req[o])}}

\* q takes the slot r, and the requests it replaces are given up.
SendRequest(r, q, replaces) ==
  LET given == replaces \cap (Slots \ {r}) IN
  /\ req' = [o \in Slots |-> IF o = r THEN q
                                ELSE IF o \in given THEN GivenUp(given)[o] ELSE req[o]]
  /\ troubled' = troubled \cup Contended(q, r) \cup LostBy(given)

Navigate(t, r, q) ==
  /\ req[r].stage = "free"
  /\ SendRequest(r, q, {nav[t]})
  /\ nav' = [nav EXCEPT ![t] = r]

\* The loader of a page whose access token the API refuses.
OnRefused(p) == IF p = "review" THEN "refresh" ELSE "login"

\* proxy(), then the loader of the page.
GoesTo(p, a, token) ==
  CASE a = "valid"   -> p
    [] a = "expired" -> OnRefused(p)
    [] a = "none"    -> IF token = None THEN "login" ELSE "refresh"

Visit(t, p, a, token) == Gets(t, "page", p, Keep, GoesTo(p, a, token))

\* A link, the address bar, or a reload.
Open(t, p) ==
  /\ \E r \in Slots : Navigate(t, r, Visit(t, p, access, held))
  /\ UNCHANGED <<jar, secrets, view, keycloak>>

\* A list of an admin page, on mount and on focus, or the command palette: bearer() takes the
\* session cookie if there is one, and a call that it is good for changes nothing.
Fetch(t) ==
  /\ view[t] \in Pages /\ access # "valid"
  /\ \E r \in Slots :
       /\ req[r].stage = "free"
       /\ SendRequest(r, IF access = "none" THEN Asks(t, "call", view[t], held)
                     ELSE Gets(t, "call", view[t], Keep, "refresh"), {})
  /\ UNCHANGED <<jar, secrets, view, nav, keycloak>>

\* cancelOrder without a session cookie leads to the login page; createOrder, and every other
\* refusal, to a message.  A tab that creates may do what one that cancels does.
Act(t) ==
  /\ view[t] \in Pages /\ nav[t] = None /\ access = "none"
  /\ \E r \in Slots : Navigate(t, r, Gets(t, "action", view[t], Keep, "login"))
  /\ UNCHANGED <<jar, secrets, view, keycloak>>

\* The backup first, then the cookie: fleet_refresh stays.
LogoutTab(t) ==
  /\ view[t] \in Pages /\ nav[t] = None
  /\ \E r \in Slots : Navigate(t, r, Gets(t, "action", view[t], EndAccess, "login"))
  /\ UNCHANGED <<jar, secrets, view, keycloak>>

\* The secrets of a login under way in another tab are overwritten.
StartLogin(t) ==
  /\ view[t] = "login" /\ nav[t] = None
  /\ view' = [view EXCEPT ![t] = "idp"]
  /\ secrets' = t
  /\ UNCHANGED <<jar, nav, req, keycloak, troubled>>

\* Keycloak sends the tab to the callback, which asks it for tokens if the state is that of
\* the cookie; every failure leads to the login page.
ReturnFromLogin(t) ==
  /\ view[t] = "idp" /\ nav[t] = None
  /\ \E r \in Slots :
       \/ secrets = t /\ Navigate(t, r, Asks(t, "callback", "board", None))
       \/ secrets # t /\ Navigate(t, r, Gets(t, "callback", "board", Keep, "login"))
  /\ UNCHANGED <<jar, secrets, view, keycloak>>

-----------------------------------------------------------------------------
(* Server and Keycloak *)

\* The answer of r; one that nobody hears is dropped.
Answer(r, cookies, go) ==
  req' = [req EXCEPT ![r] = IF req[r].tab = None THEN Free
                            ELSE [@ EXCEPT !.stage = "answered", !.cookies = cookies, !.go = go]]

Honoured(token) ==
  /\ token # None
  /\ SessionOf(token) \notin ended
  /\ Rotates => token[2] = issued[SessionOf(token)]

Issue(s) ==
  /\ FoldFunction(+, 0, issued) < MaxTokens
  /\ issued' = [issued EXCEPT ![s] = @ + 1]
Newest(s) == <<s, issued[s] + 1>>

\* refreshSession for r: a new token, lost if nobody hears of it.
Renewed(r, stored) ==
  LET s == SessionOf(req[r].token) IN
  /\ Honoured(req[r].token)
  /\ Issue(s)
  /\ Answer(r, IF stored THEN Store(Newest(s)) ELSE Keep, req[r].page)
  /\ troubled' = IF req[r].tab = None THEN troubled \cup {s} ELSE troubled
  /\ UNCHANGED ended

\* The API does not answer the forwarder, which then has no response to put the pair on.
ApiFails(r) ==
  LET s == SessionOf(req[r].token) IN
  /\ Honoured(req[r].token) /\ req[r].kind = "call"
  /\ Issue(s)
  /\ Answer(r, Keep, req[r].page)
  /\ troubled' = troubled \cup {s}
  /\ UNCHANGED ended

\* No token, or one that Keycloak does not honour.
Refused(r, failure) ==
  /\ ~Honoured(req[r].token)
  /\ Answer(r, failure.cookies, failure.go)
  /\ UNCHANGED <<issued, ended, troubled>>

\* The Keycloak session is over: idle for too long, or ended by an administrator.
RefusedAsEnded(r, failure) ==
  /\ Honoured(req[r].token)
  /\ ended' = ended \cup {SessionOf(req[r].token)}
  /\ Answer(r, failure.cookies, failure.go)
  /\ UNCHANGED <<issued, troubled>>

\* Keycloak's answer does not come, although it may have issued a token.
Unanswered(r, failure) ==
  /\ Honoured(req[r].token)
  /\ troubled' = troubled \cup {SessionOf(req[r].token)}
  /\ UNCHANGED issued \/ Issue(SessionOf(req[r].token))
  /\ Answer(r, failure.cookies, failure.go)
  /\ UNCHANGED ended

\* Mutant of RidesOn: the forwarder uses the pair it got for its own call only.
RidesOnRedirect(kind) == kind = "refresh"

\* The rotated pair is stored by the redirect of the route and by passthrough().
RidesOn(kind) == kind \in {"refresh", "call"}

\* fail() of the route; the forwarder answers 401, which sends the page to the route.
Fails(q) ==
  IF q.kind = "refresh" THEN [cookies |-> Forget, go |-> "login"]
  ELSE [cookies |-> Keep, go |-> "refresh"]

ServeRefresh(r) ==
  /\ req[r].stage = "sent" /\ req[r].kind \in {"refresh", "call"}
  /\ \/ Renewed(r, RidesOn(req[r].kind)) \/ ApiFails(r)
     \/ Refused(r, Fails(req[r]))
     \/ RefusedAsEnded(r, Fails(req[r]))
     \/ Unanswered(r, Fails(req[r]))
  /\ UNCHANGED <<jar, secrets, view, nav>>

\* The exchange of the code and the look at what it proves; both may refuse.
ServeCallback(r) ==
  /\ req[r].stage = "sent" /\ req[r].kind = "callback"
  /\ \/ \E s \in Sessions :
          /\ issued[s] = 0 /\ \A u \in 1 .. (s - 1) : issued[u] > 0
          /\ Issue(s)
          /\ Answer(r, Store(Newest(s)), "board")
     \/ Answer(r, Keep, "login") /\ UNCHANGED issued
  /\ UNCHANGED <<jar, secrets, view, nav, ended, troubled>>

-----------------------------------------------------------------------------
(* Browser: receiving *)

\* The cookies after the answer of r.
AccessAfter(effect) ==
  CASE effect.does = "keep" -> access
    [] effect.does = "store" -> "valid"
    [] effect.does \in {"end", "forget"} -> "none"

HeldAfter(effect) ==
  CASE effect.does \in {"keep", "end"} -> held
    [] effect.does = "store" -> effect.token
    [] effect.does = "forget" -> None

Receive(r) ==
  /\ req[r].stage = "answered"
  /\ access' = AccessAfter(req[r].cookies)
  /\ held' = HeldAfter(req[r].cookies)
  /\ secrets' = IF req[r].kind = "callback" THEN None ELSE secrets
  /\ UNCHANGED keycloak

\* The answer is a document, not a redirect to one.
Lands(q) == q.go = "login" \/ (q.kind = "page" /\ q.go = q.page)

\* A new document in the tab: the calls of the old one are given up.
Arrive(r) ==
  LET t == req[r].tab
      calls == {c \in Slots : req[c].tab = t /\ req[c].kind = "call"} IN
  /\ Receive(r)
  /\ nav[t] = r /\ Lands(req[r])
  /\ view' = [view EXCEPT ![t] = req[r].go]
  /\ nav' = [nav EXCEPT ![t] = None]
  /\ SendRequest(r, Free, calls)

\* A redirect of a navigation, or the 401 of a call, which starts one.
Follow(r) ==
  LET t == req[r].tab IN
  /\ Receive(r)
  /\ \/ nav[t] = r /\ ~Lands(req[r])
     \/ req[r].kind = "call" /\ req[r].go = "refresh"
  /\ nav' = [nav EXCEPT ![t] = r]
  /\ SendRequest(r, IF req[r].go = "refresh" THEN Asks(t, "refresh", req[r].page, held')
                ELSE Visit(t, req[r].go, access', held'), {nav[t]})
  /\ UNCHANGED view

\* Any other answer of a call.
Hear(r) ==
  /\ Receive(r)
  /\ req[r].kind = "call" /\ req[r].go # "refresh"
  /\ req' = [req EXCEPT ![r] = Free]
  /\ UNCHANGED <<view, nav, troubled>>

-----------------------------------------------------------------------------
(* Time *)

\* expires_in has passed, for the API before the cookie lapses.
Age ==
  /\ access = "valid"
  /\ access' = "expired"
  /\ UNCHANGED <<held, secrets, view, nav, req, keycloak, troubled>>

Lapse ==
  /\ access = "expired"
  /\ access' = "none"
  /\ UNCHANGED <<held, secrets, view, nav, req, keycloak, troubled>>

-----------------------------------------------------------------------------
Serve(r) == ServeRefresh(r) \/ ServeCallback(r)
TakeAnswer(r) == Arrive(r) \/ Follow(r) \/ Hear(r)

WebNext ==
  \/ \E t \in Tabs :
       \/ \E p \in Pages : Open(t, p)
       \/ Fetch(t) \/ Act(t) \/ LogoutTab(t) \/ StartLogin(t) \/ ReturnFromLogin(t)
  \/ \E r \in Slots : Serve(r) \/ TakeAnswer(r)
  \/ Age \/ Lapse

WebSpec == WebInit /\ [][WebNext]_webVars

-----------------------------------------------------------------------------
(* Properties *)

\* r has come to erase the refresh token of the browser.
Erases(r) == req[r].stage = "answered" /\ req[r].cookies = Forget /\ held # None

\* The dispatcher is signed out by a refresh that failed only if his Keycloak session is over,
\* if two requests sent one refresh token, if an answer with a new one was lost, or if the
\* refresh was begun before his login: each path that rotates stores the pair it got
\* (apps/ops-web/src/app/api/_forward.ts, app/api/auth/refresh/route.ts).
SignedOutForCause ==
  \A r \in Slots : Erases(r) =>
    LET s == SessionOf(held) IN
    \/ s \in ended \cup troubled
    \/ req[r].token = None \/ SessionOf(req[r].token) # s
=============================================================================
