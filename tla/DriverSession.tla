---------------------------- MODULE DriverSession ----------------------------
(***************************************************************************)
(* The sessions of one driver on one phone: the rows of                    *)
(* driver_refresh_token, the login, refresh and logout handlers of the api *)
(* (apps/api/src/auth), and the SessionManager and its gate in the driver  *)
(* app (apps/driver-app/src/auth).                                         *)
(*                                                                         *)
(* The claim of a presented token, the look at driver.active and the       *)
(* insert of the successor are statements of their own, so requests        *)
(* interleave between them and a failure leaves what is already done.  A   *)
(* request goes on when the phone has given it up.  The storage of the     *)
(* phone answers in the order it is asked: a load begun before a save or a *)
(* clear returns before it.                                                *)
(*                                                                         *)
(* A token that is not live and that nobody holds will never be presented  *)
(* again, so its name may be minted anew: rotations are unbounded.         *)
(***************************************************************************)
EXTENDS Integers, FiniteSets, FiniteSetsExt

CONSTANTS
  Tokens,     \* opaque refresh tokens, as numbers
  NoToken,
  Requests,   \* requests under way at the api
  NoRequest,
  Callers,    \* callers of getAccessToken: the sync loop, the screens
  Budget      \* bound on the events of each kind

EventKinds == {"login", "logout", "fault"}

ASSUME SessionAssumption ==
  /\ Tokens \subseteq Nat /\ IsFiniteSet(Tokens)
  /\ NoToken \notin Tokens
  /\ NoRequest \notin Requests
  /\ Budget \in [EventKinds -> Nat]

VARIABLES
  row,        \* revoked_reason of the row of a token, "live" while it has none
  family,     \* family_id
  expired,    \* tokens past expires_at
  active,     \* driver.active
  at,         \* at[r]: where the handler of request r is
  token,      \* token[r]: the token presented; in an answer, the new one
  stored,     \* the refresh token in SecureStore
  fresh,      \* the stored access token is more than SKEW_SECONDS from its end
  loading,    \* loading[c]: what the caller's load read, until it resumes
  sharing,    \* callers that await inFlightRefresh
  refreshing, \* the request behind inFlightRefresh
  loggingIn,  \* the request of the login form
  loggingOut, \* the request of the logout button
  gate,       \* AuthState.status
  loggedOut,  \* history: since the last login a logout has ended, and no refresh was under way
  disturbed,  \* history: families that lost an answer, a handler or a logout
  count       \* events of each kind so far

Table == <<row, family, expired>>
Handlers == <<at, token>>
Waiting == <<sharing, refreshing, loggingIn, loggingOut>>
Phone == <<stored, fresh, loading, Waiting, gate>>
History == <<loggedOut, disturbed>>
vars == <<Table, active, Handlers, Phone, History, count>>

Rows == {"absent", "live", "rotated", "reuse-detected", "driver-disabled", "logout"}
Done == {"ok", "rejected", "failed"}
Stages == {"free", "refresh", "claimed", "insert", "disabled", "unclaimed", "reused",
           "logout", "login", "issue"} \cup Done

TypeOK ==
  /\ row \in [Tokens -> Rows]
  /\ family \in [Tokens -> Nat]
  /\ expired \subseteq Tokens
  /\ active \in BOOLEAN
  /\ at \in [Requests -> Stages]
  /\ token \in [Requests -> Tokens \cup {NoToken}]
  /\ stored \in Tokens \cup {NoToken}
  /\ fresh \in BOOLEAN
  /\ loading \in [Callers -> Tokens \cup {NoToken}]
  /\ sharing \subseteq Callers
  /\ refreshing \in Requests \cup {NoRequest}
  /\ loggingIn \in Requests \cup {NoRequest}
  /\ loggingOut \in Requests \cup {NoRequest}
  /\ gate \in {"in", "out"}
  /\ loggedOut \in BOOLEAN
  /\ disturbed \subseteq Nat
  /\ count \in [EventKinds -> Nat]

Init ==
  /\ row = [t \in Tokens |-> "absent"]
  /\ family = [t \in Tokens |-> 0]
  /\ expired = {}
  /\ active = TRUE
  /\ at = [r \in Requests |-> "free"]
  /\ token = [r \in Requests |-> NoToken]
  /\ stored = NoToken /\ fresh = FALSE
  /\ loading = [c \in Callers |-> NoToken]
  /\ sharing = {}
  /\ refreshing = NoRequest /\ loggingIn = NoRequest /\ loggingOut = NoRequest
  /\ gate = "out"
  /\ loggedOut = FALSE /\ disturbed = {}
  /\ count = [k \in EventKinds |-> 0]

Event(k) ==
  /\ count[k] < Budget[k]
  /\ count' = [count EXCEPT ![k] = @ + 1]

Heard(r) == r \in {refreshing, loggingIn, loggingOut}

\* The handler of r goes to stage s with token t; an answer nobody waits for is dropped.
Go(r, s, t) ==
  LET dropped == s \in Done /\ ~Heard(r) IN
  /\ at' = [at EXCEPT ![r] = IF dropped THEN "free" ELSE s]
  /\ token' = [token EXCEPT ![r] = IF dropped THEN NoToken ELSE t]

\* A token nobody holds: its name may be given to a new random one.
Unheld(t) ==
  /\ row[t] # "live"
  /\ t # stored
  /\ \A c \in Callers : loading[c] # t
  /\ \A r \in Requests : token[r] # t

\* mintOpaqueToken and the insert of its row, as the answer of request r.
Mint(r, f) ==
  /\ \E t \in Tokens : Unheld(t)
  /\ LET t == Min({u \in Tokens : Unheld(u)}) IN
       /\ row' = [row EXCEPT ![t] = "live"]
       /\ family' = [family EXCEPT ![t] = f]
       /\ expired' = expired \ {t}
       /\ Go(r, "ok", t)

\* revokeFamily: every row of the family that is not revoked.
RevokeFamily(f, reason) ==
  row' = [t \in Tokens |-> IF family[t] = f /\ row[t] = "live" THEN reason ELSE row[t]]

-----------------------------------------------------------------------------
(* Login handler *)

\* The driver row is read; the password is compared after it.
LoginRead(r) ==
  /\ at[r] = "login"
  /\ Go(r, IF active THEN "issue" ELSE "rejected", NoToken)
  /\ UNCHANGED <<Table, active, Phone, History, count>>

\* randomUUID
NewFamily == Max({family[t] : t \in Tokens} \cup disturbed) + 1

\* issueForLogin: the first token of a family.
LoginIssue(r) ==
  /\ at[r] = "issue"
  /\ Mint(r, NewFamily)
  /\ UNCHANGED <<active, Phone, History, count>>

-----------------------------------------------------------------------------
(* Refresh handler *)

\* Mutant of Claimable: the claim does not ask for a row that is not revoked.
ClaimableTwice(t) == t \notin expired

\* Where clause of claimForRotation.
Claimable(t) == row[t] = "live" /\ t \notin expired

Claim(r) ==
  /\ at[r] = "refresh"
  /\ IF Claimable(token[r])
       THEN /\ row' = [row EXCEPT ![token[r]] = "rotated"]
            /\ Go(r, "claimed", token[r])
       ELSE /\ Go(r, "unclaimed", token[r])
            /\ UNCHANGED row
  /\ UNCHANGED <<family, expired, active, Phone, History, count>>

\* Mutant of AfterClaim: the claimed token is rotated whatever driver.active says.
AfterClaimBlind == "insert"

AfterClaim == IF active THEN "insert" ELSE "disabled"

\* withDriverActive
CheckActive(r) ==
  /\ at[r] = "claimed"
  /\ Go(r, AfterClaim, token[r])
  /\ UNCHANGED <<Table, active, Phone, History, count>>

RevokeDisabled(r) ==
  /\ at[r] = "disabled"
  /\ RevokeFamily(family[token[r]], "driver-disabled")
  /\ Go(r, "rejected", token[r])
  /\ UNCHANGED <<family, expired, active, Phone, History, count>>

InsertSuccessor(r) ==
  /\ at[r] = "insert"
  /\ Mint(r, family[token[r]])
  /\ UNCHANGED <<active, Phone, History, count>>

\* findByTokenHash and decideRotationOutcome: a revoked row is a reuse, all else is refused.
Decide(r) ==
  /\ at[r] = "unclaimed"
  /\ IF row[token[r]] \notin {"absent", "live"}
       THEN Go(r, "reused", token[r])
       ELSE Go(r, "rejected", token[r])
  /\ UNCHANGED <<Table, active, Phone, History, count>>

RevokeReused(r) ==
  /\ at[r] = "reused"
  /\ RevokeFamily(family[token[r]], "reuse-detected")
  /\ Go(r, "rejected", token[r])
  /\ UNCHANGED <<family, expired, active, Phone, History, count>>

-----------------------------------------------------------------------------
(* Logout handler *)

RevokeLogout(r) ==
  /\ at[r] = "logout"
  /\ row' = [row EXCEPT ![token[r]] = IF @ = "live" THEN "logout" ELSE @]
  /\ disturbed' = disturbed \cup {family[token[r]]}
  /\ Go(r, "ok", NoToken)
  /\ UNCHANGED <<family, expired, active, Phone, loggedOut, count>>

-----------------------------------------------------------------------------
(* Around the handlers *)

\* A handler dies, or its next statement fails: a 5xx for the phone.
Crash(r) ==
  /\ at[r] \notin Done \cup {"free"}
  /\ Event("fault")
  /\ disturbed' = IF at[r] \in {"claimed", "insert", "disabled"} THEN disturbed \cup {family[token[r]]}
                  ELSE disturbed
  /\ Go(r, "failed", token[r])
  /\ UNCHANGED <<Table, active, Phone, loggedOut>>

\* The dispatcher soft-deletes the driver: no row of driver_refresh_token is touched.
SoftDelete ==
  /\ active
  /\ active' = FALSE
  /\ UNCHANGED <<Table, Handlers, Phone, History, count>>

\* Registering the same name or phone again reactivates the row.
Reactivate ==
  /\ ~active
  /\ Event("fault")
  /\ active' = TRUE
  /\ UNCHANGED <<Table, Handlers, Phone, History>>

\* refreshTtlSeconds have gone by.
Expire(t) ==
  /\ row[t] = "live" /\ t \notin expired
  /\ Event("fault")
  /\ expired' = expired \cup {t}
  /\ UNCHANGED <<row, family, active, Handlers, Phone, History>>

-----------------------------------------------------------------------------
(* Phone: login *)

\* A request of the phone, as the value of one of its three fields.
Send(r, s, t) ==
  /\ at[r] = "free"
  /\ at' = [at EXCEPT ![r] = s]
  /\ token' = [token EXCEPT ![r] = t]

\* The phone has the answer of r.
Take(r) ==
  /\ at' = [at EXCEPT ![r] = "free"]
  /\ token' = [token EXCEPT ![r] = NoToken]

\* Loads begun before a save or a clear return before it does.
LoadsReturned == \A c \in Callers : loading[c] = NoToken

Login(r) ==
  /\ gate = "out" /\ loggingIn = NoRequest
  /\ Event("login")
  /\ Send(r, "login", NoToken)
  /\ loggingIn' = r
  /\ UNCHANGED <<Table, active, stored, fresh, loading, sharing, refreshing, loggingOut, gate, History>>

LoggedIn(r) ==
  /\ r = loggingIn /\ at[r] = "ok"
  /\ LoadsReturned
  /\ stored' = token[r] /\ fresh' = TRUE
  /\ gate' = "in" /\ loggedOut' = FALSE
  /\ Take(r) /\ loggingIn' = NoRequest
  /\ UNCHANGED <<Table, active, loading, sharing, refreshing, loggingOut, disturbed, count>>

\* Refused or failed: the storage is left as it is.
LoginFailed(r) ==
  /\ r = loggingIn /\ at[r] \in {"rejected", "failed"}
  /\ gate' = "out"
  /\ Take(r) /\ loggingIn' = NoRequest
  /\ UNCHANGED <<Table, active, stored, fresh, loading, sharing, refreshing, loggingOut, History, count>>

-----------------------------------------------------------------------------
(* Phone: getAccessToken *)

AccessExpires ==
  /\ stored # NoToken /\ fresh
  /\ fresh' = FALSE
  /\ UNCHANGED <<Table, active, Handlers, stored, loading, Waiting, gate, History, count>>

\* Nothing stored is a dead session; a stored pair near its end must be rotated.
Load(c) ==
  /\ gate = "in" /\ loading[c] = NoToken /\ c \notin sharing
  /\ \/ /\ stored = NoToken
        /\ gate' = "out"
        /\ UNCHANGED loading
     \/ /\ stored # NoToken /\ ~fresh
        /\ loading' = [loading EXCEPT ![c] = stored]
        /\ UNCHANGED gate
  /\ UNCHANGED <<Table, active, Handlers, stored, fresh, Waiting, History, count>>

\* Mutant of Joins: every caller posts a refresh of its own.
JoinsNever == FALSE

\* refreshOnce: there is a refresh in flight to share.
Joins == refreshing # NoRequest

Join(c) ==
  /\ loading[c] # NoToken
  /\ loading' = [loading EXCEPT ![c] = NoToken]
  /\ sharing' = sharing \cup {c}
  /\ \/ Joins /\ UNCHANGED <<Handlers, refreshing>>
     \/ /\ ~Joins
        /\ \E r \in Requests : Send(r, "refresh", loading[c]) /\ refreshing' = r
  /\ UNCHANGED <<Table, active, stored, fresh, loggingIn, loggingOut, gate, History, count>>

EndRefresh == refreshing' = NoRequest /\ sharing' = {}

Refreshed(r) ==
  /\ r = refreshing /\ at[r] = "ok"
  /\ LoadsReturned
  /\ stored' = token[r] /\ fresh' = TRUE
  /\ Take(r) /\ EndRefresh
  /\ UNCHANGED <<Table, active, loading, loggingIn, loggingOut, gate, History, count>>

\* 401 and 403 clear the storage.
RefreshRejected(r) ==
  /\ r = refreshing /\ at[r] = "rejected"
  /\ LoadsReturned
  /\ stored' = NoToken /\ fresh' = FALSE
  /\ gate' = "out"
  /\ Take(r) /\ EndRefresh
  /\ UNCHANGED <<Table, active, loading, loggingIn, loggingOut, History, count>>

\* A 5xx ends the session on the screen and keeps it in the storage.
RefreshFailed(r) ==
  /\ r = refreshing /\ at[r] = "failed"
  /\ gate' = "out"
  /\ Take(r) /\ EndRefresh
  /\ UNCHANGED <<Table, active, stored, fresh, loading, loggingIn, loggingOut, History, count>>

-----------------------------------------------------------------------------
(* Phone: logout *)

Logout(r) ==
  /\ gate = "in" /\ loggingOut = NoRequest
  /\ Event("logout")
  /\ IF stored = NoToken
       THEN /\ gate' = "out" /\ loggedOut' = (refreshing = NoRequest)
            /\ UNCHANGED <<Handlers, loggingOut>>
       ELSE /\ Send(r, "logout", stored)
            /\ loggingOut' = r
            /\ UNCHANGED <<gate, loggedOut>>
  /\ UNCHANGED <<Table, active, stored, fresh, loading, sharing, refreshing, loggingIn, disturbed>>

\* Mutant of Cleared: the access token is removed, the refresh token is not.
ClearedByHalf ==
  /\ LoadsReturned
  /\ fresh' = FALSE /\ UNCHANGED stored
  /\ gate' = "out" /\ loggedOut' = (refreshing = NoRequest)
  /\ loggingOut' = NoRequest

\* Any answer at all, or none.
Cleared ==
  /\ LoadsReturned
  /\ stored' = NoToken /\ fresh' = FALSE
  /\ gate' = "out" /\ loggedOut' = (refreshing = NoRequest)
  /\ loggingOut' = NoRequest

LogoutEnds(r) ==
  /\ r = loggingOut /\ at[r] \in {"ok", "failed"}
  /\ Cleared
  /\ Take(r)
  /\ UNCHANGED <<Table, active, loading, sharing, refreshing, loggingIn, disturbed, count>>

-----------------------------------------------------------------------------
(* Network and process of the phone *)

\* Handlers the phone no longer waits for: those that have ended are forgotten.
Abandon(set) ==
  /\ at' = [r \in Requests |-> IF r \in set /\ at[r] \in Done THEN "free" ELSE at[r]]
  /\ token' = [r \in Requests |-> IF r \in set /\ at[r] \in Done THEN NoToken ELSE token[r]]

FamiliesOf(set) == {family[token[r]] : r \in {q \in set : token[q] # NoToken}}

\* fetch rejects: the request may still be served, its answer is lost.
RefreshLost(r) ==
  /\ r = refreshing
  /\ Event("fault")
  /\ Abandon({r}) /\ EndRefresh
  /\ disturbed' = disturbed \cup FamiliesOf({r})
  /\ UNCHANGED <<Table, active, stored, fresh, loading, loggingIn, loggingOut, gate, loggedOut>>

LoginLost(r) ==
  /\ r = loggingIn
  /\ Event("fault")
  /\ Abandon({r}) /\ loggingIn' = NoRequest
  /\ gate' = "out"
  /\ UNCHANGED <<Table, active, stored, fresh, loading, sharing, refreshing, loggingOut, History>>

LogoutLost(r) ==
  /\ r = loggingOut
  /\ Event("fault")
  /\ Abandon({r})
  /\ Cleared
  /\ UNCHANGED <<Table, active, loading, sharing, refreshing, loggingIn, disturbed>>

\* The mount effect of useAuth.
LaunchGate == IF stored = NoToken THEN "out" ELSE "in"

\* The app ends and is opened again: the gate follows the storage.
Kill ==
  /\ Event("fault")
  /\ Abandon(Requests)
  /\ disturbed' = disturbed \cup FamiliesOf({refreshing} \cap Requests)
  /\ loading' = [c \in Callers |-> NoToken]
  /\ EndRefresh /\ loggingIn' = NoRequest /\ loggingOut' = NoRequest
  /\ gate' = LaunchGate
  /\ UNCHANGED <<Table, active, stored, fresh, loggedOut>>

-----------------------------------------------------------------------------
Handler(r) ==
  \/ LoginRead(r) \/ LoginIssue(r)
  \/ Claim(r) \/ CheckActive(r) \/ RevokeDisabled(r) \/ InsertSuccessor(r)
  \/ Decide(r) \/ RevokeReused(r)
  \/ RevokeLogout(r)

Answered(r) ==
  \/ LoggedIn(r) \/ LoginFailed(r)
  \/ Refreshed(r) \/ RefreshRejected(r) \/ RefreshFailed(r)
  \/ LogoutEnds(r)

Lost(r) == RefreshLost(r) \/ LoginLost(r) \/ LogoutLost(r)

Next ==
  \/ \E r \in Requests : Handler(r) \/ Answered(r) \/ Lost(r) \/ Crash(r) \/ Login(r) \/ Logout(r)
  \/ \E c \in Callers : Load(c) \/ Join(c)
  \/ \E t \in Tokens : Expire(t)
  \/ AccessExpires \/ SoftDelete \/ Reactivate \/ Kill

\* The api serves what it has received, the phone takes the answers it waits for, the sync
\* loop keeps asking for a token while its layout is shown, and an access token ends.
Fairness ==
  /\ \A r \in Requests : WF_vars(Handler(r)) /\ WF_vars(Answered(r))
  /\ \A c \in Callers : WF_vars(Load(c)) /\ WF_vars(Join(c))
  /\ WF_vars(AccessExpires)

Spec == Init /\ [][Next]_vars /\ Fairness

-----------------------------------------------------------------------------
(* Properties *)

\* However rotations, logouts and lost answers interleave, a family has at most one token
\* that can still be rotated (claimForRotation).
OneLiveToken ==
  \A t, u \in Tokens :
    row[t] = "live" /\ row[u] = "live" /\ family[t] = family[u] => t = u

\* The phone never turns a session into a detected reuse by itself: that takes a lost answer,
\* a handler that died between claim and insert, or a logout (refreshOnce).
ReuseIsDisturbed ==
  \A r \in Requests : at[r] = "reused" => family[token[r]] \in disturbed

\* A driver deleted for good ends up on the login screen, whatever was in flight, although
\* the deletion revokes no token (withDriverActive, performRefresh).
DisabledIsSignedOut == <>[]~active => <>[](gate = "out")

\* After a logout nothing is stored until the next login, unless a refresh was under way when
\* it ended (session-manager.ts: "storage always cleared").
LoggedOutStaysOut == loggedOut => stored = NoToken
=============================================================================
