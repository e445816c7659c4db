---------------------------- MODULE SessionProofs ----------------------------
(***************************************************************************)
(* Proofs about DriverSession, for any number of tokens, requests at the   *)
(* api, callers in the app and events, and about DispatcherSession, for    *)
(* any number of requests and of sign-ins.                                 *)
(*                                                                         *)
(* DriverSession. A family is a chain: at every moment one token of it is  *)
(* live, or one handler is between the claim and the insert of the next    *)
(* one, or neither (the chain has ended). The phone holds the end of the   *)
(* chain, unless an answer of the family was lost, a handler of it died,   *)
(* or it was logged out.                                                   *)
(***************************************************************************)
EXTENDS DriverSession, DispatcherSession, FiniteSetTheorems, TLAPS

RefreshStages == {"refresh", "claimed", "insert", "disabled", "unclaimed", "reused"}

\* The requests behind the three fields of the phone are three, and each is where its handler
\* can be.
WaitingIsTyped ==
  /\ refreshing # NoRequest =>
       at[refreshing] \in RefreshStages \cup Done /\ refreshing \notin {loggingIn, loggingOut}
  /\ loggingIn # NoRequest =>
       at[loggingIn] \in {"login", "issue"} \cup Done /\ loggingIn # loggingOut
  /\ loggingOut # NoRequest => at[loggingOut] \in {"logout"} \cup Done

\* The handlers and answers that need a token have one.
TokenIsThere ==
  /\ \A r \in Requests : at[r] \in RefreshStages \cup {"logout"} => token[r] \in Tokens
  /\ refreshing # NoRequest => token[refreshing] \in Tokens
  /\ loggingIn # NoRequest /\ at[loggingIn] = "ok" => token[loggingIn] \in Tokens

\* Between the claim of a token and the insert of its successor.
Succeeding(r) == at[r] \in {"claimed", "insert"}

\* The chain of a family has one end: a live token or a handler about to insert one.
OneEnd ==
  /\ OneLiveToken
  /\ \A r \in Requests : Succeeding(r) =>
       \A t \in Tokens : row[t] = "live" => family[t] # family[token[r]]
  /\ \A r, q \in Requests : Succeeding(r) /\ Succeeding(q) /\ family[token[r]] = family[token[q]]
       => r = q

\* A load still under way has read what is stored.
LoadIsStored == \A c \in Callers : loading[c] \in {NoToken, stored}

Disturbed(t) == family[t] \in disturbed
LiveOrDisturbed(t) == row[t] = "live" \/ Disturbed(t)

\* The family of an undisturbed session is refreshed by the phone's one refresh only ...
OneRefresh ==
  \A r \in Requests : at[r] \in RefreshStages => r = refreshing \/ Disturbed(token[r])

\* ... which presents a token that can still be claimed, and brings one back.
PresentedIsLive ==
  /\ \A r \in Requests : at[r] \in {"refresh", "unclaimed"} => LiveOrDisturbed(token[r])
  /\ \A r \in Requests : at[r] = "ok" /\ r \in {refreshing, loggingIn} => LiveOrDisturbed(token[r])

\* The refresh under way has claimed the stored token, and will bring its successor or an end.
StoredIsRotating ==
  /\ refreshing # NoRequest
  /\ at[refreshing] \in {"claimed", "insert", "disabled", "ok", "rejected"}
  /\ family[token[refreshing]] = family[stored]

StoredIsLive == stored # NoToken => LiveOrDisturbed(stored) \/ StoredIsRotating

\* A login that was answered has a family of its own.
NewFamilyIsNew ==
  loggingIn # NoRequest /\ at[loggingIn] = "ok" =>
    /\ stored # NoToken => family[stored] # family[token[loggingIn]]
    /\ \A r \in Requests \ {loggingIn} :
         token[r] # NoToken => family[token[r]] # family[token[loggingIn]]

\* After a logout there is nothing on the phone that could bring a token back.
LogoutIsQuiet == loggedOut => stored = NoToken /\ refreshing = NoRequest

SessionInv ==
  /\ TypeOK /\ IsFiniteSet(disturbed)
  /\ WaitingIsTyped /\ TokenIsThere
  /\ OneEnd
  /\ LoadIsStored /\ OneRefresh /\ PresentedIsLive /\ ReuseIsDisturbed
  /\ StoredIsLive /\ NewFamilyIsNew
  /\ LogoutIsQuiet

-----------------------------------------------------------------------------
(* What the helpers of the model do *)

\* A nonempty set of which every nonempty part of the form {y : y beyond x} shrinks has a last
\* element: Max of a finite set of numbers is in it and bounds it.
LEMMA MaxOfFinite ==
  ASSUME NEW S, S \subseteq Int, IsFiniteSet(S), S # {}
  PROVE  Max(S) \in S /\ \A y \in S : y <= Max(S)
  <1> DEFINE Above(x) == {y \in S : y > x}
             T == {Above(x) : x \in S}
             R == StrictSubsetOrdering(S)
  <1>1. IsWellFoundedOn(R, SUBSET S)
    BY FS_StrictSubsetOrderingWellFounded, FS_FiniteSubsetsOfFinite
  <1>2. T \subseteq SUBSET S /\ T # {}
    OBVIOUS
  <1>3. PICK U \in T : \A V \in T : <<V, U>> \notin R
    <2> HIDE DEF T, R
    <2> QED BY <1>1, <1>2, WFMin
  <1>4. PICK x \in S : U = Above(x)
    OBVIOUS
  <1>5. \A y \in S : y <= x
    <2> SUFFICES ASSUME NEW y \in S, y > x PROVE FALSE
      OBVIOUS
    <2>1. x \in Int /\ y \in Int /\ \A z \in S : z \in Int
      OBVIOUS
    <2>2. Above(y) \subseteq U
      <3>1. \A z \in S : z > y => z > x
        BY <2>1
      <3> QED BY <1>4, <3>1
    <2>3. y \in U /\ y \notin Above(y)
      BY <1>4, <2>1
    <2>4. <<Above(y), U>> \in R
      BY <2>2, <2>3, <1>2, <1>3 DEF StrictSubsetOrdering
    <2> QED BY <2>4, <1>3
  <1> QED BY <1>5 DEF Max

LEMMA MinOfNaturals ==
  ASSUME NEW S, S \subseteq Nat, IsFiniteSet(S), S # {}
  PROVE  Min(S) \in S
  <1> DEFINE N == {-x : x \in S}
             f == [x \in S |-> -x]
  <1>1. f \in Surjection(S, N)
    BY DEF Surjection
  <1>2. IsFiniteSet(N)
    BY <1>1, FS_Surjection
  <1>3. N \subseteq Int /\ N # {}
    OBVIOUS
  <1>4. Max(N) \in N /\ \A y \in N : y <= Max(N)
    <2> HIDE DEF N
    <2> QED BY <1>2, <1>3, MaxOfFinite
  <1>5. PICK x \in S : Max(N) = -x
    BY <1>4
  <1>6. \A y \in S : -y <= -x
    BY <1>4, <1>5
  <1>7. \A y \in S : x <= y
    BY <1>6
  <1> QED BY <1>7 DEF Min

\* Only the handler of r moves.
Moves(r) ==
  /\ at' \in [Requests -> Stages] /\ token' \in [Requests -> Tokens \cup {NoToken}]
  /\ \A q \in Requests \ {r} : at'[q] = at[q] /\ token'[q] = token[q]

\* The request that goes on is the only one that changes.
LEMMA GoMoves ==
  ASSUME TypeOK, NEW r \in Requests, NEW s \in Stages, NEW t \in Tokens \cup {NoToken},
         Go(r, s, t)
  PROVE  /\ Moves(r)
         /\ Heard(r) \/ s \notin Done => at'[r] = s /\ token'[r] = t
         /\ ~Heard(r) /\ s \in Done => at'[r] = "free" /\ token'[r] = NoToken
  BY DEF Moves, Go, TypeOK, Stages

\* A new token is one nobody holds, and no other row changes.
LEMMA MintAdds ==
  ASSUME TypeOK, NEW r \in Requests, NEW f \in Nat, Mint(r, f)
  PROVE  \E t \in Tokens :
           /\ Unheld(t)
           /\ row' = [row EXCEPT ![t] = "live"]
           /\ family' = [family EXCEPT ![t] = f]
           /\ expired' = expired \ {t}
           /\ Go(r, "ok", t)
  <1> DEFINE U == {u \in Tokens : Unheld(u)}
  <1>1. U \subseteq Nat /\ U # {} /\ IsFiniteSet(U)
    BY SessionAssumption, FS_Subset DEF Mint
  <1>2. Min(U) \in U
    <2> HIDE DEF U
    <2> QED BY <1>1, MinOfNaturals
  <1>3. /\ row' = [row EXCEPT ![Min(U)] = "live"]
        /\ family' = [family EXCEPT ![Min(U)] = f]
        /\ expired' = expired \ {Min(U)}
        /\ Go(r, "ok", Min(U))
    BY DEF Mint
  <1>4. Min(U) \in Tokens /\ Unheld(Min(U))
    BY <1>2
  <1> HIDE DEF U
  <1> QED BY <1>3, <1>4

\* randomUUID: a family that no row and no history has.
LEMMA FamilyIsNew ==
  ASSUME TypeOK, IsFiniteSet(disturbed), \E t \in Tokens : TRUE
  PROVE  /\ NewFamily \in Nat
         /\ \A t \in Tokens : family[t] < NewFamily
         /\ NewFamily \notin disturbed
  <1> DEFINE F == {family[t] : t \in Tokens}
             S == F \cup disturbed
             g == [t \in Tokens |-> family[t]]
  <1>1. g \in Surjection(Tokens, F)
    BY DEF Surjection
  <1>2. IsFiniteSet(S)
    BY <1>1, SessionAssumption, FS_Surjection, FS_Union
  <1>3. S \subseteq Nat /\ S \subseteq Int /\ S # {}
    <2>1. F \subseteq Nat /\ F # {}
      BY DEF TypeOK
    <2>2. disturbed \subseteq Nat
      BY DEF TypeOK
    <2> HIDE DEF F
    <2> QED BY <2>1, <2>2
  <1>4. Max(S) \in S /\ \A y \in S : y <= Max(S)
    <2> HIDE DEF S
    <2> QED BY <1>2, <1>3, MaxOfFinite
  <1>5. NewFamily = Max(S) + 1
    BY DEF NewFamily
  <1> HIDE DEF S
  <1>6. \A t \in Tokens : family[t] \in S
    BY DEF S
  <1>7. disturbed \subseteq S
    BY DEF S
  <1>8. Max(S) \in Nat /\ \A t \in Tokens : family[t] \in Nat /\ family[t] <= Max(S)
    BY <1>3, <1>4, <1>6
  <1>9. \A d \in disturbed : d \in Nat /\ d <= Max(S)
    BY <1>3, <1>4, <1>7
  <1> QED BY <1>5, <1>8, <1>9

LEMMA SendMoves ==
  ASSUME TypeOK, NEW r \in Requests, NEW s \in Stages, NEW t \in Tokens \cup {NoToken},
         Send(r, s, t)
  PROVE  /\ Moves(r)
         /\ at[r] = "free" /\ at'[r] = s /\ token'[r] = t
  BY DEF Moves, Send, TypeOK

LEMMA TakeMoves ==
  ASSUME TypeOK, NEW r \in Requests, Take(r)
  PROVE  /\ Moves(r)
         /\ at'[r] = "free" /\ token'[r] = NoToken
  BY DEF Moves, Take, TypeOK, Stages

\* A request that is given up is forgotten if it has ended, and goes on as it was if not.
LEMMA AbandonMoves ==
  ASSUME TypeOK, NEW set, Abandon(set)
  PROVE  /\ at' \in [Requests -> Stages] /\ token' \in [Requests -> Tokens \cup {NoToken}]
         /\ \A q \in Requests :
              \/ at'[q] = at[q] /\ token'[q] = token[q]
              \/ q \in set /\ at[q] \in Done /\ at'[q] = "free" /\ token'[q] = NoToken
  BY DEF Abandon, TypeOK, Stages

LEMMA FamilyOfOne ==
  ASSUME TypeOK, NEW r \in Requests, token[r] \in Tokens
  PROVE  FamiliesOf({r}) = {family[token[r]]} /\ family[token[r]] \in Nat
  <1>1. {q \in {r} : token[q] # NoToken} = {r}
    BY SessionAssumption
  <1> QED BY <1>1 DEF FamiliesOf, TypeOK

LEMMA EventTypes == ASSUME TypeOK, NEW k \in EventKinds, Event(k)
                    PROVE  count' \in [EventKinds -> Nat]
  BY DEF Event, TypeOK

LEMMA CheckActiveKeeps ==
  ASSUME SessionInv, NEW r \in Requests, CheckActive(r)
  PROVE  SessionInv'
  <1> USE DEF SessionInv, Moves
  <1>1. at[r] = "claimed" /\ token[r] \in Tokens
    BY DEF CheckActive, TokenIsThere, RefreshStages
  <1>2. /\ Moves(r)
        /\ at'[r] = AfterClaim /\ token'[r] = token[r]
        /\ AfterClaim \in {"insert", "disabled"}
    BY <1>1, GoMoves DEF CheckActive, AfterClaim, Stages, Done
  <1>3. UNCHANGED <<row, family, expired, active, stored, fresh, loading, sharing, refreshing, loggingIn, loggingOut, gate, loggedOut, disturbed, count>>
    BY DEF CheckActive, Table, Waiting, Phone, History
  <1>4. TypeOK' /\ IsFiniteSet(disturbed')
    BY <1>2, <1>3 DEF TypeOK
  <1>5. WaitingIsTyped'
    BY <1>1, <1>2, <1>3 DEF WaitingIsTyped, TypeOK, RefreshStages, Done
  <1>6. TokenIsThere'
    BY <1>1, <1>2, <1>3 DEF TokenIsThere, TypeOK
  <1>7. OneEnd'
    BY <1>1, <1>2, <1>3 DEF OneEnd, OneLiveToken, Succeeding
  <1>8. LoadIsStored'
    BY <1>3 DEF LoadIsStored
  <1>9. OneRefresh'
    BY <1>1, <1>2, <1>3 DEF OneRefresh, Disturbed, RefreshStages
  <1>10. PresentedIsLive'
    BY <1>2, <1>3 DEF PresentedIsLive, LiveOrDisturbed, Disturbed
  <1>11. ReuseIsDisturbed'
    BY <1>2, <1>3 DEF ReuseIsDisturbed
  <1>12. StoredIsLive'
    BY <1>2, <1>3 DEF StoredIsLive, LiveOrDisturbed, Disturbed, StoredIsRotating, TypeOK
  <1>13. NewFamilyIsNew'
    BY <1>2, <1>3 DEF NewFamilyIsNew, TypeOK
  <1>14. LogoutIsQuiet'
    BY <1>3 DEF LogoutIsQuiet
  <1> QED BY <1>4, <1>5, <1>6, <1>7, <1>8, <1>9, <1>10, <1>11, <1>12, <1>13, <1>14

LEMMA DecideKeeps ==
  ASSUME SessionInv, NEW r \in Requests, Decide(r)
  PROVE  SessionInv'
  <1> USE DEF SessionInv, Moves
  <1>1. at[r] = "unclaimed" /\ token[r] \in Tokens
    BY DEF Decide, TokenIsThere, RefreshStages
  <1>2. /\ Moves(r)
        /\ \/ at'[r] = "reused" /\ token'[r] = token[r] /\ row[token[r]] # "live"
           \/ Heard(r) /\ at'[r] = "rejected" /\ token'[r] = token[r]
           \/ ~Heard(r) /\ at'[r] = "free" /\ token'[r] = NoToken
    BY <1>1, GoMoves DEF Decide, Stages, Done
  <1>3. UNCHANGED <<row, family, expired, active, stored, fresh, loading, sharing, refreshing, loggingIn, loggingOut, gate, loggedOut, disturbed, count>>
    BY DEF Decide, Table, Waiting, Phone, History
  <1>4. TypeOK' /\ IsFiniteSet(disturbed')
    BY <1>2, <1>3 DEF TypeOK
  <1>5. WaitingIsTyped'
    BY <1>1, <1>2, <1>3 DEF WaitingIsTyped, TypeOK, Heard, RefreshStages, Done
  <1>6. TokenIsThere'
    BY <1>1, <1>2, <1>3 DEF TokenIsThere, TypeOK, Heard, RefreshStages
  <1>7. OneEnd'
    BY <1>2, <1>3 DEF OneEnd, OneLiveToken, Succeeding
  <1>8. LoadIsStored'
    BY <1>3 DEF LoadIsStored
  <1>9. OneRefresh'
    BY <1>1, <1>2, <1>3 DEF OneRefresh, Disturbed, RefreshStages
  <1>10. PresentedIsLive'
    BY <1>2, <1>3 DEF PresentedIsLive, LiveOrDisturbed, Disturbed
  <1>11. ReuseIsDisturbed'
    BY <1>1, <1>2, <1>3 DEF ReuseIsDisturbed, PresentedIsLive, LiveOrDisturbed, Disturbed
  <1>12. StoredIsLive'
    BY <1>1, <1>2, <1>3 DEF StoredIsLive, LiveOrDisturbed, Disturbed, StoredIsRotating, TypeOK
  <1>13. NewFamilyIsNew'
    BY <1>2, <1>3 DEF NewFamilyIsNew, TypeOK
  <1>14. LogoutIsQuiet'
    BY <1>3 DEF LogoutIsQuiet
  <1> QED BY <1>4, <1>5, <1>6, <1>7, <1>8, <1>9, <1>10, <1>11, <1>12, <1>13, <1>14

LEMMA ClaimKeeps ==
  ASSUME SessionInv, NEW r \in Requests, Claim(r)
  PROVE  SessionInv'
  <1> USE DEF SessionInv, Moves
  <1>1. at[r] = "refresh" /\ token[r] \in Tokens
    BY DEF Claim, TokenIsThere, RefreshStages
  <1>2. /\ Moves(r)
        /\ token'[r] = token[r]
        /\ \/ at'[r] = "claimed" /\ row[token[r]] = "live" /\ row' = [row EXCEPT ![token[r]] = "rotated"]
           \/ at'[r] = "unclaimed" /\ row' = row
    BY <1>1, GoMoves DEF Claim, Claimable, Stages, Done
  <1>3. UNCHANGED <<family, expired, active, stored, fresh, loading, sharing, refreshing, loggingIn, loggingOut, gate, loggedOut, disturbed, count>>
    BY DEF Claim, Waiting, Phone, History
  <1>4. \/ Disturbed(token[r])
        \/ /\ r = refreshing
           /\ \A q \in Requests \ {r} : at[q] \in RefreshStages => token[q] # token[r]
           /\ loggingIn # NoRequest /\ at[loggingIn] = "ok" => token[loggingIn] # token[r]
    BY <1>1, SessionAssumption DEF OneRefresh, NewFamilyIsNew, RefreshStages
  <1>5. TypeOK' /\ IsFiniteSet(disturbed')
    BY <1>2, <1>3 DEF TypeOK, Rows
  <1>6. WaitingIsTyped'
    BY <1>1, <1>2, <1>3 DEF WaitingIsTyped, TypeOK, RefreshStages, Done
  <1>7. TokenIsThere'
    BY <1>1, <1>2, <1>3 DEF TokenIsThere, TypeOK
  <1>8. OneEnd'
    BY <1>1, <1>2, <1>3 DEF OneEnd, OneLiveToken, Succeeding, TypeOK
  <1>9. LoadIsStored'
    BY <1>3 DEF LoadIsStored
  <1>10. OneRefresh'
    BY <1>2, <1>3, <1>4 DEF OneRefresh, Disturbed
  <1>11. PresentedIsLive'
    <2>1. ASSUME NEW q \in Requests, at'[q] \in {"refresh", "unclaimed"}
          PROVE  LiveOrDisturbed(token[q])'
      BY <2>1, <1>1, <1>2, <1>3, <1>4 DEF LiveOrDisturbed, Disturbed, PresentedIsLive, TypeOK,
         RefreshStages, TokenIsThere
    <2>2. ASSUME NEW q \in Requests, at'[q] = "ok", q \in {refreshing, loggingIn}
          PROVE  LiveOrDisturbed(token[q])'
      <3>1. q # r /\ at[q] = "ok" /\ token'[q] = token[q]
        BY <2>2, <1>2
      <3>2. token[q] \in Tokens /\ LiveOrDisturbed(token[q])
        BY <2>2, <3>1, SessionAssumption DEF TokenIsThere, PresentedIsLive
      <3>3. token[q] # token[r] \/ Disturbed(token[r])
        BY <2>2, <3>1, <1>4, SessionAssumption
      <3> QED BY <3>2, <3>3, <1>2, <1>3 DEF LiveOrDisturbed, Disturbed, TypeOK
    <2> QED BY <2>1, <2>2, <1>3 DEF PresentedIsLive
  <1>12. ReuseIsDisturbed'
    BY <1>2, <1>3 DEF ReuseIsDisturbed
  <1>13. StoredIsLive'
    BY <1>1, <1>2, <1>3, SessionAssumption DEF StoredIsLive, LiveOrDisturbed, Disturbed,
       StoredIsRotating, OneRefresh, TypeOK, RefreshStages
  <1>14. NewFamilyIsNew'
    BY <1>2, <1>3 DEF NewFamilyIsNew, TypeOK
  <1>15. LogoutIsQuiet'
    BY <1>3 DEF LogoutIsQuiet
  <1> QED BY <1>5, <1>6, <1>7, <1>8, <1>9, <1>10, <1>11, <1>12, <1>13, <1>14, <1>15

LEMMA LoginReadKeeps ==
  ASSUME SessionInv, NEW r \in Requests, LoginRead(r)
  PROVE  SessionInv'
  <1> USE DEF SessionInv, Moves
  <1>1. at[r] = "login"
    BY DEF LoginRead
  <1>2. /\ Moves(r)
        /\ token'[r] = NoToken
        /\ \/ at'[r] = "issue"
           \/ Heard(r) /\ at'[r] = "rejected"
           \/ ~Heard(r) /\ at'[r] = "free"
    BY GoMoves DEF LoginRead, Stages, Done
  <1>3. UNCHANGED <<row, family, expired, active, stored, fresh, loading, sharing, refreshing, loggingIn, loggingOut, gate, loggedOut, disturbed, count>>
    BY DEF LoginRead, Table, Waiting, Phone, History
  <1>4. TypeOK' /\ IsFiniteSet(disturbed')
    BY <1>2, <1>3 DEF TypeOK
  <1>5. WaitingIsTyped'
    BY <1>1, <1>2, <1>3 DEF WaitingIsTyped, TypeOK, Heard, RefreshStages, Done
  <1>6. TokenIsThere'
    BY <1>1, <1>2, <1>3 DEF TokenIsThere, WaitingIsTyped, TypeOK, RefreshStages, Done
  <1>7. OneEnd'
    BY <1>2, <1>3 DEF OneEnd, OneLiveToken, Succeeding
  <1>8. LoadIsStored'
    BY <1>3 DEF LoadIsStored
  <1>9. OneRefresh'
    BY <1>2, <1>3 DEF OneRefresh, Disturbed, RefreshStages
  <1>10. PresentedIsLive'
    BY <1>2, <1>3 DEF PresentedIsLive, LiveOrDisturbed, Disturbed
  <1>11. ReuseIsDisturbed'
    BY <1>2, <1>3 DEF ReuseIsDisturbed
  <1>12. StoredIsLive'
    BY <1>1, <1>2, <1>3 DEF StoredIsLive, LiveOrDisturbed, Disturbed, StoredIsRotating, TypeOK
  <1>13. NewFamilyIsNew'
    BY <1>2, <1>3 DEF NewFamilyIsNew, TypeOK
  <1>14. LogoutIsQuiet'
    BY <1>3 DEF LogoutIsQuiet
  <1> QED BY <1>4, <1>5, <1>6, <1>7, <1>8, <1>9, <1>10, <1>11, <1>12, <1>13, <1>14

LEMMA RevokeDisabledKeeps ==
  ASSUME SessionInv, NEW r \in Requests, RevokeDisabled(r)
  PROVE  SessionInv'
  <1> USE DEF SessionInv, Moves
  <1>1. at[r] = "disabled" /\ token[r] \in Tokens
    BY DEF RevokeDisabled, TokenIsThere, RefreshStages
  <1>2. /\ Moves(r)
        /\ \/ Heard(r) /\ at'[r] = "rejected" /\ token'[r] = token[r]
           \/ ~Heard(r) /\ at'[r] = "free" /\ token'[r] = NoToken
    BY <1>1, GoMoves DEF RevokeDisabled, Stages, Done
  <1>3. /\ row' \in [Tokens -> Rows]
        /\ \A t \in Tokens : row'[t] = row[t] \/ (family[t] = family[token[r]] /\ row'[t] = "driver-disabled")
    BY DEF RevokeDisabled, RevokeFamily, TypeOK, Rows
  <1>4. UNCHANGED <<family, expired, active, stored, fresh, loading, sharing, refreshing, loggingIn, loggingOut, gate, loggedOut, disturbed, count>>
    BY DEF RevokeDisabled, Waiting, Phone, History
  <1>5. \/ Disturbed(token[r])
        \/ /\ r = refreshing
           /\ \A q \in Requests \ {r} : at[q] \in RefreshStages => family[token[q]] # family[token[r]]
           /\ loggingIn # NoRequest /\ at[loggingIn] = "ok" => family[token[loggingIn]] # family[token[r]]
    BY <1>1, SessionAssumption DEF OneRefresh, NewFamilyIsNew, RefreshStages, Disturbed
  <1>6. TypeOK' /\ IsFiniteSet(disturbed')
    BY <1>2, <1>3, <1>4 DEF TypeOK
  <1>7. WaitingIsTyped'
    BY <1>2, <1>4 DEF WaitingIsTyped, TypeOK, Heard, Done
  <1>8. TokenIsThere'
    BY <1>2, <1>4 DEF TokenIsThere, TypeOK, Heard, RefreshStages
  <1>9. OneEnd'
    BY <1>2, <1>3, <1>4 DEF OneEnd, OneLiveToken, Succeeding
  <1>10. LoadIsStored'
    BY <1>4 DEF LoadIsStored
  <1>11. OneRefresh'
    BY <1>2, <1>4 DEF OneRefresh, Disturbed, RefreshStages
  <1>12. PresentedIsLive'
    <2>1. ASSUME NEW q \in Requests,
                 at'[q] \in {"refresh", "unclaimed"} \/ (at'[q] = "ok" /\ q \in {refreshing, loggingIn})
          PROVE  LiveOrDisturbed(token[q])'
      <3>1. q # r /\ at[q] = at'[q] /\ token'[q] = token[q]
        BY <2>1, <1>2
      <3>2. token[q] \in Tokens /\ LiveOrDisturbed(token[q])
        BY <2>1, <3>1, SessionAssumption DEF TokenIsThere, PresentedIsLive, RefreshStages
      <3>3. Disturbed(token[r]) \/ family[token[q]] # family[token[r]]
        BY <2>1, <3>1, <1>5, SessionAssumption DEF RefreshStages
      <3> QED BY <3>1, <3>2, <3>3, <1>3, <1>4 DEF LiveOrDisturbed, Disturbed
    <2> QED BY <2>1, <1>4 DEF PresentedIsLive
  <1>13. ReuseIsDisturbed'
    BY <1>2, <1>4 DEF ReuseIsDisturbed
  <1>14. StoredIsLive'
    BY <1>2, <1>3, <1>4, <1>5, SessionAssumption DEF StoredIsLive, LiveOrDisturbed, Disturbed,
       StoredIsRotating, TypeOK, Heard
  <1>15. NewFamilyIsNew'
    BY <1>2, <1>4 DEF NewFamilyIsNew, TypeOK
  <1>16. LogoutIsQuiet'
    BY <1>4 DEF LogoutIsQuiet
  <1> QED BY <1>6, <1>7, <1>8, <1>9, <1>10, <1>11, <1>12, <1>13, <1>14, <1>15, <1>16

LEMMA RevokeReusedKeeps ==
  ASSUME SessionInv, NEW r \in Requests, RevokeReused(r)
  PROVE  SessionInv'
  <1> USE DEF SessionInv, Moves
  <1>1. at[r] = "reused" /\ token[r] \in Tokens /\ Disturbed(token[r])
    BY DEF RevokeReused, TokenIsThere, RefreshStages, ReuseIsDisturbed, Disturbed
  <1>2. /\ Moves(r)
        /\ \/ Heard(r) /\ at'[r] = "rejected" /\ token'[r] = token[r]
           \/ ~Heard(r) /\ at'[r] = "free" /\ token'[r] = NoToken
    BY <1>1, GoMoves DEF RevokeReused, Stages, Done
  <1>3. /\ row' \in [Tokens -> Rows]
        /\ \A t \in Tokens : row'[t] = row[t] \/ (family[t] = family[token[r]] /\ row'[t] = "reuse-detected")
    BY DEF RevokeReused, RevokeFamily, TypeOK, Rows
  <1>4. UNCHANGED <<family, expired, active, stored, fresh, loading, sharing, refreshing, loggingIn, loggingOut, gate, loggedOut, disturbed, count>>
    BY DEF RevokeReused, Waiting, Phone, History
  <1>5. TypeOK' /\ IsFiniteSet(disturbed')
    BY <1>2, <1>3, <1>4 DEF TypeOK
  <1>6. WaitingIsTyped'
    BY <1>2, <1>4 DEF WaitingIsTyped, TypeOK, Heard, Done
  <1>7. TokenIsThere'
    BY <1>2, <1>4 DEF TokenIsThere, TypeOK, Heard, RefreshStages
  <1>8. OneEnd'
    BY <1>2, <1>3, <1>4 DEF OneEnd, OneLiveToken, Succeeding
  <1>9. LoadIsStored'
    BY <1>4 DEF LoadIsStored
  <1>10. OneRefresh'
    BY <1>2, <1>4 DEF OneRefresh, Disturbed, RefreshStages
  <1>11. PresentedIsLive'
    <2>1. ASSUME NEW q \in Requests,
                 at'[q] \in {"refresh", "unclaimed"} \/ (at'[q] = "ok" /\ q \in {refreshing, loggingIn})
          PROVE  LiveOrDisturbed(token[q])'
      <3>1. q # r /\ at[q] = at'[q] /\ token'[q] = token[q]
        BY <2>1, <1>2
      <3>2. token[q] \in Tokens /\ LiveOrDisturbed(token[q])
        BY <2>1, <3>1, SessionAssumption DEF TokenIsThere, PresentedIsLive, RefreshStages
      <3>3. Disturbed(token[r]) \/ family[token[q]] # family[token[r]]
        BY <1>1
      <3> QED BY <3>1, <3>2, <1>1, <1>3, <1>4 DEF LiveOrDisturbed, Disturbed
    <2> QED BY <2>1, <1>4 DEF PresentedIsLive
  <1>12. ReuseIsDisturbed'
    BY <1>2, <1>4 DEF ReuseIsDisturbed
  <1>13. StoredIsLive'
    BY <1>1, <1>2, <1>3, <1>4 DEF StoredIsLive, LiveOrDisturbed, Disturbed, StoredIsRotating,
       TypeOK
  <1>14. NewFamilyIsNew'
    BY <1>2, <1>4 DEF NewFamilyIsNew, TypeOK
  <1>15. LogoutIsQuiet'
    BY <1>4 DEF LogoutIsQuiet
  <1> QED BY <1>5, <1>6, <1>7, <1>8, <1>9, <1>10, <1>11, <1>12, <1>13, <1>14, <1>15

LEMMA RevokeLogoutKeeps ==
  ASSUME SessionInv, NEW r \in Requests, RevokeLogout(r)
  PROVE  SessionInv'
  <1> USE DEF SessionInv, Moves
  <1>1. at[r] = "logout" /\ token[r] \in Tokens
    BY DEF RevokeLogout, TokenIsThere
  <1>2. /\ Moves(r)
        /\ token'[r] = NoToken
        /\ IF Heard(r) THEN at'[r] = "ok" ELSE at'[r] = "free"
    BY GoMoves DEF RevokeLogout, Stages, Done
  <1>3. /\ row' \in [Tokens -> Rows]
        /\ \A t \in Tokens : row'[t] = row[t] \/ (t = token[r] /\ row'[t] = "logout")
    BY DEF RevokeLogout, TypeOK, Rows
  <1>4. disturbed' = disturbed \cup {family[token[r]]} /\ family[token[r]] \in Nat
    BY <1>1 DEF RevokeLogout, TypeOK
  <1>5. r # refreshing /\ r # loggingIn
    BY <1>1, SessionAssumption DEF WaitingIsTyped, RefreshStages, Done
  <1>6. UNCHANGED <<family, expired, active, stored, fresh, loading, sharing, refreshing, loggingIn, loggingOut, gate, loggedOut, count>>
    BY DEF RevokeLogout, Waiting, Phone
  <1>7. TypeOK' /\ IsFiniteSet(disturbed')
    BY <1>2, <1>3, <1>4, <1>6, FS_AddElement DEF TypeOK
  <1>8. WaitingIsTyped'
    BY <1>2, <1>6 DEF WaitingIsTyped, TypeOK, Heard, Done
  <1>9. TokenIsThere'
    BY <1>2, <1>5, <1>6 DEF TokenIsThere, TypeOK, RefreshStages
  <1>10. OneEnd'
    BY <1>2, <1>3, <1>6 DEF OneEnd, OneLiveToken, Succeeding
  <1>11. LoadIsStored'
    BY <1>6 DEF LoadIsStored
  <1>12. OneRefresh'
    BY <1>2, <1>4, <1>6 DEF OneRefresh, Disturbed, RefreshStages
  <1>13. PresentedIsLive'
    <2>1. ASSUME NEW q \in Requests,
                 at'[q] \in {"refresh", "unclaimed"} \/ (at'[q] = "ok" /\ q \in {refreshing, loggingIn})
          PROVE  LiveOrDisturbed(token[q])'
      <3>1. q # r /\ at[q] = at'[q] /\ token'[q] = token[q]
        BY <2>1, <1>2, <1>5
      <3>2. token[q] \in Tokens /\ LiveOrDisturbed(token[q])
        BY <2>1, <3>1, SessionAssumption DEF TokenIsThere, PresentedIsLive, RefreshStages
      <3>3. family[token[r]] \in disturbed'
        BY <1>4
      <3> QED BY <3>1, <3>2, <1>3, <1>4, <1>6 DEF LiveOrDisturbed, Disturbed
    <2> QED BY <2>1, <1>6 DEF PresentedIsLive
  <1>14. ReuseIsDisturbed'
    BY <1>2, <1>4, <1>6 DEF ReuseIsDisturbed
  <1>15. StoredIsLive'
    BY <1>2, <1>3, <1>4, <1>6 DEF StoredIsLive, LiveOrDisturbed, Disturbed, StoredIsRotating,
       TypeOK
  <1>16. NewFamilyIsNew'
    BY <1>2, <1>5, <1>6 DEF NewFamilyIsNew, TypeOK
  <1>17. LogoutIsQuiet'
    BY <1>6 DEF LogoutIsQuiet
  <1> QED BY <1>7, <1>8, <1>9, <1>10, <1>11, <1>12, <1>13, <1>14, <1>15, <1>16, <1>17

LEMMA LoginIssueKeeps ==
  ASSUME SessionInv, NEW r \in Requests, LoginIssue(r)
  PROVE  SessionInv'
  <1> USE DEF SessionInv, Moves
  <1>1. /\ at[r] = "issue" /\ NewFamily \in Nat
        /\ \A t \in Tokens : family[t] # NewFamily
        /\ NewFamily \notin disturbed
    BY FamilyIsNew DEF LoginIssue, Mint
  <1>2. PICK t \in Tokens :
               /\ Unheld(t)
               /\ row' = [row EXCEPT ![t] = "live"]
               /\ family' = [family EXCEPT ![t] = NewFamily]
               /\ expired' = expired \ {t}
               /\ Go(r, "ok", t)
    BY <1>1, MintAdds DEF LoginIssue
  <1>3. row[t] # "live" /\ t # stored /\ (\A c \in Callers : loading[c] # t) /\ \A q \in Requests : token[q] # t
    BY <1>2 DEF Unheld
  <1>4. /\ Moves(r)
        /\ IF Heard(r) THEN at'[r] = "ok" /\ token'[r] = t ELSE at'[r] = "free" /\ token'[r] = NoToken
    BY <1>2, GoMoves DEF Stages, Done
  <1>5. /\ row' \in [Tokens -> Rows] /\ family' \in [Tokens -> Nat]
        /\ row'[t] = "live" /\ family'[t] = NewFamily
        /\ \A u \in Tokens \ {t} : row'[u] = row[u] /\ family'[u] = family[u]
        /\ expired' \subseteq Tokens
    BY <1>1, <1>2 DEF TypeOK, Rows
  <1>6. UNCHANGED <<active, stored, fresh, loading, sharing, refreshing, loggingIn, loggingOut, gate, loggedOut, disturbed, count>>
    BY DEF LoginIssue, Waiting, Phone, History
  <1>7. TypeOK' /\ IsFiniteSet(disturbed')
    BY <1>4, <1>5, <1>6 DEF TypeOK
  <1>8. WaitingIsTyped'
    BY <1>4, <1>6 DEF WaitingIsTyped, TypeOK, Heard, Done
  <1>9. TokenIsThere'
    BY <1>4, <1>6 DEF TokenIsThere, TypeOK, Heard, RefreshStages
  <1>10. OneEnd'
    BY <1>1, <1>3, <1>4, <1>5 DEF OneEnd, OneLiveToken, Succeeding, TokenIsThere, RefreshStages
  <1>11. LoadIsStored'
    BY <1>6 DEF LoadIsStored
  <1>12. OneRefresh'
    BY <1>3, <1>4, <1>5, <1>6 DEF OneRefresh, Disturbed, TokenIsThere, RefreshStages
  <1>13. PresentedIsLive'
    BY <1>2, <1>4, <1>6 DEF PresentedIsLive, LiveOrDisturbed, Disturbed, TypeOK
  <1>14. ReuseIsDisturbed'
    BY <1>3, <1>4, <1>5, <1>6 DEF ReuseIsDisturbed, TokenIsThere, RefreshStages
  <1>15. StoredIsLive'
    BY <1>1, <1>2, <1>3, <1>4, <1>6 DEF StoredIsLive, LiveOrDisturbed, Disturbed,
       StoredIsRotating, TypeOK
  <1>16. NewFamilyIsNew'
    <2>1. \A q \in Requests : token[q] # NoToken => family'[token[q]] = family[token[q]] /\ family[token[q]] # NewFamily
      BY <1>1, <1>3, <1>5 DEF TypeOK
    <2>2. stored # NoToken => family'[stored] = family[stored] /\ family[stored] # NewFamily
      BY <1>1, <1>3, <1>5 DEF TypeOK
    <2>3. CASE r = loggingIn
      BY <2>1, <2>2, <2>3, <1>4, <1>5, <1>6 DEF NewFamilyIsNew
    <2>4. CASE r # loggingIn
      <3> SUFFICES ASSUME loggingIn # NoRequest, at[loggingIn] = "ok" PROVE NewFamilyIsNew'
        BY <2>4, <1>4, <1>6 DEF NewFamilyIsNew, TypeOK
      <3>1. loggingIn \in Requests /\ token[loggingIn] \in Tokens
        BY DEF TypeOK, TokenIsThere
      <3>2. token'[loggingIn] = token[loggingIn] /\ family'[token[loggingIn]] = family[token[loggingIn]]
        BY <3>1, <2>1, <2>4, <1>4, SessionAssumption
      <3> QED BY <3>1, <2>1, <2>4, <1>4, <1>5, <1>6, SessionAssumption DEF NewFamilyIsNew, TypeOK
    <2> QED BY <2>3, <2>4
  <1>17. LogoutIsQuiet'
    BY <1>6 DEF LogoutIsQuiet
  <1> QED BY <1>7, <1>8, <1>9, <1>10, <1>11, <1>12, <1>13, <1>14, <1>15, <1>16, <1>17

LEMMA InsertSuccessorKeeps ==
  ASSUME SessionInv, NEW r \in Requests, InsertSuccessor(r)
  PROVE  SessionInv'
  <1> USE DEF SessionInv, Moves
  <1>1. /\ at[r] = "insert" /\ token[r] \in Tokens /\ family[token[r]] \in Nat
        /\ r = refreshing \/ Disturbed(token[r])
    BY DEF InsertSuccessor, TokenIsThere, OneRefresh, RefreshStages, TypeOK
  <1>2. PICK t \in Tokens :
               /\ Unheld(t)
               /\ row' = [row EXCEPT ![t] = "live"]
               /\ family' = [family EXCEPT ![t] = family[token[r]]]
               /\ expired' = expired \ {t}
               /\ Go(r, "ok", t)
    BY <1>1, MintAdds DEF InsertSuccessor
  <1>3. row[t] # "live" /\ t # stored /\ (\A c \in Callers : loading[c] # t) /\ \A q \in Requests : token[q] # t
    BY <1>2 DEF Unheld
  <1>4. /\ Moves(r)
        /\ IF Heard(r) THEN at'[r] = "ok" /\ token'[r] = t ELSE at'[r] = "free" /\ token'[r] = NoToken
    BY <1>2, GoMoves DEF Stages, Done
  <1>5. /\ row' \in [Tokens -> Rows] /\ family' \in [Tokens -> Nat]
        /\ row'[t] = "live" /\ family'[t] = family[token[r]]
        /\ \A u \in Tokens \ {t} : row'[u] = row[u] /\ family'[u] = family[u]
        /\ expired' \subseteq Tokens
    BY <1>1, <1>2 DEF TypeOK, Rows
  <1>6. UNCHANGED <<active, stored, fresh, loading, sharing, refreshing, loggingIn, loggingOut, gate, loggedOut, disturbed, count>>
    BY DEF InsertSuccessor, Waiting, Phone, History
  <1>7. TypeOK' /\ IsFiniteSet(disturbed')
    BY <1>4, <1>5, <1>6 DEF TypeOK
  <1>8. WaitingIsTyped'
    BY <1>4, <1>6 DEF WaitingIsTyped, TypeOK, Heard, Done
  <1>9. TokenIsThere'
    BY <1>4, <1>6 DEF TokenIsThere, TypeOK, Heard, RefreshStages
  <1>10. OneEnd'
    BY <1>1, <1>3, <1>4, <1>5 DEF OneEnd, OneLiveToken, Succeeding, TokenIsThere, RefreshStages
  <1>11. LoadIsStored'
    BY <1>6 DEF LoadIsStored
  <1>12. OneRefresh'
    BY <1>3, <1>4, <1>5, <1>6 DEF OneRefresh, Disturbed, TokenIsThere, RefreshStages
  <1>13. PresentedIsLive'
    BY <1>2, <1>4, <1>6 DEF PresentedIsLive, LiveOrDisturbed, Disturbed, TypeOK
  <1>14. ReuseIsDisturbed'
    BY <1>3, <1>4, <1>5, <1>6 DEF ReuseIsDisturbed, TokenIsThere, RefreshStages
  <1>15. StoredIsLive'
    BY <1>2, <1>3, <1>4, <1>6 DEF StoredIsLive, LiveOrDisturbed, Disturbed, StoredIsRotating,
       TypeOK, Heard
  <1>16. NewFamilyIsNew'
    BY <1>1, <1>2, <1>3, <1>4, <1>6, SessionAssumption DEF NewFamilyIsNew, TypeOK,
       WaitingIsTyped, Done
  <1>17. LogoutIsQuiet'
    BY <1>6 DEF LogoutIsQuiet
  <1> QED BY <1>7, <1>8, <1>9, <1>10, <1>11, <1>12, <1>13, <1>14, <1>15, <1>16, <1>17

LEMMA CrashKeeps ==
  ASSUME SessionInv, NEW r \in Requests, Crash(r)
  PROVE  SessionInv'
  <1> USE DEF SessionInv, Moves
  <1>1. /\ at[r] \in RefreshStages \cup {"logout", "login", "issue"}
        /\ count' \in [EventKinds -> Nat]
    BY EventTypes DEF Crash, EventKinds, TypeOK, Stages, RefreshStages
  <1>2. /\ Moves(r)
        /\ IF Heard(r) THEN at'[r] = "failed" /\ token'[r] = token[r]
           ELSE at'[r] = "free" /\ token'[r] = NoToken
    BY GoMoves DEF Crash, TypeOK, Stages, Done
  <1>3. /\ disturbed' = disturbed \/ \E f \in Nat : disturbed' = disturbed \cup {f}
        /\ disturbed \subseteq disturbed' /\ disturbed' \subseteq Nat
        /\ at[r] \in {"claimed", "insert", "disabled"} => family[token[r]] \in disturbed'
    BY DEF Crash, TokenIsThere, RefreshStages, TypeOK
  <1>4. UNCHANGED <<row, family, expired, active, stored, fresh, loading, sharing, refreshing, loggingIn, loggingOut, gate, loggedOut>>
    BY DEF Crash, Table, Waiting, Phone
  <1>5. TypeOK' /\ IsFiniteSet(disturbed')
    BY <1>1, <1>2, <1>3, <1>4, FS_AddElement DEF TypeOK
  <1>6. WaitingIsTyped'
    BY <1>2, <1>4 DEF WaitingIsTyped, TypeOK, Heard, Done
  <1>7. TokenIsThere'
    BY <1>2, <1>4 DEF TokenIsThere, TypeOK, Heard, RefreshStages
  <1>8. OneEnd'
    BY <1>2, <1>4 DEF OneEnd, OneLiveToken, Succeeding
  <1>9. LoadIsStored'
    BY <1>4 DEF LoadIsStored
  <1>10. OneRefresh'
    BY <1>2, <1>3, <1>4 DEF OneRefresh, Disturbed, RefreshStages
  <1>11. PresentedIsLive'
    BY <1>2, <1>3, <1>4 DEF PresentedIsLive, LiveOrDisturbed, Disturbed
  <1>12. ReuseIsDisturbed'
    BY <1>2, <1>3, <1>4 DEF ReuseIsDisturbed
  <1>13. StoredIsLive'
    BY <1>1, <1>2, <1>3, <1>4 DEF StoredIsLive, LiveOrDisturbed, Disturbed, StoredIsRotating,
       TypeOK, RefreshStages
  <1>14. NewFamilyIsNew'
    BY <1>2, <1>4 DEF NewFamilyIsNew, TypeOK
  <1>15. LogoutIsQuiet'
    BY <1>4 DEF LogoutIsQuiet
  <1> QED BY <1>5, <1>6, <1>7, <1>8, <1>9, <1>10, <1>11, <1>12, <1>13, <1>14, <1>15

\* What changes neither handler nor phone: the driver, the clock.
Around == SoftDelete \/ Reactivate \/ AccessExpires \/ \E t \in Tokens : Expire(t)

LEMMA AroundKeeps ==
  ASSUME SessionInv, Around
  PROVE  SessionInv'
  <1> USE DEF SessionInv, Moves
  <1>1. /\ active' \in BOOLEAN /\ fresh' \in BOOLEAN /\ expired' \subseteq Tokens
        /\ count' \in [EventKinds -> Nat]
    BY EventTypes DEF Around, SoftDelete, Reactivate, AccessExpires, Expire, Phone, Table,
       EventKinds, TypeOK
  <1>2. UNCHANGED <<row, family, at, token, stored, loading, sharing, refreshing, loggingIn, loggingOut, gate, loggedOut, disturbed>>
    BY DEF Around, SoftDelete, Reactivate, AccessExpires, Expire, Table, Handlers, Waiting,
       Phone, History
  <1>3. TypeOK' /\ IsFiniteSet(disturbed')
    BY <1>1, <1>2 DEF TypeOK
  <1>4. WaitingIsTyped'
    BY <1>2 DEF WaitingIsTyped
  <1>5. TokenIsThere'
    BY <1>2 DEF TokenIsThere
  <1>6. OneEnd'
    BY <1>2 DEF OneEnd, OneLiveToken, Succeeding
  <1>7. LoadIsStored'
    BY <1>2 DEF LoadIsStored
  <1>8. OneRefresh'
    BY <1>2 DEF OneRefresh, Disturbed
  <1>9. PresentedIsLive'
    BY <1>2 DEF PresentedIsLive, LiveOrDisturbed, Disturbed
  <1>10. ReuseIsDisturbed'
    BY <1>2 DEF ReuseIsDisturbed
  <1>11. StoredIsLive'
    BY <1>2 DEF StoredIsLive, LiveOrDisturbed, Disturbed, StoredIsRotating
  <1>12. NewFamilyIsNew'
    BY <1>2 DEF NewFamilyIsNew
  <1>13. LogoutIsQuiet'
    BY <1>2 DEF LogoutIsQuiet
  <1> QED BY <1>3, <1>4, <1>5, <1>6, <1>7, <1>8, <1>9, <1>10, <1>11, <1>12, <1>13

LEMMA LoginKeeps ==
  ASSUME SessionInv, NEW r \in Requests, Login(r)
  PROVE  SessionInv'
  <1> USE DEF SessionInv, Moves
  <1>1. at[r] = "free" /\ count' \in [EventKinds -> Nat] /\ loggingIn' = r
    BY EventTypes DEF Login, Send, EventKinds
  <1>2. Moves(r) /\ at'[r] = "login" /\ token'[r] = NoToken
    BY SendMoves DEF Login, Stages
  <1>3. UNCHANGED <<row, family, expired, active, stored, fresh, loading, sharing, refreshing, loggingOut, gate, loggedOut, disturbed>>
    BY DEF Login, Table, History
  <1>4. TypeOK' /\ IsFiniteSet(disturbed')
    BY <1>1, <1>2, <1>3 DEF TypeOK
  <1>5. WaitingIsTyped'
    BY <1>1, <1>2, <1>3 DEF WaitingIsTyped, TypeOK, RefreshStages, Done
  <1>6. TokenIsThere'
    BY <1>1, <1>2, <1>3 DEF TokenIsThere, WaitingIsTyped, TypeOK, RefreshStages, Done
  <1>7. OneEnd'
    BY <1>2, <1>3 DEF OneEnd, OneLiveToken, Succeeding
  <1>8. LoadIsStored'
    BY <1>3 DEF LoadIsStored
  <1>9. OneRefresh'
    BY <1>2, <1>3 DEF OneRefresh, Disturbed, RefreshStages
  <1>10. PresentedIsLive'
    BY <1>1, <1>2, <1>3 DEF PresentedIsLive, LiveOrDisturbed, Disturbed
  <1>11. ReuseIsDisturbed'
    BY <1>2, <1>3 DEF ReuseIsDisturbed
  <1>12. StoredIsLive'
    BY <1>1, <1>2, <1>3 DEF StoredIsLive, LiveOrDisturbed, Disturbed, StoredIsRotating, TypeOK
  <1>13. NewFamilyIsNew'
    BY <1>1, <1>2 DEF NewFamilyIsNew
  <1>14. LogoutIsQuiet'
    BY <1>3 DEF LogoutIsQuiet
  <1> QED BY <1>4, <1>5, <1>6, <1>7, <1>8, <1>9, <1>10, <1>11, <1>12, <1>13, <1>14

LEMMA LoggedInKeeps ==
  ASSUME SessionInv, NEW r \in Requests, LoggedIn(r)
  PROVE  SessionInv'
  <1> USE DEF SessionInv, Moves
  <1>1. /\ r = loggingIn /\ r # NoRequest /\ at[r] = "ok" /\ token[r] \in Tokens
        /\ LiveOrDisturbed(token[r])
        /\ \A c \in Callers : loading[c] = NoToken
    BY SessionAssumption DEF LoggedIn, LoadsReturned, TokenIsThere, PresentedIsLive
  <1>2. Moves(r) /\ at'[r] = "free" /\ token'[r] = NoToken
    BY TakeMoves DEF LoggedIn
  <1>3. stored' = token[r] /\ fresh' = TRUE /\ gate' = "in" /\ loggedOut' = FALSE /\ loggingIn' = NoRequest
    BY DEF LoggedIn
  <1>4. UNCHANGED <<row, family, expired, active, loading, sharing, refreshing, loggingOut, disturbed, count>>
    BY DEF LoggedIn, Table
  <1>5. TypeOK' /\ IsFiniteSet(disturbed')
    BY <1>2, <1>3, <1>4 DEF TypeOK
  <1>6. WaitingIsTyped'
    BY <1>1, <1>2, <1>3, <1>4 DEF WaitingIsTyped, TypeOK
  <1>7. TokenIsThere'
    BY <1>1, <1>2, <1>3, <1>4 DEF TokenIsThere, WaitingIsTyped, TypeOK, RefreshStages
  <1>8. OneEnd'
    BY <1>2, <1>4 DEF OneEnd, OneLiveToken, Succeeding
  <1>9. LoadIsStored'
    BY <1>1, <1>4 DEF LoadIsStored
  <1>10. OneRefresh'
    BY <1>2, <1>4 DEF OneRefresh, Disturbed, RefreshStages
  <1>11. PresentedIsLive'
    BY <1>2, <1>3, <1>4, SessionAssumption DEF PresentedIsLive, LiveOrDisturbed, Disturbed
  <1>12. ReuseIsDisturbed'
    BY <1>2, <1>4 DEF ReuseIsDisturbed
  <1>13. StoredIsLive'
    BY <1>1, <1>3, <1>4 DEF StoredIsLive, LiveOrDisturbed, Disturbed
  <1>14. NewFamilyIsNew'
    BY <1>3 DEF NewFamilyIsNew
  <1>15. LogoutIsQuiet'
    BY <1>3 DEF LogoutIsQuiet
  <1> QED BY <1>5, <1>6, <1>7, <1>8, <1>9, <1>10, <1>11, <1>12, <1>13, <1>14, <1>15

LEMMA LoginFailedKeeps ==
  ASSUME SessionInv, NEW r \in Requests, LoginFailed(r)
  PROVE  SessionInv'
  <1> USE DEF SessionInv, Moves
  <1>1. r = loggingIn /\ r # NoRequest /\ at[r] \in {"rejected", "failed"} /\ gate' = "out" /\ loggingIn' = NoRequest
    BY SessionAssumption DEF LoginFailed
  <1>2. Moves(r) /\ at'[r] = "free" /\ token'[r] = NoToken
    BY TakeMoves DEF LoginFailed
  <1>3. UNCHANGED <<row, family, expired, active, stored, fresh, loading, sharing, refreshing, loggingOut, loggedOut, disturbed, count>>
    BY DEF LoginFailed, Table, History
  <1>4. TypeOK' /\ IsFiniteSet(disturbed')
    BY <1>1, <1>2, <1>3 DEF TypeOK
  <1>5. WaitingIsTyped'
    BY <1>1, <1>2, <1>3 DEF WaitingIsTyped, TypeOK
  <1>6. TokenIsThere'
    BY <1>1, <1>2, <1>3 DEF TokenIsThere, WaitingIsTyped, TypeOK, RefreshStages
  <1>7. OneEnd'
    BY <1>2, <1>3 DEF OneEnd, OneLiveToken, Succeeding
  <1>8. LoadIsStored'
    BY <1>3 DEF LoadIsStored
  <1>9. OneRefresh'
    BY <1>2, <1>3 DEF OneRefresh, Disturbed, RefreshStages
  <1>10. PresentedIsLive'
    BY <1>1, <1>2, <1>3, SessionAssumption DEF PresentedIsLive, LiveOrDisturbed, Disturbed
  <1>11. ReuseIsDisturbed'
    BY <1>2, <1>3 DEF ReuseIsDisturbed
  <1>12. StoredIsLive'
    BY <1>1, <1>2, <1>3 DEF StoredIsLive, LiveOrDisturbed, Disturbed, StoredIsRotating,
       WaitingIsTyped, TypeOK
  <1>13. NewFamilyIsNew'
    BY <1>1 DEF NewFamilyIsNew
  <1>14. LogoutIsQuiet'
    BY <1>3 DEF LogoutIsQuiet
  <1> QED BY <1>4, <1>5, <1>6, <1>7, <1>8, <1>9, <1>10, <1>11, <1>12, <1>13, <1>14

LEMMA LoadKeeps ==
  ASSUME SessionInv, NEW c \in Callers, Load(c)
  PROVE  SessionInv'
  <1> USE DEF SessionInv, Moves
  <1>1. /\ loading' \in [Callers -> Tokens \cup {NoToken}] /\ gate' \in {"in", "out"}
        /\ \A d \in Callers : loading'[d] \in {loading[d], stored}
    BY DEF Load, TypeOK
  <1>2. UNCHANGED <<at, token, row, family, expired, active, stored, fresh, sharing, refreshing, loggingIn, loggingOut, loggedOut, disturbed, count>>
    BY DEF Load, Table, Handlers, Waiting, History
  <1>3. TypeOK' /\ IsFiniteSet(disturbed')
    BY <1>1, <1>2 DEF TypeOK
  <1>4. WaitingIsTyped'
    BY <1>2 DEF WaitingIsTyped
  <1>5. TokenIsThere'
    BY <1>2 DEF TokenIsThere
  <1>6. OneEnd'
    BY <1>2 DEF OneEnd, OneLiveToken, Succeeding
  <1>7. LoadIsStored'
    BY <1>1, <1>2 DEF LoadIsStored
  <1>8. OneRefresh'
    BY <1>2 DEF OneRefresh, Disturbed
  <1>9. PresentedIsLive'
    BY <1>2 DEF PresentedIsLive, LiveOrDisturbed, Disturbed
  <1>10. ReuseIsDisturbed'
    BY <1>2 DEF ReuseIsDisturbed
  <1>11. StoredIsLive'
    BY <1>2 DEF StoredIsLive, LiveOrDisturbed, Disturbed, StoredIsRotating
  <1>12. NewFamilyIsNew'
    BY <1>2 DEF NewFamilyIsNew
  <1>13. LogoutIsQuiet'
    BY <1>2 DEF LogoutIsQuiet
  <1> QED BY <1>3, <1>4, <1>5, <1>6, <1>7, <1>8, <1>9, <1>10, <1>11, <1>12, <1>13

LEMMA RefreshedKeeps ==
  ASSUME SessionInv, NEW r \in Requests, Refreshed(r)
  PROVE  SessionInv'
  <1> USE DEF SessionInv, Moves
  <1>1. /\ r = refreshing /\ r # NoRequest /\ at[r] = "ok" /\ token[r] \in Tokens
        /\ LiveOrDisturbed(token[r])
        /\ \A c \in Callers : loading[c] = NoToken
    BY SessionAssumption DEF Refreshed, LoadsReturned, TokenIsThere, PresentedIsLive
  <1>2. Moves(r) /\ at'[r] = "free" /\ token'[r] = NoToken
    BY TakeMoves DEF Refreshed
  <1>3. stored' = token[r] /\ fresh' = TRUE /\ refreshing' = NoRequest /\ sharing' = {}
    BY DEF Refreshed, EndRefresh
  <1>4. UNCHANGED <<row, family, expired, active, loading, loggingIn, loggingOut, gate, loggedOut, disturbed, count>>
    BY DEF Refreshed, Table, History
  <1>5. TypeOK' /\ IsFiniteSet(disturbed')
    BY <1>2, <1>3, <1>4 DEF TypeOK
  <1>6. WaitingIsTyped'
    BY <1>1, <1>2, <1>3, <1>4 DEF WaitingIsTyped, TypeOK
  <1>7. TokenIsThere'
    BY <1>2, <1>3, <1>4 DEF TokenIsThere, TypeOK, RefreshStages
  <1>8. OneEnd'
    BY <1>2, <1>4 DEF OneEnd, OneLiveToken, Succeeding
  <1>9. LoadIsStored'
    BY <1>1, <1>4 DEF LoadIsStored
  <1>10. OneRefresh'
    BY <1>1, <1>2, <1>4 DEF OneRefresh, Disturbed, RefreshStages
  <1>11. PresentedIsLive'
    BY <1>2, <1>3, <1>4, SessionAssumption DEF PresentedIsLive, LiveOrDisturbed, Disturbed
  <1>12. ReuseIsDisturbed'
    BY <1>2, <1>4 DEF ReuseIsDisturbed
  <1>13. StoredIsLive'
    BY <1>1, <1>3, <1>4 DEF StoredIsLive, LiveOrDisturbed, Disturbed
  <1>14. NewFamilyIsNew'
    BY <1>2, <1>3, <1>4 DEF NewFamilyIsNew, TypeOK
  <1>15. LogoutIsQuiet'
    BY <1>1, <1>4 DEF LogoutIsQuiet
  <1> QED BY <1>5, <1>6, <1>7, <1>8, <1>9, <1>10, <1>11, <1>12, <1>13, <1>14, <1>15

LEMMA RefreshRejectedKeeps ==
  ASSUME SessionInv, NEW r \in Requests, RefreshRejected(r)
  PROVE  SessionInv'
  <1> USE DEF SessionInv, Moves
  <1>1. /\ r = refreshing /\ r # NoRequest /\ at[r] = "rejected"
        /\ \A c \in Callers : loading[c] = NoToken
    BY SessionAssumption DEF RefreshRejected, LoadsReturned
  <1>2. Moves(r) /\ at'[r] = "free" /\ token'[r] = NoToken
    BY TakeMoves DEF RefreshRejected
  <1>3. stored' = NoToken /\ fresh' = FALSE /\ gate' = "out" /\ refreshing' = NoRequest /\ sharing' = {}
    BY DEF RefreshRejected, EndRefresh
  <1>4. UNCHANGED <<row, family, expired, active, loading, loggingIn, loggingOut, loggedOut, disturbed, count>>
    BY DEF RefreshRejected, Table, History
  <1>5. TypeOK' /\ IsFiniteSet(disturbed')
    BY <1>2, <1>3, <1>4 DEF TypeOK
  <1>6. WaitingIsTyped'
    BY <1>1, <1>2, <1>3, <1>4 DEF WaitingIsTyped, TypeOK
  <1>7. TokenIsThere'
    BY <1>2, <1>3, <1>4 DEF TokenIsThere, TypeOK, RefreshStages
  <1>8. OneEnd'
    BY <1>2, <1>4 DEF OneEnd, OneLiveToken, Succeeding
  <1>9. LoadIsStored'
    BY <1>1, <1>4 DEF LoadIsStored
  <1>10. OneRefresh'
    BY <1>1, <1>2, <1>4 DEF OneRefresh, Disturbed, RefreshStages
  <1>11. PresentedIsLive'
    BY <1>2, <1>3, <1>4, SessionAssumption DEF PresentedIsLive, LiveOrDisturbed, Disturbed
  <1>12. ReuseIsDisturbed'
    BY <1>2, <1>4 DEF ReuseIsDisturbed
  <1>13. StoredIsLive'
    BY <1>3 DEF StoredIsLive
  <1>14. NewFamilyIsNew'
    BY <1>2, <1>3, <1>4 DEF NewFamilyIsNew, TypeOK
  <1>15. LogoutIsQuiet'
    BY <1>3 DEF LogoutIsQuiet
  <1> QED BY <1>5, <1>6, <1>7, <1>8, <1>9, <1>10, <1>11, <1>12, <1>13, <1>14, <1>15

LEMMA RefreshFailedKeeps ==
  ASSUME SessionInv, NEW r \in Requests, RefreshFailed(r)
  PROVE  SessionInv'
  <1> USE DEF SessionInv, Moves
  <1>1. r = refreshing /\ r # NoRequest /\ at[r] = "failed"
    BY SessionAssumption DEF RefreshFailed
  <1>2. Moves(r) /\ at'[r] = "free" /\ token'[r] = NoToken
    BY TakeMoves DEF RefreshFailed
  <1>3. gate' = "out" /\ refreshing' = NoRequest /\ sharing' = {}
    BY DEF RefreshFailed, EndRefresh
  <1>4. UNCHANGED <<row, family, expired, active, stored, fresh, loading, loggingIn, loggingOut, loggedOut, disturbed, count>>
    BY DEF RefreshFailed, Table, History
  <1>5. TypeOK' /\ IsFiniteSet(disturbed')
    BY <1>2, <1>3, <1>4 DEF TypeOK
  <1>6. WaitingIsTyped'
    BY <1>1, <1>2, <1>3, <1>4 DEF WaitingIsTyped, TypeOK
  <1>7. TokenIsThere'
    BY <1>2, <1>3, <1>4 DEF TokenIsThere, TypeOK, RefreshStages
  <1>8. OneEnd'
    BY <1>2, <1>4 DEF OneEnd, OneLiveToken, Succeeding
  <1>9. LoadIsStored'
    BY <1>4 DEF LoadIsStored
  <1>10. OneRefresh'
    BY <1>1, <1>2, <1>4 DEF OneRefresh, Disturbed, RefreshStages
  <1>11. PresentedIsLive'
    BY <1>2, <1>3, <1>4, SessionAssumption DEF PresentedIsLive, LiveOrDisturbed, Disturbed
  <1>12. ReuseIsDisturbed'
    BY <1>2, <1>4 DEF ReuseIsDisturbed
  <1>13. StoredIsLive'
    BY <1>1, <1>4 DEF StoredIsLive, LiveOrDisturbed, Disturbed, StoredIsRotating
  <1>14. NewFamilyIsNew'
    BY <1>2, <1>4 DEF NewFamilyIsNew, TypeOK
  <1>15. LogoutIsQuiet'
    BY <1>3, <1>4 DEF LogoutIsQuiet
  <1> QED BY <1>5, <1>6, <1>7, <1>8, <1>9, <1>10, <1>11, <1>12, <1>13, <1>14, <1>15

LEMMA JoinKeeps ==
  ASSUME SessionInv, NEW c \in Callers, Join(c)
  PROVE  SessionInv'
  <1> USE DEF SessionInv, Moves
  <1>1. loading[c] = stored /\ stored \in Tokens
    BY DEF Join, LoadIsStored, TypeOK
  <1>2. /\ loading' \in [Callers -> Tokens \cup {NoToken}]
        /\ \A d \in Callers : loading'[d] \in {loading[d], NoToken}
        /\ sharing' \subseteq Callers
    BY DEF Join, TypeOK
  <1>3. \/ UNCHANGED <<at, token, refreshing>>
        \/ /\ refreshing = NoRequest /\ LiveOrDisturbed(stored)
           /\ \E r \in Requests :
                Moves(r) /\ at[r] = "free" /\ at'[r] = "refresh" /\ token'[r] = stored /\ refreshing' = r
    BY <1>1, SendMoves DEF Join, Joins, Handlers, Stages, StoredIsLive, StoredIsRotating
  <1>4. UNCHANGED <<row, family, expired, active, stored, fresh, loggingIn, loggingOut, gate, loggedOut, disturbed, count>>
    BY DEF Join, Table, History
  <1>5. TypeOK' /\ IsFiniteSet(disturbed')
    BY <1>2, <1>3, <1>4 DEF TypeOK
  <1>6. WaitingIsTyped'
    BY <1>3, <1>4 DEF WaitingIsTyped, TypeOK, RefreshStages, Done
  <1>7. TokenIsThere'
    BY <1>1, <1>3, <1>4 DEF TokenIsThere, TypeOK
  <1>8. OneEnd'
    BY <1>3, <1>4 DEF OneEnd, OneLiveToken, Succeeding
  <1>9. LoadIsStored'
    BY <1>2, <1>4 DEF LoadIsStored
  <1>10. OneRefresh'
    BY <1>3, <1>4, SessionAssumption DEF OneRefresh, Disturbed
  <1>11. PresentedIsLive'
    BY <1>3, <1>4 DEF PresentedIsLive, LiveOrDisturbed, Disturbed
  <1>12. ReuseIsDisturbed'
    BY <1>3, <1>4 DEF ReuseIsDisturbed
  <1>13. StoredIsLive'
    BY <1>3, <1>4 DEF StoredIsLive, LiveOrDisturbed, Disturbed, StoredIsRotating
  <1>14. NewFamilyIsNew'
    BY <1>3, <1>4 DEF NewFamilyIsNew, TypeOK
  <1>15. LogoutIsQuiet'
    BY <1>1, <1>4, SessionAssumption DEF LogoutIsQuiet
  <1> QED BY <1>5, <1>6, <1>7, <1>8, <1>9, <1>10, <1>11, <1>12, <1>13, <1>14, <1>15

LEMMA LogoutKeeps ==
  ASSUME SessionInv, NEW r \in Requests, Logout(r)
  PROVE  SessionInv'
  <1> USE DEF SessionInv, Moves
  <1>1. loggedOut' \in BOOLEAN /\ gate' \in {"in", "out"} /\ count' \in [EventKinds -> Nat]
    BY EventTypes DEF Logout, EventKinds, TypeOK
  <1>2. \/ /\ UNCHANGED <<at, token, loggingOut>>
           /\ stored = NoToken /\ loggedOut' = (refreshing = NoRequest)
        \/ /\ Moves(r) /\ at[r] = "free" /\ at'[r] = "logout" /\ token'[r] = stored /\ loggingOut' = r
           /\ stored \in Tokens /\ loggedOut' = loggedOut
    BY SendMoves DEF Logout, Handlers, Stages, TypeOK
  <1>3. UNCHANGED <<row, family, expired, active, stored, fresh, loading, sharing, refreshing, loggingIn, disturbed>>
    BY DEF Logout, Table
  <1>4. TypeOK' /\ IsFiniteSet(disturbed')
    BY <1>1, <1>2, <1>3 DEF TypeOK
  <1>5. WaitingIsTyped'
    BY <1>2, <1>3 DEF WaitingIsTyped, TypeOK, RefreshStages, Done
  <1>6. TokenIsThere'
    BY <1>2, <1>3 DEF TokenIsThere, TypeOK
  <1>7. OneEnd'
    BY <1>2, <1>3 DEF OneEnd, OneLiveToken, Succeeding
  <1>8. LoadIsStored'
    BY <1>3 DEF LoadIsStored
  <1>9. OneRefresh'
    BY <1>2, <1>3 DEF OneRefresh, Disturbed, RefreshStages
  <1>10. PresentedIsLive'
    BY <1>2, <1>3 DEF PresentedIsLive, LiveOrDisturbed, Disturbed
  <1>11. ReuseIsDisturbed'
    BY <1>2, <1>3 DEF ReuseIsDisturbed
  <1>12. StoredIsLive'
    BY <1>2, <1>3 DEF StoredIsLive, LiveOrDisturbed, Disturbed, StoredIsRotating, TypeOK
  <1>13. NewFamilyIsNew'
    BY <1>2, <1>3 DEF NewFamilyIsNew, TypeOK
  <1>14. LogoutIsQuiet'
    BY <1>2, <1>3 DEF LogoutIsQuiet
  <1> QED BY <1>4, <1>5, <1>6, <1>7, <1>8, <1>9, <1>10, <1>11, <1>12, <1>13, <1>14

LEMMA LogoutEndsKeeps ==
  ASSUME SessionInv, NEW r \in Requests, LogoutEnds(r)
  PROVE  SessionInv'
  <1> USE DEF SessionInv, Moves
  <1>1. /\ r = loggingOut /\ r # NoRequest /\ at[r] \in {"ok", "failed"}
        /\ \A c \in Callers : loading[c] = NoToken
    BY SessionAssumption DEF LogoutEnds, Cleared, LoadsReturned
  <1>2. Moves(r) /\ at'[r] = "free" /\ token'[r] = NoToken
    BY TakeMoves DEF LogoutEnds
  <1>3. /\ stored' = NoToken /\ fresh' = FALSE /\ gate' = "out" /\ loggingOut' = NoRequest
        /\ loggedOut' = (refreshing = NoRequest)
    BY DEF LogoutEnds, Cleared
  <1>4. UNCHANGED <<row, family, expired, active, loading, sharing, refreshing, loggingIn, disturbed, count>>
    BY DEF LogoutEnds, Table
  <1>5. TypeOK' /\ IsFiniteSet(disturbed')
    BY <1>2, <1>3, <1>4 DEF TypeOK
  <1>6. WaitingIsTyped'
    BY <1>1, <1>2, <1>3, <1>4 DEF WaitingIsTyped, TypeOK
  <1>7. TokenIsThere'
    BY <1>1, <1>2, <1>4 DEF TokenIsThere, WaitingIsTyped, TypeOK, RefreshStages
  <1>8. OneEnd'
    BY <1>2, <1>4 DEF OneEnd, OneLiveToken, Succeeding
  <1>9. LoadIsStored'
    BY <1>1, <1>4 DEF LoadIsStored
  <1>10. OneRefresh'
    BY <1>2, <1>4 DEF OneRefresh, Disturbed, RefreshStages
  <1>11. PresentedIsLive'
    BY <1>2, <1>4 DEF PresentedIsLive, LiveOrDisturbed, Disturbed
  <1>12. ReuseIsDisturbed'
    BY <1>2, <1>4 DEF ReuseIsDisturbed
  <1>13. StoredIsLive'
    BY <1>3 DEF StoredIsLive
  <1>14. NewFamilyIsNew'
    BY <1>2, <1>3, <1>4 DEF NewFamilyIsNew, TypeOK
  <1>15. LogoutIsQuiet'
    BY <1>3, <1>4 DEF LogoutIsQuiet
  <1> QED BY <1>5, <1>6, <1>7, <1>8, <1>9, <1>10, <1>11, <1>12, <1>13, <1>14, <1>15

LEMMA RefreshLostKeeps ==
  ASSUME SessionInv, NEW r \in Requests, RefreshLost(r)
  PROVE  SessionInv'
  <1> USE DEF SessionInv, Moves
  <1>1. r = refreshing /\ r # NoRequest /\ token[r] \in Tokens /\ count' \in [EventKinds -> Nat]
    BY EventTypes, SessionAssumption DEF RefreshLost, TokenIsThere, EventKinds
  <1>2. /\ at' \in [Requests -> Stages] /\ token' \in [Requests -> Tokens \cup {NoToken}]
        /\ \A q \in Requests :
             \/ at'[q] = at[q] /\ token'[q] = token[q]
             \/ q = r /\ at[q] \in Done /\ at'[q] = "free" /\ token'[q] = NoToken
    BY AbandonMoves DEF RefreshLost
  <1>3. /\ refreshing' = NoRequest /\ sharing' = {}
        /\ disturbed' = disturbed \cup {family[token[r]]} /\ family[token[r]] \in Nat
    BY <1>1, FamilyOfOne DEF RefreshLost, EndRefresh
  <1>4. UNCHANGED <<row, family, expired, active, stored, fresh, loading, loggingIn, loggingOut, gate, loggedOut>>
    BY DEF RefreshLost, Table
  <1>5. TypeOK' /\ IsFiniteSet(disturbed')
    BY <1>1, <1>2, <1>3, <1>4, FS_AddElement DEF TypeOK
  <1>6. WaitingIsTyped'
    BY <1>1, <1>2, <1>3, <1>4 DEF WaitingIsTyped, TypeOK
  <1>7. TokenIsThere'
    BY <1>2, <1>3, <1>4 DEF TokenIsThere, TypeOK, RefreshStages
  <1>8. OneEnd'
    BY <1>2, <1>4 DEF OneEnd, OneLiveToken, Succeeding
  <1>9. LoadIsStored'
    BY <1>4 DEF LoadIsStored
  <1>10. OneRefresh'
    BY <1>1, <1>2, <1>3, <1>4 DEF OneRefresh, Disturbed, RefreshStages
  <1>11. PresentedIsLive'
    BY <1>2, <1>3, <1>4, SessionAssumption DEF PresentedIsLive, LiveOrDisturbed, Disturbed
  <1>12. ReuseIsDisturbed'
    BY <1>2, <1>3, <1>4 DEF ReuseIsDisturbed
  <1>13. StoredIsLive'
    BY <1>1, <1>3, <1>4 DEF StoredIsLive, LiveOrDisturbed, Disturbed, StoredIsRotating
  <1>14. NewFamilyIsNew'
    BY <1>2, <1>4 DEF NewFamilyIsNew, TypeOK
  <1>15. LogoutIsQuiet'
    BY <1>3, <1>4 DEF LogoutIsQuiet
  <1> QED BY <1>5, <1>6, <1>7, <1>8, <1>9, <1>10, <1>11, <1>12, <1>13, <1>14, <1>15

LEMMA LoginLostKeeps ==
  ASSUME SessionInv, NEW r \in Requests, LoginLost(r)
  PROVE  SessionInv'
  <1> USE DEF SessionInv, Moves
  <1>1. r = loggingIn /\ r # NoRequest /\ gate' = "out" /\ loggingIn' = NoRequest /\ count' \in [EventKinds -> Nat]
    BY EventTypes, SessionAssumption DEF LoginLost, EventKinds
  <1>2. /\ at' \in [Requests -> Stages] /\ token' \in [Requests -> Tokens \cup {NoToken}]
        /\ \A q \in Requests :
             \/ at'[q] = at[q] /\ token'[q] = token[q]
             \/ q = r /\ at[q] \in Done /\ at'[q] = "free" /\ token'[q] = NoToken
    BY AbandonMoves DEF LoginLost
  <1>3. UNCHANGED <<row, family, expired, active, stored, fresh, loading, sharing, refreshing, loggingOut, loggedOut, disturbed>>
    BY DEF LoginLost, Table, History
  <1>4. TypeOK' /\ IsFiniteSet(disturbed')
    BY <1>1, <1>2, <1>3 DEF TypeOK
  <1>5. WaitingIsTyped'
    BY <1>1, <1>2, <1>3 DEF WaitingIsTyped, TypeOK
  <1>6. TokenIsThere'
    BY <1>1, <1>2, <1>3 DEF TokenIsThere, WaitingIsTyped, TypeOK, RefreshStages
  <1>7. OneEnd'
    BY <1>2, <1>3 DEF OneEnd, OneLiveToken, Succeeding
  <1>8. LoadIsStored'
    BY <1>3 DEF LoadIsStored
  <1>9. OneRefresh'
    BY <1>2, <1>3 DEF OneRefresh, Disturbed, RefreshStages
  <1>10. PresentedIsLive'
    BY <1>1, <1>2, <1>3, SessionAssumption DEF PresentedIsLive, LiveOrDisturbed, Disturbed
  <1>11. ReuseIsDisturbed'
    BY <1>2, <1>3 DEF ReuseIsDisturbed
  <1>12. StoredIsLive'
    BY <1>1, <1>2, <1>3 DEF StoredIsLive, LiveOrDisturbed, Disturbed, StoredIsRotating,
       WaitingIsTyped, TypeOK
  <1>13. NewFamilyIsNew'
    BY <1>1 DEF NewFamilyIsNew
  <1>14. LogoutIsQuiet'
    BY <1>3 DEF LogoutIsQuiet
  <1> QED BY <1>4, <1>5, <1>6, <1>7, <1>8, <1>9, <1>10, <1>11, <1>12, <1>13, <1>14

LEMMA LogoutLostKeeps ==
  ASSUME SessionInv, NEW r \in Requests, LogoutLost(r)
  PROVE  SessionInv'
  <1> USE DEF SessionInv, Moves
  <1>1. /\ r = loggingOut /\ r # NoRequest /\ count' \in [EventKinds -> Nat]
        /\ \A c \in Callers : loading[c] = NoToken
    BY EventTypes, SessionAssumption DEF LogoutLost, Cleared, LoadsReturned, EventKinds
  <1>2. /\ at' \in [Requests -> Stages] /\ token' \in [Requests -> Tokens \cup {NoToken}]
        /\ \A q \in Requests :
             \/ at'[q] = at[q] /\ token'[q] = token[q]
             \/ q = r /\ at[q] \in Done /\ at'[q] = "free" /\ token'[q] = NoToken
    BY AbandonMoves DEF LogoutLost
  <1>3. /\ stored' = NoToken /\ fresh' = FALSE /\ gate' = "out" /\ loggingOut' = NoRequest
        /\ loggedOut' = (refreshing = NoRequest)
    BY DEF LogoutLost, Cleared
  <1>4. UNCHANGED <<row, family, expired, active, loading, sharing, refreshing, loggingIn, disturbed>>
    BY DEF LogoutLost, Table
  <1>5. TypeOK' /\ IsFiniteSet(disturbed')
    BY <1>1, <1>2, <1>3, <1>4 DEF TypeOK
  <1>6. WaitingIsTyped'
    BY <1>1, <1>2, <1>3, <1>4 DEF WaitingIsTyped, TypeOK
  <1>7. TokenIsThere'
    BY <1>1, <1>2, <1>4 DEF TokenIsThere, WaitingIsTyped, TypeOK, RefreshStages
  <1>8. OneEnd'
    BY <1>2, <1>4 DEF OneEnd, OneLiveToken, Succeeding
  <1>9. LoadIsStored'
    BY <1>1, <1>4 DEF LoadIsStored
  <1>10. OneRefresh'
    BY <1>2, <1>4 DEF OneRefresh, Disturbed, RefreshStages
  <1>11. PresentedIsLive'
    BY <1>2, <1>4 DEF PresentedIsLive, LiveOrDisturbed, Disturbed
  <1>12. ReuseIsDisturbed'
    BY <1>2, <1>4 DEF ReuseIsDisturbed
  <1>13. StoredIsLive'
    BY <1>3 DEF StoredIsLive
  <1>14. NewFamilyIsNew'
    BY <1>2, <1>3, <1>4 DEF NewFamilyIsNew, TypeOK
  <1>15. LogoutIsQuiet'
    BY <1>3, <1>4 DEF LogoutIsQuiet
  <1> QED BY <1>5, <1>6, <1>7, <1>8, <1>9, <1>10, <1>11, <1>12, <1>13, <1>14, <1>15

LEMMA KillKeeps ==
  ASSUME SessionInv, Kill
  PROVE  SessionInv'
  <1> USE DEF SessionInv, Moves
  <1>1. /\ refreshing' = NoRequest /\ loggingIn' = NoRequest /\ loggingOut' = NoRequest
        /\ sharing' = {}
        /\ gate' \in {"in", "out"} /\ count' \in [EventKinds -> Nat]
    BY EventTypes DEF Kill, EndRefresh, LaunchGate, EventKinds
  <1>2. loading' \in [Callers -> Tokens \cup {NoToken}] /\ \A c \in Callers : loading'[c] = NoToken
    BY DEF Kill
  <1>3. /\ at' \in [Requests -> Stages] /\ token' \in [Requests -> Tokens \cup {NoToken}]
        /\ \A q \in Requests :
             \/ at'[q] = at[q] /\ token'[q] = token[q]
             \/ TRUE /\ at[q] \in Done /\ at'[q] = "free" /\ token'[q] = NoToken
    BY AbandonMoves DEF Kill
  <1>4. \/ refreshing = NoRequest /\ disturbed' = disturbed
        \/ /\ refreshing \in Requests /\ token[refreshing] \in Tokens /\ family[token[refreshing]] \in Nat
           /\ disturbed' = disturbed \cup {family[token[refreshing]]}
    <2>1. CASE refreshing = NoRequest
      <3>1. FamiliesOf({refreshing} \cap Requests) = {}
        BY <2>1, SessionAssumption DEF FamiliesOf
      <3> QED BY <2>1, <3>1 DEF Kill
    <2>2. CASE refreshing # NoRequest
      <3>1. refreshing \in Requests /\ token[refreshing] \in Tokens /\ {refreshing} \cap Requests = {refreshing}
        BY <2>2 DEF TypeOK, TokenIsThere
      <3> QED BY <3>1, FamilyOfOne DEF Kill
    <2> QED BY <2>1, <2>2
  <1>5. IsFiniteSet(disturbed')
    BY <1>4, FS_AddElement
  <1>6. UNCHANGED <<row, family, expired, active, stored, fresh, loggedOut>>
    BY DEF Kill, Table
  <1>7. TypeOK' /\ IsFiniteSet(disturbed')
    BY <1>1, <1>2, <1>3, <1>4, <1>5, <1>6 DEF TypeOK
  <1>8. WaitingIsTyped'
    BY <1>1 DEF WaitingIsTyped
  <1>9. TokenIsThere'
    BY <1>1, <1>3 DEF TokenIsThere, RefreshStages
  <1>10. OneEnd'
    BY <1>3, <1>6 DEF OneEnd, OneLiveToken, Succeeding
  <1>11. LoadIsStored'
    BY <1>2 DEF LoadIsStored
  <1>12. OneRefresh'
    BY <1>1, <1>3, <1>4, <1>6 DEF OneRefresh, Disturbed, RefreshStages
  <1>13. PresentedIsLive'
    BY <1>1, <1>3, <1>4, <1>6, SessionAssumption DEF PresentedIsLive, LiveOrDisturbed, Disturbed
  <1>14. ReuseIsDisturbed'
    BY <1>3, <1>4, <1>6 DEF ReuseIsDisturbed
  <1>15. StoredIsLive'
    BY <1>4, <1>6 DEF StoredIsLive, LiveOrDisturbed, Disturbed, StoredIsRotating
  <1>16. NewFamilyIsNew'
    BY <1>1 DEF NewFamilyIsNew
  <1>17. LogoutIsQuiet'
    BY <1>1, <1>6 DEF LogoutIsQuiet
  <1> QED BY <1>7, <1>8, <1>9, <1>10, <1>11, <1>12, <1>13, <1>14, <1>15, <1>16, <1>17

-----------------------------------------------------------------------------
(* The invariant, and what follows from it *)

LEMMA InitSessionInv == Init => SessionInv
  <1> SUFFICES ASSUME Init PROVE SessionInv
    OBVIOUS
  <1>1. TypeOK /\ IsFiniteSet(disturbed)
    BY FS_EmptySet DEF Init, TypeOK, Rows, Stages
  <1>2. WaitingIsTyped /\ TokenIsThere /\ LoadIsStored /\ StoredIsLive /\ NewFamilyIsNew /\ LogoutIsQuiet
    BY DEF Init, WaitingIsTyped, TokenIsThere, LoadIsStored, StoredIsLive, NewFamilyIsNew,
       LogoutIsQuiet, RefreshStages
  <1>3. OneEnd /\ OneRefresh /\ PresentedIsLive /\ ReuseIsDisturbed
    BY DEF Init, OneEnd, OneLiveToken, Succeeding, OneRefresh, PresentedIsLive, ReuseIsDisturbed,
       RefreshStages
  <1> QED BY <1>1, <1>2, <1>3 DEF SessionInv

LEMMA StepSessionInv == SessionInv /\ [Next]_vars => SessionInv'
  <1> SUFFICES ASSUME SessionInv, [Next]_vars PROVE SessionInv'
    OBVIOUS
  <1>1. ASSUME NEW r \in Requests, Handler(r) PROVE SessionInv'
    BY <1>1, LoginReadKeeps, LoginIssueKeeps, ClaimKeeps, CheckActiveKeeps, RevokeDisabledKeeps,
       InsertSuccessorKeeps, DecideKeeps, RevokeReusedKeeps, RevokeLogoutKeeps DEF Handler
  <1>2. ASSUME NEW r \in Requests, Answered(r) PROVE SessionInv'
    BY <1>2, LoggedInKeeps, LoginFailedKeeps, RefreshedKeeps, RefreshRejectedKeeps,
       RefreshFailedKeeps, LogoutEndsKeeps DEF Answered
  <1>3. ASSUME NEW r \in Requests, Lost(r) PROVE SessionInv'
    BY <1>3, RefreshLostKeeps, LoginLostKeeps, LogoutLostKeeps DEF Lost
  <1>4. ASSUME NEW r \in Requests, Crash(r) \/ Login(r) \/ Logout(r) PROVE SessionInv'
    BY <1>4, CrashKeeps, LoginKeeps, LogoutKeeps
  <1>5. ASSUME NEW c \in Callers, Load(c) \/ Join(c) PROVE SessionInv'
    BY <1>5, LoadKeeps, JoinKeeps
  <1>6. CASE Around
    BY <1>6, AroundKeeps
  <1>7. CASE Kill
    BY <1>7, KillKeeps
  <1>8. CASE UNCHANGED vars
    BY <1>8 DEF vars, Table, Handlers, Waiting, Phone, History, SessionInv, TypeOK,
       WaitingIsTyped,
       Heard, TokenIsThere, OneEnd, OneLiveToken, Succeeding, LoadIsStored, OneRefresh, Disturbed,
       PresentedIsLive, LiveOrDisturbed, ReuseIsDisturbed, StoredIsLive, StoredIsRotating,
       NewFamilyIsNew, LogoutIsQuiet
  <1> QED BY <1>1, <1>2, <1>3, <1>4, <1>5, <1>6, <1>7, <1>8 DEF Next, Around

\* Every reachable state of handlers, rows and phone satisfies the invariant: the chain of each
\* family has one end, and of an undisturbed family the phone holds it.
THEOREM SessionInvariance == Spec => []SessionInv
  <1>1. Init => SessionInv
    BY InitSessionInv
  <1>2. SessionInv /\ [Next]_vars => SessionInv'
    BY StepSessionInv
  <1> QED BY <1>1, <1>2, PTL DEF Spec

\* However rotations, logouts and lost answers interleave, a family has at most one token that
\* can still be rotated: claimForRotation is the only way on, and takes one token for one.
THEOREM FamiliesHaveOneToken == Spec => []OneLiveToken
  <1>1. SessionInv => OneLiveToken
    BY DEF SessionInv, OneEnd
  <1> QED BY <1>1, SessionInvariance, PTL

\* refreshOnce is enough: while no answer is lost, no handler dies between claim and insert and
\* nobody logs out, the phone never presents a token twice, and no session is revoked as reused.
THEOREM ReusesAreDisturbed == Spec => []ReuseIsDisturbed
  <1>1. SessionInv => ReuseIsDisturbed
    BY DEF SessionInv
  <1> QED BY <1>1, SessionInvariance, PTL

\* "storage always cleared": after a logout that met no refresh nothing is stored until the next
\* login, whatever loads, answers and restarts come in between.
THEOREM LogoutsLast == Spec => []LoggedOutStaysOut
  <1>1. SessionInv => LoggedOutStaysOut
    BY DEF SessionInv, LogoutIsQuiet, LoggedOutStaysOut
  <1> QED BY <1>1, SessionInvariance, PTL
-----------------------------------------------------------------------------
(***************************************************************************)
(* The dispatcher's session in the browser, for any number of tabs and     *)
(* requests.  Of a calm session, one that is not over and of which no      *)
(* token was sent twice or lost, the newest refresh token is in one place: *)
(* in the cookie, in one request that presents it, or in one answer.       *)
(***************************************************************************)
\* The bound on tokens is a sum over all sessions, which no step of a proof
\* adds up: the numbers of tokens are naturals here.
WebTokens == Sessions \X (Nat \ {0})
Effect == [does : {"keep", "forget", "end", "store"}, token : WebTokens \cup {None}]
Kinds == {"none", "page", "refresh", "callback", "call", "action"}
Ways == Pages \cup {"none", "refresh", "login"}
WebRequest ==
  [stage : {"free", "sent", "answered"}, tab : Tabs \cup {None}, kind : Kinds, page : Ways,
   token : WebTokens \cup {None}, cookies : Effect, go : Ways]

WebTypes ==
  /\ access \in {"none", "valid", "expired"}
  /\ held \in WebTokens \cup {None}
  /\ req \in [Slots -> WebRequest]
  /\ issued \in [Sessions -> Nat]

\* What the stage and the kind of a request say about its token and its answer.
WellFormed(q) ==
  /\ q.stage = "free" => q.token = None
  /\ q.stage # "answered" => q.cookies = Keep
  /\ q.token # None => q.kind \in {"refresh", "call"}
  /\ q.cookies.does = "store" =>
       q.cookies.token # None /\ (q.token # None => q.cookies.token[1] = q.token[1])

Calm(s) == s \in Sessions /\ s \notin ended \cup troubled
LastOf(s) == <<s, issued[s]>>
InJar(s) == held # None /\ held[1] = s
Carries(q, s) == q.token # None /\ q.token[1] = s
Brings(q, s) == q.token = None /\ q.cookies.does = "store" /\ q.cookies.token[1] = s

\* A request with a token of s is the only one; it presents the newest, which is
\* the one in the jar, or its answer brings the newest.
CarriedOnce(s) ==
  \A r \in Slots : Carries(req[r], s) =>
    /\ \/ req[r].stage = "sent" /\ req[r].token = LastOf(s)
       \/ req[r].stage = "answered" /\ req[r].cookies = Store(LastOf(s))
    /\ InJar(s) => req[r].token = held
    /\ \A o \in Slots : Carries(req[o], s) => o = r

\* The answer of a login brings the first token of s before anything else has one.
BroughtOnce(s) ==
  \A r \in Slots : Brings(req[r], s) =>
    /\ req[r].cookies.token = LastOf(s) /\ ~InJar(s)
    /\ \A o \in Slots : ~Carries(req[o], s) /\ (Brings(req[o], s) => o = r)

JarIsFresh(s) == InJar(s) => held = LastOf(s) \/ \E r \in Slots : Carries(req[r], s)

Chain(s) == CarriedOnce(s) /\ BroughtOnce(s) /\ JarIsFresh(s)

WebInv ==
  /\ WebTypes
  /\ \A r \in Slots : WellFormed(req[r])
  /\ \A s \in Sessions : Calm(s) => Chain(s)

\* What the models of a request are, field by field.
LEMMA RequestFields ==
  ASSUME NEW t, NEW kind, NEW page, NEW tok, NEW cookies, NEW go
  PROVE  /\ Asks(t, kind, page, tok) =
              [stage |-> "sent", tab |-> t, kind |-> kind, page |-> page, token |-> tok,
               cookies |-> Keep, go |-> "none"]
         /\ Gets(t, kind, page, cookies, go) =
              [stage |-> "answered", tab |-> t, kind |-> kind, page |-> page, token |-> None,
               cookies |-> cookies, go |-> go]
  <1> DEFINE a1 == [Free EXCEPT !.stage = "sent"]
             a2 == [a1 EXCEPT !.tab = t]
             a3 == [a2 EXCEPT !.kind = kind]
             a4 == [a3 EXCEPT !.page = page]
             a5 == [a4 EXCEPT !.token = tok]
             g1 == [Free EXCEPT !.stage = "answered"]
             g2 == [g1 EXCEPT !.tab = t]
             g3 == [g2 EXCEPT !.kind = kind]
             g4 == [g3 EXCEPT !.page = page]
             g5 == [g4 EXCEPT !.cookies = cookies]
             g6 == [g5 EXCEPT !.go = go]
  <1>1. Asks(t, kind, page, tok) = a5 /\ Gets(t, kind, page, cookies, go) = g6
    BY DEF Asks, Gets
  <1>a1. a1 = [Free EXCEPT !.stage = "sent"]
    OBVIOUS
  <1>a2. a2 = [a1 EXCEPT !.tab = t]
    OBVIOUS
  <1>a3. a3 = [a2 EXCEPT !.kind = kind]
    OBVIOUS
  <1>a4. a4 = [a3 EXCEPT !.page = page]
    OBVIOUS
  <1>a5. a5 = [a4 EXCEPT !.token = tok]
    OBVIOUS
  <1>g1. g1 = [Free EXCEPT !.stage = "answered"]
    OBVIOUS
  <1>g2. g2 = [g1 EXCEPT !.tab = t]
    OBVIOUS
  <1>g3. g3 = [g2 EXCEPT !.kind = kind]
    OBVIOUS
  <1>g4. g4 = [g3 EXCEPT !.page = page]
    OBVIOUS
  <1>g5. g5 = [g4 EXCEPT !.cookies = cookies]
    OBVIOUS
  <1>g6. g6 = [g5 EXCEPT !.go = go]
    OBVIOUS
  <1> HIDE DEF a1, a2, a3, a4, a5, g1, g2, g3, g4, g5, g6
  <1> DEFINE R(st, ta, ki, pa, tk, co, g) ==
        [stage |-> st, tab |-> ta, kind |-> ki, page |-> pa, token |-> tk, cookies |-> co, go |-> g]
  <1>4. Free = R("free", None, "none", "none", None, Keep, "none")
    BY DEF Free
  <1>5. a1 = R("sent", None, "none", "none", None, Keep, "none")
    BY <1>a1, <1>4
  <1>6. a2 = R("sent", t, "none", "none", None, Keep, "none")
    BY <1>a2, <1>5
  <1>7. a3 = R("sent", t, kind, "none", None, Keep, "none")
    BY <1>a3, <1>6
  <1>8. a4 = R("sent", t, kind, page, None, Keep, "none")
    BY <1>a4, <1>7
  <1>9. a5 = R("sent", t, kind, page, tok, Keep, "none")
    BY <1>a5, <1>8
  <1>10. g1 = R("answered", None, "none", "none", None, Keep, "none")
    BY <1>g1, <1>4
  <1>11. g2 = R("answered", t, "none", "none", None, Keep, "none")
    BY <1>g2, <1>10
  <1>12. g3 = R("answered", t, kind, "none", None, Keep, "none")
    BY <1>g3, <1>11
  <1>13. g4 = R("answered", t, kind, page, None, Keep, "none")
    BY <1>g4, <1>12
  <1>14. g5 = R("answered", t, kind, page, None, cookies, "none")
    BY <1>g5, <1>13
  <1>15. g6 = R("answered", t, kind, page, None, cookies, go)
    BY <1>g6, <1>14
  <1> QED BY <1>1, <1>9, <1>15

LEMMA FreeRequest == Keep \in Effect /\ Free \in WebRequest /\ WellFormed(Free)
  <1>1. Keep \in Effect /\ Keep.does = "keep"
    BY DEF Effect, Keep
  <1>2. Free \in WebRequest
    BY <1>1 DEF WebRequest, Free, Kinds, Ways
  <1>3. WellFormed(Free)
    BY <1>1 DEF WellFormed, Free
  <1> QED BY <1>1, <1>2, <1>3

LEMMA PresentsAToken ==
  ASSUME NEW q, WellFormed(q) PROVE Presents(q) <=> q.token # None
  BY DEF WellFormed, Presents

\* A token is never None, and its first part is its session.
LEMMA TokensAreNotNone ==
  ASSUME NEW tok \in WebTokens
  PROVE  tok # None /\ tok = <<tok[1], tok[2]>> /\ tok[1] \in Sessions
  BY DispatcherAssumption DEF WebTokens, Sessions

-----------------------------------------------------------------------------
\* What a slot holds after a send.
LEMMA SendShape ==
  ASSUME WebInv, NEW r \in Slots, NEW q \in WebRequest, WellFormed(q), NEW replaces, SendRequest(r, q, replaces)
  PROVE  \E given \in SUBSET (Slots \ {r}) :
           /\ req' \in [Slots -> WebRequest] /\ req'[r] = q
           /\ \A o \in Slots \ ({r} \cup given) : req'[o] = req[o]
           /\ \A o \in given : IF req[o].stage = "sent" /\ req[o].token # None
                                 THEN /\ req'[o].stage = "sent" /\ req'[o].token = req[o].token
                                      /\ req'[o].kind = req[o].kind /\ req'[o].cookies = Keep
                                 ELSE req'[o] = Free
           /\ troubled' = troubled \cup Contended(q, r) \cup LostBy(given)
  <1> DEFINE given == replaces \cap (Slots \ {r})
  <1>1. given \in SUBSET (Slots \ {r})
    OBVIOUS
  <1>a. /\ req' = [o \in Slots |-> IF o = r THEN q
                                   ELSE IF o \in given THEN GivenUp(given)[o] ELSE req[o]]
        /\ troubled' = troubled \cup Contended(q, r) \cup LostBy(given)
    BY DEF SendRequest
  <1> HIDE DEF given
  <1>b. req \in [Slots -> WebRequest] /\ \A o \in Slots : WellFormed(req[o])
    BY DEF WebInv, WebTypes
  <1>2. \A o \in given : GivenUp(given)[o] =
          IF req[o].stage = "sent" /\ req[o].token # None
            THEN Asks(None, req[o].kind, "none", req[o].token) ELSE Free
    BY <1>1, <1>b, PresentsAToken DEF GivenUp
  <1>3. ASSUME NEW o \in given
        PROVE  /\ req'[o] \in WebRequest
               /\ IF req[o].stage = "sent" /\ req[o].token # None
                    THEN /\ req'[o].stage = "sent" /\ req'[o].token = req[o].token
                         /\ req'[o].kind = req[o].kind /\ req'[o].cookies = Keep
                    ELSE req'[o] = Free
    <2>1. req'[o] = GivenUp(given)[o]
      BY <1>1, <1>a
    <2>2. CASE req[o].stage = "sent" /\ req[o].token # None
      <3>1. req'[o] = [stage |-> "sent", tab |-> None, kind |-> req[o].kind, page |-> "none",
                       token |-> req[o].token, cookies |-> Keep, go |-> "none"]
        BY <1>2, <2>1, <2>2, RequestFields
      <3>2. req[o].kind \in Kinds /\ req[o].token \in WebTokens \cup {None}
        BY <1>1, <1>b DEF WebRequest
      <3> QED BY <2>2, <3>1, <3>2, FreeRequest DEF WebRequest, Ways
    <2>3. CASE ~(req[o].stage = "sent" /\ req[o].token # None)
      BY <1>2, <2>1, <2>3, FreeRequest
    <2> QED BY <2>2, <2>3
  <1>4. req'[r] = q /\ \A o \in Slots \ ({r} \cup given) : req'[o] = req[o]
    BY <1>a
  <1>5. req' \in [Slots -> WebRequest]
    <2>1. \A o \in Slots : req'[o] \in WebRequest
      BY <1>3, <1>4, <1>b
    <2>2. DOMAIN req' = Slots /\ req' = [o \in Slots |-> req'[o]]
      BY <1>a
    <2> QED BY <2>1, <2>2
  <1> QED BY <1>1, <1>3, <1>4, <1>5, <1>a

\* A request whose slot is sent from, and whose answer the cookies have taken in,
\* passes the newest token of its session to the jar.
LEMMA TakenIn ==
  ASSUME WebInv, NEW r \in Slots, req[r].stage # "sent",
         held' = HeldAfter(req[r].cookies), NEW s \in Sessions, Calm(s)
  PROVE  \/ /\ held' = LastOf(s) /\ InJar(s)'
            /\ \A o \in Slots \ {r} : ~Carries(req[o], s) /\ ~Brings(req[o], s)
         \/ ~Carries(req[r], s) /\ ~Brings(req[r], s) /\ (held' = held \/ ~InJar(s)')
  <1>a. /\ WellFormed(req[r]) /\ req[r] \in WebRequest /\ Chain(s)
        /\ held \in WebTokens \cup {None}
    BY DEF WebInv, WebTypes
  <1>b. req[r].cookies.does \in {"keep", "forget", "end", "store"}
    BY <1>a DEF WebRequest, Effect
  <1>1. CASE Carries(req[r], s)
    <2>1. req[r].cookies = Store(LastOf(s))
      BY <1>1, <1>a DEF Chain, CarriedOnce, Carries, WellFormed, WebRequest
    <2>2. held' = LastOf(s)
      BY <2>1 DEF HeldAfter, Store
    <2>3. LastOf(s) # None /\ LastOf(s)[1] = s
      <3>1. LastOf(s) \in Nat \X Nat
        BY DEF LastOf, Sessions, WebInv, WebTypes
      <3> QED BY <3>1, DispatcherAssumption DEF LastOf
    <2>4. \A o \in Slots \ {r} : ~Carries(req[o], s) /\ ~Brings(req[o], s)
      BY <1>1, <1>a DEF Chain, CarriedOnce, BroughtOnce
    <2> QED BY <2>2, <2>3, <2>4 DEF InJar
  <1>2. CASE Brings(req[r], s)
    <2>1. req[r].cookies.token = LastOf(s)
      BY <1>2, <1>a DEF Chain, BroughtOnce
    <2>2. held' = LastOf(s)
      BY <1>2, <2>1 DEF Brings, HeldAfter
    <2>3. LastOf(s) # None /\ LastOf(s)[1] = s
      BY <1>2, <1>a, <2>1 DEF Brings, WellFormed
    <2>4. \A o \in Slots \ {r} : ~Carries(req[o], s) /\ ~Brings(req[o], s)
      BY <1>2, <1>a DEF Chain, BroughtOnce
    <2> QED BY <2>2, <2>3, <2>4 DEF InJar
  <1>3. CASE ~Carries(req[r], s) /\ ~Brings(req[r], s)
    <2>1. CASE req[r].cookies.does \in {"keep", "end"}
      BY <1>3, <2>1 DEF HeldAfter
    <2>2. CASE req[r].cookies.does = "forget"
      BY <1>3, <2>2 DEF HeldAfter, InJar
    <2>3. CASE req[r].cookies.does = "store"
      <3>1. held' = req[r].cookies.token
        BY <2>3 DEF HeldAfter
      <3>2. req[r].cookies.token[1] # s
        BY <1>3, <1>a, <2>3 DEF Carries, Brings, WellFormed
      <3> QED BY <1>3, <3>1, <3>2 DEF InJar
    <2> QED BY <1>b, <2>1, <2>2, <2>3
  <1> QED BY <1>1, <1>2, <1>3

\* A request is sent in place of one that the cookies have taken in: it carries
\* the token in the jar or none, and what is given up meanwhile is not of a calm
\* session, unless it still will be served.
LEMMA SendKeeps ==
  ASSUME WebInv,
         NEW r \in Slots, NEW q \in WebRequest, NEW replaces, SendRequest(r, q, replaces),
         req[r].stage # "sent", held' = HeldAfter(req[r].cookies),
         access' \in {"none", "valid", "expired"}, UNCHANGED <<issued, ended>>,
         WellFormed(q), q.cookies.does # "store", q.token # None => q.stage = "sent" /\ q.token = held'
  PROVE  WebInv'
  <1>1. PICK given \in SUBSET (Slots \ {r}) :
           /\ req' \in [Slots -> WebRequest] /\ req'[r] = q
           /\ \A o \in Slots \ ({r} \cup given) : req'[o] = req[o]
           /\ \A o \in given : IF req[o].stage = "sent" /\ req[o].token # None
                                 THEN /\ req'[o].stage = "sent" /\ req'[o].token = req[o].token
                                      /\ req'[o].kind = req[o].kind /\ req'[o].cookies = Keep
                                 ELSE req'[o] = Free
           /\ troubled' = troubled \cup Contended(q, r) \cup LostBy(given)
    BY SendShape
  <1>a. /\ req \in [Slots -> WebRequest] /\ held \in WebTokens \cup {None}
        /\ issued \in [Sessions -> Nat] /\ \A o \in Slots : WellFormed(req[o])
    BY DEF WebInv, WebTypes
  <1>b. Keep.does = "keep" /\ Free.token = None /\ Free.cookies = Keep
    BY DEF Keep, Free
  <1>2. held' \in WebTokens \cup {None}
    <2>1. req[r].cookies \in Effect
      BY <1>a DEF WebRequest
    <2> QED BY <1>a, <2>1 DEF HeldAfter, Effect
  <1>3. WebTypes'
    BY <1>1, <1>2, <1>a DEF WebTypes
  <1>4. ASSUME NEW o \in Slots PROVE WellFormed(req'[o])
    <2>1. CASE o \in given /\ req[o].stage = "sent" /\ req[o].token # None
      BY <1>1, <1>a, <1>b, <2>1 DEF WellFormed
    <2>2. CASE o \in given /\ ~(req[o].stage = "sent" /\ req[o].token # None)
      <3>1. req'[o] = Free
        BY <1>1, <2>2
      <3> QED BY <3>1, FreeRequest
    <2>3. CASE o \notin given
      BY <1>1, <1>a, <2>3
    <2> QED BY <2>1, <2>2, <2>3
  <1>5. ASSUME NEW s \in Sessions, Calm(s)' PROVE Chain(s)'
    <2>1. Calm(s) /\ Chain(s)
      BY <1>1, <1>5 DEF Calm, WebInv
    <2>2. LastOf(s)' = LastOf(s)
      BY DEF LastOf
    <2>3. ASSUME NEW o \in given, Carries(req[o], s) PROVE req[o].stage = "sent"
      <3>1. CASE req[o].stage = "answered" /\ req[o].cookies = Store(LastOf(s))
        <4>1. req[o].cookies.does = "store" /\ Presents(req[o])
          BY <1>1, <1>a, <2>3, <3>1, PresentsAToken DEF Store, Carries
        <4>2. s \in LostBy(given)
          BY <1>1, <2>3, <4>1 DEF LostBy, SessionOf, Carries
        <4> QED BY <1>1, <1>5, <4>2 DEF Calm
      <3> QED BY <1>1, <2>1, <2>3, <3>1 DEF Chain, CarriedOnce
    <2>4. ASSUME NEW o \in Slots \ {r}
          PROVE  /\ Carries(req'[o], s) <=> Carries(req[o], s)
                 /\ Carries(req[o], s) => /\ req'[o].stage = req[o].stage /\ req'[o].token = req[o].token
                                          /\ req[o].stage = "sent" \/ req'[o].cookies = req[o].cookies
                 /\ Brings(req'[o], s) => req'[o] = req[o]
      <3>1. CASE o \in given /\ req[o].stage = "sent" /\ req[o].token # None
        BY <1>1, <1>b, <3>1 DEF Carries, Brings
      <3>2. CASE o \in given /\ ~(req[o].stage = "sent" /\ req[o].token # None)
        BY <1>1, <1>b, <2>3, <3>2 DEF Carries, Brings
      <3>3. CASE o \notin given
        BY <1>1, <3>3
      <3> QED BY <3>1, <3>2, <3>3
    <2>5. ASSUME Carries(q, s) PROVE \A o \in Slots \ {r} : Carries(req[o], s) => req[o].token # q.token
      <3> SUFFICES ASSUME NEW o \in Slots \ {r}, Carries(req[o], s), req[o].token = q.token PROVE FALSE
        OBVIOUS
      <3>1. Presents(q) /\ Presents(req[o])
        BY <1>a, <2>5, PresentsAToken DEF Carries
      <3>2. s \in Contended(q, r)
        BY <2>5, <3>1 DEF Contended, SessionOf, Carries
      <3> QED BY <1>1, <1>5, <3>2 DEF Calm
    <2>6. ~Brings(q, s) /\ (Carries(q, s) => InJar(s)' /\ q.token = held' /\ q.stage = "sent")
      BY DEF Brings, Carries, InJar
    <2>7. CASE /\ held' = LastOf(s) /\ InJar(s)'
               /\ \A o \in Slots \ {r} : ~Carries(req[o], s) /\ ~Brings(req[o], s)
      <3>1. \A o \in Slots \ {r} : ~Carries(req'[o], s) /\ ~Brings(req'[o], s)
        BY <2>4, <2>7
      <3> QED BY <1>1, <2>2, <2>6, <2>7, <3>1 DEF Chain, CarriedOnce, BroughtOnce, JarIsFresh
    <2>8. CASE ~Carries(req[r], s) /\ ~Brings(req[r], s) /\ ~InJar(s)'
      <3>1. ~Carries(q, s) /\ ~Brings(q, s)
        BY <2>6, <2>8
      <3>2. CarriedOnce(s)'
        BY <1>1, <2>1, <2>2, <2>4, <2>8, <3>1 DEF Chain, CarriedOnce
      <3>3. BroughtOnce(s)'
        BY <1>1, <2>1, <2>2, <2>4, <2>8, <3>1 DEF Chain, BroughtOnce
      <3> QED BY <2>8, <3>2, <3>3 DEF Chain, JarIsFresh
    <2>9. CASE ~Carries(req[r], s) /\ ~Brings(req[r], s) /\ held' = held
      <3>1. InJar(s)' <=> InJar(s)
        BY <2>9 DEF InJar
      <3>2. CASE Carries(q, s)
        <4>1. \A o \in Slots \ {r} : ~Carries(req'[o], s) /\ ~Brings(req'[o], s)
          BY <2>1, <2>4, <2>5, <2>6, <2>9, <3>1, <3>2 DEF Chain, CarriedOnce, BroughtOnce
        <4>2. held' = LastOf(s)
          BY <2>1, <2>4, <2>6, <2>9, <3>1, <3>2, <4>1 DEF Chain, JarIsFresh
        <4> QED BY <1>1, <2>2, <2>6, <4>1, <4>2 DEF Chain, CarriedOnce, BroughtOnce, JarIsFresh
      <3>3. CASE ~Carries(q, s)
        <4>1. CarriedOnce(s)'
          BY <1>1, <2>1, <2>2, <2>4, <2>6, <2>9, <3>1, <3>3 DEF Chain, CarriedOnce
        <4>2. BroughtOnce(s)'
          BY <1>1, <2>1, <2>2, <2>4, <2>6, <2>9, <3>1, <3>3 DEF Chain, BroughtOnce
        <4>3. JarIsFresh(s)'
          BY <1>1, <2>1, <2>2, <2>4, <2>9, <3>1 DEF Chain, JarIsFresh
        <4> QED BY <4>1, <4>2, <4>3 DEF Chain
      <3> QED BY <3>2, <3>3
    <2> QED BY <2>1, <2>7, <2>8, <2>9, TakenIn
  <1> QED BY <1>3, <1>4, <1>5 DEF WebInv

\* What an answer leaves in its slot: nothing if nobody hears it.
LEMMA AnswerShape ==
  ASSUME WebInv, NEW r \in Slots, NEW c \in Effect, NEW go \in Ways, Answer(r, c, go)
  PROVE  /\ req' \in [Slots -> WebRequest]
         /\ \A o \in Slots \ {r} : req'[o] = req[o]
         /\ IF req[r].tab = None THEN req'[r] = Free
            ELSE /\ req'[r].stage = "answered" /\ req'[r].kind = req[r].kind
                 /\ req'[r].token = req[r].token /\ req'[r].cookies = c
  <1>a. req \in [Slots -> WebRequest] /\ req[r] \in WebRequest
    BY DEF WebInv, WebTypes
  <1>1. CASE req[r].tab = None
    <2>1. req' = [req EXCEPT ![r] = Free]
      BY <1>1 DEF Answer
    <2> QED BY <1>1, <1>a, <2>1, FreeRequest
  <1>2. CASE req[r].tab # None
    <2> DEFINE w1 == [req[r] EXCEPT !.stage = "answered"]
               w2 == [w1 EXCEPT !.cookies = c]
               w3 == [w2 EXCEPT !.go = go]
    <2>1. req' = [req EXCEPT ![r] = w3]
      BY <1>2 DEF Answer
    <2>2. w1 \in WebRequest /\ w1.stage = "answered" /\ w1.kind = req[r].kind /\ w1.token = req[r].token
      BY <1>a DEF WebRequest
    <2>w. w2 = [w1 EXCEPT !.cookies = c]
      OBVIOUS
    <2>x. w3 = [w2 EXCEPT !.go = go]
      OBVIOUS
    <2> HIDE DEF w1, w2, w3
    <2>3. /\ w2 \in WebRequest /\ w2.stage = "answered" /\ w2.kind = req[r].kind
          /\ w2.token = req[r].token /\ w2.cookies = c
      BY <2>2, <2>w DEF WebRequest
    <2>4. /\ w3 \in WebRequest /\ w3.stage = "answered" /\ w3.kind = req[r].kind
          /\ w3.token = req[r].token /\ w3.cookies = c
      BY <2>3, <2>x DEF WebRequest
    <2> QED BY <1>2, <1>a, <2>1, <2>4
  <1> QED BY <1>1, <1>2

\* An answer that brings no token, to a request that carries none of a calm session.
LEMMA QuietAnswer ==
  ASSUME WebInv, NEW r \in Slots, req[r].stage = "sent",
         NEW c \in Effect, NEW go \in Ways, Answer(r, c, go),
         c.does # "store" \/ req[r].tab = None, UNCHANGED <<access, held>>,
         ended \subseteq ended', troubled \subseteq troubled', issued' \in [Sessions -> Nat],
         \A s \in Sessions : Calm(s)' => issued'[s] = issued[s] /\ ~Carries(req[r], s)
  PROVE  WebInv'
  <1>1. /\ req' \in [Slots -> WebRequest]
        /\ \A o \in Slots \ {r} : req'[o] = req[o]
        /\ IF req[r].tab = None THEN req'[r] = Free
           ELSE /\ req'[r].stage = "answered" /\ req'[r].kind = req[r].kind
                /\ req'[r].token = req[r].token /\ req'[r].cookies = c
    BY AnswerShape
  <1>a. WebTypes /\ \A o \in Slots : WellFormed(req[o])
    BY DEF WebInv
  <1>2. WebTypes'
    BY <1>1, <1>a DEF WebTypes
  <1>3. WellFormed(req'[r])
    <2>1. CASE req[r].tab = None
      BY <1>1, <2>1, FreeRequest
    <2>2. CASE req[r].tab # None
      BY <1>1, <1>a, <2>2 DEF WellFormed
    <2> QED BY <2>1, <2>2
  <1>b. Free.token = None /\ Free.cookies.does = "keep"
    BY DEF Free, Keep
  <1>4. ASSUME NEW s \in Sessions, Calm(s)' PROVE Chain(s)'
    <2>1. Calm(s) /\ Chain(s) /\ LastOf(s)' = LastOf(s) /\ ~Carries(req[r], s)
      BY <1>4 DEF Calm, WebInv, LastOf
    <2>2. ~Carries(req'[r], s) /\ ~Brings(req'[r], s)
      BY <1>1, <1>b, <2>1 DEF Carries, Brings
    <2>3. InJar(s)' <=> InJar(s)
      BY DEF InJar
    <2>4. CarriedOnce(s)'
      BY <1>1, <2>1, <2>2, <2>3 DEF Chain, CarriedOnce
    <2>5. BroughtOnce(s)'
      BY <1>1, <2>1, <2>2, <2>3 DEF Chain, BroughtOnce
    <2>6. JarIsFresh(s)'
      BY <1>1, <2>1, <2>2, <2>3 DEF Chain, JarIsFresh
    <2> QED BY <2>4, <2>5, <2>6 DEF Chain
  <1> QED BY <1>1, <1>2, <1>3, <1>4, <1>a DEF WebInv

\* Issuing counts one more token of a session.
LEMMA IssueShape ==
  ASSUME WebInv, NEW s \in Sessions, Issue(s)
  PROVE  /\ issued' \in [Sessions -> Nat] /\ issued'[s] = issued[s] + 1
         /\ \A u \in Sessions \ {s} : issued'[u] = issued[u]
         /\ Newest(s) = LastOf(s)' /\ Newest(s) \in WebTokens
         /\ Store(Newest(s)) \in Effect
         /\ Store(Newest(s)).does = "store"
         /\ Store(Newest(s)).token = Newest(s)
  <1>1. issued' = [issued EXCEPT ![s] = @ + 1]
    BY Zenon DEF Issue
  <1>2. issued \in [Sessions -> Nat]
    BY DEF WebInv, WebTypes
  <1>3. issued' \in [Sessions -> Nat] /\ issued'[s] = issued[s] + 1
    BY <1>1, <1>2
  <1>4. Newest(s) = LastOf(s)' /\ Newest(s) \in WebTokens
    BY <1>2, <1>3 DEF Newest, LastOf, WebTokens
  <1> QED BY <1>1, <1>2, <1>3, <1>4 DEF Store, Effect

\* A refresh that is honoured and heard brings the next token in the answer of its request.
LEMMA RenewalKeeps ==
  ASSUME WebInv, NEW r \in Slots, req[r].stage = "sent",
         Renewed(r, TRUE), UNCHANGED <<access, held>>
  PROVE  WebInv'
  <1>a. /\ WebTypes /\ \A o \in Slots : WellFormed(req[o])
        /\ req[r] \in WebRequest /\ req[r].token # None
    BY DEF WebInv, WebTypes, Renewed, Honoured
  <1>1. PICK u \in Sessions : u = req[r].token[1]
    BY <1>a, TokensAreNotNone DEF WebRequest
  <1> DEFINE c == Store(Newest(u))
  <1>2. Issue(u) /\ Answer(r, c, req[r].page) /\ ended' = ended
        /\ troubled' = IF req[r].tab = None THEN troubled \cup {u} ELSE troubled
    BY <1>1 DEF Renewed, SessionOf
  <1>3. /\ issued' \in [Sessions -> Nat] /\ issued'[u] = issued[u] + 1
        /\ \A s \in Sessions \ {u} : issued'[s] = issued[s]
        /\ c \in Effect /\ c.does = "store" /\ c.token = LastOf(u)' /\ c.token \in WebTokens
    BY <1>1, <1>2, IssueShape
  <1>8. c = Store(LastOf(u))'
    <2>1. Newest(u) = LastOf(u)'
      BY <1>1, <1>2, IssueShape
    <2> QED BY <2>1 DEF Store
  <1> HIDE DEF c
  <1>4. req[r].page \in Ways
    BY <1>a DEF WebRequest
  <1>5. \A s \in Sessions : Carries(req[r], s) <=> s = u
    BY <1>1, <1>a DEF Carries
  <1>6. CASE req[r].tab = None
    <2>1. \A s \in Sessions : Calm(s)' => issued'[s] = issued[s] /\ ~Carries(req[r], s)
      BY <1>2, <1>3, <1>5, <1>6 DEF Calm
    <2> QED BY <1>2, <1>3, <1>4, <1>6, <2>1, QuietAnswer
  <1>7. CASE req[r].tab # None
    <2>1. /\ req' \in [Slots -> WebRequest] /\ \A o \in Slots \ {r} : req'[o] = req[o]
          /\ req'[r].stage = "answered" /\ req'[r].kind = req[r].kind
          /\ req'[r].token = req[r].token /\ req'[r].cookies = c
      BY <1>2, <1>3, <1>4, <1>7, AnswerShape
    <2>2. WebTypes'
      BY <1>3, <1>a, <2>1 DEF WebTypes
    <2>3. WellFormed(req'[r])
      <3>1. c.token # None
        BY <1>3, TokensAreNotNone
      <3>2. c.token[1] = u
        BY <1>3 DEF LastOf
      <3> QED BY <1>1, <1>3, <1>a, <2>1, <3>1, <3>2 DEF WellFormed
    <2>4. ASSUME NEW s \in Sessions, Calm(s)' PROVE Chain(s)'
      <3>1. Calm(s) /\ Chain(s)
        BY <1>2, <1>7, <2>4 DEF Calm, WebInv
      <3>2. \A o \in Slots : Carries(req'[o], s) <=> Carries(req[o], s)
        BY <2>1 DEF Carries
      <3>3. \A o \in Slots : Brings(req'[o], s) => o # r /\ Brings(req[o], s)
        BY <1>a, <2>1 DEF Brings
      <3>4. InJar(s)' <=> InJar(s)
        BY DEF InJar
      <3>5. CASE s = u
        <4>1. Carries(req[r], s) /\ \A o \in Slots : Carries(req[o], s) => o = r
          BY <1>5, <3>1, <3>5 DEF Chain, CarriedOnce
        <4>2. \A o \in Slots : ~Brings(req[o], s)
          BY <3>1, <4>1 DEF Chain, BroughtOnce
        <4>3. CarriedOnce(s)'
          BY <1>8, <2>1, <3>1, <3>2, <3>4, <3>5, <4>1 DEF Chain, CarriedOnce
        <4>4. BroughtOnce(s)' /\ JarIsFresh(s)'
          BY <3>2, <3>3, <4>1, <4>2 DEF BroughtOnce, JarIsFresh
        <4> QED BY <4>3, <4>4 DEF Chain
      <3>6. CASE s # u
        <4>1. LastOf(s)' = LastOf(s) /\ ~Carries(req[r], s)
          BY <1>3, <1>5, <3>6 DEF LastOf
        <4>2. CarriedOnce(s)'
          BY <2>1, <3>1, <3>2, <3>4, <4>1 DEF Chain, CarriedOnce
        <4>3. BroughtOnce(s)'
          BY <2>1, <3>1, <3>2, <3>3, <3>4, <4>1 DEF Chain, BroughtOnce
        <4>4. JarIsFresh(s)'
          BY <3>1, <3>2, <3>4, <4>1 DEF Chain, JarIsFresh
        <4> QED BY <4>2, <4>3, <4>4 DEF Chain
      <3> QED BY <3>5, <3>6
    <2> QED BY <1>a, <2>1, <2>2, <2>3, <2>4 DEF WebInv
  <1> QED BY <1>6, <1>7

\* Only a token that is over, or not the newest, is refused; of a calm session it is neither.
LEMMA CalmIsHonoured ==
  ASSUME WebInv, NEW r \in Slots, req[r].stage = "sent", NEW s \in Sessions, Calm(s),
         Carries(req[r], s)
  PROVE  Honoured(req[r].token)
  <1>1. req[r].token = LastOf(s)
    BY DEF WebInv, Chain, CarriedOnce
  <1> QED BY <1>1 DEF Honoured, SessionOf, Carries, Calm, LastOf

LEMMA FailureEffects ==
  ASSUME NEW q
  PROVE  /\ Fails(q).cookies \in Effect /\ Fails(q).cookies.does # "store"
         /\ Fails(q).go \in Ways
  <1>1. /\ Forget \in Effect /\ Forget.does = "forget"
        /\ Keep \in Effect /\ Keep.does = "keep"
    BY DEF Effect, Forget, Keep
  <1>2. CASE q.kind = "refresh"
    BY <1>1, <1>2 DEF Fails, Ways
  <1>3. CASE q.kind # "refresh"
    BY <1>1, <1>3 DEF Fails, Ways
  <1> QED BY <1>2, <1>3

\* The answers to a refresh: a token, a refusal, or none that anybody hears.
LEMMA ServeRefreshKeeps ==
  ASSUME WebInv, NEW r \in Slots, ServeRefresh(r)
  PROVE  WebInv'
  <1>a. /\ req[r].stage = "sent" /\ UNCHANGED <<access, held>>
        /\ req[r].kind \in {"refresh", "call"}
        /\ req[r] \in WebRequest /\ issued \in [Sessions -> Nat]
    BY DEF ServeRefresh, jar, WebInv, WebTypes
  <1>b. /\ Fails(req[r]).cookies \in Effect /\ Fails(req[r]).cookies.does # "store"
        /\ Fails(req[r]).go \in Ways /\ req[r].page \in Ways
        /\ Keep \in Effect /\ Keep.does # "store"
    BY <1>a, FailureEffects, FreeRequest DEF WebRequest, Keep
  <1> DEFINE u == req[r].token[1]
  <1>c. ASSUME Honoured(req[r].token) PROVE u \in Sessions
    BY <1>a, <1>c, TokensAreNotNone DEF WebRequest, Honoured
  <1>d. \A s \in Sessions : Carries(req[r], s) => s = u
    BY DEF Carries
  <1>1. CASE Renewed(r, RidesOn(req[r].kind))
    <2>1. RidesOn(req[r].kind) = TRUE
      BY <1>a DEF RidesOn
    <2> QED BY <1>1, <1>a, <2>1, RenewalKeeps
  <1>2. CASE ApiFails(r)
    <2>1. /\ Issue(u) /\ Answer(r, Keep, req[r].page) /\ u \in Sessions
          /\ ended' = ended /\ troubled' = troubled \cup {u}
      BY <1>2, <1>c DEF ApiFails, SessionOf
    <2>2. issued' \in [Sessions -> Nat] /\ \A s \in Sessions \ {u} : issued'[s] = issued[s]
      BY <2>1, IssueShape
    <2>3. \A s \in Sessions : Calm(s)' => s # u
      BY <2>1 DEF Calm
    <2> HIDE DEF u
    <2> QED BY <1>a, <1>b, <1>d, <2>1, <2>2, <2>3, QuietAnswer
  <1>3. CASE Refused(r, Fails(req[r]))
    <2>1. /\ ~Honoured(req[r].token) /\ UNCHANGED <<issued, ended, troubled>>
          /\ Answer(r, Fails(req[r]).cookies, Fails(req[r]).go)
      BY <1>3 DEF Refused
    <2>2. \A s \in Sessions : Calm(s)' => ~Carries(req[r], s)
      BY <1>a, <2>1, CalmIsHonoured DEF Calm
    <2> QED BY <1>a, <1>b, <2>1, <2>2, QuietAnswer
  <1>4. CASE RefusedAsEnded(r, Fails(req[r]))
    <2>1. /\ ended' = ended \cup {u} /\ UNCHANGED <<issued, troubled>>
          /\ Answer(r, Fails(req[r]).cookies, Fails(req[r]).go)
      BY <1>4 DEF RefusedAsEnded, SessionOf
    <2>2. \A s \in Sessions : Calm(s)' => s # u
      BY <2>1 DEF Calm
    <2> HIDE DEF u
    <2> QED BY <1>a, <1>b, <1>d, <2>1, <2>2, QuietAnswer
  <1>5. CASE Unanswered(r, Fails(req[r]))
    <2>1. /\ troubled' = troubled \cup {u} /\ ended' = ended /\ u \in Sessions
          /\ Answer(r, Fails(req[r]).cookies, Fails(req[r]).go)
          /\ issued' = issued \/ Issue(u)
      BY <1>5, <1>c DEF Unanswered, SessionOf
    <2>2. issued' \in [Sessions -> Nat] /\ \A s \in Sessions \ {u} : issued'[s] = issued[s]
      BY <1>a, <2>1, IssueShape
    <2>3. \A s \in Sessions : Calm(s)' => s # u
      BY <2>1 DEF Calm
    <2> HIDE DEF u
    <2> QED BY <1>a, <1>b, <1>d, <2>1, <2>2, <2>3, QuietAnswer
  <1> QED BY <1>1, <1>2, <1>3, <1>4, <1>5 DEF ServeRefresh

\* A login gets the first token of a session that nothing knows of yet, or none.
LEMMA ServeCallbackKeeps ==
  ASSUME WebInv, NEW r \in Slots, ServeCallback(r)
  PROVE  WebInv'
  <1>a. /\ req[r].stage = "sent" /\ UNCHANGED <<access, held, ended, troubled>>
        /\ WebTypes /\ \A o \in Slots : WellFormed(req[o]) /\ req[o] \in WebRequest
        /\ issued \in [Sessions -> Nat]
    BY DEF ServeCallback, jar, WebInv, WebTypes
  <1>b. req[r].token = None
    BY <1>a DEF ServeCallback, WellFormed
  <1>c. \A s \in Sessions : ~Carries(req[r], s)
    BY <1>b DEF Carries
  <1>d. "board" \in Ways /\ "login" \in Ways /\ Keep \in Effect /\ Keep.does = "keep"
    BY DEF Ways, Pages, Keep, Effect
  <1>1. CASE Answer(r, Keep, "login") /\ issued' = issued
    BY <1>1, <1>a, <1>c, <1>d, QuietAnswer
  <1>2. ASSUME NEW u \in Sessions, issued[u] = 0, Issue(u),
               Answer(r, Store(Newest(u)), "board")
        PROVE  WebInv'
    <2> DEFINE c == Store(Newest(u))
    <2>1. /\ issued' \in [Sessions -> Nat] /\ \A s \in Sessions \ {u} : issued'[s] = issued[s]
          /\ c \in Effect /\ c.does = "store" /\ c.token = LastOf(u)' /\ c.token \in WebTokens
      BY <1>2, IssueShape
    <2> HIDE DEF c
    <2>2. Answer(r, c, "board")
      BY <1>2 DEF c
    <2>3. /\ req' \in [Slots -> WebRequest] /\ \A o \in Slots \ {r} : req'[o] = req[o]
          /\ req'[r] = Free \/ (/\ req'[r].stage = "answered" /\ req'[r].token = None
                                /\ req'[r].cookies = c)
      BY <1>b, <1>d, <2>1, <2>2, AnswerShape
    <2>4. WebTypes'
      BY <1>a, <2>1, <2>3 DEF WebTypes
    <2>5. WellFormed(req'[r])
      <3>1. CASE req'[r] = Free
        BY <3>1, FreeRequest
      <3>2. CASE req'[r].stage = "answered" /\ req'[r].token = None /\ req'[r].cookies = c
        <4>1. c.token # None
          BY <2>1, TokensAreNotNone
        <4> QED BY <3>2, <4>1 DEF WellFormed
      <3> QED BY <2>3, <3>1, <3>2
    <2>6. ~Carries(req'[r], u) /\ \A s \in Sessions \ {u} : ~Carries(req'[r], s) /\ ~Brings(req'[r], s)
      <3>1. c.token[1] = u
        BY <2>1 DEF LastOf
      <3>2. Free.token = None /\ Free.cookies.does = "keep"
        BY DEF Free, Keep
      <3> QED BY <2>3, <3>1, <3>2 DEF Carries, Brings
    <2>7. Brings(req'[r], u) => req'[r].cookies.token = LastOf(u)'
      <3>1. Free.cookies.does = "keep"
        BY DEF Free, Keep
      <3> QED BY <2>1, <2>3, <3>1 DEF Brings
    <2>8. ASSUME NEW s \in Sessions, Calm(s)' PROVE Chain(s)'
      <3>1. Calm(s) /\ Chain(s)
        BY <1>a, <2>8 DEF Calm, WebInv
      <3>2. InJar(s)' <=> InJar(s)
        BY <1>a DEF InJar
      <3>3. CASE s # u
        <4>1. LastOf(s)' = LastOf(s)
          BY <2>1, <3>3 DEF LastOf
        <4>2. CarriedOnce(s)'
          BY <1>a, <2>3, <2>6, <3>1, <3>2, <3>3, <4>1 DEF Chain, CarriedOnce
        <4>3. BroughtOnce(s)'
          BY <2>3, <2>6, <3>1, <3>2, <3>3, <4>1 DEF Chain, BroughtOnce
        <4>4. JarIsFresh(s)'
          BY <1>a, <1>c, <2>3, <3>1, <3>2, <4>1 DEF Chain, JarIsFresh
        <4> QED BY <4>2, <4>3, <4>4 DEF Chain
      <3>4. CASE s = u
        <4>1. LastOf(u) \notin WebTokens
          BY <1>2 DEF LastOf, WebTokens
        <4>2. \A o \in Slots : ~Carries(req[o], u)
          <5> SUFFICES ASSUME NEW o \in Slots, Carries(req[o], u) PROVE FALSE
            OBVIOUS
          <5>1. req[o].token = LastOf(u) \/ req[o].cookies.token = LastOf(u)
            BY <3>1, <3>4 DEF Chain, CarriedOnce, Store
          <5>2. req[o].token \in WebTokens \cup {None} /\ req[o].cookies.token \in WebTokens \cup {None}
            BY <1>a DEF WebRequest, Effect
          <5>3. LastOf(u) # None
            <6>1. LastOf(u) \in Nat \X Nat
              BY <1>a DEF LastOf, Sessions
            <6> QED BY <6>1, DispatcherAssumption
          <5> QED BY <4>1, <5>1, <5>2, <5>3
        <4>3. \A o \in Slots : ~Brings(req[o], u)
          <5> SUFFICES ASSUME NEW o \in Slots, Brings(req[o], u) PROVE FALSE
            OBVIOUS
          <5>1. req[o].cookies.token = LastOf(u)
            BY <3>1, <3>4 DEF Chain, BroughtOnce
          <5>2. req[o].cookies.token \in WebTokens
            BY <1>a DEF WebRequest, Effect, WellFormed, Brings
          <5> QED BY <4>1, <5>1, <5>2
        <4>4. ~InJar(u)
          <5>1. held \in WebTokens \cup {None}
            BY <1>a DEF WebTypes
          <5> QED BY <3>1, <3>4, <4>1, <4>2, <5>1 DEF Chain, JarIsFresh, InJar
        <4>5. \A o \in Slots : ~Carries(req'[o], u)
          BY <2>3, <2>6, <4>2
        <4>6. \A o \in Slots : Brings(req'[o], u) => o = r
          BY <2>3, <4>3
        <4> QED BY <2>7, <3>2, <3>4, <4>4, <4>5, <4>6 DEF Chain, CarriedOnce, BroughtOnce,
           JarIsFresh
      <3> QED BY <3>3, <3>4
    <2> QED BY <1>a, <2>3, <2>4, <2>5, <2>8 DEF WebInv
  <1> QED BY <1>1, <1>2 DEF ServeCallback

\* Requests whose answer the cookies decide carry no token and bring none; those
\* that Keycloak has to see carry the token they were given.
LEMMA SentRequests ==
  ASSUME NEW t \in Tabs \cup {None}, NEW kind \in Kinds, NEW page \in Ways
  PROVE  /\ \A cookies \in {Keep, EndAccess}, go \in Ways :
              LET q == Gets(t, kind, page, cookies, go) IN
              q \in WebRequest /\ WellFormed(q) /\ q.token = None /\ q.cookies.does # "store"
         /\ \A tok \in WebTokens \cup {None} : (tok # None => kind \in {"refresh", "call"}) =>
              LET q == Asks(t, kind, page, tok) IN
              q \in WebRequest /\ WellFormed(q) /\ q.stage = "sent" /\ q.token = tok /\ q.cookies.does # "store"
  <1>1. /\ Keep \in Effect /\ Keep.does = "keep"
        /\ EndAccess \in Effect /\ EndAccess.does = "end"
    BY DEF Effect, Keep, EndAccess
  <1>2. "none" \in Ways
    BY DEF Ways
  <1>3. ASSUME NEW cookies \in {Keep, EndAccess}, NEW go \in Ways
        PROVE  LET q == Gets(t, kind, page, cookies, go) IN
               q \in WebRequest /\ WellFormed(q) /\ q.token = None /\ q.cookies.does # "store"
    <2> DEFINE q == Gets(t, kind, page, cookies, go)
    <2>1. q = [stage |-> "answered", tab |-> t, kind |-> kind, page |-> page, token |-> None,
               cookies |-> cookies, go |-> go]
      BY RequestFields
    <2> HIDE DEF q
    <2>2. q \in WebRequest
      BY <1>1, <2>1 DEF WebRequest
    <2>3. WellFormed(q) /\ q.token = None /\ q.cookies.does # "store"
      BY <1>1, <2>1 DEF WellFormed
    <2> QED BY <2>2, <2>3 DEF q
  <1>4. ASSUME NEW tok \in WebTokens \cup {None}, tok # None => kind \in {"refresh", "call"}
        PROVE  LET q == Asks(t, kind, page, tok) IN
               q \in WebRequest /\ WellFormed(q) /\ q.stage = "sent" /\ q.token = tok /\ q.cookies.does # "store"
    <2> DEFINE q == Asks(t, kind, page, tok)
    <2>1. q = [stage |-> "sent", tab |-> t, kind |-> kind, page |-> page, token |-> tok,
               cookies |-> Keep, go |-> "none"]
      BY RequestFields
    <2> HIDE DEF q
    <2>2. q \in WebRequest
      BY <1>1, <1>2, <2>1 DEF WebRequest
    <2>3. WellFormed(q) /\ q.stage = "sent" /\ q.token = tok /\ q.cookies.does # "store"
      BY <1>1, <1>4, <2>1 DEF WellFormed
    <2> QED BY <2>2, <2>3 DEF q
  <1> QED BY <1>3, <1>4

\* A slot that is free has nothing for the cookies.
LEMMA FirstSendKeeps ==
  ASSUME WebInv,
         NEW r \in Slots, NEW q \in WebRequest, NEW replaces, SendRequest(r, q, replaces),
         req[r].stage = "free", UNCHANGED <<access, held, issued, ended>>,
         WellFormed(q), q.cookies.does # "store", q.token # None => q.stage = "sent" /\ q.token = held
  PROVE  WebInv'
  <1>1. req[r].cookies = Keep
    BY DEF WebInv, WellFormed
  <1>2. held' = HeldAfter(req[r].cookies)
    BY <1>1 DEF HeldAfter, Keep
  <1>3. access' \in {"none", "valid", "expired"}
    BY DEF WebInv, WebTypes
  <1> QED BY <1>2, <1>3, SendKeeps

LEMMA WaysOfPages ==
  ASSUME NEW p \in Ways, NEW a \in {"none", "valid", "expired"}, NEW tok
  PROVE  GoesTo(p, a, tok) \in Ways
  BY DEF GoesTo, OnRefused, Ways

\* The cookies take in an answer, and the slot goes to the request that follows it, if any.
LEMMA TakeKeeps ==
  ASSUME WebInv, NEW r \in Slots, TakeAnswer(r)
  PROVE  WebInv'
  <1>1. Receive(r)
    BY DEF TakeAnswer, Arrive, Follow, Hear
  <1>a. req[r] \in WebRequest /\ access \in {"none", "valid", "expired"} /\ held \in WebTokens \cup {None}
    BY DEF WebInv, WebTypes
  <1>2. /\ req[r].stage = "answered" /\ held' = HeldAfter(req[r].cookies)
        /\ access' = AccessAfter(req[r].cookies) /\ UNCHANGED <<issued, ended>>
    BY <1>1 DEF Receive, keycloak
  <1>3. access' \in {"none", "valid", "expired"}
    BY <1>2, <1>a DEF AccessAfter, WebRequest, Effect
  <1>4. held' \in WebTokens \cup {None}
    BY <1>2, <1>a DEF HeldAfter, WebRequest, Effect
  <1>5. Free.token = None /\ Free.cookies.does = "keep"
    BY DEF Free, Keep
  <1>6. ASSUME NEW replaces, SendRequest(r, Free, replaces) PROVE WebInv'
    BY <1>2, <1>3, <1>5, <1>6, FreeRequest, SendKeeps
  <1>7. CASE Arrive(r)
    <2>1. \E calls : SendRequest(r, Free, calls)
      BY <1>7 DEF Arrive
    <2> QED BY <1>6, <2>1
  <1>8. CASE Hear(r)
    <2>1. req' = [o \in Slots |-> IF o = r THEN Free ELSE req[o]] /\ troubled' = troubled
      BY <1>8 DEF Hear, WebInv, WebTypes
    <2>2. Contended(Free, r) = {} /\ LostBy({}) = {}
      BY <1>5 DEF Contended, Presents, LostBy
    <2>3. SendRequest(r, Free, {})
      BY <2>1, <2>2 DEF SendRequest
    <2> QED BY <1>6, <2>3
  <1>b. "refresh" \in Kinds /\ "page" \in Kinds
    BY DEF Kinds
  <1>9. ASSUME NEW t \in Tabs \cup {None}, NEW page \in Ways, NEW old,
               SendRequest(r, Asks(t, "refresh", page, held'), old)
        PROVE  WebInv'
    <2> DEFINE q == Asks(t, "refresh", page, held')
    <2>1. /\ q \in WebRequest /\ WellFormed(q) /\ q.stage = "sent" /\ q.token = held'
          /\ q.cookies.does # "store"
      BY <1>4, <1>b, SentRequests
    <2>2. SendRequest(r, q, old)
      BY <1>9
    <2> HIDE DEF q
    <2> QED BY <1>2, <1>3, <2>1, <2>2, SendKeeps
  <1>10. ASSUME NEW t \in Tabs \cup {None}, NEW page \in Ways, NEW go \in Ways, NEW old,
                SendRequest(r, Gets(t, "page", page, Keep, go), old)
         PROVE  WebInv'
    <2> DEFINE q == Gets(t, "page", page, Keep, go)
    <2>1. q \in WebRequest /\ WellFormed(q) /\ q.token = None /\ q.cookies.does # "store"
      BY <1>b, SentRequests
    <2>2. SendRequest(r, q, old)
      BY <1>10
    <2> HIDE DEF q
    <2> QED BY <1>2, <1>3, <2>1, <2>2, SendKeeps
  <1>11. CASE Follow(r)
    <2>1. \E old : SendRequest(r, IF req[r].go = "refresh"
                                 THEN Asks(req[r].tab, "refresh", req[r].page, held')
                                 ELSE Visit(req[r].tab, req[r].go, access', held'), old)
      BY <1>11 DEF Follow
    <2>2. /\ req[r].tab \in Tabs \cup {None} /\ req[r].page \in Ways /\ req[r].go \in Ways
          /\ GoesTo(req[r].go, access', held') \in Ways
      BY <1>3, <1>a, WaysOfPages DEF WebRequest
    <2>3. CASE req[r].go = "refresh"
      BY <1>9, <2>1, <2>2, <2>3
    <2>4. CASE req[r].go # "refresh"
      BY <1>10, <2>1, <2>2, <2>4 DEF Visit
    <2> QED BY <2>3, <2>4
  <1> QED BY <1>7, <1>8, <1>11 DEF TakeAnswer

\* The steps of a tab: all but a call, a refresh and a callback are answered from the cookies.
LEMMA TabKeeps ==
  ASSUME WebInv, NEW t \in Tabs,
         \/ \E p \in Pages : Open(t, p)
         \/ Fetch(t) \/ Act(t) \/ LogoutTab(t) \/ ReturnFromLogin(t)
  PROVE  WebInv'
  <1>a. access \in {"none", "valid", "expired"} /\ held \in WebTokens \cup {None} /\ t \in Tabs \cup {None}
    BY DEF WebInv, WebTypes
  <1>b. /\ Pages \subseteq Ways /\ "login" \in Ways /\ "refresh" \in Ways
        /\ {"page", "call", "action", "callback"} \subseteq Kinds
    BY DEF Ways, Kinds, Pages
  <1>c. UNCHANGED <<access, held, issued, ended>>
    BY DEF Open, Fetch, Act, LogoutTab, ReturnFromLogin, jar, keycloak
  <1>1. ASSUME NEW r \in Slots, NEW replaces, NEW kind \in Kinds, NEW page \in Ways,
               NEW cookies \in {Keep, EndAccess}, NEW go \in Ways, req[r].stage = "free",
               SendRequest(r, Gets(t, kind, page, cookies, go), replaces)
        PROVE  WebInv'
    <2> DEFINE q == Gets(t, kind, page, cookies, go)
    <2>1. q \in WebRequest /\ WellFormed(q) /\ q.token = None /\ q.cookies.does # "store"
      BY <1>a, SentRequests
    <2>2. SendRequest(r, q, replaces)
      BY <1>1
    <2> HIDE DEF q
    <2> QED BY <1>1, <1>c, <2>1, <2>2, FirstSendKeeps
  <1>2. ASSUME NEW r \in Slots, NEW replaces, NEW kind \in Kinds, NEW page \in Ways,
               NEW tok \in {None, held}, tok # None => kind \in {"refresh", "call"}, req[r].stage = "free",
               SendRequest(r, Asks(t, kind, page, tok), replaces)
        PROVE  WebInv'
    <2> DEFINE q == Asks(t, kind, page, tok)
    <2>1. /\ q \in WebRequest /\ WellFormed(q) /\ q.stage = "sent" /\ q.token = tok
          /\ q.cookies.does # "store"
      BY <1>2, <1>a, SentRequests
    <2>2. SendRequest(r, q, replaces)
      BY <1>2
    <2> HIDE DEF q
    <2> QED BY <1>2, <1>c, <2>1, <2>2, FirstSendKeeps
  <1>3. ASSUME NEW p \in Pages, Open(t, p) PROVE WebInv'
    <2>1. PICK r \in Slots : /\ req[r].stage = "free"
                             /\ SendRequest(r, Visit(t, p, access, held), {nav[t]})
      BY <1>3 DEF Open, Navigate
    <2>2. SendRequest(r, Gets(t, "page", p, Keep, GoesTo(p, access, held)), {nav[t]})
      BY <2>1 DEF Visit
    <2>3. p \in Ways /\ GoesTo(p, access, held) \in Ways
      BY <1>a, <1>b, WaysOfPages
    <2> QED BY <1>1, <1>b, <2>1, <2>2, <2>3
  <1>4. CASE Fetch(t)
    <2>1. PICK r \in Slots :
            /\ req[r].stage = "free"
            /\ SendRequest(r, IF access = "none" THEN Asks(t, "call", view[t], held)
                           ELSE Gets(t, "call", view[t], Keep, "refresh"), {})
      BY <1>4 DEF Fetch
    <2>2. view[t] \in Ways
      BY <1>4, <1>b DEF Fetch
    <2>3. CASE access = "none"
      BY <1>2, <1>b, <2>1, <2>2, <2>3
    <2>4. CASE access # "none"
      BY <1>1, <1>b, <2>1, <2>2, <2>4
    <2> QED BY <2>3, <2>4
  <1>5. CASE Act(t) \/ LogoutTab(t)
    <2>1. view[t] \in Ways
      BY <1>5, <1>b DEF Act, LogoutTab
    <2>2. PICK r \in Slots, cookies \in {Keep, EndAccess} :
            /\ req[r].stage = "free"
            /\ SendRequest(r, Gets(t, "action", view[t], cookies, "login"), {nav[t]})
      BY <1>5 DEF Act, LogoutTab, Navigate
    <2> QED BY <1>1, <1>b, <2>1, <2>2
  <1>6. CASE ReturnFromLogin(t)
    <2>1. PICK r \in Slots :
            /\ req[r].stage = "free"
            /\ \/ SendRequest(r, Asks(t, "callback", "board", None), {nav[t]})
               \/ SendRequest(r, Gets(t, "callback", "board", Keep, "login"), {nav[t]})
      BY <1>6 DEF ReturnFromLogin, Navigate
    <2>2. "board" \in Ways
      BY <1>b DEF Pages
    <2> QED BY <1>1, <1>2, <1>b, <2>1, <2>2
  <1> QED BY <1>3, <1>4, <1>5, <1>6

\* A step that leaves jar, requests and Keycloak alone changes no chain.
LEMMA AsideKeeps ==
  ASSUME WebInv, UNCHANGED <<held, req, issued, ended, troubled>>, access' \in {"none", "valid", "expired"}
  PROVE  WebInv'
  BY DEF WebInv, WebTypes, Calm, Chain, CarriedOnce, BroughtOnce, JarIsFresh, InJar, LastOf,
     Carries, Brings

LEMMA WebStepInv ==
  ASSUME WebInv, [WebNext]_webVars
  PROVE  WebInv'
  <1>1. ASSUME NEW t \in Tabs, StartLogin(t) PROVE WebInv'
    <2>1. UNCHANGED <<access, held, req, issued, ended, troubled>>
      BY <1>1 DEF StartLogin, jar, keycloak
    <2> QED BY <2>1, AsideKeeps DEF WebInv, WebTypes
  <1>2. CASE Age \/ Lapse
    BY <1>2, AsideKeeps DEF Age, Lapse, keycloak
  <1>3. CASE UNCHANGED webVars
    <2>1. UNCHANGED <<access, held, req, issued, ended, troubled>>
      BY <1>3 DEF webVars, jar, keycloak
    <2> QED BY <2>1, AsideKeeps DEF WebInv, WebTypes
  <1> QED
    BY <1>1, <1>2, <1>3, TabKeeps, TakeKeeps, ServeRefreshKeeps, ServeCallbackKeeps
       DEF WebNext, Serve

LEMMA WebInitInv == WebInit => WebInv
  <1> SUFFICES ASSUME WebInit PROVE WebInv
    OBVIOUS
  <1>1. WebTypes
    BY FreeRequest DEF WebInit, WebTypes
  <1>2. \A r \in Slots : req[r] = Free
    BY DEF WebInit
  <1>3. Free.token = None /\ Free.cookies.does = "keep"
    BY DEF Free, Keep
  <1>4. \A s \in Sessions : Chain(s)
    BY <1>2, <1>3 DEF WebInit, Chain, CarriedOnce, BroughtOnce, JarIsFresh, InJar, Carries,
       Brings
  <1> QED BY <1>1, <1>2, <1>4, FreeRequest DEF WebInv

\* In every reachable state of the browser, the newest token of each calm session is in one place.
THEOREM BrowserInvariance == WebSpec => []WebInv
  <1>1. WebInit => WebInv
    BY WebInitInv
  <1>2. WebInv /\ [WebNext]_webVars => WebInv'
    BY WebStepInv
  <1> QED BY <1>1, <1>2, PTL DEF WebSpec

\* A dispatcher is signed out by a refresh that failed only for a cause: his Keycloak session is
\* over, one refresh token was sent by two requests, an answer with a new one was lost, or the
\* refresh is older than his login (route.ts, _forward.ts: every path that rotates stores the pair).
THEOREM SignOutsHaveACause == WebSpec => []SignedOutForCause
  <1>1. WebInv => SignedOutForCause
    <2> SUFFICES ASSUME WebInv, NEW r \in Slots, Erases(r), held[1] \notin ended \cup troubled,
                 req[r].token # None, req[r].token[1] = held[1]
          PROVE  FALSE
      BY DEF SignedOutForCause, SessionOf
    <2>1. held # None /\ req[r].stage = "answered" /\ req[r].cookies = Forget
      BY DEF Erases
    <2>2. held[1] \in Sessions
      BY <2>1, TokensAreNotNone DEF WebInv, WebTypes
    <2>3. req[r].cookies = Store(LastOf(held[1]))
      BY <2>1, <2>2 DEF WebInv, Calm, Chain, CarriedOnce, Carries
    <2> QED BY <2>1, <2>3 DEF Forget, Store
  <1> QED BY <1>1, BrowserInvariance, PTL
=============================================================================
