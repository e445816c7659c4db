------------------------------ MODULE LoginWatch ------------------------------
(***************************************************************************)
(* The break-glass tripwire                                                *)
(* (apps/api/src/security/break-glass-login-monitor.service.ts,            *)
(* keycloak-event-poll-cursor.service.ts, keycloak-events-client.ts).      *)
(*                                                                         *)
(* Keycloak stores a login event some time after the time it carries; a    *)
(* poll reads the mark, fetches the events from the mark on, pages every   *)
(* break-glass one among them, reads the mark again and moves it to the    *)
(* newest time it saw, if that is later.  A poll may fail at every await.  *)
(* Pollers is one process, or two while a deploy overlaps.                 *)
(***************************************************************************)
EXTENDS Naturals, FiniteSets

CONSTANTS
  Logins,      \* login events of the master realm
  BreakGlass,  \* those whose username has the break-glass prefix
  Pollers,
  MaxTime,     \* bound on the clock, in milliseconds that matter
  MaxFailures  \* bound on polls that fail or die under way

ASSUME LoginAssumption == BreakGlass \subseteq Logins /\ MaxTime \in Nat /\ MaxFailures \in Nat

Unborn == MaxTime + 1

VARIABLES
  clock,
  time,      \* time[l]: the event's time, Unborn before the login
  stored,    \* events the admin API returns
  cursor,    \* last_event_time_ms of the singleton row
  poll,      \* poll[a]: where the poll of process a is
  paged,     \* break-glass logins paged so far
  late,      \* history: stored behind an event that had been fetched before
  failures,  \* history: polls that failed under way
  raced      \* history: the mark was moved back

watchVars == <<clock, time, stored, cursor, poll, paged, late, failures, raced>>

Idle == [at |-> "idle", mark |-> 0]
Steps == {"idle", "asked", "paged", "checked"}

WatchTypeOK ==
  /\ clock \in 0..MaxTime
  /\ time \in [Logins -> 0..Unborn]
  /\ stored \subseteq Logins
  /\ cursor \in 0..MaxTime
  /\ poll \in [Pollers -> [at : Steps, mark : 0..MaxTime]]
  /\ paged \subseteq BreakGlass
  /\ late \subseteq Logins
  /\ failures \in 0..MaxFailures
  /\ raced \in BOOLEAN

WatchInit ==
  /\ clock = 0
  /\ time = [l \in Logins |-> Unborn]
  /\ stored = {}
  /\ cursor = 0
  /\ poll = [a \in Pollers |-> Idle]
  /\ paged = {} /\ late = {}
  /\ failures = 0 /\ raced = FALSE

-----------------------------------------------------------------------------
Tick ==
  /\ clock < MaxTime /\ clock' = clock + 1
  /\ UNCHANGED <<time, stored, cursor, poll, paged, late, failures, raced>>

\* Someone signs in to the master realm.
Login(l) ==
  /\ time[l] = Unborn
  /\ time' = [time EXCEPT ![l] = clock]
  /\ UNCHANGED <<clock, stored, cursor, poll, paged, late, failures, raced>>

\* The mark, and the marks that polls under way are about to set.
Scanned == {cursor} \cup {poll[a].mark : a \in {b \in Pollers : poll[b].at \in {"paged", "checked"}}}

\* The event reaches the event store.
Store(l) ==
  /\ time[l] # Unborn /\ l \notin stored
  /\ stored' = stored \cup {l}
  /\ late' = IF \E t \in Scanned : time[l] < t THEN late \cup {l} ELSE late
  /\ UNCHANGED <<clock, time, cursor, poll, paged, failures, raced>>

At(a, step, mark) == poll' = [poll EXCEPT ![a] = [at |-> step, mark |-> mark]]

\* pollOnce reads the mark.
ReadCursor(a) ==
  /\ poll[a].at = "idle"
  /\ At(a, "asked", cursor)
  /\ UNCHANGED <<clock, time, stored, cursor, paged, late, failures, raced>>

\* Mutant of Since: events strictly after the mark.
SinceAfter(mark) == {l \in stored : time[l] > mark}

\* GET .../events?type=LOGIN&dateFrom=mark.
Since(mark) == {l \in stored : time[l] >= mark}

\* Mutant of Newest: the first event of the answer, which is in ascending order.
Oldest(events) == CHOOSE t \in {time[l] : l \in events} : \A l \in events : t <= time[l]

Newest(events) == CHOOSE t \in {time[l] : l \in events} : \A l \in events : time[l] <= t

\* The answer comes: every break-glass login in it is paged.
Scan(a) ==
  /\ poll[a].at = "asked"
  /\ LET events == Since(poll[a].mark) IN
       \/ events = {} /\ At(a, "idle", 0) /\ UNCHANGED paged
       \/ /\ events # {}
          /\ At(a, "paged", Newest(events))
          /\ paged' = paged \cup (events \cap BreakGlass)
  /\ UNCHANGED <<clock, time, stored, cursor, late, failures, raced>>

\* advanceCursor reads the mark again: it does not move back.
Check(a) ==
  /\ poll[a].at = "paged"
  /\ IF poll[a].mark <= cursor THEN At(a, "idle", 0) ELSE At(a, "checked", poll[a].mark)
  /\ UNCHANGED <<clock, time, stored, cursor, paged, late, failures, raced>>

\* The UPDATE, which does not compare again.
Advance(a) ==
  /\ poll[a].at = "checked"
  /\ cursor' = poll[a].mark
  /\ raced' = (raced \/ poll[a].mark < cursor)
  /\ At(a, "idle", 0)
  /\ UNCHANGED <<clock, time, stored, paged, late, failures>>

\* An await throws, or the process dies; the next tick polls from the mark.
PollFails(a) ==
  /\ poll[a].at # "idle" /\ failures < MaxFailures
  /\ failures' = failures + 1
  /\ At(a, "idle", 0)
  /\ UNCHANGED <<clock, time, stored, cursor, paged, late, raced>>

Poll(a) == ReadCursor(a) \/ Scan(a) \/ Check(a) \/ Advance(a)

WatchNext ==
  \/ Tick
  \/ \E l \in Logins : Login(l) \/ Store(l)
  \/ \E a \in Pollers : Poll(a) \/ PollFails(a)

WatchSpec == WatchInit /\ [][WatchNext]_watchVars

\* The scheduler arms the poll again after every run.
WatchFairness == \A a \in Pollers : WF_watchVars(Poll(a))

-----------------------------------------------------------------------------
\* Every break-glass login the event store shows is paged, whatever fails under
\* way, unless it was stored behind an event already fetched.
LoginIsPaged ==
  \A l \in BreakGlass : l \in stored ~> (l \in paged \/ l \in late)

\* Between polls a paged login is behind the mark or at it, so it is paged again
\* only as the newest of all, after a poll that failed, or after two overlapping
\* polls moved the mark back.
PagedIsBehindCursor ==
  (\A a \in Pollers : poll[a].at = "idle") /\ failures = 0 /\ ~raced =>
    \A l \in paged : time[l] <= cursor
=============================================================================
