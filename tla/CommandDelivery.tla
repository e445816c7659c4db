--------------------------- MODULE CommandDelivery ---------------------------
(***************************************************************************)
(* Dispatch commands to drivers (apps/api/src/commands, driver-app         *)
(* src/commands): POST /commands commits the command and hands it to the   *)
(* gateway, which emits it to the sockets of the operator or, when there   *)
(* is none, leaves it to a reconciler that sends a push.  The gateway's    *)
(* pending commands, pushes and dead letters live in its process.          *)
(***************************************************************************)
EXTENDS Integers, FiniteSets

CONSTANTS
  Commands,
  Devices,       \* sockets of driver apps
  Target,        \* targetOperatorId of each command
  Owner,         \* operator whose token each device connects with
  MaxAttempts,   \* COMMAND_MAX_ATTEMPTS
  MaxPush,       \* COMMAND_PUSH_MAX_ATTEMPTS
  MaxRestarts    \* bound on restarts of the api

ASSUME DeliveryAssumption ==
  /\ MaxAttempts \in Nat /\ MaxAttempts > 1
  /\ MaxPush \in Nat \ {0}
  /\ MaxRestarts \in Nat

VARIABLES
  durable,      \* commands committed to the change feed, the audit log and the outbox
  posting,      \* committed by a request that has not reached the gateway yet
  room,         \* devices that have joined the room of their operator
  wire,         \* <<device, command>>: emitted and not yet received
  seen,         \* seen[d]: ReceiverState.seenCommandIds
  acks,         \* acks on their way to the gateway
  pending,      \* keys of the gateway's pending map
  attempts,     \* PendingEntry.attempts, 0 before there is an entry
  pushAttempts, \* PendingEntry.pushAttempts
  overdue,      \* commands issued more than COMMAND_DELIVERY_TIMEOUT_MS ago
  inFlight,     \* inFlight[c]: calls of sendToOperator that have not settled
  deadLetters,  \* deadLetters[c]: entries in the gateway's dead letters
  stopping,     \* SIGTERM was received
  draining,     \* pushes onModuleDestroy waits for
  restarts,
  emitted,      \* history: commands emitted to a socket
  acked,        \* history: commands with a latency sample
  pushed        \* history: commands whose push was accepted

commandVars ==
  <<durable, posting, room, wire, seen, acks, pending, attempts, pushAttempts, overdue,
    inFlight, deadLetters, stopping, draining, restarts, emitted, acked, pushed>>

SocketVars == <<room, wire, seen, acks>>
EntryVars == <<attempts, pushAttempts, overdue>>
PushVars == <<inFlight, deadLetters>>
ProcessVars == <<stopping, draining, restarts>>
History == <<emitted, acked, pushed>>

Ack == [device : Devices, command : Commands, status : {"received", "rejected"}]
None == [c \in Commands |-> 0]

CommandTypeOK ==
  /\ durable \subseteq Commands /\ posting \subseteq Commands
  /\ room \subseteq Devices
  /\ wire \subseteq Devices \X Commands
  /\ seen \in [Devices -> SUBSET Commands]
  /\ acks \subseteq Ack
  /\ pending \subseteq Commands
  /\ attempts \in [Commands -> {0, 1, MaxAttempts}]
  /\ pushAttempts \in [Commands -> 0 .. MaxPush]
  /\ overdue \subseteq Commands
  /\ inFlight \in [Commands -> Nat] /\ deadLetters \in [Commands -> Nat]
  /\ stopping \in BOOLEAN /\ draining \subseteq Commands
  /\ restarts \in 0 .. MaxRestarts
  /\ emitted \subseteq Commands /\ acked \subseteq Commands /\ pushed \subseteq Commands

CommandInit ==
  /\ durable = {} /\ posting = {}
  /\ room = {} /\ wire = {} /\ acks = {}
  /\ seen = [d \in Devices |-> {}]
  /\ pending = {} /\ overdue = {}
  /\ attempts = None /\ pushAttempts = None
  /\ inFlight = None /\ deadLetters = None
  /\ stopping = FALSE /\ draining = {} /\ restarts = 0
  /\ emitted = {} /\ acked = {} /\ pushed = {}

-----------------------------------------------------------------------------
(* POST /commands *)

\* Mutant of Duplicate: a replayed command is committed and pushed again.
DuplicateUnnoticed(c) == c \in posting

\* appendTriWrite, idempotent on the command id: a replay only answers "duplicate".
Duplicate(c) == c \in durable

Persist(c) ==
  /\ ~Duplicate(c)
  /\ durable' = durable \cup {c}
  /\ posting' = posting \cup {c}
  /\ UNCHANGED <<SocketVars, pending, EntryVars, PushVars, ProcessVars, History>>

Sockets(c) == {d \in room : Owner[d] = Target[c]}

\* The number of attempts of a new entry: a command without a socket starts at the
\* limit, one that is emitted at 1, and nothing raises it later.
FirstAttempts(c) == IF Sockets(c) = {} THEN MaxAttempts ELSE 1

PushCommand(c) ==
  /\ c \in posting
  /\ posting' = posting \ {c}
  /\ pending' = pending \cup {c}
  /\ attempts' = [attempts EXCEPT ![c] = FirstAttempts(c)]
  /\ wire' = wire \cup (Sockets(c) \X {c})
  /\ emitted' = IF Sockets(c) = {} THEN emitted ELSE emitted \cup {c}
  /\ UNCHANGED <<durable, room, seen, acks, pushAttempts, overdue, PushVars, ProcessVars,
                 acked, pushed>>

\* The gateway throws while it shuts down; the controller answers no_socket.
PushThrows(c) ==
  /\ c \in posting /\ stopping
  /\ posting' = posting \ {c}
  /\ UNCHANGED <<durable, SocketVars, pending, EntryVars, PushVars, ProcessVars, History>>

-----------------------------------------------------------------------------
(* Driver app *)

\* handleConnection: the token was verified, the device joins the room.
Connect(d) ==
  /\ d \notin room
  /\ room' = room \cup {d}
  /\ UNCHANGED <<durable, posting, wire, seen, acks, pending, EntryVars, PushVars, ProcessVars,
                 History>>

\* A dropped connection loses what is on it; acks the client still buffers are sent
\* after it reconnects.
Disconnect(d) ==
  /\ d \in room
  /\ room' = room \ {d}
  /\ wire' = {m \in wire : m[1] # d}
  /\ \E lost \in SUBSET {a \in acks : a.device = d} : acks' = acks \ lost
  /\ UNCHANGED <<durable, posting, seen, pending, EntryVars, PushVars, ProcessVars, History>>

\* The commands screen is left or the app is killed: a new client starts empty.
AppRestart(d) ==
  /\ d \notin room
  /\ seen' = [seen EXCEPT ![d] = {}]
  /\ acks' = {a \in acks : a.device # d}
  /\ UNCHANGED <<durable, posting, room, wire, pending, EntryVars, PushVars, ProcessVars, History>>

\* receiveCommand: remember the command, acknowledge it at once.
ReceiveCommand(d, c) ==
  /\ <<d, c>> \in wire
  /\ wire' = wire \ {<<d, c>>}
  /\ seen' = [seen EXCEPT ![d] = @ \cup {c}]
  /\ acks' = acks \cup
       {[device |-> d, command |-> c, status |-> IF c \in seen[d] THEN "rejected" ELSE "received"]}
  /\ UNCHANGED <<durable, posting, room, pending, EntryVars, PushVars, ProcessVars, History>>

\* Only a pending command is acknowledged, and only by its operator.
Acknowledges(a) == a.command \in pending /\ Owner[a.device] = Target[a.command]

HandleAck(a) ==
  /\ a \in acks /\ a.device \in room
  /\ acks' = acks \ {a}
  /\ IF Acknowledges(a)
     THEN pending' = pending \ {a.command} /\ acked' = acked \cup {a.command}
     ELSE UNCHANGED <<pending, acked>>
  /\ UNCHANGED <<durable, posting, room, wire, seen, EntryVars, PushVars, ProcessVars, emitted,
                 pushed>>

-----------------------------------------------------------------------------
(* Reconciler and push provider *)

TimeOut(c) ==
  /\ c \in pending \ overdue
  /\ overdue' = overdue \cup {c}
  /\ UNCHANGED <<durable, posting, SocketVars, pending, attempts, pushAttempts, PushVars,
                 ProcessVars, History>>

ShouldFallbackToPush(c) == c \in overdue /\ attempts[c] >= MaxAttempts

\* Mutant of Fallbacks: only a command that has never been pushed is taken.
FallbacksOnce == {c \in pending : ShouldFallbackToPush(c) /\ pushAttempts[c] = 0 /\ inFlight[c] = 0}

Fallbacks == {c \in pending : ShouldFallbackToPush(c) /\ inFlight[c] = 0}

ReconcileNow ==
  /\ Fallbacks # {}
  /\ inFlight' = [c \in Commands |-> IF c \in Fallbacks THEN inFlight[c] + 1 ELSE inFlight[c]]
  /\ UNCHANGED <<durable, posting, SocketVars, pending, EntryVars, deadLetters, ProcessVars,
                 History>>

PushSettles(c) ==
  /\ inFlight[c] > 0
  /\ inFlight' = [inFlight EXCEPT ![c] = @ - 1]

\* sendToOperator resolves and some token accepted the push.
PushAccepted(c) ==
  /\ PushSettles(c)
  /\ pending' = pending \ {c}
  /\ pushed' = pushed \cup {c}
  /\ UNCHANGED <<durable, posting, SocketVars, EntryVars, deadLetters, ProcessVars, emitted, acked>>

\* Mutant of AfterFailure: the entry is dropped with the first failed push.
AfterFailureDropped(c) == pending \ {c}

\* The pending map after a failed push: the last attempt removes the entry.
AfterFailure(c) == IF pushAttempts[c] + 1 >= MaxPush THEN pending \ {c} ELSE pending

\* It throws, or every token was rejected.
PushFailed(c) ==
  /\ PushSettles(c)
  /\ pushAttempts' = [pushAttempts EXCEPT ![c] = @ + 1]
  /\ deadLetters' = [deadLetters EXCEPT ![c] = IF pushAttempts[c] + 1 >= MaxPush THEN @ + 1 ELSE @]
  /\ pending' = AfterFailure(c)
  /\ UNCHANGED <<durable, posting, SocketVars, attempts, overdue, ProcessVars, History>>

-----------------------------------------------------------------------------
(* Shutdown and restart *)

\* onModuleDestroy: wait for the pushes in flight.
Sigterm ==
  /\ ~stopping /\ restarts < MaxRestarts
  /\ stopping' = TRUE
  /\ draining' = {c \in Commands : inFlight[c] > 0}
  /\ UNCHANGED <<durable, posting, SocketVars, pending, EntryVars, PushVars, restarts, History>>

\* A new process: its maps are empty, its clients have to reconnect.
Boot ==
  /\ restarts < MaxRestarts
  /\ restarts' = restarts + 1
  /\ posting' = {} /\ pending' = {} /\ overdue' = {}
  /\ attempts' = None /\ pushAttempts' = None
  /\ inFlight' = None /\ deadLetters' = None
  /\ room' = {} /\ wire' = {}
  /\ \E lost \in SUBSET acks : acks' = acks \ lost
  /\ stopping' = FALSE /\ draining' = {}
  /\ UNCHANGED <<durable, seen, History>>

Exit ==
  /\ stopping
  /\ \A c \in draining : inFlight[c] = 0
  /\ Boot

Crash == Boot

-----------------------------------------------------------------------------
CommandNext ==
  \/ \E c \in Commands :
       \/ Persist(c) \/ PushCommand(c) \/ PushThrows(c)
       \/ TimeOut(c) \/ PushAccepted(c) \/ PushFailed(c)
  \/ \E d \in Devices : Connect(d) \/ Disconnect(d) \/ AppRestart(d)
  \/ \E d \in Devices, c \in Commands : ReceiveCommand(d, c)
  \/ \E a \in acks : HandleAck(a)
  \/ ReconcileNow \/ Sigterm \/ Exit \/ Crash

CommandSpec == CommandInit /\ [][CommandNext]_commandVars

HandlesAckOf(d, c) == \E a \in acks : a.device = d /\ a.command = c /\ HandleAck(a)

\* The clock runs, the scheduler re-arms the reconciler after every tick, the push
\* provider settles, and what is on a connection that stays up arrives.
CommandFairness ==
  /\ WF_commandVars(ReconcileNow)
  /\ \A c \in Commands :
       /\ WF_commandVars(TimeOut(c))
       /\ WF_commandVars(PushAccepted(c) \/ PushFailed(c))
       /\ WF_commandVars(PushCommand(c))
  /\ \A d \in Devices, c \in Commands :
       /\ WF_commandVars(ReceiveCommand(d, c))
       /\ WF_commandVars(HandlesAckOf(d, c))

FairCommandSpec == CommandSpec /\ CommandFairness

-----------------------------------------------------------------------------
(* Properties *)

\* What became of a command, as far as the gateway can tell.
FateOf(c) ==
  IF c \notin durable \/ c \in posting THEN "unknown"
  ELSE IF c \in acked THEN "acked"
  ELSE IF c \in pushed THEN "pushed"
  ELSE IF deadLetters[c] > 0 THEN "dead"
  ELSE IF c \in pending THEN "open"
  ELSE "lost"

Fate == INSTANCE CommandFate WITH fate <- [c \in Commands |-> FateOf(c)]

\* Every command the gateway takes is settled once, as acknowledged, pushed or
\* dead-lettered, and only a restart or a throwing gateway loses one.
SettledOnce == Fate!Spec

\* A command that was emitted to a socket is never pushed or dead-lettered: no ack races
\* a push of the same command, and no push makes up for an emit that was lost.
OneChannel ==
  \A c \in emitted : inFlight[c] = 0 /\ c \notin pushed /\ deadLetters[c] = 0

\* A command is dead-lettered once, after exactly MaxPush failed pushes, and no push
\* of it is under way or was accepted.
DeadLetterEarned ==
  \A c \in Commands :
    /\ inFlight[c] + pushAttempts[c] <= MaxPush
    /\ deadLetters[c] = IF pushAttempts[c] = MaxPush THEN 1 ELSE 0
    /\ deadLetters[c] > 0 => c \notin pending \cup pushed

\* The driver app never has to refuse a command as a duplicate: a command reaches a
\* device once, whatever is replayed, reconnected or restarted.
DeliveredOnce == \A a \in acks : a.status = "received"

\* A command that found no socket is pushed or dead-lettered, or the process ends.
UnconnectedIsSettled ==
  \A c \in Commands :
    (c \in pending /\ attempts[c] = MaxAttempts) ~> (c \notin pending)

\* "Pending entries remain; reconciler flushes via Push fallback" (commands.gateway.ts:213):
\* a pending command whose operator is not connected is settled, unless he reconnects.
\* The code does not keep it for a command that was emitted before the connection dropped.
FlushedAfterDrop ==
  \A c \in Commands :
    (c \in pending /\ Sockets(c) = {}) ~> (c \notin pending \/ Sockets(c) # {})
=============================================================================
