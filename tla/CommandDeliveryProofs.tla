------------------------ MODULE CommandDeliveryProofs ------------------------
(***************************************************************************)
(* Proofs about CommandDelivery, for every set of commands and devices and *)
(* every limit.                                                            *)
(***************************************************************************)
EXTENDS CommandDelivery, TLAPS

-----------------------------------------------------------------------------
\* The gateway knows nothing of a command before pushCommand.
UntouchedAtFirst ==
  /\ posting \subseteq durable
  /\ \A c \in Commands :
       c \notin durable \/ c \in posting =>
         /\ c \notin pending \cup emitted \cup acked \cup pushed
         /\ inFlight[c] = 0 /\ deadLetters[c] = 0 /\ pushAttempts[c] = 0

\* What is on the wire, remembered or acknowledged was emitted; what is on the wire is new.
SocketHistory ==
  /\ \A m \in wire : m[2] \in emitted /\ m[2] \notin seen[m[1]]
  /\ \A d \in Devices : seen[d] \subseteq emitted
  /\ \A a \in acks : a.command \in emitted
  /\ DeliveredOnce

\* An emitted command never becomes due for a push; only an emitted one is acknowledged.
ChannelHistory ==
  /\ \A c \in emitted : inFlight[c] = 0 /\ pushAttempts[c] = 0 /\ c \notin pushed
  /\ \A c \in pending : c \in emitted => attempts[c] < MaxAttempts
  /\ acked \subseteq emitted
  /\ acked \cap pending = {}

\* One push of a command at a time, and only while it is pending.
PushHistory ==
  /\ \A c \in Commands :
       /\ inFlight[c] \in {0, 1}
       /\ inFlight[c] > 0 => c \in pending
       /\ deadLetters[c] = IF pushAttempts[c] = MaxPush THEN 1 ELSE 0
       /\ deadLetters[c] > 0 => c \notin pending \cup pushed
  /\ pushed \cap pending = {}

IInv ==
  /\ CommandTypeOK
  /\ UntouchedAtFirst
  /\ SocketHistory
  /\ ChannelHistory
  /\ PushHistory

\* The named properties are parts of the inductive invariant.
LEMMA IInvImplies == IInv => OneChannel /\ DeadLetterEarned /\ DeliveredOnce
  <1> SUFFICES ASSUME IInv PROVE OneChannel /\ DeadLetterEarned /\ DeliveredOnce
    OBVIOUS
  <1> USE DeliveryAssumption DEF IInv
  <1>1. OneChannel
    BY DEF OneChannel, CommandTypeOK, ChannelHistory, PushHistory
  <1>2. ASSUME NEW c \in Commands PROVE inFlight[c] + pushAttempts[c] <= MaxPush
    <2>1. inFlight[c] \in {0, 1} /\ pushAttempts[c] \in 0 .. MaxPush
      BY DEF CommandTypeOK, PushHistory
    <2>2. inFlight[c] = 1 => pushAttempts[c] # MaxPush
      BY DEF PushHistory
    <2> QED BY <2>1, <2>2
  <1>3. DeadLetterEarned
    BY <1>2 DEF DeadLetterEarned, PushHistory
  <1> QED BY <1>1, <1>3 DEF SocketHistory

\* The empty counters have the types of all counters.
LEMMA NoneType ==
  /\ None \in [Commands -> {0, 1, MaxAttempts}]
  /\ None \in [Commands -> 0 .. MaxPush]
  /\ None \in [Commands -> Nat]
  /\ \A c \in Commands : None[c] = 0
  <1>1. None \in [Commands -> {0}]
    BY DEF None
  <1>2. 0 \in 0 .. MaxPush /\ 0 \in Nat /\ 0 \in {0, 1, MaxAttempts}
    BY DeliveryAssumption
  <1> QED BY <1>1, <1>2 DEF None

\* Initially the gateway is empty.
LEMMA InitIInv == CommandInit => IInv
  <1> SUFFICES ASSUME CommandInit PROVE IInv
    OBVIOUS
  <1> USE DeliveryAssumption, NoneType DEF CommandInit
  <1>1. CommandTypeOK
    <2>1. restarts \in 0 .. MaxRestarts /\ seen \in [Devices -> SUBSET Commands]
      OBVIOUS
    <2> QED BY <2>1 DEF CommandTypeOK
  <1>2. UntouchedAtFirst /\ SocketHistory /\ ChannelHistory
    BY DEF UntouchedAtFirst, SocketHistory, DeliveredOnce, ChannelHistory
  <1>3. PushHistory
    <2>1. 0 # MaxPush
      OBVIOUS
    <2> QED BY <2>1 DEF PushHistory
  <1> QED BY <1>1, <1>2, <1>3 DEF IInv

-----------------------------------------------------------------------------
(* One lemma per action: the request, the sockets, the pushes, the process *)

\* The first insert of a command touches only the request.
LEMMA PersistInv == ASSUME IInv, NEW c \in Commands, Persist(c) PROVE IInv'
  BY DEF Persist, IInv, CommandTypeOK, UntouchedAtFirst, SocketHistory, DeliveredOnce, ChannelHistory,
         PushHistory, SocketVars, EntryVars, PushVars, ProcessVars, History, Duplicate, Ack

\* pushCommand sees a command the gateway knows nothing of.
LEMMA PushCommandInv == ASSUME IInv, NEW c \in Commands, PushCommand(c) PROVE IInv'
  <1> USE DeliveryAssumption DEF IInv, PushVars, ProcessVars
  <1>1. Sockets(c) \subseteq Devices
    BY DEF Sockets, CommandTypeOK
  <1>2. /\ c \notin pending \cup emitted \cup acked \cup pushed
        /\ inFlight[c] = 0 /\ deadLetters[c] = 0 /\ pushAttempts[c] = 0
    BY DEF PushCommand, UntouchedAtFirst
  <1>3. CommandTypeOK'
    <2>1. attempts' \in [Commands -> {0, 1, MaxAttempts}]
      BY DEF PushCommand, FirstAttempts, CommandTypeOK
    <2>2. wire' \subseteq Devices \X Commands
      BY <1>1 DEF PushCommand, CommandTypeOK
    <2> QED BY <2>1, <2>2 DEF PushCommand, CommandTypeOK
  <1>4. UntouchedAtFirst'
    BY DEF PushCommand, UntouchedAtFirst
  <1>5. SocketHistory'
    <2>1. ASSUME NEW m \in wire' PROVE m[2] \in emitted' /\ m[2] \notin seen'[m[1]]
      <3>1. CASE m \in wire
        BY <3>1 DEF PushCommand, SocketHistory
      <3>2. CASE m \in Sockets(c) \X {c}
        <4>1. m[1] \in Devices /\ m[2] = c /\ Sockets(c) # {}
          BY <1>1, <3>2
        <4> QED BY <1>2, <4>1 DEF PushCommand, SocketHistory
      <3> QED BY <3>1, <3>2 DEF PushCommand
    <2> QED BY <2>1 DEF PushCommand, SocketHistory, DeliveredOnce
  <1>6. ChannelHistory'
    BY <1>2 DEF PushCommand, FirstAttempts, ChannelHistory, CommandTypeOK
  <1>7. PushHistory'
    BY <1>2 DEF PushCommand, PushHistory
  <1> QED BY <1>3, <1>4, <1>5, <1>6, <1>7

\* A request the gateway refuses leaves it untouched.
LEMMA PushThrowsInv == ASSUME IInv, NEW c \in Commands, PushThrows(c) PROVE IInv'
  BY DEF PushThrows, IInv, CommandTypeOK, UntouchedAtFirst, SocketHistory, DeliveredOnce, ChannelHistory,
         PushHistory, SocketVars, EntryVars, PushVars, ProcessVars, History

\* Connections come and go; a lost message or ack disturbs nothing.
LEMMA ConnectionInv ==
  ASSUME IInv, NEW d \in Devices, Connect(d) \/ Disconnect(d) \/ AppRestart(d) PROVE IInv'
  <1> USE DEF IInv, CommandTypeOK, UntouchedAtFirst, ChannelHistory, PushHistory, SocketHistory,
              DeliveredOnce, EntryVars, PushVars, ProcessVars, History
  <1>1. CASE Connect(d)
    BY <1>1 DEF Connect
  <1>2. CASE Disconnect(d)
    BY <1>2 DEF Disconnect
  <1>3. CASE AppRestart(d)
    BY <1>3 DEF AppRestart
  <1> QED BY <1>1, <1>2, <1>3

\* What arrives was emitted and is new to the device.
LEMMA ReceiveInv ==
  ASSUME IInv, NEW d \in Devices, NEW c \in Commands, ReceiveCommand(d, c) PROVE IInv'
  <1> USE DEF IInv, EntryVars, PushVars, ProcessVars, History
  <1> DEFINE a == [device |-> d, command |-> c,
                   status |-> IF c \in seen[d] THEN "rejected" ELSE "received"]
  <1>1. c \in emitted /\ c \notin seen[d]
    BY DEF ReceiveCommand, SocketHistory
  <1>2. a \in Ack /\ a.command = c /\ a.status = "received"
    BY <1>1 DEF Ack
  <1>3. acks' = acks \cup {a}
    BY DEF ReceiveCommand
  <1> HIDE DEF a
  <1>4. CommandTypeOK'
    BY <1>2, <1>3 DEF ReceiveCommand, CommandTypeOK
  <1>5. SocketHistory'
    <2>1. ASSUME NEW m \in wire' PROVE m[2] \in emitted' /\ m[2] \notin seen'[m[1]]
      <3>1. m \in wire /\ m # <<d, c>> /\ m \in Devices \X Commands
        BY DEF ReceiveCommand, CommandTypeOK
      <3>2. m[1] = d => m[2] # c
        BY <3>1
      <3> QED BY <3>1, <3>2 DEF ReceiveCommand, SocketHistory, CommandTypeOK
    <2>2. \A e \in Devices : seen'[e] \subseteq emitted'
      BY <1>1 DEF ReceiveCommand, SocketHistory, CommandTypeOK
    <2>3. \A b \in acks' : b.command \in emitted' /\ b.status = "received"
      BY <1>1, <1>2, <1>3 DEF ReceiveCommand, SocketHistory, DeliveredOnce
    <2> QED BY <2>1, <2>2, <2>3 DEF SocketHistory, DeliveredOnce
  <1>6. UntouchedAtFirst' /\ ChannelHistory' /\ PushHistory'
    BY DEF ReceiveCommand, UntouchedAtFirst, ChannelHistory, PushHistory
  <1> QED BY <1>4, <1>5, <1>6

\* An acknowledged command was emitted, so no push of it is in flight.
LEMMA HandleAckInv == ASSUME IInv, NEW a \in acks, HandleAck(a) PROVE IInv'
  <1> USE DEF IInv, EntryVars, PushVars, ProcessVars, History
  <1>1. a.command \in emitted
    BY DEF SocketHistory
  <1>2. a.command \in Commands /\ inFlight[a.command] = 0
    BY <1>1 DEF CommandTypeOK, ChannelHistory
  <1>3. CommandTypeOK'
    BY <1>2 DEF HandleAck, CommandTypeOK
  <1>4. UntouchedAtFirst' /\ SocketHistory' /\ ChannelHistory'
    BY <1>1 DEF HandleAck, UntouchedAtFirst, SocketHistory, DeliveredOnce, ChannelHistory, CommandTypeOK
  <1>5. PushHistory'
    BY <1>2 DEF HandleAck, PushHistory
  <1> QED BY <1>3, <1>4, <1>5

\* The clock only makes a command overdue.
LEMMA TimeOutInv == ASSUME IInv, NEW c \in Commands, TimeOut(c) PROVE IInv'
  BY DEF TimeOut, IInv, CommandTypeOK, UntouchedAtFirst, SocketHistory, DeliveredOnce, ChannelHistory,
         PushHistory, SocketVars, PushVars, ProcessVars, History

\* The reconciler pushes commands that are pending, not emitted and not in flight.
LEMMA ReconcileInv == ASSUME IInv, ReconcileNow PROVE IInv'
  <1> USE DeliveryAssumption DEF IInv, SocketVars, EntryVars, ProcessVars, History
  <1>1. ASSUME NEW c \in Fallbacks PROVE c \in pending \ emitted /\ inFlight[c] = 0
    BY DEF Fallbacks, ShouldFallbackToPush, ChannelHistory, CommandTypeOK
  <1>2. CommandTypeOK'
    BY DEF ReconcileNow, CommandTypeOK
  <1>3. UntouchedAtFirst' /\ SocketHistory'
    BY <1>1 DEF ReconcileNow, UntouchedAtFirst, SocketHistory, DeliveredOnce
  <1>4. ChannelHistory' /\ PushHistory'
    BY <1>1 DEF ReconcileNow, ChannelHistory, PushHistory, CommandTypeOK
  <1> QED BY <1>2, <1>3, <1>4

\* A push that settles belongs to a pending command that was never emitted.
LEMMA SettlingPush ==
  ASSUME IInv, NEW c \in Commands, inFlight[c] > 0
  PROVE  /\ inFlight[c] = 1 /\ c \in pending \ emitted
         /\ c \in durable /\ c \notin posting /\ c \notin acked /\ c \notin pushed
         /\ deadLetters[c] = 0 /\ pushAttempts[c] \in 0 .. MaxPush /\ pushAttempts[c] # MaxPush
  BY DEF IInv, CommandTypeOK, UntouchedAtFirst, ChannelHistory, PushHistory

\* An accepted push closes the entry.
LEMMA PushAcceptedInv == ASSUME IInv, NEW c \in Commands, PushAccepted(c) PROVE IInv'
  <1> USE DEF SocketVars, EntryVars, ProcessVars
  <1>1. /\ inFlight[c] = 1 /\ c \in pending \ emitted
        /\ c \in durable /\ c \notin posting /\ deadLetters[c] = 0
    BY SettlingPush DEF PushAccepted, PushSettles
  <1>2. CommandTypeOK'
    BY <1>1 DEF PushAccepted, PushSettles, CommandTypeOK, IInv
  <1>3. UntouchedAtFirst' /\ SocketHistory'
    BY <1>1 DEF PushAccepted, PushSettles, UntouchedAtFirst, SocketHistory, DeliveredOnce, IInv,
       CommandTypeOK
  <1>4. ChannelHistory' /\ PushHistory'
    BY <1>1 DEF PushAccepted, PushSettles, ChannelHistory, PushHistory, IInv, CommandTypeOK
  <1> QED BY <1>2, <1>3, <1>4 DEF IInv

\* A failed push counts, and the last one moves the entry to the dead letters.
LEMMA PushFailedInv == ASSUME IInv, NEW c \in Commands, PushFailed(c) PROVE IInv'
  <1> USE DeliveryAssumption DEF SocketVars, ProcessVars, History
  <1>1. /\ inFlight[c] = 1 /\ c \in pending \ emitted
        /\ c \in durable /\ c \notin posting /\ c \notin acked /\ c \notin pushed
        /\ deadLetters[c] = 0 /\ pushAttempts[c] \in 0 .. MaxPush /\ pushAttempts[c] # MaxPush
    BY SettlingPush DEF PushFailed, PushSettles
  <1>2. CommandTypeOK'
    BY <1>1 DEF PushFailed, PushSettles, AfterFailure, CommandTypeOK, IInv
  <1>3. UntouchedAtFirst' /\ SocketHistory'
    BY <1>1 DEF PushFailed, PushSettles, AfterFailure, UntouchedAtFirst, SocketHistory,
       DeliveredOnce, IInv, CommandTypeOK
  <1>4. ChannelHistory'
    BY <1>1 DEF PushFailed, PushSettles, AfterFailure, ChannelHistory, IInv, CommandTypeOK
  <1>5. PushHistory'
    BY <1>1 DEF PushFailed, PushSettles, AfterFailure, PushHistory, IInv, CommandTypeOK
  <1> QED BY <1>2, <1>3, <1>4, <1>5 DEF IInv

\* A new process starts empty; the history and the devices' memory remain.
LEMMA BootInv == ASSUME IInv, Boot PROVE IInv'
  <1> USE DeliveryAssumption, NoneType DEF IInv, History
  <1>1. CommandTypeOK'
    <2>1. restarts' \in 0 .. MaxRestarts
      BY DEF Boot, CommandTypeOK
    <2>2. acks' \subseteq Ack
      BY DEF Boot, CommandTypeOK
    <2> QED BY <2>1, <2>2 DEF Boot, CommandTypeOK
  <1>2. UntouchedAtFirst' /\ PushHistory'
    <2>1. 0 # MaxPush
      OBVIOUS
    <2>2. \A c \in Commands : inFlight'[c] = 0 /\ deadLetters'[c] = 0 /\ pushAttempts'[c] = 0
      BY DEF Boot
    <2>3. posting' = {} /\ pending' = {} /\ durable' = durable /\ emitted' = emitted
          /\ acked' = acked /\ pushed' = pushed
      BY DEF Boot
    <2>4. UntouchedAtFirst'
      BY <2>2, <2>3 DEF UntouchedAtFirst
    <2>5. PushHistory'
      BY <2>1, <2>2, <2>3 DEF PushHistory
    <2> QED BY <2>4, <2>5
  <1>3. SocketHistory' /\ ChannelHistory'
    BY DEF Boot, SocketHistory, DeliveredOnce, ChannelHistory, CommandTypeOK
  <1> QED BY <1>1, <1>2, <1>3

-----------------------------------------------------------------------------
(* Safety *)

\* Every step keeps the invariant.
LEMMA StepInv == IInv /\ [CommandNext]_commandVars => IInv'
  <1> SUFFICES ASSUME IInv, [CommandNext]_commandVars PROVE IInv'
    OBVIOUS
  <1>1. CASE Exit
    BY <1>1, BootInv DEF Exit
  <1>2. CASE Crash
    BY <1>2, BootInv DEF Crash
  <1>3. CASE Sigterm
    BY <1>3 DEF Sigterm, IInv, CommandTypeOK, UntouchedAtFirst, SocketHistory, DeliveredOnce,
                ChannelHistory, PushHistory, SocketVars, EntryVars, PushVars, History
  <1>4. CASE UNCHANGED commandVars
    BY <1>4 DEF commandVars, IInv, CommandTypeOK, UntouchedAtFirst, SocketHistory, DeliveredOnce,
                ChannelHistory, PushHistory
  <1> QED
    BY <1>1, <1>2, <1>3, <1>4, PersistInv, PushCommandInv, PushThrowsInv, ConnectionInv,
       ReceiveInv, HandleAckInv, TimeOutInv, ReconcileInv, PushAcceptedInv, PushFailedInv
    DEF CommandNext

\* The gateway's maps, the sockets and the history agree in every reachable state.
THEOREM DeliveryInvariance == CommandSpec => []IInv
  BY InitIInv, StepInv, PTL DEF CommandSpec

\* No command is both emitted to a socket and pushed, for any number of devices,
\* reconnections, restarts and limits: no ack races a push, and the push that is to make
\* up for a dropped connection (FlushedAfterDrop) never comes.
THEOREM ChannelsAreDisjoint == CommandSpec => []OneChannel
  BY DeliveryInvariance, IInvImplies, PTL

\* A dead-lettered command had exactly MaxPush failed pushes and none accepted.
THEOREM DeadLettersAreEarned == CommandSpec => []DeadLetterEarned
  BY DeliveryInvariance, IInvImplies, PTL

\* A device hears of a command at most once, through any replays, reconnections and restarts.
THEOREM NoRedelivery == CommandSpec => []DeliveredOnce
  BY DeliveryInvariance, IInvImplies, PTL

-----------------------------------------------------------------------------
(* Refinement of CommandFate *)

\* A step that changes the fate of one command takes it or settles it.
LEMMA FateStep ==
  ASSUME NEW c \in Commands,
         \A x \in Commands \ {c} : FateOf(x)' = FateOf(x),
         \/ FateOf(c)' = FateOf(c)
         \/ FateOf(c) = "unknown" /\ FateOf(c)' \in {"open", "lost"}
         \/ FateOf(c) = "open" /\ FateOf(c)' \in {"acked", "pushed", "dead"}
  PROVE  [Fate!Next]_[x \in Commands |-> FateOf(x)]
  <1> DEFINE F == [x \in Commands |-> FateOf(x)]
  <1> HIDE DEF FateOf
  <1>1. F' = [F EXCEPT ![c] = FateOf(c)']
    OBVIOUS
  <1>2. CASE FateOf(c)' = FateOf(c)
    BY <1>2
  <1>3. CASE FateOf(c) = "unknown" /\ FateOf(c)' \in {"open", "lost"}
    BY <1>1, <1>3 DEF Fate!Next, Fate!Take
  <1>4. CASE FateOf(c) = "open" /\ FateOf(c)' \in {"acked", "pushed", "dead"}
    BY <1>1, <1>4 DEF Fate!Next, Fate!Settle, Fate!Settled
  <1> QED BY <1>2, <1>3, <1>4

\* A restart loses what is open, the dead letters and what was on its way.
LEMMA FateBoot == ASSUME IInv, Boot PROVE [Fate!Next]_[x \in Commands |-> FateOf(x)]
  <1> DEFINE F == [x \in Commands |-> FateOf(x)]
  <1>1. posting \in SUBSET Commands /\ \A c \in posting : FateOf(c) = "unknown"
    BY DEF FateOf, IInv, CommandTypeOK
  <1>2. ASSUME NEW c \in Commands
        PROVE  FateOf(c)' = IF c \in posting \/ FateOf(c) \in {"open", "dead"} THEN "lost"
                            ELSE FateOf(c)
    <2>1. /\ posting' = {} /\ pending' = {} /\ durable' = durable
          /\ deadLetters'[c] = 0 /\ acked' = acked /\ pushed' = pushed
      BY NoneType DEF Boot, History
    <2>2. posting \subseteq durable
          /\ (c \in posting => c \notin acked /\ c \notin pushed /\ c \notin pending)
      BY DEF IInv, UntouchedAtFirst
    <2> QED BY <2>1, <2>2 DEF FateOf
  <1> HIDE DEF FateOf
  <1>3. F' = [c \in Commands |->
                IF c \in posting \/ F[c] \in {"open", "dead"} THEN "lost" ELSE F[c]]
    BY <1>2
  <1>4. \A c \in posting : F[c] = "unknown"
    BY <1>1
  <1>5. Fate!Restart(posting)
    BY <1>3, <1>4 DEF Fate!Restart
  <1> QED BY <1>1, <1>5 DEF Fate!Next

\* Every step takes a command, settles one, restarts, or leaves every fate alone.
LEMMA StepImplements == IInv /\ [CommandNext]_commandVars => [Fate!Next]_[c \in Commands |-> FateOf(c)]
  <1> SUFFICES ASSUME IInv, [CommandNext]_commandVars PROVE [Fate!Next]_[c \in Commands |-> FateOf(c)]
    OBVIOUS
  <1> DEFINE Goal == [Fate!Next]_[c \in Commands |-> FateOf(c)]
             Keeps(c) == \A x \in Commands \ {c} : FateOf(x)' = FateOf(x)
  <1>a. ASSUME \A c \in Commands : FateOf(c)' = FateOf(c) PROVE Goal
    BY <1>a
  <1> HIDE DEF Goal
  <1> USE DEF IInv, UntouchedAtFirst, SocketVars, EntryVars, PushVars, ProcessVars, History
  <1>1. ASSUME NEW c \in Commands, Persist(c) PROVE Goal
    <2>1. \A x \in Commands : FateOf(x)' = FateOf(x)
      BY <1>1 DEF Persist, Duplicate, FateOf
    <2> QED BY <2>1, <1>a
  <1>2. ASSUME NEW c \in Commands, PushCommand(c) PROVE Goal
    <2>1. Keeps(c)
      BY <1>2 DEF PushCommand, FateOf
    <2>2. FateOf(c) = "unknown" /\ FateOf(c)' = "open"
      BY <1>2 DEF PushCommand, FateOf
    <2> QED BY <2>1, <2>2, FateStep DEF Goal
  <1>3. ASSUME NEW c \in Commands, PushThrows(c) PROVE Goal
    <2>1. Keeps(c)
      BY <1>3 DEF PushThrows, FateOf
    <2>2. FateOf(c) = "unknown" /\ FateOf(c)' = "lost"
      BY <1>3 DEF PushThrows, FateOf
    <2> QED BY <2>1, <2>2, FateStep DEF Goal
  <1>4. ASSUME UNCHANGED <<durable, posting, acked, pushed, deadLetters, pending>> PROVE Goal
    <2>1. \A x \in Commands : FateOf(x)' = FateOf(x)
      BY <1>4 DEF FateOf
    <2> QED BY <2>1, <1>a
  <1>5. ASSUME NEW a \in acks, HandleAck(a) PROVE Goal
    <2>1. CASE Acknowledges(a)
      <3> DEFINE c == a.command
      <3>1. c \in Commands /\ c \in pending /\ c \in emitted /\ c \notin acked
        BY <2>1 DEF Acknowledges, CommandTypeOK, SocketHistory, ChannelHistory
      <3>2. deadLetters[c] = 0 /\ c \notin pushed /\ c \in durable /\ c \notin posting
        BY <3>1 DEF PushHistory, ChannelHistory, CommandTypeOK
      <3>3. Keeps(c)
        BY <1>5, <2>1 DEF HandleAck, FateOf
      <3>4. FateOf(c) = "open" /\ FateOf(c)' = "acked"
        BY <1>5, <2>1, <3>1, <3>2 DEF HandleAck, FateOf
      <3> QED BY <3>1, <3>3, <3>4, FateStep DEF Goal
    <2>2. CASE ~Acknowledges(a)
      BY <1>5, <2>2, <1>4 DEF HandleAck
    <2> QED BY <2>1, <2>2
  <1>6. ASSUME NEW c \in Commands, PushAccepted(c) PROVE Goal
    <2>1. inFlight[c] > 0
      BY <1>6 DEF PushAccepted, PushSettles
    <2>2. /\ c \in pending \ emitted
          /\ c \in durable /\ c \notin posting /\ c \notin acked /\ c \notin pushed
          /\ deadLetters[c] = 0
      BY <2>1, SettlingPush
    <2>3. Keeps(c)
      BY <1>6 DEF PushAccepted, FateOf
    <2>4. FateOf(c) = "open" /\ FateOf(c)' = "pushed"
      BY <1>6, <2>2 DEF PushAccepted, FateOf
    <2> QED BY <2>3, <2>4, FateStep DEF Goal
  <1>7. ASSUME NEW c \in Commands, PushFailed(c) PROVE Goal
    <2>1. inFlight[c] > 0
      BY <1>7 DEF PushFailed, PushSettles
    <2>2. /\ c \in pending \ emitted
          /\ c \in durable /\ c \notin posting /\ c \notin acked /\ c \notin pushed
          /\ deadLetters[c] = 0
      BY <2>1, SettlingPush
    <2>3. Keeps(c)
      BY <1>7 DEF PushFailed, AfterFailure, FateOf, CommandTypeOK
    <2>4. FateOf(c) = "open"
      BY <2>2 DEF FateOf
    <2>5. CASE pushAttempts[c] + 1 >= MaxPush
      <3>1. deadLetters'[c] = 1
        BY <1>7, <2>2, <2>5 DEF PushFailed, CommandTypeOK
      <3>2. FateOf(c)' = "dead"
        BY <1>7, <2>2, <3>1 DEF PushFailed, FateOf
      <3> QED BY <2>3, <2>4, <3>2, FateStep DEF Goal
    <2>6. CASE ~(pushAttempts[c] + 1 >= MaxPush)
      <3>1. deadLetters'[c] = 0 /\ pending' = pending
        BY <1>7, <2>2, <2>6 DEF PushFailed, AfterFailure, CommandTypeOK
      <3>2. FateOf(c)' = "open"
        BY <1>7, <2>2, <3>1 DEF PushFailed, FateOf
      <3> QED BY <2>3, <2>4, <3>2, FateStep DEF Goal
    <2> QED BY <2>5, <2>6
  <1>8. ASSUME Exit \/ Crash PROVE Goal
    BY <1>8, FateBoot DEF Exit, Crash, Goal
  <1>9. ASSUME NEW d \in Devices, Connect(d) \/ Disconnect(d) \/ AppRestart(d) PROVE Goal
    BY <1>9, <1>4 DEF Connect, Disconnect, AppRestart
  <1>10. ASSUME NEW d \in Devices, NEW c \in Commands, ReceiveCommand(d, c) PROVE Goal
    BY <1>10, <1>4 DEF ReceiveCommand
  <1>11. ASSUME NEW c \in Commands, TimeOut(c) PROVE Goal
    BY <1>11, <1>4 DEF TimeOut
  <1>12. ASSUME ReconcileNow \/ Sigterm PROVE Goal
    BY <1>12, <1>4 DEF ReconcileNow, Sigterm
  <1>13. ASSUME UNCHANGED commandVars PROVE Goal
    BY <1>13, <1>4 DEF commandVars
  <1> QED
    BY <1>1, <1>2, <1>3, <1>5, <1>6, <1>7, <1>8, <1>9, <1>10, <1>11, <1>12, <1>13 DEF CommandNext, Goal

\* Sockets, acks, pushes and restarts together keep the gateway's promise: a command
\* it takes is settled once, and only a restart forgets one.
THEOREM Refinement == CommandSpec => SettledOnce
  <1>1. CommandInit => Fate!Init
    BY DEF CommandInit, Fate!Init, FateOf
  <1>2. IInv /\ [CommandNext]_commandVars => [Fate!Next]_[c \in Commands |-> FateOf(c)]
    BY StepImplements
  <1> QED BY DeliveryInvariance, <1>1, <1>2, PTL DEF CommandSpec, SettledOnce, Fate!Spec
=============================================================================
