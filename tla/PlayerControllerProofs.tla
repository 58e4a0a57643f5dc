------------------------- MODULE PlayerControllerProofs -------------------------
(* What the controller guarantees for any number of callers, plays and stops.   *)
(* The generation of a Stop is one no attempt has, and the attempt that holds   *)
(* loadMu was the newest request when it took it: it is newer than every Stop   *)
(* that returned, and none returns until it lets the mutex go.                  *)
EXTENDS PlayerController, TLAPS

-------------------------------------------------------------------------------
(* Types *)

Kinds == {"started", "player", "error"}
Events == [kind : Kinds, generation : Generations]
Stages ==
    {"none", "resolving", "resolved", "unresolved", "announcing", "loading", "loaded",
     "failed", "reporting", "ended"}
Places == {"idle", "play", "stop", "stopping", "forward", "close", "closing"}

\* The attempts that hold loadMu.
Holding == {"announcing", "loading", "loaded", "failed", "reporting"}

\* An event is added while there is room.
LEMMA AppendType ==
    ASSUME ControllerAssumption, NEW s \in Seq(Events), Len(s) < EventCap, NEW e \in Events
    PROVE  Append(s, e) \in Seq(Events) /\ Len(Append(s, e)) <= EventCap
BY DEF ControllerAssumption

LEMMA TailType ==
    ASSUME ControllerAssumption, NEW s \in Seq(Events), Len(s) <= EventCap, s # <<>>
    PROVE  Tail(s) \in Seq(Events) /\ Len(Tail(s)) <= EventCap
BY DEF ControllerAssumption

LEMMA GotoType ==
    ASSUME TypeOK, NEW g \in Generations, NEW at \in Stages, Goto(g, at)
    PROVE  /\ attempt' \in [Generations -> Stages]
           /\ attempt'[g] = at
           /\ \A h \in Generations : h # g => attempt'[h] = attempt[h]
BY DEF TypeOK, Goto, Stages

LEMMA CallsType ==
    ASSUME TypeOK, NEW c \in Callers, NEW at \in Places, NEW g \in 0..MaxGenerations, Calls(c, at, g)
    PROVE  /\ caller' \in [Callers -> [at : Places, generation : 0..MaxGenerations]]
           /\ caller'[c] = [at |-> at, generation |-> g]
           /\ \A d \in Callers : d # c => caller'[d] = caller[d]
BY DEF TypeOK, Calls, Places

LEMMA EmitType ==
    ASSUME ControllerAssumption, TypeOK, NEW g \in Generations, NEW kind \in Kinds, Emit(kind, g)
    PROVE  events' \in Seq(Events) /\ Len(events') <= EventCap /\ panicked' \in BOOLEAN
<1>1. [kind |-> kind, generation |-> g] \in Events
    BY DEF Events
<1>2. CASE /\ Len(events) < EventCap
           /\ events' = Append(events, [kind |-> kind, generation |-> g])
           /\ panicked' = panicked
    BY <1>1, <1>2, AppendType DEF TypeOK, Events, Kinds
<1>3. CASE events' = events
    BY <1>3 DEF TypeOK, Events, Kinds, Emit
<1>. QED  BY <1>2, <1>3 DEF Emit

LEMMA InterruptedType ==
    ASSUME ControllerAssumption, TypeOK
    PROVE  Interrupted \subseteq Generations
BY DEF ControllerAssumption, TypeOK, Interrupted, Generations

\* The types, with names for the sets.
Typed ==
    /\ generation \in 0..MaxGenerations /\ cancel \in 0..MaxPlays
    /\ cancelled \subseteq Generations /\ current \in 0..MaxPlays
    /\ closed \in BOOLEAN /\ done \in BOOLEAN /\ panicked \in BOOLEAN
    /\ loadMu \in 0..MaxPlays
    /\ attempt \in [Generations -> Stages]
    /\ caller \in [Callers -> [at : Places, generation : 0..MaxGenerations]]
    /\ events \in Seq(Events) /\ Len(events) <= EventCap
    /\ relay \in 0..MaxPlays /\ eventsClosed \in BOOLEAN
    /\ player \in [plays : 0..MaxPlays, closed : BOOLEAN]
    /\ stopped \in 0..MaxGenerations

LEMMA TypedIsTypeOK == Typed <=> TypeOK
BY DEF Typed, TypeOK, Stages, Places, Events, Kinds

\* The commands of the callers.
LEMMA CommandType ==
    ASSUME ControllerAssumption, Typed, NEW c \in Callers,
           \/ Command(c) \/ Close(c)
           \/ \E command \in {"play", "stop", "forward"} : Invoke(c, command)
    PROVE  Typed'
<1>. USE TypedIsTypeOK DEF vars, user, channel
<1>1. caller[c].generation \in 0..MaxGenerations
    BY DEF Typed
<1>2. ASSUME caller' = [caller EXCEPT ![c] = Idle]
      PROVE  caller' \in [Callers -> [at : Places, generation : 0..MaxGenerations]]
    BY <1>2 DEF Typed, Idle, Places, ControllerAssumption
<1>3. ASSUME NEW at \in Places, Calls(c, at, 0)
      PROVE  caller' \in [Callers -> [at : Places, generation : 0..MaxGenerations]]
    <2>1. 0 \in 0..MaxGenerations
        BY DEF ControllerAssumption
    <2>. QED  BY <1>3, <2>1, CallsType
<1>4. 0 \in 0..MaxPlays
    BY DEF ControllerAssumption
<1>5. CASE PlayAt(c)
    <2>1. /\ generation + 1 \in Generations
          /\ generation + 1 \in 0..MaxPlays
          /\ generation + 1 \in 0..MaxGenerations
        BY <1>5 DEF PlayAt, Typed, Generations, ControllerAssumption
    <2>2. "resolving" \in Stages
        BY DEF Stages
    <2>3. attempt' \in [Generations -> Stages]
        BY <1>5, <2>1, <2>2, GotoType DEF PlayAt
    <2>. QED  BY <1>2, <1>5, <2>1, <2>3, InterruptedType DEF PlayAt, Typed
<1>6. CASE Stop(c)
    <2>1. generation + 1 \in 0..MaxGenerations /\ "stopping" \in Places
        BY <1>6 DEF Stop, Typed, Places, ControllerAssumption
    <2>2. caller' \in [Callers -> [at : Places, generation : 0..MaxGenerations]]
        BY <1>6, <2>1, CallsType DEF Stop
    <2>. QED  BY <1>4, <1>6, <2>1, <2>2, InterruptedType DEF Stop, Typed
<1>7. CASE StopPlayer(c)
    <2>1. player' \in [plays : 0..MaxPlays, closed : BOOLEAN]
        BY <1>4, <1>7 DEF StopPlayer, Typed
    <2>. QED  BY <1>1, <1>2, <1>7, <2>1 DEF StopPlayer, Typed
<1>8. CASE Forward(c)
    BY <1>2, <1>8 DEF Forward, Typed
<1>9. CASE CloseDone(c)
    <2>1. caller' \in [Callers -> [at : Places, generation : 0..MaxGenerations]]
        BY <1>3, <1>9 DEF CloseDone, Places
    <2>. QED  BY <1>9, <2>1, InterruptedType DEF CloseDone, Typed
<1>10. CASE ClosePlayer(c)
    <2>1. player' \in [plays : 0..MaxPlays, closed : BOOLEAN]
        BY <1>4, <1>10 DEF ClosePlayer
    <2>. QED  BY <1>2, <1>10, <2>1 DEF ClosePlayer, Typed
<1>11. CASE Close(c)
    <2>1. caller' \in [Callers -> [at : Places, generation : 0..MaxGenerations]]
        BY <1>3, <1>11 DEF Close, Places
    <2>. QED  BY <1>11, <2>1 DEF Close, Typed
<1>12. ASSUME NEW command \in {"play", "stop", "forward"}, Invoke(c, command) PROVE Typed'
    <2>1. caller' \in [Callers -> [at : Places, generation : 0..MaxGenerations]]
        BY <1>3, <1>12 DEF Invoke, Places
    <2>. QED  BY <1>12, <2>1 DEF Invoke, Typed
<1>. QED  BY <1>5, <1>6, <1>7, <1>8, <1>9, <1>10, <1>11, <1>12 DEF Command

\* The goroutine of an attempt.
LEMMA PlayType ==
    ASSUME ControllerAssumption, Typed, NEW g \in Generations, Play(g)
    PROVE  Typed'
<1>. USE TypedIsTypeOK DEF vars, user, channel
<1>1. Free \in 0..MaxPlays /\ g \in 0..MaxPlays
    BY DEF Free, Generations, ControllerAssumption
<1>2. ASSUME NEW at \in Stages, Goto(g, at) PROVE attempt' \in [Generations -> Stages]
    BY <1>2, GotoType
<1>3. ASSUME NEW kind \in Kinds, Emit(kind, g)
      PROVE  events' \in Seq(Events) /\ Len(events') <= EventCap /\ panicked' \in BOOLEAN
    BY <1>3, EmitType
<1>4. CASE Resolve(g)
    <2>1. attempt' \in [Generations -> Stages]
        BY <1>2, <1>4 DEF Resolve, Stages
    <2>. QED  BY <1>4, <2>1 DEF Resolve, Typed
<1>5. CASE ResolveFails(g)
    <2>1. attempt' \in [Generations -> Stages]
        BY <1>2, <1>5 DEF ResolveFails, Stages
    <2>. QED  BY <1>5, <2>1 DEF ResolveFails, Typed
<1>6. CASE ReportUnresolved(g)
    <2>1. attempt' \in [Generations -> Stages]
        BY <1>2, <1>6 DEF ReportUnresolved, Stages
    <2>2. Emit("error", g)
        BY <1>6 DEF ReportUnresolved
    <2>. QED  BY <1>3, <1>6, <2>1, <2>2 DEF ReportUnresolved, Typed, Kinds
<1>7. CASE Lock(g)
    <2>1. attempt' \in [Generations -> Stages] /\ loadMu' \in 0..MaxPlays
        BY <1>1, <1>2, <1>7 DEF Lock, Stages, Typed
    <2>. QED  BY <1>7, <2>1 DEF Lock, Typed
<1>8. CASE Announce(g)
    <2>1. attempt' \in [Generations -> Stages]
        BY <1>2, <1>8 DEF Announce, Stages
    <2>2. Emit("started", g)
        BY <1>8 DEF Announce
    <2>. QED  BY <1>3, <1>8, <2>1, <2>2 DEF Announce, Typed, Kinds
<1>9. CASE Load(g)
    <2>1. attempt' \in [Generations -> Stages]
        BY <1>2, <1>9 DEF Load, Stages
    <2>2. player' \in [plays : 0..MaxPlays, closed : BOOLEAN]
        BY <1>1, <1>9 DEF Load, Typed
    <2>. QED  BY <1>9, <2>1, <2>2 DEF Load, Typed
<1>10. CASE LoadFails(g)
    <2>1. attempt' \in [Generations -> Stages]
        BY <1>2, <1>10 DEF LoadFails, Stages
    <2>2. player' \in [plays : 0..MaxPlays, closed : BOOLEAN]
        BY <1>1, <1>10 DEF LoadFails, Typed, Free
    <2>. QED  BY <1>10, <2>1, <2>2 DEF LoadFails, Typed
<1>11. CASE Loaded(g)
    <2>1. attempt' \in [Generations -> Stages] /\ loadMu' \in 0..MaxPlays
        BY <1>1, <1>2, <1>11 DEF Loaded, Unlock, Stages
    <2>2. current' \in 0..MaxPlays
        BY <1>1, <1>11 DEF Loaded, Typed
    <2>. QED  BY <1>11, <2>1, <2>2 DEF Loaded, Typed
<1>12. CASE Failed(g)
    <2>1. attempt' \in [Generations -> Stages] /\ loadMu' \in 0..MaxPlays
        BY <1>1, <1>2, <1>12 DEF Failed, Unlock, Stages, Typed
    <2>. QED  BY <1>12, <2>1 DEF Failed, Typed
<1>13. CASE ReportFailed(g)
    <2>1. attempt' \in [Generations -> Stages] /\ loadMu' \in 0..MaxPlays
        BY <1>1, <1>2, <1>13 DEF ReportFailed, Unlock, Stages
    <2>2. Emit("error", g)
        BY <1>13 DEF ReportFailed
    <2>. QED  BY <1>3, <1>13, <2>1, <2>2 DEF ReportFailed, Typed, Kinds
<1>. QED  BY <1>4, <1>5, <1>6, <1>7, <1>8, <1>9, <1>10, <1>11, <1>12, <1>13 DEF Play

\* The relay and the reader.
LEMMA ChannelType ==
    ASSUME ControllerAssumption, Typed, Relay \/ Consume
    PROVE  Typed'
<1>. USE DEF vars, user, channel
<1>1. 0 \in 0..MaxPlays
    BY DEF ControllerAssumption
<1>2. CASE RelayReceive
    BY <1>2 DEF RelayReceive, Typed
<1>3. CASE RelaySend
    <2>1. [kind |-> "player", generation |-> relay] \in Events
        BY <1>3 DEF RelaySend, Typed, Events, Kinds, Generations, ControllerAssumption
    <2>2. events' \in Seq(Events) /\ Len(events') <= EventCap
        BY <1>3, <2>1, AppendType DEF RelaySend, Typed
    <2>. QED  BY <1>1, <1>3, <2>2 DEF RelaySend, Typed
<1>4. CASE RelayEnds
    BY <1>4 DEF RelayEnds, Typed
<1>5. CASE Consume
    <2>1. events' \in Seq(Events) /\ Len(events') <= EventCap
        BY <1>5, TailType DEF Consume, Typed
    <2>. QED  BY <1>5, <2>1 DEF Consume, Typed
<1>. QED  BY <1>2, <1>3, <1>4, <1>5 DEF Relay

LEMMA StepType ==
    ASSUME ControllerAssumption, Typed, [Next]_vars
    PROVE  Typed'
<1>1. CASE UNCHANGED vars
    BY <1>1 DEF vars, user, channel, Typed
<1>. QED  BY <1>1, CommandType, PlayType, ChannelType DEF Next

LEMMA InitType ==
    ASSUME ControllerAssumption, Init
    PROVE  Typed
<1>1. <<>> \in Seq(Events) /\ Len(<<>>) <= EventCap
    BY DEF ControllerAssumption
<1>2. 0 \in 0..MaxPlays /\ 0 \in 0..MaxGenerations
    BY DEF ControllerAssumption
<1>. QED  BY <1>1, <1>2 DEF Init, Typed, Stages, Places, Idle, Free

\* The variables of the controller keep their types, and its channel its bound.
THEOREM ControllerTyped == Spec => []TypeOK
<1>. USE ControllerAssumption
<1>1. Typed => TypeOK
    BY TypedIsTypeOK
<1>. QED  BY <1>1, InitType, StepType, PTL DEF Spec

-------------------------------------------------------------------------------
(* Stops *)

\* loadMu is held by the attempt that announces, loads or reports, and no other.
HolderLoads == \A g \in Generations : attempt[g] \in Holding <=> loadMu = g

\* Attempts begin in the order of their generations.
LaterIsUnborn == \A g \in Generations : g > generation => attempt[g] = "none"

\* A generation that was taken, and not by an attempt.
Stopping(h) == h <= generation /\ (h \in Generations => attempt[h] = "none")

StopsAreNoAttempts ==
    /\ Stopping(stopped)
    /\ \A c \in Callers : caller[c].at = "stopping" => Stopping(caller[c].generation)

\* What holds the mutex is newer than what was stopped.
HolderIsNewer == loadMu = Free \/ loadMu > stopped

ClosingIsClosed ==
    /\ \A c \in Callers : caller[c].at \in {"close", "closing"} => closed
    /\ player.closed => closed /\ loadMu = Free

StopInv ==
    /\ Typed
    /\ HolderLoads
    /\ LaterIsUnborn
    /\ StopsAreNoAttempts
    /\ HolderIsNewer
    /\ ClosingIsClosed
    /\ StoppedStaysStopped

\* What the proofs of the steps need of the arithmetic.
LEMMA Numbers ==
    ASSUME ControllerAssumption, Typed
    PROVE  /\ generation \in Nat /\ stopped \in Nat /\ loadMu \in Nat /\ player.plays \in Nat
           /\ \A g \in Generations : g \in Nat /\ g # Free
           /\ \A c \in Callers : caller[c].generation \in Nat
BY DEF Typed, ControllerAssumption, Generations, Free

\* An attempt that moves without the mutex.
LEMMA AttemptMoves ==
    ASSUME ControllerAssumption, StopInv, NEW g \in Generations, NEW at \in Stages \ Holding, Goto(g, at),
           attempt[g] \notin Holding, attempt[g] # "none",
           UNCHANGED <<generation, closed, loadMu, caller, player, stopped>>
    PROVE  /\ HolderLoads' /\ LaterIsUnborn' /\ StopsAreNoAttempts'
           /\ HolderIsNewer' /\ ClosingIsClosed' /\ StoppedStaysStopped'
<1>1. /\ attempt'[g] = at
      /\ \A h \in Generations : h # g => attempt'[h] = attempt[h]
    BY GotoType, TypedIsTypeOK DEF StopInv
<1>2. HolderLoads'
    BY <1>1 DEF StopInv, HolderLoads
<1>3. LaterIsUnborn'
    BY <1>1 DEF StopInv, LaterIsUnborn
<1>4. StopsAreNoAttempts'
    BY <1>1 DEF StopInv, StopsAreNoAttempts, Stopping
<1>. QED  BY <1>2, <1>3, <1>4 DEF StopInv, HolderIsNewer, ClosingIsClosed, StoppedStaysStopped

\* An attempt that moves with the mutex, and may let it go.
LEMMA HolderMoves ==
    ASSUME ControllerAssumption, StopInv, NEW g \in Generations, NEW at \in Stages \ {"none"}, Goto(g, at),
           loadMu = g, IF at \in Holding THEN loadMu' = g ELSE loadMu' = Free,
           player'.plays \in {0, player.plays, g}, player'.closed = player.closed,
           UNCHANGED <<generation, closed, caller, stopped>>
    PROVE  /\ HolderLoads' /\ LaterIsUnborn' /\ StopsAreNoAttempts'
           /\ HolderIsNewer' /\ ClosingIsClosed' /\ StoppedStaysStopped'
<1>1. /\ attempt'[g] = at
      /\ \A h \in Generations : h # g => attempt'[h] = attempt[h]
    BY GotoType, TypedIsTypeOK DEF StopInv
<1>2. g > stopped /\ g # Free /\ attempt[g] \in Holding
    BY Numbers DEF StopInv, HolderIsNewer, HolderLoads
<1>3. HolderLoads'
    BY <1>1, <1>2, Numbers DEF StopInv, HolderLoads
<1>4. LaterIsUnborn'
    BY <1>1, <1>2 DEF StopInv, LaterIsUnborn, Holding
<1>5. StopsAreNoAttempts'
    BY <1>1, <1>2 DEF StopInv, StopsAreNoAttempts, Stopping, Holding
<1>6. HolderIsNewer'
    BY <1>2 DEF StopInv, HolderIsNewer
<1>7. ClosingIsClosed'
    BY <1>2 DEF StopInv, ClosingIsClosed
<1>8. StoppedStaysStopped'
    BY <1>2 DEF StopInv, StoppedStaysStopped, ClosingIsClosed
<1>. QED  BY <1>3, <1>4, <1>5, <1>6, <1>7, <1>8

\* An attempt that takes the mutex was the newest request, and no Stop.
LEMMA LockStops ==
    ASSUME ControllerAssumption, StopInv, NEW g \in Generations, Lock(g)
    PROVE  /\ HolderLoads' /\ LaterIsUnborn' /\ StopsAreNoAttempts'
           /\ HolderIsNewer' /\ ClosingIsClosed' /\ StoppedStaysStopped'
<1>. USE DEF vars, user, channel
<1>1. attempt[g] = "resolved" /\ loadMu = Free
    BY DEF Lock
<1>2. CASE ~Wanted(g)
    BY <1>1, <1>2, AttemptMoves DEF Lock, Stages, Holding
<1>3. CASE Wanted(g)
    <2>1. /\ attempt'[g] = "announcing"
          /\ \A h \in Generations : h # g => attempt'[h] = attempt[h]
        BY <1>3, GotoType, TypedIsTypeOK DEF Lock, StopInv, Stages
    <2>2. /\ loadMu' = g /\ g = generation /\ ~closed
          /\ UNCHANGED <<generation, closed, caller, player, stopped>>
        BY <1>3 DEF Lock, Wanted
    <2>3. g > stopped /\ g # Free
        <3>1. stopped # g
            BY <1>1 DEF StopInv, StopsAreNoAttempts, Stopping
        <3>2. stopped <= g
            BY <2>2 DEF StopInv, StopsAreNoAttempts, Stopping
        <3>. QED  BY <3>1, <3>2, Numbers DEF StopInv
    <2>4. HolderLoads'
        BY <1>1, <2>1, <2>2, Numbers DEF StopInv, HolderLoads, Holding
    <2>5. LaterIsUnborn'
        BY <2>1, <2>2, Numbers DEF StopInv, LaterIsUnborn
    <2>6. StopsAreNoAttempts'
        BY <1>1, <2>1, <2>2 DEF StopInv, StopsAreNoAttempts, Stopping
    <2>. QED  BY <2>6, <2>5, <2>4, <2>3, <2>2
              DEF StopInv, HolderIsNewer, ClosingIsClosed, StoppedStaysStopped
<1>. QED  BY <1>2, <1>3

LEMMA PlayStops ==
    ASSUME ControllerAssumption, StopInv, NEW g \in Generations, Play(g)
    PROVE  /\ HolderLoads' /\ LaterIsUnborn' /\ StopsAreNoAttempts'
           /\ HolderIsNewer' /\ ClosingIsClosed' /\ StoppedStaysStopped'
<1>. USE DEF vars, user, channel
<1>1. CASE Resolve(g)
    BY <1>1, AttemptMoves DEF Resolve, Stages, Holding
<1>2. CASE ResolveFails(g)
    BY <1>2, AttemptMoves DEF ResolveFails, Stages, Holding
<1>3. CASE ReportUnresolved(g)
    BY <1>3, AttemptMoves DEF ReportUnresolved, Stages, Holding
<1>4. CASE Lock(g)
    BY <1>4, LockStops
<1>5. ASSUME attempt[g] \in Holding PROVE loadMu = g
    BY <1>5 DEF StopInv, HolderLoads
<1>6. CASE Announce(g)
    BY <1>5, <1>6, HolderMoves DEF Announce, Stages, Holding
<1>7. CASE Load(g)
    <2>1. player'.plays = g /\ player'.closed = player.closed
        BY <1>7 DEF Load, StopInv, Typed
    <2>. QED  BY <1>5, <1>7, <2>1, HolderMoves DEF Load, Stages, Holding
<1>8. CASE LoadFails(g)
    <2>1. player'.plays \in {0, player.plays} /\ player'.closed = player.closed
        BY <1>8 DEF LoadFails, StopInv, Typed
    <2>. QED  BY <1>5, <1>8, <2>1, HolderMoves DEF LoadFails, Stages, Holding
<1>9. CASE Loaded(g)
    BY <1>5, <1>9, HolderMoves DEF Loaded, Unlock, Stages, Holding
<1>10. CASE Failed(g)
    BY <1>5, <1>10, HolderMoves DEF Failed, Unlock, Stages, Holding
<1>11. CASE ReportFailed(g)
    BY <1>5, <1>11, HolderMoves DEF ReportFailed, Unlock, Stages, Holding
<1>. QED  BY <1>1, <1>2, <1>3, <1>4, <1>6, <1>7, <1>8, <1>9, <1>10, <1>11 DEF Play

\* A command that moves no attempt and takes no generation.
LEMMA CallerMoves ==
    ASSUME ControllerAssumption, StopInv, NEW c \in Callers,
           \A d \in Callers : d # c => caller'[d] = caller[d],
           caller'[c].at = "stopping" => Stopping(caller'[c].generation),
           caller'[c].at \in {"close", "closing"} => closed',
           closed => closed',
           UNCHANGED <<generation, loadMu, attempt, player, stopped>>
    PROVE  /\ HolderLoads' /\ LaterIsUnborn' /\ StopsAreNoAttempts'
           /\ HolderIsNewer' /\ ClosingIsClosed' /\ StoppedStaysStopped'
<1>1. HolderLoads' /\ LaterIsUnborn'
    BY DEF StopInv, HolderLoads, LaterIsUnborn
<1>2. StopsAreNoAttempts'
    BY DEF StopInv, StopsAreNoAttempts, Stopping
<1>3. ClosingIsClosed'
    BY DEF StopInv, ClosingIsClosed
<1>. QED  BY <1>1, <1>2, <1>3 DEF StopInv, HolderIsNewer, StoppedStaysStopped

LEMMA CommandStops ==
    ASSUME ControllerAssumption, StopInv, NEW c \in Callers,
           \/ Command(c) \/ Close(c)
           \/ \E command \in {"play", "stop", "forward"} : Invoke(c, command)
    PROVE  /\ HolderLoads' /\ LaterIsUnborn' /\ StopsAreNoAttempts'
           /\ HolderIsNewer' /\ ClosingIsClosed' /\ StoppedStaysStopped'
<1>. USE DEF vars, user, channel
<1>1. ASSUME caller' = [caller EXCEPT ![c] = Idle]
      PROVE  /\ caller'[c].at = "idle"
             /\ \A d \in Callers : d # c => caller'[d] = caller[d]
    BY <1>1 DEF StopInv, Typed, Idle
<1>2. ASSUME NEW at, NEW h, Calls(c, at, h)
      PROVE  /\ caller'[c].at = at /\ caller'[c].generation = h
             /\ \A d \in Callers : d # c => caller'[d] = caller[d]
    BY <1>2 DEF StopInv, Typed, Calls
<1>3. CASE PlayAt(c)
    <2>. DEFINE g == generation + 1
    <2>1. g \in Generations /\ generation' = g /\ g > generation
        BY <1>3, Numbers DEF PlayAt, StopInv, Generations, ControllerAssumption
    <2>2. /\ attempt[g] = "none" /\ attempt'[g] = "resolving"
          /\ \A h \in Generations : h # g => attempt'[h] = attempt[h]
        BY <1>3, <2>1, GotoType, TypedIsTypeOK DEF PlayAt, StopInv, LaterIsUnborn, Stages
    <2>3. /\ UNCHANGED <<closed, loadMu, player, stopped>>
          /\ caller'[c].at = "idle"
          /\ \A d \in Callers : d # c => caller'[d] = caller[d]
        BY <1>1, <1>3 DEF PlayAt
    <2>. HIDE DEF g
    <2>4. HolderLoads'
        BY <2>2, <2>3 DEF StopInv, HolderLoads, Holding
    <2>5. LaterIsUnborn'
        BY <2>1, <2>2, Numbers DEF StopInv, LaterIsUnborn
    <2>6. ASSUME NEW h \in Nat, Stopping(h) PROVE h <= g /\ (h \in Generations => attempt'[h] = "none")
        BY <2>1, <2>2, <2>6, Numbers DEF StopInv, Stopping
    <2>7. StopsAreNoAttempts'
        BY <2>1, <2>3, <2>6, Numbers DEF StopInv, StopsAreNoAttempts, Stopping
    <2>8. ClosingIsClosed'
        BY <2>3 DEF StopInv, ClosingIsClosed
    <2>. QED  BY <2>8, <2>7, <2>5, <2>4, <2>3 DEF StopInv, HolderIsNewer, StoppedStaysStopped
<1>4. CASE Stop(c)
    <2>. DEFINE g == generation + 1
    <2>1. generation' = g /\ g > generation /\ g \in Nat
        BY <1>4, Numbers DEF Stop, StopInv
    <2>2. /\ UNCHANGED <<closed, loadMu, attempt, player, stopped>>
          /\ caller'[c].at = "stopping" /\ caller'[c].generation = g
          /\ \A d \in Callers : d # c => caller'[d] = caller[d]
        BY <1>2, <1>4 DEF Stop
    <2>. HIDE DEF g
    <2>3. LaterIsUnborn'
        BY <2>1, <2>2, Numbers DEF StopInv, LaterIsUnborn
    <2>4. g \in Generations => attempt[g] = "none"
        BY <2>1 DEF StopInv, LaterIsUnborn
    <2>5. StopsAreNoAttempts'
        BY <2>1, <2>2, <2>4, Numbers DEF StopInv, StopsAreNoAttempts, Stopping
    <2>6. ClosingIsClosed'
        BY <2>2 DEF StopInv, ClosingIsClosed
    <2>. QED  BY <2>6, <2>5, <2>3, <2>2 DEF StopInv, HolderLoads, HolderIsNewer, StoppedStaysStopped
<1>5. CASE StopPlayer(c)
    <2>1. /\ UNCHANGED <<generation, closed, loadMu, attempt>>
          /\ loadMu = Free /\ stopped' = caller[c].generation
          /\ caller'[c].at = "idle"
          /\ \A d \in Callers : d # c => caller'[d] = caller[d]
        BY <1>1, <1>5 DEF StopPlayer, MayStop
    <2>2. player'.plays = 0 /\ player'.closed = player.closed
        BY <1>5 DEF StopPlayer, StopInv, Typed
    <2>3. Stopping(caller[c].generation)
        BY <1>5 DEF StopPlayer, In, StopInv, StopsAreNoAttempts
    <2>4. StopsAreNoAttempts'
        BY <2>1, <2>3 DEF StopInv, StopsAreNoAttempts, Stopping
    <2>. QED  BY <2>1, <2>2, <2>4 DEF StopInv, HolderLoads, LaterIsUnborn, HolderIsNewer, ClosingIsClosed,
                                       StoppedStaysStopped
<1>6. CASE Forward(c)
    BY <1>1, <1>6, CallerMoves DEF Forward
<1>7. CASE CloseDone(c)
    <2>1. closed
        BY <1>7 DEF CloseDone, In, StopInv, ClosingIsClosed
    <2>. QED  BY <1>2, <1>7, <2>1, CallerMoves DEF CloseDone
<1>8. CASE ClosePlayer(c)
    <2>1. /\ UNCHANGED <<generation, closed, loadMu, attempt, stopped>>
          /\ loadMu = Free /\ closed
          /\ caller'[c].at = "idle"
          /\ \A d \in Callers : d # c => caller'[d] = caller[d]
        BY <1>1, <1>8 DEF ClosePlayer, In, StopInv, ClosingIsClosed
    <2>2. player'.plays = 0
        BY <1>8 DEF ClosePlayer
    <2>3. StopsAreNoAttempts'
        BY <2>1 DEF StopInv, StopsAreNoAttempts, Stopping
    <2>. QED  BY <2>1, <2>2, <2>3 DEF StopInv, HolderLoads, LaterIsUnborn, HolderIsNewer, ClosingIsClosed,
                                       StoppedStaysStopped
<1>9. CASE Close(c)
    BY <1>2, <1>9, CallerMoves DEF Close
<1>10. ASSUME NEW command \in {"play", "stop", "forward"}, Invoke(c, command)
       PROVE  /\ HolderLoads' /\ LaterIsUnborn' /\ StopsAreNoAttempts'
              /\ HolderIsNewer' /\ ClosingIsClosed' /\ StoppedStaysStopped'
    BY <1>2, <1>10, CallerMoves DEF Invoke
<1>. QED  BY <1>3, <1>4, <1>5, <1>6, <1>7, <1>8, <1>9, <1>10 DEF Command

LEMMA StopStep ==
    ASSUME ControllerAssumption, StopInv, [Next]_vars
    PROVE  StopInv'
<1>1. Typed'
    BY StepType DEF StopInv
<1>2. ASSUME UNCHANGED <<generation, closed, loadMu, attempt, caller, player, stopped>>
      PROVE  /\ HolderLoads' /\ LaterIsUnborn' /\ StopsAreNoAttempts'
             /\ HolderIsNewer' /\ ClosingIsClosed' /\ StoppedStaysStopped'
    BY <1>2 DEF StopInv, HolderLoads, LaterIsUnborn, StopsAreNoAttempts, Stopping, HolderIsNewer,
                ClosingIsClosed, StoppedStaysStopped
<1>3. CASE Relay \/ Consume \/ UNCHANGED vars
    <2>1. UNCHANGED <<generation, closed, loadMu, attempt, caller, player, stopped>>
        BY <1>3 DEF Relay, RelayReceive, RelaySend, RelayEnds, Consume, vars, user, channel
    <2>. QED  BY <1>1, <1>2, <2>1 DEF StopInv
<1>4. ASSUME NEW g \in Generations, Play(g) PROVE StopInv'
    BY <1>1, <1>4, PlayStops DEF StopInv
<1>5. ASSUME NEW c \in Callers,
             \/ Command(c) \/ Close(c)
             \/ \E command \in {"play", "stop", "forward"} : Invoke(c, command)
      PROVE  StopInv'
    BY <1>1, <1>5, CommandStops DEF StopInv
<1>. QED  BY <1>3, <1>4, <1>5 DEF Next

LEMMA InitStops ==
    ASSUME ControllerAssumption, Init
    PROVE  StopInv
<1>1. Typed
    BY InitType
<1>2. Free \notin Generations /\ "none" \notin Holding /\ 0 <= 0
    BY DEF Free, Generations, Holding, ControllerAssumption
<1>3. HolderLoads /\ LaterIsUnborn /\ ClosingIsClosed /\ HolderIsNewer /\ StoppedStaysStopped
    BY <1>2 DEF Init, HolderLoads, LaterIsUnborn, ClosingIsClosed, HolderIsNewer,
                StoppedStaysStopped, Idle
<1>4. StopsAreNoAttempts
    BY <1>2 DEF Init, StopsAreNoAttempts, Stopping, Idle, Free
<1>. QED  BY <1>1, <1>3, <1>4 DEF StopInv

\* What was asked for before a Stop that returned does not play after it, and
\* nothing plays in a closed player, for any number of callers and attempts.
THEOREM StopsAreFinal == Spec => []StoppedStaysStopped
<1>. USE ControllerAssumption
<1>1. ASSUME Init PROVE StopInv
    BY <1>1, InitStops
<1>2. StopInv => StoppedStaysStopped
    BY DEF StopInv
<1>. QED  BY <1>1, <1>2, StopStep, PTL DEF Spec

-------------------------------------------------------------------------------
(* The order of the events *)

\* An attempt that has announced its load, and is older than one about to.
Announced(h) ==
    /\ h <= generation
    /\ attempt[h] \notin {"none", "resolving", "resolved", "unresolved", "announcing"}
    /\ \A g \in Generations : attempt[g] = "announcing" => h < g

EventsAnnounced ==
    \A i \in DOMAIN events : events[i].kind # "error" => Announced(events[i].generation)

\* Whatever the player plays, the relay holds or the channel keeps was announced.
OrderInv ==
    /\ StopInv
    /\ player.plays # 0 => Announced(player.plays)
    /\ relay # 0 => Announced(relay)
    /\ EventsAnnounced
    /\ LoadsAreAnnouncedInOrder

\* An attempt that was announced stays so.
LEMMA AnnouncedStays ==
    ASSUME ControllerAssumption, StopInv, StopInv', [Next]_vars, NEW h \in Generations, Announced(h)
    PROVE  Announced(h)'
<1>. USE DEF vars, user, channel
<1>1. h <= generation'
    <2>1. generation' \in {generation, generation + 1}
        BY DEF Next, Command, PlayAt, Stop, StopPlayer, Forward, CloseDone, ClosePlayer, Close, Invoke,
               Play, Resolve, ResolveFails, ReportUnresolved, Lock, Announce, Load, LoadFails,
               Loaded, Failed, ReportFailed, Relay, RelayReceive, RelaySend, RelayEnds, Consume
    <2>. QED  BY <2>1, Numbers DEF StopInv, Announced
<1>2. CASE UNCHANGED attempt
    BY <1>1, <1>2 DEF Announced
<1>3. ASSUME NEW g \in Generations, NEW at \in Stages, Goto(g, at)
      PROVE  attempt'[g] = at /\ \A d \in Generations : d # g => attempt'[d] = attempt[d]
    BY <1>3, GotoType, TypedIsTypeOK DEF StopInv
<1>4. ASSUME NEW c \in Callers, PlayAt(c) PROVE Announced(h)'
    <2>1. generation + 1 \in Generations /\ h # generation + 1
        BY <1>4, Numbers DEF PlayAt, StopInv, Generations, ControllerAssumption, Announced
    <2>2. Goto(generation + 1, "resolving") /\ "resolving" \in Stages
        BY <1>4 DEF PlayAt, Stages
    <2>3. /\ attempt'[generation + 1] = "resolving"
          /\ \A d \in Generations : d # generation + 1 => attempt'[d] = attempt[d]
        BY <1>3, <2>1, <2>2
    <2>. QED  BY <1>1, <2>1, <2>3 DEF Announced
<1>5. ASSUME NEW g \in Generations, Lock(g) PROVE Announced(h)'
    <2>1. CASE ~Wanted(g)
        <3>1. attempt[g] = "resolved" /\ Goto(g, "ended") /\ "ended" \in Stages
            BY <1>5, <2>1 DEF Lock, Stages
        <3>. QED  BY <1>1, <1>3, <3>1 DEF Announced
    <2>2. CASE Wanted(g)
        <3>1. /\ attempt[g] = "resolved" /\ Goto(g, "announcing") /\ "announcing" \in Stages
              /\ g = generation
            BY <1>5, <2>2 DEF Lock, Stages, Wanted
        <3>2. h < g
            BY <3>1, Numbers DEF StopInv, Announced
        <3>. QED  BY <1>1, <1>3, <3>1, <3>2 DEF Announced
    <2>. QED  BY <2>1, <2>2
<1>6. ASSUME NEW g \in Generations,
             NEW at \in {"resolved", "unresolved", "loading", "loaded", "failed", "reporting", "ended"},
             Goto(g, at), attempt[g] = "resolving" \/ at \notin {"resolved", "unresolved"}
      PROVE  Announced(h)'
    <2>1. at \in Stages
        BY DEF Stages
    <2>. QED  BY <1>1, <1>3, <1>6, <2>1 DEF Announced
<1>7. ASSUME NEW g \in Generations, Play(g), ~Lock(g) PROVE Announced(h)'
    <2>1. CASE Resolve(g) \/ ResolveFails(g) \/ ReportUnresolved(g)
        BY <1>6, <2>1 DEF Resolve, ResolveFails, ReportUnresolved
    <2>2. CASE Announce(g) \/ Load(g) \/ LoadFails(g)
        BY <1>6, <2>2 DEF Announce, Load, LoadFails
    <2>3. CASE Loaded(g) \/ Failed(g) \/ ReportFailed(g)
        BY <1>6, <2>3 DEF Loaded, Failed, ReportFailed, Unlock
    <2>. QED  BY <1>7, <2>1, <2>2, <2>3 DEF Play
<1>8. ASSUME NEW c \in Callers, ~PlayAt(c),
             \/ Command(c) \/ Close(c)
             \/ \E command \in {"play", "stop", "forward"} : Invoke(c, command)
      PROVE  UNCHANGED attempt
    BY <1>8 DEF Command, Stop, StopPlayer, Forward, CloseDone, ClosePlayer, Close, Invoke
<1>9. CASE Relay \/ Consume \/ UNCHANGED vars
    BY <1>2, <1>9 DEF Relay, RelayReceive, RelaySend, RelayEnds, Consume
<1>. QED  BY <1>2, <1>4, <1>5, <1>7, <1>8, <1>9 DEF Next

LEMMA AppendEvent ==
    ASSUME NEW s \in Seq(Events), NEW e
    PROVE  \A i \in DOMAIN Append(s, e) :
                \/ i \in DOMAIN s /\ Append(s, e)[i] = s[i]
                \/ i = Len(s) + 1 /\ Append(s, e)[i] = e /\ \A j \in DOMAIN s : j < i
OBVIOUS

LEMMA TailEvent ==
    ASSUME NEW s \in Seq(Events), s # <<>>
    PROVE  \A i \in DOMAIN Tail(s) : i \in Nat /\ i + 1 \in DOMAIN s /\ Tail(s)[i] = s[i + 1]
OBVIOUS

\* The attempt of the channel's events, and of an event about to enter it.
LEMMA EventFields ==
    ASSUME Typed
    PROVE  \A i \in DOMAIN events : events[i] \in Events
BY DEF Typed

\* The loads the channel keeps stay announced.
LEMMA KeptEvent ==
    ASSUME ControllerAssumption, OrderInv, StopInv', [Next]_vars,
           NEW i \in DOMAIN events, events[i].kind # "error", NEW h, h = events[i].generation
    PROVE  h \in Generations /\ Announced(h) /\ Announced(h)'
<1>1. h \in Generations /\ Announced(h)
    BY EventFields DEF OrderInv, StopInv, Events, EventsAnnounced
<1>. QED  BY <1>1, AnnouncedStays DEF OrderInv

LEMMA EventsStay ==
    ASSUME ControllerAssumption, OrderInv, StopInv', [Next]_vars, events' = events
    PROVE  EventsAnnounced' /\ LoadsAreAnnouncedInOrder'
<1>1. ASSUME NEW i \in DOMAIN events', events'[i].kind # "error", NEW h, h = events'[i].generation
      PROVE  Announced(h)'
    BY <1>1, KeptEvent
<1>2. EventsAnnounced'
    BY <1>1 DEF EventsAnnounced, Announced
<1>3. LoadsAreAnnouncedInOrder'
    BY DEF OrderInv, LoadsAreAnnouncedInOrder
<1>. QED  BY <1>2, <1>3

LEMMA EventsShift ==
    ASSUME ControllerAssumption, OrderInv, StopInv', [Next]_vars, events # <<>>, events' = Tail(events)
    PROVE  EventsAnnounced' /\ LoadsAreAnnouncedInOrder'
<1>1. events \in Seq(Events)
    BY DEF OrderInv, StopInv, Typed
<1>2. \A i \in DOMAIN events' : i \in Nat /\ i + 1 \in DOMAIN events /\ events'[i] = events[i + 1]
    BY <1>1, TailEvent
<1>3. ASSUME NEW i \in DOMAIN events', events'[i].kind # "error", NEW h, h = events'[i].generation
      PROVE  Announced(h)'
    BY <1>2, <1>3, KeptEvent
<1>4. EventsAnnounced'
    BY <1>3 DEF EventsAnnounced, Announced
<1>5. LoadsAreAnnouncedInOrder'
    BY <1>2 DEF OrderInv, LoadsAreAnnouncedInOrder
<1>. QED  BY <1>4, <1>5

\* An event enters: a load that is newer than all, or an event of what plays.
LEMMA EventEnters ==
    ASSUME ControllerAssumption, OrderInv, StopInv', [Next]_vars,
           NEW kind, NEW g, events' = Append(events, [kind |-> kind, generation |-> g]),
           kind # "error" => Announced(g)',
           kind = "started" => g \in Generations /\ attempt[g] = "announcing"
    PROVE  EventsAnnounced' /\ LoadsAreAnnouncedInOrder'
<1>. DEFINE e == [kind |-> kind, generation |-> g]
<1>1. events \in Seq(Events)
    BY DEF OrderInv, StopInv, Typed
<1>2. e.kind = kind /\ e.generation = g /\ events' = Append(events, e)
    OBVIOUS
<1>. HIDE DEF e
<1>3. \A i \in DOMAIN events' :
        \/ i \in DOMAIN events /\ events'[i] = events[i]
        \/ i = Len(events) + 1 /\ events'[i] = e /\ \A j \in DOMAIN events : j < i
    BY <1>1, <1>2, AppendEvent
<1>4. ASSUME NEW i \in DOMAIN events', events'[i].kind # "error", NEW h, h = events'[i].generation
      PROVE  Announced(h)'
    BY <1>2, <1>3, <1>4, KeptEvent
<1>5. EventsAnnounced'
    BY <1>4 DEF EventsAnnounced, Announced
<1>6. ASSUME NEW i \in DOMAIN events', NEW j \in DOMAIN events', i < j,
             events'[i].kind # "error", events'[j].kind = "started"
      PROVE  events'[i].generation < events'[j].generation
    <2>1. i \in DOMAIN events /\ events'[i] = events[i]
        <3>1. CASE i = Len(events) + 1
            <4>1. j \in Nat /\ j <= Len(events) + 1 /\ Len(events) \in Nat
                BY <1>1, <1>2
            <4>. QED  BY <1>6, <3>1, <4>1
        <3>. QED  BY <1>3, <3>1
    <2>2. CASE j \in DOMAIN events /\ events'[j] = events[j]
        BY <1>6, <2>1, <2>2 DEF OrderInv, LoadsAreAnnouncedInOrder
    <2>3. CASE events'[j] = e
        <3>1. Announced(events[i].generation)
            BY <1>6, <2>1, KeptEvent
        <3>. QED  BY <1>2, <1>6, <2>1, <2>3, <3>1 DEF Announced
    <2>. QED  BY <1>3, <2>2, <2>3
<1>7. LoadsAreAnnouncedInOrder'
    BY <1>6 DEF LoadsAreAnnouncedInOrder
<1>. QED  BY <1>5, <1>7

\* What the player plays and the relay holds.
PlaysAnnounced == player.plays # 0 => Announced(player.plays)
RelayAnnounced == relay # 0 => Announced(relay)

LEMMA PlaysStay ==
    ASSUME ControllerAssumption, OrderInv, StopInv', [Next]_vars, player'.plays \in {0, player.plays}
    PROVE  PlaysAnnounced'
<1>1. ASSUME player.plays # 0, NEW h, h = player.plays PROVE Announced(h)'
    <2>1. h \in Generations /\ Announced(h)
        BY <1>1, SMTT(30) DEF OrderInv, StopInv, Typed, Generations, ControllerAssumption
    <2>. QED  BY <2>1, AnnouncedStays DEF OrderInv
<1>. QED  BY <1>1 DEF PlaysAnnounced, Announced

LEMMA RelayStays ==
    ASSUME ControllerAssumption, OrderInv, StopInv', [Next]_vars, relay' \in {0, relay}
    PROVE  RelayAnnounced'
<1>1. ASSUME relay # 0, NEW h, h = relay PROVE Announced(h)'
    <2>1. h \in Generations /\ Announced(h)
        BY <1>1 DEF OrderInv, StopInv, Typed, Generations, ControllerAssumption
    <2>. QED  BY <2>1, AnnouncedStays DEF OrderInv
<1>. QED  BY <1>1 DEF RelayAnnounced, Announced

\* The holder of the mutex, once it has announced its load.
LEMMA HolderAnnounced ==
    ASSUME ControllerAssumption, StopInv, NEW g \in Generations, attempt[g] \in Holding \ {"announcing"}
    PROVE  Announced(g)
<1>1. \A h \in Generations : attempt[h] = "announcing" => h = g
    BY DEF StopInv, HolderLoads, Holding
<1>2. ~(g > generation)
    BY DEF StopInv, LaterIsUnborn, Holding
<1>3. g <= generation
    BY <1>2, Numbers DEF StopInv
<1>. QED  BY <1>1, <1>3 DEF Announced, Holding

LEMMA OrderStep ==
    ASSUME ControllerAssumption, OrderInv, [Next]_vars
    PROVE  OrderInv'
<1>. USE DEF vars, user, channel
<1>0. StopInv'
    BY StopStep DEF OrderInv
<1>. DEFINE Order == PlaysAnnounced' /\ RelayAnnounced' /\ EventsAnnounced' /\ LoadsAreAnnouncedInOrder'
<1>1. SUFFICES Order
    BY <1>0 DEF OrderInv, PlaysAnnounced, RelayAnnounced
<1>2. ASSUME player'.plays \in {0, player.plays}, relay' \in {0, relay}, events' = events PROVE Order
    BY <1>0, <1>2, PlaysStay, RelayStays, EventsStay
<1>3. ASSUME UNCHANGED <<player, relay, events>> PROVE Order
    BY <1>2, <1>3
<1>4. ASSUME NEW g \in Generations, NEW kind \in {"started", "error"}, Emit(kind, g),
             UNCHANGED <<player, relay>>,
             kind = "started" => attempt[g] = "announcing" /\ attempt'[g] = "loading"
      PROVE  Order
    <2>1. CASE events' = events
        BY <1>3, <1>4, <2>1
    <2>2. CASE events' = Append(events, [kind |-> kind, generation |-> g])
        <3>1. ASSUME kind = "started" PROVE Announced(g)'
            <4>1. attempt'[g] \in Holding \ {"announcing"}
                BY <1>4, <3>1 DEF Holding
            <4>2. \A h \in Generations : attempt'[h] = "announcing" => h = g
                BY <1>0, <4>1 DEF StopInv, HolderLoads, Holding
            <4>3. ~(g > generation')
                BY <1>0, <4>1 DEF StopInv, LaterIsUnborn, Holding
            <4>4. generation' \in Nat /\ g \in Nat
                BY <1>0 DEF StopInv, Typed, ControllerAssumption, Generations
            <4>. QED  BY <4>1, <4>2, <4>3, <4>4 DEF Announced, Holding
        <3>2. EventsAnnounced' /\ LoadsAreAnnouncedInOrder'
            BY <1>0, <1>4, <2>2, <3>1, EventEnters
        <3>. QED  BY <1>0, <1>4, <3>2, PlaysStay, RelayStays
    <2>. QED  BY <1>4, <2>1, <2>2 DEF Emit
<1>5. ASSUME NEW c \in Callers,
             \/ Command(c) \/ Close(c)
             \/ \E command \in {"play", "stop", "forward"} : Invoke(c, command)
      PROVE  Order
    <2>1. relay' = relay /\ events' = events
        BY <1>5 DEF Command, PlayAt, Stop, StopPlayer, Forward, CloseDone, ClosePlayer, Close, Invoke
    <2>2. CASE StopPlayer(c)
        BY <1>2, <2>1, <2>2 DEF StopPlayer, OrderInv, StopInv, Typed
    <2>3. CASE ClosePlayer(c)
        BY <1>2, <2>1, <2>3 DEF ClosePlayer
    <2>4. CASE ~StopPlayer(c) /\ ~ClosePlayer(c)
        BY <1>3, <1>5, <2>4 DEF Command, PlayAt, Stop, Forward, CloseDone, Close, Invoke
    <2>. QED  BY <2>2, <2>3, <2>4
<1>6. ASSUME NEW g \in Generations, ReportUnresolved(g) \/ ReportFailed(g) PROVE Order
    BY <1>4, <1>6 DEF ReportUnresolved, ReportFailed
<1>7. ASSUME NEW g \in Generations, Announce(g) PROVE Order
    <2>1. attempt[g] = "announcing" /\ attempt'[g] = "loading" /\ Emit("started", g)
        BY <1>7, GotoType, TypedIsTypeOK DEF Announce, OrderInv, StopInv, Stages
    <2>. QED  BY <1>4, <1>7, <2>1 DEF Announce
<1>8. ASSUME NEW g \in Generations, Load(g) PROVE Order
    <2>1. player'.plays = g /\ attempt[g] = "loading"
        BY <1>8 DEF Load, OrderInv, StopInv, Typed
    <2>2. Announced(g)
        BY <2>1, HolderAnnounced DEF OrderInv, Holding
    <2>3. Announced(g)'
        BY <1>0, <2>2, AnnouncedStays DEF OrderInv
    <2>4. PlaysAnnounced'
        BY <2>1, <2>3 DEF PlaysAnnounced, Announced
    <2>. QED  BY <1>0, <1>8, <2>4, RelayStays, EventsStay DEF Load
<1>9. ASSUME NEW g \in Generations, LoadFails(g) PROVE Order
    <2>1. player'.plays \in {0, player.plays}
        BY <1>9 DEF LoadFails, OrderInv, StopInv, Typed
    <2>. QED  BY <1>2, <1>9, <2>1 DEF LoadFails
<1>10. ASSUME NEW g \in Generations,
              Resolve(g) \/ ResolveFails(g) \/ Lock(g) \/ Loaded(g) \/ Failed(g)
       PROVE  Order
    BY <1>3, <1>10 DEF Resolve, ResolveFails, Lock, Loaded, Failed
<1>11. CASE RelayReceive
    <2>1. relay' = player.plays /\ UNCHANGED <<player, events>> /\ player.plays # 0
        BY <1>11 DEF RelayReceive
    <2>2. PlaysAnnounced'
        BY <1>0, <2>1, PlaysStay
    <2>3. RelayAnnounced'
        BY <2>1, <2>2 DEF PlaysAnnounced, RelayAnnounced, Announced
    <2>. QED  BY <1>0, <2>1, <2>2, <2>3, EventsStay
<1>12. CASE RelaySend
    <2>1. /\ relay' = 0 /\ relay # 0 /\ player' = player
          /\ events' = Append(events, [kind |-> "player", generation |-> relay])
        BY <1>12 DEF RelaySend
    <2>2. ASSUME NEW h, h = relay PROVE h \in Generations /\ Announced(h) /\ Announced(h)'
        <3>1. h \in Generations /\ Announced(h)
            BY <2>1, <2>2 DEF OrderInv, StopInv, Typed, Generations, ControllerAssumption
        <3>. QED  BY <1>0, <3>1, AnnouncedStays DEF OrderInv
    <2>3. PICK h : h = relay
        OBVIOUS
    <2>4. events' = Append(events, [kind |-> "player", generation |-> h]) /\ Announced(h)'
        BY <2>1, <2>2, <2>3
    <2>5. EventsAnnounced' /\ LoadsAreAnnouncedInOrder'
        BY <1>0, <2>4, EventEnters
    <2>. QED  BY <1>0, <2>1, <2>5, PlaysStay, RelayStays
<1>13. CASE Consume
    <2>1. EventsAnnounced' /\ LoadsAreAnnouncedInOrder'
        BY <1>0, <1>13, EventsShift DEF Consume
    <2>. QED  BY <1>0, <1>13, <2>1, PlaysStay, RelayStays DEF Consume
<1>14. CASE RelayEnds \/ UNCHANGED vars
    BY <1>3, <1>14 DEF RelayEnds
<1>. QED  BY <1>5, <1>6, <1>7, <1>8, <1>9, <1>10, <1>11, <1>12, <1>13, <1>14 DEF Next, Play, Relay

\* The loads of the channel come in the order of their generations, each before
\* the events of its own playback, for any capacity and any reader.
THEOREM LoadsAreInOrder == Spec => []LoadsAreAnnouncedInOrder
<1>. USE ControllerAssumption
<1>1. ASSUME Init PROVE StopInv
    BY <1>1, InitStops
<1>2. ASSUME Init PROVE OrderInv
    <2>1. player.plays = 0 /\ relay = 0
        BY <1>2 DEF Init
    <2>2. events = <<>> /\ DOMAIN events = {}
        BY <1>2 DEF Init
    <2>. QED  BY <1>1, <1>2, <2>1, <2>2 DEF OrderInv, EventsAnnounced, LoadsAreAnnouncedInOrder
<1>3. OrderInv => LoadsAreAnnouncedInOrder
    BY DEF OrderInv
<1>. QED  BY <1>2, <1>3, OrderStep, PTL DEF Spec
===============================================================================
