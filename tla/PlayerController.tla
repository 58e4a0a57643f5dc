---------------------------- MODULE PlayerController ----------------------------
(* The orchestration of the one native player                                   *)
(* (internal/playback/controller.go): every PlayAt starts a goroutine that      *)
(* resolves and loads under its own generation, while the user plays something  *)
(* else, stops or closes; loads and stops are serialised by loadMu, and the     *)
(* events of all of them leave on one bounded channel.                          *)
(*                                                                              *)
(* A request and its plan are the generation of the attempt that made it.  The  *)
(* resolver, the player behind domain.Player and the reader of the events are   *)
(* external: a resolver may ignore a cancellation, a player plays what it       *)
(* loaded until it is told otherwise, and only Close closes its channel.        *)
EXTENDS Naturals, Sequences

CONSTANTS
    Callers,                    \* goroutines of the user interface
    EventCap,                   \* capacity of the events channel, 64 in the code
    MaxPlays, MaxGenerations    \* bounds: the last generation a play and a stop may take

ASSUME ControllerAssumption ==
    /\ EventCap \in Nat \ {0}
    /\ MaxGenerations \in Nat /\ MaxPlays \in 0..MaxGenerations
    /\ Callers \cap Nat = {}

Generations == 1..MaxPlays
Free == 0

VARIABLES
    generation,     \* playGeneration
    cancel,         \* the attempt cancelResolution cancels; 0 when nil
    cancelled,      \* attempts whose context is cancelled
    current,        \* the attempt of the current request and title; 0 when empty
    closed, done,   \* the flag, the channel
    loadMu,         \* the attempt that holds it, or Free
    attempt,        \* generation -> how far its goroutine is
    caller,         \* caller -> the command it is in
    events,         \* the channel to the interface
    relay,          \* the generation of the event in its hands; 0 when it waits
    eventsClosed,   \* the relay has ended, and closed the channel
    player,         \* the attempt it plays (0: none), and whether it is closed
    stopped,        \* history: the generation of the last Stop that returned
    panicked        \* a send on the closed channel ends the process

user == <<generation, cancel, cancelled, current>>
channel == <<events, relay, eventsClosed>>
vars == <<user, closed, done, loadMu, attempt, caller, channel, player, stopped, panicked>>

Idle == [at |-> "idle", generation |-> 0]

Init ==
    /\ generation = 0 /\ cancel = 0 /\ cancelled = {} /\ current = 0
    /\ closed = FALSE /\ done = FALSE /\ loadMu = Free
    /\ attempt = [g \in Generations |-> "none"]
    /\ caller = [c \in Callers |-> Idle]
    /\ events = <<>> /\ relay = 0 /\ eventsClosed = FALSE
    /\ player = [plays |-> 0, closed |-> FALSE]
    /\ stopped = 0 /\ panicked = FALSE

Goto(g, at) == attempt' = [attempt EXCEPT ![g] = at]
In(c, at) == caller[c].at = at
Calls(c, at, g) == caller' = [caller EXCEPT ![c] = [at |-> at, generation |-> g]]

\* Mutant: the send does not give up when the controller closes.
EmitBlocking(kind, g) ==
    /\ ~eventsClosed /\ Len(events) < EventCap
    /\ events' = Append(events, [kind |-> kind, generation |-> g])
    /\ UNCHANGED panicked

\* select: the send when there is room, the done channel when it is closed.  The
\* send is also ready on a closed channel, and panics.
Emit(kind, g) ==
    \/ /\ ~eventsClosed /\ Len(events) < EventCap
       /\ events' = Append(events, [kind |-> kind, generation |-> g])
       /\ UNCHANGED panicked
    \/ done /\ UNCHANGED <<events, panicked>>
    \/ eventsClosed /\ panicked' = TRUE /\ UNCHANGED events

-------------------------------------------------------------------------------
(* The commands. *)

\* Every command but Close answers ErrClosed first of all.
Invoke(c, command) ==
    /\ In(c, "idle") /\ ~closed
    /\ Calls(c, command, 0)
    /\ UNCHANGED <<user, closed, done, loadMu, attempt, channel, player, stopped, panicked>>

Interrupted == cancelled \cup ({cancel} \ {0})

PlayAt(c) ==
    /\ In(c, "play") /\ generation < MaxPlays
    /\ generation' = generation + 1
    /\ cancelled' = Interrupted
    /\ cancel' = generation + 1
    /\ Goto(generation + 1, "resolving")
    /\ caller' = [caller EXCEPT ![c] = Idle]
    /\ UNCHANGED <<current, closed, done, loadMu, channel, player, stopped, panicked>>

\* The generation of a Stop is one no attempt has.
Stop(c) ==
    /\ In(c, "stop") /\ generation < MaxGenerations
    /\ generation' = generation + 1
    /\ cancelled' = Interrupted
    /\ cancel' = 0
    /\ current' = 0
    /\ Calls(c, "stopping", generation + 1)
    /\ UNCHANGED <<closed, done, loadMu, attempt, channel, player, stopped, panicked>>

\* Mutant: Stop does not wait for the load in progress.
MayStopAtOnce(c) == TRUE

\* The two calls into the player that wait for the load in progress.
MayStop(c) == loadMu = Free

StopPlayer(c) ==
    /\ In(c, "stopping") /\ MayStop(c)
    /\ player' = [player EXCEPT !.plays = 0]
    /\ stopped' = caller[c].generation
    /\ caller' = [caller EXCEPT ![c] = Idle]
    /\ UNCHANGED <<user, closed, done, loadMu, attempt, channel, panicked>>

\* Seek, volume, speed, tracks, devices, pause and the rest: once past the check,
\* the call goes to the player without a lock, and changes nothing here.
Forward(c) ==
    /\ In(c, "forward")
    /\ caller' = [caller EXCEPT ![c] = Idle]
    /\ UNCHANGED <<user, closed, done, loadMu, attempt, channel, player, stopped, panicked>>

Close(c) ==
    /\ In(c, "idle") /\ ~closed
    /\ closed' = TRUE
    /\ Calls(c, "close", 0)
    /\ UNCHANGED <<user, done, loadMu, attempt, channel, player, stopped, panicked>>

CloseDone(c) ==
    /\ In(c, "close")
    /\ cancelled' = Interrupted
    /\ done' = TRUE
    /\ Calls(c, "closing", 0)
    /\ UNCHANGED <<generation, cancel, current, closed, loadMu, attempt, channel, player,
                   stopped, panicked>>

ClosePlayer(c) ==
    /\ In(c, "closing") /\ loadMu = Free
    /\ player' = [plays |-> 0, closed |-> TRUE]
    /\ caller' = [caller EXCEPT ![c] = Idle]
    /\ UNCHANGED <<user, closed, done, loadMu, attempt, channel, stopped, panicked>>

-------------------------------------------------------------------------------
(* The goroutine of an attempt: play. *)

Resolve(g) ==
    /\ attempt[g] = "resolving"
    /\ Goto(g, "resolved")
    /\ UNCHANGED <<user, closed, done, loadMu, caller, channel, player, stopped, panicked>>

ResolveFails(g) ==
    /\ attempt[g] = "resolving"
    /\ Goto(g, IF g \in cancelled THEN "ended" ELSE "unresolved")
    /\ UNCHANGED <<user, closed, done, loadMu, caller, channel, player, stopped, panicked>>

ReportUnresolved(g) ==
    /\ attempt[g] = "unresolved"
    /\ Emit("error", g)
    /\ Goto(g, "ended")
    /\ UNCHANGED <<user, closed, done, loadMu, caller, relay, eventsClosed, player, stopped>>

\* Mutant: what was resolved is loaded whatever came after.
UncheckedWanted(g) == TRUE

\* What was resolved too late is not loaded.
Wanted(g) == g = generation /\ g \notin cancelled /\ ~closed

Lock(g) ==
    /\ attempt[g] = "resolved" /\ loadMu = Free
    /\ IF Wanted(g)
       THEN loadMu' = g /\ Goto(g, "announcing")
       ELSE UNCHANGED loadMu /\ Goto(g, "ended")
    /\ UNCHANGED <<user, closed, done, caller, channel, player, stopped, panicked>>

Announce(g) ==
    /\ attempt[g] = "announcing"
    /\ Emit("started", g)
    /\ Goto(g, "loading")
    /\ UNCHANGED <<user, closed, done, loadMu, caller, relay, eventsClosed, player, stopped>>

Load(g) ==
    /\ attempt[g] = "loading"
    /\ player' = [player EXCEPT !.plays = g]
    /\ Goto(g, "loaded")
    /\ UNCHANGED <<user, closed, done, loadMu, caller, channel, stopped, panicked>>

\* The player may have dropped what it played before.
LoadFails(g) ==
    /\ attempt[g] = "loading"
    /\ \E plays \in {0, player.plays} : player' = [player EXCEPT !.plays = plays]
    /\ Goto(g, "failed")
    /\ UNCHANGED <<user, closed, done, loadMu, caller, channel, stopped, panicked>>

Active(g) == g = generation /\ ~closed

Unlock(g) == loadMu' = Free /\ Goto(g, "ended")

Loaded(g) ==
    /\ attempt[g] = "loaded"
    /\ current' = IF Active(g) THEN g ELSE current
    /\ Unlock(g)
    /\ UNCHANGED <<generation, cancel, cancelled, closed, done, caller, channel, player,
                   stopped, panicked>>

Failed(g) ==
    /\ attempt[g] = "failed"
    /\ IF Active(g) /\ g \notin cancelled
       THEN Goto(g, "reporting") /\ UNCHANGED loadMu
       ELSE Unlock(g)
    /\ UNCHANGED <<user, closed, done, caller, channel, player, stopped, panicked>>

\* Still under loadMu.
ReportFailed(g) ==
    /\ attempt[g] = "reporting"
    /\ Emit("error", g)
    /\ Unlock(g)
    /\ UNCHANGED <<user, closed, done, caller, relay, eventsClosed, player, stopped>>

-------------------------------------------------------------------------------
(* The relay and the reader of the events. *)

RelayReceive ==
    /\ ~eventsClosed /\ relay = 0 /\ player.plays # 0
    /\ relay' = player.plays
    /\ UNCHANGED <<user, closed, done, loadMu, attempt, caller, events, eventsClosed, player, stopped, panicked>>

RelaySend ==
    /\ ~eventsClosed /\ relay # 0 /\ Len(events) < EventCap
    /\ events' = Append(events, [kind |-> "player", generation |-> relay])
    /\ relay' = 0
    /\ UNCHANGED <<user, closed, done, loadMu, attempt, caller, eventsClosed, player, stopped, panicked>>

\* The relay alone closes the channel of the events.
RelayEnds ==
    /\ ~eventsClosed /\ (done \/ (relay = 0 /\ player.closed))
    /\ eventsClosed' = TRUE
    /\ UNCHANGED <<user, closed, done, loadMu, attempt, caller, events, relay, player, stopped, panicked>>

Consume ==
    /\ events # <<>>
    /\ events' = Tail(events)
    /\ UNCHANGED <<user, closed, done, loadMu, attempt, caller, relay, eventsClosed, player, stopped, panicked>>

Command(c) ==
    \/ PlayAt(c) \/ Stop(c) \/ StopPlayer(c) \/ Forward(c) \/ CloseDone(c) \/ ClosePlayer(c)

Play(g) ==
    \/ Resolve(g) \/ ResolveFails(g) \/ ReportUnresolved(g)
    \/ Lock(g) \/ Announce(g) \/ Load(g) \/ LoadFails(g)
    \/ Loaded(g) \/ Failed(g) \/ ReportFailed(g)

Relay == RelayReceive \/ RelaySend \/ RelayEnds

Next ==
    /\ ~panicked
    /\ \/ \E c \in Callers :
            Close(c) \/ Command(c) \/ \E command \in {"play", "stop", "forward"} : Invoke(c, command)
       \/ \E g \in Generations : Play(g)
       \/ Relay
       \/ Consume

\* Goroutines run, the resolver and the player answer; nobody has to read the
\* events, and nobody has to give a command.
Fairness ==
    /\ \A c \in Callers : WF_vars(~panicked /\ (CloseDone(c) \/ ClosePlayer(c)))
    /\ \A c \in Callers : SF_vars(~panicked /\ StopPlayer(c))
    /\ \A g \in Generations : SF_vars(~panicked /\ Play(g))
    /\ WF_vars(~panicked /\ RelayEnds)

Spec == Init /\ [][Next]_vars /\ Fairness

-------------------------------------------------------------------------------
\* Every variable stays within its type.
TypeOK ==
    /\ generation \in 0..MaxGenerations /\ cancel \in 0..MaxPlays
    /\ cancelled \subseteq Generations /\ current \in 0..MaxPlays
    /\ closed \in BOOLEAN /\ done \in BOOLEAN /\ panicked \in BOOLEAN
    /\ loadMu \in 0..MaxPlays
    /\ attempt \in [Generations ->
            {"none", "resolving", "resolved", "unresolved", "announcing", "loading", "loaded",
             "failed", "reporting", "ended"}]
    /\ caller \in [Callers ->
            [at : {"idle", "play", "stop", "stopping", "forward", "close", "closing"},
             generation : 0..MaxGenerations]]
    /\ events \in Seq([kind : {"started", "player", "error"}, generation : Generations])
    /\ Len(events) <= EventCap
    /\ relay \in 0..MaxPlays /\ eventsClosed \in BOOLEAN
    /\ player \in [plays : 0..MaxPlays, closed : BOOLEAN]
    /\ stopped \in 0..MaxGenerations

\* What was asked for before a Stop does not play after it, whatever was resolving
\* or loading, and nothing plays in a closed player (controller.go Stop, play).
StoppedStaysStopped ==
    /\ player.plays = 0 \/ player.plays > stopped
    /\ player.closed => player.plays = 0

\* "A generation is monotonic" (ports.go:140): the loads of the stream come in the
\* order of their generations, each before the events of its own playback.
LoadsAreAnnouncedInOrder ==
    \A i, j \in DOMAIN events :
        i < j /\ events[i].kind # "error" /\ events[j].kind = "started" =>
            events[i].generation < events[j].generation

\* Close returns even when nobody reads the events, whatever was loading, and a
\* Stop too unless the reader has left the channel full (controller.go emit, Close).
CallsReturn ==
    \A c \in Callers :
        /\ In(c, "close") \/ In(c, "closing") ~> In(c, "idle") \/ panicked
        /\ In(c, "stopping") ~> In(c, "idle") \/ panicked \/ Len(events) = EventCap
===============================================================================
