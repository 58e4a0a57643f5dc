----------------------------- MODULE PlaybackQueue -----------------------------
(***************************************************************************)
(* The persistent playback queue (storage/queue.go, services/queue.go) and *)
(* the part of playerStore.ts that drives it.                              *)
(*                                                                         *)
(* A command of the user is an asynchronous call: the store sends an RPC,  *)
(* the backend first looks up the active profile, then works on the queue  *)
(* of that profile in one or more statements, and when it has answered     *)
(* most commands read the queue back into the store.  Commands overlap:    *)
(* the database has one connection, so a statement or a transaction is one *)
(* step, and anything may happen between two of them.                      *)
(***************************************************************************)
EXTENDS Integers, Sequences, FiniteSets

CONSTANTS
  Profiles,
  Default,        \* the profile that is active at the start
  Videos,
  MaxQueueItems,  \* maxQueueItems of queue.go, MAX_QUEUE_ITEMS of playerStore.ts
  MaxItems,       \* bound on the rows ever inserted
  MaxCommands,    \* bound on the commands of the user
  MaxStored,      \* the rows an earlier run of the program left
  MaxCalls,       \* bound on the commands under way at once
  None

ASSUME QueueAssumption ==
  /\ Default \in Profiles
  /\ {MaxCalls, MaxQueueItems, MaxItems, MaxCommands, MaxStored} \subseteq Nat
  /\ None \notin 1..MaxItems
  /\ None \notin Profiles
  /\ MaxStored <= MaxQueueItems /\ MaxStored <= MaxItems
  /\ \E t \in [1..MaxStored -> Videos] : \A m, n \in 1..MaxStored : t[m] = t[n] => m = n

VARIABLES
  active,        \* the profile of SettingActiveProfile
  queue,         \* playback_queue: per profile, item id -> row
  removePlayed,  \* playback_queue_preferences.remove_played, per profile
  issued,        \* item ids given out so far
  ui,            \* PlayerState: queue, removePlayed, currentQueueItemId, playing
  calls,         \* the commands under way
  commands       \* commands given so far

vars == <<active, queue, removePlayed, issued, ui, calls, commands>>

Calls == 1..MaxCalls
Ids == 1..MaxItems
States == {"pending", "played"}
Row == [video : Videos, pos : 0..MaxItems, state : States]
Rows == UNION {[S -> Row] : S \in SUBSET Ids}
Shown == [item : Ids, video : Videos, state : States]

Ops == {"add", "remove", "clear", "next", "reorder", "reset", "prefs", "refresh"}
Pcs == {"idle", "route", "decide", "apply", "normalize", "reload", "snapshot", "deliver"}
Call == [pc : Pcs, op : Ops, item : Ids \cup {None}, video : Videos \cup {None}, order : Seq(Ids),
         flag : BOOLEAN, prev : Nat, profile : Profiles \cup {None}, snap : Seq(Shown), remove : BOOLEAN]
Idle == [pc |-> "idle", op |-> "refresh", item |-> None, video |-> None, order |-> <<>>,
         flag |-> FALSE, prev |-> 0, profile |-> None, snap |-> <<>>, remove |-> FALSE]

TypeOK ==
  /\ active \in Profiles
  /\ queue \in [Profiles -> Rows]
  /\ removePlayed \in [Profiles -> BOOLEAN]
  /\ issued \in 0..MaxItems
  /\ ui \in [queue : Seq(Shown), remove : BOOLEAN, current : Ids \cup {None}, playing : BOOLEAN]
  /\ calls \in [Calls -> Call]
  /\ commands \in 0..MaxCommands

-----------------------------------------------------------------------------
(* The rows of one profile. *)

\* ORDER BY position, id
Before(q, i, j) == q[i].pos < q[j].pos \/ (q[i].pos = q[j].pos /\ i < j)

\* Mutant: ORDER BY id.
RankById(q, i) == Cardinality({j \in DOMAIN q : j < i})

Rank(q, i) == Cardinality({j \in DOMAIN q : Before(q, j, i)})

\* The items of a queue in the order they are listed.
Listed(q) ==
  [n \in 1..Cardinality(DOMAIN q) |->
     LET i == CHOOSE i \in DOMAIN q : Rank(q, i) = n - 1
     IN  [item |-> i, video |-> q[i].video, state |-> q[i].state]]

\* normalizeQueuePositions: positions 0, 1, 2, ... in the order of the list.
Normalized(q) == [i \in DOMAIN q |-> [q[i] EXCEPT !.pos = Rank(q, i)]]

With(q, i, row) == [j \in DOMAIN q \cup {i} |-> IF j = i THEN row ELSE q[j]]
Without(q, items) == [i \in DOMAIN q \ items |-> q[i]]

\* COALESCE(MAX(position), -1) + 1
NextPosition(q) ==
  IF DOMAIN q = {} THEN 0
  ELSE 1 + (CHOOSE m \in {q[i].pos : i \in DOMAIN q} : \A i \in DOMAIN q : q[i].pos <= m)

Holding(q, v) == {i \in DOMAIN q : q[i].video = v}

\* The transaction of EnqueueVideo is refused: the queue is full.
Full(q, v) == Cardinality(DOMAIN q) >= MaxQueueItems /\ Holding(q, v) = {}

\* Mutant: the new row goes to position COUNT(*), and nothing is normalized.
EnqueuedCounted(q, v, fresh) ==
  LET i == IF Holding(q, v) = {} THEN fresh ELSE CHOOSE i \in Holding(q, v) : TRUE
  IN  With(q, i, [video |-> v, pos |-> Cardinality(DOMAIN q), state |-> "pending"])

\* A video already queued moves to the end and is pending again.
Enqueued(q, v, fresh) ==
  LET i == IF Holding(q, v) = {} THEN fresh ELSE CHOOSE i \in Holding(q, v) : TRUE
  IN  Normalized(With(q, i, [video |-> v, pos |-> NextPosition(q), state |-> "pending"]))

\* ReorderPlaybackQueue takes the complete list or nothing.
Complete(q, order) == Len(order) = Cardinality(DOMAIN q) /\ {order[n] : n \in DOMAIN order} = DOMAIN q

Reordered(q, order) ==
  [i \in DOMAIN q |-> [q[i] EXCEPT !.pos = (CHOOSE n \in DOMAIN order : order[n] = i) - 1]]

-----------------------------------------------------------------------------
(* A queue survives restarts: the program starts with what an earlier one    *)
(* left, and initQueue shows it.                                             *)

\* Which videos are stored does not matter, only that they differ.
Titles == CHOOSE t \in [1..MaxStored -> Videos] : \A m, n \in 1..MaxStored : t[m] = t[n] => m = n

Stored == {[n \in 1..MaxStored |-> [video |-> Titles[n], pos |-> n - 1, state |-> s[n]]] :
             s \in [1..MaxStored -> States]}

Init ==
  /\ active = Default
  /\ queue \in [Profiles -> Stored \cup {<<>>}]
  /\ issued = Len(queue[active])
  /\ removePlayed \in [Profiles -> BOOLEAN]
  /\ \A p \in Profiles : IF p = active THEN queue[p] # <<>> ELSE queue[p] = <<>> /\ ~removePlayed[p]
  /\ ui = [queue |-> Listed(queue[active]), remove |-> removePlayed[active], current |-> None, playing |-> FALSE]
  /\ calls = [c \in Calls |-> Idle]
  /\ commands = 0

-----------------------------------------------------------------------------
(* Commands of the user.  Each captures what the store shows when it starts. *)

\* A slot for a new call: which one does not matter, so the first.
Vacant(c) == calls[c].pc = "idle" /\ \A d \in Calls : d < c => calls[d].pc # "idle"

Command(c, call) ==
  /\ commands < MaxCommands
  /\ Vacant(c)
  /\ calls' = [calls EXCEPT ![c] = call]
  /\ commands' = commands + 1

\* Adds that may still insert a row.
Adding == {c \in Calls : calls[c].op = "add" /\ calls[c].pc \in {"route", "apply"}}

AddToQueue(c, v) ==
  /\ \A n \in DOMAIN ui.queue : ui.queue[n].video # v
  /\ Len(ui.queue) < MaxQueueItems
  /\ issued + Cardinality(Adding) < MaxItems
  /\ Command(c, [Idle EXCEPT !.pc = "route", !.op = "add", !.video = v])
  /\ UNCHANGED <<active, queue, removePlayed, issued, ui>>

RemoveFromQueue(c, n) ==
  /\ n \in DOMAIN ui.queue
  /\ Command(c, [Idle EXCEPT !.pc = "route", !.op = "remove", !.item = ui.queue[n].item])
  /\ UNCHANGED <<active, queue, removePlayed, issued, ui>>

\* flag: only the items already played.
ClearQueue(c, playedOnly) ==
  /\ Command(c, [Idle EXCEPT !.pc = "route", !.op = "clear", !.flag = playedOnly])
  /\ UNCHANGED <<active, queue, removePlayed, issued, ui>>

ResetItem(c, n) ==
  /\ n \in DOMAIN ui.queue
  /\ Command(c, [Idle EXCEPT !.pc = "route", !.op = "reset", !.item = ui.queue[n].item])
  /\ UNCHANGED <<active, queue, removePlayed, issued, ui>>

SetRemovePlayed(c, b) ==
  /\ b # ui.remove
  /\ Command(c, [Idle EXCEPT !.pc = "route", !.op = "prefs", !.flag = b])
  /\ UNCHANGED <<active, queue, removePlayed, issued, ui>>

Refresh(c) ==
  /\ Command(c, [Idle EXCEPT !.pc = "reload", !.op = "refresh"])
  /\ UNCHANGED <<active, queue, removePlayed, issued, ui>>

\* The store shows the new order before the backend has accepted it.
Moved(s, from, to) ==
  LET rest == [n \in 1..(Len(s) - 1) |-> IF n < from THEN s[n] ELSE s[n + 1]]
  IN  [n \in 1..Len(s) |-> IF n < to THEN rest[n] ELSE IF n = to THEN s[from] ELSE rest[n - 1]]

ReorderQueue(c, from, to) ==
  /\ {from, to} \subseteq DOMAIN ui.queue /\ from # to
  /\ ui' = [ui EXCEPT !.queue = Moved(@, from, to)]
  /\ Command(c, [Idle EXCEPT !.pc = "route", !.op = "reorder", !.order = [n \in DOMAIN ui'.queue |-> ui'.queue[n].item]])
  /\ UNCHANGED <<active, queue, removePlayed, issued>>

\* loadVideo of an item of the queue, or of a video that is not of the queue.
PlayItem(n) ==
  /\ commands < MaxCommands /\ commands' = commands + 1
  /\ n \in DOMAIN ui.queue
  /\ ui' = [ui EXCEPT !.current = ui.queue[n].item, !.playing = TRUE]
  /\ UNCHANGED <<active, queue, removePlayed, issued, calls>>

PlayOther ==
  /\ commands < MaxCommands /\ commands' = commands + 1
  /\ ui' = [ui EXCEPT !.current = None, !.playing = TRUE]
  /\ UNCHANGED <<active, queue, removePlayed, issued, calls>>

SwitchProfile(p) ==
  /\ commands < MaxCommands /\ commands' = commands + 1
  /\ p # active /\ active' = p
  /\ UNCHANGED <<queue, removePlayed, issued, ui, calls>>

-----------------------------------------------------------------------------
(* playNext, from the button or from the end of the video. *)

Shows(s, i) == {n \in DOMAIN s : s[n].item = i}

\* findIndex: 0 when it is not there.
IndexOf(s, i) == IF Shows(s, i) = {} THEN 0 ELSE CHOOSE n \in Shows(s, i) : TRUE

\* Without a current item there is nothing to mark and the queue is read at once.
PlayNext(c) ==
  calls' = [calls EXCEPT ![c] =
    [Idle EXCEPT !.op = "next", !.item = ui.current, !.prev = IndexOf(ui.queue, ui.current), !.flag = TRUE,
                 !.pc = IF ui.current = None THEN "reload" ELSE "route"]]

NextButton(c) ==
  /\ commands < MaxCommands /\ commands' = commands + 1
  /\ Vacant(c)
  /\ PlayNext(c)
  /\ UNCHANGED <<active, queue, removePlayed, issued, ui>>

\* handleEnded, with autoplay on; an empty queue pauses the player instead.
Ended(c) ==
  /\ ui.playing /\ Vacant(c)
  /\ ui' = [ui EXCEPT !.playing = FALSE]
  /\ IF ui.queue # <<>> THEN PlayNext(c) ELSE UNCHANGED calls
  /\ UNCHANGED <<active, queue, removePlayed, issued, commands>>

\* The item to play next: the first pending one from start on, else the first
\* pending one of all.
\* Mutant: an item that was played may be chosen again.
PendingOrPlayed(s, S) == S

Pending(s, S) == {n \in S : s[n].state = "pending"}
First(S) == CHOOSE n \in S : \A m \in S : n <= m

Start(call) ==
  LET kept == IndexOf(call.snap, call.item)
  IN  IF kept > 0 THEN kept + 1 ELSE IF call.prev > 0 THEN call.prev ELSE 1

Choice(call) ==
  LET later == Pending(call.snap, {n \in DOMAIN call.snap : n >= Start(call)})
      any == Pending(call.snap, DOMAIN call.snap)
  IN  IF later # {} THEN call.snap[First(later)].item
      ELSE IF any # {} THEN call.snap[First(any)].item ELSE None

-----------------------------------------------------------------------------
(* The backend, one statement or transaction at a time. *)

Goto(c, pc) == calls' = [calls EXCEPT ![c].pc = pc]
Finish(c) == calls' = [calls EXCEPT ![c] = Idle]

\* ActiveProfileID; MarkQueueItemPlayed goes on to read the preferences.
Route(c) ==
  /\ calls[c].pc = "route"
  /\ calls' = [calls EXCEPT ![c].profile = active,
                            ![c].pc = IF calls[c].op \in {"next", "reset"} THEN "decide" ELSE "apply"]
  /\ UNCHANGED <<active, queue, removePlayed, issued, ui, commands>>

\* QueuePreferences and, when the item is to be removed, RemoveQueueItem: both
\* look the active profile up again.
Decide(c) ==
  /\ calls[c].pc = "decide"
  /\ LET remove == calls[c].flag /\ removePlayed[active]
     IN  calls' = [calls EXCEPT ![c].remove = remove, ![c].pc = "apply",
                                ![c].profile = IF remove THEN active ELSE @]
  /\ UNCHANGED <<active, queue, removePlayed, issued, ui, commands>>

ApplyAdd(c) ==
  LET call == calls[c]  q == queue[call.profile]
  IN  /\ call.pc = "apply" /\ call.op = "add"
      /\ IF Full(q, call.video)
         THEN Finish(c) /\ UNCHANGED <<queue, issued>>
         ELSE /\ queue' = [queue EXCEPT ![call.profile] = Enqueued(q, call.video, issued + 1)]
              /\ issued' = IF Holding(q, call.video) = {} THEN issued + 1 ELSE issued
              /\ Goto(c, "reload")
      /\ UNCHANGED <<active, removePlayed, ui, commands>>

\* RemoveQueueItem, also for an item that is removed once played.
ApplyRemove(c) ==
  LET call == calls[c]
  IN  /\ call.pc = "apply"
      /\ call.op = "remove" \/ (call.op = "next" /\ call.remove)
      /\ queue' = [queue EXCEPT ![call.profile] = Normalized(Without(@, {call.item}))]
      /\ Goto(c, "reload")
      /\ UNCHANGED <<active, removePlayed, issued, ui, commands>>

\* The UPDATE of MarkQueueItemPlayed: an item of another profile, or one that
\* is gone, is an error and the command ends there.
ApplyMark(c) ==
  LET call == calls[c]
  IN  /\ call.pc = "apply" /\ call.op \in {"next", "reset"} /\ ~call.remove
      /\ IF call.item \in DOMAIN queue[call.profile]
         THEN /\ queue' = [queue EXCEPT ![call.profile][call.item].state =
                                           IF call.flag THEN "played" ELSE "pending"]
              /\ Goto(c, "reload")
         ELSE UNCHANGED queue /\ Finish(c)
      /\ UNCHANGED <<active, removePlayed, issued, ui, commands>>

\* ClearPlaybackQueue deletes first and normalizes in a transaction of its own.
ApplyClear(c) ==
  LET call == calls[c]  q == queue[call.profile]
  IN  /\ call.pc = "apply" /\ call.op = "clear"
      /\ queue' = [queue EXCEPT ![call.profile] =
                     Without(q, {i \in DOMAIN q : call.flag => q[i].state = "played"})]
      /\ Goto(c, "normalize")
      /\ UNCHANGED <<active, removePlayed, issued, ui, commands>>

Normalize(c) ==
  /\ calls[c].pc = "normalize"
  /\ queue' = [queue EXCEPT ![calls[c].profile] = Normalized(@)]
  /\ Goto(c, "reload")
  /\ UNCHANGED <<active, removePlayed, issued, ui, commands>>

\* An accepted order is not read back, a refused one is.
ApplyReorder(c) ==
  LET call == calls[c]
  IN  /\ call.pc = "apply" /\ call.op = "reorder"
      /\ IF Complete(queue[call.profile], call.order)
         THEN queue' = [queue EXCEPT ![call.profile] = Reordered(@, call.order)] /\ Finish(c)
         ELSE UNCHANGED queue /\ Goto(c, "reload")
      /\ UNCHANGED <<active, removePlayed, issued, ui, commands>>

\* SaveQueuePreferences; the store takes the value over when it has answered.
ApplyPrefs(c) ==
  LET call == calls[c]
  IN  /\ call.pc = "apply" /\ call.op = "prefs"
      /\ removePlayed' = [removePlayed EXCEPT ![call.profile] = call.flag]
      /\ ui' = [ui EXCEPT !.remove = call.flag]
      /\ Finish(c)
      /\ UNCHANGED <<active, queue, issued, commands>>

\* PlaybackQueue: the active profile, then its preferences and its rows.
Reload(c) ==
  /\ calls[c].pc = "reload"
  /\ calls' = [calls EXCEPT ![c].pc = "snapshot", ![c].profile = active]
  /\ UNCHANGED <<active, queue, removePlayed, issued, ui, commands>>

Snapshot(c) ==
  /\ calls[c].pc = "snapshot"
  /\ calls' = [calls EXCEPT ![c].pc = "deliver", ![c].snap = Listed(queue[calls[c].profile]),
                            ![c].remove = removePlayed[active]]
  /\ UNCHANGED <<active, queue, removePlayed, issued, ui, commands>>

\* refreshQueue stores the answer; playNext goes on to load its choice.
Deliver(c) ==
  LET call == calls[c]
      shown == [ui EXCEPT !.queue = call.snap, !.remove = call.remove]
  IN  /\ call.pc = "deliver"
      /\ ui' = CASE call.op # "next" -> shown
                 [] call.op = "next" /\ Choice(call) = None -> [shown EXCEPT !.playing = FALSE]
                 [] OTHER -> [shown EXCEPT !.current = Choice(call), !.playing = TRUE]
      /\ Finish(c)
      /\ UNCHANGED <<active, queue, removePlayed, issued, commands>>

-----------------------------------------------------------------------------
User(c) ==
  \/ \E v \in Videos : AddToQueue(c, v)
  \/ \E n \in 1..MaxQueueItems :
       RemoveFromQueue(c, n) \/ ResetItem(c, n) \/ \E m \in 1..MaxQueueItems : ReorderQueue(c, n, m)
  \/ \E b \in BOOLEAN : ClearQueue(c, b) \/ SetRemovePlayed(c, b)
  \/ Refresh(c) \/ NextButton(c)

Backend(c) ==
  \/ Route(c) \/ Decide(c) \/ ApplyAdd(c) \/ ApplyRemove(c) \/ ApplyMark(c) \/ ApplyClear(c)
  \/ Normalize(c) \/ ApplyReorder(c) \/ ApplyPrefs(c) \/ Reload(c) \/ Snapshot(c) \/ Deliver(c)

Next ==
  \/ \E c \in Calls : User(c) \/ Backend(c) \/ Ended(c)
  \/ \E n \in 1..MaxQueueItems : PlayItem(n)
  \/ PlayOther
  \/ \E p \in Profiles : SwitchProfile(p)
  \/ (commands = MaxCommands /\ ~ui.playing /\ \A c \in Calls : calls[c].pc = "idle") /\ UNCHANGED vars

\* The backend answers, and a video that plays comes to its end.
Fairness ==
  /\ \A c \in Calls : WF_vars(Backend(c))
  /\ WF_vars(\E c \in Calls : Ended(c))

Spec == Init /\ [][Next]_vars /\ Fairness

-----------------------------------------------------------------------------
(* What the queue promises. *)

\* The order of a queue is total at every moment: no two rows share a position,
\* no video is queued twice, and the limit holds.  Removals leave gaps between
\* the DELETE of ClearPlaybackQueue and its normalization, and everything else
\* may run in between.
QueueIsTotallyOrdered ==
  \A p \in Profiles :
    /\ Cardinality(DOMAIN queue[p]) <= MaxQueueItems
    /\ \A i, j \in DOMAIN queue[p] : i # j =>
         queue[p][i].pos # queue[p][j].pos /\ queue[p][i].video # queue[p][j].video

\* Two items change places only when the user reorders the queue of their own
\* profile, or when one of them is queued again; whatever runs concurrently,
\* with whatever stale list the store holds.
Requeued(p, i) == \E c \in Calls :
  calls[c].pc = "apply" /\ calls[c].op = "add" /\ calls[c].profile = p
    /\ queue[p][i].video = calls[c].video /\ calls'[c] # calls[c]
Reorders(p) == \E c \in Calls :
  /\ calls[c].pc = "apply" /\ calls[c].op = "reorder" /\ calls[c].profile = p /\ calls'[c].pc = "idle"
  /\ \A n \in DOMAIN calls[c].order : queue'[p][calls[c].order[n]].pos = n - 1
OrderIsTheUsers ==
  [][\A p \in Profiles : \A i, j \in DOMAIN queue[p] \cap DOMAIN queue'[p] :
       Before(queue[p], i, j) /\ Before(queue'[p], j, i) => Reorders(p) \/ Requeued(p, i)]_vars

\* Sequential playback comes to an end: every end of a video uses up the item
\* it was, so the player does not go round the queue for ever, whatever calls
\* overlap.
PlaybackEnds == <>[](~ui.playing)

\* Does not hold.  The end of a video marks the current item and starts the next
\* pending one: a playNext that has reached the queue it belongs to is not given up
\* while that queue has a pending item to play.
NextAdvances ==
  [][\A c \in Calls :
        /\ calls[c].pc = "apply" /\ calls[c].op = "next" /\ calls[c].profile = active
        /\ \E i \in DOMAIN queue[active] : queue[active][i].state = "pending"
     => calls'[c].pc # "idle"]_vars
=============================================================================
