------------------------------ MODULE FeedSync --------------------------------
(* The subscriptions and their refresh (internal/sync/service.go, rss.go and    *)
(* importer.go; internal/storage/channel.go, subscriptions.go and               *)
(* repository.go).  A refresh reads the subscribed channels, then their         *)
(* markers, and gives each channel to one of a few workers.  A worker fetches   *)
(* the feed, keeps what is newer than the marker it was given, stores it, and   *)
(* moves the marker.  Refreshes overlap: every RPC starts one.                  *)
(*                                                                              *)
(* The videos of a channel are numbered in the order of their publication.  The *)
(* database runs one statement or transaction at a time (storage/db.go allows   *)
(* one connection), so a transaction is one action; anything may happen between *)
(* two of them.                                                                 *)
EXTENDS Integers, FiniteSets

CONSTANTS
    Channels,
    Refreshes,  \* concurrent refreshes
    Workers,    \* Options.Workers
    Window,     \* videos a feed lists: 15 in an RSS feed, a page in the API
    MaxVideos,  \* bound: videos a channel publishes
    MaxRefreshes, MaxFaults, MaxEdits, MaxNews   \* bounds

\* What the constants must be.
SyncAssumption ==
    /\ Workers \in Nat \ {0} /\ Window \in Nat \ {0}
    /\ MaxVideos \in Nat \ {0}

VARIABLES
    published,  \* channel -> videos published so far (YouTube)
    withdrawn,  \* videos their channel deleted (YouTube)
    account,    \* channels the YouTube account subscribes to
    row,        \* channels: known, subscribed, last_known_video_id, last_error
    videos,     \* the videos stored
    index,      \* video -> its rows in videos_fts
    refresh,    \* refresh -> the call
    worker,     \* refresh -> channel -> its goroutine
    lost,       \* videos that left the feed before any refresh fetched them
    count       \* refreshes, faults, edits and news so far

syncVars == <<published, withdrawn, account, row, videos, index, refresh, worker, lost, count>>
youtube == <<published, withdrawn, account>>
catalogue == <<row, videos, index>>

Ids == Channels \X (1..MaxVideos)

\* What the feed of a channel lists, as numbers of videos.
Feed(c) == {n \in 1..published[c] : n > published[c] - Window /\ <<c, n>> \notin withdrawn}

Newest(S) == CHOOSE n \in S : \A m \in S : m <= n

Waiting == [at |-> "waiting"]
Rest == [at |-> "idle"]
Row(known) == [known |-> known, subscribed |-> known, marker |-> 0, error |-> FALSE]

SyncInit ==
    /\ published = [c \in Channels |-> 1]
    /\ withdrawn = {}
    /\ account \in SUBSET Channels
    /\ \E S \in SUBSET Channels : row = [c \in Channels |-> Row(c \in S)]
    /\ videos = {}
    /\ index = [v \in Ids |-> 0]
    /\ refresh = [r \in Refreshes |-> Rest]
    /\ worker = [r \in Refreshes |-> [c \in Channels |-> Waiting]]
    /\ lost = {}
    /\ count = [refreshes |-> 0, faults |-> 0, edits |-> 0, news |-> 0]

Counting(what, max) ==
    /\ count[what] < max
    /\ count' = [count EXCEPT ![what] = @ + 1]

-------------------------------------------------------------------------------
(* YouTube. *)

\* The oldest video of a full feed leaves it.
PublishVideo(c) ==
    LET leaving == {n \in Feed(c) : n <= published[c] + 1 - Window} IN
    /\ published[c] < MaxVideos
    /\ Counting("news", MaxNews)
    /\ published' = [published EXCEPT ![c] = @ + 1]
    /\ lost' = lost \cup ({<<c, n>> : n \in leaving} \ videos)
    /\ UNCHANGED <<withdrawn, account, row, videos, index, refresh, worker>>

Withdraw ==
    /\ Counting("news", MaxNews)
    /\ \E c \in Channels : \E n \in Feed(c) : withdrawn' = withdrawn \cup {<<c, n>>}
    /\ UNCHANGED <<published, account, row, videos, index, refresh, worker, lost>>

-------------------------------------------------------------------------------
(* The database. *)

\* A row is inserted, or its subscription restored; its marker stays.
Subscribed(rows, S) ==
    [c \in Channels |->
        IF c \in S THEN [rows[c] EXCEPT !.known = TRUE, !.subscribed = TRUE] ELSE rows[c]]

Unsubscribed(rows, S) ==
    [c \in Channels |-> IF c \in S THEN [rows[c] EXCEPT !.subscribed = FALSE] ELSE rows[c]]

\* One transaction inserts or updates the videos and rewrites their rows of the
\* search index.
Indexed(S) == [v \in Ids |-> IF v \in S THEN 1 ELSE index[v]]

UpsertVideos(S) ==
    /\ videos' = videos \cup S
    /\ index' = Indexed(S)

\* An update: it never creates a channel nor touches its subscription.
SetChannelSync(c, marker, error) ==
    row' = [row EXCEPT ![c] = IF @.known THEN [@ EXCEPT !.marker = marker, !.error = error] ELSE @]

-------------------------------------------------------------------------------
(* The user. *)

Edit(newRow) ==
    /\ Counting("edits", MaxEdits)
    /\ row' = newRow
    /\ UNCHANGED <<youtube, videos, index, refresh, worker, lost>>

SubscribeChannel(c) == Edit(Subscribed(row, {c}))

\* An import subscribes its channels one by one and goes on after a failure, so
\* any part of the file may end up subscribed.
ImportSubscriptions == \E S \in SUBSET Channels : Edit(Subscribed(row, S))

UnsubscribeChannel(c) == row[c].subscribed /\ Edit(Unsubscribed(row, {c}))

BulkUnsubscribeChannels ==
    \E S \in SUBSET Channels : S # {} /\ Edit(Unsubscribed(row, S))

\* Opening or saving a video stores what the interface knows of it.
RememberVideo ==
    /\ Counting("edits", MaxEdits)
    /\ \E c \in Channels : \E n \in 1..published[c] : UpsertVideos({<<c, n>>})
    /\ UNCHANGED <<youtube, row, refresh, worker, lost>>

-------------------------------------------------------------------------------
(* A refresh: RefreshLocal over the local subscriptions, Refresh over the ones  *)
(* of the account.                                                              *)

Call(r, state) == refresh' = [refresh EXCEPT ![r] = state]

BeginRefresh(r, state) ==
    /\ refresh[r].at \in {"idle", "returned"}
    /\ Counting("refreshes", MaxRefreshes)
    /\ Call(r, state)
    /\ UNCHANGED worker

RefreshLocal(r) ==
    LET S == {c \in Channels : row[c].subscribed} IN
    /\ S # {}
    /\ BeginRefresh(r, [at |-> "loading", channels |-> S])
    /\ UNCHANGED <<youtube, catalogue, lost>>

\* The channels of the account are written, subscribed, before anything else.
Refresh(r) ==
    /\ account # {}
    /\ BeginRefresh(r, [at |-> "loading", channels |-> account])
    /\ row' = Subscribed(row, account)
    /\ UNCHANGED <<youtube, videos, index, lost>>

\* The markers are read by a query of their own.
LoadMarkers(r) ==
    /\ refresh[r].at = "loading"
    /\ Call(r, [at |-> "syncing", channels |-> refresh[r].channels,
                markers |-> [c \in Channels |-> row[c].marker],
                cancelled |-> FALSE, broken |-> FALSE, errors |-> {}, fetched |-> {}])
    /\ UNCHANGED <<youtube, catalogue, worker, lost, count>>

Goes(r, c, state) == worker' = [worker EXCEPT ![r][c] = state]

\* The context of the workers is alive.
Running(r) == refresh[r].at = "syncing" /\ ~refresh[r].cancelled

Busy(r) == {c \in Channels : worker[r][c].at \in {"fetched", "stored"}}

MayFetch(r, c) ==
    /\ Running(r)
    /\ c \in refresh[r].channels
    /\ worker[r][c].at = "waiting"
    /\ Cardinality(Busy(r)) < Workers

\* Mutant: the video after the marker is skipped.
NewVideosAfter(feed, marker) == {n \in feed : n > marker + 1}

\* The videos listed before the marker, newest first; all of them when the
\* marker is not in the feed.
NewVideos(feed, marker) == IF marker \in feed THEN {n \in feed : n > marker} ELSE feed

FetchFeed(r, c) ==
    LET new == NewVideos(Feed(c), refresh[r].markers[c]) IN
    /\ MayFetch(r, c)
    /\ Goes(r, c, IF new = {} THEN [at |-> "done"] ELSE [at |-> "fetched", new |-> new])
    /\ Call(r, [refresh[r] EXCEPT !.fetched = @ \cup {<<c, n>> : n \in new}])
    /\ UNCHANGED <<youtube, catalogue, lost, count>>

\* Mutant: one feed that fails cancels the others.
ReportedToAll(call, c) == [call EXCEPT !.errors = @ \cup {c}, !.cancelled = TRUE]

\* A feed that cannot be fetched or read is an error of its channel, and the
\* others go on.
Reported(call, c) == [call EXCEPT !.errors = @ \cup {c}]

FeedFails(r, c) ==
    /\ MayFetch(r, c)
    /\ Counting("faults", MaxFaults)
    /\ Goes(r, c, [at |-> "stored", marker |-> refresh[r].markers[c], error |-> TRUE])
    /\ Call(r, Reported(refresh[r], c))
    /\ UNCHANGED <<youtube, catalogue, lost>>

\* The videos are stored before the marker moves.
AfterFetch(new) == [at |-> "stored", marker |-> Newest(new), error |-> FALSE]

StoreVideos(r, c) ==
    /\ Running(r) /\ worker[r][c].at = "fetched"
    /\ UpsertVideos({<<c, n>> : n \in worker[r][c].new})
    /\ Goes(r, c, AfterFetch(worker[r][c].new))
    /\ UNCHANGED <<youtube, row, refresh, lost, count>>

MoveMarker(r, c) ==
    /\ Running(r) /\ worker[r][c].at = "stored"
    /\ SetChannelSync(c, worker[r][c].marker, worker[r][c].error)
    /\ Goes(r, c, [at |-> "done"])
    /\ UNCHANGED <<youtube, videos, index, refresh, lost, count>>

\* A write that fails ends the worker and cancels the others.
StorageFails(r, c) ==
    /\ Running(r) /\ c \in Busy(r)
    /\ Counting("faults", MaxFaults)
    /\ Goes(r, c, [at |-> "done"])
    /\ Call(r, [refresh[r] EXCEPT !.cancelled = TRUE, !.broken = TRUE])
    /\ UNCHANGED <<youtube, catalogue, lost>>

\* The RPC is cancelled.
Cancel(r) ==
    /\ Running(r)
    /\ Counting("faults", MaxFaults)
    /\ Call(r, [refresh[r] EXCEPT !.cancelled = TRUE, !.broken = TRUE])
    /\ UNCHANGED <<youtube, catalogue, worker, lost>>

\* A cancelled context fails every fetch and every write that has not run.
Abandon(r, c) ==
    /\ refresh[r].at = "syncing" /\ refresh[r].cancelled
    /\ worker[r][c].at \in {"fetched", "stored"}
    /\ Goes(r, c, [at |-> "done"])
    /\ UNCHANGED <<youtube, catalogue, refresh, lost, count>>

\* g.Wait: an error, or what was fetched and which channels failed.
ReturnRefresh(r) ==
    LET call == refresh[r] IN
    /\ call.at = "syncing"
    /\ Busy(r) = {}
    /\ call.cancelled \/ \A c \in call.channels : worker[r][c].at = "done"
    /\ Call(r, [at |-> "returned", ok |-> ~call.cancelled, broken |-> call.broken,
                channels |-> call.channels, errors |-> call.errors, fetched |-> call.fetched])
    /\ worker' = [worker EXCEPT ![r] = [c \in Channels |-> Waiting]]
    /\ UNCHANGED <<youtube, catalogue, lost, count>>

\* The process ends: the database is what remains.
Crash ==
    /\ Counting("faults", MaxFaults)
    /\ \E r \in Refreshes : refresh[r].at # "idle"
    /\ refresh' = [r \in Refreshes |-> Rest]
    /\ worker' = [r \in Refreshes |-> [c \in Channels |-> Waiting]]
    /\ UNCHANGED <<youtube, catalogue, lost>>

SyncNext ==
    \/ \E c \in Channels : PublishVideo(c) \/ SubscribeChannel(c) \/ UnsubscribeChannel(c)
    \/ Withdraw \/ ImportSubscriptions \/ BulkUnsubscribeChannels \/ RememberVideo \/ Crash
    \/ \E r \in Refreshes :
        \/ RefreshLocal(r) \/ Refresh(r) \/ LoadMarkers(r) \/ Cancel(r) \/ ReturnRefresh(r)
        \/ \E c \in Channels :
            \/ FetchFeed(r, c) \/ FeedFails(r, c)
            \/ StoreVideos(r, c) \/ MoveMarker(r, c) \/ StorageFails(r, c)
            \/ Abandon(r, c)

SyncSpec == SyncInit /\ [][SyncNext]_syncVars

-------------------------------------------------------------------------------
RefreshStates ==
    {Rest}
    \cup [at : {"loading"}, channels : SUBSET Channels]
    \cup [at : {"syncing"}, channels : SUBSET Channels, markers : [Channels -> 0..MaxVideos],
          cancelled : BOOLEAN, broken : BOOLEAN, errors : SUBSET Channels, fetched : SUBSET Ids]
    \cup [at : {"returned"}, ok : BOOLEAN, broken : BOOLEAN,
          channels : SUBSET Channels, errors : SUBSET Channels, fetched : SUBSET Ids]

Goroutines ==
    {Waiting, [at |-> "done"]}
    \cup [at : {"fetched"}, new : SUBSET (1..MaxVideos)]
    \cup [at : {"stored"}, marker : 0..MaxVideos, error : BOOLEAN]

\* Every variable stays within its type.
SyncTypeOK ==
    /\ published \in [Channels -> 1..MaxVideos]
    /\ withdrawn \subseteq Ids /\ lost \subseteq Ids /\ account \subseteq Channels
    /\ row \in [Channels -> [known : BOOLEAN, subscribed : BOOLEAN,
                             marker : 0..MaxVideos, error : BOOLEAN]]
    /\ videos \subseteq Ids
    /\ index \in [Ids -> Nat]
    /\ refresh \in [Refreshes -> RefreshStates]
    /\ worker \in [Refreshes -> [Channels -> Goroutines]]

\* The marker of a channel never passes a video that is not stored: whatever
\* crashed, failed or overlapped between the two writes of a worker, a video up
\* to the marker is stored, was deleted by its channel, or left the feed before
\* any refresh stored it (sync/service.go RefreshLocal; REFRESH_SERVICE.md:13,
\* "grava os vídeos antes de avançar seu marcador incremental").
NoVideoSkipped ==
    \A c \in Channels : \A n \in 1..row[c].marker :
        <<c, n>> \in videos \cup withdrawn \cup lost

\* A refresh fails only when a write failed or its caller gave up; otherwise
\* each of its channels had its new videos stored or is reported, whatever the
\* feeds of the others did (sync/service.go RefreshLocal).
FailuresStayLocal ==
    \A r \in Refreshes : refresh[r].at = "returned" =>
        /\ ~refresh[r].ok => refresh[r].broken
        /\ refresh[r].ok =>
            /\ refresh[r].fetched \subseteq videos
            /\ \A v \in refresh[r].fetched : v[1] \in refresh[r].channels \ refresh[r].errors

\* The search index has one row for each stored video and no other, after any
\* interleaving of refreshes and of videos the interface saves
\* (repository.go upsertVideosBatch).
IndexFollowsCatalogue ==
    \A v \in Ids : index[v] = IF v \in videos THEN 1 ELSE 0
===============================================================================
