------------------------------- MODULE Catalogue -------------------------------
(* What the catalogue of the device answers (internal/storage): the videos of a *)
(* smart rule, of a filtered playlist, of the subscriptions page by page, the   *)
(* recent ones; and the filter of a feed that is already in memory              *)
(* (internal/domain/feed.go).                                                   *)
(*                                                                              *)
(* A database db is a record: videos, the rows in the order of their ids;       *)
(* titles, the titles of the channels that have a row; subscribed and           *)
(* favorites; progress, the rows of playback_progress by video.  Durations are  *)
(* in seconds, dates in days, 0 for a date that is not known; a text is its     *)
(* rank, or the set of what it contains.  Everything here is an operator.       *)
EXTENDS Selection, SequencesExt

CONSTANTS
    Now,
    FilterLimit,            \* PlaylistFilterLimit
    DefaultPage, MaxPage,   \* the page of the subscriptions
    DefaultRecent, MaxRecent

Newest(v) == 0 - v.published

-------------------------------------------------------------------------------
(* The states of a broadcast. *)

LiveNow == {"live", "is_live"}
LiveUpcoming == {"upcoming", "is_upcoming"}
LiveCompleted == {"completed", "post_live", "was_live"}

LiveKindOf(status) ==
    CASE status \in LiveNow -> "live"
      [] status \in LiveUpcoming -> "upcoming"
      [] status \in LiveCompleted -> "completed"
      [] status \in {"none", "not_live"} -> "not_live"
      [] OTHER -> "unknown"

IsLive(v) == LiveKindOf(v.live) \in {"live", "upcoming", "completed"}

\* The two lists of the queries, and a filter of a feed.
LiveKindCondition(v) ==
    v.live \in {"live", "is_live", "post_live", "was_live", "completed", "is_upcoming", "upcoming"}
SubscriptionLive(v) ==
    v.live \in {"is_live", "live", "is_upcoming", "upcoming", "post_live", "was_live", "completed"}

MaxAge == [today |-> 1, week |-> 7, month |-> 30, year |-> 365]

\* A video whose date is not known is of any age, and one of the future is new.
FeedMatches(v, filter) ==
    /\ CASE filter.content = "regular" -> ~IsLive(v)
         [] filter.content = "live" -> IsLive(v)
         [] OTHER -> TRUE
    /\ filter.age \in DOMAIN MaxAge /\ v.published # 0 =>
            (IF Now > v.published THEN Now - v.published ELSE 0) < MaxAge[filter.age]
    /\ filter.category \in {"", v.category}

-------------------------------------------------------------------------------
(* The filter of a playlist, which a smart rule repeats. *)

DurationFits(duration, filter) ==
    CASE filter.duration = "short" -> duration > 0 /\ duration < 240
      [] filter.duration = "medium" -> duration >= 240 /\ duration <= 1200
      [] filter.duration = "long" -> duration > 1200
      [] filter.duration = "custom" -> /\ filter.min > 0 => duration >= filter.min
                                       /\ filter.max > 0 => duration <= filter.max
      [] OTHER -> TRUE

\* Mutant: a position of 15 s is not watched yet.
WatchedOver(db, v, state) ==
    LET known == v.id \in DOMAIN db.progress
        p == db.progress[v.id] IN
    CASE state = "watched" -> known /\ (p.completed \/ p.position > 15)
      [] state = "unwatched" -> known => ~p.completed /\ p.position <= 15
      [] OTHER -> TRUE

\* The LEFT JOIN of the progress: a video without a row compares as NULL.
WatchedAs(db, v, state) ==
    LET known == v.id \in DOMAIN db.progress
        p == db.progress[v.id] IN
    CASE state = "watched" -> known /\ (p.completed \/ p.position >= 15)
      [] state = "unwatched" -> known => ~p.completed /\ p.position < 15
      [] state = "continue" ->
            /\ known /\ ~p.completed /\ p.position > 0 /\ p.duration > 0
            /\ p.duration - p.position > 30
      [] OTHER -> TRUE

Title(db, v) == IF v.channel \in DOMAIN db.titles THEN db.titles[v.channel] ELSE 0

Passes(db, v, filter) ==
    /\ filter.channel # 0 => Title(db, v) = filter.channel
    /\ DurationFits(v.duration, filter)
    /\ filter.age \in DOMAIN MaxAge => v.published >= Now - MaxAge[filter.age]
    /\ filter.category \in {"", v.category}
    /\ WatchedAs(db, v, filter.watched)
    /\ filter.favorite => v.id \in db.favorites
    /\ filter.content = "regular" => ~LiveKindCondition(v)
    /\ filter.content = "live" => LiveKindCondition(v)
    /\ filter.shorts => v.duration > 0 /\ v.duration <= 180

Failed == <<"error">>

\* smartVideosQuery: the rule reads the whole catalogue.
SmartVideos(db, rule) ==
    LET selected(v) ==
            /\ rule.subscribed => v.channel \in db.subscribed \cap DOMAIN db.titles
            /\ rule.term # "" => rule.term \in v.words
            /\ Passes(db, v, rule.filter)
        key(v) == CASE rule.sort = "title" -> v.title
                    [] rule.sort = "channel" -> Title(db, v)
                    [] rule.sort = "duration" -> v.duration
                    [] rule.sort = "added" -> 0 - v.seen
                    [] OTHER -> Newest(v)
    IN  Window(SortedBy(Where(db.videos, selected), key), FilterLimit, 0)

SortKeys == {"manual", "title", "channel", "published", "duration", "added"}

\* playlistVideosFilteredQuery, over the videos of a playlist in their order, each
\* with the date it was added.  The order by channel joins the channels unless a
\* filter names one, and then the query refers to a table it does not join.
PlaylistVideos(db, items, filter, sort) ==
    LET joined(v) == sort = "channel" => v.channel \in DOMAIN db.titles
        selected(v) == joined(v) /\ Passes(db, v, filter)
        key(v) == CASE sort = "title" -> v.title
                    [] sort = "channel" -> Title(db, v)
                    [] sort = "published" -> Newest(v)
                    [] sort = "duration" -> v.duration
                    [] sort = "added" -> v.added
                    [] OTHER -> 0
    IN  IF sort \notin SortKeys \/ (sort = "channel" /\ filter.channel # 0) THEN Failed
        ELSE Window(SortedBy(Where(items, selected), key), FilterLimit, 0)

-------------------------------------------------------------------------------
(* The pages. *)

Subscribed(db, v) == v.channel \in db.subscribed \cap DOMAIN db.titles

SubscriptionSelects(db, v, query) ==
    /\ Subscribed(db, v)
    /\ query.channel \in {0, v.channel}
    /\ query.category \in {"", v.category}
    /\ query.from # 0 => v.published >= query.from
    /\ query.to # 0 => v.published < query.to
    /\ query.content = "regular" => ~SubscriptionLive(v)
    /\ query.content = "live" => SubscriptionLive(v)
    /\ query.watch = "watched" => v.id \in DOMAIN db.progress
    /\ query.watch = "unwatched" => v.id \notin DOMAIN db.progress

PageSize(limit) ==
    CASE limit <= 0 -> DefaultPage
      [] limit > MaxPage -> MaxPage
      [] OTHER -> limit

\* Mutant: the pages before this one are not counted.
HasMoreThanPage(page, size, offset, total) == Len(page) < total

HasMore(page, size, offset, total) == offset + Len(page) < total

SubscriptionVideos(db, query) ==
    LET size == PageSize(query.limit)
        offset == IF query.offset < 0 THEN 0 ELSE query.offset
        selected == Where(db.videos, LAMBDA v : SubscriptionSelects(db, v, query))
        page == Window(SortedBy(selected, Newest), size, offset)
    IN  [videos |-> page, total |-> Len(selected), offset |-> offset, limit |-> size,
         more |-> HasMore(page, size, offset, Len(selected))]

SubscriptionCategories(db) ==
    {v.category : v \in {db.videos[n] : n \in {m \in DOMAIN db.videos : Subscribed(db, db.videos[m])}}} \ {""}

Recent(db, filter) ==
    LET selected(v) == /\ filter.channel \in {0, v.channel}
                       /\ filter.subscribed => Subscribed(db, v)
        limit == CASE filter.limit <= 0 -> DefaultRecent
                   [] filter.limit > MaxRecent -> MaxRecent
                   [] OTHER -> filter.limit
    IN  Window(SortedBy(Where(db.videos, selected), Newest), limit,
               IF filter.offset < 0 THEN 0 ELSE filter.offset)
===============================================================================
