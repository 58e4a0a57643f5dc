--------------------------------- MODULE Search ---------------------------------
(* The search (internal/search): what is made of the options of a form, which   *)
(* of the two providers answers, which of its items the options leave, and      *)
(* their order; and the state of the device that AppServices.SearchAdvanced     *)
(* adds (internal/services/services.go).                                        *)
(*                                                                              *)
(* The eleven options on videos only the Data API can honour are one: official, *)
(* "any", "yes", or "no" for the ones it refuses; the language, the region and  *)
(* the safe search are api.  A form with a text that is not well formed is      *)
(* malformed.  An item is a video of the catalogue with its type, and one       *)
(* without an identifier has id 0; a provider is all it could return.           *)
EXTENDS Catalogue

CONSTANTS
    DefaultResults, MaxResults,
    MaxPublicOffset, MaxListingOffset, MaxListing

Types == {"video", "channel", "playlist"}
Orders == {"relevance", "date", "viewCount", "rating", "title", "videoCount"}
Durations == {"any", "short", "medium", "long", "custom"}
Events == {"", "live", "completed", "upcoming"}
WatchStates == {"any", "unwatched", "watched", "continue"}
SavedStates == {"any", "favorites", "queue", "not-saved"}

-------------------------------------------------------------------------------
(* NormalizeOptions, ValidateOptions, RequiresOfficialAPI. *)

Or(value, default) == IF value = "" THEN default ELSE value

NormalizeOptions(o) ==
    [o EXCEPT !.max = IF @ <= 0 THEN DefaultResults ELSE IF @ > MaxResults THEN MaxResults ELSE @,
              !.types = IF @ = <<>> THEN <<"video">> ELSE @,
              !.order = Or(@, "relevance"), !.duration = Or(@, "any"), !.official = Or(@, "any"),
              !.watch = Or(@, "any"), !.saved = Or(@, "any")]

OnlyVideos(o) == o.types = <<"video">>

HasVideoOnlyFilter(o) ==
    \/ o.duration # "any" \/ o.minDuration > 0 \/ o.maxDuration > 0 \/ o.shorts \/ o.regular
    \/ o.event # "" \/ o.official # "any" \/ o.location \/ o.watch # "any" \/ o.saved # "any"

ValidSearchEnums(o) ==
    /\ ToSet(o.types) \subseteq Types
    /\ o.order \in Orders /\ o.duration \in Durations /\ o.event \in Events
    /\ o.watch \in WatchStates /\ o.saved \in SavedStates

ValidOptions(o) ==
    /\ ~o.malformed
    /\ {o.query, o.phrase, o.include} # {""} \/ o.channel # 0 \/ o.topic \/ o.location
    /\ o.after # 0 /\ o.before # 0 => o.after < o.before
    /\ o.minDuration >= 0 /\ o.maxDuration >= 0
    /\ o.maxDuration > 0 => o.minDuration <= o.maxDuration
    /\ ~(o.shorts /\ o.regular)
    /\ ValidSearchEnums(o)
    /\ IsInjective(o.types)
    /\ HasVideoOnlyFilter(o) => OnlyVideos(o)
    /\ o.order = "videoCount" => o.types = <<"channel">>
    /\ o.official # "no"

RequiresOfficialAPI(o) ==
    \/ ~OnlyVideos(o)
    \/ o.official # "any" \/ o.topic \/ o.location \/ o.api
    \/ o.order \in {"rating", "videoCount"}

\* The state of the device stays on it.
RemoteSearchOptions(o) ==
    [o EXCEPT !.watch = "any", !.saved = "any", !.onlySubscribed = FALSE, !.hideRejected = FALSE]

-------------------------------------------------------------------------------
(* ApplyLocalFilters. *)

\* "meaningful": an interrupted start is not watching.
Meaningful(state, v) ==
    /\ v.id \in DOMAIN state.progress
    /\ state.progress[v.id].completed \/ state.progress[v.id].position >= 15

WatchMatches(v, watch, state) ==
    LET p == state.progress[v.id] IN
    CASE watch = "unwatched" -> ~Meaningful(state, v)
      [] watch = "watched" -> Meaningful(state, v)
      [] watch = "continue" ->
            /\ Meaningful(state, v) /\ ~p.completed
            /\ p.duration > 0 /\ p.duration - p.position > 30
      [] OTHER -> TRUE

SavedMatches(v, saved, state) ==
    CASE saved = "favorites" -> v.id \in state.favorites
      [] saved = "queue" -> v.id \in state.queued
      [] saved = "not-saved" -> v.id \notin state.favorites \cup state.queued
      [] OTHER -> TRUE

DurationMatches(v, o) ==
    /\ o.minDuration > 0 => v.duration >= o.minDuration
    /\ o.maxDuration > 0 => v.duration <= o.maxDuration
    /\ o.shorts => v.duration > 0 /\ v.duration <= 180
    /\ o.regular => v.duration > 180
    /\ CASE o.duration = "short" -> v.duration > 0 /\ v.duration < 240
         [] o.duration = "medium" -> v.duration >= 240 /\ v.duration <= 1200
         [] o.duration = "long" -> v.duration > 1200
         [] OTHER -> TRUE

\* What a channel or a playlist has too.
AnyMatches(v, o, state) ==
    /\ v.type \in ToSet(o.types)
    /\ o.channel \in {0, v.channel}
    /\ o.onlySubscribed => v.channel \in state.subscribed
    /\ o.hideRejected => v.id \notin state.rejected.videos /\ v.channel \notin state.rejected.channels
    /\ o.after # 0 => v.published >= o.after
    /\ o.before # 0 /\ v.published # 0 => v.published <= o.before

\* Mutant: the saved state answers before the watch state is asked.
MatchesSavedFirst(v, o, state) ==
    /\ AnyMatches(v, o, state)
    /\ IF v.type # "video"
       THEN o.watch = "any" /\ o.saved = "any" /\ ~o.shorts
       ELSE /\ DurationMatches(v, o)
            /\ o.event # "" => LiveKindOf(v.live) = o.event
            /\ IF o.saved # "any" THEN SavedMatches(v, o.saved, state)
               ELSE WatchMatches(v, o.watch, state)

MatchesLocal(v, o, state) ==
    /\ AnyMatches(v, o, state)
    /\ IF v.type # "video"
       THEN o.watch = "any" /\ o.saved = "any" /\ ~o.shorts
       ELSE /\ DurationMatches(v, o)
            /\ o.event # "" => LiveKindOf(v.live) = o.event
            /\ WatchMatches(v, o.watch, state)
            /\ SavedMatches(v, o.saved, state)

SortResults(items, order) ==
    SortedBy(items, LAMBDA v : CASE order = "date" -> Newest(v)
                                 [] order = "viewCount" -> 0 - v.views
                                 [] order = "title" -> v.title
                                 [] OTHER -> 0)

ApplyLocalFilters(items, o, state) ==
    SortResults(Where(items, LAMBDA v : MatchesLocal(v, o, state)), o.order)

-------------------------------------------------------------------------------
(* NanoRank, in thousandths: views is the order of magnitude of the count. *)

NanoRankScore(v, index, o, state) ==
    LET bonus(holds, points) == IF holds THEN points ELSE 0
        terms(texts, points) == bonus(o.query \in texts, points)
                                + bonus(o.include # "" /\ o.include \in texts, points)
        days == Now - v.published
    IN  20000 \div (5 + index)
        + bonus(o.query # "" /\ o.query \in v.words, 4000)
        + (IF o.query = "" THEN 0
           ELSE terms(v.words, 1500) + terms(v.channelWords, 750) + terms(v.excerpt, 200))
        + bonus(o.phrase # "" /\ o.phrase \in v.words, 6000)
        + bonus(v.channel \in state.subscribed, 1000)
        + bonus(v.id \in state.favorites, 750)
        + bonus(v.id \in state.queued, 250)
        + (IF v.views > 8 THEN 800 ELSE 100 * v.views)
        + bonus(v.published # 0 /\ days \in 0..364, 750 - (750 * days) \div 365)

\* Only the order by relevance is ranked, and ties keep the order of the provider.
RankWithNanoRank(items, o, state) ==
    IF o.order # "relevance" THEN items
    ELSE LET score(n) == NanoRankScore(items[n], n - 1, o, state)
             order == SortedBy([n \in DOMAIN items |-> n], LAMBDA n : 0 - score(n))
         IN  [n \in DOMAIN items |-> items[order[n]]]

-------------------------------------------------------------------------------
(* The public provider runs an extractor, whose entries without an identifier   *)
(* are dropped; a token is an offset, and 0 says that nothing follows.          *)

Answer(error, items, next) == [error |-> error, items |-> items, next |-> next]

\* QueryString: what is looked for as one text; a channel is no part of it.
QueryString(o) == ({o.query, o.phrase, o.include} \ {""}) \cup o.exclude

Parsed(entries) == Where(entries, LAMBDA v : v.id # 0)

\* The extractor is asked for everything up to the end of the page.
PublicSearch(all, o) ==
    CASE QueryString(o) = {} -> Answer("none", <<>>, 0)
      [] QueryString(o) # {} /\ o.offset \notin 0..MaxPublicOffset -> Answer("token", <<>>, 0)
      [] OTHER -> LET items == Window(Parsed(Window(all, o.offset + o.max, 0)), o.max, o.offset)
                  IN  Answer("none", items, IF Len(items) = o.max THEN o.offset + Len(items) ELSE 0)

\* PlaylistItems and ChannelVideos: the extractor is asked for the page alone.
Listing(all, limit, offset) ==
    LET size == IF limit \in 1..MaxListing THEN limit ELSE MaxListing
        items == Parsed(Window(all, size, offset))
    IN  IF offset \notin 0..MaxListingOffset THEN Answer("token", <<>>, 0)
        ELSE Answer("none", items, IF Len(items) = size THEN offset + size ELSE 0)

-------------------------------------------------------------------------------
(* Service.Search: the official provider returns an answer of its own, and an   *)
(* account that is not connected has none.                                      *)

ServiceSearch(form, state, providers, connected) ==
    LET o == NormalizeOptions(form)
        answer == IF RequiresOfficialAPI(o) THEN providers.official
                  ELSE PublicSearch(providers.public, RemoteSearchOptions(o))
    IN  IF ~ValidOptions(o) THEN Answer("invalid", <<>>, 0)
        ELSE IF RequiresOfficialAPI(o) /\ ~connected THEN Answer("no account", <<>>, 0)
        ELSE [answer EXCEPT !.items = RankWithNanoRank(ApplyLocalFilters(@, o, state), o, state)]

\* A guest that asks for all three types gets videos, if they alone need no account.
ShouldUseGuestVideoSearch(form, connected) ==
    LET o == NormalizeOptions(form) IN
    /\ Len(o.types) = 3 /\ ToSet(o.types) = Types
    /\ ~RequiresOfficialAPI([o EXCEPT !.types = <<"video">>])
    /\ ~connected

LocalSearchState(db, excluded) ==
    [progress |-> db.progress, favorites |-> db.favorites, queued |-> db.queued,
     subscribed |-> db.subscribed \cap DOMAIN db.titles, rejected |-> excluded]

SearchAdvanced(form, state, providers, connected) ==
    ServiceSearch(IF ShouldUseGuestVideoSearch(form, connected)
                  THEN [form EXCEPT !.types = <<"video">>] ELSE form,
                  state, providers, connected)
===============================================================================
