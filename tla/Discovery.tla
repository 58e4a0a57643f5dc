-------------------------------- MODULE Discovery -------------------------------
(* The answers that Catalogue, Search and Suggestions compute, over inputs a    *)
(* user can bring about: one video and every filter, a form of the search and   *)
(* what the providers return, a database and its Home, a list read page by      *)
(* page, the playlist of a source of channels.  A question is a state, and the  *)
(* answer to it does not change it.                                             *)
EXTENDS Search, Suggestions

CONSTANTS
    FilterInputs,       \* [kind, video, rows, favorites]
    SearchInputs,       \* [kind, form, state, public, official, connected]
    HomeInputs,         \* [kind, db]
    PageInputs,         \* [kind, db, size]
    ListInputs,         \* [kind, lines, before, options, guide]: of a source of channels
    EpisodeTitles, SeriesGroups, MovieGroups, TVGroups, PlayableURLs, MaxWarnings, Like

VARIABLE question

\* The form as it is before anything is chosen.
AnyForm == [malformed |-> FALSE, query |-> "", phrase |-> "", include |-> "", exclude |-> {}, channel |-> 0,
            topic |-> FALSE, location |-> FALSE, api |-> FALSE, official |-> "", types |-> <<>>, order |-> "",
            after |-> 0, before |-> 0, duration |-> "", minDuration |-> 0, maxDuration |-> 0,
            shorts |-> FALSE, regular |-> FALSE, event |-> "", watch |-> "", saved |-> "",
            onlySubscribed |-> FALSE, hideRejected |-> FALSE, max |-> 0, offset |-> 0]

\* What a database holds: durations, positions and dates are not negative, and
\* a text that orders is its rank.
IsVideo(v) ==
    v.id \in Nat /\ v.channel \in Nat /\ v.duration \in Nat /\ v.published \in Nat /\ v.title \in Int /\ v.views \in Nat

AreRows(progress) ==
    \A id \in DOMAIN progress :
        /\ {progress[id].position, progress[id].duration, progress[id].updated} \subseteq Nat
        /\ progress[id].completed \in BOOLEAN

ASSUME NowAssumption == Now \in Nat

ASSUME KindAssumption ==
    /\ \A q \in FilterInputs : q.kind = "filter"
    /\ \A q \in SearchInputs : q.kind = "search"
    /\ \A q \in HomeInputs : q.kind = "home"
    /\ \A q \in PageInputs : q.kind = "pages"
    /\ \A q \in ListInputs : q.kind = "list"

ASSUME FilterAssumption ==
    \A q \in FilterInputs : IsVideo(q.video) /\ q.video.type = "video" /\ AreRows(q.rows)

AreVideos(items) == items \in Seq(ToSet(items)) /\ \A n \in DOMAIN items : IsVideo(items[n])

ASSUME SearchAssumption ==
    \A q \in SearchInputs :
        /\ DOMAIN q.form = DOMAIN AnyForm /\ q.form.max \in Int
        /\ {q.form.shorts, q.form.regular, q.form.onlySubscribed, q.form.hideRejected} \subseteq BOOLEAN
        /\ AreVideos(q.public) /\ AreVideos(q.official.items)
        /\ DOMAIN q.official = {"error", "items", "next"}

\* A video has one row, and a topic some words.
ASSUME HomeAssumption ==
    \A q \in HomeInputs :
        /\ AreVideos(q.db.videos) /\ IsInjective(q.db.videos) /\ AreRows(q.db.progress)
        /\ q.db.topics \in Seq(ToSet(q.db.topics))
        /\ \A n \in DOMAIN q.db.topics : IsFiniteSet(q.db.topics[n].words) /\ q.db.topics[n].score \in Int

ASSUME PageAssumption ==
    \A q \in PageInputs : AreVideos(q.db.videos) /\ q.size \in Int

ASSUME SizeAssumption ==
    /\ {DefaultResults, MaxResults, DefaultPage, MaxPage, MaxListing} \subseteq Nat \ {0}
    /\ {MaxPublicOffset, MaxListingOffset} \subseteq Nat
    /\ {DefaultRecent, MaxRecent} \subseteq Nat \ {0}
    /\ {Limits.continue, Limits.forYou, Limits.subscriptions, Limits.rediscovery, Limits.topic, Limits.topics}
            \subseteq Nat

Lists == INSTANCE M3U

\* An address that can be played is none of the words for a failure.
ASSUME ListAssumption ==
    /\ PlayableURLs \cap Lists!Failures = {}
    /\ \A q \in ListInputs :
        /\ q.lines \in Seq(Lists!Lines) /\ q.options \in [items : Nat, batch : Nat]
        /\ q.before \in Seq(ToSet(q.before))
        /\ q.guide \in Seq([kind : {"channel"}, id : STRING]
                           \cup [kind : {"programme"}, channel : STRING, start : Nat, end : Nat])

AskInit == question \in FilterInputs \cup SearchInputs \cup HomeInputs \cup PageInputs \cup ListInputs

AskNext == UNCHANGED question

AskSpec == AskInit /\ [][AskNext]_question

-------------------------------------------------------------------------------
(* The questions. *)

AnyFilter == [channel |-> 0, duration |-> "any", min |-> 0, max |-> 0, age |-> "any", category |-> "",
              watched |-> "any", favorite |-> FALSE, content |-> "all", shorts |-> FALSE]

AnyOptions == NormalizeOptions([AnyForm EXCEPT !.query = "a"])

Rows(rows, videos) ==
    [videos |-> videos, titles |-> [c \in {1, 2} |-> c], subscribed |-> {1}, favorites |-> {},
     progress |-> rows, topics |-> <<>>, feedback |-> {}, stars |-> {}, queued |-> {}]

\* A reader of the pages, from the first on: what it has read, where it goes on.
NewReader == [items |-> <<>>, at |-> 0, ended |-> FALSE]
Read(reader, page) == [items |-> reader.items \o page.items, at |-> page.next, ended |-> page.next = 0]

Readers(page, bound) ==
    LET reader[n \in 0..bound] ==
            IF n = 0 THEN NewReader
            ELSE LET before == reader[n - 1] IN IF before.ended THEN before ELSE Read(before, page[before.at])
    IN  reader

Followed(page, bound) == Readers(page, bound)[bound]

SubscriptionPage(db, size, n) ==
    LET page == SubscriptionVideos(db, [channel |-> 0, category |-> "", from |-> 0, to |-> 0,
                                        content |-> "all", watch |-> "all", limit |-> size, offset |-> n])
    IN  [items |-> page.videos, next |-> IF page.more THEN n + Len(page.videos) ELSE 0]

SearchPage(db, size, n) == PublicSearch(db.videos, NormalizeOptions([AnyOptions EXCEPT !.max = size, !.offset = n]))

-------------------------------------------------------------------------------
(* What the answers promise. *)

\* The filter of a playlist or a rule, the local filters of the search and the
\* filter of a feed select the same videos where they use the same words:
\* domain/playlist_filter.go says that the watch states "espelham a busca local"
\* and Shorts are "a mesma aproximação".  Each is written anew, in SQL or in Go.
\* A search tells the beginning of a video from watching it and a filter does
\* not, so "continue" is only narrower there; a window of publication ends with
\* its last instant in one and before it in the other.
FiltersAgree ==
    question.kind = "filter" =>
        LET v == question.video
            db == [Rows(question.rows, <<v>>) EXCEPT !.favorites = question.favorites]
            state == LocalSearchState(db, [videos |-> {}, channels |-> {}])
            passes(filter) == Passes(db, v, filter)
            matches(o) == MatchesLocal(v, o, state)
            feed(content, age) == FeedMatches(v, [content |-> content, age |-> age, category |-> ""]) IN
        /\ \A watched \in {"any", "watched", "unwatched"}, d \in {"any", "short", "medium", "long"},
              b \in BOOLEAN, f \in BOOLEAN :
            passes([AnyFilter EXCEPT !.watched = watched, !.duration = d, !.shorts = b, !.favorite = f])
                <=> matches([AnyOptions EXCEPT !.watch = watched, !.duration = d, !.shorts = b,
                                             !.saved = IF f THEN "favorites" ELSE "any"])
        /\ matches([AnyOptions EXCEPT !.watch = "continue"]) => passes([AnyFilter EXCEPT !.watched = "continue"])
        /\ \A low \in {0, 181, 240}, high \in {0, 240, 1200} :
            passes([AnyFilter EXCEPT !.duration = "custom", !.min = low, !.max = high])
                <=> matches([AnyOptions EXCEPT !.duration = "custom", !.minDuration = low, !.maxDuration = high])
        /\ matches([AnyOptions EXCEPT !.shorts = TRUE]) <=> IsShort(v)
        /\ LET live == \E event \in Events \ {""} : matches([AnyOptions EXCEPT !.event = event]) IN
            /\ (live <=> feed("live", "any")) /\ (live <=> ~feed("regular", "any"))
            /\ live <=> passes([AnyFilter EXCEPT !.content = "live"])
            /\ live <=> ~passes([AnyFilter EXCEPT !.content = "regular"])
            /\ live <=> SubscriptionLive(v)
        /\ \A age \in DOMAIN MaxAge : v.published \notin {0, Now - MaxAge[age]} =>
            (feed("all", age) <=> passes([AnyFilter EXCEPT !.age = age]))

\* The options of a form that are not at their neutral value.
Alone(o, field) == [AnyOptions EXCEPT ![field] = o[field]]
LocalFields ==
    {"channel", "after", "before", "duration", "minDuration", "maxDuration", "shorts", "regular", "event",
     "watch", "saved", "onlySubscribed", "hideRejected"}

\* What the service asks for, and what a provider returns to that.
Asked(q) ==
    LET o == NormalizeOptions(q.form) IN
    IF ShouldUseGuestVideoSearch(q.form, q.connected) THEN [o EXCEPT !.types = <<"video">>] ELSE o

Returned(q) ==
    IF RequiresOfficialAPI(Asked(q)) THEN q.official.items ELSE PublicSearch(q.public, Asked(q)).items

Wanted(v, o, state) ==
    /\ v.type \in ToSet(o.types)
    /\ \A field \in LocalFields : MatchesLocal(v, [Alone(o, field) EXCEPT !.types = o.types], state)

\* The relevance of an item is that of its place among the wanted ones.
PlaceIn(raw, v) == CHOOSE n \in DOMAIN raw : raw[n] = v
ScoreIn(raw, v, o, state) ==
    NanoRankScore(v, Cardinality({n \in 1..(PlaceIn(raw, v) - 1) : Wanted(raw[n], o, state)}), o, state)

ComesBefore(raw, v, w, o, state) ==
    CASE o.order = "date" -> v.published > w.published
      [] o.order = "title" -> v.title < w.title
      [] o.order = "viewCount" -> v.views > w.views
      [] o.order = "relevance" -> ScoreIn(raw, v, o, state) > ScoreIn(raw, w, o, state)
      [] OTHER -> FALSE

\* A page of results honours every option of the form, each by itself: an item
\* that the provider returned is shown exactly if no option excludes it, whatever
\* the others are (SEARCH.md: filters combine with AND), and once; by the order
\* that was asked for, or by relevance with what the user likes moved up but an
\* equal score never turning the order of the provider round.  No provider
\* returns an item twice.
SearchHonoursOptions ==
    question.kind = "search" =>
        LET page == SearchAdvanced(question.form, question.state,
                        [public |-> question.public, official |-> question.official], question.connected)
            o == Asked(question)
            raw == Returned(question)
            before(v, w) == ComesBefore(raw, v, w, o, question.state) IN
        page.error = "none" /\ IsInjective(raw) =>
            /\ ToSet(page.items) = {v \in ToSet(raw) : Wanted(v, o, question.state)}
            /\ IsInjective(page.items)
            /\ \A m, n \in DOMAIN page.items : m < n =>
                LET v == page.items[m]
                    w == page.items[n]
                IN  before(v, w) \/ (~before(w, v) /\ PlaceIn(raw, v) < PlaceIn(raw, w))

\* The Home: no section shows what the user rejected or a Short (engine.go:80),
\* none shows a video twice, what can be continued is neither recommended nor to
\* be rediscovered, and at each place of "for you" stands a video no other one
\* would have beaten after those before it, the repetition of a channel counted.
HomeSections ==
    question.kind = "home" =>
        LET home == GetHome(question.db).home
            excluded == FeedbackExclusions(question.db)
            sections == {home.continueWatching, home.forYou, home.recentSubscriptions, home.rediscovery}
                        \cup ToSet(home.topicSections)
            recommended == {home.forYou, home.rediscovery} \cup ToSet(home.topicSections)
            weight(list, v, n) ==
                home.score[v.id] + 5000 \div (1 + Cardinality({m \in 1..(n - 1) : list[m].channel = v.channel})) IN
        /\ \A list \in sections :
            /\ IsInjective(list)
            /\ \A v \in ToSet(list) :
                ~IsShort(v) /\ v.id \notin excluded.videos /\ v.channel \notin excluded.channels
        /\ \A list \in recommended : ToSet(list) \cap ToSet(home.continueWatching) = {}
        /\ \A list \in {home.forYou} \cup ToSet(home.topicSections) : \A m, n \in DOMAIN list :
            m < n => weight(list, list[m], m) >= weight(list, list[n], m)

\* A list that is read page by page comes whole, in its order and without
\* repetition, and the page that says nothing follows is the last one: the
\* subscriptions ("Carregar mais" is "estável", subscriptions.go:17), and a public
\* listing and a public search as far as their offsets go, where every entry has
\* an identifier: a page with one that has none is short and ends the listing.
\* And a rule lists what a playlist of the whole catalogue lists under its filter
\* and its order.  The list stays as it is while it is read.
PagesPartition ==
    question.kind = "pages" =>
        LET db == question.db
            size == question.size
            bound == Len(db.videos) + 2
            identified == \A n \in DOMAIN db.videos : db.videos[n].id # 0
            subscriptions == Followed([n \in Nat |-> SubscriptionPage(db, size, n)], bound)
            listing == Followed([n \in Nat |-> Listing(db.videos, size, n)], bound)
            search == Followed([n \in Nat |-> SearchPage(db, size, n)], bound) IN
        /\ subscriptions.ended
        /\ subscriptions.items = SortedBy(Where(db.videos, LAMBDA v : Subscribed(db, v)), Newest)
        /\ identified /\ Len(db.videos) <= MaxListingOffset + 1 =>
            listing.ended /\ listing.items = db.videos
        /\ identified /\ Len(db.videos) <= MaxPublicOffset + 1 =>
            search.ended /\ search.items = db.videos
        /\ \A sort \in {"title", "published", "duration"}, content \in {"all", "regular"} :
            LET filter == [AnyFilter EXCEPT !.content = content] IN
            SmartVideos(db, [subscribed |-> FALSE, term |-> "", filter |-> filter, sort |-> sort])
                = PlaylistVideos(db, db.videos, filter, sort)

\* The lines that complete an entry: an address after an EXTINF line that no other
\* address, EXTINF line or one that cannot be read comes in between.
Open(lines, n) ==
    \E m \in 1..n : lines[m].kind = "extinf" /\ \A k \in (m + 1)..n : lines[k].kind \notin {"url", "extinf", "bad"}
Entries(lines) == Cardinality({n \in DOMAIN lines : lines[n].kind = "url" /\ Open(lines, n - 1)})

\* Every address is of the entry before it, wherever a batch ends.
BatchesAgree(lines, options) ==
    LET parsed == Lists!Parse(lines, "s", options)
        whole == Lists!Parse(lines, "s", [options EXCEPT !.batch = 100]) IN
    /\ parsed.error <=> Entries(lines) > options.items
    /\ ~parsed.error =>
        /\ parsed.out = whole.out /\ parsed.warnings = whole.warnings
        /\ Len(parsed.out) = Entries(lines)

\* Deleting the items of the source first (ImportIPTVCatalog), or those that went
\* last (ReplaceIPTVCatalog), leaves the same rows; the groups that are offered
\* are those under which something is listed.
RowsAgree(before, items) ==
    LET rows == Lists!ReplacedCatalog(before, "s", items) IN
    /\ rows = Lists!Imported(before, "s", items)
    /\ \A kind \in {"", "tv", "movie", "series", "unknown"} :
        Lists!Groups(rows, kind) =
            {group \in {rows[i].group : i \in DOMAIN rows} \ {""} : \E i \in DOMAIN rows :
                Lists!Shown(rows[i], [source |-> "", kind |-> kind, group |-> group, query |-> ""])}

\* The pages of a list are the list.
PagesOf(items, size) == [n \in 1..Lists!TotalPages(Len(items), size) |-> Lists!Page(items, n, size)]
ListsAgree(items) ==
    \A size \in 1..4, kind \in {"", "tv", "movie"} :
        LET shown == Where(items, LAMBDA i :
                Lists!Shown(i, [source |-> "s", kind |-> kind, group |-> "", query |-> ""]))
        IN  FlattenSeq(PagesOf(shown, size)) = shown

\* The ways to find the stream of an item again: by its id among all items, by
\* its id up to the first that can be played, and, where the items that share
\* its id share its name as well, by what it is.  Of two items with one id and
\* two names the last way sees only one: it may find nothing where the other
\* two find the stream of its namesake.
StreamsAgree(items) ==
    \A n \in DOMAIN items :
        LET item == items[n]
            found == Lists!Resolve(items, item)
            first == Lists!ResolveById(items, item) IN
        /\ found = (IF first = Lists!NotFound THEN Lists!Invalid ELSE first)
        /\ found \notin Lists!Failures /\ (\A m \in DOMAIN items : items[m].id = item.id => Lists!SameIdentity(items[m], item))
            => Lists!ResolveFirst(items, item) \notin Lists!Failures

\* What is on the air is in every window of the guide that is open then.
WindowsAgree(guide) ==
    Lists!Storable(guide) => \A from, to, at \in 0..4 : from <= at /\ at < to =>
        Lists!OnAir(guide.programs, at) \subseteq Lists!InWindow(guide.programs, from, to)

\* What is computed twice from the playlist or the guide of a source of channels
\* agrees: in batches and at once, by the two ways to store it, page by page, by
\* the three ways to find a stream again, on the air and in a window.
ImportsAgree ==
    question.kind = "list" =>
        LET parsed == Lists!Parse(question.lines, "s", question.options) IN
        /\ BatchesAgree(question.lines, question.options)
        /\ ~parsed.error =>
            /\ RowsAgree(Lists!Inserted(<<>>, question.before), parsed.out)
            /\ ListsAgree(parsed.out)
            /\ StreamsAgree(parsed.out)
        /\ WindowsAgree(Lists!ParseXMLTV(question.guide))
===============================================================================
