------------------------------- MODULE Suggestions ------------------------------
(* The local Home: the interest profile that storage/profile.go derives from    *)
(* the database, the engine that scores and ranks the recent videos             *)
(* (internal/suggestions/engine.go) and the sections GetHome adds.              *)
(*                                                                              *)
(* A profile has the topics, the affinity of every channel, the progress of     *)
(* every video, and what the user rejected.  Fractions are in thousandths, and  *)
(* a score in hundred-thousandths.  Everything here is an operator.             *)
EXTENDS Catalogue

CONSTANTS
    Limits          \* the size of each section

Least(a, b) == IF a < b THEN a ELSE b

-------------------------------------------------------------------------------
(* The profile. *)

\* Topics by their score; without one above 0 there are none.
InterestTopics(db) == SortedBy(Where(db.topics, LAMBDA t : t.score > 0), LAMBDA t : 0 - t.score)

FeedbackExclusions(db) ==
    [videos |-> {f.video : f \in {g \in db.feedback : g.action \in {"dont_recommend", "hide_video"}}},
     channels |-> {f.channel : f \in {g \in db.feedback : g.action = "ignore_channel"}}]

Fraction(p) == IF p.duration <= 0 THEN 0 ELSE Least((1000 * p.position) \div p.duration, 1000)

\* Videos of a channel that were played.
Played(db, c) ==
    {v \in {db.videos[n] : n \in DOMAIN db.videos} : v.channel = c /\ v.id \in DOMAIN db.progress}

Completed(p) == p.completed \/ (p.duration > 0 /\ 100 * p.position >= 85 * p.duration)

Greatest(S) == IF S = {} THEN 0 ELSE CHOOSE x \in S : \A y \in S : y <= x

\* How much of these was played.
Volume(db, played) ==
    LET sum[n \in 0..Len(db.videos)] ==
            IF n = 0 THEN 0
            ELSE sum[n - 1] + IF db.videos[n] \in played THEN Fraction(db.progress[db.videos[n].id]) ELSE 0
    IN  sum[Len(db.videos)]

\* From the fifteenth day on it fades.
Faded(watched, last) ==
    LET days == Now - last IN
    IF last # 0 /\ days > 14 THEN (watched * (IF days < 74 THEN 74 - days ELSE 0)) \div 60 ELSE watched

\* What the user watched of a channel fades; the subscription and the star do not.
Affinity(db, c) ==
    LET played == Played(db, c)
        completed == Cardinality({v \in played : Completed(db.progress[v.id])})
        floor == (IF c \in db.subscribed THEN 500 ELSE 0) + (IF c \in db.stars THEN 300 ELSE 0)
        watched == (200 * Least(Volume(db, played), 5000)) \div 5000 + (100 * Least(completed, 3)) \div 3
        last == Greatest({db.progress[v.id].updated : v \in played})
    IN  Least(floor + Faded(watched, last), 1000)

BuildProfile(db) ==
    [topics |-> InterestTopics(db),
     affinity |-> [c \in DOMAIN db.titles |-> Affinity(db, c)],
     subscribed |-> db.subscribed \cap DOMAIN db.titles,
     stars |-> db.stars,
     progress |-> db.progress,
     excluded |-> FeedbackExclusions(db)]

-------------------------------------------------------------------------------
(* The score of a video. *)

Overlap(topic, words) == IF topic = {} THEN 0 ELSE (1000 * Cardinality(topic \cap words)) \div Cardinality(topic)

TopicAffinity(profile, v) ==
    Greatest({Overlap(profile.topics[n].words, v.words) : n \in DOMAIN profile.topics})

ChannelAffinity(profile, v) == IF v.channel \in DOMAIN profile.affinity THEN profile.affinity[v.channel] ELSE 0

Freshness(v) ==
    LET days == IF Now > v.published THEN Now - v.published ELSE 0 IN
    IF v.published = 0 \/ days > 90 THEN 0 ELSE 1000 - (1000 * days) \div 90

Novelty(profile, v) ==
    LET p == profile.progress[v.id]
        days == Now - p.updated IN
    CASE v.id \notin DOMAIN profile.progress -> 1000
      [] v.id \in DOMAIN profile.progress /\ p.updated = 0 -> 500
      [] v.id \in DOMAIN profile.progress /\ p.updated # 0 ->
            IF days >= 30 THEN 900 ELSE IF days >= 7 THEN 500 ELSE 200

Watched(profile, v) == IF v.id \in DOMAIN profile.progress THEN Fraction(profile.progress[v.id]) ELSE 0

Score(profile, v) ==
    30 * TopicAffinity(profile, v) + 30 * ChannelAffinity(profile, v) + 15 * Freshness(v)
        + 10 * Watched(profile, v) + 10 * Novelty(profile, v)

\* Why a video is there, in the order the labels are given.
Reasons(profile, v) ==
    LET channel == ChannelAffinity(profile, v) >= 300 IN
    Where(<<"topic", "channel", "subscribed", "fresh", "watch">>, LAMBDA kind :
        CASE kind = "topic" -> TopicAffinity(profile, v) >= 500
          [] kind = "channel" -> channel
          [] kind = "subscribed" -> channel /\ v.channel \in profile.subscribed \ profile.stars
          [] kind = "fresh" -> Freshness(v) >= 700
          [] kind = "watch" -> Watched(profile, v) > 0)

-------------------------------------------------------------------------------
(* The ranking: the best score, less for a channel that was picked before. *)

Effective(v, score, picks) == score[v.id] + 5000 \div (1 + picks[v.channel])

\* The first of the best.
BestOf(remaining, score, picks) ==
    CHOOSE i \in DOMAIN remaining :
        /\ \A j \in DOMAIN remaining :
            Effective(remaining[j], score, picks) <= Effective(remaining[i], score, picks)
        /\ \A j \in 1..(i - 1) :
            Effective(remaining[j], score, picks) < Effective(remaining[i], score, picks)

\* The last one takes the place of the one picked.
SwappedOut(remaining, i) ==
    LET last == Len(remaining) IN [n \in 1..(last - 1) |-> remaining[IF n = i THEN last ELSE n]]

\* Mutant: the channel of a pick is not counted.
PickUncounted(state, score) ==
    LET i == BestOf(state.remaining, score, state.picks) IN
    [state EXCEPT !.out = Append(@, state.remaining[i]), !.remaining = SwappedOut(@, i)]

Pick(state, score) ==
    LET i == BestOf(state.remaining, score, state.picks)
        v == state.remaining[i] IN
    [out |-> Append(state.out, v), remaining |-> SwappedOut(state.remaining, i),
     picks |-> [state.picks EXCEPT ![v.channel] = @ + 1]]

Unpicked(items) ==
    [out |-> <<>>, remaining |-> items, picks |-> [c \in {items[i].channel : i \in DOMAIN items} |-> 0]]

\* What is picked and what remains, after each pick.
Picks(items, limit, score) ==
    LET state[n \in 0..Least(limit, Len(items))] ==
            IF n = 0 THEN Unpicked(items) ELSE Pick(state[n - 1], score)
    IN  state

RankWithDiversity(items, limit, score) == Picks(items, limit, score)[Least(limit, Len(items))].out

-------------------------------------------------------------------------------
(* The Home. *)

IsShort(v) == v.duration > 0 /\ v.duration <= 180

InProgress(profile, v) ==
    LET p == profile.progress[v.id] IN
    /\ v.id \in DOMAIN profile.progress
    /\ p.duration > 0 /\ p.position > 0 /\ 100 * p.position <= 95 * p.duration
    /\ ~p.completed

Finished(profile, v) ==
    LET p == profile.progress[v.id] IN
    /\ v.id \in DOMAIN profile.progress
    /\ p.completed \/ (p.duration > 0 /\ 100 * p.position > 95 * p.duration)

Forgotten(profile, v) ==
    LET p == profile.progress[v.id] IN p.updated = 0 \/ Now - p.updated >= 7

\* What the user rejected and Shorts are no candidates.
Candidates(profile, videos) ==
    Where(videos, LAMBDA v :
        v.id \notin profile.excluded.videos /\ v.channel \notin profile.excluded.channels /\ ~IsShort(v))

BestFirst(items, score, n) == Window(SortedBy(items, LAMBDA v : 0 - score[v.id]), n, 0)

ContinueWatching(profile, items) ==
    Window(SortedBy(Where(items, LAMBDA v : InProgress(profile, v)),
                    LAMBDA v : 0 - profile.progress[v.id].updated), Limits.continue, 0)

ForYou(profile, items, score) ==
    RankWithDiversity(Where(items, LAMBDA v : ~InProgress(profile, v)), Limits.forYou, score)

RecentSubscriptions(profile, items, score) ==
    BestFirst(Where(items, LAMBDA v : v.channel \in profile.subscribed), score, Limits.subscriptions)

Rediscovery(profile, items, score) ==
    BestFirst(Where(items, LAMBDA v : Finished(profile, v) /\ Forgotten(profile, v)),
              score, Limits.rediscovery)

TopicSections(profile, items, score) ==
    LET section(t) == RankWithDiversity(
            Where(items, LAMBDA v : ~InProgress(profile, v) /\ Overlap(t.words, v.words) > 0),
            Limits.topic, score)
        top == Window(profile.topics, Limits.topics, 0)
    IN  Where([n \in DOMAIN top |-> section(top[n])], LAMBDA videos : videos # <<>>)

BuildHome(profile, videos) ==
    LET items == Candidates(profile, videos)
        score == [id \in {items[n].id : n \in DOMAIN items} |->
                    Score(profile, CHOOSE v \in {items[n] : n \in DOMAIN items} : v.id = id)] IN
    [continueWatching |-> ContinueWatching(profile, items),
     forYou |-> ForYou(profile, items, score),
     recentSubscriptions |-> RecentSubscriptions(profile, items, score),
     rediscovery |-> Rediscovery(profile, items, score),
     topicSections |-> TopicSections(profile, items, score),
     score |-> score,
     reasons |-> [n \in DOMAIN items |-> Reasons(profile, items[n])]]

\* GetHome: three more lists, of the recent videos as they are.
GetHome(db) ==
    LET recent == Recent(db, [channel |-> 0, subscribed |-> FALSE, limit |-> MaxRecent, offset |-> 0])
        profile == BuildProfile(db)
        untouched(v) == v.id \in DOMAIN profile.progress =>
            ~profile.progress[v.id].completed /\ profile.progress[v.id].position = 0
    IN  [home |-> BuildHome(profile, recent),
         unwatched |-> Where(recent, untouched),
         long |-> Where(recent, LAMBDA v : v.duration > 1200)]
===============================================================================
