------------------------------- MODULE MCLibrary -------------------------------
(* Small instances of the library: the playlists, with edits, imports, exports  *)
(* and a restore that overlap, and the answers computed from the catalogue.     *)
(* They share no state, so each is explored by itself.                          *)
EXTENDS Discovery, Playlists, TLC

CONSTANTS v1, v2, v3

VARIABLE part

\* One batch names a video twice, one is out of order.
MCBatches == {<<v1>>, <<v3>>, <<v2, v1>>, <<v1, v1>>}

MCLimits == [continue |-> 1, forYou |-> 3, subscriptions |-> 2, rediscovery |-> 1, topic |-> 2, topics |-> 1]

Plain == [id |-> 1, channel |-> 1, title |-> 1, words |-> {}, published |-> 990, duration |-> 600,
          category |-> "", live |-> "", seen |-> 0, added |-> 0, type |-> "video", views |-> 0,
          channelWords |-> {}, excerpt |-> {}]

Progress(position, duration, completed, updated) ==
    [position |-> position, duration |-> duration, completed |-> completed, updated |-> updated]

-------------------------------------------------------------------------------
(* One video: every boundary of a duration with every watch state, and every    *)
(* state of a broadcast with every boundary of a date.                          *)

WatchRows ==
    {<<>>} \cup {1 :> Progress(position, duration, completed, 1000) :
                    position \in {0, 1, 14, 15, 570, 571, 600}, duration \in {0, 600}, completed \in BOOLEAN}

FilterInput(video, rows, marked) ==
    [kind |-> "filter", video |-> video, rows |-> rows, favorites |-> marked]

MCFilterInputs ==
    {FilterInput([Plain EXCEPT !.duration = d], rows, marked) :
        d \in {0, 1, 180, 181, 239, 240, 1200, 1201}, rows \in WatchRows, marked \in {{}, {1}}}
    \cup
    {FilterInput([Plain EXCEPT !.live = live, !.published = day], <<>>, {}) :
        live \in {"", "none", "not_live", "is_live", "live", "post_live", "was_live", "completed",
                  "is_upcoming", "upcoming", "premiere"},
        day \in {0, 634, 635, 636, 969, 970, 971, 992, 993, 994, 998, 999, 1000, 1001}}

-------------------------------------------------------------------------------
(* The search: five items that differ in what the options ask for.              *)

Items ==
    <<[Plain EXCEPT !.id = 11, !.title = 3, !.words = {"a"}, !.duration = 100, !.views = 2],
      [Plain EXCEPT !.id = 12, !.title = 2, !.channel = 2, !.published = 0, !.live = "was_live", !.views = 9],
      [Plain EXCEPT !.id = 13, !.title = 1, !.words = {"a", "b"}, !.published = 1000, !.duration = 1500],
      [Plain EXCEPT !.id = 14, !.type = "channel", !.channel = 2, !.duration = 0],
      [Plain EXCEPT !.id = 15, !.title = 2, !.channel = 2, !.channelWords = {"a"}, !.duration = 200]>>

Answers == {<<Items[1], Items[2], Items[3]>>, <<Items[3], Items[5], Items[1]>>, <<Items[5], Items[2]>>,
            <<Items[2], Items[4], Items[5]>>}

Forms ==
    {[AnyForm EXCEPT !.query = "a", !.include = include, !.order = order, !.watch = watch, !.saved = saved,
                  !.onlySubscribed = subscribed, !.hideRejected = subscribed] :
        include \in {"", "b"}, order \in {"", "date"}, watch \in {"", "unwatched", "watched", "continue"},
        saved \in {"", "favorites", "queue", "not-saved"}, subscribed \in BOOLEAN}
    \cup
    {[AnyForm EXCEPT !.query = "a", !.order = order, !.duration = duration, !.minDuration = low,
                  !.shorts = shorts, !.regular = regular, !.event = event] :
        order \in {"viewCount", "title"}, duration \in {"short", "medium", "custom"}, low \in {0, 181},
        shorts \in BOOLEAN, regular \in BOOLEAN, event \in {"", "completed"}}
    \cup
    {[AnyForm EXCEPT !.query = query, !.channel = channel, !.types = types, !.after = after, !.before = before,
                  !.official = official, !.max = max, !.offset = offset] :
        query \in {"", "a"}, channel \in {0, 2},
        types \in {<<>>, <<"video">>, <<"channel", "video">>, <<"channel", "playlist", "video">>},
        after \in {0, 980}, before \in {0, 995}, official \in {"", "yes"}, max \in {0, 2}, offset \in {0, 1}}

States ==
    {[progress |-> <<>>, favorites |-> {11}, queued |-> {12}, subscribed |-> {1},
      rejected |-> [videos |-> {13}, channels |-> {}]],
     [progress |-> (11 :> Progress(20, 100, FALSE, 1000)) @@ (13 :> Progress(20, 100, TRUE, 1000))
                   @@ (15 :> Progress(5, 200, FALSE, 1000)),
      favorites |-> {11, 15}, queued |-> {13}, subscribed |-> {2},
      rejected |-> [videos |-> {}, channels |-> {2}]]}

MCSearchInputs ==
    {[kind |-> "search", form |-> form, state |-> state, public |-> answer,
      official |-> [error |-> "none", items |-> answer, next |-> 1], connected |-> connected] :
        form \in Forms, state \in States, answer \in Answers, connected \in BOOLEAN}

-------------------------------------------------------------------------------
(* The Home: three videos, each new, begun, almost over, over, a Short or       *)
(* rejected, of two channels.                                                   *)

Kinds ==
    {<<Plain, <<>>>>, <<[Plain EXCEPT !.channel = 2], <<>>>>, <<[Plain EXCEPT !.duration = 180], <<>>>>,
     <<[Plain EXCEPT !.words = {"a"}], <<Progress(300, 600, FALSE, 999)>>>>,
     <<[Plain EXCEPT !.channel = 2], <<Progress(540, 600, FALSE, 980)>>>>,
     <<[Plain EXCEPT !.channel = 2, !.words = {"a"}], <<Progress(0, 600, TRUE, 980)>>>>,
     <<[Plain EXCEPT !.published = 900], <<Progress(590, 600, FALSE, 993)>>>>}

MCHomeInputs ==
    {[kind |-> "home",
      db |-> [videos |-> [n \in 1..3 |-> [kinds[n][1] EXCEPT !.id = n]],
              titles |-> (1 :> 1) @@ (2 :> 2), subscribed |-> subscribed, favorites |-> {}, queued |-> {},
              progress |-> [n \in {m \in 1..3 : kinds[m][2] # <<>>} |-> kinds[n][2][1]],
              topics |-> topics, feedback |-> feedback, stars |-> {2}]] :
        kinds \in [1..3 -> Kinds], subscribed \in {{}, {1}},
        topics \in {<<>>, <<[words |-> {"a"}, score |-> 1]>>},
        feedback \in {{}, {[video |-> 1, channel |-> 0, action |-> "hide_video"]},
                      {[video |-> 0, channel |-> 2, action |-> "ignore_channel"]}}}

-------------------------------------------------------------------------------
(* Lists of up to six entries, some of the same day, read by pages of no size,  *)
(* which is the default one, to seven, which is cut to five.                    *)

MCPageInputs ==
    {[kind |-> "pages", size |-> size,
      db |-> [Rows(<<>>, [n \in 1..length |-> [Plain EXCEPT !.id = n, !.channel = channels[n],
                                                                  !.published = 990 + (n \div 2)]])
              EXCEPT !.subscribed = {1}]] :
        length \in 0..6, size \in 0..7,
        channels \in {[n \in 1..6 |-> three[(n % 3) + 1]] : three \in [1..3 -> {1, 2}]}}

-------------------------------------------------------------------------------
(* Playlists of channels: any four lines and one entry more, for a source that  *)
(* had an item of that name, within and beyond the limit of items; and a guide. *)

News == Lists!Extinf("news", "News", "", "tv")
\* The same channel by its id, under another name.
NewsHD == Lists!Extinf("news", "News HD", "", "tv")
Film == Lists!Extinf("", "Film", "Movies", "")
Lines == {News, NewsHD, Film, Lists!BadExtinf, Lists!Extgrp("G"), Lists!Address("u1"), Lists!Address("gone"), Lists!Other}

MCMovies == {"Movies"}
MCPlayable == {"u1", "u2"}

ListInput(lines, before, options, guide) ==
    [kind |-> "list", lines |-> lines, before |-> before, options |-> options, guide |-> guide]

Elements == {Lists!Channel("news"), Lists!Channel(""), Lists!Programme("news", 1, 2), Lists!Programme("news", 2, 4),
             Lists!Programme("film", 2, 3), Lists!Programme("news", 2, 2)}

MCListInputs ==
    {ListInput(start \o <<Film, Lists!Address("u2")>>, known[1], known[2], <<>>) :
        start \in [1..4 -> Lines],
        known \in {<<<<>>, [items |-> 2, batch |-> 1]>>,
                   <<<<Lists!Item(News, "u9", "s"), Lists!Item(Film, "u9", "other")>>, [items |-> 3, batch |-> 2]>>}}
    \cup
    {ListInput(<<>>, <<>>, [items |-> 2, batch |-> 1], guide) : guide \in [1..3 -> Elements]}

-------------------------------------------------------------------------------

\* Where nothing is asked, and where no playlist changes.
NoQuestion == ListInput(<<>>, <<>>, [items |-> 2, batch |-> 1], <<>>)

Init ==
    \/ part = "playlists" /\ question = NoQuestion /\ PlaylistInit
    \/ part = "discovery" /\ lists = NoRows /\ PlaylistInit /\ AskInit

Next ==
    \/ part = "playlists" /\ PlaylistNext /\ UNCHANGED <<part, question>>
    \/ part = "discovery" /\ AskNext /\ UNCHANGED <<part, playlistVars>>

Spec == Init /\ [][Next]_<<part, playlistVars, question>>
===============================================================================
