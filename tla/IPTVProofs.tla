------------------------------- MODULE IPTVProofs -------------------------------
(***************************************************************************)
(* What the database and the keyring of IPTV guarantee, for any sources,   *)
(* playlists and guides, any number of calls under way and any faults.     *)
(* Two arguments carry everything:                                         *)
(*   - while a call holds the only connection no other call writes the     *)
(*     database, so that what the transaction computed from it still       *)
(*     applies when it commits (Isolated);                                 *)
(*   - a call that has its source to itself knows at each step how the     *)
(*     keyring and the row differ, and what to write back (Tracked).       *)
(***************************************************************************)
EXTENDS IPTV, SequenceTheorems, WellFoundedInduction, TLAPS

--------------------------------------------------------------------------------
(* The rows a playlist can give. *)

\* Any string; those the parser writes itself are named.
Texts == STRING \cup {"", "tv", "movie", "series", "unknown", "attribute", "title", "group",
                     "missing-stream", "invalid-extinf", "orphan-stream"}
Entries == [kind : {"extinf", "bad", "extgrp", "url", "other"}, id : Texts, title : Texts, group : Texts,
            type : Texts, url : Texts]

LEMMA LinesAreEntries == Lines \subseteq Entries
BY DEF Lines, Entries, Texts

Ids == Sources \X Texts \X Seq(Texts)
Items == [id : Ids, source : Sources, kind : Texts, by : Texts, title : Texts, group : Texts, url : Texts]

\* The source is the first part of the id, so two sources share no item.
Owned(item) == item.id[1] = item.source
ItemsOf(s) == {item \in Items : item.source = s /\ Owned(item)}

IsCatalog(cat) ==
  /\ cat = [i \in DOMAIN cat |-> cat[i]]
  /\ \A i \in DOMAIN cat : cat[i] \in Items /\ Owned(cat[i]) /\ cat[i].id = i

IsTable(table) ==
  /\ table = [s \in DOMAIN table |-> table[s]]
  /\ DOMAIN table \subseteq Sources /\ \A s \in DOMAIN table : table[s] \in Row

\* A parser at work on the playlist of s.
ParserType(s) ==
  [pending : Seq(Entries), group : Texts, batch : Seq(ItemsOf(s)), total : Nat, warnings : Seq(Texts),
   out : Seq(ItemsOf(s)), error : BOOLEAN]
IsParser(p, s) == p \in ParserType(s)

LEMMA LeastExists ==
  ASSUME NEW S \in SUBSET Nat, S # {}
  PROVE  \E n \in S : \A m \in S : n <= m
<1>1. IsWellFoundedOn(OpToRel(<, Nat), Nat)
  BY NatLessThanWellFounded
<1>2. PICK n \in S : \A m \in S : ~(<<m, n>> \in OpToRel(<, Nat))
  BY <1>1, WFMin
<1>3. ASSUME NEW m \in S PROVE n <= m
  <2>1. m \in Nat /\ n \in Nat
    OBVIOUS
  <2>2. ~(m < n)
    BY <1>2, <2>1 DEF OpToRel
  <2>. QED  BY <2>1, <2>2
<1>. QED  BY <1>3

\* The items of a batch with an id have a last one.
LEMMA GreatestExists ==
  ASSUME NEW k \in Nat, NEW S \in SUBSET (1..k), S # {}
  PROVE  \E n \in S : \A m \in S : m <= n
<1>. DEFINE T == {n \in Nat : k - n \in S}
<1>1. T \in SUBSET Nat /\ T # {}
  <2>1. PICK m \in S : TRUE
    OBVIOUS
  <2>2. k - m \in T
    BY <2>1
  <2>. QED  BY <2>2
<1>2. PICK x \in T : \A y \in T : x <= y
  <2>. HIDE DEF T
  <2>. QED  BY <1>1, LeastExists
<1>3. k - x \in S
  OBVIOUS
<1>4. ASSUME NEW m \in S PROVE m <= k - x
  <2>1. k - m \in T
    OBVIOUS
  <2>. QED  BY <1>2, <2>1
<1>. QED  BY <1>3, <1>4

--------------------------------------------------------------------------------
(* The parser, line after line. *)

After(lines, s) == ParserStates(lines, s, Options)

\* The states of the parser exist for every playlist, by the number of lines.
LEMMA AfterEach ==
  ASSUME NEW lines \in Seq(Lines), NEW s
  PROVE  LET g == After(lines, s) IN
         g = [n \in 0..Len(lines) |-> IF n = 0 THEN Parser ELSE Parsed(g[n - 1], lines[n], s, Options)]
<1>. DEFINE Next1(g, n) == IF n = 0 THEN Parser ELSE Parsed(g[n - 1], lines[n], s, Options)
            Some(m) == \E g : g = [n \in 0..m |-> Next1(g, n)]
            Missing == {m \in Nat : ~Some(m)}
<1>1. Some(0)
  <2>. DEFINE g == [n \in 0..0 |-> Parser]
  <2>1. g = [n \in 0..0 |-> Next1(g, n)]
    OBVIOUS
  <2>. QED  BY <2>1
<1>2. ASSUME NEW m \in Nat, m # 0, Some(m - 1) PROVE Some(m)
  <2>1. PICK g : g = [n \in 0..m - 1 |-> Next1(g, n)]
    BY <1>2
  <2>. DEFINE last == Parsed(g[m - 1], lines[m], s, Options)
              h == [n \in 0..m |-> IF n = m THEN last ELSE g[n]]
  <2>2. ASSUME NEW n \in 0..m PROVE h[n] = Next1(h, n)
    <3>1. CASE n = m
      <4>1. h[m - 1] = g[m - 1] /\ h[m] = last
        BY <1>2
      <4>. HIDE DEF h
      <4>. QED  BY <1>2, <3>1, <4>1
    <3>2. CASE n # m
      <4>1. n \in 0..m - 1 /\ h[n] = g[n] /\ (n # 0 => h[n - 1] = g[n - 1])
        BY <1>2, <3>2
      <4>. HIDE DEF h
      <4>2. g[n] = Next1(g, n)
        BY <2>1, <4>1
      <4>. QED  BY <4>1, <4>2
    <3>. QED  BY <3>1, <3>2
  <2>3. h = [n \in 0..m |-> h[n]]
    OBVIOUS
  <2>. HIDE DEF h, Next1
  <2>4. h = [n \in 0..m |-> Next1(h, n)]
    BY <2>2, <2>3
  <2>. QED  BY <2>4
<1>. HIDE DEF Some, Next1
<1>3. Missing = {}
  <2>. SUFFICES ASSUME Missing # {} PROVE FALSE
    OBVIOUS
  <2>1. PICK m \in Missing : \A n \in Missing : m <= n
    BY LeastExists
  <2>2. m # 0 /\ m - 1 \in Nat /\ ~(m - 1 \in Missing)
    BY <1>1, <2>1
  <2>. QED  BY <1>2, <2>1, <2>2
<1>4. Len(lines) \in Nat
  BY LenProperties
<1>5. Some(Len(lines))
  BY <1>3, <1>4
<1>6. PICK g : g = [n \in 0..Len(lines) |-> Next1(g, n)]
  BY <1>5 DEF Some
<1>. QED  BY <1>6 DEF After, ParserStates, Next1

LEMMA ItemType ==
  ASSUME NEW s \in Sources, NEW entry \in Entries, NEW url \in Texts
  PROVE  Item(entry, url, s) \in ItemsOf(s)
<1>1. /\ entry.id \in Texts /\ entry.title \in Texts /\ entry.group \in Texts /\ entry.type \in Texts
  BY DEF Entries
<1>2. Classified(entry).kind \in Texts /\ Classified(entry).by \in Texts
  <2>. SUFFICES \E kind \in Texts, by \in Texts : Classified(entry) = [kind |-> kind, by |-> by]
    OBVIOUS
  <2>1. CASE entry.type \in DOMAIN Attributes
    <3>1. DOMAIN Attributes = {"tv", "live", "movie", "film", "series", "show"}
      BY DEF Attributes
    <3>2. \A type \in DOMAIN Attributes : Attributes[type] \in {"tv", "movie", "series"}
      BY <3>1 DEF Attributes
    <3>3. Attributes[entry.type] \in Texts
      BY <2>1, <3>2 DEF Texts
    <3>4. Classified(entry) = [kind |-> Attributes[entry.type], by |-> "attribute"]
      BY <2>1 DEF Classified
    <3>. QED  BY <3>3, <3>4 DEF Texts
  <2>2. CASE entry.type \notin DOMAIN Attributes /\ entry.title \in EpisodeTitles
    <3>1. Classified(entry) = [kind |-> "series", by |-> "title"]
      BY <2>2 DEF Classified
    <3>. QED  BY <3>1 DEF Texts
  <2>3. CASE entry.type \notin DOMAIN Attributes /\ entry.title \notin EpisodeTitles
    <3>1. \/ Classified(entry) = [kind |-> "series", by |-> "group"]
          \/ Classified(entry) = [kind |-> "movie", by |-> "group"]
          \/ Classified(entry) = [kind |-> "tv", by |-> "group"]
          \/ Classified(entry) = [kind |-> "unknown", by |-> "unknown"]
      BY <2>3 DEF Classified
    <3>. QED  BY <3>1 DEF Texts
  <2>. QED  BY <2>1, <2>2, <2>3
<1>3. Identity(entry) \in Seq(Texts)
  <2>1. <<entry.id>> \in Seq(Texts) /\ <<entry.title, entry.group>> \in Seq(Texts)
    BY <1>1
  <2>. QED  BY <2>1 DEF Identity
<1>. DEFINE class == Classified(entry)
            id == <<s, class.kind, Identity(entry)>>
<1>4. id \in Ids /\ id[1] = s
  BY <1>2, <1>3 DEF Ids
<1>5. Item(entry, url, s) =
        [id |-> id, source |-> s, kind |-> class.kind, by |-> class.by, title |-> entry.title,
         group |-> entry.group, url |-> url]
  BY DEF Item
<1>. HIDE DEF id, class
<1>. QED  BY <1>1, <1>2, <1>4, <1>5 DEF ItemsOf, Items, Owned, class

\* The parser p has handed over o before what it hands over now.
Prefixed(o, p) == [p EXCEPT !.out = o \o @]

LEMMA PrefixedStep ==
  ASSUME NEW s, NEW p, IsParser(p, s), NEW o \in Seq(ItemsOf(s))
  PROVE  /\ IsParser(Prefixed(o, p), s)
         /\ Prefixed(o, p).pending = p.pending /\ Prefixed(o, p).group = p.group /\ Prefixed(o, p).batch = p.batch
         /\ Prefixed(o, p).total = p.total /\ Prefixed(o, p).warnings = p.warnings /\ Prefixed(o, p).error = p.error
         /\ Prefixed(o, p).out = o \o p.out
<1>1. p \in ParserType(s) /\ p.out \in Seq(ItemsOf(s))
  BY DEF IsParser, ParserType
<1>2. o \o p.out \in Seq(ItemsOf(s))
  BY <1>1, ConcatProperties
<1>. QED  BY <1>1, <1>2 DEF IsParser, ParserType, Prefixed

LEMMA WarnedStep ==
  ASSUME NEW s, NEW p, IsParser(p, s), NEW code \in Texts
  PROVE  /\ IsParser(Warned(p, code), s) /\ Warned(p, code).error = p.error
         /\ Warned(p, code).pending = p.pending /\ Warned(p, code).out = p.out
<1>. DEFINE q == [p EXCEPT !.warnings = Append(@, code)]
<1>1. p \in ParserType(s)
  BY DEF IsParser, ParserType
<1>2. Append(p.warnings, code) \in Seq(Texts)
  BY <1>1, AppendProperties DEF ParserType
<1>3. q \in ParserType(s) /\ q.error = p.error /\ q.pending = p.pending /\ q.out = p.out
  BY <1>1, <1>2 DEF ParserType
<1>4. Warned(p, code) = IF Len(p.warnings) >= MaxWarnings THEN p ELSE q
  BY DEF Warned
<1>. HIDE DEF q
<1>. QED  BY <1>1, <1>3, <1>4 DEF IsParser

LEMMA WarnedPrefixed ==
  ASSUME NEW s, NEW p, IsParser(p, s), NEW o, NEW code
  PROVE  Warned(Prefixed(o, p), code) = Prefixed(o, Warned(p, code))
BY DEF Warned, Prefixed, IsParser, ParserType

LEMMA ReplacedStep ==
  ASSUME NEW s, NEW p, IsParser(p, s)
  PROVE  /\ IsParser(Replaced(p), s) /\ Replaced(p).error = p.error /\ Replaced(p).out = p.out
<1>1. "missing-stream" \in Texts
  BY DEF Texts
<1>. QED  BY <1>1, WarnedStep DEF Replaced

LEMMA ReplacedPrefixed ==
  ASSUME NEW s, NEW p, IsParser(p, s), NEW o \in Seq(ItemsOf(s))
  PROVE  Replaced(Prefixed(o, p)) = Prefixed(o, Replaced(p))
<1>1. Prefixed(o, p).pending = p.pending
  BY PrefixedStep
<1>2. Warned(Prefixed(o, p), "missing-stream") = Prefixed(o, Warned(p, "missing-stream"))
  BY WarnedPrefixed
<1>. QED  BY <1>1, <1>2 DEF Replaced

LEMMA FlushedStep ==
  ASSUME NEW s, NEW p, IsParser(p, s)
  PROVE  IsParser(Flushed(p), s) /\ Flushed(p).error = p.error
<1>1. p \in ParserType(s) /\ p.out \in Seq(ItemsOf(s)) /\ p.batch \in Seq(ItemsOf(s))
  BY DEF IsParser, ParserType
<1>2. p.out \o p.batch \in Seq(ItemsOf(s)) /\ <<>> \in Seq(ItemsOf(s))
  BY <1>1, ConcatProperties, EmptySeq
<1>. QED  BY <1>1, <1>2 DEF Flushed, ParserType, IsParser

LEMMA Regrouped ==
  ASSUME NEW S, NEW t \in Seq(S), NEW u \in Seq(S), NEW v \in Seq(S)
  PROVE  (t \o u) \o v = t \o (u \o v)
BY ConcatAssociative

LEMMA FlushedPrefixed ==
  ASSUME NEW s, NEW p, IsParser(p, s), NEW o \in Seq(ItemsOf(s))
  PROVE  Flushed(Prefixed(o, p)) = Prefixed(o, Flushed(p))
<1>. DEFINE S == ItemsOf(s)
<1>1. p \in ParserType(s) /\ p.out \in Seq(S) /\ p.batch \in Seq(S) /\ o \in Seq(S)
  BY DEF IsParser, ParserType
<1>. HIDE DEF S
<1>2. (o \o p.out) \o p.batch = o \o (p.out \o p.batch)
  <2>. DEFINE u == p.out
              v == p.batch
  <2>1. u \in Seq(S) /\ v \in Seq(S)
    BY <1>1
  <2>. HIDE DEF u, v
  <2>2. (o \o u) \o v = o \o (u \o v)
    BY <1>1, <2>1, Regrouped, SMTT(30)
  <2>. QED  BY <2>2 DEF u, v
<1>3. Flushed(Prefixed(o, p)) = [p EXCEPT !.out = (o \o p.out) \o p.batch, !.batch = <<>>]
  BY <1>1 DEF Flushed, Prefixed, ParserType
<1>4. Prefixed(o, Flushed(p)) = [p EXCEPT !.out = o \o (p.out \o p.batch), !.batch = <<>>]
  BY <1>1 DEF Flushed, Prefixed, ParserType
<1>. QED  BY <1>2, <1>3, <1>4

\* The entry that waits gives an item of the source.
Follower(p, batch) == [p EXCEPT !.batch = batch, !.total = @ + 1, !.pending = <<>>]
LongerBatch(p, url, s) == Append(p.batch, Item(p.pending[1], url, s))

LEMMA FollowerStep ==
  ASSUME NEW s \in Sources, NEW p, IsParser(p, s), p.pending # <<>>, NEW url \in Texts
  PROVE  IsParser(Follower(p, LongerBatch(p, url, s)), s)
<1>. DEFINE batch == LongerBatch(p, url, s)
<1>1. p \in ParserType(s) /\ p.pending \in Seq(Entries) /\ p.batch \in Seq(ItemsOf(s)) /\ p.total \in Nat
  BY DEF IsParser, ParserType
<1>2. p.pending[1] \in Entries
  BY <1>1, EmptySeq, LenProperties, ElementOfSeq
<1>3. batch \in Seq(ItemsOf(s)) /\ <<>> \in Seq(Entries) /\ p.total + 1 \in Nat
  BY <1>1, <1>2, ItemType, AppendProperties, EmptySeq DEF LongerBatch
<1>. HIDE DEF batch
<1>. DEFINE longer == [p EXCEPT !.batch = batch]
            counted == [longer EXCEPT !.total = @ + 1]
<1>4. longer \in ParserType(s) /\ longer.total \in Nat
  BY <1>1, <1>3 DEF ParserType
<1>. HIDE DEF longer
<1>5. counted \in ParserType(s)
  <2>1. longer.total + 1 \in Nat
    BY <1>4
  <2>. QED  BY <1>4, <2>1 DEF ParserType
<1>. HIDE DEF counted
<1>6. [counted EXCEPT !.pending = <<>>] \in ParserType(s)
  BY <1>3, <1>5 DEF ParserType
<1>. QED  BY <1>6 DEF IsParser, Follower, counted, longer, batch

LEMMA TakenCases ==
  ASSUME NEW p, NEW url, NEW s
  PROVE  Taken(p, url, s, Options) =
           IF p.total >= Options.items THEN [p EXCEPT !.error = TRUE]
           ELSE IF Len(LongerBatch(p, url, s)) >= Options.batch THEN Flushed(Follower(p, LongerBatch(p, url, s)))
           ELSE Follower(p, LongerBatch(p, url, s))
BY DEF Taken, Follower, LongerBatch

LEMMA TakenStep ==
  ASSUME NEW s \in Sources, NEW p, IsParser(p, s), p.pending # <<>>, NEW url \in Texts
  PROVE  IsParser(Taken(p, url, s, Options), s)
<1>1. IsParser([p EXCEPT !.error = TRUE], s)
  BY DEF IsParser, ParserType
<1>. DEFINE next == Follower(p, LongerBatch(p, url, s))
<1>2. IsParser(next, s)
  BY FollowerStep
<1>. HIDE DEF next
<1>3. IsParser(Flushed(next), s)
  BY <1>2, FlushedStep
<1>4. \/ Taken(p, url, s, Options) = [p EXCEPT !.error = TRUE]
      \/ Taken(p, url, s, Options) = Flushed(next)
      \/ Taken(p, url, s, Options) = next
  BY TakenCases DEF next
<1>. QED  BY <1>1, <1>2, <1>3, <1>4

LEMMA TakenPrefixed ==
  ASSUME NEW s \in Sources, NEW p, IsParser(p, s), p.pending # <<>>, NEW url \in Texts, NEW o \in Seq(ItemsOf(s))
  PROVE  Taken(Prefixed(o, p), url, s, Options) = Prefixed(o, Taken(p, url, s, Options))
<1>. DEFINE q == Prefixed(o, p)
            batch == LongerBatch(p, url, s)
<1>1. q.batch = p.batch /\ q.pending = p.pending /\ q.total = p.total
  BY PrefixedStep
<1>2. LongerBatch(q, url, s) = batch
  BY <1>1 DEF LongerBatch
<1>3. Follower(q, batch) = Prefixed(o, Follower(p, batch))
  BY DEF Follower, Prefixed, IsParser, ParserType
<1>4. Flushed(Prefixed(o, Follower(p, batch))) = Prefixed(o, Flushed(Follower(p, batch)))
  BY FollowerStep, FlushedPrefixed
<1>5. [q EXCEPT !.error = TRUE] = Prefixed(o, [p EXCEPT !.error = TRUE])
  BY DEF Prefixed, IsParser, ParserType
<1>6. Taken(q, url, s, Options) =
           IF p.total >= Options.items THEN [q EXCEPT !.error = TRUE]
           ELSE IF Len(batch) >= Options.batch THEN Flushed(Follower(q, batch)) ELSE Follower(q, batch)
  BY <1>1, <1>2, TakenCases
<1>7. Taken(p, url, s, Options) =
           IF p.total >= Options.items THEN [p EXCEPT !.error = TRUE]
           ELSE IF Len(batch) >= Options.batch THEN Flushed(Follower(p, batch)) ELSE Follower(p, batch)
  BY TakenCases
<1>. HIDE DEF q, batch
<1>8. Taken(q, url, s, Options) = Prefixed(o, Taken(p, url, s, Options))
  BY <1>3, <1>4, <1>5, <1>6, <1>7
<1>. QED  BY <1>8 DEF q

LEMMA ParsedStep ==
  ASSUME NEW s \in Sources, NEW p, IsParser(p, s), NEW line \in Lines
  PROVE  IsParser(Parsed(p, line, s, Options), s)
<1>. DEFINE r == Parsed(p, line, s, Options)
<1>0. /\ p \in ParserType(s) /\ line \in Entries /\ line.url \in Texts /\ line.group \in Texts /\ p.group \in Texts
      /\ "invalid-extinf" \in Texts /\ "orphan-stream" \in Texts
  BY LinesAreEntries DEF IsParser, ParserType, Entries, Texts
<1>1. CASE p.error
  BY <1>1 DEF Parsed
<1>2. CASE ~p.error /\ line.kind = "extinf"
  <2>. DEFINE entry == Grouped(line, p.group)
  <2>1. entry \in Entries
    BY <1>0 DEF Grouped, Entries
  <2>. HIDE DEF entry
  <2>2. <<entry>> \in Seq(Entries)
    BY <2>1
  <2>3. r = [Replaced(p) EXCEPT !.pending = <<entry>>]
    BY <1>2 DEF Parsed, entry
  <2>. QED  BY <2>2, <2>3, ReplacedStep DEF IsParser, ParserType
<1>3. CASE ~p.error /\ line.kind = "bad"
  <2>1. r = [Warned(Replaced(p), "invalid-extinf") EXCEPT !.pending = <<>>]
    BY <1>3 DEF Parsed
  <2>2. IsParser(Warned(Replaced(p), "invalid-extinf"), s) /\ <<>> \in Seq(Entries)
    BY <1>0, ReplacedStep, WarnedStep, EmptySeq
  <2>. QED  BY <2>1, <2>2 DEF IsParser, ParserType
<1>4. CASE ~p.error /\ line.kind = "extgrp"
  <2>. DEFINE pending == [n \in DOMAIN p.pending |-> Grouped(p.pending[n], line.group)]
  <2>1. pending \in Seq(Entries)
    <3>1. p.pending \in Seq(Entries)
      BY <1>0 DEF ParserType
    <3>2. \A e \in Entries : Grouped(e, line.group) \in Entries
      BY <1>0 DEF Entries, Grouped
    <3>3. Len(p.pending) \in Nat /\ DOMAIN p.pending = 1..Len(p.pending) /\ \A n \in 1..Len(p.pending) : p.pending[n] \in Entries
      BY <3>1, LenProperties, ElementOfSeq
    <3>4. pending \in [1..Len(p.pending) -> Entries]
      BY <3>2, <3>3
    <3>. QED  BY <3>1, <3>3, <3>4, SeqDef
  <2>. HIDE DEF pending
  <2>2. r = [p EXCEPT !.group = line.group, !.pending = pending]
    BY <1>4 DEF Parsed, pending
  <2>. QED  BY <1>0, <2>1, <2>2 DEF IsParser, ParserType
<1>5. CASE ~p.error /\ line.kind = "url" /\ p.pending = <<>>
  BY <1>0, <1>5, WarnedStep DEF Parsed
<1>6. CASE ~p.error /\ line.kind = "url" /\ p.pending # <<>>
  BY <1>0, <1>6, TakenStep DEF Parsed
<1>7. CASE ~p.error /\ line.kind = "other"
  BY <1>7 DEF Parsed
<1>8. line.kind \in {"extinf", "bad", "extgrp", "url", "other"}
  BY DEF Lines
<1>. QED  BY <1>1, <1>2, <1>3, <1>4, <1>5, <1>6, <1>7, <1>8

\* What the parser hands over does not depend on what it has handed over before.
LEMMA ParsedPrefixed ==
  ASSUME NEW s \in Sources, NEW p, IsParser(p, s), NEW line \in Lines, NEW o \in Seq(ItemsOf(s))
  PROVE  Parsed(Prefixed(o, p), line, s, Options) = Prefixed(o, Parsed(p, line, s, Options))
<1>. DEFINE q == Prefixed(o, p)
            r == Parsed(p, line, s, Options)
            Goal == Parsed(q, line, s, Options) = Prefixed(o, r)
<1>0. /\ p \in ParserType(s) /\ line.url \in Texts
      /\ "invalid-extinf" \in Texts /\ "orphan-stream" \in Texts
  BY LinesAreEntries DEF IsParser, ParserType, Entries, Texts
<1>q. q.error = p.error /\ q.pending = p.pending /\ q.group = p.group
  BY PrefixedStep
<1>1. CASE p.error
  BY <1>0, <1>q, <1>1 DEF Parsed
<1>2. CASE ~p.error /\ line.kind = "extinf"
  <2>. DEFINE entry == Grouped(line, p.group)
  <2>1. r = [Replaced(p) EXCEPT !.pending = <<entry>>]
    BY <1>2 DEF Parsed
  <2>2. Parsed(q, line, s, Options) = [Replaced(q) EXCEPT !.pending = <<entry>>]
    BY <1>0, <1>q, <1>2 DEF Parsed
  <2>3. Replaced(q) = Prefixed(o, Replaced(p)) /\ IsParser(Replaced(p), s)
    BY ReplacedPrefixed, ReplacedStep
  <2>. HIDE DEF entry
  <2>. QED  BY <2>1, <2>2, <2>3 DEF Prefixed, IsParser, ParserType
<1>3. CASE ~p.error /\ line.kind = "bad"
  <2>. DEFINE w == Warned(Replaced(p), "invalid-extinf")
  <2>1. r = [w EXCEPT !.pending = <<>>]
    BY <1>3 DEF Parsed
  <2>2. Parsed(q, line, s, Options) = [Warned(Replaced(q), "invalid-extinf") EXCEPT !.pending = <<>>]
    BY <1>0, <1>q, <1>3 DEF Parsed
  <2>3. Warned(Replaced(q), "invalid-extinf") = Prefixed(o, w) /\ IsParser(w, s)
    <3>1. Replaced(q) = Prefixed(o, Replaced(p)) /\ IsParser(Replaced(p), s)
      BY ReplacedPrefixed, ReplacedStep
    <3>2. Warned(Prefixed(o, Replaced(p)), "invalid-extinf") = Prefixed(o, w)
      BY <3>1, WarnedPrefixed
    <3>3. IsParser(w, s)
      BY <1>0, <3>1, WarnedStep
    <3>. QED  BY <3>1, <3>2, <3>3
  <2>. HIDE DEF w
  <2>. QED  BY <2>1, <2>2, <2>3 DEF Prefixed, IsParser, ParserType
<1>4. CASE ~p.error /\ line.kind = "extgrp"
  <2>. DEFINE pending == [n \in DOMAIN p.pending |-> Grouped(p.pending[n], line.group)]
  <2>1. r = [p EXCEPT !.group = line.group, !.pending = pending]
    BY <1>4 DEF Parsed
  <2>2. Parsed(q, line, s, Options) = [q EXCEPT !.group = line.group, !.pending = pending]
    BY <1>0, <1>q, <1>4 DEF Parsed
  <2>. HIDE DEF pending
  <2>. QED  BY <1>0, <2>1, <2>2 DEF Prefixed, IsParser, ParserType
<1>5. CASE ~p.error /\ line.kind = "url" /\ p.pending = <<>>
  <2>1. r = Warned(p, "orphan-stream")
    BY <1>5 DEF Parsed
  <2>2. Parsed(q, line, s, Options) = Warned(q, "orphan-stream")
    BY <1>0, <1>q, <1>5 DEF Parsed
  <2>. QED  BY <2>1, <2>2, WarnedPrefixed
<1>6. CASE ~p.error /\ line.kind = "url" /\ p.pending # <<>>
  <2>1. r = Taken(p, line.url, s, Options)
    BY <1>6 DEF Parsed
  <2>2. Parsed(q, line, s, Options) = Taken(q, line.url, s, Options)
    BY <1>0, <1>q, <1>6 DEF Parsed
  <2>. QED  BY <1>0, <1>6, <2>1, <2>2, TakenPrefixed
<1>7. CASE ~p.error /\ line.kind = "other"
  BY <1>0, <1>q, <1>7 DEF Parsed
<1>8. line.kind \in {"extinf", "bad", "extgrp", "url", "other"}
  BY DEF Lines
<1>. HIDE DEF Goal
<1>9. Goal
  BY <1>1, <1>2, <1>3, <1>4, <1>5, <1>6, <1>7, <1>8 DEF Goal
<1>. QED  BY <1>9 DEF Goal

LEMMA FinishedStep ==
  ASSUME NEW s \in Sources, NEW p, IsParser(p, s)
  PROVE  /\ IsParser(Finished(p), s) /\ Finished(p).error = p.error
         /\ \A o \in Seq(ItemsOf(s)) : Finished(Prefixed(o, p)) = Prefixed(o, Finished(p))
<1>1. IsParser(Finished(p), s) /\ Finished(p).error = p.error
  BY ReplacedStep, FlushedStep DEF Finished
<1>2. ASSUME NEW o \in Seq(ItemsOf(s)) PROVE Finished(Prefixed(o, p)) = Prefixed(o, Finished(p))
  <2>1. Prefixed(o, p).error = p.error
    BY PrefixedStep
  <2>2. Flushed(Replaced(Prefixed(o, p))) = Prefixed(o, Flushed(Replaced(p)))
    <3>1. Replaced(Prefixed(o, p)) = Prefixed(o, Replaced(p)) /\ IsParser(Replaced(p), s)
      BY ReplacedPrefixed, ReplacedStep
    <3>2. Flushed(Prefixed(o, Replaced(p))) = Prefixed(o, Flushed(Replaced(p)))
      BY <3>1, FlushedPrefixed
    <3>. QED  BY <3>1, <3>2
  <2>. QED  BY <2>1, <2>2 DEF Finished
<1>. QED  BY <1>1, <1>2

LEMMA AfterTyped ==
  ASSUME NEW s \in Sources, NEW lines \in Seq(Lines)
  PROVE  \A n \in 0..Len(lines) : IsParser(After(lines, s)[n], s)
<1>. DEFINE g == After(lines, s)
            Bad == {n \in 0..Len(lines) : ~IsParser(g[n], s)}
<1>1. Len(lines) \in Nat
  BY LenProperties
<1>2. g = [n \in 0..Len(lines) |-> IF n = 0 THEN Parser ELSE Parsed(g[n - 1], lines[n], s, Options)]
  BY AfterEach
<1>. HIDE DEF g
<1>3. IsParser(Parser, s)
  <2>1. <<>> \in Seq(Entries) /\ <<>> \in Seq(ItemsOf(s)) /\ <<>> \in Seq(Texts) /\ "" \in Texts
    BY EmptySeq DEF Texts
  <2>. QED  BY <2>1 DEF Parser, IsParser, ParserType
<1>4. SUFFICES ASSUME Bad # {} PROVE FALSE
  BY DEF g
<1>5. PICK n \in Bad : \A m \in Bad : n <= m
  <2>1. Bad \in SUBSET Nat
    BY <1>1
  <2>. HIDE DEF Bad
  <2>. QED  BY <1>4, <2>1, LeastExists
<1>6. n # 0
  BY <1>1, <1>2, <1>3, <1>5
<1>7. n - 1 \in 0..Len(lines) /\ IsParser(g[n - 1], s)
  BY <1>1, <1>5, <1>6
<1>8. lines[n] \in Lines
  BY <1>1, <1>5, <1>6, ElementOfSeq
<1>9. g[n] = Parsed(g[n - 1], lines[n], s, Options)
  BY <1>2, <1>5, <1>6
<1>. QED  BY <1>5, <1>7, <1>8, <1>9, ParsedStep

--------------------------------------------------------------------------------
(* The insertion of items into a catalogue. *)

IdsOf(batch) == {batch[n].id : n \in DOMAIN batch}
Bare(row) == [row EXCEPT !.url = ""]
IsLast(batch, i, n) == n \in DOMAIN batch /\ batch[n].id = i /\ \A m \in DOMAIN batch : batch[m].id = i => m <= n

LEMMA LastItem ==
  ASSUME NEW S, NEW batch \in Seq(S), NEW i \in IdsOf(batch)
  PROVE  IsLast(batch, i, LastWith(batch, i))
<1>1. Len(batch) \in Nat /\ DOMAIN batch = 1..Len(batch)
  BY LenProperties
<1>. DEFINE N == {n \in DOMAIN batch : batch[n].id = i}
<1>2. N \in SUBSET (1..Len(batch)) /\ N # {}
  BY <1>1 DEF IdsOf
<1>. HIDE DEF N
<1>3. PICK n \in N : \A m \in N : m <= n
  BY <1>1, <1>2, GreatestExists
<1>4. IsLast(batch, i, n)
  BY <1>3 DEF N, IsLast
<1>. QED  BY <1>4 DEF LastWith, IsLast

LEMMA LastUnique ==
  ASSUME NEW S, NEW batch \in Seq(S), NEW i, NEW n, IsLast(batch, i, n)
  PROVE  i \in IdsOf(batch) /\ LastWith(batch, i) = n
<1>1. i \in IdsOf(batch)
  BY DEF IdsOf, IsLast
<1>2. IsLast(batch, i, LastWith(batch, i))
  BY <1>1, LastItem
<1>3. \A m \in DOMAIN batch : m \in Int
  <2>1. Len(batch) \in Nat /\ DOMAIN batch = 1..Len(batch)
    BY LenProperties
  <2>. QED  BY <2>1
<1>4. LastWith(batch, i) <= n /\ n <= LastWith(batch, i) /\ n \in Int /\ LastWith(batch, i) \in Int
  BY <1>2, <1>3 DEF IsLast
<1>. QED  BY <1>1, <1>4

LEMMA InsertedRows ==
  ASSUME NEW cat, NEW batch
  PROVE  Inserted(cat, batch) =
           [i \in DOMAIN cat \cup IdsOf(batch) |-> IF i \in IdsOf(batch) THEN Bare(batch[LastWith(batch, i)]) ELSE cat[i]]
BY DEF Inserted, IdsOf, Bare

LEMMA BareItem ==
  ASSUME NEW item \in Items, Owned(item)
  PROVE  Bare(item) \in Items /\ Owned(Bare(item)) /\ Bare(item).id = item.id /\ Bare(item).source = item.source
BY DEF Items, Owned, Bare, Texts

LEMMA BatchItem ==
  ASSUME NEW s, NEW batch \in Seq(ItemsOf(s)), NEW n \in DOMAIN batch
  PROVE  batch[n] \in Items /\ Owned(batch[n]) /\ batch[n].source = s /\ batch[n].id \in IdsOf(batch)
<1>1. Len(batch) \in Nat /\ DOMAIN batch = 1..Len(batch)
  BY LenProperties
<1>2. batch[n] \in ItemsOf(s)
  BY <1>1, ElementOfSeq
<1>. QED  BY <1>2 DEF ItemsOf, IdsOf

\* The row of an item that a batch of s holds.
LEMMA InsertedItem ==
  ASSUME NEW s, NEW cat, NEW batch \in Seq(ItemsOf(s)), NEW i \in IdsOf(batch)
  PROVE  LET row == Inserted(cat, batch)[i]
         IN  row \in Items /\ Owned(row) /\ row.id = i /\ row.source = s
<1>. DEFINE n == LastWith(batch, i)
<1>1. n \in DOMAIN batch /\ batch[n].id = i
  BY LastItem DEF IsLast
<1>2. Inserted(cat, batch)[i] = Bare(batch[n])
  BY InsertedRows
<1>. HIDE DEF n
<1>. QED  BY <1>1, <1>2, BatchItem, BareItem

LEMMA InsertedCatalog ==
  ASSUME NEW s, NEW cat, IsCatalog(cat), NEW batch \in Seq(ItemsOf(s))
  PROVE  /\ IsCatalog(Inserted(cat, batch))
         /\ \A i \in DOMAIN Inserted(cat, batch) :
              \/ i \in DOMAIN cat /\ Inserted(cat, batch)[i] = cat[i]
              \/ Inserted(cat, batch)[i].source = s
<1>. DEFINE new == Inserted(cat, batch)
<1>1. DOMAIN new = DOMAIN cat \cup IdsOf(batch) /\ new = [i \in DOMAIN new |-> new[i]]
  BY InsertedRows
<1>2. \A i \in DOMAIN cat \ IdsOf(batch) : new[i] = cat[i]
  BY InsertedRows
<1>3. \A i \in IdsOf(batch) : new[i] \in Items /\ Owned(new[i]) /\ new[i].id = i /\ new[i].source = s
  BY InsertedItem
<1>. HIDE DEF new
<1>4. IsCatalog(new)
  BY <1>1, <1>2, <1>3 DEF IsCatalog
<1>5. \A i \in DOMAIN new : (i \in DOMAIN cat /\ new[i] = cat[i]) \/ new[i].source = s
  BY <1>1, <1>2, <1>3
<1>. QED  BY <1>4, <1>5 DEF new

\* Items of s leave the rows of the other sources alone.
LEMMA InsertedElsewhere ==
  ASSUME NEW s, NEW cat, IsCatalog(cat), NEW batch \in Seq(ItemsOf(s))
  PROVE  Without(Inserted(cat, batch), Of(Inserted(cat, batch), s)) = Without(cat, Of(cat, s))
<1>. DEFINE new == Inserted(cat, batch)
<1>1. DOMAIN new = DOMAIN cat \cup IdsOf(batch)
  BY InsertedRows
<1>2. \A i \in DOMAIN cat \ IdsOf(batch) : new[i] = cat[i]
  BY InsertedRows
<1>3. \A i \in IdsOf(batch) : Owned(new[i]) /\ new[i].id = i /\ new[i].source = s
  BY InsertedItem
<1>. HIDE DEF new
<1>4. \A i \in IdsOf(batch) \cap DOMAIN cat : cat[i].source = s
  BY <1>3 DEF Owned, IsCatalog
<1>5. DOMAIN new \ Of(new, s) = DOMAIN cat \ Of(cat, s)
  BY <1>1, <1>2, <1>3, <1>4 DEF Of
<1>6. \A i \in DOMAIN cat \ Of(cat, s) : new[i] = cat[i]
  BY <1>2, <1>4 DEF Of
<1>7. Without(new, Of(new, s)) = Without(cat, Of(cat, s))
  BY <1>5, <1>6 DEF Without
<1>. QED  BY <1>7 DEF new

LEMMA InsertedNothing ==
  ASSUME NEW cat, IsCatalog(cat)
  PROVE  Inserted(cat, <<>>) = cat
<1>1. IdsOf(<<>>) = {}
  BY DEF IdsOf
<1>2. Inserted(cat, <<>>) = [i \in DOMAIN cat |-> cat[i]]
  BY <1>1, InsertedRows
<1>. QED  BY <1>2 DEF IsCatalog

\* Two batches are inserted as one.
LEMMA InsertedTwice ==
  ASSUME NEW S, NEW cat, NEW a \in Seq(S), NEW b \in Seq(S)
  PROVE  Inserted(Inserted(cat, a), b) = Inserted(cat, a \o b)
<1>. DEFINE ab == a \o b
<1>1. /\ ab \in Seq(S) /\ Len(ab) = Len(a) + Len(b)
      /\ \A n \in 1..Len(a) + Len(b) : ab[n] = IF n <= Len(a) THEN a[n] ELSE b[n - Len(a)]
  BY ConcatProperties
<1>2. /\ Len(a) \in Nat /\ Len(b) \in Nat
      /\ DOMAIN a = 1..Len(a) /\ DOMAIN b = 1..Len(b) /\ DOMAIN ab = 1..Len(a) + Len(b)
  BY <1>1, LenProperties
<1>. HIDE DEF ab
<1>3. \A n \in DOMAIN a : n \in DOMAIN ab /\ ab[n] = a[n]
  BY <1>1, <1>2
<1>4. \A n \in DOMAIN b : n + Len(a) \in DOMAIN ab /\ ab[n + Len(a)] = b[n]
  BY <1>1, <1>2
<1>5. \A n \in DOMAIN ab : \/ n \in DOMAIN a /\ ab[n] = a[n]
                           \/ n > Len(a) /\ n - Len(a) \in DOMAIN b /\ ab[n] = b[n - Len(a)]
  BY <1>1, <1>2
<1>6. IdsOf(ab) = IdsOf(a) \cup IdsOf(b)
  BY <1>3, <1>4, <1>5 DEF IdsOf
<1>7. ASSUME NEW i \in IdsOf(b) PROVE ab[LastWith(ab, i)] = b[LastWith(b, i)]
  <2>. DEFINE n == LastWith(b, i)
  <2>1. IsLast(b, i, n)
    BY LastItem
  <2>. HIDE DEF n
  <2>2. n \in DOMAIN b /\ n \in Nat /\ n + Len(a) \in DOMAIN ab /\ ab[n + Len(a)] = b[n]
    BY <1>2, <1>4, <2>1 DEF IsLast
  <2>3. ASSUME NEW m \in DOMAIN ab, ab[m].id = i PROVE m <= n + Len(a)
    BY <1>2, <1>5, <2>1, <2>2, <2>3 DEF IsLast
  <2>4. IsLast(ab, i, n + Len(a))
    BY <2>1, <2>2, <2>3 DEF IsLast
  <2>5. LastWith(ab, i) = n + Len(a)
    BY <1>1, <2>4, LastUnique
  <2>. QED  BY <2>2, <2>5 DEF n
<1>8. ASSUME NEW i \in IdsOf(a) \ IdsOf(b) PROVE ab[LastWith(ab, i)] = a[LastWith(a, i)]
  <2>. DEFINE n == LastWith(a, i)
  <2>1. IsLast(a, i, n)
    BY LastItem
  <2>. HIDE DEF n
  <2>2. n \in DOMAIN ab /\ ab[n] = a[n]
    BY <1>3, <2>1 DEF IsLast
  <2>3. ASSUME NEW m \in DOMAIN ab, ab[m].id = i PROVE m <= n
    BY <1>5, <1>8, <2>1, <2>3 DEF IsLast, IdsOf
  <2>4. IsLast(ab, i, n)
    BY <2>1, <2>2, <2>3 DEF IsLast
  <2>5. LastWith(ab, i) = n
    BY <1>1, <2>4, LastUnique
  <2>. QED  BY <2>2, <2>5 DEF n
<1>. DEFINE one == Inserted(cat, a)
            two == Inserted(one, b)
            all == Inserted(cat, ab)
<1>9. DOMAIN two = DOMAIN all
  BY <1>6, InsertedRows
<1>10. ASSUME NEW i \in DOMAIN all PROVE two[i] = all[i]
  <2>1. CASE i \in IdsOf(b)
    <3>1. two[i] = Bare(b[LastWith(b, i)]) /\ all[i] = Bare(ab[LastWith(ab, i)])
      BY <1>6, <2>1, InsertedRows
    <3>. QED  BY <1>7, <2>1, <3>1
  <2>2. CASE i \in IdsOf(a) \ IdsOf(b)
    <3>1. two[i] = Bare(a[LastWith(a, i)]) /\ all[i] = Bare(ab[LastWith(ab, i)])
      BY <1>6, <2>2, InsertedRows
    <3>. QED  BY <1>8, <2>2, <3>1
  <2>3. CASE i \notin IdsOf(a) \cup IdsOf(b)
    BY <1>6, <2>3, InsertedRows
  <2>. QED  BY <2>1, <2>2, <2>3
<1>11. two = [i \in DOMAIN two |-> two[i]] /\ all = [i \in DOMAIN all |-> all[i]]
  BY InsertedRows
<1>. HIDE DEF two, all
<1>12. two = all
  BY <1>9, <1>10, <1>11
<1>. QED  BY <1>12 DEF two, all, ab

\* Only rows of s differ.
OnlyOf(new, cat, s) == \A i \in DOMAIN new : new[i].source = s \/ (i \in DOMAIN cat /\ new[i] = cat[i])

\* The import of a source: its rows are those of the items, the others stay.
LEMMA ImportedCatalog ==
  ASSUME NEW s, NEW cat, IsCatalog(cat), NEW items \in Seq(ItemsOf(s)), NEW new, new = Imported(cat, s, items)
  PROVE  /\ IsCatalog(new)
         /\ DOMAIN cat \ Of(cat, s) \subseteq DOMAIN new
         /\ OnlyOf(new, cat, s)
         /\ Rows(new, s) = Rows(Inserted(<<>>, items), s)
<1>. DEFINE rest == Without(cat, Of(cat, s))
            fresh == Inserted(<<>>, items)
<1>1. DOMAIN rest = DOMAIN cat \ Of(cat, s) /\ \A i \in DOMAIN rest : rest[i] = cat[i] /\ rest[i].source # s
  BY DEF Without, Of
<1>2. IsCatalog(rest)
  BY <1>1 DEF IsCatalog, Without
<1>3. new = Inserted(rest, items)
  BY DEF Imported
<1>. HIDE DEF rest
<1>4. /\ DOMAIN new = DOMAIN rest \cup IdsOf(items) /\ DOMAIN fresh = IdsOf(items)
      /\ \A i \in IdsOf(items) : new[i] = fresh[i]
      /\ \A i \in DOMAIN rest \ IdsOf(items) : new[i] = rest[i]
  <2>1. new = [i \in DOMAIN rest \cup IdsOf(items) |->
                 IF i \in IdsOf(items) THEN Bare(items[LastWith(items, i)]) ELSE rest[i]]
    BY <1>3, InsertedRows
  <2>2. fresh = [i \in DOMAIN <<>> \cup IdsOf(items) |->
                   IF i \in IdsOf(items) THEN Bare(items[LastWith(items, i)]) ELSE <<>>[i]]
    BY InsertedRows
  <2>3. DOMAIN <<>> = {}
    OBVIOUS
  <2>. HIDE DEF fresh
  <2>. QED  BY <2>1, <2>2, <2>3
<1>5. IsCatalog(new) /\ \A i \in DOMAIN new : (i \in DOMAIN rest /\ new[i] = rest[i]) \/ new[i].source = s
  BY <1>2, <1>3, InsertedCatalog
<1>6. \A i \in IdsOf(items) : Owned(new[i]) /\ new[i].id = i /\ new[i].source = s
  BY <1>3, InsertedItem
<1>. HIDE DEF fresh
<1>7. \A i \in DOMAIN rest \cap IdsOf(items) : FALSE
  BY <1>1, <1>2, <1>6 DEF IsCatalog, Owned
<1>8. Of(new, s) = Of(fresh, s)
  BY <1>1, <1>4, <1>7 DEF Of
<1>9. Rows(new, s) = Rows(fresh, s)
  BY <1>4, <1>8 DEF Rows, Of
<1>10. DOMAIN cat \ Of(cat, s) \subseteq DOMAIN new
  BY <1>1, <1>4
<1>11. OnlyOf(new, cat, s)
  BY <1>1, <1>5 DEF OnlyOf
<1>. QED  BY <1>5, <1>9, <1>10, <1>11 DEF fresh

LEMMA ImportedElsewhere ==
  ASSUME NEW s, NEW cat, IsCatalog(cat), NEW items \in Seq(ItemsOf(s)), NEW t, t # s
  PROVE  Rows(Imported(cat, s, items), t) = Rows(cat, t)
<1>. DEFINE new == Imported(cat, s, items)
<1>0. new = Imported(cat, s, items)
  OBVIOUS
<1>. HIDE DEF new
<1>1. IsCatalog(new)
  BY <1>0, ImportedCatalog
<1>2. DOMAIN cat \ Of(cat, s) \subseteq DOMAIN new
  BY <1>0, ImportedCatalog
<1>3. OnlyOf(new, cat, s)
  BY <1>0, ImportedCatalog
<1>4. ASSUME NEW i \in Of(cat, t) PROVE i \in DOMAIN new /\ new[i] = cat[i]
  <2>1. i \in DOMAIN new /\ cat[i].source = t
    BY <1>2 DEF Of
  <2>2. new[i].source # s
    BY <1>1, <2>1 DEF IsCatalog, Owned, Of
  <2>. QED  BY <1>3, <2>1, <2>2 DEF OnlyOf
<1>5. Of(new, t) = Of(cat, t)
  BY <1>3, <1>4 DEF Of, OnlyOf
<1>6. Rows(new, t) = Rows(cat, t)
  BY <1>4, <1>5 DEF Rows
<1>. QED  BY <1>6 DEF new

LEMMA ImportedTwice ==
  ASSUME NEW s, NEW cat, NEW a \in Seq(ItemsOf(s)), NEW b \in Seq(ItemsOf(s))
  PROVE  Inserted(Imported(cat, s, a), b) = Imported(cat, s, a \o b)
BY InsertedTwice DEF Imported

Joined(a, b) == a \o b

\* A call that has the rest of a playlist before it, and what the parser of the
\* whole playlist has handed over behind it.
Between(full, k, lines, q, s) ==
  LET p == After(full, s)[k]
  IN  lines = SubSeq(full, k + 1, Len(full)) /\ ~p.error /\ q.out = <<>> /\ p = Prefixed(p.out, q)

LEMMA BetweenStarts ==
  ASSUME NEW s \in Sources, NEW full \in Seq(Lines)
  PROVE  /\ 0 \in 0..Len(full) /\ IsParser(Parser, s)
         /\ Between(full, 0, full, Parser, s) /\ After(full, s)[0].out = <<>>
<1>1. Len(full) \in Nat
  BY LenProperties
<1>2. After(full, s)[0] = Parser
  BY <1>1, AfterEach
<1>3. full = SubSeq(full, 0 + 1, Len(full))
  BY SubSeqFull
<1>4. Parser.out = <<>> /\ ~Parser.error /\ <<>> \o <<>> = <<>>
  BY DEF Parser
<1>5. Prefixed(Parser.out, Parser) = Parser
  BY <1>4 DEF Prefixed, Parser
<1>6. IsParser(Parser, s)
  BY <1>1, <1>2, AfterTyped
<1>. QED  BY <1>1, <1>2, <1>3, <1>4, <1>5, <1>6 DEF Between

LEMMA BetweenConsumes ==
  ASSUME NEW s \in Sources, NEW full \in Seq(Lines), NEW k \in 0..Len(full), NEW lines, lines # <<>>,
         NEW q, IsParser(q, s), Between(full, k, lines, q, s)
  PROVE  LET r == Parsed(q, Head(lines), s, Options)
             a == After(full, s)[k].out
         IN  /\ IsParser(r, s) /\ IsParser([r EXCEPT !.out = <<>>], s)
             /\ a \in Seq(ItemsOf(s)) /\ r.out \in Seq(ItemsOf(s))
             /\ ~r.error => /\ k + 1 \in 0..Len(full)
                            /\ Between(full, k + 1, Tail(lines), [r EXCEPT !.out = <<>>], s)
                            /\ After(full, s)[k + 1].out = Joined(a, r.out)
<1>. DEFINE p == After(full, s)[k]
            next == After(full, s)[k + 1]
            r == Parsed(q, full[k + 1], s, Options)
<1>1. Len(full) \in Nat
  BY LenProperties
<1>2. k + 1 \in 1..Len(full)
  BY <1>1, SubSeqEmpty DEF Between
<1>3. Head(lines) = full[k + 1] /\ Tail(lines) = SubSeq(full, k + 1 + 1, Len(full))
  BY <1>1, <1>2, HeadTailOfSubSeq DEF Between
<1>4. full[k + 1] \in Lines
  BY <1>2, ElementOfSeq
<1>5. IsParser(p, s) /\ IsParser(r, s)
  BY <1>4, AfterTyped, ParsedStep
<1>6. p.out \in Seq(ItemsOf(s)) /\ r.out \in Seq(ItemsOf(s)) /\ <<>> \in Seq(ItemsOf(s))
  BY <1>5, EmptySeq DEF IsParser, ParserType
<1>7. next = Parsed(p, full[k + 1], s, Options)
  <2>1. k + 1 \in 0..Len(full) /\ k + 1 # 0 /\ (k + 1) - 1 = k
    BY <1>1, <1>2
  <2>. QED  BY <2>1, AfterEach
<1>8. next = Prefixed(p.out, r)
  <2>1. p = Prefixed(p.out, q)
    BY DEF Between
  <2>. HIDE DEF p
  <2>. QED  BY <1>4, <1>6, <1>7, <2>1, ParsedPrefixed
<1>9. next.error = r.error /\ next.out = p.out \o r.out
  <2>. HIDE DEF p, r, next
  <2>. QED  BY <1>5, <1>6, <1>8, PrefixedStep, ZenonT(60)
<1>. DEFINE rest == [r EXCEPT !.out = <<>>]
<1>10. IsParser(rest, s) /\ rest.out = <<>>
  <2>. HIDE DEF r
  <2>. QED  BY <1>5, <1>6 DEF IsParser, ParserType
<1>11. next = Prefixed(next.out, rest)
  <2>. DEFINE S == ItemsOf(s)
              out == p.out \o r.out
  <2>1. out \o <<>> = out
    <3>1. p.out \o r.out \in Seq(S)
      BY <1>6, ConcatProperties
    <3>. HIDE DEF out
    <3>. QED  BY <3>1, ConcatEmptySeq DEF out
  <2>2. Prefixed(p.out, r) = [r EXCEPT !.out = out]
    BY DEF Prefixed
  <2>. HIDE DEF out, p, r, next
  <2>3. Prefixed(out, rest) = [r EXCEPT !.out = out]
    BY <1>5, <2>1 DEF Prefixed, IsParser, ParserType
  <2>. QED  BY <1>8, <1>9, <2>2, <2>3 DEF out
<1>. HIDE DEF p, r, rest
<1>12. ASSUME ~r.error PROVE k + 1 \in 0..Len(full) /\ Between(full, k + 1, Tail(lines), rest, s)
  <2>1. k + 1 \in 0..Len(full)
    BY <1>1, <1>2
  <2>2. ~next.error
    BY <1>9, <1>12
  <2>. QED  BY <1>3, <1>10, <1>11, <2>1, <2>2 DEF Between
<1>. HIDE DEF next
<1>13. next.out = Joined(p.out, r.out)
  BY <1>9 DEF Joined
<1>. QED  BY <1>3, <1>5, <1>6, <1>10, <1>12, <1>13 DEF p, next, r, rest

LEMMA BetweenEnds ==
  ASSUME NEW s \in Sources, NEW full \in Seq(Lines), NEW k \in 0..Len(full),
         NEW q, IsParser(q, s), Between(full, k, <<>>, q, s)
  PROVE  LET last == Finished(q)
             a == After(full, s)[k].out
             all == Parse(full, s, Options)
         IN  /\ a \in Seq(ItemsOf(s)) /\ last.out \in Seq(ItemsOf(s))
             /\ ~all.error /\ all.out = a \o last.out
<1>. DEFINE p == After(full, s)[k]
            last == Finished(q)
            all == Parse(full, s, Options)
<1>1. Len(full) \in Nat
  BY LenProperties
<1>2. k = Len(full)
  <2>1. ASSUME k # Len(full) PROVE FALSE
    <3>1. \A i \in k + 1..Len(full) : full[i] \in Lines
      BY <1>1, ElementOfSeq
    <3>2. Len(SubSeq(full, k + 1, Len(full))) # 0
      BY <1>1, <2>1, <3>1, SubSeqProperties
    <3>3. SubSeq(full, k + 1, Len(full)) = <<>>
      BY DEF Between
    <3>. QED  BY <3>2, <3>3
  <2>. QED  BY <2>1
<1>3. all = Finished(p)
  BY <1>2 DEF Parse, After
<1>4. IsParser(p, s) /\ IsParser(last, s)
  BY AfterTyped, FinishedStep
<1>5. p.out \in Seq(ItemsOf(s)) /\ last.out \in Seq(ItemsOf(s))
  BY <1>4 DEF IsParser, ParserType
<1>6. ~all.error
  BY <1>3, <1>4, FinishedStep DEF Between
<1>7. all = Prefixed(p.out, last)
  <2>1. p = Prefixed(p.out, q)
    BY DEF Between
  <2>. HIDE DEF p
  <2>. QED  BY <1>3, <1>5, <2>1, FinishedStep
<1>. HIDE DEF p, last, all
<1>8. all.out = p.out \o last.out
  BY <1>4, <1>5, <1>7, PrefixedStep
<1>. QED  BY <1>5, <1>6, <1>8 DEF p, last, all

\* What a playlist gives: items of its source.
LEMMA ParseType ==
  ASSUME NEW s \in Sources, NEW full \in Seq(Lines)
  PROVE  Parse(full, s, Options).out \in Seq(ItemsOf(s))
<1>1. Len(full) \in 0..Len(full)
  BY LenProperties
<1>2. IsParser(Parse(full, s, Options), s)
  BY <1>1, AfterTyped, FinishedStep DEF Parse, After
<1>. QED  BY <1>2 DEF IsParser, ParserType

--------------------------------------------------------------------------------
(* The calls. *)

Pcs == {"idle", "read", "peek", "secret", "row", "undo", "begin", "fetch", "parse", "commit", "status", "guide"}
Fields == {"pc", "op", "source", "creds", "config", "prev", "lines", "parser", "work"}
Importing == {"fetch", "parse", "commit"}

CallType(call) ==
  /\ call = [f \in Fields |-> call[f]]
  /\ call.pc \in Pcs /\ call.op \in {"none", "save", "delete", "sync"}
  /\ call.creds \in {"new", "clear", "keep"} /\ call.prev \in BOOLEAN
  /\ IF call.pc = "idle" THEN call.source = None ELSE call.source \in Sources
  /\ call.pc \in {"peek", "secret", "row", "undo"} => call.op \in {"save", "delete"}
  /\ call.pc \in Importing \cup {"begin", "status", "guide"} => call.op = "sync"
  /\ call.op = "save" \/ call.pc \in Importing \cup {"begin", "guide"} => call.config \in Config
  /\ call.op = "delete" => call.creds = "clear"

\* The transaction of a call is on its own source: the rest of what it works on
\* is what the database holds.  The catalogue it works on is the import of what
\* the parser has handed over of one playlist.
Imports(call, s) ==
  /\ call.pc = "fetch" => call.parser = Parser /\ call.work.catalog = Imported(catalog, s, <<>>)
  /\ call.pc = "parse" =>
       \E full \in Served : \E k \in 0..Len(full) :
         /\ Between(full, k, call.lines, call.parser, s)
         /\ call.work.catalog = Imported(catalog, s, After(full, s)[k].out)
  /\ call.pc = "commit" =>
       \E full \in Served :
         LET p == Parse(full, s, Options)
         IN  ~p.error /\ call.work.catalog = Imported(catalog, s, p.out)

WorkOn(call, s) ==
  /\ call.work = [sources |-> call.work.sources, catalog |-> call.work.catalog, progress |-> call.work.progress]
  /\ call.work.sources = With(sources, s, call.work.sources[s])
  /\ call.work.sources[s] \in Row /\ call.work.sources[s].config = call.config
  /\ call.work.progress = progress \ Of(catalog, s)
  /\ IsParser(call.parser, s)
  /\ Imports(call, s)

Tables ==
  /\ IsTable(sources) /\ IsCatalog(catalog)
  /\ \A i \in DOMAIN catalog : catalog[i].source \in DOMAIN sources
  /\ progress \subseteq DOMAIN catalog
  /\ guide = [s \in Sources |-> guide[s]] /\ \A s \in Sources : guide[s] # Guide => s \in DOMAIN sources

Typed ==
  /\ Tables
  /\ secrets \in [Sources -> BOOLEAN]
  /\ calls = [c \in Calls |-> calls[c]] /\ \A c \in Calls : CallType(calls[c])
  /\ holder \in Calls \cup {None}
  /\ \A c \in Calls : (calls[c].pc \in Importing) <=> (holder = c)
  /\ ops \in 0..MaxOps /\ faults \in 0..MaxFaults /\ torn \subseteq Sources

Isolated == \A c \in Calls : calls[c].pc \in Importing => WorkOn(calls[c], calls[c].source)

DatabaseInv == Typed /\ Isolated

\* What a call that is alone on its source knows of the keyring and of the row:
\* secret, ref.
Knows(call, secret, ref) ==
  /\ call.pc \in {"read", "peek", "secret", "begin", "fetch", "parse", "commit", "status", "guide"} => secret = ref
  /\ call.pc = "read" => ~call.prev
  /\ call.pc \in {"peek", "secret"} => call.creds # "keep"
  /\ call.op = "save" /\ call.pc \in {"peek", "secret"} => call.config.ref = (call.creds = "new")
  /\ call.pc = "secret" => call.prev = ref
  /\ call.pc \in {"begin", "fetch", "parse", "commit"} => call.config.ref = ref
  /\ call.op = "save" /\ call.pc = "row" => secret = call.config.ref
  /\ call.op = "delete" /\ call.pc = "row" => ~secret
  /\ call.pc = "row" => IF call.creds = "new" \/ (call.creds = "clear" /\ call.prev)
                        THEN call.prev = ref ELSE secret = ref
  /\ call.pc = "undo" => call.prev = ref

Tracked ==
  \A s \in Sources \ torn :
    /\ \A c, d \in Calls : calls[c].source = s /\ calls[d].source = s => c = d
    /\ \A c \in Calls : calls[c].source = s => Knows(calls[c], secrets[s], Ref(s))
    /\ (\A c \in Calls : calls[c].source # s) => secrets[s] = Ref(s)

--------------------------------------------------------------------------------
(* The database. *)

LEMMA IdleCall ==
  CallType(Idle) /\ Idle.pc = "idle" /\ Idle.op = "none" /\ Idle.source = None /\ Idle.prev = FALSE
BY DEF CallType, Idle, Fields, Pcs, Importing

LEMMA CallsMove ==
  ASSUME Typed, NEW c \in Calls, NEW new, CallType(new), calls' = [calls EXCEPT ![c] = new]
  PROVE  /\ calls' = [d \in Calls |-> calls'[d]] /\ \A d \in Calls : CallType(calls'[d])
         /\ calls'[c] = new /\ \A d \in Calls : d # c => calls'[d] = calls[d]
BY DEF Typed

LEMMA IsolatedStays ==
  ASSUME Isolated, UNCHANGED <<sources, catalog, progress>>, NEW d \in Calls,
         calls'[d] = calls[d], calls'[d].pc \in Importing
  PROVE  WorkOn(calls[d], calls[d].source)'
BY DEF Isolated, WorkOn, Imports

\* A call that holds no transaction writes the database only when nobody does.
LEMMA OutsideTransaction ==
  ASSUME DatabaseInv, NEW c \in Calls, NEW new, CallType(new),
         new.pc \notin Importing, calls[c].pc \notin Importing, calls' = [calls EXCEPT ![c] = new],
         Tables', secrets' \in [Sources -> BOOLEAN], holder' = holder,
         ops' \in 0..MaxOps, faults' \in 0..MaxFaults, torn' \subseteq Sources,
         Free \/ UNCHANGED <<sources, catalog, progress>>
  PROVE  DatabaseInv'
<1>1. /\ calls' = [d \in Calls |-> calls'[d]] /\ \A d \in Calls : CallType(calls'[d])
      /\ calls'[c] = new /\ \A d \in Calls : d # c => calls'[d] = calls[d]
  BY CallsMove DEF DatabaseInv
<1>2. \A d \in Calls : (calls'[d].pc \in Importing) <=> (holder' = d)
  BY <1>1 DEF DatabaseInv, Typed
<1>3. Typed'
  BY <1>1, <1>2 DEF DatabaseInv, Typed
<1>4. ASSUME NEW d \in Calls, calls'[d].pc \in Importing PROVE WorkOn(calls[d], calls[d].source)'
  <2>1. d # c /\ calls'[d] = calls[d]
    BY <1>1, <1>4
  <2>2. holder = d
    BY <1>2, <1>4
  <2>3. UNCHANGED <<sources, catalog, progress>>
    BY <2>2, IPTVAssumption DEF Free, Calls
  <2>. QED  BY <1>4, <2>1, <2>3, IsolatedStays DEF DatabaseInv
<1>. QED  BY <1>3, <1>4 DEF DatabaseInv, Isolated

\* A step of the call that holds the transaction, from its first statement to
\* its end.
LEMMA InsideTransaction ==
  ASSUME DatabaseInv, NEW c \in Calls, NEW new, CallType(new), calls' = [calls EXCEPT ![c] = new],
         UNCHANGED <<sources, catalog, progress, guide, secrets, ops, torn>>, faults' \in 0..MaxFaults,
         holder \in {None, c}, holder' \in {None, c}, new.pc \in Importing <=> holder' = c,
         new.pc \in Importing => WorkOn(new, new.source)
  PROVE  DatabaseInv'
<1>1. /\ calls' = [d \in Calls |-> calls'[d]] /\ \A d \in Calls : CallType(calls'[d])
      /\ calls'[c] = new /\ \A d \in Calls : d # c => calls'[d] = calls[d]
  BY CallsMove DEF DatabaseInv
<1>2. \A d \in Calls : d # None
  BY IPTVAssumption DEF Calls
<1>3. \A d \in Calls : d # c => calls'[d].pc \notin Importing
  BY <1>1, <1>2 DEF DatabaseInv, Typed
<1>4. \A d \in Calls : (calls'[d].pc \in Importing) <=> (holder' = d)
  BY <1>1, <1>2, <1>3
<1>5. Tables'
  BY DEF DatabaseInv, Typed, Tables
<1>6. Typed'
  BY <1>1, <1>4, <1>5 DEF DatabaseInv, Typed
<1>7. ASSUME NEW d \in Calls, calls'[d].pc \in Importing PROVE WorkOn(calls[d], calls[d].source)'
  <2>1. d = c /\ calls'[d] = new
    BY <1>1, <1>3, <1>7
  <2>. QED  BY <1>7, <2>1 DEF WorkOn, Imports
<1>. QED  BY <1>6, <1>7 DEF DatabaseInv, Isolated

LEMMA MovedCall ==
  ASSUME NEW call, CallType(call), NEW pc
  PROVE  LET new == [call EXCEPT !.pc = pc]
         IN  /\ new = [f \in Fields |-> new[f]] /\ new.pc = pc
             /\ new.op = call.op /\ new.source = call.source /\ new.creds = call.creds /\ new.config = call.config
             /\ new.prev = call.prev /\ new.lines = call.lines /\ new.parser = call.parser /\ new.work = call.work
BY DEF CallType, Fields

LEMMA WithTable ==
  ASSUME NEW table, IsTable(table), NEW k \in Sources, NEW row \in Row
  PROVE  /\ IsTable(With(table, k, row)) /\ DOMAIN With(table, k, row) = DOMAIN table \cup {k}
         /\ With(table, k, row)[k] = row
         /\ \A t \in DOMAIN table : t # k => With(table, k, row)[t] = table[t]
<1>. DEFINE new == With(table, k, row)
<1>1. DOMAIN new = DOMAIN table \cup {k} /\ new = [t \in DOMAIN new |-> new[t]]
  BY DEF With
<1>2. new[k] = row /\ \A t \in DOMAIN table : t # k => new[t] = table[t]
  BY DEF With
<1>. HIDE DEF new
<1>3. IsTable(new)
  BY <1>1, <1>2 DEF IsTable
<1>. QED  BY <1>1, <1>2, <1>3 DEF new

LEMMA StartDatabase ==
  ASSUME DatabaseInv, NEW c \in Calls, NEW op \in {"save", "delete", "sync"}, NEW s \in Sources,
         NEW creds \in {"new", "clear", "keep"}, NEW config, Start(c, op, s, creds, config),
         op = "save" => config \in Config, op = "delete" => creds = "clear"
  PROVE  DatabaseInv'
<1>. DEFINE new == [Idle EXCEPT !.pc = "read", !.op = op, !.source = s, !.creds = creds, !.config = config]
<1>1. CallType(new) /\ new.pc = "read"
  BY DEF CallType, Idle, Fields, Pcs, Importing
<1>2. calls' = [calls EXCEPT ![c] = new]
  BY DEF Start
<1>. HIDE DEF new
<1>3. calls[c].pc \notin Importing /\ new.pc \notin Importing
  BY <1>1 DEF Start, Vacant, Importing
<1>4. ops' \in 0..MaxOps
  BY IPTVAssumption DEF Start, DatabaseInv, Typed
<1>5. Tables' /\ secrets' \in [Sources -> BOOLEAN] /\ holder' = holder /\ faults' \in 0..MaxFaults
      /\ torn' \subseteq Sources /\ UNCHANGED <<sources, catalog, progress>>
  BY DEF Start, db, DatabaseInv, Typed, Tables
<1>. QED  BY <1>1, <1>2, <1>3, <1>4, <1>5, OutsideTransaction

LEMMA UserDatabase ==
  ASSUME DatabaseInv, NEW c \in Calls, User(c)
  PROVE  DatabaseInv'
<1>1. PICK s \in Sources :
        \/ \E creds \in {"new", "clear", "keep"}, withGuide \in BOOLEAN : SaveIPTVSource(c, s, creds, withGuide)
        \/ DeleteIPTVSource(c, s)
        \/ SyncIPTVSource(c, s)
  BY DEF User
<1>2. ASSUME NEW creds \in {"new", "clear", "keep"}, NEW withGuide \in BOOLEAN, SaveIPTVSource(c, s, creds, withGuide)
      PROVE  DatabaseInv'
  <2>1. [edit |-> ops + 1, guide |-> withGuide, ref |-> FALSE] \in Config
    BY <1>2, IPTVAssumption DEF SaveIPTVSource, Start, DatabaseInv, Typed, Config
  <2>. QED  BY <1>2, <2>1, StartDatabase DEF SaveIPTVSource
<1>3. CASE DeleteIPTVSource(c, s)
  BY <1>3, StartDatabase DEF DeleteIPTVSource
<1>4. CASE SyncIPTVSource(c, s)
  BY <1>4, StartDatabase DEF SyncIPTVSource
<1>. QED  BY <1>1, <1>2, <1>3, <1>4

\* What reading the row leaves of the call.
LEMMA ReadRowCall ==
  ASSUME DatabaseInv, NEW c \in Calls, ReadRow(c)
  PROVE  LET call == calls[c]
             s == call.source
             new == calls'[c]
         IN  /\ s \in Sources /\ CallType(new) /\ calls' = [calls EXCEPT ![c] = new]
             /\ \/ new = Idle /\ s \notin DOMAIN sources
                \/ /\ new.source = s /\ new.op = call.op /\ new.creds = call.creds /\ new.prev = call.prev
                   /\ \/ call.op = "sync" /\ new.pc = "begin" /\ new.config = sources[s].config /\ s \in DOMAIN sources
                      \/ /\ call.op = "save"
                         /\ new.pc = IF call.creds = "new" \/ (call.creds = "clear" /\ Ref(s)) THEN "peek" ELSE "row"
                         /\ new.config.ref = IF call.creds = "keep" THEN Ref(s) ELSE call.creds = "new"
                      \/ call.op = "delete" /\ new.pc = IF Ref(s) THEN "peek" ELSE "row"
<1>. DEFINE call == calls[c]
            s == call.source
            new == calls'[c]
<1>1. CallType(call) /\ call.pc = "read" /\ s \in Sources
  BY DEF DatabaseInv, Typed, CallType, ReadRow
<1>2. \A call2 : calls' = [calls EXCEPT ![c] = call2] => calls'[c] = call2
  BY DEF DatabaseInv, Typed
<1>3. Ref(s) \in BOOLEAN
  BY DEF DatabaseInv, Typed, Tables, IsTable, Row, Config, Ref
<1>4. CASE ReadForSync(c)
  <2>1. CASE s \in DOMAIN sources
    <3>. DEFINE next == [call EXCEPT !.pc = "begin", !.config = sources[s].config]
    <3>1. calls' = [calls EXCEPT ![c] = next] /\ call.op = "sync"
      BY <1>4, <2>1 DEF ReadForSync
    <3>2. sources[s].config \in Config
      BY <2>1 DEF DatabaseInv, Typed, Tables, IsTable, Row
    <3>3. /\ CallType(next) /\ next.pc = "begin" /\ next.source = s /\ next.op = call.op /\ next.creds = call.creds
          /\ next.prev = call.prev /\ next.config = sources[s].config
      BY <1>1, <3>1, <3>2 DEF CallType, Fields, Pcs, Importing
    <3>. HIDE DEF next
    <3>. QED  BY <1>1, <1>2, <2>1, <3>1, <3>3
  <2>2. CASE s \notin DOMAIN sources
    BY <1>1, <1>2, <1>4, <2>2, IdleCall DEF ReadForSync, Finish
  <2>. QED  BY <2>1, <2>2
<1>5. CASE ReadForSave(c)
  <2>. DEFINE ref == Ref(s)
              pc == IF call.creds = "new" \/ (call.creds = "clear" /\ ref) THEN "peek" ELSE "row"
              kept == IF call.creds = "keep" THEN ref ELSE call.creds = "new"
              next == [call EXCEPT !.pc = pc, !.config.ref = kept]
  <2>1. calls' = [calls EXCEPT ![c] = next] /\ call.op = "save"
    BY <1>5 DEF ReadForSave
  <2>2. pc \in {"peek", "row"} /\ kept \in BOOLEAN /\ call.config \in Config
    BY <1>1, <1>3, <2>1 DEF CallType
  <2>. HIDE DEF pc, kept
  <2>3. [call.config EXCEPT !.ref = kept] \in Config /\ [call.config EXCEPT !.ref = kept].ref = kept
    BY <2>2 DEF Config
  <2>. DEFINE config == [call.config EXCEPT !.ref = kept]
  <2>4. next = [call EXCEPT !.pc = pc, !.config = config]
    BY <1>1 DEF CallType, Fields
  <2>. HIDE DEF config, next
  <2>5. /\ CallType(next) /\ next.pc = pc /\ next.source = s /\ next.op = call.op /\ next.creds = call.creds
        /\ next.prev = call.prev /\ next.config = config
    BY <1>1, <2>4, <2>3, <2>2, <2>1 DEF CallType, Fields, Pcs, Importing, config
  <2>6. new = next
    BY <1>2, <2>1
  <2>7. new.pc = IF call.creds = "new" \/ (call.creds = "clear" /\ ref) THEN "peek" ELSE "row"
    BY <2>5, <2>6 DEF pc
  <2>8. new.config.ref = IF call.creds = "keep" THEN ref ELSE call.creds = "new"
    BY <2>3, <2>5, <2>6 DEF kept, config
  <2>9. CallType(new) /\ new.source = s /\ new.op = call.op /\ new.creds = call.creds /\ new.prev = call.prev
    BY <2>5, <2>6
  <2>10. calls' = [calls EXCEPT ![c] = new]
    BY <2>1, <2>6
  <2>. QED  BY <1>1, <2>10, <2>9, <2>8, <2>7, <2>1, Zenon
<1>6. CASE ReadForDelete(c)
  <2>. DEFINE pc == IF Ref(s) THEN "peek" ELSE "row"
              next == [call EXCEPT !.pc = pc]
  <2>1. calls' = [calls EXCEPT ![c] = next] /\ call.op = "delete"
    BY <1>6 DEF ReadForDelete, Goto
  <2>2. pc \in {"peek", "row"}
    OBVIOUS
  <2>. HIDE DEF pc
  <2>3. /\ CallType(next) /\ next.pc = pc /\ next.source = s /\ next.op = call.op /\ next.creds = call.creds
        /\ next.prev = call.prev
    BY <1>1, <2>1, <2>2 DEF CallType, Fields, Pcs, Importing
  <2>. HIDE DEF next
  <2>. QED  BY <1>1, <1>2, <2>1, <2>3 DEF pc
<1>. QED  BY <1>4, <1>5, <1>6 DEF ReadRow

LEMMA ReadRowDatabase ==
  ASSUME DatabaseInv, NEW c \in Calls, ReadRow(c)
  PROVE  DatabaseInv'
<1>1. CallType(calls'[c]) /\ calls' = [calls EXCEPT ![c] = calls'[c]] /\ calls'[c].pc \in {"idle", "begin", "peek", "row"}
  BY ReadRowCall, IdleCall
<1>2. calls[c].pc \notin Importing /\ calls'[c].pc \notin Importing
  BY <1>1 DEF ReadRow, Importing
<1>3. Tables' /\ secrets' \in [Sources -> BOOLEAN] /\ holder' = holder /\ faults' \in 0..MaxFaults
      /\ torn' \subseteq Sources /\ UNCHANGED <<sources, catalog, progress>> /\ ops' \in 0..MaxOps
  BY DEF ReadRow, db, DatabaseInv, Typed, Tables
<1>. QED  BY <1>1, <1>2, <1>3, OutsideTransaction

LEMMA PeekDatabase ==
  ASSUME DatabaseInv, NEW c \in Calls, Peek(c)
  PROVE  DatabaseInv'
<1>. DEFINE call == calls[c]
            new == [call EXCEPT !.pc = "secret", !.prev = secrets[call.source]]
<1>1. CallType(call) /\ call.pc = "peek" /\ call.source \in Sources /\ secrets[call.source] \in BOOLEAN
  BY DEF DatabaseInv, Typed, CallType, Peek
<1>2. CallType(new) /\ new.pc = "secret"
  BY <1>1 DEF CallType, Fields, Pcs, Importing
<1>3. calls' = [calls EXCEPT ![c] = new]
  BY DEF Peek
<1>. HIDE DEF new
<1>4. calls[c].pc \notin Importing /\ new.pc \notin Importing
  BY <1>1, <1>2 DEF Importing
<1>5. Tables' /\ secrets' \in [Sources -> BOOLEAN] /\ holder' = holder /\ faults' \in 0..MaxFaults
      /\ torn' \subseteq Sources /\ UNCHANGED <<sources, catalog, progress>> /\ ops' \in 0..MaxOps
  BY DEF Peek, db, DatabaseInv, Typed, Tables
<1>. QED  BY <1>2, <1>3, <1>4, <1>5, OutsideTransaction

\* A call that goes on, and a call that ends, outside of a transaction.
LEMMA GotoCall ==
  ASSUME DatabaseInv, NEW c \in Calls, calls[c].pc # "idle", NEW pc \in {"row", "undo", "status"},
         pc \in {"row", "undo"} => calls[c].op \in {"save", "delete"}, pc = "status" => calls[c].op = "sync",
         Goto(c, pc)
  PROVE  /\ CallType(calls'[c]) /\ calls' = [calls EXCEPT ![c] = calls'[c]] /\ calls'[c].pc = pc
         /\ calls'[c].op = calls[c].op /\ calls'[c].source = calls[c].source /\ calls'[c].creds = calls[c].creds
         /\ calls'[c].config = calls[c].config /\ calls'[c].prev = calls[c].prev
         /\ calls'[c].pc \notin Importing
<1>. DEFINE call == calls[c]
            new == [call EXCEPT !.pc = pc]
<1>1. CallType(call)
  BY DEF DatabaseInv, Typed
<1>2. calls' = [calls EXCEPT ![c] = new] /\ calls'[c] = new
  BY DEF Goto, DatabaseInv, Typed
<1>3. /\ new.pc = pc /\ new.op = call.op /\ new.source = call.source /\ new.creds = call.creds
      /\ new.config = call.config /\ new.prev = call.prev
  BY <1>1, MovedCall
<1>4. CallType(new)
  BY <1>1 DEF CallType, Fields, Pcs, Importing
<1>. HIDE DEF new
<1>. QED  BY <1>2, <1>3, <1>4 DEF Importing

LEMMA FinishCall ==
  ASSUME DatabaseInv, NEW c \in Calls, Finish(c)
  PROVE  /\ CallType(calls'[c]) /\ calls' = [calls EXCEPT ![c] = calls'[c]] /\ calls'[c] = Idle
         /\ calls'[c].pc \notin Importing
<1>1. calls' = [calls EXCEPT ![c] = Idle] /\ calls'[c] = Idle
  BY DEF Finish, DatabaseInv, Typed
<1>. QED  BY <1>1, IdleCall DEF Importing

LEMMA FaultType ==
  ASSUME DatabaseInv, Fault \/ UNCHANGED faults
  PROVE  faults' \in 0..MaxFaults
BY IPTVAssumption DEF Fault, DatabaseInv, Typed

LEMMA WriteSecretDatabase ==
  ASSUME DatabaseInv, NEW c \in Calls, WriteSecret(c)
  PROVE  DatabaseInv'
<1>1. calls[c].pc = "secret" /\ calls[c].op \in {"save", "delete"}
  BY DEF DatabaseInv, Typed, CallType, WriteSecret
<1>2. Goto(c, "row") \/ Finish(c)
  BY DEF WriteSecret
<1>3. CallType(calls'[c]) /\ calls' = [calls EXCEPT ![c] = calls'[c]] /\ calls'[c].pc \notin Importing
  BY <1>1, <1>2, GotoCall, FinishCall
<1>4. calls[c].pc \notin Importing
  BY <1>1 DEF Importing
<1>5. secrets' \in [Sources -> BOOLEAN] /\ faults' \in 0..MaxFaults
  <2>1. faults' \in 0..MaxFaults
    BY FaultType DEF WriteSecret
  <2>2. secrets' \in [Sources -> BOOLEAN]
    BY DEF WriteSecret, DatabaseInv, Typed
  <2>. QED  BY <2>1, <2>2
<1>6. Tables' /\ holder' = holder
      /\ torn' \subseteq Sources /\ UNCHANGED <<sources, catalog, progress>> /\ ops' \in 0..MaxOps
  BY DEF WriteSecret, db, DatabaseInv, Typed, Tables
<1>. QED  BY <1>3, <1>4, <1>5, <1>6, OutsideTransaction

LEMMA RowFailsCall ==
  ASSUME DatabaseInv, NEW c \in Calls, calls[c].pc = "row", RowFails(c)
  PROVE  CallType(calls'[c]) /\ calls' = [calls EXCEPT ![c] = calls'[c]] /\ calls'[c].pc \notin Importing
<1>1. calls[c].op \in {"save", "delete"}
  BY DEF DatabaseInv, Typed, CallType
<1>2. Goto(c, "undo") \/ Finish(c)
  BY DEF RowFails
<1>. QED  BY <1>1, <1>2, GotoCall, FinishCall

LEMMA SaveRowDatabase ==
  ASSUME DatabaseInv, NEW c \in Calls, SaveRow(c)
  PROVE  DatabaseInv'
<1>. DEFINE s == calls[c].source
            old == IF s \in DOMAIN sources THEN sources[s] ELSE [config |-> None, error |-> FALSE, synced |-> FALSE]
            row == [old EXCEPT !.config = calls[c].config]
<1>1. calls[c].pc = "row" /\ calls[c].op = "save" /\ s \in Sources /\ calls[c].config \in Config
  BY DEF DatabaseInv, Typed, CallType, SaveRow, At
<1>2. Finish(c) \/ RowFails(c)
  BY DEF SaveRow
<1>3. CallType(calls'[c]) /\ calls' = [calls EXCEPT ![c] = calls'[c]] /\ calls'[c].pc \notin Importing
  BY <1>1, <1>2, RowFailsCall, FinishCall
<1>4. calls[c].pc \notin Importing
  BY <1>1 DEF Importing
<1>5. Tables'
  <2>1. CASE sources' = With(sources, s, row)
    <3>1. row \in Row
      BY <1>1 DEF DatabaseInv, Typed, Tables, IsTable, Row
    <3>. HIDE DEF row
    <3>2. IsTable(sources') /\ DOMAIN sources' = DOMAIN sources \cup {s}
      <4>1. IsTable(sources)
        BY DEF DatabaseInv, Typed, Tables
      <4>. DEFINE new == With(sources, s, row)
      <4>2. IsTable(new) /\ DOMAIN new = DOMAIN sources \cup {s}
        <5>1. s \in Sources
          BY <1>1
        <5>2. IsTable(new)
          BY <5>1, <3>1, <4>1, WithTable
        <5>3. DOMAIN new = DOMAIN sources \cup {s}
          BY <5>1, <3>1, <4>1, WithTable
        <5>. QED  BY <5>2, <5>3
      <4>. HIDE DEF new
      <4>. QED  BY <2>1, <4>2 DEF new
    <3>. HIDE DEF s
    <3>. QED  BY <3>2 DEF SaveRow, DatabaseInv, Typed, Tables
  <2>2. CASE UNCHANGED sources
    BY <2>2 DEF SaveRow, DatabaseInv, Typed, Tables
  <2>. QED  BY <2>1, <2>2 DEF SaveRow
<1>6. secrets' \in [Sources -> BOOLEAN] /\ holder' = holder /\ torn' \subseteq Sources /\ Free /\ ops' \in 0..MaxOps
  BY DEF SaveRow, DatabaseInv, Typed
<1>7. faults' \in 0..MaxFaults
  BY FaultType DEF SaveRow
<1>. QED  BY <1>3, <1>4, <1>5, <1>6, <1>7, OutsideTransaction

LEMMA DeletedCatalog ==
  ASSUME NEW t, NEW cat, IsCatalog(cat)
  PROVE  LET rest == Without(cat, Of(cat, t)) IN
         /\ IsCatalog(rest) /\ DOMAIN rest = DOMAIN cat \ Of(cat, t)
         /\ \A i \in DOMAIN rest : rest[i] = cat[i] /\ rest[i].source # t
BY DEF IsCatalog, Without, Of

LEMMA DeleteRowDatabase ==
  ASSUME DatabaseInv, NEW c \in Calls, DeleteRow(c)
  PROVE  DatabaseInv'
<1>. DEFINE s == calls[c].source
<1>1. calls[c].pc = "row" /\ s \in Sources
  BY DEF DatabaseInv, Typed, CallType, DeleteRow, At
<1>2. Finish(c) \/ RowFails(c)
  BY DEF DeleteRow
<1>3. CallType(calls'[c]) /\ calls' = [calls EXCEPT ![c] = calls'[c]] /\ calls'[c].pc \notin Importing
  BY <1>1, <1>2, RowFailsCall, FinishCall
<1>4. calls[c].pc \notin Importing
  BY <1>1 DEF Importing
<1>5. Tables'
  <2>1. CASE /\ sources' = Without(sources, {s}) /\ catalog' = Without(catalog, Of(catalog, s))
             /\ progress' = progress \ Of(catalog, s) /\ guide' = [guide EXCEPT ![s] = Guide]
    <3>1. IsTable(sources') /\ DOMAIN sources' = DOMAIN sources \ {s}
      BY <2>1 DEF DatabaseInv, Typed, Tables, IsTable, Without
    <3>2. /\ IsCatalog(catalog') /\ DOMAIN catalog' = DOMAIN catalog \ Of(catalog, s)
          /\ \A i \in DOMAIN catalog' : catalog'[i] = catalog[i] /\ catalog'[i].source # s
      <4>1. IsCatalog(catalog)
        BY DEF DatabaseInv, Typed, Tables
      <4>2. catalog' = Without(catalog, Of(catalog, s))
        BY <2>1
      <4>. DEFINE rest == Without(catalog, Of(catalog, s))
      <4>3. /\ IsCatalog(rest) /\ DOMAIN rest = DOMAIN catalog \ Of(catalog, s)
            /\ \A i \in DOMAIN rest : rest[i] = catalog[i] /\ rest[i].source # s
        <5>1. IsCatalog(rest)
          BY <4>1, DeletedCatalog
        <5>2. DOMAIN rest = DOMAIN catalog \ Of(catalog, s)
          BY <4>1, DeletedCatalog
        <5>3. \A i \in DOMAIN rest : rest[i] = catalog[i] /\ rest[i].source # s
          BY DEF Without, Of
        <5>. QED  BY <5>1, <5>2, <5>3
      <4>. HIDE DEF rest
      <4>. QED  BY <4>2, <4>3 DEF rest
    <3>3. guide' = [t \in Sources |-> guide'[t]] /\ guide'[s] = Guide /\ \A t \in Sources : t # s => guide'[t] = guide[t]
      BY <1>1, <2>1 DEF DatabaseInv, Typed, Tables
    <3>. HIDE DEF s
    <3>. QED  BY <2>1, <3>1, <3>2, <3>3 DEF DatabaseInv, Typed, Tables
  <2>2. CASE UNCHANGED <<sources, catalog, progress, guide>>
    BY <2>2 DEF DatabaseInv, Typed, Tables
  <2>. QED  BY <2>1, <2>2 DEF DeleteRow
<1>6. secrets' \in [Sources -> BOOLEAN] /\ holder' = holder /\ torn' \subseteq Sources /\ Free /\ ops' \in 0..MaxOps
  BY DEF DeleteRow, DatabaseInv, Typed
<1>7. faults' \in 0..MaxFaults
  BY FaultType DEF DeleteRow
<1>. QED  BY <1>3, <1>4, <1>5, <1>6, <1>7, OutsideTransaction

LEMMA UndoDatabase ==
  ASSUME DatabaseInv, NEW c \in Calls, Undo(c)
  PROVE  DatabaseInv'
<1>1. calls[c].pc = "undo" /\ calls[c].source \in Sources /\ calls[c].prev \in BOOLEAN
  BY DEF DatabaseInv, Typed, CallType, Undo
<1>2. CallType(calls'[c]) /\ calls' = [calls EXCEPT ![c] = calls'[c]] /\ calls'[c].pc \notin Importing
  BY FinishCall DEF Undo
<1>3. calls[c].pc \notin Importing
  BY <1>1 DEF Importing
<1>4. secrets' \in [Sources -> BOOLEAN] /\ torn' \subseteq Sources
  BY <1>1 DEF Undo, DatabaseInv, Typed
<1>5. faults' \in 0..MaxFaults
  BY FaultType DEF Undo
<1>6. Tables' /\ holder' = holder /\ UNCHANGED <<sources, catalog, progress>> /\ ops' \in 0..MaxOps
  BY DEF Undo, db, DatabaseInv, Typed, Tables
<1>. QED  BY <1>2, <1>3, <1>4, <1>5, <1>6, OutsideTransaction

LEMMA NoteErrorDatabase ==
  ASSUME DatabaseInv, NEW c \in Calls, NoteError(c)
  PROVE  DatabaseInv'
<1>. DEFINE s == calls[c].source
<1>1. calls[c].pc = "status"
  BY DEF NoteError, At
<1>2. CallType(calls'[c]) /\ calls' = [calls EXCEPT ![c] = calls'[c]] /\ calls'[c].pc \notin Importing
  BY FinishCall DEF NoteError
<1>3. calls[c].pc \notin Importing
  BY <1>1 DEF Importing
<1>4. IsTable(sources') /\ DOMAIN sources' = DOMAIN sources
  <2>1. CASE s \in DOMAIN sources
    <3>1. [sources[s] EXCEPT !.error = TRUE] \in Row
      BY <2>1 DEF DatabaseInv, Typed, Tables, IsTable, Row
    <3>2. sources' = [sources EXCEPT ![s] = [sources[s] EXCEPT !.error = TRUE]]
      BY <2>1 DEF NoteError
    <3>. QED  BY <3>1, <3>2 DEF DatabaseInv, Typed, Tables, IsTable
  <2>2. CASE s \notin DOMAIN sources
    BY <2>2 DEF NoteError, DatabaseInv, Typed, Tables
  <2>. QED  BY <2>1, <2>2
<1>5. Tables'
  BY <1>4 DEF NoteError, DatabaseInv, Typed, Tables
<1>6. secrets' \in [Sources -> BOOLEAN] /\ holder' = holder /\ torn' \subseteq Sources /\ Free /\ ops' \in 0..MaxOps
      /\ faults' \in 0..MaxFaults
  BY DEF NoteError, DatabaseInv, Typed
<1>. QED  BY <1>2, <1>3, <1>5, <1>6, OutsideTransaction

LEMMA SyncGuideDatabase ==
  ASSUME DatabaseInv, NEW c \in Calls, SyncGuide(c)
  PROVE  DatabaseInv'
<1>. DEFINE s == calls[c].source
<1>1. calls[c].pc = "guide" /\ s \in Sources
  BY DEF SyncGuide, At, DatabaseInv, Typed, CallType
<1>2. CallType(calls'[c]) /\ calls' = [calls EXCEPT ![c] = calls'[c]] /\ calls'[c].pc \notin Importing
  BY FinishCall DEF SyncGuide
<1>3. calls[c].pc \notin Importing
  BY <1>1 DEF Importing
<1>4. guide' = [t \in Sources |-> guide'[t]] /\ \A t \in Sources : guide'[t] # Guide => t \in DOMAIN sources
  <2>1. CASE UNCHANGED guide
    BY <2>1 DEF DatabaseInv, Typed, Tables
  <2>2. ASSUME NEW new, guide' = [guide EXCEPT ![s] = new], s \in DOMAIN sources
        PROVE  guide' = [t \in Sources |-> guide'[t]] /\ \A t \in Sources : guide'[t] # Guide => t \in DOMAIN sources
    BY <1>1, <2>2 DEF DatabaseInv, Typed, Tables
  <2>. QED  BY <2>1, <2>2 DEF SyncGuide
<1>5. Tables'
  BY <1>4 DEF SyncGuide, DatabaseInv, Typed, Tables
<1>6. secrets' \in [Sources -> BOOLEAN] /\ holder' = holder /\ torn' \subseteq Sources /\ Free /\ ops' \in 0..MaxOps
  BY DEF SyncGuide, DatabaseInv, Typed
<1>7. faults' \in 0..MaxFaults
  BY FaultType DEF SyncGuide
<1>. QED  BY <1>2, <1>3, <1>5, <1>6, <1>7, OutsideTransaction

\* The call whose transaction is open.
LEMMA ImportingCall ==
  ASSUME DatabaseInv, NEW c \in Calls, calls[c].pc \in Importing
  PROVE  /\ holder = c /\ CallType(calls[c]) /\ WorkOn(calls[c], calls[c].source)
         /\ calls[c].source \in Sources /\ calls[c].op = "sync" /\ calls[c].config \in Config
         /\ IsCatalog(catalog) /\ None # c
<1>1. CallType(calls[c]) /\ holder = c /\ IsCatalog(catalog) /\ WorkOn(calls[c], calls[c].source)
  BY DEF DatabaseInv, Typed, Tables, Isolated
<1>2. calls[c].source \in Sources /\ calls[c].op = "sync" /\ calls[c].config \in Config
  BY <1>1 DEF CallType, Importing
<1>3. None # c
  BY IPTVAssumption DEF Calls
<1>. QED  BY <1>1, <1>2, <1>3

LEMMA AbortCall ==
  ASSUME DatabaseInv, NEW c \in Calls, calls[c].pc \in Importing, Abort(c)
  PROVE  /\ CallType(calls'[c]) /\ calls' = [calls EXCEPT ![c] = calls'[c]] /\ calls'[c].pc = "status"
         /\ calls'[c].pc \notin Importing /\ holder' = None
         /\ calls'[c].op = calls[c].op /\ calls'[c].source = calls[c].source
<1>1. calls[c].pc # "idle" /\ calls[c].op = "sync"
  BY ImportingCall DEF Importing
<1>. QED  BY <1>1, GotoCall DEF Abort

LEMMA AbortDatabase ==
  ASSUME DatabaseInv, NEW c \in Calls, calls[c].pc \in Importing, Abort(c),
         UNCHANGED <<sources, catalog, progress, guide, secrets, ops, torn>>, Fault \/ UNCHANGED faults
  PROVE  DatabaseInv'
<1>1. holder = c /\ c # None /\ faults' \in 0..MaxFaults
  BY ImportingCall, FaultType
<1>. QED  BY <1>1, AbortCall, InsideTransaction

LEMMA BeginDatabase ==
  ASSUME DatabaseInv, NEW c \in Calls, Begin(c)
  PROVE  DatabaseInv'
<1>. DEFINE call == calls[c]
            s == call.source
            old == Of(catalog, s)
            row == [config |-> call.config, error |-> FALSE, synced |-> TRUE]
            work == [sources |-> With(sources, s, row), catalog |-> Without(catalog, old), progress |-> progress \ old]
            new == [call EXCEPT !.pc = "fetch", !.parser = Parser, !.work = work]
<1>1. CallType(call) /\ call.pc = "begin" /\ call.op = "sync" /\ s \in Sources /\ call.config \in Config
  BY DEF DatabaseInv, Typed, CallType, Begin, At
<1>2. calls' = [calls EXCEPT ![c] = new] /\ holder = None /\ holder' = c
  BY DEF Begin, Free
<1>3. row \in Row
  BY <1>1 DEF Row
<1>4. With(sources, s, row)[s] = row
  BY DEF With
<1>5. IsCatalog(catalog)
  BY DEF DatabaseInv, Typed, Tables
<1>6. Imported(catalog, s, <<>>) = Without(catalog, old)
  <2>1. IsCatalog(Without(catalog, old))
    BY <1>5, DeletedCatalog
  <2>. QED  BY <2>1, InsertedNothing DEF Imported
<1>7. IsParser(Parser, s)
  <2>1. PICK full \in Seq(Lines) : TRUE
    BY EmptySeq
  <2>. QED  BY <1>1, <2>1, BetweenStarts
<1>8. /\ work.sources = With(sources, s, row) /\ work.catalog = Without(catalog, old) /\ work.progress = progress \ old
      /\ work = [sources |-> work.sources, catalog |-> work.catalog, progress |-> work.progress]
  OBVIOUS
<1>. HIDE DEF work
<1>9. /\ CallType(new) /\ new.pc = "fetch" /\ new.source = s /\ new.work = work /\ new.parser = Parser
      /\ new.config = call.config
  BY <1>1 DEF CallType, Fields, Pcs, Importing
<1>10. row.config = call.config
  OBVIOUS
<1>. HIDE DEF new, row, old
<1>11. WorkOn(new, s)
  <2>1. Imports(new, s)
    BY <1>6, <1>8, <1>9 DEF Imports
  <2>. QED  BY <1>3, <1>4, <1>7, <1>8, <1>9, <1>10, <2>1 DEF WorkOn, old
<1>12. UNCHANGED <<sources, catalog, progress, guide, secrets, ops, torn>> /\ faults' \in 0..MaxFaults
  BY DEF Begin, db, DatabaseInv, Typed
<1>13. new.pc \in Importing
  BY <1>9 DEF Importing
<1>. QED  BY <1>2, <1>9, <1>11, <1>12, <1>13, InsideTransaction

LEMMA FetchDatabase ==
  ASSUME DatabaseInv, NEW c \in Calls, Fetch(c)
  PROVE  DatabaseInv'
<1>. DEFINE call == calls[c]
            s == call.source
<1>1. call.pc = "fetch" /\ call.pc \in Importing
  BY DEF Fetch, At, Importing
<1>2. UNCHANGED <<sources, catalog, progress, guide, secrets, ops, torn>>
  BY DEF Fetch, db
<1>3. CASE Abort(c) /\ (Fault \/ UNCHANGED faults)
  BY <1>1, <1>2, <1>3, AbortDatabase
<1>4. ASSUME NEW lines \in Served, calls' = [calls EXCEPT ![c].pc = "parse", ![c].lines = lines],
             UNCHANGED <<holder, faults>>
      PROVE  DatabaseInv'
  <2>. DEFINE new == [call EXCEPT !.pc = "parse", !.lines = lines]
  <2>1. calls' = [calls EXCEPT ![c] = new]
    BY <1>4
  <2>2. CallType(call) /\ holder = c /\ s \in Sources /\ call.op = "sync" /\ call.config \in Config /\ WorkOn(call, s)
    BY <1>1, ImportingCall
  <2>3. /\ CallType(new) /\ new.pc = "parse" /\ new.source = s /\ new.lines = lines
        /\ new.work = call.work /\ new.parser = call.parser /\ new.config = call.config
    BY <2>2 DEF CallType, Fields, Pcs, Importing
  <2>. HIDE DEF new
  <2>4. call.parser = Parser /\ call.work.catalog = Imported(catalog, s, <<>>)
    BY <1>1, <2>2 DEF WorkOn, Imports
  <2>5. lines \in Seq(Lines)
    BY IPTVAssumption
  <2>6. 0 \in 0..Len(lines) /\ Between(lines, 0, lines, Parser, s) /\ After(lines, s)[0].out = <<>>
    BY <2>2, <2>5, BetweenStarts
  <2>7. Imports(new, s)
    BY <2>3, <2>4, <2>6 DEF Imports
  <2>8. WorkOn(new, s)
    BY <2>2, <2>3, <2>7 DEF WorkOn
  <2>9. new.pc \in Importing /\ faults' \in 0..MaxFaults
    BY <1>4, <2>3, FaultType DEF Importing
  <2>. QED  BY <1>2, <1>4, <2>9, <2>8, <2>3, <2>2, <2>1, InsideTransaction
<1>. QED  BY <1>3, <1>4 DEF Fetch

LEMMA ConsumeDatabase ==
  ASSUME DatabaseInv, NEW c \in Calls, Consume(c)
  PROVE  DatabaseInv'
<1>. DEFINE call == calls[c]
            s == call.source
            parser == Parsed(call.parser, Head(call.lines), s, Options)
            rest == [parser EXCEPT !.out = <<>>]
            more == Inserted(call.work.catalog, parser.out)
<1>1. call.pc = "parse" /\ call.pc \in Importing /\ call.lines # <<>>
  BY DEF Consume, At, Importing
<1>2. UNCHANGED <<sources, catalog, progress, guide, secrets, ops, torn, faults>>
  BY DEF Consume, db
<1>3. CASE Abort(c)
  BY <1>1, <1>2, <1>3, AbortDatabase
<1>4. CASE /\ ~parser.error /\ UNCHANGED holder
           /\ calls' = [calls EXCEPT ![c].lines = Tail(@), ![c].parser = [parser EXCEPT !.out = <<>>],
                                     ![c].work.catalog = Inserted(@, parser.out)]
  <2>1. CallType(call) /\ holder = c /\ s \in Sources /\ call.op = "sync" /\ call.config \in Config /\ WorkOn(call, s)
    BY <1>1, ImportingCall
  <2>. DEFINE Reached(full, k) ==
                 /\ Between(full, k, call.lines, call.parser, s)
                 /\ call.work.catalog = Imported(catalog, s, After(full, s)[k].out)
  <2>p. PICK full \in Served : \E k \in 0..Len(full) : Reached(full, k)
    BY <1>1, <2>1 DEF WorkOn, Imports
  <2>2. PICK k \in 0..Len(full) : Reached(full, k)
    BY <2>p
  <2>. DEFINE a == After(full, s)[k].out
  <2>3. full \in Seq(Lines) /\ IsParser(call.parser, s)
    BY <2>1, IPTVAssumption DEF WorkOn
  <2>4. /\ a \in Seq(ItemsOf(s)) /\ parser.out \in Seq(ItemsOf(s)) /\ IsParser(rest, s) /\ k + 1 \in 0..Len(full)
        /\ Between(full, k + 1, Tail(call.lines), rest, s) /\ After(full, s)[k + 1].out = Joined(a, parser.out)
    <3>. DEFINE lines == call.lines
                q == call.parser
    <3>1. lines # <<>> /\ IsParser(q, s) /\ Between(full, k, lines, q, s) /\ s \in Sources
      BY <1>1, <2>1, <2>2, <2>3
    <3>. HIDE DEF lines, q, s
    <3>. DEFINE r == Parsed(q, Head(lines), s, Options)
    <3>2. /\ a \in Seq(ItemsOf(s)) /\ r.out \in Seq(ItemsOf(s)) /\ IsParser([r EXCEPT !.out = <<>>], s)
          /\ ~r.error => /\ k + 1 \in 0..Len(full)
                         /\ Between(full, k + 1, Tail(lines), [r EXCEPT !.out = <<>>], s)
                         /\ After(full, s)[k + 1].out = Joined(a, r.out)
      BY <2>3, <3>1, BetweenConsumes
    <3>. QED  BY <1>4, <3>2 DEF lines, q, s
  <2>. HIDE DEF parser
  <2>5. more = Imported(catalog, s, After(full, s)[k + 1].out)
    <3>. DEFINE b == parser.out
    <3>1. call.work.catalog = Imported(catalog, s, a) /\ a \in Seq(ItemsOf(s)) /\ b \in Seq(ItemsOf(s))
      BY <2>2, <2>4
    <3>2. After(full, s)[k + 1].out = a \o b
      BY <2>4 DEF Joined
    <3>. HIDE DEF a, b
    <3>3. Inserted(Imported(catalog, s, a), b) = Imported(catalog, s, a \o b)
      BY <3>1, ImportedTwice
    <3>. QED  BY <3>1, <3>2, <3>3 DEF b
  <2>. HIDE DEF rest, more
  <2>. DEFINE work == [call.work EXCEPT !.catalog = more]
              new == [call EXCEPT !.lines = Tail(@), !.parser = rest, !.work = work]
  <2>6. calls' = [calls EXCEPT ![c] = new]
    BY <1>4, <2>1 DEF CallType, Fields, rest, more
  <2>7. /\ work.sources = call.work.sources /\ work.catalog = more /\ work.progress = call.work.progress
        /\ work = [sources |-> work.sources, catalog |-> work.catalog, progress |-> work.progress]
    BY <2>1 DEF WorkOn
  <2>. HIDE DEF work
  <2>8. /\ CallType(new) /\ new.pc = "parse" /\ new.source = s /\ new.lines = Tail(call.lines) /\ new.parser = rest
        /\ new.work = work /\ new.config = call.config
    BY <1>1, <2>1 DEF CallType, Fields, Pcs, Importing
  <2>. HIDE DEF new, a
  <2>9. Imports(new, s)
    BY <2>8, <2>7, <2>5, <2>4 DEF Imports
  <2>10. WorkOn(new, s)
    BY <2>9, <2>8, <2>7, <2>4, <2>1 DEF WorkOn
  <2>11. new.pc \in Importing /\ faults' \in 0..MaxFaults
    BY <1>2, <2>8, FaultType DEF Importing
  <2>. QED  BY <1>2, <1>4, <2>11, <2>10, <2>8, <2>6, <2>1, InsideTransaction
<1>. QED  BY <1>3, <1>4 DEF Consume

LEMMA EndOfPlaylistDatabase ==
  ASSUME DatabaseInv, NEW c \in Calls, EndOfPlaylist(c)
  PROVE  DatabaseInv'
<1>. DEFINE call == calls[c]
            s == call.source
            last == Finished(call.parser)
            more == Inserted(call.work.catalog, last.out)
            work == [call.work EXCEPT !.catalog = more]
            new == [call EXCEPT !.pc = "commit", !.parser = Parser, !.work = work]
<1>1. call.pc = "parse" /\ call.pc \in Importing /\ call.lines = <<>>
  BY DEF EndOfPlaylist, At, Importing
<1>2. UNCHANGED <<sources, catalog, progress, guide, secrets, ops, torn, holder>> /\ faults' = faults
  BY DEF EndOfPlaylist, db
<1>3. CallType(call) /\ holder = c /\ s \in Sources /\ call.op = "sync" /\ call.config \in Config /\ WorkOn(call, s)
  BY <1>1, ImportingCall
<1>. DEFINE Reached(full, k) ==
               /\ Between(full, k, <<>>, call.parser, s)
               /\ call.work.catalog = Imported(catalog, s, After(full, s)[k].out)
<1>p. PICK full \in Served : \E k \in 0..Len(full) : Reached(full, k)
  BY <1>1, <1>3 DEF WorkOn, Imports
<1>4. PICK k \in 0..Len(full) : Reached(full, k)
  BY <1>p
<1>. DEFINE a == After(full, s)[k].out
            all == Parse(full, s, Options)
<1>5. full \in Seq(Lines) /\ IsParser(call.parser, s)
  BY <1>3, IPTVAssumption DEF WorkOn
<1>6. a \in Seq(ItemsOf(s)) /\ last.out \in Seq(ItemsOf(s)) /\ ~all.error /\ all.out = a \o last.out
  BY <1>3, <1>4, <1>5, BetweenEnds
<1>. HIDE DEF last
<1>7. more = Imported(catalog, s, all.out)
  BY <1>4, <1>6, ImportedTwice
<1>8. calls' = [calls EXCEPT ![c] = new]
  BY <1>3 DEF EndOfPlaylist, CallType, Fields, last
<1>. HIDE DEF more
<1>9. /\ work.sources = call.work.sources /\ work.catalog = more /\ work.progress = call.work.progress
      /\ work = [sources |-> work.sources, catalog |-> work.catalog, progress |-> work.progress]
  BY <1>3 DEF WorkOn
<1>. HIDE DEF work
<1>10. /\ CallType(new) /\ new.pc = "commit" /\ new.source = s /\ new.parser = Parser
       /\ new.work = work /\ new.config = call.config
  BY <1>3 DEF CallType, Fields, Pcs, Importing
<1>. HIDE DEF new, a, all
<1>11. Imports(new, s)
  BY <1>6, <1>7, <1>9, <1>10 DEF Imports, all
<1>12. IsParser(Parser, s)
  BY <1>3, <1>5, BetweenStarts
<1>13. WorkOn(new, s)
  BY <1>3, <1>9, <1>10, <1>11, <1>12 DEF WorkOn
<1>14. new.pc \in Importing /\ faults' \in 0..MaxFaults
  BY <1>2, <1>10, FaultType DEF Importing
<1>. QED  BY <1>2, <1>3, <1>8, <1>10, <1>13, <1>14, InsideTransaction

\* What a commit makes of the database: an import of one playlist.
LEMMA CommitTables ==
  ASSUME DatabaseInv, NEW c \in Calls, At(c, "sync", "commit"),
         sources' = calls[c].work.sources, catalog' = calls[c].work.catalog, progress' = calls[c].work.progress,
         UNCHANGED guide
  PROVE  /\ Tables'
         /\ \E full \in Served :
              LET p == Parse(full, calls[c].source, Options)
              IN  ~p.error /\ catalog' = Imported(catalog, calls[c].source, p.out)
         /\ DOMAIN sources' = DOMAIN sources \cup {calls[c].source} /\ sources'[calls[c].source].config = calls[c].config
         /\ \A t \in DOMAIN sources : t # calls[c].source => sources'[t] = sources[t]
<1>. DEFINE call == calls[c]
            s == call.source
            row == call.work.sources[s]
<1>1. call.pc = "commit" /\ call.pc \in Importing
  BY DEF At, Importing
<1>2. WorkOn(call, s) /\ s \in Sources /\ IsCatalog(catalog)
  BY <1>1, ImportingCall
<1>3. sources' = With(sources, s, row) /\ row \in Row /\ row.config = call.config /\ progress' = progress \ Of(catalog, s)
  BY <1>2 DEF WorkOn
<1>4. IsTable(sources)
  BY DEF DatabaseInv, Typed, Tables
<1>. DEFINE table == With(sources, s, row)
<1>5. /\ IsTable(table) /\ DOMAIN table = DOMAIN sources \cup {s} /\ table[s] = row
      /\ \A t \in DOMAIN sources : t # s => table[t] = sources[t]
  <2>1. IsTable(table)
    BY <1>2, <1>3, <1>4, WithTable
  <2>. QED  BY <2>1 DEF With
<1>6. PICK full \in Served :
        LET p == Parse(full, s, Options) IN ~p.error /\ catalog' = Imported(catalog, s, p.out)
  BY <1>1, <1>2 DEF WorkOn, Imports
<1>. DEFINE items == Parse(full, s, Options).out
            new == Imported(catalog, s, items)
<1>7. items \in Seq(ItemsOf(s))
  BY <1>2, IPTVAssumption, ParseType
<1>. HIDE DEF items
<1>8. new = Imported(catalog, s, items) /\ catalog' = new
  BY <1>6 DEF items
<1>. HIDE DEF new, table
<1>9. IsCatalog(new) /\ DOMAIN catalog \ Of(catalog, s) \subseteq DOMAIN new /\ OnlyOf(new, catalog, s)
  BY <1>2, <1>7, <1>8, ImportedCatalog
<1>10. /\ \A i \in DOMAIN new : new[i].source \in DOMAIN table
       /\ progress \ Of(catalog, s) \subseteq DOMAIN new
       /\ \A t \in Sources : guide[t] # Guide => t \in DOMAIN table
  BY <1>5, <1>9 DEF DatabaseInv, Typed, Tables, OnlyOf
<1>11. sources' = table
  BY <1>3 DEF table
<1>12. Tables'
  BY <1>3, <1>5, <1>8, <1>9, <1>10, <1>11 DEF DatabaseInv, Typed, Tables
<1>13. /\ DOMAIN sources' = DOMAIN sources \cup {s} /\ sources'[s].config = call.config
       /\ \A t \in DOMAIN sources : t # s => sources'[t] = sources[t]
  BY <1>3, <1>5, <1>11
<1>. QED  BY <1>6, <1>12, <1>13

\* The call after its commit.
LEMMA CommitCall ==
  ASSUME DatabaseInv, NEW c \in Calls, At(c, "sync", "commit"),
         IF calls[c].config.guide THEN calls' = [calls EXCEPT ![c].pc = "guide", ![c].work = Work] ELSE Finish(c)
  PROVE  /\ CallType(calls'[c]) /\ calls' = [calls EXCEPT ![c] = calls'[c]] /\ calls'[c].pc \notin Importing
         /\ \/ calls'[c] = Idle
            \/ calls'[c].pc = "guide" /\ calls'[c].source = calls[c].source /\ calls'[c].op = "sync"
<1>. DEFINE call == calls[c]
            new == [call EXCEPT !.pc = "guide", !.work = Work]
<1>1. CallType(call) /\ call.op = "sync" /\ call.source \in Sources /\ call.config \in Config
  BY ImportingCall DEF At, Importing
<1>2. CASE calls' = [calls EXCEPT ![c].pc = "guide", ![c].work = Work]
  <2>1. calls' = [calls EXCEPT ![c] = new] /\ calls'[c] = new
    BY <1>2 DEF DatabaseInv, Typed
  <2>2. CallType(new) /\ new.pc = "guide" /\ new.source = call.source /\ new.op = "sync"
    BY <1>1 DEF CallType, Fields, Pcs, Importing
  <2>. HIDE DEF new
  <2>. QED  BY <2>1, <2>2 DEF Importing
<1>3. CASE Finish(c)
  BY <1>3, FinishCall
<1>. QED  BY <1>2, <1>3

LEMMA CommitDatabase ==
  ASSUME DatabaseInv, NEW c \in Calls, Commit(c)
  PROVE  DatabaseInv'
<1>1. At(c, "sync", "commit") /\ calls[c].pc \in Importing /\ UNCHANGED <<guide, saved, secrets, ops, torn>>
  BY DEF Commit, At, Importing
<1>2. CASE Fault /\ Abort(c) /\ UNCHANGED <<sources, catalog, progress>>
  BY <1>1, <1>2, AbortDatabase
<1>3. CASE /\ sources' = calls[c].work.sources /\ catalog' = calls[c].work.catalog /\ progress' = calls[c].work.progress
           /\ holder' = None
           /\ IF calls[c].config.guide THEN calls' = [calls EXCEPT ![c].pc = "guide", ![c].work = Work] ELSE Finish(c)
           /\ UNCHANGED faults
  <2>1. Tables'
    BY <1>1, <1>3, CommitTables
  <2>2. CallType(calls'[c]) /\ calls' = [calls EXCEPT ![c] = calls'[c]] /\ calls'[c].pc \notin Importing
    BY <1>1, <1>3, CommitCall
  <2>3. /\ calls' = [d \in Calls |-> calls'[d]] /\ \A d \in Calls : CallType(calls'[d])
        /\ \A d \in Calls : d # c => calls'[d] = calls[d]
    BY <2>2, CallsMove DEF DatabaseInv
  <2>4. holder = c /\ \A d \in Calls : d # None
    BY <1>1, ImportingCall, IPTVAssumption DEF Calls
  <2>5. \A d \in Calls : calls'[d].pc \notin Importing
    BY <2>2, <2>3, <2>4 DEF DatabaseInv, Typed
  <2>6. Typed'
    BY <1>1, <1>3, <2>5, <2>4, <2>3, <2>1 DEF DatabaseInv, Typed
  <2>. QED  BY <2>5, <2>6 DEF DatabaseInv, Isolated
<1>. QED  BY <1>2, <1>3 DEF Commit

LEMMA StatementDatabase ==
  ASSUME DatabaseInv, Statement, UNCHANGED <<sources, catalog, guide, secrets, holder, calls, faults, torn>>,
         progress' \subseteq DOMAIN catalog
  PROVE  DatabaseInv'
<1>1. Tables'
  BY DEF DatabaseInv, Typed, Tables
<1>2. ops' \in 0..MaxOps
  BY IPTVAssumption DEF Statement, DatabaseInv, Typed
<1>3. Typed'
  BY <1>1, <1>2 DEF DatabaseInv, Typed
<1>4. \A d \in Calls : calls'[d].pc \notin Importing
  BY IPTVAssumption DEF Statement, Free, DatabaseInv, Typed, Calls
<1>. QED  BY <1>3, <1>4 DEF DatabaseInv, Isolated

LEMMA RestartDatabase ==
  ASSUME DatabaseInv, Restart
  PROVE  DatabaseInv'
<1>1. calls' = [c \in Calls |-> Idle] /\ holder' = None /\ UNCHANGED <<db, secrets, ops>>
  BY DEF Restart
<1>2. \A c \in Calls : calls'[c] = Idle /\ CallType(calls'[c]) /\ calls'[c].pc \notin Importing
  BY <1>1, IdleCall DEF Importing
<1>3. Tables'
  BY <1>1 DEF db, DatabaseInv, Typed, Tables
<1>4. faults' \in 0..MaxFaults
  BY FaultType DEF Restart
<1>5. torn' \subseteq Sources
  BY DEF Restart, DatabaseInv, Typed, CallType
<1>6. \A c \in Calls : c # None
  BY IPTVAssumption DEF Calls
<1>7. Typed'
  BY <1>1, <1>2, <1>3, <1>4, <1>5, <1>6 DEF DatabaseInv, Typed
<1>. QED  BY <1>2, <1>7 DEF DatabaseInv, Isolated

LEMMA InitDatabase ==
  ASSUME Init
  PROVE  DatabaseInv
<1>1. PICK s \in Sources, lines \in Served, withGuide \in BOOLEAN, ref \in BOOLEAN :
        /\ sources = With(<<>>, s, [config |-> [edit |-> 0, guide |-> withGuide, ref |-> ref], error |-> FALSE, synced |-> TRUE])
        /\ catalog = Inserted(<<>>, Parse(lines, s, Options).out)
        /\ guide = [t \in Sources |-> Guide]
        /\ saved = {} /\ progress = {}
        /\ secrets = [t \in Sources |-> t = s /\ ref]
        /\ holder = None /\ calls = [c \in Calls |-> Idle] /\ ops = 0 /\ faults = 0 /\ torn = {}
  BY ZenonT(60) DEF Init
<1>. DEFINE row == [config |-> [edit |-> 0, guide |-> withGuide, ref |-> ref], error |-> FALSE, synced |-> TRUE]
            items == Parse(lines, s, Options).out
<1>2. row \in Row
  BY IPTVAssumption DEF Row, Config
<1>. HIDE DEF row
<1>3. IsTable(sources) /\ DOMAIN sources = {s}
  <2>1. sources = [k \in {s} |-> row]
    BY <1>1 DEF With, row
  <2>. QED  BY <1>2, <2>1 DEF IsTable
<1>4. items \in Seq(ItemsOf(s))
  BY IPTVAssumption, ParseType
<1>. HIDE DEF items
<1>5. DOMAIN catalog = IdsOf(items) /\ catalog = [i \in DOMAIN catalog |-> catalog[i]]
  <2>1. catalog = [i \in DOMAIN <<>> \cup IdsOf(items) |->
                     IF i \in IdsOf(items) THEN Bare(items[LastWith(items, i)]) ELSE <<>>[i]]
    BY <1>1, InsertedRows DEF items
  <2>2. DOMAIN <<>> = {}
    OBVIOUS
  <2>. QED  BY <2>1, <2>2
<1>6. \A i \in IdsOf(items) : catalog[i] \in Items /\ Owned(catalog[i]) /\ catalog[i].id = i /\ catalog[i].source = s
  BY <1>1, <1>4, InsertedItem DEF items
<1>7. Tables
  BY <1>1, <1>3, <1>5, <1>6 DEF Tables, IsCatalog
<1>8. \A c \in Calls : calls[c] = Idle /\ CallType(calls[c]) /\ calls[c].pc \notin Importing /\ c # None
  BY <1>1, IdleCall, IPTVAssumption DEF Importing, Calls
<1>9. calls = [c \in Calls |-> calls[c]] /\ secrets \in [Sources -> BOOLEAN]
  BY <1>1
<1>10. Typed
  BY <1>1, <1>7, <1>8, <1>9, IPTVAssumption DEF Typed
<1>. QED  BY <1>8, <1>10 DEF DatabaseInv, Isolated

LEMMA NextDatabase ==
  ASSUME DatabaseInv, [Next]_vars
  PROVE  DatabaseInv'
<1>1. ASSUME NEW c \in Calls, User(c) PROVE DatabaseInv'
  BY <1>1, UserDatabase
<1>2. ASSUME NEW c \in Calls, Step(c) PROVE DatabaseInv'
  BY <1>2, ReadRowDatabase, PeekDatabase, WriteSecretDatabase, SaveRowDatabase, DeleteRowDatabase, UndoDatabase,
     BeginDatabase, FetchDatabase, ConsumeDatabase, EndOfPlaylistDatabase, CommitDatabase, NoteErrorDatabase,
     SyncGuideDatabase DEF Step
<1>3. ASSUME NEW i, NEW flag, SetIPTVItemSaved(i, flag) PROVE DatabaseInv'
  BY <1>3, StatementDatabase DEF SetIPTVItemSaved, DatabaseInv, Typed, Tables
<1>4. ASSUME NEW i \in DOMAIN catalog, NEW flag, SetIPTVProgress(i, flag) PROVE DatabaseInv'
  <2>1. progress' \subseteq DOMAIN catalog
    BY <1>4 DEF SetIPTVProgress, DatabaseInv, Typed, Tables
  <2>. QED  BY <1>4, <2>1, StatementDatabase DEF SetIPTVProgress
<1>5. CASE Restart
  BY <1>5, RestartDatabase
<1>6. CASE UNCHANGED vars
  BY <1>6 DEF vars, DatabaseInv, Typed, Tables, Isolated, WorkOn, Imports
<1>. QED  BY <1>1, <1>2, <1>3, <1>4, <1>5, <1>6 DEF Next

\* The rows of the database refer to one another as its schema says: every item
\* and every guide is of a source that exists, progress is of an item of the
\* catalogue, and the connection is held by the one call that imports
\* (storage/iptv.go), after any failure and at any batch of an import.
THEOREM SourcesTyped == Spec => []TypeOK
<1>1. Init => DatabaseInv
  BY InitDatabase
<1>2. DatabaseInv /\ [Next]_vars => DatabaseInv'
  BY NextDatabase
<1>3. DatabaseInv => TypeOK
  BY DEF DatabaseInv, Typed, Tables, IsTable, IsCatalog, TypeOK, Importing
<1>. QED  BY <1>1, <1>2, <1>3, PTL DEF Spec

--------------------------------------------------------------------------------
(* What a source shows. *)

WholeStep ==
  \A s \in Sources :
    /\ Rows(catalog', s) # Rows(catalog, s) => s \notin DOMAIN sources' \/ Whole(s, Rows(catalog', s))
    /\ guide'[s] # guide[s] =>
         s \notin DOMAIN sources' \/ \E elements \in Guides : guide'[s] = ParseXMLTV(elements) /\ Storable(guide'[s])

LEMMA NothingShown ==
  ASSUME UNCHANGED <<catalog, guide>>
  PROVE  WholeStep
BY DEF WholeStep

LEMMA DeleteRowWhole ==
  ASSUME DatabaseInv, NEW c \in Calls, DeleteRow(c)
  PROVE  WholeStep
<1>. DEFINE s == calls[c].source
<1>1. CASE UNCHANGED <<catalog, guide>>
  BY <1>1, NothingShown
<1>2. CASE /\ sources' = Without(sources, {s}) /\ catalog' = Without(catalog, Of(catalog, s))
           /\ guide' = [guide EXCEPT ![s] = Guide]
  <2>1. s \notin DOMAIN sources'
    BY <1>2 DEF Without
  <2>2. ASSUME NEW t \in Sources, t # s PROVE Rows(catalog', t) = Rows(catalog, t) /\ guide'[t] = guide[t]
    <3>1. guide'[t] = guide[t]
      BY <1>2, <2>2 DEF DatabaseInv, Typed, Tables
    <3>2. Of(catalog', t) = Of(catalog, t) /\ \A i \in Of(catalog, t) : catalog'[i] = catalog[i]
      BY <1>2, <2>2 DEF Without, Of
    <3>3. Rows(catalog', t) = Rows(catalog, t)
      BY <3>2 DEF Rows
    <3>. QED  BY <3>1, <3>3
  <2>. HIDE DEF s
  <2>. QED  BY <2>1, <2>2 DEF WholeStep
<1>. QED  BY <1>1, <1>2 DEF DeleteRow

LEMMA CommitWhole ==
  ASSUME DatabaseInv, NEW c \in Calls, Commit(c)
  PROVE  WholeStep
<1>. DEFINE s == calls[c].source
<1>0. UNCHANGED guide /\ At(c, "sync", "commit")
  BY DEF Commit
<1>1. CASE UNCHANGED catalog
  BY <1>0, <1>1, NothingShown
<1>2. CASE sources' = calls[c].work.sources /\ catalog' = calls[c].work.catalog /\ progress' = calls[c].work.progress
  <2>1. PICK full \in Served :
          ~Parse(full, s, Options).error /\ catalog' = Imported(catalog, s, Parse(full, s, Options).out)
    BY <1>0, <1>2, CommitTables
  <2>2. s \in Sources /\ IsCatalog(catalog)
    BY <1>0, ImportingCall DEF At, Importing
  <2>. DEFINE items == Parse(full, s, Options).out
  <2>3. items \in Seq(ItemsOf(s))
    BY <2>2, IPTVAssumption, ParseType
  <2>. HIDE DEF items
  <2>. DEFINE new == Imported(catalog, s, items)
  <2>4. new = Imported(catalog, s, items) /\ catalog' = new
    BY <2>1 DEF items
  <2>. HIDE DEF new
  <2>5. Rows(new, s) = Rows(Inserted(<<>>, items), s)
    BY <2>2, <2>3, <2>4, ImportedCatalog
  <2>6. Whole(s, Rows(catalog', s))
    BY <2>1, <2>4, <2>5 DEF Whole, items
  <2>7. ASSUME NEW t, t # s PROVE Rows(catalog', t) = Rows(catalog, t)
    BY <2>7, <2>4, <2>3, <2>2, ImportedElsewhere
  <2>. HIDE DEF s
  <2>. QED  BY <1>0, <2>6, <2>7 DEF WholeStep
<1>. QED  BY <1>1, <1>2 DEF Commit

LEMMA SyncGuideWhole ==
  ASSUME DatabaseInv, NEW c \in Calls, SyncGuide(c)
  PROVE  WholeStep
<1>. DEFINE s == calls[c].source
<1>0. UNCHANGED catalog
  BY DEF SyncGuide
<1>1. CASE UNCHANGED guide
  BY <1>0, <1>1, NothingShown
<1>2. ASSUME NEW elements \in Guides, guide' = [guide EXCEPT ![s] = ParseXMLTV(elements)], Storable(ParseXMLTV(elements))
      PROVE  WholeStep
  <2>. DEFINE new == ParseXMLTV(elements)
  <2>. HIDE DEF new
  <2>1. \A t \in Sources : t # s => guide'[t] = guide[t]
    BY <1>2 DEF DatabaseInv, Typed, Tables
  <2>2. s \in Sources => guide'[s] = new
    BY <1>2 DEF DatabaseInv, Typed, Tables, new
  <2>. HIDE DEF s
  <2>3. \A t \in Sources : guide'[t] # guide[t] => \E e \in Guides : guide'[t] = ParseXMLTV(e) /\ Storable(guide'[t])
    BY <1>2, <2>1, <2>2 DEF new
  <2>. QED  BY <1>0, <2>3 DEF WholeStep
<1>. QED  BY <1>1, <1>2 DEF SyncGuide

LEMMA NextWhole ==
  ASSUME DatabaseInv, [Next]_vars
  PROVE  WholeStep
<1>1. ASSUME NEW c \in Calls, User(c) PROVE UNCHANGED <<catalog, guide>>
  BY <1>1 DEF User, SaveIPTVSource, DeleteIPTVSource, SyncIPTVSource, Start, db
<1>2. ASSUME NEW c \in Calls, Step(c) PROVE WholeStep
  <2>1. CASE DeleteRow(c) \/ Commit(c) \/ SyncGuide(c)
    BY <2>1, DeleteRowWhole, CommitWhole, SyncGuideWhole
  <2>2. CASE ReadRow(c) \/ Peek(c) \/ WriteSecret(c) \/ SaveRow(c) \/ Undo(c)
    BY <2>2, NothingShown DEF ReadRow, Peek, WriteSecret, SaveRow, Undo, db
  <2>3. CASE Begin(c) \/ Fetch(c) \/ Consume(c) \/ EndOfPlaylist(c) \/ NoteError(c)
    BY <2>3, NothingShown DEF Begin, Fetch, Consume, EndOfPlaylist, NoteError, db
  <2>. QED  BY <1>2, <2>1, <2>2, <2>3 DEF Step
<1>3. ASSUME NEW i, NEW flag, SetIPTVItemSaved(i, flag) \/ SetIPTVProgress(i, flag) PROVE UNCHANGED <<catalog, guide>>
  BY <1>3 DEF SetIPTVItemSaved, SetIPTVProgress
<1>4. CASE Restart \/ UNCHANGED vars
  BY <1>4, NothingShown DEF Restart, db, vars
<1>. QED  BY <1>1, <1>2, <1>3, <1>4, NothingShown DEF Next

\* A synchronisation replaces the catalogue of its source with the whole of one
\* playlist, and its guide with the whole of one guide, or changes nothing
\* (storage/iptv.go ImportIPTVCatalog, ReplaceIPTVGuide): for any playlist and
\* any size of a batch, wherever the download, the parser or the commit fails,
\* and whatever other calls do meanwhile.
THEOREM SnapshotsWhole == Spec => SnapshotsAreWhole
<1>1. Init => DatabaseInv
  BY InitDatabase
<1>2. DatabaseInv /\ [Next]_vars => DatabaseInv'
  BY NextDatabase
<1>3. DatabaseInv /\ [Next]_vars => [WholeStep]_vars
  BY NextWhole
<1>4. Spec => [][WholeStep]_vars
  BY <1>1, <1>2, <1>3, PTL DEF Spec
<1>. QED  BY <1>4 DEF SnapshotsAreWhole, WholeStep

--------------------------------------------------------------------------------
(* The keyring. *)

LEMMA RefType ==
  ASSUME DatabaseInv, NEW s
  PROVE  Ref(s) \in BOOLEAN
BY DEF DatabaseInv, Typed, Tables, IsTable, Row, Config, Ref

\* Ref after the step.
NewRef(s) == s \in DOMAIN sources' /\ sources'[s].config.ref

LEMMA Known ==
  ASSUME Tracked, NEW c \in Calls, calls[c].source \in Sources \ torn
  PROVE  Knows(calls[c], secrets[calls[c].source], Ref(calls[c].source))
BY DEF Tracked

\* A call that has a source works on it, or ends.
LEMMA TrackedMoves ==
  ASSUME DatabaseInv, Tracked, NEW c \in Calls, NEW s \in Sources, calls[c].source = s,
         calls' = [calls EXCEPT ![c] = calls'[c]], torn \subseteq torn', calls'[c].source \in {s, None},
         \A t \in Sources : t # s => secrets'[t] = secrets[t] /\ NewRef(t) = Ref(t),
         s \notin torn' => IF calls'[c].source = s THEN Knows(calls'[c], secrets'[s], NewRef(s))
                           ELSE secrets'[s] = NewRef(s)
  PROVE  Tracked'
<1>1. \A d \in Calls : d # c => calls'[d] = calls[d]
  BY DEF DatabaseInv, Typed
<1>2. SUFFICES ASSUME NEW t \in Sources, t \notin torn'
               PROVE  /\ \A d, e \in Calls : calls'[d].source = t /\ calls'[e].source = t => d = e
                      /\ \A d \in Calls : calls'[d].source = t => Knows(calls'[d], secrets'[t], NewRef(t))
                      /\ (\A d \in Calls : calls'[d].source # t) => secrets'[t] = NewRef(t)
  BY DEF Tracked, Knows, Ref, NewRef
<1>3. /\ \A d, e \in Calls : calls[d].source = t /\ calls[e].source = t => d = e
      /\ \A d \in Calls : calls[d].source = t => Knows(calls[d], secrets[t], Ref(t))
      /\ (\A d \in Calls : calls[d].source # t) => secrets[t] = Ref(t)
  BY <1>2 DEF Tracked
<1>4. None \notin Sources
  BY IPTVAssumption
<1>5. \A d \in Calls : calls'[d].source = t => calls[d].source = t
  BY <1>1, <1>4
<1>6. CASE t = s
  <2>1. \A d \in Calls : calls'[d].source = t => d = c
    BY <1>3, <1>5, <1>6
  <2>. QED  BY <1>2, <1>3, <1>4, <1>5, <1>6, <2>1
<1>7. CASE t # s
  <2>1. secrets'[t] = secrets[t] /\ NewRef(t) = Ref(t)
    BY <1>7
  <2>2. \A d \in Calls : calls'[d].source = t => d # c /\ calls'[d] = calls[d]
    BY <1>1, <1>5, <1>7
  <2>3. (\A d \in Calls : calls'[d].source # t) => \A d \in Calls : calls[d].source # t
    BY <1>1, <1>7
  <2>. QED  BY <1>3, <1>5, <2>1, <2>2, <2>3
<1>. QED  BY <1>6, <1>7

LEMMA TrackedStays ==
  ASSUME Tracked, UNCHANGED <<sources, secrets, calls, torn>>
  PROVE  Tracked'
BY DEF Tracked, Ref

LEMMA StartTracked ==
  ASSUME DatabaseInv, Tracked, NEW c \in Calls, NEW op \in {"save", "delete", "sync"}, NEW s \in Sources,
         NEW creds, NEW config, Start(c, op, s, creds, config)
  PROVE  Tracked'
<1>. DEFINE new == [Idle EXCEPT !.pc = "read", !.op = op, !.source = s, !.creds = creds, !.config = config]
<1>1. new.pc = "read" /\ new.source = s /\ ~new.prev
  BY DEF Idle
<1>2. calls' = [calls EXCEPT ![c] = new]
  BY DEF Start
<1>. HIDE DEF new
<1>3. calls'[c] = new /\ \A d \in Calls : d # c => calls'[d] = calls[d]
  BY <1>2 DEF DatabaseInv, Typed
<1>4. calls[c].source = None /\ None \notin Sources
  BY IPTVAssumption DEF Start, Vacant, DatabaseInv, Typed, CallType
<1>5. UNCHANGED <<sources, secrets>> /\ torn' = IF \E d \in Calls : calls[d].source = s THEN torn \cup {s} ELSE torn
  BY DEF Start, db
<1>6. SUFFICES ASSUME NEW t \in Sources, t \notin torn'
               PROVE  /\ \A d, e \in Calls : calls'[d].source = t /\ calls'[e].source = t => d = e
                      /\ \A d \in Calls : calls'[d].source = t => Knows(calls'[d], secrets[t], Ref(t))
                      /\ (\A d \in Calls : calls'[d].source # t) => secrets[t] = Ref(t)
  BY <1>5 DEF Tracked, Ref
<1>7. /\ \A d, e \in Calls : calls[d].source = t /\ calls[e].source = t => d = e
      /\ \A d \in Calls : calls[d].source = t => Knows(calls[d], secrets[t], Ref(t))
      /\ (\A d \in Calls : calls[d].source # t) => secrets[t] = Ref(t)
  BY <1>5, <1>6 DEF Tracked
<1>8. CASE t = s
  <2>1. \A d \in Calls : calls[d].source # s
    BY <1>5, <1>6, <1>8
  <2>2. \A d \in Calls : calls'[d].source = s => d = c
    BY <1>3, <2>1
  <2>3. Knows(new, secrets[s], Ref(s))
    BY <1>1, <1>7, <1>8, <2>1 DEF Knows
  <2>. QED  BY <1>1, <1>3, <1>8, <2>2, <2>3
<1>9. CASE t # s
  <2>1. \A d \in Calls : calls'[d].source = t => d # c /\ calls'[d] = calls[d]
    BY <1>1, <1>3, <1>9
  <2>2. (\A d \in Calls : calls'[d].source # t) => \A d \in Calls : calls[d].source # t
    BY <1>3, <1>4
  <2>. QED  BY <1>7, <2>1, <2>2
<1>. QED  BY <1>8, <1>9

LEMMA ReadRowTracked ==
  ASSUME DatabaseInv, Tracked, NEW c \in Calls, ReadRow(c)
  PROVE  Tracked'
<1>. DEFINE call == calls[c]
            s == call.source
            new == calls'[c]
<1>1. calls' = [calls EXCEPT ![c] = new] /\ s \in Sources /\ CallType(call) /\ call.pc = "read" /\ Ref(s) \in BOOLEAN
  BY ReadRowCall, RefType DEF ReadRow, DatabaseInv, Typed
<1>2. UNCHANGED <<sources, secrets, torn>>
  BY DEF ReadRow, db
<1>3. /\ call.op = "delete" => call.creds = "clear"
      /\ call.creds \in {"new", "clear", "keep"}
  BY <1>1 DEF CallType
<1>4. \/ new.source = None
      \/ new.source = s /\ (s \notin torn => Knows(new, secrets[s], Ref(s)))
  <2>1. CASE new = Idle
    BY <2>1, IdleCall
  <2>2. CASE new # Idle
    <3>1. s \notin torn => secrets[s] = Ref(s) /\ ~call.prev
      BY <1>1, Known DEF Knows
    <3>2. /\ new.source = s /\ new.op = call.op /\ new.creds = call.creds /\ new.prev = call.prev
          /\ \/ call.op = "sync" /\ new.pc = "begin" /\ new.config = sources[s].config /\ s \in DOMAIN sources
             \/ /\ call.op = "save"
                /\ new.pc = IF call.creds = "new" \/ (call.creds = "clear" /\ Ref(s)) THEN "peek" ELSE "row"
                /\ new.config.ref = IF call.creds = "keep" THEN Ref(s) ELSE call.creds = "new"
             \/ call.op = "delete" /\ new.pc = IF Ref(s) THEN "peek" ELSE "row"
      BY <2>2, ReadRowCall
    <3>3. new.config = sources[s].config /\ s \in DOMAIN sources => new.config.ref = Ref(s)
      BY <1>1 DEF Ref, DatabaseInv, Typed, Tables, IsTable, Row, Config
    <3>. HIDE DEF new, call, s
    <3>4. CASE call.op = "sync"
      BY <3>1, <3>2, <3>3, <3>4 DEF Knows
    <3>5. CASE call.op = "save"
      BY <1>1, <1>3, <3>1, <3>2, <3>5 DEF Knows
    <3>6. CASE call.op = "delete"
      BY <1>1, <1>3, <3>1, <3>2, <3>6 DEF Knows
    <3>. QED  BY <3>2, <3>4, <3>5, <3>6
  <2>. QED  BY <2>1, <2>2
<1>5. s \notin torn => secrets[s] = Ref(s)
  BY <1>1, Known DEF Knows
<1>6. \A t : NewRef(t) = Ref(t)
  BY <1>2 DEF Ref, NewRef
<1>7. s # None
  BY <1>1, IPTVAssumption
<1>. QED  BY <1>1, <1>2, <1>4, <1>5, <1>6, <1>7, TrackedMoves

LEMMA PeekTracked ==
  ASSUME DatabaseInv, Tracked, NEW c \in Calls, Peek(c)
  PROVE  Tracked'
<1>. DEFINE call == calls[c]
            s == call.source
            new == [call EXCEPT !.pc = "secret", !.prev = secrets[s]]
<1>1. CallType(call) /\ call.pc = "peek" /\ s \in Sources /\ call.op \in {"save", "delete"}
  BY DEF DatabaseInv, Typed, CallType, Peek
<1>2. calls' = [calls EXCEPT ![c] = new] /\ calls'[c] = new
  BY DEF Peek, DatabaseInv, Typed
<1>3. UNCHANGED <<sources, secrets, torn>>
  BY DEF Peek, db
<1>4. /\ new.pc = "secret" /\ new.op = call.op /\ new.source = s /\ new.creds = call.creds
      /\ new.prev = secrets[s] /\ new.config = call.config
  BY <1>1 DEF CallType, Fields
<1>. HIDE DEF new
<1>5. s \notin torn => Knows(new, secrets[s], Ref(s))
  <2>1. s \notin torn => Knows(call, secrets[s], Ref(s))
    BY <1>1, Known
  <2>. HIDE DEF call, s
  <2>. QED  BY <1>1, <1>4, <2>1 DEF Knows
<1>6. \A t : NewRef(t) = Ref(t)
  BY <1>3 DEF Ref, NewRef
<1>. QED  BY <1>1, <1>2, <1>3, <1>4, <1>5, <1>6, TrackedMoves

LEMMA WriteSecretTracked ==
  ASSUME DatabaseInv, Tracked, NEW c \in Calls, WriteSecret(c)
  PROVE  Tracked'
<1>. DEFINE call == calls[c]
            s == call.source
            new == calls'[c]
<1>1. CallType(call) /\ call.pc = "secret" /\ s \in Sources /\ call.op \in {"save", "delete"} /\ s # None
  BY IPTVAssumption DEF DatabaseInv, Typed, CallType, WriteSecret
<1>2. UNCHANGED <<sources, torn>>
  BY DEF WriteSecret, db
<1>3. \A t : NewRef(t) = Ref(t)
  BY <1>2 DEF Ref, NewRef
<1>4. s \notin torn => Knows(call, secrets[s], Ref(s))
  BY <1>1, Known
<1>5. CASE secrets' = [secrets EXCEPT ![s] = call.creds = "new"] /\ Goto(c, "row")
  <2>1. /\ secrets'[s] = (call.creds = "new")
        /\ \A t \in Sources : t # s => secrets'[t] = secrets[t]
    BY <1>1, <1>5 DEF DatabaseInv, Typed
  <2>2. /\ calls' = [calls EXCEPT ![c] = new] /\ new.pc = "row" /\ new.op = call.op /\ new.source = s
        /\ new.creds = call.creds /\ new.config = call.config /\ new.prev = call.prev
    BY <1>1, <1>5, GotoCall
  <2>3. s \notin torn => Knows(new, secrets'[s], Ref(s))
    <3>1. call.creds \in {"new", "clear", "keep"} /\ (call.op = "delete" => call.creds = "clear") /\ call.prev \in BOOLEAN
      BY <1>1 DEF CallType
    <3>. HIDE DEF call, s, new
    <3>. QED  BY <1>1, <1>4, <2>1, <2>2, <3>1 DEF Knows
  <2>. QED  BY <1>1, <1>2, <1>3, <2>1, <2>2, <2>3, TrackedMoves
<1>6. CASE UNCHANGED secrets /\ Finish(c)
  <2>1. calls' = [calls EXCEPT ![c] = new] /\ new.source = None
    BY <1>6, FinishCall, IdleCall
  <2>2. s \notin torn => secrets[s] = Ref(s)
    BY <1>1, <1>4 DEF Knows
  <2>. QED  BY <1>1, <1>2, <1>3, <1>6, <2>1, <2>2, TrackedMoves
<1>. QED  BY <1>5, <1>6 DEF WriteSecret

\* The statement of the row failed and nothing of the database changed.
LEMMA RowFailsTracked ==
  ASSUME DatabaseInv, Tracked, NEW c \in Calls, calls[c].pc = "row", RowFails(c), UNCHANGED <<sources, secrets, torn>>
  PROVE  Tracked'
<1>. DEFINE call == calls[c]
            s == call.source
            new == calls'[c]
            undoes == call.creds = "new" \/ (call.creds = "clear" /\ call.prev)
<1>1. CallType(call) /\ s \in Sources /\ call.op \in {"save", "delete"} /\ s # None
  BY IPTVAssumption DEF DatabaseInv, Typed, CallType
<1>2. \A t : NewRef(t) = Ref(t)
  BY DEF Ref, NewRef
<1>3. s \notin torn => IF undoes THEN call.prev = Ref(s) ELSE secrets[s] = Ref(s)
  BY <1>1, Known DEF Knows
<1>4. CASE undoes /\ Goto(c, "undo")
  <2>1. /\ calls' = [calls EXCEPT ![c] = new] /\ new.pc = "undo" /\ new.op = call.op /\ new.source = s
        /\ new.prev = call.prev
    BY <1>1, <1>4, GotoCall
  <2>2. s \notin torn => Knows(new, secrets[s], Ref(s))
    <3>1. s \notin torn => call.prev = Ref(s)
      BY <1>3, <1>4
    <3>. HIDE DEF call, s, new
    <3>. QED  BY <2>1, <3>1 DEF Knows
  <2>. QED  BY <1>1, <1>2, <2>1, <2>2, TrackedMoves
<1>5. CASE ~undoes /\ Finish(c)
  <2>1. calls' = [calls EXCEPT ![c] = new] /\ new.source = None
    BY <1>5, FinishCall, IdleCall
  <2>. QED  BY <1>1, <1>2, <1>3, <1>5, <2>1, TrackedMoves
<1>. QED  BY <1>4, <1>5 DEF RowFails

LEMMA SaveRowTracked ==
  ASSUME DatabaseInv, Tracked, NEW c \in Calls, SaveRow(c)
  PROVE  Tracked'
<1>. DEFINE call == calls[c]
            s == call.source
            old == IF s \in DOMAIN sources THEN sources[s] ELSE [config |-> None, error |-> FALSE, synced |-> FALSE]
            row == [old EXCEPT !.config = call.config]
<1>1. CallType(call) /\ call.pc = "row" /\ call.op = "save" /\ s \in Sources /\ s # None
  BY IPTVAssumption DEF DatabaseInv, Typed, CallType, SaveRow, At
<1>2. UNCHANGED <<secrets, torn>>
  BY DEF SaveRow
<1>3. CASE sources' = With(sources, s, row) /\ Finish(c)
  <2>1. row.config = call.config
    BY DEF DatabaseInv, Typed, Tables, IsTable, Row
  <2>. HIDE DEF row
  <2>2. NewRef(s) = call.config.ref
    <3>1. s \in DOMAIN sources' /\ sources'[s] = row
      BY <1>3 DEF With
    <3>2. call.config.ref \in BOOLEAN
      BY <1>1 DEF CallType, Config
    <3>. QED  BY <2>1, <3>1, <3>2 DEF NewRef
  <2>3. \A t : t # s => NewRef(t) = Ref(t)
    BY <1>3 DEF NewRef, Ref, With
  <2>4. calls' = [calls EXCEPT ![c] = calls'[c]] /\ calls'[c].source = None
    BY <1>3, FinishCall, IdleCall
  <2>5. s \notin torn => secrets[s] = call.config.ref
    BY <1>1, Known DEF Knows
  <2>. QED  BY <1>1, <1>2, <2>5, <2>4, <2>3, <2>2, TrackedMoves
<1>4. CASE UNCHANGED sources /\ RowFails(c)
  BY <1>1, <1>2, <1>4, RowFailsTracked
<1>. QED  BY <1>3, <1>4 DEF SaveRow

LEMMA DeleteRowTracked ==
  ASSUME DatabaseInv, Tracked, NEW c \in Calls, DeleteRow(c)
  PROVE  Tracked'
<1>. DEFINE call == calls[c]
            s == call.source
<1>1. CallType(call) /\ call.pc = "row" /\ call.op = "delete" /\ s \in Sources /\ s # None
  BY IPTVAssumption DEF DatabaseInv, Typed, CallType, DeleteRow, At
<1>2. UNCHANGED <<secrets, torn>>
  BY DEF DeleteRow
<1>3. CASE sources' = Without(sources, {s}) /\ Finish(c)
  <2>1. NewRef(s) = FALSE /\ \A t : t # s => NewRef(t) = Ref(t)
    BY <1>3 DEF NewRef, Ref, Without
  <2>2. calls' = [calls EXCEPT ![c] = calls'[c]] /\ calls'[c].source = None
    BY <1>3, FinishCall, IdleCall
  <2>3. s \notin torn => secrets[s] = FALSE
    <3>1. s \notin torn => ~secrets[s]
      BY <1>1, Known DEF Knows
    <3>2. secrets[s] \in BOOLEAN
      BY <1>1 DEF DatabaseInv, Typed
    <3>. QED  BY <3>1, <3>2
  <2>. QED  BY <1>1, <1>2, <2>1, <2>2, <2>3, TrackedMoves, ZenonT(60)
<1>4. CASE UNCHANGED sources /\ RowFails(c)
  BY <1>1, <1>2, <1>4, RowFailsTracked
<1>. QED  BY <1>3, <1>4 DEF DeleteRow

LEMMA UndoTracked ==
  ASSUME DatabaseInv, Tracked, NEW c \in Calls, Undo(c)
  PROVE  Tracked'
<1>. DEFINE call == calls[c]
            s == call.source
<1>1. CallType(call) /\ call.pc = "undo" /\ s \in Sources /\ s # None
  BY IPTVAssumption DEF DatabaseInv, Typed, CallType, Undo
<1>2. calls' = [calls EXCEPT ![c] = calls'[c]] /\ calls'[c].source = None
  BY FinishCall, IdleCall DEF Undo
<1>3. \A t : NewRef(t) = Ref(t)
  BY DEF Undo, db, NewRef, Ref
<1>4. s \notin torn => call.prev = Ref(s)
  BY <1>1, Known DEF Knows
<1>5. CASE secrets' = [secrets EXCEPT ![s] = call.prev] /\ UNCHANGED torn
  <2>1. secrets'[s] = call.prev /\ \A t \in Sources : t # s => secrets'[t] = secrets[t]
    BY <1>1, <1>5 DEF DatabaseInv, Typed
  <2>. QED  BY <1>1, <1>2, <1>3, <1>4, <1>5, <2>1, TrackedMoves
<1>6. CASE torn' = torn \cup {s} /\ UNCHANGED secrets
  BY <1>1, <1>2, <1>3, <1>6, TrackedMoves
<1>. QED  BY <1>5, <1>6 DEF Undo

\* The steps of an import, until it ends or fails: the call keeps its
\* configuration.
LEMMA ImportTracked ==
  ASSUME DatabaseInv, Tracked, NEW c \in Calls, Begin(c) \/ Fetch(c) \/ Consume(c) \/ EndOfPlaylist(c)
  PROVE  Tracked'
<1>. DEFINE call == calls[c]
            s == call.source
            new == calls'[c]
<1>1. CallType(call) /\ call.pc \in {"begin", "fetch", "parse"} /\ call.op = "sync" /\ s \in Sources /\ s # None
  BY IPTVAssumption DEF DatabaseInv, Typed, CallType, Begin, Fetch, Consume, EndOfPlaylist, At
<1>2. UNCHANGED <<sources, secrets, torn>>
  BY DEF Begin, Fetch, Consume, EndOfPlaylist, db
<1>3. /\ calls' = [calls EXCEPT ![c] = new] /\ new.op = "sync" /\ new.source = s
      /\ \/ new.pc = "status"
         \/ new.pc \in {"fetch", "parse", "commit"} /\ new.config = call.config
  <2>1. CASE Abort(c)
    <3>1. call.pc # "idle"
      BY <1>1
    <3>. QED  BY <1>1, <2>1, <3>1, GotoCall DEF Abort
  <2>2. ASSUME NEW next, calls' = [calls EXCEPT ![c] = next] PROVE new = next /\ calls' = [calls EXCEPT ![c] = new]
    BY <2>2 DEF DatabaseInv, Typed
  <2>3. CASE Begin(c)
    <3>1. PICK work : calls' = [calls EXCEPT ![c] = [call EXCEPT !.pc = "fetch", !.parser = Parser, !.work = work]]
      BY <2>3 DEF Begin
    <3>. DEFINE next == [call EXCEPT !.pc = "fetch", !.parser = Parser, !.work = work]
    <3>2. next.pc = "fetch" /\ next.op = call.op /\ next.source = s /\ next.config = call.config
      BY <1>1 DEF CallType, Fields
    <3>. HIDE DEF next
    <3>3. new = next /\ calls' = [calls EXCEPT ![c] = new]
      BY <2>2, <3>1 DEF next
    <3>. QED  BY <1>1, <3>2, <3>3
  <2>4. CASE Fetch(c) /\ ~Abort(c)
    <3>1. PICK lines : calls' = [calls EXCEPT ![c] = [call EXCEPT !.pc = "parse", !.lines = lines]]
      BY <2>4 DEF Fetch
    <3>. DEFINE next == [call EXCEPT !.pc = "parse", !.lines = lines]
    <3>2. next.pc = "parse" /\ next.op = call.op /\ next.source = s /\ next.config = call.config
      BY <1>1 DEF CallType, Fields
    <3>. HIDE DEF next
    <3>3. new = next /\ calls' = [calls EXCEPT ![c] = new]
      BY <2>2, <3>1 DEF next
    <3>. QED  BY <1>1, <3>2, <3>3
  <2>5. CASE Consume(c) /\ ~Abort(c)
    <3>. DEFINE parser == Parsed(call.parser, Head(call.lines), s, Options)
                rest == [parser EXCEPT !.out = <<>>]
                more == Inserted(call.work.catalog, parser.out)
                next == [call EXCEPT !.lines = Tail(@), !.parser = rest, !.work.catalog = more]
    <3>1. calls' = [calls EXCEPT ![c] = next] /\ call.pc = "parse"
      BY <2>5 DEF Consume, At
    <3>. HIDE DEF parser, rest, more
    <3>2. next.pc = call.pc /\ next.op = call.op /\ next.source = s /\ next.config = call.config
      BY <1>1 DEF CallType, Fields
    <3>. HIDE DEF next
    <3>3. new = next /\ calls' = [calls EXCEPT ![c] = new]
      BY <2>2, <3>1
    <3>. QED  BY <1>1, <3>1, <3>2, <3>3
  <2>6. CASE EndOfPlaylist(c)
    <3>. DEFINE more == Inserted(call.work.catalog, Finished(call.parser).out)
                next == [call EXCEPT !.pc = "commit", !.parser = Parser, !.work.catalog = more]
    <3>1. calls' = [calls EXCEPT ![c] = next]
      BY <2>6 DEF EndOfPlaylist
    <3>. HIDE DEF more
    <3>2. next.pc = "commit" /\ next.op = call.op /\ next.source = s /\ next.config = call.config
      BY <1>1 DEF CallType, Fields
    <3>. HIDE DEF next
    <3>3. new = next /\ calls' = [calls EXCEPT ![c] = new]
      BY <2>2, <3>1
    <3>. QED  BY <1>1, <3>2, <3>3
  <2>. QED  BY <2>6, <2>5, <2>4, <2>3, <2>1
<1>4. s \notin torn => Knows(new, secrets[s], Ref(s))
  <2>1. s \notin torn => Knows(call, secrets[s], Ref(s))
    BY <1>1, Known
  <2>. HIDE DEF call, s, new
  <2>. QED  BY <1>1, <1>3, <2>1 DEF Knows
<1>5. \A t : NewRef(t) = Ref(t)
  BY <1>2 DEF NewRef, Ref
<1>. QED  BY <1>1, <1>2, <1>3, <1>4, <1>5, TrackedMoves

LEMMA CommitTracked ==
  ASSUME DatabaseInv, Tracked, NEW c \in Calls, Commit(c)
  PROVE  Tracked'
<1>. DEFINE call == calls[c]
            s == call.source
            new == calls'[c]
<1>0. At(c, "sync", "commit") /\ UNCHANGED <<secrets, torn, guide>>
  BY DEF Commit
<1>1. CallType(call) /\ call.pc = "commit" /\ call.op = "sync" /\ s \in Sources /\ s # None /\ call.config \in Config
      /\ call.pc \in Importing
  BY <1>0, ImportingCall, IPTVAssumption DEF At, Importing
<1>2. s \notin torn => secrets[s] = Ref(s) /\ call.config.ref = Ref(s)
  BY <1>1, Known DEF Knows
<1>3. CASE Abort(c) /\ UNCHANGED sources
  <2>1. calls' = [calls EXCEPT ![c] = new] /\ new.pc = "status" /\ new.op = "sync" /\ new.source = s
    BY <1>1, <1>3, AbortCall
  <2>2. s \notin torn => Knows(new, secrets[s], Ref(s))
    <3>. HIDE DEF new, s, call
    <3>. QED  BY <1>2, <2>1 DEF Knows
  <2>3. \A t : NewRef(t) = Ref(t)
    BY <1>3 DEF NewRef, Ref
  <2>. QED  BY <1>0, <1>1, <2>1, <2>2, <2>3, TrackedMoves
<1>4. CASE /\ sources' = call.work.sources /\ catalog' = call.work.catalog /\ progress' = call.work.progress
           /\ IF call.config.guide THEN calls' = [calls EXCEPT ![c].pc = "guide", ![c].work = Work] ELSE Finish(c)
  <2>1. /\ DOMAIN sources' = DOMAIN sources \cup {s} /\ sources'[s].config = call.config
        /\ \A t \in DOMAIN sources : t # s => sources'[t] = sources[t]
    BY <1>0, <1>4, CommitTables
  <2>2. NewRef(s) = call.config.ref
    <3>1. call.config.ref \in BOOLEAN
      BY <1>1 DEF Config
    <3>. QED  BY <2>1, <3>1 DEF NewRef
  <2>3. \A t : t # s => NewRef(t) = Ref(t)
    BY <2>1 DEF NewRef, Ref
  <2>4. /\ calls' = [calls EXCEPT ![c] = new]
        /\ new = Idle \/ (new.pc = "guide" /\ new.source = s /\ new.op = "sync")
    BY <1>0, <1>4, CommitCall
  <2>5. s \notin torn /\ new.pc = "guide" /\ new.op = "sync" => Knows(new, secrets[s], NewRef(s))
    <3>. HIDE DEF new, s, call
    <3>. QED  BY <1>2, <2>2 DEF Knows
  <2>6. new = Idle => new.source = None
    BY IdleCall
  <2>. QED  BY <1>0, <1>1, <1>2, <2>6, <2>5, <2>4, <2>3, <2>2, TrackedMoves
<1>. QED  BY <1>3, <1>4 DEF Commit

LEMMA EndTracked ==
  ASSUME DatabaseInv, Tracked, NEW c \in Calls, NoteError(c) \/ SyncGuide(c)
  PROVE  Tracked'
<1>. DEFINE call == calls[c]
            s == call.source
<1>1. CallType(call) /\ call.pc \in {"status", "guide"} /\ s \in Sources
  BY DEF DatabaseInv, Typed, CallType, NoteError, SyncGuide, At
<1>2. UNCHANGED <<secrets, torn>> /\ Finish(c)
  BY DEF NoteError, SyncGuide
<1>3. calls' = [calls EXCEPT ![c] = calls'[c]] /\ calls'[c].source = None
  BY <1>2, FinishCall, IdleCall
<1>4. s \notin torn => secrets[s] = Ref(s)
  BY <1>1, Known DEF Knows
<1>5. \A t : NewRef(t) = Ref(t)
  <2>1. CASE UNCHANGED sources
    BY <2>1 DEF NewRef, Ref
  <2>2. CASE s \in DOMAIN sources /\ sources' = [sources EXCEPT ![s].error = TRUE]
    <3>1. DOMAIN sources' = DOMAIN sources /\ \A t \in DOMAIN sources : sources'[t].config = sources[t].config
      BY <2>2 DEF DatabaseInv, Typed, Tables, IsTable, Row
    <3>. QED  BY <3>1 DEF NewRef, Ref
  <2>. QED  BY <2>1, <2>2 DEF NoteError, SyncGuide
<1>6. s # None
  BY <1>1, IPTVAssumption
<1>. QED  BY <1>1, <1>2, <1>3, <1>4, <1>5, <1>6, TrackedMoves

\* The program ends: every source a call worked on is torn.
LEMMA RestartTracked ==
  ASSUME DatabaseInv, Tracked, Restart
  PROVE  Tracked'
<1>1. UNCHANGED <<sources, secrets>> /\ torn' = torn \cup {calls[c].source : c \in {d \in Calls : calls[d].pc # "idle"}}
  BY DEF Restart, db
<1>2. \A c \in Calls : calls'[c] = Idle
  BY DEF Restart
<1>3. Idle.source = None /\ None \notin Sources
  BY IPTVAssumption, IdleCall
<1>4. SUFFICES ASSUME NEW s \in Sources, s \notin torn' PROVE secrets[s] = Ref(s)
  BY <1>1, <1>2, <1>3 DEF Tracked, Ref
<1>5. \A c \in Calls : calls[c].source # s
  <2>1. ASSUME NEW c \in Calls, calls[c].source = s PROVE calls[c].pc # "idle"
    BY <1>3, <2>1 DEF DatabaseInv, Typed, CallType
  <2>. QED  BY <1>1, <1>4, <2>1
<1>. QED  BY <1>1, <1>4, <1>5 DEF Tracked

LEMMA InitTracked ==
  ASSUME Init
  PROVE  Tracked
<1>1. PICK s \in Sources, withGuide \in BOOLEAN, ref \in BOOLEAN :
        /\ sources = With(<<>>, s, [config |-> [edit |-> 0, guide |-> withGuide, ref |-> ref], error |-> FALSE, synced |-> TRUE])
        /\ secrets = [t \in Sources |-> t = s /\ ref]
        /\ calls = [c \in Calls |-> Idle]
  BY DEF Init
<1>2. Idle.source = None /\ None \notin Sources
  BY IPTVAssumption, IdleCall
<1>3. DOMAIN <<>> = {}
  OBVIOUS
<1>4. ASSUME NEW t \in Sources PROVE secrets[t] = Ref(t)
  <2>1. DOMAIN sources = {s} /\ sources[s].config.ref = ref
    BY <1>1, <1>3 DEF With
  <2>. QED  BY <1>1, <2>1 DEF Ref
<1>. QED  BY <1>1, <1>2, <1>4 DEF Tracked

LEMMA NextTracked ==
  ASSUME DatabaseInv, Tracked, [Next]_vars
  PROVE  Tracked'
<1>1. CASE UNCHANGED vars
  BY <1>1, TrackedStays DEF vars
<1>2. ASSUME NEW c \in Calls, User(c) PROVE Tracked'
  <2>1. PICK s \in Sources :
          \/ \E creds \in {"new", "clear", "keep"}, withGuide \in BOOLEAN : SaveIPTVSource(c, s, creds, withGuide)
          \/ DeleteIPTVSource(c, s)
          \/ SyncIPTVSource(c, s)
    BY <1>2 DEF User
  <2>. QED  BY <2>1, StartTracked DEF SaveIPTVSource, DeleteIPTVSource, SyncIPTVSource
<1>3. ASSUME NEW c \in Calls, Step(c) PROVE Tracked'
  BY <1>3, ReadRowTracked, PeekTracked, WriteSecretTracked, SaveRowTracked, DeleteRowTracked, UndoTracked,
     ImportTracked, CommitTracked, EndTracked DEF Step
<1>4. ASSUME NEW i, NEW flag \in BOOLEAN, SetIPTVItemSaved(i, flag) \/ SetIPTVProgress(i, flag) PROVE Tracked'
  BY <1>4, TrackedStays DEF SetIPTVItemSaved, SetIPTVProgress
<1>5. CASE Restart
  BY <1>5, RestartTracked
<1>. QED  BY <1>1, <1>2, <1>3, <1>4, <1>5 DEF Next

\* The keyring holds credentials for exactly the sources whose row refers to
\* some (services.go SaveIPTVSource, DeleteIPTVSource): whichever step of a save
\* or a deletion fails, for any number of sources and calls, unless calls about
\* the source overlapped, were cut by the end of the program or failed to undo
\* what they wrote.
THEOREM SecretsFollow == Spec => []SecretsFollowSources
<1>1. Init => DatabaseInv /\ Tracked
  BY InitDatabase, InitTracked
<1>2. DatabaseInv /\ Tracked /\ [Next]_vars => DatabaseInv' /\ Tracked'
  BY NextDatabase, NextTracked
<1>3. DatabaseInv /\ Tracked => SecretsFollowSources
  BY DEF Tracked, SecretsFollowSources
<1>. QED  BY <1>1, <1>2, <1>3, PTL DEF Spec

================================================================================
