----------------------------------- MODULE M3U -----------------------------------
(***************************************************************************)
(* The IPTV text formats and what is computed from them: the line parser   *)
(* of iptv/m3u.go, the choice of a stream of iptv/resolver.go, the guide   *)
(* of iptv/xmltv.go, and the rows, pages and windows of storage/iptv.go.   *)
(*                                                                         *)
(* A line is what the parser makes of it: its kind and the attributes that *)
(* matter.  Everything here is an operator.                                *)
(***************************************************************************)
EXTENDS Selection, SequencesExt

CONSTANTS
  EpisodeTitles,  \* titles that match seasonEpisodePattern
  SeriesGroups, MovieGroups, TVGroups,  \* groups whose name tells their kind
  PlayableURLs,   \* addresses validateStreamURL accepts
  MaxWarnings,    \* maxParseWarnings
  Like            \* the queries that match a text, as pairs

\* An EXTINF line that parseEXTINF accepts, one it refuses, an EXTGRP line, an
\* address, and any other line.  "" is an attribute that is not there.
Lines == [kind : {"extinf", "bad", "extgrp", "url", "other"}, id : STRING, title : STRING, group : STRING,
          type : STRING, url : STRING]
Line(kind, id, title, group, type, url) ==
  [kind |-> kind, id |-> id, title |-> title, group |-> group, type |-> type, url |-> url]
Extinf(id, title, group, type) == Line("extinf", id, title, group, type, "")
BadExtinf == Line("bad", "", "", "", "", "")
Extgrp(group) == Line("extgrp", "", "", group, "", "")
Address(url) == Line("url", "", "", "", "", url)
Other == Line("other", "", "", "", "", "")

-----------------------------------------------------------------------------
(* What becomes of an entry. *)

Attributes == [tv |-> "tv", live |-> "tv", movie |-> "movie", film |-> "movie", series |-> "series", show |-> "series"]

\* The attribute decides before the title, the title before the group.
Classified(entry) ==
  CASE entry.type \in DOMAIN Attributes -> [kind |-> Attributes[entry.type], by |-> "attribute"]
    [] entry.type \notin DOMAIN Attributes /\ entry.title \in EpisodeTitles -> [kind |-> "series", by |-> "title"]
    [] OTHER -> LET hinted(kind) == [kind |-> kind, by |-> "group"]
                IN  IF entry.group \in SeriesGroups THEN hinted("series")
                    ELSE IF entry.group \in MovieGroups THEN hinted("movie")
                    ELSE IF entry.group \in TVGroups THEN hinted("tv")
                    ELSE [kind |-> "unknown", by |-> "unknown"]

\* The address is no part of the identity: providers rotate it.
Identity(entry) == IF entry.id # "" THEN <<entry.id>> ELSE <<entry.title, entry.group>>

Item(entry, url, source) ==
  LET class == Classified(entry)
  IN  [id |-> <<source, class.kind, Identity(entry)>>, source |-> source, kind |-> class.kind,
       by |-> class.by, title |-> entry.title, group |-> entry.group, url |-> url]

-----------------------------------------------------------------------------
(* ParseM3UStream, one line at a time. *)

\* pending: the entry that waits for its address, a sequence of length 0 or 1.
Parser == [pending |-> <<>>, group |-> "", batch |-> <<>>, total |-> 0, warnings |-> <<>>, out |-> <<>>, error |-> FALSE]

Warned(p, code) == IF Len(p.warnings) >= MaxWarnings THEN p ELSE [p EXCEPT !.warnings = Append(@, code)]

\* The handler gets the batch.
Flushed(p) == [p EXCEPT !.out = @ \o p.batch, !.batch = <<>>]

\* An address takes the entry that waits for one.
Taken(p, url, source, options) ==
  LET batch == Append(p.batch, Item(p.pending[1], url, source))
      next == [p EXCEPT !.batch = batch, !.total = @ + 1, !.pending = <<>>]
  IN  IF p.total >= options.items THEN [p EXCEPT !.error = TRUE]
      ELSE IF Len(batch) >= options.batch THEN Flushed(next) ELSE next

Replaced(p) == IF p.pending # <<>> THEN Warned(p, "missing-stream") ELSE p

Grouped(entry, group) == [entry EXCEPT !.group = IF @ = "" THEN group ELSE @]

Parsed(p, line, source, options) ==
  IF p.error THEN p
  ELSE CASE line.kind = "extinf" -> [Replaced(p) EXCEPT !.pending = <<Grouped(line, p.group)>>]
         [] line.kind = "bad" -> [Warned(Replaced(p), "invalid-extinf") EXCEPT !.pending = <<>>]
         [] line.kind = "extgrp" ->
              [p EXCEPT !.group = line.group, !.pending = [n \in DOMAIN @ |-> Grouped(@[n], line.group)]]
         [] line.kind = "url" /\ p.pending = <<>> -> Warned(p, "orphan-stream")
         [] line.kind = "url" /\ p.pending # <<>> -> Taken(p, line.url, source, options)
         [] line.kind = "other" -> p

\* The end of the file: an entry without an address, then the last batch.
Finished(p) == IF p.error THEN p ELSE Flushed(Replaced(p))

\* The parser before the first line and after each.
ParserStates(lines, source, options) ==
  LET state[n \in 0..Len(lines)] == IF n = 0 THEN Parser ELSE Parsed(state[n - 1], lines[n], source, options)
  IN  state

Parse(lines, source, options) == Finished(ParserStates(lines, source, options)[Len(lines)])

-----------------------------------------------------------------------------
(* The choice of a stream among the items of a fresh playlist. *)

NotFound == "not found"
Ambiguous == "ambiguous"
Invalid == "invalid"
Failures == {NotFound, Ambiguous, Invalid}

\* SameCatalogIdentity; the episode is read from the title.
SameIdentity(left, right) ==
  left.source = right.source /\ left.kind = right.kind /\ left.title = right.title /\ left.group = right.group

ChooseStream(items) ==
  LET playable == Where(items, LAMBDA i : i.url \in PlayableURLs)
  IN  IF playable = <<>> THEN Invalid ELSE Head(playable).url

\* Resolve: the items with the id, else the only one with the same identity.
Resolve(items, item) ==
  LET exact == Where(items, LAMBDA i : i.id = item.id)
      alike == Where(items, LAMBDA i : SameIdentity(i, item))
  IN  IF exact # <<>> THEN ChooseStream(exact)
      ELSE IF alike = <<>> THEN NotFound
      ELSE IF Len(alike) > 1 THEN Ambiguous ELSE ChooseStream(alike)

\* The first match with a playable address ends the search, so the collection
\* of matches behind it stays empty.
First(items, Match(_)) ==
  LET hits == Where(items, LAMBDA i : Match(i) /\ i.url \in PlayableURLs)
  IN  IF hits = <<>> THEN NotFound ELSE Head(hits).url

\* PlaybackService.Play asks for the id, AppServices.ResolveIPTVStream for the
\* identity.
ResolveById(items, item) == LET same(i) == i.id = item.id IN First(items, same)
ResolveFirst(items, item) == LET same(i) == SameIdentity(i, item) IN First(items, same)

-----------------------------------------------------------------------------
(* The catalogue of a source, as a function from ids to rows without address. *)

Of(cat, s) == {i \in DOMAIN cat : cat[i].source = s}
Without(f, keys) == [k \in DOMAIN f \ keys |-> f[k]]
With(f, key, row) == [k \in DOMAIN f \cup {key} |-> IF k = key THEN row ELSE f[k]]

\* A row that was there is updated: the last item of a batch with its id stays.
LastWith(batch, i) == CHOOSE n \in DOMAIN batch : batch[n].id = i /\ \A m \in DOMAIN batch : batch[m].id = i => m <= n
Inserted(cat, batch) ==
  LET ids == {batch[n].id : n \in DOMAIN batch}
  IN  [i \in DOMAIN cat \cup ids |-> IF i \in ids THEN [batch[LastWith(batch, i)] EXCEPT !.url = ""] ELSE cat[i]]

\* ImportIPTVCatalog: the items of the source go first.
Imported(cat, s, items) == Inserted(Without(cat, Of(cat, s)), items)

\* Mutant: the items that are no longer listed stay.
ReplacedOnly(cat, s, items) == Inserted(cat, items)

\* ReplaceIPTVCatalog: the items are inserted or updated, then those that are no
\* longer listed go.
ReplacedCatalog(cat, s, items) ==
  Without(Inserted(cat, items), Of(cat, s) \ {items[n].id : n \in DOMAIN items})

\* The filter of the lists: "" does not restrict.  Like: the pairs of a query
\* and a text that contains it.
Shown(item, filter) ==
  /\ filter.source \in {"", item.source} /\ filter.kind \in {"", item.kind} /\ filter.group \in {"", item.group}
  /\ filter.query = "" \/ \E text \in {item.title, item.group, item.source} : <<filter.query, text>> \in Like

\* listIPTVItems and ListIPTVItemsPaginated over rows in the order of the table's
\* index: the limit of the first is raised to 1 or lowered to the maximum.
PageSize(n) == IF n <= 0 THEN 50 ELSE IF n > 200 THEN 200 ELSE n
TotalPages(count, size) == IF count = 0 THEN 1 ELSE (count + size - 1) \div size

\* LIMIT size OFFSET (page - 1) * size.
Page(rows, page, size) ==
  LET offset == ((IF page <= 0 THEN 1 ELSE page) - 1) * size
  IN  SubSeq(rows, offset + 1, IF offset + size > Len(rows) THEN Len(rows) ELSE offset + size)

Groups(cat, kind) == {cat[i].group : i \in {j \in DOMAIN cat : kind \in {"", cat[j].kind}}} \ {""}

-----------------------------------------------------------------------------
(* The guide: the elements of an XMLTV file in their order. *)

Channel(id) == [kind |-> "channel", id |-> id]
Programme(channel, from, to) == [kind |-> "programme", channel |-> channel, start |-> from, end |-> to]
Guide == [channels |-> {}, programs |-> {}, error |-> FALSE]

ValidProgram(program) == program.channel # "" /\ program.end > program.start

\* A channel without id is skipped, a programme that is not valid ends it all.
Read(guide, element) ==
  IF guide.error THEN guide
  ELSE IF element.kind = "channel"
  THEN IF element.id = "" THEN guide ELSE [guide EXCEPT !.channels = @ \cup {element.id}]
  ELSE IF ValidProgram(element) THEN [guide EXCEPT !.programs = @ \cup {element}] ELSE [guide EXCEPT !.error = TRUE]

ParseXMLTV(elements) ==
  LET guide[n \in 0..Len(elements)] == IF n = 0 THEN Guide ELSE Read(guide[n - 1], elements[n])
  IN  guide[Len(elements)]

\* ReplaceIPTVGuide: a program is of a channel of the same guide.
Storable(guide) == ~guide.error /\ \A p \in guide.programs : ValidProgram(p) /\ p.channel \in guide.channels

\* CurrentIPTVPrograms and ListIPTVGuide.
OnAir(programs, at) == {p \in programs : p.start <= at /\ p.end > at}
InWindow(programs, from, to) == {p \in programs : p.start < to /\ p.end > from}
=============================================================================
