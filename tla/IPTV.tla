---------------------------------- MODULE IPTV ----------------------------------
(***************************************************************************)
(* IPTV sources: their rows, catalogues, guides and progress in the        *)
(* database, their credentials in the keyring, and the RPCs that save,     *)
(* delete and synchronise them (services.go, storage/iptv.go, iptv/).      *)
(*                                                                         *)
(* The database has one connection.  The import of a playlist holds it     *)
(* from the first statement to the commit, downloads and parses meanwhile, *)
(* and every other statement of the program waits; the keyring does not.   *)
(***************************************************************************)
EXTENDS M3U

CONSTANTS
  Sources,
  Served,    \* playlists a provider may answer with, as sequences of lines
  Guides,    \* guides a provider may answer with
  Options,   \* streamImportLimit and streamImportBatchSize
  MaxCalls,  \* bound on the RPCs under way at once
  MaxOps,    \* bound on the operations of the user
  MaxFaults, \* bound on statements, keyring writes and downloads that fail
  None

ASSUME IPTVAssumption ==
  /\ {MaxCalls, MaxOps, MaxFaults} \subseteq Nat
  /\ Served \subseteq Seq(Lines) \ {<<>>}
  /\ None \notin Sources \cup 1..MaxCalls
  /\ Options.items > 0 /\ Options.batch > 0

VARIABLES
  sources,   \* iptv_sources: source -> row
  catalog,   \* iptv_items: item id -> row
  guide,     \* iptv_guide_channels and iptv_guide_programs: source -> guide
  saved,     \* iptv_saved_items
  progress,  \* iptv_playback_progress, the items of it
  secrets,   \* keyring: source -> whether it holds credentials
  holder,    \* the call whose transaction has the connection
  calls, ops, faults,
  torn       \* sources whose calls overlapped, were cut or could not be undone

db == <<sources, catalog, guide, saved, progress>>
vars == <<sources, catalog, guide, saved, progress, secrets, holder, calls, ops, faults, torn>>

Calls == 1..MaxCalls
Config == [edit : 0..MaxOps, guide : BOOLEAN, ref : BOOLEAN]
Row == [config : Config, error : BOOLEAN, synced : BOOLEAN]

Work == [sources |-> <<>>, catalog |-> <<>>, progress |-> {}]
Idle == [pc |-> "idle", op |-> "none", source |-> None, creds |-> "keep", config |-> None,
         prev |-> FALSE, lines |-> <<>>, parser |-> Parser, work |-> Work]

TypeOK ==
  /\ DOMAIN sources \subseteq Sources /\ \A s \in DOMAIN sources : sources[s] \in Row
  /\ \A i \in DOMAIN catalog : catalog[i].id = i /\ catalog[i].source \in DOMAIN sources
  /\ progress \subseteq DOMAIN catalog
  /\ guide = [s \in Sources |-> guide[s]] /\ \A s \in Sources : guide[s] # Guide => s \in DOMAIN sources
  /\ secrets \in [Sources -> BOOLEAN]
  /\ holder \in Calls \cup {None}
  /\ \A c \in Calls : (calls[c].pc \in {"fetch", "parse", "commit"}) <=> (holder = c)
  /\ ops \in 0..MaxOps /\ faults \in 0..MaxFaults /\ torn \subseteq Sources

-----------------------------------------------------------------------------
(* Calls. *)

Vacant(c) == calls[c].pc = "idle" /\ \A d \in Calls : d < c => calls[d].pc # "idle"

At(c, op, pc) == calls[c].op = op /\ calls[c].pc = pc
Goto(c, pc) == calls' = [calls EXCEPT ![c].pc = pc]
Finish(c) == calls' = [calls EXCEPT ![c] = Idle]

\* A statement waits for the connection.
Free == holder = None
Fault == faults < MaxFaults /\ faults' = faults + 1

Start(c, op, s, creds, config) ==
  /\ ops < MaxOps /\ ops' = ops + 1
  /\ Vacant(c)
  /\ calls' = [calls EXCEPT ![c] = [Idle EXCEPT !.pc = "read", !.op = op, !.source = s, !.creds = creds,
                                               !.config = config]]
  /\ torn' = IF \E d \in Calls : calls[d].source = s THEN torn \cup {s} ELSE torn
  /\ UNCHANGED <<db, secrets, holder, faults>>

\* creds: credentials come with the call, are to be cleared, or stay.
SaveIPTVSource(c, s, creds, withGuide) ==
  Start(c, "save", s, creds, [edit |-> ops + 1, guide |-> withGuide, ref |-> FALSE])
DeleteIPTVSource(c, s) == Start(c, "delete", s, "clear", None)
SyncIPTVSource(c, s) == Start(c, "sync", s, "keep", None)

\* The row refers to credentials.
Ref(s) == s \in DOMAIN sources /\ sources[s].config.ref

ReadForSync(c) ==
  LET s == calls[c].source
  IN  /\ calls[c].op = "sync"
      /\ IF s \in DOMAIN sources
         THEN calls' = [calls EXCEPT ![c].pc = "begin", ![c].config = sources[s].config]
         ELSE Finish(c)

\* The reference of the row is kept unless the call changes it.
ReadForSave(c) ==
  LET call == calls[c]
      ref == Ref(call.source)
      writes == call.creds = "new" \/ (call.creds = "clear" /\ ref)
  IN  /\ call.op = "save"
      /\ calls' = [calls EXCEPT ![c].pc = IF writes THEN "peek" ELSE "row",
                                ![c].config.ref = IF call.creds = "keep" THEN ref ELSE call.creds = "new"]

ReadForDelete(c) ==
  /\ calls[c].op = "delete"
  /\ Goto(c, IF Ref(calls[c].source) THEN "peek" ELSE "row")

ReadRow(c) ==
  /\ calls[c].pc = "read" /\ Free
  /\ ReadForSync(c) \/ ReadForSave(c) \/ ReadForDelete(c)
  /\ UNCHANGED <<db, secrets, holder, ops, faults, torn>>

\* replaceIPTVCredential, removeIPTVCredential: what was there is read first.
Peek(c) ==
  /\ calls[c].pc = "peek"
  /\ calls' = [calls EXCEPT ![c].pc = "secret", ![c].prev = secrets[calls[c].source]]
  /\ UNCHANGED <<db, secrets, holder, ops, faults, torn>>

WriteSecret(c) ==
  LET s == calls[c].source
  IN  /\ calls[c].pc = "secret"
      /\ \/ secrets' = [secrets EXCEPT ![s] = calls[c].creds = "new"] /\ Goto(c, "row") /\ UNCHANGED faults
         \/ Fault /\ UNCHANGED secrets /\ Finish(c)
      /\ UNCHANGED <<db, holder, ops, torn>>

\* The statement of the row failed: only a call that wrote the keyring undoes it.
\* Mutant: the keyring is left as it is.
NotUndone(c) == Finish(c)

RowFails(c) ==
  IF calls[c].creds = "new" \/ (calls[c].creds = "clear" /\ calls[c].prev) THEN Goto(c, "undo") ELSE Finish(c)

SaveRow(c) ==
  LET s == calls[c].source
      old == IF s \in DOMAIN sources THEN sources[s] ELSE [config |-> None, error |-> FALSE, synced |-> FALSE]
  IN  /\ At(c, "save", "row") /\ Free
      /\ \/ sources' = With(sources, s, [old EXCEPT !.config = calls[c].config]) /\ Finish(c) /\ UNCHANGED faults
         \/ Fault /\ UNCHANGED sources /\ RowFails(c)
      /\ UNCHANGED <<catalog, guide, saved, progress, secrets, holder, ops, torn>>

\* ON DELETE CASCADE: items and their progress, the guide; not what was saved.
DeleteRow(c) ==
  LET s == calls[c].source
  IN  /\ At(c, "delete", "row") /\ Free
      /\ \/ /\ sources' = Without(sources, {s})
            /\ catalog' = Without(catalog, Of(catalog, s))
            /\ progress' = progress \ Of(catalog, s)
            /\ guide' = [guide EXCEPT ![s] = Guide]
            /\ Finish(c) /\ UNCHANGED faults
         \/ Fault /\ UNCHANGED <<sources, catalog, progress, guide>> /\ RowFails(c)
      /\ UNCHANGED <<saved, secrets, holder, ops, torn>>

\* The error of the rollback is ignored.
Undo(c) ==
  LET s == calls[c].source
  IN  /\ calls[c].pc = "undo"
      /\ \/ secrets' = [secrets EXCEPT ![s] = calls[c].prev] /\ UNCHANGED <<faults, torn>>
         \/ Fault /\ torn' = torn \cup {s} /\ UNCHANGED secrets
      /\ Finish(c)
      /\ UNCHANGED <<db, holder, ops>>

-----------------------------------------------------------------------------
(* Synchronisation. *)

\* ImportIPTVCatalog: the row is written from what was read before, the items
\* go, and their progress with them.
Begin(c) ==
  LET call == calls[c]
      s == call.source
      old == Of(catalog, s)
  IN  /\ At(c, "sync", "begin") /\ Free
      /\ holder' = c
      /\ calls' = [calls EXCEPT ![c].pc = "fetch", ![c].parser = Parser,
                                ![c].work = [sources |-> With(sources, s, [config |-> call.config, error |-> FALSE, synced |-> TRUE]),
                                             catalog |-> Without(catalog, old),
                                             progress |-> progress \ old]]
      /\ UNCHANGED <<db, secrets, ops, faults, torn>>

\* The transaction is rolled back, then the error noted.
Abort(c) == holder' = None /\ Goto(c, "status")

\* HTTPM3USource.open: credentials that are referenced and not there end it.
Fetch(c) ==
  /\ At(c, "sync", "fetch")
  /\ IF calls[c].config.ref /\ ~secrets[calls[c].source]
     THEN Abort(c) /\ UNCHANGED faults
     ELSE \/ /\ \E lines \in Served : calls' = [calls EXCEPT ![c].pc = "parse", ![c].lines = lines]
             /\ UNCHANGED <<holder, faults>>
          \/ Fault /\ Abort(c)
  /\ UNCHANGED <<db, secrets, ops, torn>>

\* Mutant: a batch goes straight into the catalogue.
ConsumeCommitted(c) ==
  LET call == calls[c]
      parser == Parsed(call.parser, Head(call.lines), call.source, Options)
  IN  /\ At(c, "sync", "parse") /\ call.lines # <<>>
      /\ IF parser.error THEN Abort(c) /\ UNCHANGED catalog
         ELSE /\ catalog' = Inserted(catalog, parser.out)
              /\ calls' = [calls EXCEPT ![c].lines = Tail(@), ![c].parser = [parser EXCEPT !.out = <<>>],
                                        ![c].work.catalog = Inserted(@, parser.out)]
              /\ UNCHANGED holder
      /\ UNCHANGED <<sources, guide, saved, progress, secrets, ops, faults, torn>>

\* The batches the parser has handed over are inserted.
Consume(c) ==
  LET call == calls[c]
      parser == Parsed(call.parser, Head(call.lines), call.source, Options)
  IN  /\ At(c, "sync", "parse") /\ call.lines # <<>>
      /\ IF parser.error THEN Abort(c)
         ELSE /\ calls' = [calls EXCEPT ![c].lines = Tail(@), ![c].parser = [parser EXCEPT !.out = <<>>],
                                        ![c].work.catalog = Inserted(@, parser.out)]
              /\ UNCHANGED holder
      /\ UNCHANGED <<db, secrets, ops, faults, torn>>

EndOfPlaylist(c) ==
  LET call == calls[c]
  IN  /\ At(c, "sync", "parse") /\ call.lines = <<>>
      /\ calls' = [calls EXCEPT ![c].pc = "commit", ![c].parser = Parser,
                                ![c].work.catalog = Inserted(@, Finished(call.parser).out)]
      /\ UNCHANGED <<db, secrets, holder, ops, faults, torn>>

Commit(c) ==
  LET call == calls[c]
  IN  /\ At(c, "sync", "commit")
      /\ \/ /\ sources' = call.work.sources /\ catalog' = call.work.catalog /\ progress' = call.work.progress
            /\ holder' = None
            /\ IF call.config.guide THEN calls' = [calls EXCEPT ![c].pc = "guide", ![c].work = Work] ELSE Finish(c)
            /\ UNCHANGED faults
         \/ Fault /\ Abort(c) /\ UNCHANGED <<sources, catalog, progress>>
      /\ UNCHANGED <<guide, saved, secrets, ops, torn>>

\* Mutant: SetIPTVSourceError is called while the transaction is open.
NoteInside(c) ==
  /\ At(c, "sync", "status") /\ holder = c
  /\ Finish(c)
  /\ UNCHANGED <<db, secrets, holder, ops, faults, torn>>

\* SetIPTVSourceError
NoteError(c) ==
  LET s == calls[c].source
  IN  /\ At(c, "sync", "status") /\ Free
      /\ sources' = IF s \in DOMAIN sources THEN [sources EXCEPT ![s].error = TRUE] ELSE sources
      /\ Finish(c)
      /\ UNCHANGED <<catalog, guide, saved, progress, secrets, holder, ops, faults, torn>>

\* GuideSync.SyncXMLTV: a guide that cannot be fetched, is not valid or belongs
\* to a source that is gone changes nothing and is no error of the call.
SyncGuide(c) ==
  LET s == calls[c].source
  IN  /\ At(c, "sync", "guide") /\ Free
      /\ \/ /\ \E elements \in Guides :
                 LET new == ParseXMLTV(elements)
                 IN  guide' = IF Storable(new) /\ s \in DOMAIN sources THEN [guide EXCEPT ![s] = new] ELSE guide
            /\ UNCHANGED faults
         \/ Fault /\ UNCHANGED guide
      /\ Finish(c)
      /\ UNCHANGED <<sources, catalog, saved, progress, secrets, holder, ops, torn>>

-----------------------------------------------------------------------------
(* Single statements. *)

Statement == Free /\ ops < MaxOps /\ ops' = ops + 1

SetIPTVItemSaved(i, flag) ==
  /\ Statement
  /\ saved' = IF flag THEN saved \cup {i} ELSE saved \ {i}
  /\ UNCHANGED <<sources, catalog, guide, progress, secrets, holder, calls, faults, torn>>

\* Progress is of an item of the catalogue.
SetIPTVProgress(i, flag) ==
  /\ Statement
  /\ progress' = IF flag THEN progress \cup {i} ELSE progress \ {i}
  /\ UNCHANGED <<sources, catalog, guide, saved, secrets, holder, calls, faults, torn>>

\* The program ends: an open transaction is rolled back, the keyring stays.
Restart ==
  /\ Fault
  /\ \E c \in Calls : calls[c].pc # "idle"
  /\ torn' = torn \cup {calls[c].source : c \in {d \in Calls : calls[d].pc # "idle"}}
  /\ calls' = [c \in Calls |-> Idle] /\ holder' = None
  /\ UNCHANGED <<db, secrets, ops>>

-----------------------------------------------------------------------------
(* A source was saved and synchronised by an earlier run of the program. *)

Init ==
  \E s \in Sources, lines \in Served, withGuide, ref \in BOOLEAN :
    LET first == Parse(lines, s, Options)
    IN  /\ ~first.error
        /\ sources = With(<<>>, s, [config |-> [edit |-> 0, guide |-> withGuide, ref |-> ref], error |-> FALSE, synced |-> TRUE])
        /\ catalog = Inserted(<<>>, first.out)
        /\ guide = [t \in Sources |-> Guide]
        /\ saved = {} /\ progress = {}
        /\ secrets = [t \in Sources |-> t = s /\ ref]
        /\ holder = None /\ calls = [c \in Calls |-> Idle] /\ ops = 0 /\ faults = 0 /\ torn = {}

User(c) ==
  \E s \in Sources :
    \/ \E creds \in {"new", "clear", "keep"}, withGuide \in BOOLEAN : SaveIPTVSource(c, s, creds, withGuide)
    \/ DeleteIPTVSource(c, s)
    \/ SyncIPTVSource(c, s)

Step(c) ==
  \/ ReadRow(c) \/ Peek(c) \/ WriteSecret(c) \/ SaveRow(c) \/ DeleteRow(c) \/ Undo(c)
  \/ Begin(c) \/ Fetch(c) \/ Consume(c) \/ EndOfPlaylist(c) \/ Commit(c) \/ NoteError(c) \/ SyncGuide(c)

Next ==
  \/ \E c \in Calls : User(c) \/ Step(c)
  \/ \E i \in DOMAIN catalog \cup saved, flag \in BOOLEAN : SetIPTVItemSaved(i, flag)
  \/ \E i \in DOMAIN catalog, flag \in BOOLEAN : SetIPTVProgress(i, flag)
  \/ Restart
  \/ (ops = MaxOps /\ \A c \in Calls : calls[c].pc = "idle") /\ UNCHANGED vars

\* Statements, keyring and providers answer; the HTTP client has a time-out.
Fairness == \A c \in Calls : WF_vars(Step(c))

Spec == Init /\ [][Next]_vars /\ Fairness

-----------------------------------------------------------------------------
(* What IPTV promises. *)

\* A catalogue or a guide changes as a whole or not at all: whatever fails at
\* whatever batch, what a source shows is all of one playlist and all of one
\* guide, never a mixture, and the rows of other sources stay.
Rows(cat, s) == {cat[i] : i \in Of(cat, s)}
Whole(s, rows) ==
  \E lines \in Served : LET parsed == Parse(lines, s, Options)
    IN  ~parsed.error /\ rows = Rows(Inserted(<<>>, parsed.out), s)
SnapshotsAreWhole ==
  [][\A s \in Sources :
       /\ Rows(catalog', s) # Rows(catalog, s) => s \notin DOMAIN sources' \/ Whole(s, Rows(catalog', s))
       /\ guide'[s] # guide[s] =>
            s \notin DOMAIN sources' \/ \E elements \in Guides : guide'[s] = ParseXMLTV(elements) /\ Storable(guide'[s])]_vars

\* The keyring holds the credentials of exactly the sources whose row refers to
\* them, whichever step of a save or a deletion failed.  A source whose calls
\* overlapped, were cut by the end of the program or could not be undone is
\* excluded.
SecretsFollowSources ==
  \A s \in Sources :
    s \in torn \/ (\E c \in Calls : calls[c].source = s)
    \/ (secrets[s] <=> Ref(s))

\* Every call returns, although one of them keeps the only connection for as
\* long as a download takes.
EveryCallReturns == \A c \in Calls : (calls[c].pc # "idle") ~> (calls[c].pc = "idle")

\* Violated.  Progress survives a refresh: an item the provider still lists keeps its
\* progress when the catalogue is imported again.
ProgressSurvivesRefresh ==
  [][\A i \in progress : i \in DOMAIN catalog' => i \in progress' \/ ops' # ops]_vars
=============================================================================
