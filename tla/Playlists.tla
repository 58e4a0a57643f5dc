------------------------------- MODULE Playlists -------------------------------
(***************************************************************************)
(* Playlists, their tags and smart rules, favorites, and the two ways they *)
(* leave and enter the database: the JSON of backup/portable.go and the    *)
(* .ntbackup of backup/snapshot.go.                                        *)
(*                                                                         *)
(* The repository runs an operation in one transaction, which is one step. *)
(* Exports, imports and restores take several; the other operations run in *)
(* between, and so may the end of the program.  One such job is under way  *)
(* at a time.                                                              *)
(***************************************************************************)
EXTENDS Integers, Sequences, FiniteSets, SequencesExt

CONSTANTS
  Videos,
  Tags,
  MaxPlaylists,  \* bound on the playlists ever created
  MaxOps,        \* bound on the operations
  Batches        \* the videos one call may name, in order

\* What the constants must be.
ASSUME PlaylistAssumption ==
  /\ {MaxPlaylists, MaxOps} \subseteq Nat /\ MaxPlaylists # 0
  /\ IsFiniteSet(Videos)
  /\ Batches \subseteq Seq(Videos) \ {<<>>}

VARIABLES
  lists,      \* playlists, playlist_items and playlist_tags: id -> record
  rules,      \* playlist_rules: id -> versions of the column and of the JSON
  favorites,
  issued,     \* playlist ids given out so far
  backup,     \* the last file written or received
  job,        \* the export, import or restore under way
  ops

db == <<lists, rules, favorites>>
playlistVars == <<lists, rules, favorites, issued, backup, job, ops>>

PlaylistIds == 1..MaxPlaylists

\* CurrentSmartRuleVersion is 1; 0 is a rule from before versions, 2 one of a
\* later program.
Current == [column |-> 1, content |-> 1]
Unversioned == [column |-> 0, content |-> 0]
Rule == {Current, Unversioned, [column |-> 2, content |-> 1], [column |-> 0, content |-> 2]}

\* Rows by their key.
NoRows == [key \in {} |-> {}]
With(rows, key, row) == [k \in DOMAIN rows \cup {key} |-> IF k = key THEN row ELSE rows[k]]

NewList == [items |-> NoRows, tags |-> {}, smart |-> FALSE]
NoDatabase == [lists |-> NoRows, rules |-> NoRows, favorites |-> {}]
NoBackup == [lists |-> NoRows, rules |-> NoRows, favorites |-> {}, personal |-> FALSE, smart |-> FALSE]
NoJob == [kind |-> "none", pc |-> "none", id |-> 0, todo |-> <<>>, left |-> {}, file |-> NoBackup,
          staging |-> NoDatabase]

\* Tables, and the files made of them.
IsTable(rows, keys, values) == DOMAIN rows \subseteq keys /\ rows \in [DOMAIN rows -> values]
IsList(list) ==
  /\ list = [items |-> list.items, tags |-> list.tags, smart |-> list.smart]
  /\ IsTable(list.items, Videos, Nat) /\ list.tags \subseteq Tags /\ list.smart \in BOOLEAN
IsDatabase(state) ==
  /\ state = [lists |-> state.lists, rules |-> state.rules, favorites |-> state.favorites]
  /\ IsTable(state.lists, PlaylistIds, Range(state.lists)) /\ \A p \in DOMAIN state.lists : IsList(state.lists[p])
  /\ IsTable(state.rules, PlaylistIds, Rule) /\ state.favorites \subseteq Videos
IsBackup(file) ==
  /\ file = [lists |-> file.lists, rules |-> file.rules, favorites |-> file.favorites,
             personal |-> file.personal, smart |-> file.smart]
  /\ IsTable(file.lists, PlaylistIds, Seq(Videos)) /\ IsTable(file.rules, PlaylistIds, Rule)
  /\ file.favorites \subseteq Videos /\ file.personal \in BOOLEAN /\ file.smart \in BOOLEAN

IsJob(work) ==
  /\ work = [kind |-> work.kind, pc |-> work.pc, id |-> work.id, todo |-> work.todo, left |-> work.left,
             file |-> work.file, staging |-> work.staging]
  /\ work.kind \in {"none", "remote", "merge", "export", "import", "restore"}
  /\ work.id \in 0..MaxPlaylists /\ work.todo \in Seq(Videos) /\ work.left \subseteq PlaylistIds
  /\ IsBackup(work.file) /\ IsDatabase(work.staging)

PlaylistTypeOK ==
  /\ IsDatabase([lists |-> lists, rules |-> rules, favorites |-> favorites])
  /\ issued \in 0..MaxPlaylists /\ ops \in 0..MaxOps
  /\ IsBackup(backup) /\ IsJob(job)

-----------------------------------------------------------------------------
(* The rows of one playlist: video -> position. *)

\* COALESCE(MAX(position), -1) + 1
NextPosition(items) ==
  CHOOSE n \in {0} \cup {items[v] + 1 : v \in DOMAIN items} : \A v \in DOMAIN items : items[v] < n

\* addPlaylistItemsTx: what is there already keeps its place.
Appended(items, v) == IF v \in DOMAIN items THEN items ELSE With(items, v, NextPosition(items))

\* Mutant: the gap is left open.
RemovedOnly(items, v) == [w \in DOMAIN items \ {v} |-> items[w]]

\* removePlaylistItemTx closes the gap.
Removed(items, v) ==
  IF v \notin DOMAIN items THEN items
  ELSE [w \in DOMAIN items \ {v} |-> IF items[w] > items[v] THEN items[w] - 1 ELSE items[w]]

\* A call that names several videos changes the rows for one after the other.
Changed(change, items, v) == IF change = "add" THEN Appended(items, v) ELSE Removed(items, v)
ChangeStates(change, items, batch) ==
  LET after[n \in 0..Len(batch)] == IF n = 0 THEN items ELSE Changed(change, after[n - 1], batch[n])
  IN  after
AppendedAll(items, batch) == ChangeStates("add", items, batch)[Len(batch)]
RemovedAll(items, batch) == ChangeStates("remove", items, batch)[Len(batch)]

Clamped(n, low, high) == IF n < low THEN low ELSE IF n > high THEN high ELSE n

LastPosition(items) == IF DOMAIN items = {} THEN 0 ELSE NextPosition(items) - 1

\* Mutant: the row at the target is not shifted.
MovedShort(items, v, delta) ==
  IF v \notin DOMAIN items THEN items
  ELSE LET from == items[v]
           target == Clamped(from + delta, 0, LastPosition(items))
       IN  [w \in DOMAIN items |->
              IF w = v THEN target
              ELSE IF from < items[w] /\ items[w] < target THEN items[w] - 1
              ELSE IF target <= items[w] /\ items[w] < from THEN items[w] + 1
              ELSE items[w]]

\* MovePlaylistItem shifts the rows between the two positions by one.
MovedBy(items, v, delta) ==
  IF v \notin DOMAIN items THEN items
  ELSE LET from == items[v]
           target == Clamped(from + delta, 0, LastPosition(items))
       IN  [w \in DOMAIN items |->
              IF w = v THEN target
              ELSE IF from < items[w] /\ items[w] <= target THEN items[w] - 1
              ELSE IF target <= items[w] /\ items[w] < from THEN items[w] + 1
              ELSE items[w]]

\* ORDER BY position: n - 1 rows come before the n-th.
Before(items, v) == {w \in DOMAIN items : items[w] < items[v]}
Ordered(items) ==
  [n \in 1..Cardinality(DOMAIN items) |-> CHOOSE v \in DOMAIN items : Cardinality(Before(items, v)) = n - 1]

Positions(order) == [v \in Range(order) |-> (CHOOSE n \in DOMAIN order : order[n] = v) - 1]

\* MovePlaylistItemToIndex rewrites the whole order.
MovedTo(items, v, index) ==
  IF v \notin DOMAIN items THEN items
  ELSE LET order == Ordered(items)
           from == CHOOSE n \in DOMAIN order : order[n] = v
           target == Clamped(index, 0, Len(order) - 1)
       IN  IF target = from - 1 THEN items
           ELSE Positions(InsertAt(RemoveAt(order, from), target + 1, v))

\* DeduplicatePlaylist has something to rewrite: a duplicate or a gap.
NeedsCompaction(items) == \E n \in 1..Cardinality(DOMAIN items) : items[Ordered(items)[n]] # n - 1

-----------------------------------------------------------------------------
(* Operations of the repository, a transaction each. *)

Op == ops < MaxOps /\ ops' = ops + 1
Free == issued < MaxPlaylists
Inserted(p, list) == With(lists, p, list)

CreatePlaylist ==
  /\ Op /\ Free
  /\ issued' = issued + 1
  /\ lists' = Inserted(issued + 1, NewList)
  /\ UNCHANGED <<rules, favorites, backup, job>>

\* Items are copied with their positions; tags and rule are not.
DuplicatePlaylist(p) ==
  /\ Op /\ Free /\ p \in DOMAIN lists
  /\ issued' = issued + 1
  /\ lists' = Inserted(issued + 1, [NewList EXCEPT !.items = lists[p].items])
  /\ UNCHANGED <<rules, favorites, backup, job>>

\* Mutant: foreign keys are off, the rule stays.
DeletedHalf(p, f) == IF f = rules THEN f ELSE [q \in DOMAIN f \ {p} |-> f[q]]

\* Items, tags and rule go with the playlist (ON DELETE CASCADE).
Deleted(p, f) == [q \in DOMAIN f \ {p} |-> f[q]]

DeletePlaylist(p) ==
  /\ Op /\ p \in DOMAIN lists
  /\ lists' = Deleted(p, lists) /\ rules' = Deleted(p, rules)
  /\ UNCHANGED <<favorites, issued, backup, job>>

SetItems(p, items) == lists' = [lists EXCEPT ![p].items = items]

\* AddPlaylistItem, CopyPlaylistItems and AddRemotePlaylistToPlaylist; a video
\* need not be in the catalogue.
AddItems(p, batch) ==
  /\ Op /\ p \in DOMAIN lists
  /\ SetItems(p, AppendedAll(lists[p].items, batch))
  /\ UNCHANGED <<rules, favorites, issued, backup, job>>

\* RemovePlaylistItem, RemovePlaylistItems
RemoveItems(p, batch) ==
  /\ Op /\ p \in DOMAIN lists
  /\ SetItems(p, RemovedAll(lists[p].items, batch))
  /\ UNCHANGED <<rules, favorites, issued, backup, job>>

\* Removed from one and added to the other, also what the first did not hold.
MovePlaylistItems(p, q, batch) ==
  /\ Op /\ {p, q} \subseteq DOMAIN lists
  /\ LET without == [lists EXCEPT ![p].items = RemovedAll(@, batch)]
     IN  lists' = [without EXCEPT ![q].items = AppendedAll(@, batch)]
  /\ UNCHANGED <<rules, favorites, issued, backup, job>>

MovePlaylistItem(p, v, delta) ==
  /\ Op /\ p \in DOMAIN lists
  /\ SetItems(p, MovedBy(lists[p].items, v, delta))
  /\ UNCHANGED <<rules, favorites, issued, backup, job>>

MovePlaylistItemToIndex(p, v, index) ==
  /\ Op /\ p \in DOMAIN lists
  /\ SetItems(p, MovedTo(lists[p].items, v, index))
  /\ UNCHANGED <<rules, favorites, issued, backup, job>>

SetPlaylistTags(p, tags) ==
  /\ Op /\ p \in DOMAIN lists
  /\ lists' = [lists EXCEPT ![p].tags = tags]
  /\ UNCHANGED <<rules, favorites, issued, backup, job>>

SaveSmartRule(p) ==
  /\ Op /\ p \in DOMAIN lists
  /\ rules' = With(rules, p, Current)
  /\ lists' = [lists EXCEPT ![p].smart = TRUE]
  /\ UNCHANGED <<favorites, issued, backup, job>>

SetFavorite(v) ==
  /\ Op
  /\ favorites' = IF v \in favorites THEN favorites \ {v} ELSE favorites \cup {v}
  /\ UNCHANGED <<lists, rules, issued, backup, job>>

ClearPersonalData ==
  /\ Op
  /\ lists' = NoRows /\ rules' = NoRows /\ favorites' = {}
  /\ UNCHANGED <<issued, backup, job>>

-----------------------------------------------------------------------------
(* Jobs. *)

BeginJob(started) == Op /\ job.kind = "none" /\ job' = started
End == job' = NoJob

\* MergePlaylist reads the source, then copies to a target that may be gone.
MergeBegin(p, q) ==
  /\ p \in DOMAIN lists /\ p # q /\ DOMAIN lists[p].items # {}
  /\ BeginJob([NoJob EXCEPT !.kind = "merge", !.id = q, !.todo = Ordered(lists[p].items)])
  /\ UNCHANGED <<db, issued, backup>>

MergeCopy ==
  /\ job.kind = "merge"
  /\ IF job.id \in DOMAIN lists
     THEN SetItems(job.id, AppendedAll(lists[job.id].items, job.todo))
     ELSE UNCHANGED lists
  /\ End
  /\ UNCHANGED <<rules, favorites, issued, backup, ops>>

\* ImportRemotePlaylist, and SavePlaybackQueueAsPlaylist as the case in which
\* all items are added at once: create, then add one video after the other.
RemoteBegin(batch) ==
  /\ Free
  /\ issued' = issued + 1
  /\ lists' = Inserted(issued + 1, NewList)
  /\ BeginJob([NoJob EXCEPT !.kind = "remote", !.id = issued + 1, !.todo = batch])
  /\ UNCHANGED <<rules, favorites, backup>>

RemoteAdd ==
  /\ job.kind = "remote" /\ job.todo # <<>> /\ job.id \in DOMAIN lists
  /\ SetItems(job.id, Appended(lists[job.id].items, Head(job.todo)))
  /\ job' = IF Len(job.todo) = 1 THEN NoJob ELSE [job EXCEPT !.todo = Tail(@)]
  /\ UNCHANGED <<rules, favorites, issued, backup, ops>>

\* The context ends, or the playlist is gone: what was created is deleted.
RemoteFails ==
  /\ job.kind = "remote"
  /\ lists' = Deleted(job.id, lists) /\ rules' = Deleted(job.id, rules)
  /\ End
  /\ UNCHANGED <<favorites, issued, backup, ops>>

SaveQueueAsPlaylist(batch) ==
  /\ Op /\ Free
  /\ issued' = issued + 1
  /\ lists' = Inserted(issued + 1, [NewList EXCEPT !.items = AppendedAll(NoRows, batch)])
  /\ UNCHANGED <<rules, favorites, backup, job>>

\* ExportPersonalData reads favorites, playlists and their items one after the
\* other, and CreateSnapshot the rules after that.  smart: with the rules.
ExportBegin(smart) ==
  /\ BeginJob([NoJob EXCEPT !.kind = "export", !.pc = "playlists",
               !.file = [NoBackup EXCEPT !.favorites = favorites, !.personal = TRUE, !.smart = smart]])
  /\ UNCHANGED <<db, issued, backup>>

ExportPlaylists ==
  /\ job.kind = "export" /\ job.pc = "playlists"
  /\ job' = [job EXCEPT !.pc = "items", !.left = DOMAIN lists]
  /\ UNCHANGED <<db, issued, backup, ops>>

ExportItems ==
  /\ job.kind = "export" /\ job.pc = "items"
  /\ job' = [job EXCEPT !.pc = "rules",
               !.file.lists = [p \in job.left |->
                                 IF p \in DOMAIN lists THEN Ordered(lists[p].items) ELSE <<>>]]
  /\ UNCHANGED <<db, issued, backup, ops>>

\* The file appears whole: it is written aside and renamed.
ExportWrite ==
  /\ job.kind = "export" /\ job.pc = "rules"
  /\ backup' = [job.file EXCEPT !.rules = IF job.file.smart THEN rules ELSE NoRows]
  /\ End
  /\ UNCHANGED <<db, issued, ops>>

\* A file of another machine: its playlists and the versions of its rules are
\* its own.
ReceiveBackup(batch, rule, personal) ==
  /\ Op /\ Free
  /\ issued' = issued + 1
  /\ backup' = [lists |-> With(NoRows, issued + 1, batch), rules |-> With(NoRows, issued + 1, rule), favorites |-> {},
                personal |-> personal, smart |-> TRUE]
  /\ UNCHANGED <<db, job>>

-----------------------------------------------------------------------------
(* Importing. *)

\* ImportPersonalData replaces everything; a playlist that names a video twice
\* violates the key and the transaction is rolled back.
Importable(file) == \A p \in DOMAIN file.lists : IsInjective(file.lists[p])

\* Mutant: DELETE FROM playlists is missing.
ReplacedOver(file) ==
  [lists |-> [p \in DOMAIN file.lists \cup DOMAIN lists |->
                IF p \in DOMAIN file.lists THEN [NewList EXCEPT !.items = Positions(file.lists[p])] ELSE lists[p]],
   rules |-> NoRows, favorites |-> file.favorites]

Replaced(file) ==
  [lists |-> [p \in DOMAIN file.lists |-> [NewList EXCEPT !.items = Positions(file.lists[p])]],
   rules |-> NoRows, favorites |-> file.favorites]

ImportReplace ==
  /\ Op /\ backup.personal
  /\ LET new == Replaced(backup)
     IN  IF Importable(backup)
         THEN lists' = new.lists /\ rules' = new.rules /\ favorites' = new.favorites
         ELSE UNCHANGED db
  /\ UNCHANGED <<issued, backup, job>>

\* The strategies merge and duplicate go through the playlists of the file.
\* Both create one under a new id; duplicate fills that one, merge the one with
\* the id of the file.
ImportBegin(strategy) ==
  /\ backup.personal
  /\ BeginJob([NoJob EXCEPT !.kind = "import", !.pc = strategy, !.left = DOMAIN backup.lists, !.file = backup])
  /\ UNCHANGED <<db, issued, backup>>

ImportPlaylist ==
  /\ job.kind = "import" /\ job.todo = <<>> /\ job.left # {} /\ Free
  /\ issued' = issued + 1
  /\ lists' = Inserted(issued + 1, NewList)
  /\ LET p == CHOOSE p \in job.left : \A q \in job.left : p <= q
     IN  job' = [job EXCEPT !.left = @ \ {p}, !.todo = job.file.lists[p],
                            !.id = IF job.pc = "duplicate" THEN issued + 1 ELSE p]
  /\ UNCHANGED <<rules, favorites, backup, ops>>

\* AddPlaylistItem of a playlist that is not there is an error that ends the
\* import where it is.
ImportItem ==
  /\ job.kind = "import" /\ job.todo # <<>>
  /\ IF job.id \in DOMAIN lists
     THEN /\ SetItems(job.id, Appended(lists[job.id].items, Head(job.todo)))
          /\ job' = [job EXCEPT !.todo = Tail(@)]
     ELSE UNCHANGED lists /\ End
  /\ UNCHANGED <<rules, favorites, issued, backup, ops>>

ImportFavorites ==
  /\ job.kind = "import" /\ job.todo = <<>> /\ job.left = {}
  /\ favorites' = favorites \cup job.file.favorites
  /\ End
  /\ UNCHANGED <<lists, rules, issued, backup, ops>>

\* UpgradeSmartRule: a rule this program can read.
Upgradable(rule) ==
  /\ rule.column <= 1 /\ rule.content <= 1
  /\ rule.column # 0 => rule.column = (IF rule.content = 0 THEN 1 ELSE rule.content)

\* Mutant: is_smart is not updated.
WithRulesOnly(state, file) ==
  [state EXCEPT !.rules = [p \in DOMAIN file.rules \cap DOMAIN state.lists |-> file.rules[p]]]

\* ImportSmartRules drops the rules of playlists that do not exist and fails
\* as a whole on a rule it cannot read.
WithRules(state, file) ==
  LET kept == DOMAIN file.rules \cap DOMAIN state.lists
  IN  [state EXCEPT !.rules = [p \in kept |-> file.rules[p]],
                    !.lists = [p \in DOMAIN state.lists |-> [state.lists[p] EXCEPT !.smart = @ \/ p \in kept]]]

\* RestoreSnapshot works on a copy of the database and puts it in its place.
RestoreBegin ==
  /\ backup.personal \/ backup.smart
  /\ BeginJob([NoJob EXCEPT !.kind = "restore", !.pc = "personal", !.file = backup,
               !.staging = [lists |-> lists, rules |-> rules, favorites |-> favorites]])
  /\ UNCHANGED <<db, issued, backup>>

RestorePersonal ==
  /\ job.kind = "restore" /\ job.pc = "personal"
  /\ IF job.file.personal /\ ~Importable(job.file) THEN End
     ELSE job' = [job EXCEPT !.pc = "rules", !.staging = IF job.file.personal THEN Replaced(job.file) ELSE @]
  /\ UNCHANGED <<db, issued, backup, ops>>

RestoreRules ==
  /\ job.kind = "restore" /\ job.pc = "rules"
  /\ IF job.file.smart /\ \E p \in DOMAIN job.file.rules : ~Upgradable(job.file.rules[p]) THEN End
     ELSE job' = [job EXCEPT !.pc = "swap", !.staging = IF job.file.smart THEN WithRules(@, job.file) ELSE @]
  /\ UNCHANGED <<db, issued, backup, ops>>

\* os.Rename(staging, dbPath): what was written since the copy is gone.
RestoreSwap ==
  /\ job.kind = "restore" /\ job.pc = "swap"
  /\ lists' = job.staging.lists /\ rules' = job.staging.rules /\ favorites' = job.staging.favorites
  /\ End
  /\ UNCHANGED <<issued, backup, ops>>

\* The program ends between two steps of a job.
Restart ==
  /\ job.kind # "none" /\ End
  /\ UNCHANGED <<db, issued, backup, ops>>

-----------------------------------------------------------------------------
(* An earlier run of the program left no playlist, or one. *)

Titles == CHOOSE t \in [1..Cardinality(Videos) -> Videos] : IsInjective(t)

PlaylistInit ==
  /\ \E n \in 0..Cardinality(Videos) :
       lists = IF n = 0 THEN NoRows
               ELSE With(NoRows, 1, [NewList EXCEPT !.items = Positions(SubSeq(Titles, 1, n))])
  /\ issued = Cardinality(DOMAIN lists)
  /\ rules = NoRows /\ favorites = {}
  /\ backup = NoBackup /\ job = NoJob /\ ops = 0

EditPlaylists ==
  \/ CreatePlaylist \/ ClearPersonalData
  \/ \E v \in Videos : SetFavorite(v)
  \/ \E p \in DOMAIN lists :
       \/ DuplicatePlaylist(p) \/ DeletePlaylist(p) \/ SaveSmartRule(p)
       \/ \E tags \in SUBSET Tags : SetPlaylistTags(p, tags)
       \/ \E batch \in Batches : AddItems(p, batch) \/ RemoveItems(p, batch)
       \/ \E q \in DOMAIN lists, batch \in Batches : MovePlaylistItems(p, q, batch)
       \/ \E v \in DOMAIN lists[p].items, n \in -2..2 :
            MovePlaylistItem(p, v, n) \/ MovePlaylistItemToIndex(p, v, n)

StartJob ==
  \/ \E p \in DOMAIN lists, q \in DOMAIN lists : MergeBegin(p, q)
  \/ \E batch \in Batches : RemoteBegin(batch) \/ (IsInjective(batch) /\ SaveQueueAsPlaylist(batch))
  \/ \E b \in BOOLEAN : ExportBegin(b)
  \/ \E s \in {"merge", "duplicate"} : ImportBegin(s)
  \/ \E batch \in Batches, rule \in Rule, b \in BOOLEAN : ReceiveBackup(batch, rule, b)
  \/ RestoreBegin \/ ImportReplace

ContinueJob ==
  \/ MergeCopy \/ RemoteAdd \/ RemoteFails
  \/ ExportPlaylists \/ ExportItems \/ ExportWrite
  \/ ImportPlaylist \/ ImportItem \/ ImportFavorites
  \/ RestorePersonal \/ RestoreRules \/ RestoreSwap
  \/ Restart

PlaylistNext ==
  \/ EditPlaylists \/ StartJob \/ ContinueJob
  \/ (ops = MaxOps /\ job.kind = "none") /\ UNCHANGED playlistVars

PlaylistSpec == PlaylistInit /\ [][PlaylistNext]_playlistVars

-----------------------------------------------------------------------------
(* What playlists promise. *)

\* The items of a playlist sit at the positions 0, 1, 2, ... after every
\* operation and in the middle of every import: no gap, no shared position,
\* nothing for DeduplicatePlaylist to rewrite.  Ten operations write positions.
PlaylistsContiguous ==
  \A p \in DOMAIN lists : LET items == lists[p].items
    IN  /\ {items[v] : v \in DOMAIN items} = 0..(Cardinality(DOMAIN items) - 1)
        /\ ~NeedsCompaction(items)

\* The two ways to move an item, shifting the rows between and rewriting the
\* whole order, give the same order on every playlist that can arise.
MovesAgree ==
  \A p \in DOMAIN lists : LET items == lists[p].items
    IN  \A v \in DOMAIN items, n \in -3..3 : MovedBy(items, v, n) = MovedTo(items, v, items[v] + n)

\* Every stored rule is one GetSmartRule can read, of a playlist that exists
\* and is marked smart, whatever files of other programs were restored.
RulesAreReadable ==
  \A p \in DOMAIN rules : Upgradable(rules[p]) /\ p \in DOMAIN lists /\ lists[p].smart

\* A restore puts back what the file holds and nothing else: its playlists in
\* their order, its favorites, and its rules of the playlists it holds.
RestoredAsSaved ==
  [][RestoreSwap /\ job.file.personal =>
       /\ favorites' = job.file.favorites
       /\ DOMAIN lists' = DOMAIN job.file.lists
       /\ \A p \in DOMAIN lists' : Ordered(lists'[p].items) = job.file.lists[p]
       /\ job.file.smart =>
            /\ DOMAIN rules' = DOMAIN job.file.rules \cap DOMAIN job.file.lists
            /\ \A p \in DOMAIN rules' : rules'[p] = job.file.rules[p]]_playlistVars
=============================================================================
