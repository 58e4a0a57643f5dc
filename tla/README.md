# Verification of HummTube

HummTube is a desktop application (a Go backend and a Svelte frontend in one webview) that plays
YouTube and IPTV media: it keeps accounts, profiles, subscriptions, playlists and an IPTV guide in SQLite,
finds the streams of a video with external extractors, and serves them to the webview through a local
proxy. This directory holds TLA+ models of it, translated from the source, the TLC configurations that
check them on small instances, and the theorems about them that TLAPS proves.

Paths below are relative to the repository; `playerStore.ts` and its neighbours live under
`frontend/src/lib/`, `storage`, `iptv`, `playback` and the other Go packages under `internal/`.

## 1. Inventory

| Component | State | Operations | Model |
|---|---|---|---|
| Media proxy (`playback/media_proxy.go`) | token table, published plan and its cancel function, mutex | `WrapPlan`, `Revoke`, `ServeHTTP`, manifest rewriting, pruning | `MediaProxy`, `PlaybackLease` |
| Provider chain and plan cache (`cascading.go`, `cache.go`) | plan cache, rate-limit gate, singleflight table | `Resolve`, `resolveUncached`, `resolveAuthenticated`, `storePlan` | `CascadingResolver` |
| Player store (`playerStore.ts`, `playbackPlanCache.ts`) | current video and plan, `loadGeneration`, plan cache; copy of the queue | `loadVideo`, `loadResolvedVideo`, `prefetchVideo`, `closePlayer`; `playNext` and the commands on the queue | `PlayerPipeline`, `PlaybackQueue` |
| Video player (`VideoPlayer.svelte`) | media element, hls.js instance, generation | `loadStream`, `handleAbortPlayer`, `handleEnded` | `PlayerPipeline`, `PlaybackQueue` |
| Application services: player (`services/services.go`, `services/queue.go`) | none of their own | `ResolveMedia`, `RevokePlayerSession`, the calls on the queue | `PlayerPipeline`, `PlaybackQueue` |
| libmpv controller (`playback/controller.go`) | generation, current request, `loadMu`, events channel | `PlayAt`, `Stop`, forwarded commands, `Close`, the goroutine of an attempt, the relay | `PlayerController` |
| Accounts and profiles (`services.go`, `auth`, `storage`) | active profile, sessions, login attempts, account rows, secrets in the keyring | login, disconnect, profile creation, activation and deletion, bootstrap | `Accounts` |
| Queue and playlists (`storage/queue.go`, `playlists.go`, `playlist_rules.go`) | ordered rows, tags, smart rules | add, remove, move, clear, merge, duplicate, filter | `PlaybackQueue`, `Playlists`, `Catalogue` |
| Backup (`backup/portable.go`, `snapshot.go`) | the file written, a staging copy of the database | export, import, restore | `Playlists` |
| IPTV (`services.go`, `iptv`, `storage/iptv.go`) | sources, catalogue, guide, saved items, progress; credentials in the keyring | save, delete, synchronise, resolve, list | `IPTV`, `M3U` |
| IPTV parsers (`iptv/m3u.go`, `xmltv.go`) | state of one parse | lines and elements | `M3U` |
| Extractor runtimes (`playback/runtime_store.go`, `runtime_manifest.go`) | directories of versions, the activation file | `Install`, `Activate`, `Rollback`, `ComponentPath` | `RuntimeStore` |
| Feed synchronisation (`sync`, `storage/subscriptions.go`, `channel.go`) | channels with their markers, videos and their index, workers | `RefreshLocal`, `Refresh`, subscriptions and their import | `FeedSync` |
| Launcher (`launcher/launcher.go`) | database and keyring of the product, legacy ones | clone, migrate, prune, copy credentials | `Launcher` |
| Catalogue (`storage/repository.go`, `domain/feed.go`) | videos, progress, favourites | filtered, sorted and paged lists | `Catalogue` |
| Search (`search`, `services.go`) | none | normalisation, validation, choice of provider, local filters, rank | `Search` |
| Suggestions (`suggestions/engine.go`, `storage/profile.go`) | none | profile, score, diversity, the sections of the Home | `Suggestions` |

`PROJECT.json` lists every component with its status and what of it is left out; section 8 says why.

**How they interact.** A click makes `playerStore` take a new `loadGeneration` and call the backend's
`ResolveMedia` over RPC. The backend asks the resolver chain for a plan (cache, singleflight, providers in
order, cookies last) and gives it to the media proxy, whose `WrapPlan` replaces remote URLs by local tokens
and, in doing so, **takes the proxy over**: the tokens of the plan published before die. The answer comes
back, possibly after the user has moved on, and `VideoPlayer` attaches the stream, which the webview then
fetches from the proxy. When it ends, `playNext` marks the item of the queue, reads the queue back and loads
its choice. Which cookies the chain may use follows from the active profile, which the account services
install in the resolver. Videos reach the catalogue from the refreshes and from the interface; the search, the
Home, playlists and rules read them from there. IPTV sources keep their rows in the same database and their
credentials in the keyring.

**What is hard here.** Nothing cancels an RPC when the user moves on, so answers arrive in any order.
HLS manifests may still be rewritten after their plan was superseded. Callers of one singleflight share the
fate of the caller that started it. Logins, sources and restores write to two stores (keyring or file, and
SQLite) that share no transaction. SQLite has one connection: a statement or a transaction is atomic, anything
runs between two of them, and an import keeps the connection while it downloads. Several processes of the
suite work on one directory of runtimes and may start at once beside one legacy database. And most of what is
persistent must survive a crash between any two steps. `PROJECT.json` "hazards" gives each place and the
properties that watch it.

**What makes each component correct.**

- Media proxy: only the plan that holds the proxy is served; the table is bounded; a deadline is never
  renewed by a manifest; publication is all or nothing; a revoked transfer stops.
- Resolver: no stream is extracted twice; cookies are used last and once; a cached plan has life left; every
  caller is answered.
- Player: the plan shown is of the video asked for last; the element carries that plan's stream or none;
  loading always ends.
- Controller: a Stop is final; loads are announced in order; Close returns.
- Accounts: the account row and the secret belong to the same login; a cancelled login installs nothing; a
  guest and a deleted profile leave nothing in the keyring.
- Queue: the order is total at every moment, only the user changes it, and sequential playback ends.
- Playlists and backup: positions without gaps; readable rules; a restore puts back what was saved.
- IPTV: catalogue and guide are replaced whole; the keyring follows the rows; no call waits for ever.
- Runtimes: versions are published whole and stay as they are; only verified components run; the activation
  is usable.
- Feed synchronisation: no marker passes a video that is not stored; one failing feed does not stop the others.
- Launcher: nothing of another product is served; nothing the user saved is lost.
- Catalogue, search, suggestions: the filters written in SQL and in Go agree; every option of a form is
  honoured; nothing rejected is recommended; pages partition a list.

## 2. Modules

| Module | Contents |
|---|---|
| `PlaybackLease` | abstract: one holder, plans that are over, transfers that start only for a live holder |
| `MediaProxy`, `MediaProxyProofs` | the proxy in detail; it implements `PlaybackLease` |
| `PlayerPipeline`, `PlayerPipelineProofs` | store, cache, element, RPCs; composed with `PlaybackLease` for the backend's proxy |
| `CascadingResolver` | resolver chain, cache and singleflight |
| `PlayerController`, `PlayerControllerProofs` | the native player's orchestration |
| `Accounts`, `AccountsProofs` | profiles, sessions, logins, keyring and account rows |
| `PlaybackQueue`, `PlaybackQueueProofs` | the persistent queue, the store's copy of it, `playNext` |
| `Playlists` | playlists, tags, rules, favourites, exports, imports and restores |
| `IPTV`, `IPTVProofs` | sources over database and keyring; uses the operators of `M3U` |
| `M3U` | parsers, identity, resolution, rows, pages, windows, as operators |
| `Selection` | WHERE, ORDER BY, LIMIT and OFFSET over rows in an order |
| `Catalogue`, `Search`, `Suggestions` | queries, search and Home, as operators over `Selection` |
| `Discovery` | questions to these three and to `M3U`, and what their answers promise |
| `AnswerProofs` | the theorems about `CascadingResolver` and `Discovery` |
| `RuntimeStore` | installation, activation, rollback and use of extractors |
| `FeedSync` | subscriptions and their refreshes |
| `Launcher` | the start of a product beside legacy data |
| `ServiceProofs` | the theorems about `Playlists`, `RuntimeStore`, `FeedSync` and `Launcher` |
| `MC...` | values of the constants for TLC; `MCLibrary` joins `Playlists` and `Discovery`, `MCBackground` joins `Launcher`, `FeedSync` and `RuntimeStore` |

The parts that `MCLibrary` and `MCBackground` join share no state, so a behaviour explores one of them. `Launcher`, `FeedSync`,
`RuntimeStore` and `Playlists` name their initial states, steps and specifications apart (`LaunchSpec`, `SyncSpec`, `StoreSpec`,
`PlaylistSpec`), so that one module extends them all.

### MediaProxy and the code

A goroutine's step from one scheduling point to the next is one action. `WrapBegin`/`WrapReject` are the
checks of `WrapPlan`, `WrapResource` is one `wrapStream` into the staged proxy (no other goroutine sees it),
`WrapCheck` the last look at the caller's context, and `WrapPublish` the critical section that cancels the previous plan
and swaps the table. `Receive` reads the clock, `Lookup` is `session()` under the mutex, `Connect` the
second look at the lifetime, `AbortTransfer` the `AfterFunc` that ends the upstream request,
`WrapReference` one rewritten URI of a manifest, which locks the *published* table once per URI, and
`WriteManifest` writes the result. `LifetimeTimesOut` is the plan's own timer. URLs, headers, byte ranges
and MIME types are abstracted; random tokens are pairs that never repeat.

### PlayerPipeline and the code

JavaScript handlers run to the next `await`, so `LoadVideo` is all of `loadVideo` up to the RPC,
`Resolved`/`Rejected` its continuation, with the generation check as in the code; what Svelte's reactive block does
to the element belongs to the action that changes the store. `imports` holds the calls suspended
at `import('hls.js')`. The backend answers in any order (`Resolve`, `ResolveFails`), and
`RevokePlayerSession` is handled at any later time. The proxy is an instance of `PlaybackLease`, which
`MediaProxy` is proved to implement. The 300 ms timer of a prefetch, loading messages, volume and position are
left out.

### CascadingResolver and the code

`Call` is the caller's look at context and cache, `Join` `DoChan`, `Receive`/`GiveUp` the `select`. A flight
re-checks the cache, passes the gate (`Gate`), and asks one provider per `Try...` action; failure kinds
are kept as far as the chain distinguishes them. `Store` caches the plan and ends the flight; caching and
answering are one step, since no property looks between. The flight's context is its leader's.

### PlayerController and the code

A command first looks at `closed` (`Invoke`) and then runs, since every one of them does so under a lock it
gives back. `PlayAt` takes the next generation and cancels the resolution before it; the goroutine `play` is `Resolve` to
`ReportFailed`, one action per critical section, send or call into the player, with `loadMu` held from `Lock` to
`Loaded` or `Failed`. `Emit` is the `select` of a send and `done`. The relay receives and sends in two steps. A plan is
the generation of the attempt it was resolved for. `stopped` is auxiliary (the generation of the last `Stop` that returned); `panicked` is a send
on the channel the relay has closed, which the code allows (section 7).

### Accounts and the code

A login is a goroutine: `StartLogin` captures the active profile, `BeginLoginAttempt` takes the next
`generation` of that profile, and `EnterCommit` to `PublishSession` are `completeLogin`, one action per
read or write of the keyring, the database and the sessions, with its failure beside it (`Snapshot`,
`StoreRefreshToken`, `SaveAccount`/`SaveAccountFails`, `Rollback`). `mutex` is `loginCommitMu`. RPCs start
with the action named after their method and then run through the shared steps: `Check` to `Report` are
`SetActiveProfile` (called on its own, by a creation and by a deletion), `Lock` to `Drop` are
`DisconnectAccount` and `DeleteProfile`, `Verify` to `Restore` are `newYouTubeService` with
`Session.Source`. `Restart` is a crash at any point followed by `NewAppServices`.

A refresh token is named by the login that obtained it, a Session by the login or RPC that created it, so "the
token of another account" is an inequality. Two variables are auxiliary: `torn` holds the profiles whose two
stores no code can reconcile (a crash, or a rollback that failed, between the writes), and `attempts[a].obsolete`
remembers that a later operation on the profile made login `a` unwanted.

### PlaybackQueue and the code

A command of the user is a call that goes through `Route` (`ActiveProfileID`), `Decide` (the preferences of
`MarkQueueItemPlayed`), one of the `Apply...` steps (the statement or transaction of `storage/queue.go`),
`Normalize` (the second transaction of `ClearPlaybackQueue`), and `Reload`, `Snapshot` and `Deliver`
(`refreshQueue`, and for `playNext` the load of its choice). Each step looks the active profile up where the code
does, so a call may read the preferences of one profile and write the queue of another. `ReorderQueue` changes the store at once.

### Playlists and the code

An operation of the repository is one transaction and one action. Exports, merges and imports go one statement
at a time: `ExportBegin` to `ExportWrite` read favourites, playlists with their items, and rules, each by itself; a restore builds
a staging copy (`RestorePersonal`, `RestoreRules`) and swaps it in (`RestoreSwap`). `Restart` ends the job wherever it is.
`ReceiveBackup` is a file of another machine, which may name a video twice or hold a rule of a later version.
Rules are kept as the versions of their column and of their JSON, which is what `UpgradeSmartRule` looks at. A table is a function
whose domain are the keys that have a row; a call with several videos is the last of `ChangeStates`, the rows after each of them.

### IPTV, M3U and the code

`SaveIPTVSource`, `DeleteIPTVSource` and `SyncIPTVSource` begin with the row they read (`ReadRow`, `Peek`) and go through keyring
(`WriteSecret`, `Undo`) and database (`SaveRow`, `DeleteRow`) in the order of `services.go`. `Begin` to `Commit` are
`ImportIPTVCatalog`: `holder` is the call whose transaction has the only connection, from the first `DELETE` over
the download (`Fetch`) and each line (`Consume`) to the commit; every other statement is guarded by `Free`. `NoteError` and
`SyncGuide` come after it. `Restart` rolls back what was not committed. Identifiers, groups and
addresses are members of small sets; `M3U` is the line parser, the identity of an entry, the choice of a stream, the two
imports and the windows of the guide. `Parse` is the last of `ParserStates`, the states of the parser after each line, and
`Inserted` says what a batch of upserts leaves in the table: of each id the last row that names it.

### Catalogue, Search, Suggestions and the code

These compute answers and keep no state: they are operators, and `Discovery` asks them questions, one state per question.
A date is a day, a text its rank or the set of words it contains, a score a whole number of
hundred-thousandths. The SQL of a query and its Go counterpart are modelled separately, since that they agree is
what is to be shown.

### RuntimeStore, FeedSync, Launcher and the code

`RuntimeStore`: `InstallBegin` checks the manifest, `CopyComponent` copies and hashes a component to staging, `Publish`
is `Stat` and `Rename`; `ActivateRead`, `RollbackLoad` and `WriteActivation` are the unlocked read, check and write of
`active.json`; `ResolveBegin`/`ResolveLoad` are `ComponentPath`, which verifies again. A call that fails or crashes
anywhere is `Return`: what it leaves behind has a name no reader looks at. `Damage` alters a published file.

`FeedSync`: a refresh reads the subscriptions, then the markers, and at most `Workers` goroutines fetch, store
(`StoreVideos`, one transaction with the search index) and move the marker (`MoveMarker`). Feeds and writes fail, the
caller cancels, the process crashes, channels publish and withdraw videos, the user subscribes and imports meanwhile.
`lost` is auxiliary: the videos that left the feed before any refresh stored them.

`Launcher`: a start goes through `prepareProductDatabase`, `CloneBegin`/`CloneEnd` (`VACUUM INTO`, which refuses a
file that exists), `OpenAndMigrate`, `PruneLegacyData` and `CopySecrets`, while another start of the same product is
anywhere. A database keeps of each kind of rows where they came from.

## 3. Plan

Done: everything in section 2. What remains, in order:

1. `PlayerElement`: the retry of hls.js, the quality fallback and the saving of progress in `VideoPlayer.svelte`; `playPrevious`.
2. Folders, presets and notes, if operations over several of their rows appear.

## 4. Runs

Times are with two workers. All passing runs finish the whole state space.

| Run | Bounds | States | Time | What it shows |
|---|---|---|---|---|
| `media_proxy` | 2 plans of up to 3 resources, 1 connection, table of 2 sessions, 1 tick, deadlines 1 and 9 | 765k | 65 s | the invariants of the proxy, the stop of dead transfers, the refinement of `PlaybackLease` |
| `player_pipeline` | 3 videos, 1 IPTV channel, 3 loads, cache of 1 (+1), with MSE and native HLS | 3.4M | 2½ min | the safety properties of the frontend |
| `player_liveness` | 2 videos, 1 channel, 2 loads, no MSE | 103k | 8 s | loading always ends |
| `resolver` | 2 callers, 2 keys, 2 providers, cookies, cache of 1, 2 ticks | 310k | 2½ min | sharing of flights, order of providers, freshness and size of the cache, an answer for everyone |
| `controller` | 2 callers, 2 plays, 3 generations, channel of 2 | 63k | 45 s | stops are final, loads in order, Close returns |
| `accounts` | 2 profiles, 2 logins, any RPC beside a creation, 1 crash | 1.8M | 75 s | the two stores of an account agree, obsolete logins install nothing, the mutex is released |
| `queue` | 2 profiles, 2 videos, queue of 2, 3 commands, 2 at once | 599k | 2 min | total order, only the user's order, playback ends |
| `library` | 3 videos, 3 playlists, 3 operations; 22 thousand questions | 180k | 60 s | positions, moves, rules and restores; filters, search, Home, pages and imports |
| `iptv` | 2 sources, 2 operations overlapping, 2 faults, 3 playlists, 3 guides | 158k | 90 s | whole snapshots, keyring follows rows, every call returns |
| `background` | 2 processes and 3 starts; 2 channels, 3 videos, 2 refreshes, a fault; 2 calls of 5, 2 versions, 2 components | 690k | 62 s | pruning and saved data; markers and local failures; whole versions and a usable activation |
| `prefetch`, `iptv_progress` | as the passing runs | – | – | violations, section 7 |

Why the bounds are enough.

- Proxy: two plans give every supersession, a table of two with plans of three resources
  forces the eviction of both kinds of session and the refusal of a plan too large, the deadline 1 passes
  within the tick and 9 does not; several connections are covered by the proofs, which bound nothing.
- Player: three loads are the smallest number at which an answer can be older than two later requests, and a cache of
  one overflows at the second video.
- Resolver: two callers join, miss and abandon one flight; two keys evict from a cache of one; two
  providers give a failure before a success; two ticks let an entry fall below its margin and expire.
- Controller: two attempts and a stop in any order, one of them holding `loadMu`; two events and a send fill the channel.
- Accounts: two logins of one profile and of two, each beside one complete RPC; the second RPC, a creation, is
  there because a new profile is the one state the first cannot reach alone.
- Queue: two stored items and one more fill a queue of two; two calls overlap at every pair of statements; the third
  command lets a profile change between them.
- Library: three videos tell shifting from rewriting; three operations put a deletion or an edit between the export and
  the restore. The questions take every boundary of a duration and of a date with every watch state, forms that set several options at
  once, Homes of three videos of seven kinds, lists one longer than the largest page, and all playlists of six lines.
- IPTV: an item twice, an entry without address, an orphan and a list beyond the limit, in batches of one, so that a failure
  falls between any two; two operations overlap, or one repeats another.
- Background: three starts of two processes repeat a start after a crash of another; a window of two and three videos push a
  video out of the feed; two builds of one version and a corrupt package meet in the store.

Bounds named in the modules: `MaxResources`, `MaxTime` (proxy), `MaxLoads`, `MaxGen` (player), `MaxTime` (resolver), `MaxPlays`,
`MaxGenerations` (controller), `Kinds`, `ActivationMayFail`, `MaxRestarts` (accounts), `MaxItems`, `MaxCommands`, `MaxStored`,
`MaxCalls` (queue), `MaxPlaylists`, `MaxOps`, `Batches` (playlists), `MaxCalls`, `MaxOps`, `MaxFaults` (IPTV), `MaxVideos`,
`MaxRefreshes`, `MaxFaults`, `MaxEdits`, `MaxNews` (feeds), `MaxCalls`, `MaxDamage` (runtimes), `MaxStarts`, `MaxSaves` (launcher).
Limits of the code (sizes of caches, queues, pages and sections) are constants too and small in the runs. `CHECK_DEADLOCK FALSE`
is set where a bounded model stops because its calls are used up; `queue`, `library` and `iptv` check for deadlock,
with a step for the end of the bounded run.

Symmetry is used where no liveness is checked: `VideoSymmetry` in `player_pipeline` (videos are compared for equality only) and
channels and refreshes in `background`.

## 5. Fairness

- `MediaProxy`: weak fairness of `AbortTransfer`, since the Go runtime runs an `AfterFunc` once its
  context is cancelled. Nothing makes a connection, a publication or a client go on.
- `PlayerPipeline`: weak fairness of the backend's answer to each load, since each provider runs under a time-out
  of its own, and of each continuation, since the event loop runs every settled promise. The user, expiry and the
  revocation RPC are not fair.
- `CascadingResolver`: weak fairness of each flight's next step (same time-outs; the gate's pause is bounded) and of each
  waiting caller's `select`. Callers may give up at any time, and need not start.
- `PlaybackQueue`: weak fairness of each call's next step (a statement on a local database and the continuation of an
  `await`), and of the end of a video that plays, without which nothing would be sequential playback. The user is not fair.
- `IPTV`: weak fairness of each call's next step, since statements and the keyring answer and the HTTP client has a
  time-out. It is disabled while another call has the connection, so that nobody waits for ever is a result.
- `PlayerController`: weak fairness of the steps of `Close` and of the end of the relay, strong fairness of a `Stop` waiting for `loadMu`
  and of the goroutine of an attempt, since a Go mutex in starvation mode is handed over in the order of arrival and a resolver ends under its context.
  Nobody has to read the events.
- The others: none; only safety is checked.

## 6. Proofs

Each strengthening below was first checked by TLC on the instance of the run.

`MediaProxyProofs`, from `ProxyAssumption` (types of the constants, and `None` outside the sets), for any plans, connections,
table limit and deadlines.

1. `TypeCorrect`: `TypeOK` is inductive. The lemmas on tables (`WithIsTable` ... `InsertionsAreTables`) say that pruning and inserting
   return tables.
2. `HolderOwnsTable`: that every session belongs to the holder is not inductive: a manifest being rewritten inserts a session of
   the plan it copied. `OwnerInv` adds that a plan whose publication is over and that does not hold the proxy is ended
   (`SupersededIsOver`), that the holder and every served plan were published, and that staged tables hold
   only their own plan; then the check that `wrapStream` makes under the mutex admits the holder only (`OnlyHolderIsAlive`).
3. `ProxyImplementsLease`: under `OwnerInv` every step of the proxy is a step of `PlaybackLease` or a
   stutter, with `serving` mapped to the plans of the transfers.
4. `LeaseIsNeverRenewed`: `DeadlineInv` carries the bound through staged tables and the copies that requests hold.
5. `TableIsBounded`: `InsertionsAreBounded`, `FewerIsBounded` and the cardinality facts of the library.
6. `PublicationIsWhole`: `WholeInv` says that while a plan that fits is staged nothing is evicted, so that the
   table published holds all its tokens. It is an action property, proved from the invariant.

`AccountsProofs`, from `AccountsAssumption` (types of the constants, the default profile among the profiles, names of logins and
RPCs apart), for any number of profiles, logins, RPCs and crashes.

1. `AccountsTyped`: `TypeOK`, one step per action.
2. `ObsoleteLoginsAreInert` and `MutexHasLiveHolder`, from `CommitInv`. A login that entered its commit is the latest of
   its profile *and* holds the mutex (`InOrder`); every operation that makes logins obsolete takes the next generation while nobody
   holds the mutex (`OutdatedInOrder`), so the obsolete ones are in front of the comparison of generations, which they fail.
   `CallsInOrder` adds where an RPC that holds the mutex may be and that only deletions and disconnections wait for it.
3. `SecretsAgree` and `SecretsAreOwned`, from `SecretInv`. Neither holds inductively, since a rollback writes a token that was read
   steps before. `PreviousMatches` and `PreviousOwned` say that this token would still be the right one; `WrittenIsOwn` says what a half-written
   login has in the keyring; `Unlinking` that a deletion erased the keyring before the row goes; `Born` that a profile about to be created
   has no login and no token. `OneCommits` makes each write local to one profile.

`ServiceProofs`: the runtime store, from `StoreAssumption` (packages are directories, `None` outside the sets), for any calls, versions and contents.

1. `StoreTyped`, and from it `VersionsImmutable`, an action property: the rename finds the directory absent.
2. `ActivationUsable`, from `ActivationInv`: what a call has read or is about to write was usable when it read it
   (`CallsUsable`), and a published version is never removed, so that it still is when it is written, whatever was lost between.
3. `VersionsWhole` and `VerifiedComponentsRun`, from `FilesInv`: what an installation has copied has the hashes of its manifest
   (`CopiesVerified`), and a published manifest has a hash for every path, altered or not (`HashesKnown`); without one an altered file would verify.

`ServiceProofs`: the refreshes, from `SyncAssumption` (workers, window and videos are positive), for any channels, refreshes and workers.

1. `NoVideoIsSkipped` and `SyncTyped`, from `SyncInv`. The marker is carried by the row, by the markers a refresh read and by a
   worker that is about to write it, and every carried one is covered: each video up to it is stored, withdrawn or lost (`Gone`). What is published and no longer in
   a feed is one of the three too (`FeedIsWhole`), so that before the newest of the new videos every one is new or gone (`WorkerCovered`). That a finite set of numbers has a newest one, which
   the code takes by order of publication, comes from the well-foundedness theorem of the library.
2. `FailuresAreLocal`: `CallsLocal` relates a call's fetched videos to what its workers still hold, what is stored and which channels failed.
3. `IndexFollows`: the search index has one row per stored video; not in a run, to keep its state space small.

`PlayerControllerProofs`, from `ControllerAssumption`, for any callers, attempts and length of the channel.

1. `ControllerTyped`.
2. `StopsAreFinal`, from `StopInv`: only the holder of `loadMu` loads (`HolderLoads`), attempts begin in the order of their generations
   (`LaterIsUnborn`), a Stop takes a generation that no attempt has (`StopsAreNoAttempts`), and so the holder is newer than every Stop that
   returned (`HolderIsNewer`).
3. `LoadsAreInOrder`, from `OrderInv`: what the player plays, the relay holds and the channel carries are attempts that were announced
   (`Announced`, `EventsAnnounced`), and the next one to be announced is newer than all of them.

`ServiceProofs`: the launcher, from `LaunchAssumption` (`Absent` is no database and no origin), for any number of starts.

1. `ServesItsOwn` and `SavedOutlives`, from `StartInv`: a clone begins only where no file exists and nobody opens the
   database until it ends (`CloneIsAlone`); from the pruning of any start on, foreign rows never come back (`PrunedStays`); what was saved
   implies a database that no start can clone over (`SavedStands`).

`ServiceProofs`: the playlists, from `PlaylistAssumption` (finitely many videos, a playlist can be created, a call names at least one
video), for any videos, batches and number of playlists and operations.

1. About the rows of a playlist: `Arranged` says that each position from 0 on belongs to one video. Appending, removing, numbering a sequence
   and shifting keep it (`AppendedArranged`, `RemovedArranged`, `PositionsArranged`, `ShiftedArranged`), a call with several videos by the least
   number of them after which it fails (`ChangesArranged`), and sorting arranged rows gives back the sequence they number (`OrderedOf`).
2. `MovedByShifts` and `MovedToShifts`: both ways to move a video are one shift (`ReinsertedOrder` follows the entry that is taken out and put back).
   `MovesAlwaysAgree` is the case of the property.
3. `PlaylistsTyped`, `PlaylistsStayContiguous`, `RulesStayReadable` and `RestoresAreFaithful`, from `PlaylistInv`. That the tables are good is not
   inductive: a restore swaps in a copy, an import fills what its file names, and both were made steps before. `GoodState` says of the copy
   what holds of the tables; `GoodFile` that a file names playlists that were created, by sequences that may repeat a video, and
   rules of any version, so that the guards of the code (`Importable`, `Upgradable`) are what keeps them out; `Restoring` how far the copy agrees with the file.

`AnswerProofs`: the resolver, from `ResolverAssumption`, for any callers, keys, providers, lifetimes and size of the cache.

1. `ResolverTyped` and `CookiesComeLast`, from `OrderInv`. What a flight has collected when it reaches the cookies depends on how it went
   through the chain: `ChainIsOpen` says that a flight that may still try a provider has met neither a rate limit nor a final failure.
2. `ExtractionsMissed` and `CachedPlansAreFresh`, from `CacheInv`. A flight past its second look at the cache has missed
   (`ExtractingMissed`), and it stays so because a plan is stored by the flight of its own key only, and entries only expire or leave
   otherwise (`Shrinks`); `EntriesKeepMargin` relates the deadline that `storePlan` computed to the one the plan announced; one entry enters after
   room was made (`CacheIsBounded`).
3. `WaitersAreServed`: whoever waits has a flight that is under way. With the fairness of section 5 it is the reason for
   `CallsAreAnswered`, which stays with TLC.

`AnswerProofs`: the library, for any questions whose data a database, a form or a provider can hold (`FilterAssumption`, `SearchAssumption`,
`HomeAssumption`, `PageAssumption`, `ListAssumption`: durations, positions and dates are not negative, a video has one row, the lines of a playlist are those
of `M3U`, an address is no failure; `SizeAssumption`: pages have a positive size). A question never changes, so each theorem is a lemma about operators
for one kind of question; induction is over the least place at which a claim fails, since the library's induction theorem takes an operator.

1. `FiltersAlwaysAgree`: neutral options pass every video (`NeutralFilter`, `VideoMatches`), so that a filter with few options is the conjunction of their tests;
   these are written differently on each side and compared one by one (`WatchedAlike`, `DurationAlike`, `LiveAlike`), a video without a row of progress included.
2. `Selected` picks each chosen place once, in the order of its key, because `Precedes` is total: the rank of a place is the
   number of those before it, and it is onto by counting (`RankGrows`). From it `SearchAlwaysHonoursOptions`: the filtered page has the places of the items that
   fit, the sort is by a key that is an integer (`ScoreIsInteger`, `KeyIsInteger`), and equal keys keep the provider's order; `MatchesEachOption` splits the
   local filter into its options, of which the neutral ones exclude nothing (`NeutralFits`).
3. `PagesAlwaysPartition`: a reader has after each page what comes before its cursor (`ReadersFollow`), so that it ends with the list, whatever the
   clamped size (`SubscriptionsWhole`, `ListingWhole`, `SearchWhole`). A public search asks for all up to the end of the page and cuts: that is the same window (`WindowOfFirst`).
4. `HomeAlwaysSound`: `AfterPicks` is the invariant of the ranking: what is picked is a greedy prefix (`IsGreedy`), no video twice, the penalties count
   the picks of each channel (`Counted`), and what remains is the rest, although `SwappedOut` moves the last one. The best one exists because scores are integers
   (`GreatestFirst`), which follows the score from the words of a topic to the fading of a channel.
5. `ImportsAlwaysAgree`: storing a batch and then reading a line is reading it and then storing (`ParsedFlushed`), so that a parse in batches of any size
   ends as one that stores each entry by itself (`ParseIsFlushed`); an entry is counted exactly when its address follows (`EntriesCounted`), so the
   limit is met where the count passes it; pages are consecutive windows (`PagesAreTheList`); the first row by id that can be played and the first
   by identity are found in the same places when the namesakes share both (`StreamsAlwaysAgree`). Without that condition the claim fails, and so does the code (section 7).

`PlayerPipelineProofs`, from `PipelineAssumption`, for any videos, channels, loads and size of the plan cache.

1. `PipelineTyped`, `ShownIsRequested` and `SpinnerIsJustified`, from `StoreInv`. At most one load is the one the store listens to
   (`GenerationsPass`), the store shows its video without a plan (`AwaitedIsRequested`), every entry of the plan cache answers a load
   of its own video (`Answered`), and so does the plan in the store (`ShownIsAnswered`). That the spinner only turns while such
   a load is under way is the safety part of `LoadSettles`.
2. `ElementFollows`, from `ElementInv`: an import that may still touch the element was started for the plan the element loaded last
   (`ImportsPass`), which is the one in the store (`LoadedIsShown`). Its hypothesis `PlaysHLS` is that the webview plays HLS with MSE or by itself. The
   proof attempt without it fails for a reason: with neither, `loadStream` attaches nothing and detaches nothing either, so the stream of the video before
   stays on the element. The webviews the program ships with have one of the two, and so have the runs.

`PlaybackQueueProofs`, from `QueueAssumption` (the stored queue obeys the limit and there are videos for it), for any profiles, videos, items and calls.

1. `QueueTyped` and `QueueIsOrdered`, from `QueueInv`. `ORDER BY position` with ties broken by id orders any rows, gaps and equal positions
   included, so that a row's rank is a number of its own (`RankOnto`, by counting), and `normalizeQueuePositions` gives each row a position
   of its own. `IdsAreIssued` and `AddsFit` keep the id of a new row apart from those of every row there is.
2. `OrderFollowsUser`, an action property: normalization keeps the order, deletions and marks touch no position, a video that is queued
   goes behind all others; the only other step is the reordering of the call that asked for it (`KeepsOrder`).

`IPTVProofs`, from `IPTVAssumption` (playlists are not empty, limits are positive, `None` outside the sets), for any sources and calls, playlists of any length and
batches of any size.

1. About the parser, by induction over the lines (the least line at which a claim fails, since the library's induction theorem takes an
   operator): the states of the parser are those its step gives (`AfterEach`), its output only grows (`ParsedPrefixed`), and it does not look at what it has handed over
   already (`Regrouped`, `ParsedStep`). About the table: inserting two batches one after the other is inserting them as one (`InsertedTwice`).
2. `SourcesTyped`, from `DatabaseInv`: `Isolated` says that whoever holds the connection works on a copy that nobody else writes, and
   that it differs from the tables by what the transaction did (`WorkOn`, `Imports`). `Between` carries an import through its lines: what was inserted so far, what
   the parser keeps and the lines to come are together the playlist.
3. `SnapshotsWhole`, an action property: at the commit `Imports` says that the rows are those of the whole playlist.
4. `SecretsFollow`, from `Tracked`: of a source that is not torn at most one call is under way, and `Knows` says at each of its steps
   which of keyring and row is ahead of the other, and that what was there before is remembered until it cannot be needed.

Only model-checked:

- liveness (`RevokedTransfersStop`, `LoadSettles`, `CallsAreAnswered`, `PlaybackEnds`, `EveryCallReturns`, `CallsReturn`) and
  everything that rests on ENABLED, which the prover does not handle;
- the operators of `Catalogue`, `Search`, `Suggestions` and `M3U` that no property of `Discovery` is about (`SubscriptionCategories`, `Reasons`,
  the lists that `GetHome` cuts from the recent videos): they are there for the model to be whole;
- nothing is proved about SQLite: that a query returns what `Selection` says (ties in the order of the rows) is an assumption of the model.

Every invariant of every passing run is a theorem.

## 7. Where code and documents disagree

Two are runs that TLC ends with a counterexample; `PROJECT.json` quotes the lines.

- `prefetch`: resting the pointer on a card ends the tokens of the video being watched, since a prefetch publishes its plan.
- `iptv_progress`: a synchronisation deletes the items of the source before it inserts them again, and their progress with them.

Definitions whose comment begins with "Does not hold." state what a document says and the code does not do; put in a
cfg of their module, each ends with a counterexample:

- `PlayerPipeline!CachedPlanIsAlive`: a plan whose tokens are dead is shown from the frontend's cache; `expires_at` is never read
  (`PLAYER_LOADING_PIPELINE.md:138`).
- `PlayerPipeline!CachedPlanIsAttached`: selecting the playing video again leaves the player empty (`VideoPlayer.svelte:74`).
- `PlayerPipeline!SupersededVideoIsSilent`: an HLS import that ends after the user moved on attaches the old stream while the new one is
  resolved (`PLAYER_LOADING_PIPELINE.md:102`).
- `Accounts!SessionMatchesAccount` (with `Kinds <- Search`): a search during a commit that is rolled back keeps the token of the account
  that was not saved (`session.go:157`).
- `Accounts!ResolverFollowsProfile` (with `Kinds <- Switches`): two overlapping profile switches leave the resolver with the cookies of the
  other profile (`services.go:1596`).
- `PlaybackQueue!NextAdvances`: `playNext` gives up when the row of the current item is gone, with items still pending
  (`playerStore.ts:295`, `queue.go:239`).

Met while modelling, and part of what the models do:

- Launcher: credentials are copied only by the start that cloned, so a crash before it never copies them, although ADR-022 expects
  them; keyrings are read in order and the last one wins; pruning HummIPTV leaves the settings of the profile `default`.
- IPTV: a synchronisation writes back the configuration it read before the transaction, so an edit made meanwhile is lost and a source
  deleted meanwhile is back (`NANOIPTV.md:18`); the ambiguity branch of `ResolveFirst` cannot be reached; of two entries
  with one `tvg-id` and two titles, the one by id (`iptv/playback.go:76`) may find the stream of the other, where the one by identity (`services.go:1484`) finds nothing; `replaceIPTVCredential` ignores the error of its
  read; a guide window of no width leaves out the programme that starts just then, which `CurrentIPTVPrograms` includes; an `EXTGRP` after its `EXTINF`
  does not override the inherited group.
- Playlists: a merge import creates an empty playlist beside the one it fills, and fails on the foreign key when the id of the file
  is not there; filtering by channel while sorting by channel is an SQL error; sorting by channel drops the items whose channel has no row.
- Catalogue and search: "continue" begins at the first second in a filter and at 15 s in the search; a video of unknown date passes the age filter of a
  feed and no other; the windows differ at their last instant; an offset shifts when a refresh inserts between two pages; a public search of a channel alone
  returns nothing without an error; a listing page with an entry without id is short and ends the paging.
- Home: "unwatched" and "long videos" are cut from the raw recent list, so Shorts and rejected videos show up there (`services.go:393`
  against `engine.go:80`); `RECOMMENDATIONS.md` subtracts completion from the weight of watching, the code adds the fraction watched.
- Controller: a send may meet the closed channel and panic (`panicked`); the current request may stay that of an older attempt; a forwarded command may reach a
  closed player; an interface that reads the events and calls `Stop` on one goroutine can wait for itself when the channel is full. Only tests construct the controller.
- Runtimes: overlapping activations and rollbacks lose updates; the root of HummTube hides the NanoTube root that `Activate` writes to; a version whose name
  begins with a dot is hidden but can be activated, one surrounded by spaces installs and cannot; a version called `active.json` takes the place of the activation.
- Feeds: a success without new videos leaves the previous error in the row; an older refresh that overlaps moves a marker back (harmless, it fetches again); `RememberVideo`
  overwrites the date and the channel of a stored video; an imported handle becomes a channel whose feed always fails; the search index keeps the old title of a renamed channel.
- `PLAYBACK_BACKENDS.md` still says that the bridge has no notification of a stop, which `RevokePlayerSession` has since added.

## 8. Not modelled

- Pure I/O or stateless conversion: the subprocess runner (its contract, that a provider answers, is the fairness of `CascadingResolver`), the command
  lines and output of the providers, dialling and its refusals, the archive and encryption of a backup, the HTTP server and RPC dispatch (one
  goroutine per call, which every model of a service assumes), the desktop shell, the Last.fm and YouTube Data API clients, diagnostics.
- Views: the frontend's components but for the player, and in the player the quality fallback, adaptive audio, DSP, scrobbling and the saving of progress.
- Single rows that one statement reads or writes and nothing else depends on: folders, notes, presets, settings, names and colours.
- Topics derived from titles (`topics.go`), a conversion whose result is an input of `Suggestions`; the audit log; the OAuth exchange, which succeeds or fails.
- Memory only: a crash of the proxy, the resolver, the player or the controller is an initial state. Crashes are actions where something persists.
