---------------------------- MODULE PlayerPipeline ----------------------------
(***************************************************************************)
(* From a click to a playing element.  Three parties interact:             *)
(*   - playerStore.ts: the store, its loadGeneration, the plan cache;      *)
(*   - the backend: ResolveMedia, which resolves a video and publishes its *)
(*     plan on the media proxy (PlaybackLease), and RevokePlayerSession;   *)
(*   - VideoPlayer.svelte: the media element the plan is attached to.      *)
(* JavaScript runs one handler at a time, so an action of the frontend     *)
(* runs from one await to the next; RPCs run concurrently in the backend   *)
(* and nothing cancels them when the user moves on.                        *)
(***************************************************************************)
EXTENDS Integers, Sequences, FiniteSets, SequencesExt

CONSTANTS
  Videos,
  Channels,    \* of IPTV
  MaxLoads,    \* bound on resolve RPCs
  None,
  MaxEntries,  \* MAX_ENTRIES of playbackPlanCache.ts
  NativeHLS,   \* canPlayType('application/vnd.apple.mpegurl') of this webview
  MSE,         \* HlsPlayer.isSupported() in this webview
  MaxGen       \* bound on loadGeneration

\* Resolve RPCs in the order they are sent, each with the plan it may return.
Loads == 1..MaxLoads

ASSUME PipelineAssumption ==
  /\ MaxLoads \in Nat
  /\ None \notin Loads \cup Videos \cup Channels
  /\ MaxEntries \in Nat \ {0}
  /\ {NativeHLS, MSE} \subseteq BOOLEAN
  /\ MaxGen \in Nat

VARIABLES
  gen,       \* loadGeneration
  store,     \* PlayerState: currentVideo, playbackPlan, isLoading
  cache,     \* the plan cache: entries in the Map's order, oldest first
  loads,     \* per RPC: where it is and what its continuation captured
  revokes,   \* RevokePlayerSession calls still on their way
  element,   \* the mounted VideoPlayer, its media element and generation
  imports,   \* loadStream calls suspended at import('hls.js')
  holder,    \* the plan published on the media proxy
  ended      \* plans whose tokens are dead

vars == <<gen, store, cache, loads, revokes, element, imports, holder, ended>>

\* The media proxy, seen from here: who holds it, and which plans are over.
Proxy == INSTANCE PlaybackLease WITH Plans <- Loads, Requests <- {}, serving <- <<>>

Plans == Loads \cup {None}

TypeOK ==
  /\ gen \in 0..MaxGen
  /\ store \in [video : Videos \cup Channels \cup {None}, plan : Plans, loading : BOOLEAN]
  /\ cache \in Seq([video : Videos, plan : Loads])
  /\ loads \in [Loads -> [pc : {"idle", "resolving", "resolved", "failed", "done"},
                          kind : {"youtube", "iptv", "prefetch"},
                          video : Videos \cup Channels \cup {None}, gen : 0..MaxGen, hls : BOOLEAN]]
  /\ revokes \in Nat
  /\ element \in [mounted : BOOLEAN, loaded : Plans, src : Plans, gen : Nat, hls : BOOLEAN]
  /\ imports \subseteq [plan : Loads, gen : Nat]
  /\ Proxy!LeaseTypeOK

NoPlayer  == [video |-> None, plan |-> None, loading |-> FALSE]
Unmounted == [mounted |-> FALSE, loaded |-> None, src |-> None, gen |-> 0, hls |-> FALSE]

Init ==
  /\ gen = 0
  /\ store = NoPlayer
  /\ cache = <<>>
  /\ loads = [l \in Loads |-> [pc |-> "idle", kind |-> "youtube", video |-> None,
                               gen |-> 0, hls |-> FALSE]]
  /\ revokes = 0
  /\ element = Unmounted
  /\ imports = {}
  /\ Proxy!LeaseInit

--------------------------------------------------------------------------------
(* playbackPlanCache.ts.  Entries also leave by time: see CacheExpires. *)

Places(v)      == {i \in DOMAIN cache : cache[i].video = v}
IsCached(v)    == Places(v) # {}

\* A Map holds a key once.
Place(v)       == CHOOSE i \in Places(v) : TRUE

\* getCachedPlan moves the entry to the recent end.
Touched(v) == Append(RemoveAt(cache, Place(v)), cache[Place(v)])

\* evictLRU drops the oldest entry only once the limit is exceeded.
EvictLRU(c) == IF Len(c) <= MaxEntries THEN c ELSE Tail(c)

\* setCachedPlan: Map.set keeps the place of a key it already has.
Stored(v, plan) ==
  LET c == EvictLRU(cache) IN
  IF \E i \in DOMAIN c : c[i].video = v
  THEN [i \in DOMAIN c |-> IF c[i].video = v THEN [c[i] EXCEPT !.plan = plan] ELSE c[i]]
  ELSE Append(c, [video |-> v, plan |-> plan])

--------------------------------------------------------------------------------
(* VideoPlayer.svelte *)

\* The component lives while there is a current video.
Mounted == IF element.mounted THEN element ELSE [Unmounted EXCEPT !.mounted = TRUE]

\* handleAbortPlayer: pause and clear src, and nothing else.
Aborted == [Mounted EXCEPT !.src = None]

\* The reactive block loads a plan unless it is the one already loaded.
\* loadStream bumps the generation and destroys the HLS instance, which
\* detaches it; an HLS stream then waits for the decoder to be imported.
Attach(el, plan, hls) ==
  IF plan = el.loaded THEN el
  ELSE [el EXCEPT !.loaded = plan, !.gen = @ + 1, !.hls = FALSE,
                  !.src = IF ~hls THEN plan ELSE IF el.hls THEN None ELSE @]

PendingImport(el, plan, hls) ==
  IF hls /\ plan # el.loaded THEN {[plan |-> plan, gen |-> el.gen + 1]} ELSE {}

\* A plan enters the store, and the component reacts to it.
Show(el, plan) ==
  /\ store' = [store EXCEPT !.plan = plan, !.loading = FALSE]
  /\ element' = Attach(el, plan, loads[plan].hls)
  /\ imports' = imports \cup PendingImport(el, plan, loads[plan].hls)

--------------------------------------------------------------------------------
(* playerStore.ts *)

\* A call of resolveMedia, or of the IPTV resolver, is sent.
Send(l, kind, v, g) ==
  /\ loads[l].pc = "idle" /\ \A k \in 1..l-1 : loads[k].pc # "idle"
  /\ loads' = [loads EXCEPT ![l] = [pc |-> "resolving", kind |-> kind, video |-> v,
                                    gen |-> g, hls |-> FALSE]]

\* Everything loadVideo and loadResolvedVideo do before the plan is there.
Supersede ==
  /\ gen < MaxGen
  /\ gen' = gen + 1

\* loadVideo, plan not cached: the RPC is sent and the handler suspends.
LoadVideo(v, l) ==
  /\ Supersede
  /\ ~IsCached(v)
  /\ store' = [video |-> v, plan |-> None, loading |-> TRUE]
  /\ element' = Aborted
  /\ Send(l, "youtube", v, gen')
  /\ UNCHANGED <<cache, revokes, imports, holder, ended>>

\* loadVideo, plan cached: the whole handler runs without an await.
LoadCachedVideo(v) ==
  /\ Supersede
  /\ IsCached(v)
  /\ LET plan == cache[Place(v)].plan IN
       /\ store' = [video |-> v, plan |-> plan, loading |-> FALSE]
       /\ element' = Attach(Aborted, plan, loads[plan].hls)
       /\ imports' = imports \cup PendingImport(Aborted, plan, loads[plan].hls)
  /\ cache' = Touched(v)
  /\ UNCHANGED <<loads, revokes, holder, ended>>

\* loadResolvedVideo, which only NanoIPTV uses.
LoadIPTV(c, l) ==
  /\ Supersede
  /\ store' = [video |-> c, plan |-> None, loading |-> TRUE]
  /\ element' = Aborted
  /\ Send(l, "iptv", c, gen')
  /\ UNCHANGED <<cache, revokes, imports, holder, ended>>

\* prefetchVideo, 300 ms after the pointer rests on a card.
PrefetchVideo(v, l) ==
  /\ ~IsCached(v) /\ ~store.loading
  /\ Send(l, "prefetch", v, 0)
  /\ UNCHANGED <<gen, store, cache, revokes, element, imports, holder, ended>>

\* closePlayer: the component unmounts and the backend is asked to revoke.
ClosePlayer ==
  /\ Supersede
  /\ store' = NoPlayer
  /\ element' = Unmounted
  /\ imports' = {}
  /\ revokes' = revokes + 1
  /\ UNCHANGED <<cache, loads, holder, ended>>

\* Mutation: any answer that is not a prefetch's may touch the store.
LatestUnguarded(l) == loads[l].kind # "prefetch"

\* generation !== loadGeneration: only the latest load may touch the store.
Latest(l) == loads[l].kind # "prefetch" /\ loads[l].gen = gen

\* The continuation of a resolved RPC.  The cache is filled whatever the
\* generation; the store only by the latest load.
Resolved(l) ==
  /\ loads[l].pc = "resolved"
  /\ loads' = [loads EXCEPT ![l].pc = "done", ![l].gen = 0]
  /\ cache' = IF loads[l].kind = "iptv" THEN cache ELSE Stored(loads[l].video, l)
  /\ \/ /\ Latest(l)
        /\ Show(element, l)
     \/ /\ ~Latest(l)
        /\ UNCHANGED <<store, element, imports>>
  /\ UNCHANGED <<gen, revokes, holder, ended>>

\* Mutation: the error path forgets isLoading.
RejectedSilently(l) ==
  /\ loads[l].pc = "failed"
  /\ loads' = [loads EXCEPT ![l].pc = "done", ![l].gen = 0]
  /\ UNCHANGED <<gen, store, cache, revokes, element, imports, holder, ended>>

\* The continuation of a rejected RPC.
Rejected(l) ==
  /\ loads[l].pc = "failed"
  /\ loads' = [loads EXCEPT ![l].pc = "done", ![l].gen = 0]
  /\ store' = IF Latest(l) THEN [store EXCEPT !.loading = FALSE] ELSE store
  /\ UNCHANGED <<gen, cache, revokes, element, imports, holder, ended>>

\* Mutation: the import attaches whatever was loaded meanwhile.
ImportResolvesStale(i) ==
  /\ i \in imports
  /\ imports' = imports \ {i}
  /\ element' = [element EXCEPT !.src = i.plan, !.hls = MSE]
  /\ UNCHANGED <<gen, store, cache, loads, revokes, holder, ended>>

\* import('hls.js') resolves: stale calls return, the current one attaches an HLS
\* instance, or the element plays the stream itself where there is no MSE.
ImportResolves(i) ==
  /\ i \in imports
  /\ imports' = imports \ {i}
  /\ element' = IF i.gen = element.gen
                THEN [element EXCEPT !.src = i.plan, !.hls = MSE] ELSE element
  /\ UNCHANGED <<gen, store, cache, loads, revokes, holder, ended>>

\* The import fails: the stream is given to the element itself, or an error is
\* shown (setError, which ends isLoading).
ImportFails(i) ==
  /\ i \in imports
  /\ imports' = imports \ {i}
  /\ LET current == i.gen = element.gen IN
       /\ element' = IF current /\ NativeHLS THEN [element EXCEPT !.src = i.plan] ELSE element
       /\ store' = IF current /\ ~NativeHLS THEN [store EXCEPT !.loading = FALSE] ELSE store
  /\ UNCHANGED <<gen, cache, loads, revokes, holder, ended>>

\* Time: an entry reaches its five minutes.
CacheExpires ==
  /\ cache # <<>>
  /\ \E i \in DOMAIN cache : cache' = RemoveAt(cache, i)
  /\ UNCHANGED <<gen, store, loads, revokes, element, imports, holder, ended>>

--------------------------------------------------------------------------------
(* The backend *)

\* ResolveMedia resolves and publishes the plan, which takes the proxy over;
\* ResolveIPTVStream hands out the stream as it is.
Resolve(l) ==
  /\ loads[l].pc = "resolving"
  /\ \E hls \in BOOLEAN : loads' = [loads EXCEPT ![l].pc = "resolved", ![l].hls = hls]
  /\ \/ loads[l].kind # "iptv" /\ Proxy!Grant(l)
     \/ loads[l].kind = "iptv" /\ UNCHANGED <<holder, ended>>
  /\ UNCHANGED <<gen, store, cache, revokes, element, imports>>

ResolveFails(l) ==
  /\ loads[l].pc = "resolving"
  /\ loads' = [loads EXCEPT ![l].pc = "failed"]
  /\ UNCHANGED <<gen, store, cache, revokes, element, imports, holder, ended>>

\* RevokePlayerSession is handled, perhaps after a later plan was published.
RevokePlayerSession ==
  /\ revokes > 0
  /\ revokes' = revokes - 1
  /\ Proxy!Release
  /\ UNCHANGED <<gen, store, cache, loads, element, imports>>

\* The deadline of the published plan.
PlanExpires ==
  /\ holder # None /\ Proxy!EndLifetime(holder)
  /\ UNCHANGED <<gen, store, cache, loads, revokes, element, imports>>

--------------------------------------------------------------------------------
User ==
  \/ \E v \in Videos, l \in Loads : LoadVideo(v, l) \/ PrefetchVideo(v, l)
  \/ \E c \in Channels, l \in Loads : LoadIPTV(c, l)
  \/ \E v \in Videos : LoadCachedVideo(v)
  \/ ClosePlayer

Backend(l)  == Resolve(l) \/ ResolveFails(l)
Continue(l) == Resolved(l) \/ Rejected(l)

Next ==
  \/ User
  \/ \E l \in Loads : Backend(l) \/ Continue(l)
  \/ \E i \in imports : ImportResolves(i) \/ ImportFails(i)
  \/ RevokePlayerSession \/ PlanExpires \/ CacheExpires

\* Extractors and RPCs have time-outs, so every call is answered; the event loop
\* runs every continuation.  The user need not do anything.
Fairness == \A l \in Loads : WF_vars(Backend(l)) /\ WF_vars(Continue(l))

Spec == Init /\ [][Next]_vars /\ Fairness

--------------------------------------------------------------------------------
(* Properties *)

\* The plan in the store is that of the video the user asked for last, and a
\* closed player has none, in whatever order the backend answers.
ShownPlanIsRequested ==
  store.plan # None => loads[store.plan].video = store.video

\* Once a plan is shown and the decoder it needs was imported, the element carries
\* that plan's stream or none: imports that started for earlier plans, and that
\* may end later, never attach over it.
ElementFollowsStore ==
  /\ store.plan # None
  /\ [plan |-> store.plan, gen |-> element.gen] \notin imports
  => element.src \in {None, store.plan}

\* Every load ends: the spinner does not stay for ever after superseded, failed
\* or late answers.
LoadSettles == store.loading ~> ~store.loading

\* Violated.  Pre-loading the video under the pointer is invisible to the video
\* being watched: publishing a prefetched plan ends no plan the element is using.
PrefetchKeepsPlayback ==
  [][\A l \in Loads : loads[l].kind = "prefetch" /\ Resolve(l) =>
       element.src \notin ended' \ ended]_vars

\* Does not hold.  A plan taken from the cache is still alive when it is shown; a
\* dead one is resolved anew.
CachedPlanIsAlive ==
  [][\A v \in Videos : LoadCachedVideo(v) => store'.plan \notin ended]_vars

\* Does not hold.  The stream of a plan taken from the cache is attached, or its
\* decoder is on the way: selecting the playing video again must not leave it
\* without one.
CachedPlanIsAttached ==
  [][\A v \in Videos : LoadCachedVideo(v) =>
       \/ element'.src = store'.plan
       \/ [plan |-> store'.plan, gen |-> element'.gen] \in imports']_vars

\* Does not hold.  A click on video 2 before video 1 has started silences video 1:
\* while the new plan is resolved the element carries no stream.
SupersededVideoIsSilent ==
  store.loading /\ store.plan = None => element.src = None
================================================================================
