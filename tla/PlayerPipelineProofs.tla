------------------------- MODULE PlayerPipelineProofs -------------------------
(***************************************************************************)
(* What the player shows, for any number of videos, loads and entries of   *)
(* the plan cache, in whatever order answers, imports and expiries come.   *)
(* The argument, in this order:                                            *)
(*   - every entry of the plan cache is the answer to a load of its video; *)
(*   - a load that may still touch the store is the last one asked for, so *)
(*     the store is waiting for it;                                        *)
(*   - an import that may still touch the element was started for the plan *)
(*     the element loaded last, which is the one in the store.             *)
(***************************************************************************)
EXTENDS PlayerPipeline, SequenceTheorems, TLAPS

--------------------------------------------------------------------------------
(* Sequences. *)

LEMMA RemoveAtType ==
  ASSUME NEW S, NEW s \in Seq(S), NEW i \in DOMAIN s
  PROVE  RemoveAt(s, i) \in Seq(S) /\ Len(RemoveAt(s, i)) = Len(s) - 1
<1>1. i \in 1..Len(s) /\ Len(s) \in Nat
  BY LenProperties
<1>2. SubSeq(s, 1, i - 1) \in Seq(S) /\ Len(SubSeq(s, 1, i - 1)) = i - 1
  BY <1>1, SubSeqProperties
<1>3. SubSeq(s, i + 1, Len(s)) \in Seq(S) /\ Len(SubSeq(s, i + 1, Len(s))) = Len(s) - i
  BY <1>1, SubSeqProperties
<1>. DEFINE s1 == SubSeq(s, 1, i - 1)
            s2 == SubSeq(s, i + 1, Len(s))
<1>4. RemoveAt(s, i) = s1 \o s2
  BY DEF RemoveAt
<1>. HIDE DEF s1, s2
<1>5. s1 \o s2 \in Seq(S) /\ Len(s1 \o s2) = Len(s1) + Len(s2)
  BY <1>2, <1>3, ConcatProperties DEF s1, s2
<1>6. Len(s1) + Len(s2) = Len(s) - 1
  BY <1>1, <1>2, <1>3, SMTT(30) DEF s1, s2
<1>. QED  BY <1>4, <1>5, <1>6

LEMMA MappedType ==
  ASSUME NEW S, NEW T, NEW s \in Seq(S), NEW t, DOMAIN t = DOMAIN s, t = [i \in DOMAIN t |-> t[i]],
         \A i \in DOMAIN s : t[i] \in T
  PROVE  t \in Seq(T) /\ Len(t) = Len(s)
<1>1. Len(s) \in Nat /\ DOMAIN s = 1..Len(s)
  BY LenProperties
<1>2. t \in [1..Len(s) -> T]
  BY <1>1
<1>. QED  BY <1>1, <1>2, SeqDef, LenProperties

--------------------------------------------------------------------------------
(* The plan cache. *)

CacheEntry == [video : Videos, plan : Loads]

LEMMA EvictType ==
  ASSUME NEW S, NEW c \in Seq(S), Len(c) <= MaxEntries + 1
  PROVE  EvictLRU(c) \in Seq(S) /\ Len(EvictLRU(c)) <= MaxEntries
<1>1. Len(c) \in Nat /\ MaxEntries \in Nat \ {0}
  BY LenProperties, PipelineAssumption
<1>2. CASE Len(c) <= MaxEntries
  BY <1>2 DEF EvictLRU
<1>3. CASE ~(Len(c) <= MaxEntries)
  <2>1. c # <<>>
    BY <1>1, <1>3
  <2>2. Tail(c) \in Seq(S) /\ Len(Tail(c)) = Len(c) - 1
    BY <2>1, HeadTailProperties
  <2>. QED  BY <1>1, <1>3, <2>2 DEF EvictLRU
<1>. QED  BY <1>2, <1>3

LEMMA EntryReplaced ==
  ASSUME NEW c \in CacheEntry, NEW plan
  PROVE  [c EXCEPT !.plan = plan] = [video |-> c.video, plan |-> plan]
BY DEF CacheEntry

LEMMA StoredType ==
  ASSUME NEW S, S \subseteq CacheEntry, cache \in Seq(S), Len(cache) <= MaxEntries + 1,
         NEW v, NEW plan, [video |-> v, plan |-> plan] \in S
  PROVE  Stored(v, plan) \in Seq(S) /\ Len(Stored(v, plan)) <= MaxEntries + 1
<1>. DEFINE c == EvictLRU(cache)
            e == [video |-> v, plan |-> plan]
<1>1. c \in Seq(S) /\ Len(c) <= MaxEntries /\ Len(c) \in Nat /\ MaxEntries \in Nat
  BY EvictType, LenProperties, PipelineAssumption
<1>2. CASE \E i \in DOMAIN c : c[i].video = v
  <2>. DEFINE t == [i \in DOMAIN c |-> IF c[i].video = v THEN [c[i] EXCEPT !.plan = plan] ELSE c[i]]
  <2>1. Stored(v, plan) = t
    BY <1>2 DEF Stored
  <2>2. ASSUME NEW i \in DOMAIN c PROVE t[i] \in S
    <3>1. c[i] \in S
      BY <1>1, ElementOfSeq, LenProperties
    <3>2. c[i].video = v => [c[i] EXCEPT !.plan = plan] = e
      <4>1. c[i] \in CacheEntry
        BY <3>1
      <4>. HIDE DEF c
      <4>. QED  BY <4>1, EntryReplaced
    <3>. HIDE DEF c, e
    <3>3. e \in S
      BY DEF e
    <3>4. t[i] = IF c[i].video = v THEN [c[i] EXCEPT !.plan = plan] ELSE c[i]
      OBVIOUS
    <3>. HIDE DEF t
    <3>. QED  BY <3>1, <3>2, <3>3, <3>4
  <2>3. t = [i \in DOMAIN t |-> t[i]] /\ DOMAIN t = DOMAIN c
    OBVIOUS
  <2>4. t \in Seq(S) /\ Len(t) = Len(c)
    <3>. HIDE DEF t, c
    <3>. QED  BY <1>1, <2>2, <2>3, MappedType
  <2>. QED  BY <1>1, <2>1, <2>4
<1>3. CASE ~\E i \in DOMAIN c : c[i].video = v
  <2>1. Stored(v, plan) = Append(c, e)
    BY <1>3 DEF Stored
  <2>. HIDE DEF c, e
  <2>2. e \in S
    BY DEF e
  <2>. QED  BY <1>1, <2>1, <2>2, AppendProperties
<1>. QED  BY <1>2, <1>3

LEMMA TouchedType ==
  ASSUME NEW S, cache \in Seq(S), NEW v, IsCached(v)
  PROVE  /\ Touched(v) \in Seq(S) /\ Len(Touched(v)) = Len(cache)
         /\ cache[Place(v)] \in S /\ cache[Place(v)].video = v
<1>1. Place(v) \in DOMAIN cache /\ cache[Place(v)].video = v
  BY DEF IsCached, Place, Places
<1>2. cache[Place(v)] \in S /\ Len(cache) \in Nat
  BY <1>1, ElementOfSeq, LenProperties
<1>3. RemoveAt(cache, Place(v)) \in Seq(S) /\ Len(RemoveAt(cache, Place(v))) = Len(cache) - 1
  BY <1>1, RemoveAtType
<1>. QED  BY <1>1, <1>2, <1>3, AppendProperties DEF Touched

--------------------------------------------------------------------------------
(* Types. *)

\* Only a load of NanoIPTV is of a channel.
LoadsHaveVideos ==
  \A l \in Loads : loads[l].pc # "idle" /\ loads[l].kind # "iptv" => loads[l].video \in Videos

CacheIsBounded == Len(cache) <= MaxEntries + 1

Typed == TypeOK /\ LoadsHaveVideos /\ CacheIsBounded

LEMMA InitTyped == Init => Typed
BY PipelineAssumption, EmptySeq
   DEF Init, Typed, TypeOK, LoadsHaveVideos, CacheIsBounded, Loads, Plans, NoPlayer, Unmounted,
       Proxy!LeaseInit, Proxy!LeaseTypeOK

ElementType == [mounted : BOOLEAN, loaded : Plans, src : Plans, gen : Nat, hls : BOOLEAN]

LEMMA UnmountedType == Unmounted \in ElementType
BY DEF Unmounted, ElementType, Plans

LEMMA AbortedType == TypeOK => Aborted \in ElementType
BY UnmountedType DEF TypeOK, Aborted, Mounted, Unmounted, ElementType, Plans

LEMMA AttachType ==
  ASSUME NEW el \in ElementType, NEW plan \in Loads, NEW hls \in BOOLEAN
  PROVE  /\ Attach(el, plan, hls) \in ElementType
         /\ PendingImport(el, plan, hls) \subseteq [plan : Loads, gen : Nat]
<1>1. CASE plan = el.loaded
  BY <1>1 DEF Attach, PendingImport
<1>2. CASE plan # el.loaded
  <2>1. el.gen + 1 \in Nat /\ el.loaded \in Plans /\ plan \in Plans /\ None \in Plans /\ el.src \in Plans
    BY DEF ElementType, Plans
  <2>2. Attach(el, plan, hls) \in ElementType
    BY <1>2, <2>1 DEF Attach, ElementType
  <2>. QED  BY <1>2, <2>1, <2>2 DEF PendingImport
<1>. QED  BY <1>1, <1>2

LoadType ==
  [pc : {"idle", "resolving", "resolved", "failed", "done"}, kind : {"youtube", "iptv", "prefetch"},
   video : Videos \cup Channels \cup {None}, gen : 0..MaxGen, hls : BOOLEAN]

\* A continuation ends its load.
LEMMA SettledType ==
  ASSUME Typed, NEW l \in Loads, loads[l].pc # "idle",
         loads' = [loads EXCEPT ![l].pc = "done", ![l].gen = 0]
  PROVE  loads' \in [Loads -> LoadType] /\ LoadsHaveVideos'
<1>1. 0 \in 0..MaxGen /\ loads \in [Loads -> LoadType]
  BY PipelineAssumption DEF Typed, TypeOK, LoadType
<1>2. loads' \in [Loads -> LoadType]
  BY <1>1, ZenonT(60) DEF LoadType
<1>3. LoadsHaveVideos'
  BY <1>1 DEF Typed, LoadsHaveVideos, LoadType
<1>. QED  BY <1>2, <1>3

LEMMA SendType ==
  ASSUME Typed, NEW l \in Loads, NEW kind \in {"youtube", "iptv", "prefetch"},
         NEW v \in Videos \cup Channels, kind # "iptv" => v \in Videos,
         NEW g \in 0..MaxGen, Send(l, kind, v, g)
  PROVE  loads' \in [Loads -> LoadType] /\ LoadsHaveVideos'
BY DEF Send, Typed, TypeOK, LoadType, LoadsHaveVideos

\* The media proxy as the player sees it.
LEMMA LeaseType ==
  ASSUME Proxy!LeaseTypeOK,
         \/ \E l \in Loads : Proxy!Grant(l)
         \/ Proxy!Release
         \/ holder # None /\ Proxy!EndLifetime(holder)
         \/ UNCHANGED <<holder, ended>>
  PROVE  Proxy!LeaseTypeOK'
BY DEF Proxy!LeaseTypeOK, Proxy!Grant, Proxy!Release, Proxy!EndLifetime, Proxy!Retired

LEMMA TypedStep == Typed /\ [Next]_vars => Typed'
<1>. SUFFICES ASSUME Typed, [Next]_vars PROVE Typed'
  OBVIOUS
<1>0. /\ cache \in Seq(CacheEntry) /\ Len(cache) <= MaxEntries + 1
      /\ gen \in Nat /\ MaxGen \in Nat /\ element \in ElementType /\ Aborted \in ElementType
      /\ store.video \in Videos \cup Channels \cup {None} /\ store.plan \in Plans /\ store.loading \in BOOLEAN
      /\ Proxy!LeaseTypeOK
  BY PipelineAssumption, AbortedType DEF Typed, TypeOK, CacheIsBounded, CacheEntry, ElementType
<1>1. ASSUME NEW v \in Videos, NEW l \in Loads, LoadVideo(v, l) PROVE Typed'
  <2>1. gen' \in 0..MaxGen
    BY <1>0, <1>1 DEF LoadVideo, Supersede
  <2>2. store' \in [video : Videos \cup Channels \cup {None}, plan : Plans, loading : BOOLEAN]
    BY <1>1 DEF LoadVideo, Plans
  <2>. QED  BY <1>0, <1>1, <2>1, <2>2, SendType, LeaseType DEF LoadVideo, Typed, TypeOK, LoadType, CacheIsBounded, ElementType
<1>2. ASSUME NEW v \in Videos, NEW l \in Loads, PrefetchVideo(v, l) PROVE Typed'
  BY <1>0, <1>2, SendType, LeaseType DEF PrefetchVideo, Typed, TypeOK, LoadType, CacheIsBounded
<1>3. ASSUME NEW c \in Channels, NEW l \in Loads, LoadIPTV(c, l) PROVE Typed'
  <2>1. gen' \in 0..MaxGen
    BY <1>0, <1>3 DEF LoadIPTV, Supersede
  <2>2. store' \in [video : Videos \cup Channels \cup {None}, plan : Plans, loading : BOOLEAN]
    BY <1>3 DEF LoadIPTV, Plans
  <2>. QED  BY <1>0, <1>3, <2>1, <2>2, SendType, LeaseType DEF LoadIPTV, Typed, TypeOK, LoadType, CacheIsBounded, ElementType
<1>4. ASSUME NEW v \in Videos, LoadCachedVideo(v) PROVE Typed'
  <2>. DEFINE plan == cache[Place(v)].plan
  <2>1. Touched(v) \in Seq(CacheEntry) /\ Len(Touched(v)) = Len(cache) /\ plan \in Loads
    <3>1. IsCached(v)
      BY <1>4 DEF LoadCachedVideo
    <3>2. /\ Touched(v) \in Seq(CacheEntry) /\ Len(Touched(v)) = Len(cache)
          /\ cache[Place(v)] \in CacheEntry
      BY <1>0, <3>1, TouchedType
    <3>. QED  BY <3>2 DEF CacheEntry
  <2>2. loads[plan].hls \in BOOLEAN
    BY <2>1 DEF Typed, TypeOK
  <2>3. gen' \in 0..MaxGen
    BY <1>0, <1>4 DEF LoadCachedVideo, Supersede
  <2>4. store' \in [video : Videos \cup Channels \cup {None}, plan : Plans, loading : BOOLEAN]
    BY <1>4, <2>1 DEF LoadCachedVideo, Plans
  <2>5. element' \in ElementType /\ imports' \subseteq [plan : Loads, gen : Nat]
    BY <1>0, <1>4, <2>1, <2>2, AttachType DEF LoadCachedVideo, Typed, TypeOK
  <2>6. cache' = Touched(v) /\ UNCHANGED <<loads, revokes, holder, ended>>
    BY <1>4 DEF LoadCachedVideo
  <2>7. TypeOK'
    <3>. HIDE DEF plan
    <3>. QED  BY <1>0, <2>6, <2>5, <2>4, <2>3, <2>1, LeaseType DEF Typed, TypeOK, ElementType, CacheEntry
  <2>. QED  BY <1>0, <2>1, <2>6, <2>7 DEF Typed, LoadsHaveVideos, CacheIsBounded
<1>5. CASE ClosePlayer
  BY <1>0, <1>5, UnmountedType, LeaseType
     DEF ClosePlayer, Supersede, NoPlayer, Plans, Typed, TypeOK, LoadsHaveVideos, CacheIsBounded, ElementType
<1>6. ASSUME NEW l \in Loads, Resolve(l) PROVE Typed'
  <2>1. PICK hls \in BOOLEAN : loads' = [loads EXCEPT ![l].pc = "resolved", ![l].hls = hls]
    BY <1>6 DEF Resolve
  <2>2. loads' \in [Loads -> LoadType] /\ LoadsHaveVideos'
    <3>1. loads \in [Loads -> LoadType] /\ loads[l].pc = "resolving"
      BY <1>6 DEF Resolve, Typed, TypeOK, LoadType
    <3>2. \A r \in LoadType : [r EXCEPT !.pc = "resolved", !.hls = hls] \in LoadType
      BY DEF LoadType
    <3>3. loads' = [loads EXCEPT ![l] = [loads[l] EXCEPT !.pc = "resolved", !.hls = hls]]
      BY <2>1, <3>1
    <3>4. loads' \in [Loads -> LoadType]
      BY <3>1, <3>2, <3>3
    <3>5. \A k \in Loads : /\ loads'[k].kind = loads[k].kind /\ loads'[k].video = loads[k].video
                           /\ loads[k].pc = "idle" => loads'[k].pc = "idle"
      BY <3>1, <3>3 DEF LoadType
    <3>. QED  BY <3>4, <3>5 DEF Typed, LoadsHaveVideos
  <2>. QED  BY <1>0, <1>6, <2>2, LeaseType DEF Resolve, Typed, TypeOK, LoadType, CacheIsBounded
<1>7. ASSUME NEW l \in Loads, ResolveFails(l) PROVE Typed'
  <2>1. loads' \in [Loads -> LoadType] /\ LoadsHaveVideos'
    <3>1. loads \in [Loads -> LoadType] /\ loads[l].pc = "resolving"
      BY <1>7 DEF ResolveFails, Typed, TypeOK, LoadType
    <3>2. \A r \in LoadType : [r EXCEPT !.pc = "failed"] \in LoadType
      BY DEF LoadType
    <3>3. loads' = [loads EXCEPT ![l] = [loads[l] EXCEPT !.pc = "failed"]]
      BY <1>7, <3>1 DEF ResolveFails
    <3>4. loads' \in [Loads -> LoadType]
      BY <3>1, <3>2, <3>3
    <3>5. \A k \in Loads : /\ loads'[k].kind = loads[k].kind /\ loads'[k].video = loads[k].video
                           /\ loads[k].pc = "idle" => loads'[k].pc = "idle"
      BY <3>1, <3>3 DEF LoadType
    <3>. QED  BY <3>4, <3>5 DEF Typed, LoadsHaveVideos
  <2>. QED  BY <1>0, <1>7, <2>1, LeaseType DEF ResolveFails, Typed, TypeOK, LoadType, CacheIsBounded
<1>8. ASSUME NEW l \in Loads, Resolved(l) PROVE Typed'
  <2>1. cache' \in Seq(CacheEntry) /\ Len(cache') <= MaxEntries + 1
    <3>1. CASE loads[l].kind = "iptv"
      BY <1>0, <1>8, <3>1 DEF Resolved
    <3>2. CASE loads[l].kind # "iptv"
      <4>1. [video |-> loads[l].video, plan |-> l] \in CacheEntry
        BY <1>8, <3>2 DEF Resolved, Typed, LoadsHaveVideos, CacheEntry
      <4>. QED  BY <1>0, <1>8, <3>2, <4>1, StoredType DEF Resolved
    <3>. QED  BY <3>1, <3>2
  <2>2. loads' \in [Loads -> LoadType] /\ LoadsHaveVideos'
    BY <1>8, SettledType DEF Resolved
  <2>3. /\ element' \in ElementType /\ imports' \subseteq [plan : Loads, gen : Nat]
        /\ store' \in [video : Videos \cup Channels \cup {None}, plan : Plans, loading : BOOLEAN]
    <3>1. CASE Show(element, l)
      <4>1. loads[l].hls \in BOOLEAN
        BY DEF Typed, TypeOK
      <4>. QED  BY <1>0, <3>1, <4>1, AttachType DEF Show, Typed, TypeOK, Plans
    <3>2. CASE UNCHANGED <<store, element, imports>>
      BY <1>0, <3>2 DEF Typed, TypeOK
    <3>. QED  BY <1>8, <3>1, <3>2 DEF Resolved
  <2>. QED  BY <1>0, <1>8, <2>1, <2>2, <2>3, LeaseType DEF Resolved, Typed, TypeOK, LoadType, CacheIsBounded, ElementType, CacheEntry
<1>9. ASSUME NEW l \in Loads, Rejected(l) PROVE Typed'
  <2>1. loads' \in [Loads -> LoadType] /\ LoadsHaveVideos'
    BY <1>9, SettledType DEF Rejected
  <2>2. store' \in [video : Videos \cup Channels \cup {None}, plan : Plans, loading : BOOLEAN]
    BY <1>0, <1>9 DEF Rejected, Typed, TypeOK
  <2>. QED  BY <1>0, <1>9, <2>1, <2>2, LeaseType DEF Rejected, Typed, TypeOK, LoadType, CacheIsBounded
<1>10. ASSUME NEW i \in imports, ImportResolves(i) \/ ImportFails(i) PROVE Typed'
  <2>1. i \in [plan : Loads, gen : Nat] /\ MSE \in BOOLEAN
    BY PipelineAssumption DEF Typed, TypeOK
  <2>2. element' \in ElementType
    BY <1>0, <1>10, <2>1 DEF ImportResolves, ImportFails, ElementType, Plans
  <2>. QED  BY <1>0, <1>10, <2>2, LeaseType
            DEF ImportResolves, ImportFails, Typed, TypeOK, LoadsHaveVideos, CacheIsBounded, ElementType
<1>11. CASE RevokePlayerSession \/ PlanExpires
  BY <1>0, <1>11, LeaseType DEF RevokePlayerSession, PlanExpires, Typed, TypeOK, LoadsHaveVideos, CacheIsBounded
<1>12. CASE CacheExpires
  <2>1. PICK i \in DOMAIN cache : cache' = RemoveAt(cache, i)
    BY <1>12 DEF CacheExpires
  <2>2. cache' \in Seq(CacheEntry) /\ Len(cache') <= MaxEntries + 1
    BY <1>0, <2>1, RemoveAtType, LenProperties, PipelineAssumption
  <2>. QED  BY <1>0, <1>12, <2>2, LeaseType DEF CacheExpires, Typed, TypeOK, LoadsHaveVideos, CacheIsBounded, CacheEntry
<1>13. CASE UNCHANGED vars
  BY <1>0, <1>13, LeaseType DEF vars, Typed, TypeOK, LoadsHaveVideos, CacheIsBounded
<1>. QED  BY <1>1, <1>2, <1>3, <1>4, <1>5, <1>6, <1>7, <1>8, <1>9, <1>10, <1>11, <1>12, <1>13
          DEF Next, User, Backend, Continue

--------------------------------------------------------------------------------
(* What the store shows. *)

Pending(l) == loads[l].pc \in {"resolving", "resolved", "failed"}

\* l may still touch the store.
Awaited(l) == Pending(l) /\ Latest(l)

\* Plan l is the answer to a load of v.
Answer(l, v) == loads[l].pc = "done" /\ loads[l].video = v

Answered == {e \in CacheEntry : Answer(e.plan, e.video)}

\* No generation is ahead of the store's, and each load has its own.
GenerationsPass ==
  /\ \A l \in Loads : loads[l].gen <= gen
  /\ \A k, l \in Loads : Awaited(k) /\ Awaited(l) => k = l

\* The store waits for the load it still listens to.
AwaitedIsRequested ==
  \A l \in Loads : Awaited(l) => store.video = loads[l].video /\ store.plan = None

SpinnerHasLoad == store.loading => \E l \in Loads : Awaited(l)

ShownIsAnswered == store.plan # None => Answer(store.plan, store.video)

StoreInv ==
  /\ cache \in Seq(Answered)
  /\ GenerationsPass
  /\ AwaitedIsRequested
  /\ SpinnerHasLoad
  /\ ShownIsAnswered

\* An answer never changes.
LEMMA DoneStands ==
  ASSUME Typed, [Next]_vars, NEW l \in Loads, loads[l].pc = "done"
  PROVE  loads'[l] = loads[l]
<1>1. CASE loads' = loads
  BY <1>1
<1>2. ASSUME NEW k \in Loads, NEW kind, NEW v, NEW g, Send(k, kind, v, g) PROVE loads'[l] = loads[l]
  BY <1>2 DEF Send, Typed, TypeOK
<1>3. ASSUME NEW k \in Loads, Backend(k) \/ Continue(k) PROVE loads'[l] = loads[l]
  <2>1. k # l
    BY <1>3 DEF Backend, Continue, Resolve, ResolveFails, Resolved, Rejected
  <2>. QED  BY <1>3, <2>1 DEF Backend, Continue, Resolve, ResolveFails, Resolved, Rejected, Typed, TypeOK
<1>4. CASE User
  BY <1>1, <1>2, <1>4 DEF User, LoadVideo, PrefetchVideo, LoadIPTV, LoadCachedVideo, ClosePlayer
<1>5. ASSUME NEW i \in imports, ImportResolves(i) \/ ImportFails(i) PROVE loads' = loads
  BY <1>5 DEF ImportResolves, ImportFails
<1>6. CASE RevokePlayerSession \/ PlanExpires \/ CacheExpires
  BY <1>1, <1>6 DEF RevokePlayerSession, PlanExpires, CacheExpires
<1>. QED  BY <1>1, <1>3, <1>4, <1>5, <1>6 DEF Next, vars

LEMMA AnswerStands ==
  ASSUME Typed, [Next]_vars, NEW l \in Loads, NEW v, Answer(l, v)
  PROVE  Answer(l, v)'
BY DoneStands DEF Answer

\* Every entry of the cache answers a load of its video, whatever the order of the answers.
LEMMA CacheStep ==
  ASSUME Typed, cache \in Seq(Answered), [Next]_vars
  PROVE  cache' \in Seq(Answered')
<1>1. Answered \subseteq Answered'
  BY AnswerStands DEF Answered, CacheEntry
<1>2. cache \in Seq(Answered')
  BY <1>1, SeqMonotonic
<1>3. Answered' \subseteq CacheEntry
  BY DEF Answered, CacheEntry
<1>4. CASE cache' = cache
  BY <1>2, <1>4
<1>5. ASSUME NEW v \in Videos, LoadCachedVideo(v) PROVE cache' \in Seq(Answered')
  <2>1. IsCached(v) /\ cache' = Touched(v)
    BY <1>5 DEF LoadCachedVideo
  <2>. QED  BY <1>2, <2>1, TouchedType
<1>6. ASSUME NEW l \in Loads, Resolved(l), cache' # cache PROVE cache' \in Seq(Answered')
  <2>. DEFINE e == [video |-> loads[l].video, plan |-> l]
  <2>1. loads[l].kind # "iptv" /\ cache' = Stored(loads[l].video, l)
    BY <1>6 DEF Resolved
  <2>2. e \in CacheEntry
    BY <1>6, <2>1 DEF Resolved, Typed, LoadsHaveVideos, CacheEntry
  <2>3. Answer(l, loads[l].video)'
    BY <1>6 DEF Resolved, Typed, TypeOK, Answer
  <2>4. loads'[l].pc = "done" /\ loads'[l].video = loads[l].video
    BY <1>6 DEF Resolved, Typed, TypeOK
  <2>5. e \in Answered'
    BY <2>2, <2>4 DEF Answered, Answer, CacheEntry
  <2>. QED  BY <1>2, <1>3, <2>1, <2>5, StoredType DEF Typed, CacheIsBounded
<1>7. CASE CacheExpires
  BY <1>2, <1>7, RemoveAtType DEF CacheExpires
<1>8. ASSUME NEW v \in Videos, NEW l \in Loads, LoadVideo(v, l) \/ PrefetchVideo(v, l) PROVE cache' = cache
  BY <1>8 DEF LoadVideo, PrefetchVideo
<1>9. ASSUME NEW c \in Channels, NEW l \in Loads, LoadIPTV(c, l) PROVE cache' = cache
  BY <1>9 DEF LoadIPTV
<1>10. ASSUME NEW l \in Loads, Backend(l) \/ Rejected(l) PROVE cache' = cache
  BY <1>10 DEF Backend, Resolve, ResolveFails, Rejected
<1>11. ASSUME NEW i \in imports, ImportResolves(i) \/ ImportFails(i) PROVE cache' = cache
  BY <1>11 DEF ImportResolves, ImportFails
<1>12. CASE ClosePlayer \/ RevokePlayerSession \/ PlanExpires \/ UNCHANGED vars
  BY <1>4, <1>12 DEF ClosePlayer, RevokePlayerSession, PlanExpires, vars
<1>. QED  BY <1>4, <1>5, <1>6, <1>7, <1>8, <1>9, <1>10, <1>11, <1>12 DEF Next, User, Continue

\* What the handlers of the store keep of it, apart from the cache.
Waiting == GenerationsPass /\ AwaitedIsRequested /\ SpinnerHasLoad /\ ShownIsAnswered

\* A load that is superseded is not awaited any more.
LEMMA NoneAwaited ==
  ASSUME Typed, GenerationsPass, gen' = gen + 1, NEW l \in Loads, loads'[l] = loads[l]
  PROVE  ~Awaited(l)' /\ loads'[l].gen <= gen'
<1>1. loads[l].gen \in Nat /\ gen \in Nat /\ loads[l].gen <= gen
  BY PipelineAssumption DEF Typed, TypeOK, GenerationsPass
<1>. QED  BY <1>1 DEF Awaited, Latest

\* A video or a channel is asked for.
LEMMA AskedStep ==
  ASSUME Typed, Waiting, NEW l \in Loads, NEW kind \in {"youtube", "iptv"}, NEW v,
         gen' = gen + 1, store' = [video |-> v, plan |-> None, loading |-> TRUE],
         Send(l, kind, v, gen')
  PROVE  Waiting'
<1>1. loads'[l] = [pc |-> "resolving", kind |-> kind, video |-> v, gen |-> gen', hls |-> FALSE]
  BY DEF Send, Typed, TypeOK
<1>2. \A k \in Loads : k # l => loads'[k] = loads[k]
  BY DEF Send, Typed, TypeOK
<1>3. \A k \in Loads : k # l => ~Awaited(k)' /\ loads'[k].gen <= gen'
  BY <1>2, NoneAwaited DEF Waiting
<1>4. Awaited(l)'
  BY <1>1 DEF Awaited, Pending, Latest
<1>5. gen' \in Nat
  BY PipelineAssumption DEF Typed, TypeOK
<1>6. GenerationsPass'
  BY <1>1, <1>3, <1>5 DEF GenerationsPass
<1>7. AwaitedIsRequested'
  BY <1>1, <1>3 DEF AwaitedIsRequested
<1>. QED  BY <1>4, <1>6, <1>7 DEF Waiting, SpinnerHasLoad, ShownIsAnswered

\* The store shows a cached plan, or nothing.
LEMMA SettledStep ==
  ASSUME Typed, Waiting, gen' = gen + 1, loads' = loads, ~store'.loading,
         store'.plan # None => Answer(store'.plan, store'.video)
  PROVE  Waiting'
<1>1. \A k \in Loads : ~Awaited(k)' /\ loads'[k].gen <= gen'
  BY NoneAwaited DEF Waiting
<1>. QED  BY <1>1 DEF Waiting, GenerationsPass, AwaitedIsRequested, SpinnerHasLoad, ShownIsAnswered, Answer

\* Calls advance that the store does not listen to, or that have not ended.
LEMMA QuietStep ==
  ASSUME Typed, Waiting, [Next]_vars, UNCHANGED <<gen, store>>,
         \A k \in Loads : /\ Awaited(k)' <=> Awaited(k)
                          /\ Awaited(k) => loads'[k].video = loads[k].video
                          /\ loads'[k].gen <= gen
  PROVE  Waiting'
<1>1. store.plan # None => store.plan \in Loads
  BY DEF Typed, TypeOK, Plans
<1>2. ShownIsAnswered'
  BY <1>1, AnswerStands DEF Waiting, ShownIsAnswered, Answer
<1>. QED  BY <1>2 DEF Waiting, GenerationsPass, AwaitedIsRequested, SpinnerHasLoad

LEMMA WaitingStep ==
  ASSUME Typed, StoreInv, [Next]_vars
  PROVE  Waiting'
<1>0. /\ Waiting /\ cache \in Seq(Answered)
      /\ gen \in Nat /\ \A k \in Loads : loads[k].gen \in Nat /\ loads[k].gen <= gen
  BY PipelineAssumption DEF StoreInv, Waiting, Typed, TypeOK, GenerationsPass
<1>1. ASSUME NEW v \in Videos, NEW l \in Loads, LoadVideo(v, l) PROVE Waiting'
  BY <1>0, <1>1, AskedStep DEF LoadVideo, Supersede
<1>2. ASSUME NEW c \in Channels, NEW l \in Loads, LoadIPTV(c, l) PROVE Waiting'
  BY <1>0, <1>2, AskedStep DEF LoadIPTV, Supersede
<1>3. ASSUME NEW v \in Videos, NEW l \in Loads, PrefetchVideo(v, l) PROVE Waiting'
  <2>1. loads'[l].kind = "prefetch" /\ loads'[l].gen = 0 /\ loads[l].pc = "idle"
    BY <1>3 DEF PrefetchVideo, Send, Typed, TypeOK
  <2>2. \A k \in Loads : k # l => loads'[k] = loads[k]
    BY <1>3 DEF PrefetchVideo, Send, Typed, TypeOK
  <2>3. UNCHANGED <<gen, store>>
    BY <1>3 DEF PrefetchVideo
  <2>4. \A k \in Loads : /\ Awaited(k)' <=> Awaited(k)
                         /\ Awaited(k) => loads'[k].video = loads[k].video
                         /\ loads'[k].gen <= gen
    BY <1>0, <2>1, <2>2, <2>3 DEF Awaited, Pending, Latest
  <2>. QED  BY <1>0, <2>3, <2>4, QuietStep
<1>4. ASSUME NEW v \in Videos, LoadCachedVideo(v) PROVE Waiting'
  <2>. DEFINE e == cache[Place(v)]
  <2>1. e \in Answered /\ e.video = v
    BY <1>0, <1>4, TouchedType DEF LoadCachedVideo
  <2>2. Answer(e.plan, v)
    BY <2>1 DEF Answered
  <2>3. /\ gen' = gen + 1 /\ loads' = loads
        /\ store'.video = v /\ store'.plan = e.plan /\ ~store'.loading
    BY <1>4 DEF LoadCachedVideo, Supersede
  <2>. QED  BY <1>0, <2>2, <2>3, SettledStep
<1>5. CASE ClosePlayer
  BY <1>0, <1>5, SettledStep DEF ClosePlayer, Supersede, NoPlayer
<1>6. ASSUME NEW l \in Loads, Backend(l) PROVE Waiting'
  <2>1. /\ loads[l].pc = "resolving" /\ loads'[l].pc \in {"resolved", "failed"}
        /\ loads'[l].kind = loads[l].kind /\ loads'[l].gen = loads[l].gen
        /\ loads'[l].video = loads[l].video
    BY <1>6 DEF Backend, Resolve, ResolveFails, Typed, TypeOK
  <2>2. \A k \in Loads : k # l => loads'[k] = loads[k]
    BY <1>6 DEF Backend, Resolve, ResolveFails, Typed, TypeOK
  <2>3. UNCHANGED <<gen, store>>
    BY <1>6 DEF Backend, Resolve, ResolveFails
  <2>4. \A k \in Loads : /\ Awaited(k)' <=> Awaited(k)
                         /\ Awaited(k) => loads'[k].video = loads[k].video
                         /\ loads'[k].gen <= gen
    BY <1>0, <2>1, <2>2, <2>3 DEF Awaited, Pending, Latest
  <2>. QED  BY <1>0, <2>3, <2>4, QuietStep
<1>7. ASSUME NEW l \in Loads, Continue(l) PROVE Waiting'
  <2>1. /\ loads[l].pc \in {"resolved", "failed"} /\ loads'[l].pc = "done" /\ loads'[l].gen = 0
        /\ loads'[l].video = loads[l].video
        /\ \A k \in Loads : k # l => loads'[k] = loads[k]
        /\ gen' = gen
    BY <1>7 DEF Continue, Resolved, Rejected, Typed, TypeOK
  <2>2. ~Awaited(l)' /\ loads'[l].gen <= gen
    BY <1>0, <2>1 DEF Awaited, Pending
  <2>3. \A k \in Loads : k # l => (Awaited(k)' <=> Awaited(k))
    BY <2>1 DEF Awaited, Pending, Latest
  <2>4. CASE ~Latest(l)
    <3>1. UNCHANGED store
      BY <1>7, <2>4 DEF Continue, Resolved, Rejected
    <3>2. ~Awaited(l)
      BY <2>4 DEF Awaited
    <3>. QED  BY <1>0, <2>1, <2>2, <2>3, <3>1, <3>2, QuietStep
  <2>5. CASE Latest(l)
    <3>1. Awaited(l)
      BY <2>1, <2>5 DEF Awaited, Pending
    <3>2. /\ \A k \in Loads : ~Awaited(k)'
          /\ store.video = loads[l].video /\ store.plan = None
      BY <1>0, <2>2, <2>3, <3>1 DEF Waiting, GenerationsPass, AwaitedIsRequested
    <3>3. /\ ~store'.loading /\ store'.video = store.video
          /\ store'.plan \in {l, None}
      BY <1>7, <2>5, <3>2 DEF Continue, Resolved, Rejected, Show, Typed, TypeOK
    <3>4. GenerationsPass'
      BY <1>0, <2>1, <2>2, <3>2 DEF GenerationsPass
    <3>5. ShownIsAnswered'
      BY <2>1, <3>2, <3>3 DEF ShownIsAnswered, Answer
    <3>. QED  BY <3>2, <3>3, <3>4, <3>5 DEF Waiting, AwaitedIsRequested, SpinnerHasLoad
  <2>. QED  BY <2>4, <2>5
<1>8. ASSUME NEW i \in imports, ImportResolves(i) \/ ImportFails(i) PROVE Waiting'
  <2>1. /\ UNCHANGED <<gen, loads>>
        /\ store'.video = store.video /\ store'.plan = store.plan
        /\ store'.loading => store.loading
    BY <1>8 DEF ImportResolves, ImportFails, Typed, TypeOK
  <2>. QED  BY <1>0, <2>1
            DEF Waiting, GenerationsPass, AwaitedIsRequested, SpinnerHasLoad, ShownIsAnswered,
                Awaited, Pending, Latest, Answer
<1>9. CASE RevokePlayerSession \/ PlanExpires \/ CacheExpires \/ UNCHANGED vars
  <2>1. UNCHANGED <<gen, loads, store>>
    BY <1>9 DEF RevokePlayerSession, PlanExpires, CacheExpires, vars
  <2>. QED  BY <1>0, <2>1
            DEF Waiting, GenerationsPass, AwaitedIsRequested, SpinnerHasLoad, ShownIsAnswered,
                Awaited, Pending, Latest, Answer
<1>. QED  BY <1>1, <1>2, <1>3, <1>4, <1>5, <1>6, <1>7, <1>8, <1>9 DEF Next, User

LEMMA InitStore == Init => StoreInv
<1>1. SUFFICES ASSUME Init PROVE StoreInv
  OBVIOUS
<1>2. cache \in Seq(Answered)
  BY <1>1, EmptySeq DEF Init
<1>3. gen = 0 /\ \A l \in Loads : loads[l].pc = "idle" /\ loads[l].gen = 0
  BY <1>1 DEF Init
<1>. QED  BY <1>1, <1>2, <1>3
          DEF Init, NoPlayer, StoreInv, GenerationsPass, AwaitedIsRequested, SpinnerHasLoad,
              ShownIsAnswered, Awaited, Pending

LEMMA StoreStep == Typed /\ StoreInv /\ [Next]_vars => (Typed /\ StoreInv)'
<1>1. SUFFICES ASSUME Typed, StoreInv, [Next]_vars PROVE (Typed /\ StoreInv)'
  OBVIOUS
<1>2. Typed' /\ Waiting'
  BY <1>1, TypedStep, WaitingStep
<1>3. cache' \in Seq(Answered')
  BY <1>1, CacheStep DEF StoreInv
<1>. QED  BY <1>2, <1>3 DEF StoreInv, Waiting

LEMMA StoreAlways == Spec => [](Typed /\ StoreInv)
<1>1. Init => Typed /\ StoreInv
  BY InitTyped, InitStore
<1>. QED  BY <1>1, StoreStep, PTL DEF Spec

\* The variables keep their types, and the cache never holds more than one
\* entry beyond its limit, for any videos, loads and limits.
THEOREM PipelineTyped == Spec => [](TypeOK /\ CacheIsBounded)
<1>1. Typed => TypeOK /\ CacheIsBounded
  BY DEF Typed
<1>. QED  BY <1>1, StoreAlways, PTL

\* The plan in the store is the answer for the video that was asked for last,
\* in whatever order the backend answers and whichever answers were cached.
THEOREM ShownIsRequested == Spec => []ShownPlanIsRequested
<1>1. StoreInv => ShownPlanIsRequested
  BY DEF StoreInv, ShownIsAnswered, Answer, ShownPlanIsRequested
<1>. QED  BY <1>1, StoreAlways, PTL

\* The safety core of LoadSettles: the spinner only turns while the store still
\* listens to a load that the backend has not answered for good.
THEOREM SpinnerIsJustified == Spec => []SpinnerHasLoad
<1>1. StoreInv => SpinnerHasLoad
  BY DEF StoreInv
<1>. QED  BY <1>1, StoreAlways, PTL

--------------------------------------------------------------------------------
(* What the element plays. *)

\* An import of the current generation is of the plan loaded last.
ImportsPass ==
  \A i \in imports : i.gen <= element.gen /\ (i.gen = element.gen => i.plan = element.loaded)

\* Without a component nothing is under way that could touch it.
UnmountedIsQuiet ==
  ~element.mounted => imports = {} /\ \A l \in Loads : ~Awaited(l)

LoadedIsShown ==
  /\ store.plan # None => element.loaded = store.plan
  /\ element.loaded # None => loads[element.loaded].pc = "done"

\* The stream of the element is that of the store, but for what was there before
\* an import that will replace it.
StreamIsShown ==
  store.plan # None =>
    \/ element.src \in {None, store.plan}
    \/ NativeHLS /\ [plan |-> store.plan, gen |-> element.gen] \in imports

\* An HLS instance detaches the stream it attached.
StreamIsDetachable ==
  ~NativeHLS /\ store.plan = None => element.src = None \/ element.hls

ElementInv == ImportsPass /\ UnmountedIsQuiet /\ LoadedIsShown /\ StreamIsShown /\ StreamIsDetachable

\* The element starts over: the store asks for something else.
LEMMA AbortedElement ==
  ASSUME Typed, ImportsPass, UnmountedIsQuiet
  PROVE  /\ Aborted.mounted /\ Aborted.src = None /\ Aborted \in ElementType
         /\ \A i \in imports : i.gen <= Aborted.gen /\ (i.gen = Aborted.gen => i.plan = Aborted.loaded)
         /\ Aborted.loaded \in {element.loaded, None}
<1>1. CASE element.mounted
  BY <1>1, AbortedType DEF Aborted, Mounted, ImportsPass, Typed, TypeOK
<1>2. CASE ~element.mounted
  BY <1>2, AbortedType DEF Aborted, Mounted, Unmounted, UnmountedIsQuiet, Typed
<1>. QED  BY <1>1, <1>2

\* Loading a plan invalidates the imports under way, and its own is the only one
\* of the new generation.
LEMMA AttachedElement ==
  ASSUME Typed, NEW el \in ElementType, NEW plan \in Loads, NEW hls \in BOOLEAN,
         \A i \in imports : i.gen <= el.gen /\ (i.gen = el.gen => i.plan = el.loaded),
         element' = Attach(el, plan, hls),
         imports' = imports \cup PendingImport(el, plan, hls)
  PROVE  /\ ImportsPass' /\ element'.loaded = plan /\ element'.mounted = el.mounted
         /\ \/ element'.src = el.src /\ plan = el.loaded
            \/ element'.src \in {plan, None}
            \/ /\ element'.src = el.src /\ ~el.hls
               /\ [plan |-> plan, gen |-> element'.gen] \in imports'
<1>1. CASE plan = el.loaded
  BY <1>1 DEF Attach, PendingImport, ImportsPass
<1>2. CASE plan # el.loaded
  <2>1. /\ element'.loaded = plan /\ element'.gen = el.gen + 1 /\ element'.mounted = el.mounted
        /\ element'.src = IF ~hls THEN plan ELSE IF el.hls THEN None ELSE el.src
    BY <1>2 DEF Attach, ElementType
  <2>2. el.gen \in Nat /\ \A i \in imports : i.gen \in Nat
    BY DEF ElementType, Typed, TypeOK
  <2>3. ASSUME NEW i \in imports' PROVE i.gen <= element'.gen /\ (i.gen = element'.gen => i.plan = plan)
    <3>1. CASE i \in imports
      BY <2>1, <2>2, <3>1
    <3>2. CASE i \in PendingImport(el, plan, hls)
      BY <2>1, <2>2, <3>2 DEF PendingImport
    <3>. QED  BY <3>1, <3>2
  <2>4. hls => [plan |-> plan, gen |-> element'.gen] \in imports'
    BY <1>2, <2>1 DEF PendingImport
  <2>. QED  BY <2>1, <2>3, <2>4 DEF ImportsPass
<1>. QED  BY <1>1, <1>2

\* A load is asked for: the store empties and the element is silenced.
LEMMA EmptiedElement ==
  ASSUME Typed, ElementInv, element' = Aborted, imports' = imports, store'.plan = None,
         \A l \in Loads : loads[l].pc = "done" => loads'[l] = loads[l]
  PROVE  ElementInv'
<1>1. /\ element'.mounted /\ element'.src = None
      /\ \A i \in imports : i.gen <= element'.gen /\ (i.gen = element'.gen => i.plan = element'.loaded)
      /\ element'.loaded \in {element.loaded, None}
  BY AbortedElement DEF ElementInv
<1>2. element.loaded # None => loads'[element.loaded].pc = "done"
  BY DEF ElementInv, LoadedIsShown, Typed, TypeOK, Plans
<1>. QED  BY <1>1, <1>2
          DEF ElementInv, ImportsPass, UnmountedIsQuiet, LoadedIsShown, StreamIsShown, StreamIsDetachable

\* Nothing that the element reacts to changes.
LEMMA UntouchedElement ==
  ASSUME Typed, ElementInv, UNCHANGED <<element, imports, gen>>, store'.plan = store.plan,
         \A l \in Loads : loads[l].pc = "done" => loads'[l] = loads[l],
         \A l \in Loads : Awaited(l)' => Awaited(l) \/ element.mounted
  PROVE  ElementInv'
<1>1. element.loaded # None => loads'[element.loaded].pc = "done"
  BY DEF ElementInv, LoadedIsShown, Typed, TypeOK, Plans
<1>2. UnmountedIsQuiet'
  BY DEF ElementInv, UnmountedIsQuiet
<1>. QED  BY <1>1, <1>2
          DEF ElementInv, ImportsPass, LoadedIsShown, StreamIsShown, StreamIsDetachable

\* The webview can play HLS at all, by MSE or by itself.  Where it cannot, a
\* failing import leaves the stream that an earlier one attached to the element.
PlaysHLS == MSE \/ NativeHLS

LEMMA ElementStep ==
  ASSUME PlaysHLS, Typed, StoreInv, ElementInv, [Next]_vars
  PROVE  ElementInv'
<1>0. /\ \A l \in Loads : loads[l].pc = "done" => loads'[l] = loads[l]
      /\ element \in ElementType /\ Aborted \in ElementType
      /\ \A l \in Loads : loads[l].hls \in BOOLEAN
  BY DoneStands, AbortedType DEF Typed, TypeOK, ElementType
<1>1. ASSUME NEW v \in Videos, NEW l \in Loads, LoadVideo(v, l) PROVE ElementInv'
  BY <1>0, <1>1, EmptiedElement DEF LoadVideo
<1>2. ASSUME NEW c \in Channels, NEW l \in Loads, LoadIPTV(c, l) PROVE ElementInv'
  BY <1>0, <1>2, EmptiedElement DEF LoadIPTV
<1>3. ASSUME NEW v \in Videos, NEW l \in Loads, PrefetchVideo(v, l) PROVE ElementInv'
  <2>1. loads'[l].kind = "prefetch" /\ \A k \in Loads : k # l => loads'[k] = loads[k]
    BY <1>3 DEF PrefetchVideo, Send, Typed, TypeOK
  <2>2. UNCHANGED <<gen, store, element, imports>>
    BY <1>3 DEF PrefetchVideo
  <2>3. \A k \in Loads : Awaited(k)' => Awaited(k)
    BY <2>1, <2>2 DEF Awaited, Pending, Latest
  <2>. QED  BY <1>0, <2>2, <2>3, UntouchedElement
<1>4. ASSUME NEW v \in Videos, LoadCachedVideo(v) PROVE ElementInv'
  <2>. DEFINE plan == cache[Place(v)].plan
  <2>1. IsCached(v) /\ cache \in Seq(Answered)
    BY <1>4 DEF LoadCachedVideo, StoreInv
  <2>2. cache[Place(v)] \in Answered
    BY <2>1, TouchedType
  <2>3. plan \in Loads /\ loads[plan].pc = "done"
    BY <2>2 DEF Answered, Answer, CacheEntry
  <2>4. /\ store'.plan = plan /\ loads' = loads
        /\ element' = Attach(Aborted, plan, loads[plan].hls)
        /\ imports' = imports \cup PendingImport(Aborted, plan, loads[plan].hls)
    BY <1>4 DEF LoadCachedVideo
  <2>. HIDE DEF plan
  <2>5. /\ Aborted.mounted /\ Aborted.src = None
        /\ \A i \in imports : i.gen <= Aborted.gen /\ (i.gen = Aborted.gen => i.plan = Aborted.loaded)
    BY AbortedElement DEF ElementInv
  <2>6. /\ ImportsPass' /\ element'.loaded = plan /\ element'.mounted
        /\ element'.src \in {plan, None}
    BY <1>0, <2>3, <2>4, <2>5, AttachedElement
  <2>7. plan # None
    BY <2>3, PipelineAssumption
  <2>. QED  BY <2>7, <2>6, <2>4, <2>3
            DEF ElementInv, UnmountedIsQuiet, LoadedIsShown, StreamIsShown, StreamIsDetachable
<1>5. CASE ClosePlayer
  <2>1. element' = Unmounted /\ imports' = {} /\ store'.plan = None /\ loads' = loads /\ gen' = gen + 1
    BY <1>5 DEF ClosePlayer, NoPlayer, Supersede
  <2>2. \A l \in Loads : ~Awaited(l)'
    BY <2>1, NoneAwaited DEF StoreInv
  <2>. QED  BY <2>1, <2>2
            DEF ElementInv, ImportsPass, UnmountedIsQuiet, LoadedIsShown, StreamIsShown, StreamIsDetachable, Unmounted
<1>6. ASSUME NEW l \in Loads, Backend(l) PROVE ElementInv'
  <2>1. /\ loads[l].pc = "resolving" /\ loads'[l].kind = loads[l].kind /\ loads'[l].gen = loads[l].gen
        /\ \A k \in Loads : k # l => loads'[k] = loads[k]
    BY <1>6 DEF Backend, Resolve, ResolveFails, Typed, TypeOK
  <2>2. UNCHANGED <<gen, store, element, imports>>
    BY <1>6 DEF Backend, Resolve, ResolveFails
  <2>3. \A k \in Loads : Awaited(k)' => Awaited(k)
    BY <2>1, <2>2 DEF Awaited, Pending, Latest
  <2>. QED  BY <1>0, <2>2, <2>3, UntouchedElement
<1>7. ASSUME NEW l \in Loads, Continue(l) PROVE ElementInv'
  <2>1. /\ loads[l].pc \in {"resolved", "failed"} /\ loads'[l].pc = "done"
        /\ \A k \in Loads : k # l => loads'[k] = loads[k]
        /\ gen' = gen
    BY <1>7 DEF Continue, Resolved, Rejected, Typed, TypeOK
  <2>2. \A k \in Loads : Awaited(k)' => Awaited(k)
    BY <2>1 DEF Awaited, Pending, Latest
  <2>3. CASE UNCHANGED <<element, imports>> /\ store'.plan = store.plan
    BY <1>0, <2>1, <2>2, <2>3, UntouchedElement
  <2>4. CASE Latest(l) /\ Show(element, l)
    <3>1. Awaited(l)
      BY <2>1, <2>4 DEF Awaited, Pending
    <3>2. element.mounted /\ store.plan = None
      BY <3>1 DEF ElementInv, UnmountedIsQuiet, StoreInv, AwaitedIsRequested
    <3>3. l # element.loaded /\ l # None
      BY <2>1, PipelineAssumption DEF ElementInv, LoadedIsShown
    <3>4. /\ store'.plan = l
          /\ element' = Attach(element, l, loads[l].hls)
          /\ imports' = imports \cup PendingImport(element, l, loads[l].hls)
      BY <2>4 DEF Show, Typed, TypeOK
    <3>5. \A i \in imports : i.gen <= element.gen /\ (i.gen = element.gen => i.plan = element.loaded)
      BY DEF ElementInv, ImportsPass
    <3>6. /\ ImportsPass' /\ element'.loaded = l /\ element'.mounted
          /\ \/ element'.src \in {l, None}
             \/ element'.src = element.src /\ ~element.hls /\ [plan |-> l, gen |-> element'.gen] \in imports'
      BY <1>0, <3>2, <3>3, <3>4, <3>5, AttachedElement
    <3>7. StreamIsShown'
      BY <3>2, <3>4, <3>6 DEF ElementInv, StreamIsDetachable, StreamIsShown
    <3>. QED  BY <2>1, <3>3, <3>4, <3>6, <3>7
              DEF ElementInv, UnmountedIsQuiet, LoadedIsShown, StreamIsDetachable
  <2>. QED  BY <1>7, <2>3, <2>4 DEF Continue, Resolved, Rejected, Typed, TypeOK
<1>8. ASSUME NEW i \in imports, ImportResolves(i) \/ ImportFails(i) PROVE ElementInv'
  <2>1. /\ UNCHANGED <<gen, loads>> /\ imports' = imports \ {i} /\ store'.plan = store.plan
        /\ element'.gen = element.gen /\ element'.loaded = element.loaded
        /\ element'.mounted = element.mounted
    BY <1>8 DEF ImportResolves, ImportFails, Typed, TypeOK
  <2>2. ImportsPass' /\ UnmountedIsQuiet' /\ LoadedIsShown'
    BY <2>1 DEF ElementInv, ImportsPass, UnmountedIsQuiet, LoadedIsShown, Awaited, Pending, Latest
  <2>3. CASE i.gen # element.gen
    <3>1. element' = element
      BY <1>8, <2>3 DEF ImportResolves, ImportFails
    <3>2. i # [plan |-> store.plan, gen |-> element.gen]
      BY <2>3
    <3>. QED  BY <2>1, <2>2, <3>1, <3>2 DEF ElementInv, StreamIsShown, StreamIsDetachable
  <2>4. CASE i.gen = element.gen
    <3>1. i.plan = element.loaded
      BY <2>4 DEF ElementInv, ImportsPass
    <3>2. \/ element'.src = i.plan /\ (NativeHLS \/ element'.hls)
          \/ ~NativeHLS /\ element'.src = element.src /\ element'.hls = element.hls
      BY <1>8, <2>4, PipelineAssumption DEF ImportResolves, ImportFails, Typed, TypeOK, PlaysHLS
    <3>. QED  BY <2>1, <2>2, <3>1, <3>2
              DEF ElementInv, LoadedIsShown, StreamIsShown, StreamIsDetachable
  <2>. QED  BY <2>3, <2>4
<1>9. CASE RevokePlayerSession \/ PlanExpires \/ CacheExpires \/ UNCHANGED vars
  <2>1. UNCHANGED <<gen, loads, store, element, imports>>
    BY <1>9 DEF RevokePlayerSession, PlanExpires, CacheExpires, vars
  <2>2. \A k \in Loads : Awaited(k)' => Awaited(k)
    BY <2>1 DEF Awaited, Pending, Latest
  <2>. QED  BY <1>0, <2>1, <2>2, UntouchedElement
<1>. QED  BY <1>1, <1>2, <1>3, <1>4, <1>5, <1>6, <1>7, <1>8, <1>9 DEF Next, User

LEMMA InitElement == Init => ElementInv
BY DEF Init, NoPlayer, Unmounted, ElementInv, ImportsPass, UnmountedIsQuiet, LoadedIsShown,
       StreamIsShown, StreamIsDetachable, Awaited, Pending

\* Where the webview plays HLS, once a plan is shown and the decoder it needs was
\* imported the element carries that plan's stream or none, for any number of
\* loads, cached or not, and in whatever order their imports end.
THEOREM ElementFollows ==
  ASSUME PlaysHLS
  PROVE  Spec => []ElementFollowsStore
<1>1. Init => ElementInv
  BY InitElement
<1>2. Typed /\ StoreInv /\ ElementInv /\ [Next]_vars => ElementInv'
  BY ElementStep
<1>3. ElementInv => ElementFollowsStore
  BY DEF ElementInv, StreamIsShown, ElementFollowsStore
<1>. QED  BY <1>1, <1>2, <1>3, StoreAlways, PTL DEF Spec

================================================================================
