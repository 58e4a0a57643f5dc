--------------------------- MODULE CascadingResolver ---------------------------
(***************************************************************************)
(* The chain of playback providers, src/internal/playback/cascading.go,    *)
(* and the plan cache in front of it, cache.go.                            *)
(*                                                                         *)
(* Callers that ask for the same key while it is being resolved share one  *)
(* flight (singleflight): a goroutine that looks at the cache again, at    *)
(* the rate-limit gate, and then asks the public providers in order, and   *)
(* at last, once, a provider with the user's cookies.  The flight runs     *)
(* under the context of the caller that started it.  The mutex is held for *)
(* one look at the cache or the gate only.                                 *)
(* The name of the last successful provider is only reported: left out.    *)
(***************************************************************************)
EXTENDS Integers, FiniteSets

CONSTANTS
  Callers,      \* calls of Resolve
  Keys,         \* playbackRequestKey: video id and source URL
  None,
  Providers,    \* number of public providers in the chain
  HasCookies,   \* whether there is an authenticated fallback
  Lifetimes,    \* how long the URLs of a resolved plan may live
  MaxEntries,   \* maximumPlaybackCacheEntries
  DefaultTTL,   \* defaultPlaybackCacheTTL
  MaxTTL,       \* maximumPlaybackCacheTTL
  Margin,       \* mediaExpirySafetyMargin
  Pause,        \* the minute after a rate limit
  MaxTime       \* bound: the clock stops here

ASSUME ResolverAssumption ==
  /\ None \notin Callers \cup Nat
  /\ Providers \in Nat \ {0}
  /\ HasCookies \in BOOLEAN
  /\ Lifetimes \subseteq Nat
  /\ MaxEntries \in Nat \ {0}
  /\ {DefaultTTL, MaxTTL, Margin, Pause, MaxTime} \subseteq Nat
  /\ Margin < DefaultTTL

VARIABLES
  clock,
  cache,         \* key -> plan and the time until which it may be handed out
  limitedUntil,  \* the circuit breaker
  flights,       \* per key: the resolution under way, or NoFlight
  callers,       \* per caller: where it is in Resolve
  ctxDone        \* callers whose context is done

vars == <<clock, cache, limitedUntil, flights, callers, ctxDone>>

\* Failure kinds, as far as the chain tells them apart: "final" stands for DRM,
\* unavailable and cookie decryption, "other" for those that are just tried past.
Kinds == {"restricted", "final", "rateLimited", "botCheck", "other"}

\* A plan carries the earliest expiry of its URLs, if they tell it.  A direct plan
\* (a local file) has no URL to expire and is never cached.
Plan  == [mode : {"resolved", "direct"}, expiresAt : Nat \cup {None}]
Entry == [plan : Plan, validUntil : Nat]

Flight == [pc : {"recheck", "gate", "chain", "authenticated", "store"},
           leader : Callers, tried : 0..Providers, failures : SUBSET Kinds,
           plan : Plan \cup {None}]

\* No resolution of the key is under way.
NoFlight == None

TypeOK ==
  /\ clock \in Nat
  /\ DOMAIN cache \subseteq Keys /\ cache \in [DOMAIN cache -> Entry]
  /\ limitedUntil \in Nat
  /\ flights \in [Keys -> Flight \cup {NoFlight}]
  /\ callers \in [Callers -> [pc : {"idle", "join", "waiting", "answered", "done"},
                              key : Keys \cup {None},
                              result : {None, "plan", "error", "cancelled"}]]
  /\ ctxDone \subseteq Callers

Init ==
  /\ clock = 0
  /\ cache = [k \in {} |-> None]
  /\ limitedUntil = 0
  /\ flights = [k \in Keys |-> NoFlight]
  /\ callers = [c \in Callers |-> [pc |-> "idle", key |-> None, result |-> None]]
  /\ ctxDone = {}

--------------------------------------------------------------------------------
(* cache.go *)

Earlier(a, b) == IF a <= b THEN a ELSE b

Valid(k)   == k \in DOMAIN cache /\ clock < cache[k].validUntil
Keep(S)    == [k \in S |-> cache[k]]

\* cachedPlan forgets the key when there is no valid entry.
Forget(k)  == Keep(DOMAIN cache \ {k})

\* Mutation: no safety margin.
DeadlineUnsafe(plan) ==
  LET expiresAt == IF plan.expiresAt = None THEN clock + DefaultTTL ELSE plan.expiresAt
  IN Earlier(expiresAt, clock + MaxTTL)

\* playbackPlanCacheDeadline: a safety margin before the plan expires, and never
\* more than the maximum.
Deadline(plan) ==
  LET expiresAt == IF plan.expiresAt = None THEN clock + DefaultTTL ELSE plan.expiresAt
  IN Earlier(expiresAt - Margin, clock + MaxTTL)

\* pruneCacheLocked: expired entries go, and one with the earliest deadline when
\* the cache is still full.
Pruned ==
  LET live == {k \in DOMAIN cache : Valid(k)} IN
  IF Cardinality(live) < MaxEntries THEN {live}
  ELSE {live \ {k} : k \in {o \in live : \A l \in live :
                              cache[o].validUntil <= cache[l].validUntil}}

\* storePlan
StorePlan(k, plan) ==
  \/ /\ plan.mode = "resolved" /\ clock < Deadline(plan)
     /\ \E kept \in Pruned :
          cache' = [l \in kept \cup {k} |->
                      IF l = k THEN [plan |-> plan, validUntil |-> Deadline(plan)]
                      ELSE cache[l]]
  \/ /\ plan.mode = "direct" \/ Deadline(plan) <= clock
     /\ UNCHANGED cache

--------------------------------------------------------------------------------
(* Resolve: the callers *)

\* Resolve returns.
Return(c) == callers' = [callers EXCEPT ![c] = [pc |-> "done", key |-> None, result |-> None]]

\* The caller's context is looked at, then the cache.
Call(c, k) ==
  /\ callers[c].pc = "idle"
  /\ \/ /\ c \in ctxDone
        /\ Return(c)
        /\ UNCHANGED cache
     \/ /\ c \notin ctxDone /\ Valid(k)
        /\ Return(c)
        /\ UNCHANGED cache
     \/ /\ c \notin ctxDone /\ ~Valid(k)
        /\ callers' = [callers EXCEPT ![c].pc = "join", ![c].key = k]
        /\ cache' = Forget(k)
  /\ UNCHANGED <<clock, limitedUntil, flights, ctxDone>>

\* DoChan: the caller joins the flight of its key, or starts it.
Join(c) ==
  LET k == callers[c].key IN
  /\ callers[c].pc = "join"
  /\ callers' = [callers EXCEPT ![c].pc = "waiting"]
  /\ flights' = IF flights[k] # NoFlight THEN flights
                ELSE [flights EXCEPT ![k] = [pc |-> "recheck", leader |-> c, tried |-> 0,
                                             failures |-> {}, plan |-> None]]
  /\ UNCHANGED <<clock, cache, limitedUntil, ctxDone>>

\* The select: the answer, or the caller's own context; either when both are ready.
Receive(c) ==
  /\ callers[c].pc = "answered"
  /\ Return(c)
  /\ UNCHANGED <<clock, cache, limitedUntil, flights, ctxDone>>

GiveUp(c) ==
  /\ callers[c].pc \in {"waiting", "answered"} /\ c \in ctxDone
  /\ Return(c)
  /\ UNCHANGED <<clock, cache, limitedUntil, flights, ctxDone>>

--------------------------------------------------------------------------------
(* The flight of a key: the function given to DoChan, resolveUncached *)

\* Mutation: the result is sent to the caller that started the flight only.
FinishLeaderOnly(k, result) ==
  /\ flights' = [flights EXCEPT ![k] = NoFlight]
  /\ callers' = [c \in Callers |->
                   IF callers[c].pc = "waiting" /\ c = flights[k].leader
                   THEN [callers[c] EXCEPT !.pc = "answered", !.result = result]
                   ELSE callers[c]]

\* singleflight ends the flight and answers everyone who still waits for it.
Finish(k, result) ==
  /\ flights' = [flights EXCEPT ![k] = NoFlight]
  /\ callers' = [c \in Callers |->
                   IF callers[c].pc = "waiting" /\ callers[c].key = k
                   THEN [callers[c] EXCEPT !.pc = "answered", !.result = result]
                   ELSE callers[c]]

At(k, pc) == flights[k] # NoFlight /\ flights[k].pc = pc
Go(k, pc) == flights' = [flights EXCEPT ![k].pc = pc] /\ UNCHANGED callers

\* Mutation: the cache is not looked at again.
RecheckSkipped(k) ==
  /\ At(k, "recheck")
  /\ Go(k, "gate")
  /\ UNCHANGED <<clock, cache, limitedUntil, ctxDone>>

\* The cache is looked at again: an earlier flight may have filled it.
Recheck(k) ==
  /\ At(k, "recheck")
  /\ \/ Valid(k) /\ Finish(k, "plan") /\ UNCHANGED cache
     \/ ~Valid(k) /\ Go(k, "gate") /\ cache' = Forget(k)
  /\ UNCHANGED <<clock, limitedUntil, ctxDone>>

\* rateLimitActive
Gate(k) ==
  /\ At(k, "gate")
  /\ IF clock < limitedUntil THEN Finish(k, "error") ELSE Go(k, "chain")
  /\ UNCHANGED <<clock, cache, limitedUntil, ctxDone>>

\* A provider succeeds.
Resolved(k, plan) ==
  /\ flights' = [flights EXCEPT ![k].pc = "store", ![k].plan = plan]
  /\ UNCHANGED <<callers, limitedUntil>>

\* recordRateLimit
RecordRateLimit(kind) ==
  limitedUntil' = IF kind = "rateLimited" THEN clock + Pause ELSE limitedUntil

\* Mutation: the anti-bot check of one provider is enough to use the cookies.
MayAuthenticateEarly(kind) == kind \in {"restricted", "botCheck"}

\* canTryAuthenticatedFallback and stopsProviderFallback
MayAuthenticate(kind) == kind = "restricted"
StopsFallback(kind)   == kind \in {"restricted", "final", "rateLimited"}

\* The loop over the resolvers ends.
IsLast(tried) == tried = Providers

\* The plans a provider may produce now.
Plans == {[mode |-> "direct", expiresAt |-> None], [mode |-> "resolved", expiresAt |-> None]}
           \cup {[mode |-> "resolved", expiresAt |-> clock + l] : l \in Lifetimes}

\* The next public provider is asked, unless the leader's context is done.
TryCancelled(k) ==
  /\ At(k, "chain") /\ flights[k].leader \in ctxDone
  /\ Finish(k, "cancelled")
  /\ UNCHANGED <<clock, cache, limitedUntil, ctxDone>>

TrySucceeds(k, plan) ==
  /\ At(k, "chain") /\ flights[k].leader \notin ctxDone
  /\ Resolved(k, plan)
  /\ UNCHANGED <<clock, cache, ctxDone>>

TryFails(k, kind) ==
  LET tried    == flights[k].tried + 1
      failures == flights[k].failures \cup {kind}
      next(pc) == /\ flights' = [flights EXCEPT ![k].pc = pc, ![k].tried = tried,
                                                ![k].failures = failures]
                  /\ UNCHANGED <<callers, limitedUntil>>
  IN /\ At(k, "chain") /\ flights[k].leader \notin ctxDone
     /\ \/ /\ MayAuthenticate(kind) /\ HasCookies
           /\ next("authenticated")
        \/ /\ StopsFallback(kind) /\ ~(MayAuthenticate(kind) /\ HasCookies)
           /\ Finish(k, "error") /\ RecordRateLimit(kind)
        \/ /\ ~StopsFallback(kind) /\ ~IsLast(tried)
           /\ next("chain")
        \/ /\ ~StopsFallback(kind) /\ IsLast(tried)
           /\ IF HasCookies /\ "botCheck" \in failures
              THEN next("authenticated")
              ELSE Finish(k, "error") /\ UNCHANGED limitedUntil
     /\ UNCHANGED <<clock, cache, ctxDone>>

\* resolveAuthenticated: the one attempt with cookies.
AuthenticateSucceeds(k, plan) ==
  /\ At(k, "authenticated")
  /\ Resolved(k, plan)
  /\ UNCHANGED <<clock, cache, ctxDone>>

AuthenticateFails(k, kind) ==
  /\ At(k, "authenticated")
  /\ \/ /\ flights[k].leader \in ctxDone
        /\ Finish(k, "cancelled") /\ UNCHANGED limitedUntil
     \/ Finish(k, "error") /\ RecordRateLimit(kind)
  /\ UNCHANGED <<clock, cache, ctxDone>>

\* The plan is stored and the flight ends.
Store(k) ==
  /\ At(k, "store")
  /\ StorePlan(k, flights[k].plan)
  /\ Finish(k, "plan")
  /\ UNCHANGED <<clock, limitedUntil, ctxDone>>

--------------------------------------------------------------------------------
(* The environment *)

CancelContext(c) ==
  /\ callers[c].pc # "done" /\ c \notin ctxDone
  /\ ctxDone' = ctxDone \cup {c}
  /\ UNCHANGED <<clock, cache, limitedUntil, flights, callers>>

Tick ==
  /\ clock < MaxTime
  /\ clock' = clock + 1
  /\ UNCHANGED <<cache, limitedUntil, flights, callers, ctxDone>>

Extract(k) ==
  \/ TryCancelled(k)
  \/ \E plan \in Plans : TrySucceeds(k, plan) \/ AuthenticateSucceeds(k, plan)
  \/ \E kind \in Kinds : TryFails(k, kind) \/ AuthenticateFails(k, kind)

Fly(k) == Recheck(k) \/ Gate(k) \/ Extract(k) \/ Store(k)

Wait(c) == Join(c) \/ Receive(c) \/ GiveUp(c)

Next ==
  \/ \E c \in Callers, k \in Keys : Call(c, k)
  \/ \E c \in Callers : Wait(c) \/ CancelContext(c)
  \/ \E k \in Keys : Fly(k)
  \/ Tick

\* Goroutines run, and a provider answers: its subprocess or request has a timeout.
Fairness ==
  /\ \A k \in Keys : WF_vars(Fly(k))
  /\ \A c \in Callers : WF_vars(Wait(c))

Spec == Init /\ [][Next]_vars /\ Fairness

--------------------------------------------------------------------------------
(* Properties *)

\* No stream is resolved twice (CONCURRENCY.md: singleflight prevents the duplicate
\* resolution of a stream): no provider is asked for a key whose plan is cached,
\* even by a caller that missed the cache before another's flight filled it.
NoRedundantExtraction ==
  \A k \in Keys : At(k, "chain") \/ At(k, "authenticated") => ~Valid(k)

\* Cookies are the last resort and used once: after a restriction, or after every
\* public provider failed and one of them met the anti-bot check
\* (PLAYBACK_BACKENDS.md).  A rate limit ends the chain before them.
CookiesLast ==
  \A k \in Keys : At(k, "authenticated") =>
    LET f == flights[k] IN
    /\ HasCookies
    /\ "rateLimited" \notin f.failures /\ "final" \notin f.failures
    /\ "restricted" \in f.failures \/ ("botCheck" \in f.failures /\ f.tried = Providers)

\* A plan that the cache hands out still has the safety margin to live, whatever
\* lifetime its URLs announced, however long ago it was stored and however many
\* were stored since: there are never more than maximumPlaybackCacheEntries.
HitsAreFresh ==
  /\ Cardinality(DOMAIN cache) <= MaxEntries
  /\ \A k \in Keys : Valid(k) /\ cache[k].plan.expiresAt # None
                       => clock + Margin < cache[k].plan.expiresAt

\* Every call is answered: no caller is left behind by a flight that ended, was
\* cancelled with its leader, or was joined while it was ending.
CallsAreAnswered ==
  \A c \in Callers : callers[c].pc \in {"join", "waiting"} ~> callers[c].pc = "done"
================================================================================
