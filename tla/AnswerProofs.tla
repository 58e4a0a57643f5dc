------------------------------ MODULE AnswerProofs ------------------------------
(***************************************************************************)
(* What the program answers: where a video can be played from, and what    *)
(* the library shows for a question.  In this order:                       *)
(*                                                                         *)
(* 1. The resolver chain and its plan cache, for any number of callers,    *)
(*    keys and providers, any cache limit and any lifetimes:               *)
(*   - what the operators of cache.go do to the cache: it shrinks, or one  *)
(*     plan enters it after room was made;                                 *)
(*   - a flight that is past its second look at the cache has missed, and  *)
(*     only the flight of a key ever stores a plan under that key;         *)
(*   - the failures a chain has collected when it reaches the cookies;     *)
(*   - a caller that waits has a flight, whoever started it.               *)
(*                                                                         *)
(* 2. The filters of videos, a search and the pages of a list:             *)
(*   - the three filters are the same conjunction of tests, so they keep   *)
(*     the same videos in the same order;                                  *)
(*   - sorting is a permutation that keeps the order of equal keys;        *)
(*   - a reader that follows the cursors concatenates the windows of one   *)
(*     sequence.                                                           *)
(*                                                                         *)
(* 3. The sections of the home page: the greedy ranking picks, step by     *)
(*    step, a best remaining video after the penalty of its channel, and   *)
(*    each section is a window on a selection of the library.              *)
(*                                                                         *)
(* 4. The playlists and guides of channels:                                *)
(*   - storing a batch commutes with reading a line, so that the size of   *)
(*     the batches changes nothing but the batches;                        *)
(*   - an entry is counted exactly when its address follows;               *)
(*   - the first row that fits two conditions, and the rows that fit both. *)
(***************************************************************************)
EXTENDS CascadingResolver, Discovery, SequenceTheorems, FiniteSetTheorems, WellFoundedInduction, TLAPS

--------------------------------------------------------------------------------
(* The cache. *)

\* Entries only left the cache.
Shrinks(f) ==
  /\ f = [k \in DOMAIN f |-> f[k]]
  /\ \A k \in DOMAIN f : k \in DOMAIN cache /\ f[k] = cache[k]

LEMMA KeepShrinks ==
  ASSUME TypeOK, NEW S, S \subseteq DOMAIN cache
  PROVE  Shrinks(Keep(S)) /\ DOMAIN Keep(S) = S
BY DEF Shrinks, Keep

LEMMA ForgetShrinks ==
  ASSUME TypeOK, NEW k
  PROVE  Shrinks(Forget(k)) /\ k \notin DOMAIN Forget(k)
BY KeepShrinks DEF Forget

LEMMA SameShrinks == TypeOK => Shrinks(cache)
BY DEF TypeOK, Shrinks

LEMMA ShrunkIsTyped ==
  ASSUME TypeOK, NEW f, Shrinks(f)
  PROVE  DOMAIN f \subseteq Keys /\ f \in [DOMAIN f -> Entry]
BY DEF TypeOK, Shrinks

\* The deadline of an entry keeps the safety margin to the expiry of its plan.
LEMMA DeadlineKeepsMargin ==
  ASSUME TypeOK, NEW plan \in Plan
  PROVE  /\ Deadline(plan) \in Int
         /\ plan.expiresAt # None => Deadline(plan) + Margin <= plan.expiresAt
<1>1. clock \in Nat /\ {DefaultTTL, MaxTTL, Margin} \subseteq Nat
  BY ResolverAssumption DEF TypeOK
<1>2. plan.expiresAt \in Nat \cup {None}
  BY DEF Plan
<1>3. CASE plan.expiresAt = None
  BY <1>1, <1>3 DEF Deadline, Earlier
<1>4. CASE plan.expiresAt \in Nat /\ plan.expiresAt # None
  BY <1>1, <1>4 DEF Deadline, Earlier
<1>. QED  BY <1>2, <1>3, <1>4

\* What pruning keeps has room for one entry more.
LEMMA PrunedHasRoom ==
  ASSUME NEW kept \in Pruned, IsFiniteSet(DOMAIN cache), Cardinality(DOMAIN cache) <= MaxEntries
  PROVE  /\ kept \subseteq DOMAIN cache
         /\ IsFiniteSet(kept)
         /\ Cardinality(kept) < MaxEntries
<1>. DEFINE live == {k \in DOMAIN cache : Valid(k)}
<1>1. live \subseteq DOMAIN cache
  OBVIOUS
<1>2. IsFiniteSet(live) /\ Cardinality(live) <= MaxEntries
  <2>1. IsFiniteSet(live) /\ Cardinality(live) <= Cardinality(DOMAIN cache)
    BY <1>1, FS_Subset
  <2>2. Cardinality(live) \in Nat /\ Cardinality(DOMAIN cache) \in Nat
    BY <2>1, FS_CardinalityType
  <2>. HIDE DEF live
  <2>. QED  BY <2>1, <2>2, ResolverAssumption
<1>3. CASE Cardinality(live) < MaxEntries
  <2>1. kept = live
    BY <1>3 DEF Pruned
  <2>. QED  BY <1>1, <1>2, <1>3, <2>1
<1>4. CASE ~(Cardinality(live) < MaxEntries)
  <2>1. PICK k \in live : kept = live \ {k}
    BY <1>4 DEF Pruned
  <2>2. IsFiniteSet(kept) /\ Cardinality(kept) = Cardinality(live) - 1
    BY <1>2, <2>1, FS_RemoveElement
  <2>3. Cardinality(live) \in Nat /\ MaxEntries \in Nat
    BY <1>2, FS_CardinalityType, ResolverAssumption
  <2>4. kept \subseteq DOMAIN cache
    BY <1>1, <2>1
  <2>. HIDE DEF live
  <2>. QED  BY <1>2, <2>2, <2>3, <2>4
<1>. QED  BY <1>3, <1>4

\* A plan is stored under the key of its flight, with its deadline; every other
\* entry was there.
LEMMA StoreAddsOne ==
  ASSUME TypeOK, NEW k \in Keys, NEW plan \in Plan, StorePlan(k, plan)
  PROVE  /\ DOMAIN cache' \subseteq Keys
         /\ cache' \in [DOMAIN cache' -> Entry]
         /\ \A l \in DOMAIN cache' :
              \/ l \in DOMAIN cache /\ cache'[l] = cache[l]
              \/ /\ l = k
                 /\ cache'[l] = [plan |-> plan, validUntil |-> Deadline(plan)]
<1>1. CASE UNCHANGED cache
  BY <1>1 DEF TypeOK
<1>2. ASSUME clock < Deadline(plan), NEW kept \in Pruned,
             cache' = [l \in kept \cup {k} |->
                         IF l = k THEN [plan |-> plan, validUntil |-> Deadline(plan)] ELSE cache[l]]
      PROVE  /\ DOMAIN cache' \subseteq Keys
             /\ cache' \in [DOMAIN cache' -> Entry]
             /\ \A l \in DOMAIN cache' :
                  \/ l \in DOMAIN cache /\ cache'[l] = cache[l]
                  \/ /\ l = k
                     /\ cache'[l] = [plan |-> plan, validUntil |-> Deadline(plan)]
  <2>1. kept \subseteq DOMAIN cache
    BY DEF Pruned
  <2>2. Deadline(plan) \in Nat
    BY <1>2, DeadlineKeepsMargin DEF TypeOK
  <2>3. [plan |-> plan, validUntil |-> Deadline(plan)] \in Entry
    BY <2>2 DEF Entry
  <2>. QED  BY <1>2, <2>1, <2>3 DEF TypeOK
<1>. QED  BY <1>1, <1>2 DEF StorePlan

--------------------------------------------------------------------------------
(* Types. *)

\* Only a resolved flight carries a plan to store.
PlanCarried == \A k \in Keys : At(k, "store") => flights[k].plan \in Plan

\* A caller that is past its first look at the cache has a key.
CallersHaveKeys ==
  \A c \in Callers : callers[c].pc \in {"join", "waiting", "answered"} => callers[c].key \in Keys

Typed == TypeOK /\ PlanCarried /\ CallersHaveKeys

LEMMA InitTyped == Init => Typed
BY ResolverAssumption DEF Init, Typed, TypeOK, PlanCarried, CallersHaveKeys, At, NoFlight

\* Resolve returns to one caller.
LEMMA ReturnTyped ==
  ASSUME Typed, NEW c \in Callers, Return(c), UNCHANGED <<clock, limitedUntil, flights, ctxDone>>,
         Shrinks(cache')
  PROVE  Typed'
<1>1. TypeOK'
  BY ShrunkIsTyped DEF Typed, TypeOK, Return
<1>2. PlanCarried' /\ CallersHaveKeys'
  BY DEF Typed, TypeOK, PlanCarried, CallersHaveKeys, Return, At
<1>. QED  BY <1>1, <1>2 DEF Typed

\* A flight ends.
LEMMA FinishTyped ==
  ASSUME Typed, NEW k \in Keys, NEW result \in {"plan", "error", "cancelled"}, Finish(k, result)
  PROVE  /\ flights' \in [Keys -> Flight \cup {NoFlight}]
         /\ callers' \in [Callers -> [pc : {"idle", "join", "waiting", "answered", "done"},
                                      key : Keys \cup {None},
                                      result : {None, "plan", "error", "cancelled"}]]
         /\ PlanCarried' /\ CallersHaveKeys'
BY DEF Typed, TypeOK, Finish, PlanCarried, CallersHaveKeys, At, NoFlight

\* A flight goes on.
LEMMA GoTyped ==
  ASSUME Typed, NEW k \in Keys, NEW f \in Flight, f.pc = "store" => f.plan \in Plan,
         flights' = [flights EXCEPT ![k] = f], UNCHANGED callers
  PROVE  /\ flights' \in [Keys -> Flight \cup {NoFlight}]
         /\ PlanCarried' /\ CallersHaveKeys'
BY DEF Typed, TypeOK, PlanCarried, CallersHaveKeys, At, NoFlight

LEMMA WaitTyped ==
  ASSUME Typed, NEW c \in Callers, Wait(c)
  PROVE  Typed'
<1>1. CASE Receive(c)
  BY <1>1, ReturnTyped, SameShrinks DEF Receive, Typed
<1>2. CASE GiveUp(c)
  BY <1>2, ReturnTyped, SameShrinks DEF GiveUp, Typed
<1>3. CASE Join(c)
  <2>. DEFINE k == callers[c].key
              new == [pc |-> "recheck", leader |-> c, tried |-> 0, failures |-> {}, plan |-> None]
  <2>1. k \in Keys
    BY <1>3 DEF Typed, CallersHaveKeys, Join
  <2>2. new \in Flight
    BY ResolverAssumption DEF Flight
  <2>3. flights' = flights \/ flights' = [flights EXCEPT ![k] = new]
    BY <1>3 DEF Join
  <2>4. flights' \in [Keys -> Flight \cup {NoFlight}] /\ PlanCarried'
    <3>. HIDE DEF new
    <3>1. new.pc = "recheck"
      BY DEF new
    <3>. QED  BY <2>1, <2>2, <2>3, <3>1 DEF Typed, TypeOK, PlanCarried, At, NoFlight
  <2>5. CallersHaveKeys'
    BY <1>3 DEF Typed, TypeOK, CallersHaveKeys, Join
  <2>6. TypeOK'
    BY <1>3, <2>4 DEF Typed, TypeOK, Join
  <2>. QED  BY <2>4, <2>5, <2>6 DEF Typed
<1>. QED  BY <1>1, <1>2, <1>3 DEF Wait

LEMMA CallTyped ==
  ASSUME Typed, NEW c \in Callers, NEW k \in Keys, Call(c, k)
  PROVE  Typed'
<1>1. CASE Return(c) /\ UNCHANGED cache
  BY <1>1, ReturnTyped, SameShrinks DEF Call, Typed
<1>2. CASE /\ callers' = [callers EXCEPT ![c].pc = "join", ![c].key = k]
           /\ cache' = Forget(k)
  <2>1. DOMAIN cache' \subseteq Keys /\ cache' \in [DOMAIN cache' -> Entry]
    BY <1>2, ForgetShrinks, ShrunkIsTyped DEF Typed
  <2>2. TypeOK'
    BY <1>2, <2>1, ZenonT(60) DEF Call, Typed, TypeOK
  <2>3. PlanCarried' /\ CallersHaveKeys'
    BY <1>2 DEF Call, Typed, TypeOK, PlanCarried, CallersHaveKeys, At
  <2>. QED  BY <2>2, <2>3 DEF Typed
<1>. QED  BY <1>1, <1>2 DEF Call

\* The flight of k is one, with what its fields may be.
LEMMA FlightAt ==
  ASSUME TypeOK, NEW k \in Keys, NEW pc, At(k, pc)
  PROVE  /\ flights[k] \in Flight
         /\ flights[k].pc = pc
         /\ flights[k].leader \in Callers
         /\ flights[k].tried \in 0..Providers
         /\ flights[k].failures \subseteq Kinds
         /\ flights[k].plan \in Plan \cup {None}
BY DEF TypeOK, At, Flight

LEMMA ExtractTyped ==
  ASSUME Typed, \A k \in Keys : At(k, "chain") => flights[k].tried < Providers,
         NEW k \in Keys, Extract(k)
  PROVE  Typed'
<1>0. /\ clock \in Nat /\ limitedUntil \in Nat /\ clock + Pause \in Nat
      /\ Providers \in Nat
  BY ResolverAssumption DEF Typed, TypeOK
<1>1. CASE TryCancelled(k)
  BY <1>1, FinishTyped DEF TryCancelled, Typed, TypeOK
<1>2. ASSUME NEW plan \in Plans, TrySucceeds(k, plan) \/ AuthenticateSucceeds(k, plan)
      PROVE  Typed'
  <2>. DEFINE f == [flights[k] EXCEPT !.pc = "store", !.plan = plan]
  <2>1. plan \in Plan
    BY <1>0, ResolverAssumption DEF Plans, Plan
  <2>2. flights[k] \in Flight
    BY <1>2, FlightAt DEF Typed, TrySucceeds, AuthenticateSucceeds
  <2>3. f \in Flight /\ (f.pc = "store" => f.plan \in Plan)
    BY <2>1, <2>2 DEF Flight
  <2>4. flights' = [flights EXCEPT ![k] = f] /\ UNCHANGED callers
    BY <1>2 DEF TrySucceeds, AuthenticateSucceeds, Resolved
  <2>. HIDE DEF f
  <2>. QED  BY <1>2, <2>3, <2>4, GoTyped DEF TrySucceeds, AuthenticateSucceeds, Resolved, Typed, TypeOK
<1>3. ASSUME NEW kind \in Kinds, TryFails(k, kind)
      PROVE  Typed'
  <2>1. flights[k] \in Flight /\ flights[k].tried + 1 \in 0..Providers
    BY <1>0, <1>3, FlightAt DEF Typed, TryFails
  <2>2. ASSUME NEW pc \in {"authenticated", "chain"},
               flights' = [flights EXCEPT ![k].pc = pc, ![k].tried = flights[k].tried + 1,
                                          ![k].failures = flights[k].failures \cup {kind}],
               UNCHANGED <<callers, limitedUntil>>
        PROVE  Typed'
    <3>. DEFINE f == [flights[k] EXCEPT !.pc = pc, !.tried = flights[k].tried + 1,
                                        !.failures = flights[k].failures \cup {kind}]
    <3>1. f \in Flight /\ f.pc # "store"
      BY <2>1, <2>2 DEF Flight
    <3>2. flights' = [flights EXCEPT ![k] = f]
      BY <2>2
    <3>. HIDE DEF f
    <3>. QED  BY <1>3, <2>2, <3>1, <3>2, GoTyped DEF TryFails, Typed, TypeOK
  <2>3. CASE Finish(k, "error") /\ (RecordRateLimit(kind) \/ UNCHANGED limitedUntil)
    BY <1>0, <1>3, <2>3, FinishTyped DEF TryFails, RecordRateLimit, Typed, TypeOK
  <2>. QED  BY <1>3, <2>2, <2>3 DEF TryFails
<1>4. ASSUME NEW kind \in Kinds, AuthenticateFails(k, kind)
      PROVE  Typed'
  BY <1>0, <1>4, FinishTyped DEF AuthenticateFails, RecordRateLimit, Typed, TypeOK
<1>. QED  BY <1>1, <1>2, <1>3, <1>4 DEF Extract

LEMMA FlyTyped ==
  ASSUME Typed, \A k \in Keys : At(k, "chain") => flights[k].tried < Providers,
         NEW k \in Keys, Fly(k)
  PROVE  Typed'
<1>1. ASSUME NEW pc \in {"gate", "chain"}, NEW from, At(k, from), Go(k, pc)
      PROVE  /\ flights' \in [Keys -> Flight \cup {NoFlight}]
             /\ PlanCarried' /\ CallersHaveKeys' /\ UNCHANGED callers
  <2>. DEFINE f == [flights[k] EXCEPT !.pc = pc]
  <2>1. f \in Flight /\ f.pc # "store"
    BY <1>1, FlightAt DEF Typed, Flight
  <2>2. flights' = [flights EXCEPT ![k] = f] /\ UNCHANGED callers
    BY <1>1 DEF Go
  <2>. HIDE DEF f
  <2>. QED  BY <2>1, <2>2, GoTyped
<1>2. CASE Recheck(k)
  <2>1. Shrinks(cache')
    BY <1>2, SameShrinks, ForgetShrinks DEF Recheck, Typed
  <2>2. DOMAIN cache' \subseteq Keys /\ cache' \in [DOMAIN cache' -> Entry]
    BY <2>1, ShrunkIsTyped DEF Typed
  <2>3. CASE Finish(k, "plan")
    BY <1>2, <2>2, <2>3, FinishTyped DEF Recheck, Typed, TypeOK
  <2>4. CASE Go(k, "gate")
    BY <1>1, <1>2, <2>2, <2>4 DEF Recheck, Typed, TypeOK
  <2>. QED  BY <1>2, <2>3, <2>4 DEF Recheck
<1>3. CASE Gate(k)
  <2>1. CASE Finish(k, "error")
    BY <1>3, <2>1, FinishTyped DEF Gate, Typed, TypeOK
  <2>2. CASE Go(k, "chain")
    BY <1>1, <1>3, <2>2 DEF Gate, Typed, TypeOK
  <2>. QED  BY <1>3, <2>1, <2>2 DEF Gate
<1>4. CASE Extract(k)
  BY <1>4, ExtractTyped
<1>5. CASE Store(k)
  <2>1. flights[k].plan \in Plan
    BY <1>5 DEF Store, Typed, PlanCarried
  <2>2. DOMAIN cache' \subseteq Keys /\ cache' \in [DOMAIN cache' -> Entry]
    BY <1>5, <2>1, StoreAddsOne DEF Store, Typed
  <2>. QED  BY <1>5, <2>2, FinishTyped DEF Store, Typed, TypeOK
<1>. QED  BY <1>2, <1>3, <1>4, <1>5 DEF Fly

--------------------------------------------------------------------------------
(* The order of the providers. *)

\* A chain that goes on has met no failure that ends it, and has a provider left.
ChainIsOpen ==
  \A k \in Keys :
    /\ At(k, "recheck") \/ At(k, "gate") => flights[k].tried = 0 /\ flights[k].failures = {}
    /\ At(k, "chain") => /\ flights[k].tried < Providers
                         /\ flights[k].failures \subseteq {"botCheck", "other"}

OrderInv == Typed /\ ChainIsOpen /\ CookiesLast

LEMMA InitOrder == Init => OrderInv
BY InitTyped DEF Init, OrderInv, ChainIsOpen, CookiesLast, At, NoFlight

\* The flight of one key moves and the others stay.
LEMMA OthersStay ==
  ASSUME ChainIsOpen, CookiesLast, NEW k \in Keys,
         \A l \in Keys \ {k} : flights'[l] = flights[l],
         /\ At(k, "recheck")' \/ At(k, "gate")' => flights'[k].tried = 0 /\ flights'[k].failures = {}
         /\ At(k, "chain")' => /\ flights'[k].tried < Providers
                               /\ flights'[k].failures \subseteq {"botCheck", "other"},
         At(k, "authenticated")' =>
           /\ HasCookies
           /\ "rateLimited" \notin flights'[k].failures /\ "final" \notin flights'[k].failures
           /\ \/ "restricted" \in flights'[k].failures
              \/ "botCheck" \in flights'[k].failures /\ flights'[k].tried = Providers
  PROVE  ChainIsOpen' /\ CookiesLast'
BY DEF ChainIsOpen, CookiesLast, At

LEMMA SameOrder ==
  ASSUME OrderInv, UNCHANGED flights
  PROVE  ChainIsOpen' /\ CookiesLast'
BY DEF OrderInv, ChainIsOpen, CookiesLast, At

LEMMA FinishOrder ==
  ASSUME OrderInv, NEW k \in Keys, NEW result, Finish(k, result)
  PROVE  ChainIsOpen' /\ CookiesLast'
<1>1. ~At(k, "recheck")' /\ ~At(k, "gate")' /\ ~At(k, "chain")' /\ ~At(k, "authenticated")'
  BY DEF OrderInv, Typed, TypeOK, Finish, At
<1>2. \A l \in Keys \ {k} : flights'[l] = flights[l]
  BY DEF OrderInv, Typed, TypeOK, Finish
<1>. QED  BY <1>1, <1>2, OthersStay DEF OrderInv

\* A chain that asked its next provider in vain.
LEMMA TryFailsOrder ==
  ASSUME OrderInv, NEW k \in Keys, NEW kind \in Kinds, TryFails(k, kind)
  PROVE  ChainIsOpen' /\ CookiesLast'
<1>. DEFINE tried == flights[k].tried + 1
            failures == flights[k].failures \cup {kind}
<1>1. /\ flights[k] \in Flight /\ flights[k].tried \in Nat /\ Providers \in Nat
      /\ flights[k].tried < Providers /\ flights[k].failures \subseteq {"botCheck", "other"}
  BY FlightAt, ResolverAssumption DEF TryFails, OrderInv, Typed, ChainIsOpen
<1>2. \A l \in Keys \ {k} : flights'[l] = flights[l]
  BY DEF TryFails, Finish, OrderInv, Typed, TypeOK
<1>3. ASSUME NEW pc \in {"authenticated", "chain"},
             flights' = [flights EXCEPT ![k].pc = pc, ![k].tried = tried, ![k].failures = failures],
             pc = "chain" => ~StopsFallback(kind) /\ ~IsLast(tried),
             pc = "authenticated" =>
               /\ HasCookies
               /\ kind = "restricted" \/ (~StopsFallback(kind) /\ IsLast(tried) /\ "botCheck" \in failures)
      PROVE  ChainIsOpen' /\ CookiesLast'
  <2>1. flights'[k].pc = pc /\ flights'[k].tried = tried /\ flights'[k].failures = failures
    BY <1>1, <1>3 DEF OrderInv, Typed, TypeOK, Flight
  <2>2. CASE pc = "chain"
    <3>1. tried < Providers /\ failures \subseteq {"botCheck", "other"}
      BY <1>1, <1>3, <2>2 DEF StopsFallback, IsLast, Kinds
    <3>. HIDE DEF tried, failures
    <3>. QED  BY <1>2, <2>1, <2>2, <3>1, OthersStay DEF OrderInv, At
  <2>3. CASE pc = "authenticated"
    <3>1. /\ HasCookies
          /\ "rateLimited" \notin failures /\ "final" \notin failures
          /\ "restricted" \in failures \/ ("botCheck" \in failures /\ tried = Providers)
      BY <1>1, <1>3, <2>3 DEF StopsFallback, IsLast, Kinds
    <3>. HIDE DEF tried, failures
    <3>. QED  BY <1>2, <2>1, <2>3, <3>1, OthersStay DEF OrderInv, At
  <2>. QED  BY <2>2, <2>3
<1>4. CASE Finish(k, "error")
  BY <1>4, FinishOrder
<1>. QED  BY <1>3, <1>4 DEF TryFails, MayAuthenticate

LEMMA FlyOrder ==
  ASSUME OrderInv, NEW k \in Keys, Fly(k)
  PROVE  ChainIsOpen' /\ CookiesLast'
<1>1. ASSUME NEW pc \in {"gate", "chain"}, Go(k, pc),
             flights[k].tried = 0 /\ flights[k].failures = {}, flights[k] \in Flight
      PROVE  ChainIsOpen' /\ CookiesLast'
  <2>1. flights'[k].pc = pc /\ flights'[k].tried = 0 /\ flights'[k].failures = {}
    BY <1>1 DEF Go, OrderInv, Typed, TypeOK, Flight
  <2>2. \A l \in Keys \ {k} : flights'[l] = flights[l]
    BY <1>1 DEF Go, OrderInv, Typed, TypeOK
  <2>3. 0 < Providers
    BY ResolverAssumption
  <2>. QED  BY <1>1, <2>1, <2>2, <2>3, OthersStay DEF OrderInv, At
<1>2. CASE Recheck(k)
  BY <1>1, <1>2, FinishOrder, FlightAt DEF Recheck, OrderInv, Typed, ChainIsOpen
<1>3. CASE Gate(k)
  BY <1>1, <1>3, FinishOrder, FlightAt DEF Gate, OrderInv, Typed, ChainIsOpen
<1>4. CASE TryCancelled(k)
  BY <1>4, FinishOrder DEF TryCancelled
<1>5. ASSUME NEW plan \in Plans, TrySucceeds(k, plan) \/ AuthenticateSucceeds(k, plan)
      PROVE  ChainIsOpen' /\ CookiesLast'
  <2>1. flights[k] \in Flight
    BY <1>5, FlightAt DEF TrySucceeds, AuthenticateSucceeds, OrderInv, Typed
  <2>2. flights'[k].pc = "store"
    BY <1>5, <2>1 DEF TrySucceeds, AuthenticateSucceeds, Resolved, OrderInv, Typed, TypeOK, Flight
  <2>3. \A l \in Keys \ {k} : flights'[l] = flights[l]
    BY <1>5 DEF TrySucceeds, AuthenticateSucceeds, Resolved, OrderInv, Typed, TypeOK
  <2>. QED  BY <2>2, <2>3, OthersStay DEF OrderInv, At
<1>6. ASSUME NEW kind \in Kinds, TryFails(k, kind)
      PROVE  ChainIsOpen' /\ CookiesLast'
  BY <1>6, TryFailsOrder
<1>7. ASSUME NEW kind \in Kinds, AuthenticateFails(k, kind)
      PROVE  ChainIsOpen' /\ CookiesLast'
  BY <1>7, FinishOrder DEF AuthenticateFails
<1>8. CASE Store(k)
  BY <1>8, FinishOrder DEF Store
<1>. QED  BY <1>2, <1>3, <1>4, <1>5, <1>6, <1>7, <1>8 DEF Fly, Extract

LEMMA WaitOrder ==
  ASSUME OrderInv, NEW c \in Callers, Wait(c)
  PROVE  ChainIsOpen' /\ CookiesLast'
<1>1. CASE UNCHANGED flights
  BY <1>1, SameOrder
<1>2. CASE Join(c) /\ ~UNCHANGED flights
  <2>. DEFINE k == callers[c].key
  <2>1. k \in Keys
    BY <1>2 DEF Join, OrderInv, Typed, CallersHaveKeys
  <2>2. /\ \A l \in Keys \ {k} : flights'[l] = flights[l]
        /\ flights'[k].pc = "recheck" /\ flights'[k].tried = 0 /\ flights'[k].failures = {}
    BY <1>2, <2>1 DEF Join, OrderInv, Typed, TypeOK
  <2>. QED  BY <2>1, <2>2, OthersStay DEF OrderInv, At
<1>. QED  BY <1>1, <1>2 DEF Wait, Receive, GiveUp

LEMMA OrderStep == OrderInv /\ [Next]_vars => OrderInv'
<1>. SUFFICES ASSUME OrderInv, [Next]_vars PROVE OrderInv'
  OBVIOUS
<1>1. ASSUME NEW c \in Callers, NEW k \in Keys, Call(c, k) PROVE OrderInv'
  BY <1>1, CallTyped, SameOrder DEF OrderInv, Call
<1>2. ASSUME NEW c \in Callers, Wait(c) PROVE OrderInv'
  BY <1>2, WaitTyped, WaitOrder DEF OrderInv
<1>3. ASSUME NEW c \in Callers, CancelContext(c) PROVE OrderInv'
  <2>1. Typed'
    BY <1>3 DEF CancelContext, OrderInv, Typed, TypeOK, PlanCarried, CallersHaveKeys, At
  <2>. QED  BY <1>3, <2>1, SameOrder DEF OrderInv, CancelContext
<1>4. ASSUME NEW k \in Keys, Fly(k) PROVE OrderInv'
  BY <1>4, FlyTyped, FlyOrder DEF OrderInv, ChainIsOpen
<1>5. CASE Tick
  <2>1. Typed'
    BY <1>5 DEF Tick, OrderInv, Typed, TypeOK, PlanCarried, CallersHaveKeys, At
  <2>. QED  BY <1>5, <2>1, SameOrder DEF OrderInv, Tick
<1>6. CASE UNCHANGED vars
  <2>1. Typed'
    BY <1>6 DEF vars, OrderInv, Typed, TypeOK, PlanCarried, CallersHaveKeys, At
  <2>. QED  BY <1>6, <2>1, SameOrder DEF OrderInv, vars
<1>. QED  BY <1>1, <1>2, <1>3, <1>4, <1>5, <1>6 DEF Next

LEMMA OrderHolds == Spec => []OrderInv
BY InitOrder, OrderStep, PTL DEF Spec

\* Every variable of the chain keeps its type: in particular an entry of the
\* cache has a deadline in the future of its storing (storePlan, cache.go).
THEOREM ResolverTyped == Spec => []TypeOK
<1>1. OrderInv => TypeOK
  BY DEF OrderInv, Typed
<1>. QED  BY <1>1, OrderHolds, PTL

\* Cookies are used only where they are configured, and only after a restriction
\* or after all public providers failed with one of them at the anti-bot check;
\* never after a rate limit or a final failure (resolveUncached, cascading.go).
THEOREM CookiesComeLast == Spec => []CookiesLast
<1>1. OrderInv => CookiesLast
  BY DEF OrderInv
<1>. QED  BY <1>1, OrderHolds, PTL

--------------------------------------------------------------------------------
(* The cache and the flights. *)

\* A flight that has looked at the cache a second time found nothing there.
ExtractingMissed ==
  \A k \in Keys : At(k, "gate") \/ At(k, "chain") \/ At(k, "authenticated") => ~Valid(k)

EntriesKeepMargin ==
  \A k \in DOMAIN cache : cache[k].plan.expiresAt # None =>
    cache[k].validUntil + Margin <= cache[k].plan.expiresAt

CacheIsBounded == IsFiniteSet(DOMAIN cache) /\ Cardinality(DOMAIN cache) <= MaxEntries

CacheInv == OrderInv /\ ExtractingMissed /\ EntriesKeepMargin /\ CacheIsBounded

LEMMA InitCache == Init => CacheInv
<1>. SUFFICES ASSUME Init PROVE CacheInv
  OBVIOUS
<1>1. DOMAIN cache = {}
  BY DEF Init
<1>2. CacheIsBounded
  BY <1>1, FS_EmptySet, ResolverAssumption DEF CacheIsBounded
<1>. QED  BY <1>1, <1>2, InitOrder DEF CacheInv, ExtractingMissed, EntriesKeepMargin, Valid

\* Where entries only leave, what is left is as fresh as it was, and a miss stays
\* one while time goes on.
LEMMA ShrunkCache ==
  ASSUME CacheInv, Shrinks(cache'), clock' \in Nat, clock <= clock'
  PROVE  /\ EntriesKeepMargin' /\ CacheIsBounded'
         /\ \A k \in Keys : ~Valid(k) => ~Valid(k)'
<1>0. TypeOK
  BY DEF CacheInv, OrderInv, Typed
<1>1. EntriesKeepMargin'
  BY DEF CacheInv, EntriesKeepMargin, Shrinks
<1>2. CacheIsBounded'
  <2>1. DOMAIN cache' \subseteq DOMAIN cache
    BY DEF Shrinks
  <2>2. /\ IsFiniteSet(DOMAIN cache') /\ Cardinality(DOMAIN cache') <= Cardinality(DOMAIN cache)
        /\ Cardinality(DOMAIN cache') \in Nat /\ Cardinality(DOMAIN cache) \in Nat
    BY <2>1, FS_Subset, FS_CardinalityType DEF CacheInv, CacheIsBounded
  <2>. QED  BY <2>2, ResolverAssumption DEF CacheInv, CacheIsBounded
<1>3. ASSUME NEW k \in Keys, Valid(k)' PROVE Valid(k)
  BY <1>0, <1>3 DEF Valid, Shrinks, TypeOK, Entry
<1>. QED  BY <1>1, <1>2, <1>3

\* Nobody enters the extraction of a key without a miss.
LEMMA MissesStay ==
  ASSUME CacheInv, \A k \in Keys : ~Valid(k) => ~Valid(k)',
         \A k \in Keys : At(k, "gate")' \/ At(k, "chain")' \/ At(k, "authenticated")' =>
           At(k, "gate") \/ At(k, "chain") \/ At(k, "authenticated") \/ ~Valid(k)
  PROVE  ExtractingMissed'
BY DEF CacheInv, ExtractingMissed

LEMMA StoreCache ==
  ASSUME CacheInv, NEW k \in Keys, Store(k)
  PROVE  ExtractingMissed' /\ EntriesKeepMargin' /\ CacheIsBounded'
<1>. DEFINE plan == flights[k].plan
<1>0. TypeOK /\ plan \in Plan /\ StorePlan(k, plan) /\ UNCHANGED clock
  BY DEF CacheInv, OrderInv, Typed, PlanCarried, Store
<1>1. \A l \in DOMAIN cache' :
         \/ l \in DOMAIN cache /\ cache'[l] = cache[l]
         \/ l = k /\ cache'[l] = [plan |-> plan, validUntil |-> Deadline(plan)]
  BY <1>0, StoreAddsOne
<1>2. EntriesKeepMargin'
  <2>. HIDE DEF plan
  <2>. QED  BY <1>0, <1>1, DeadlineKeepsMargin DEF CacheInv, EntriesKeepMargin
<1>3. ExtractingMissed'
  <2>1. ~At(k, "gate")' /\ ~At(k, "chain")' /\ ~At(k, "authenticated")'
    BY <1>0 DEF Store, Finish, At, TypeOK
  <2>2. \A l \in Keys \ {k} : flights'[l] = flights[l]
    BY <1>0 DEF Store, Finish, TypeOK
  <2>3. \A l \in Keys \ {k} : ~Valid(l) => ~Valid(l)'
    BY <1>0, <1>1 DEF Valid
  <2>. QED  BY <2>1, <2>2, <2>3 DEF CacheInv, ExtractingMissed, At
<1>4. CacheIsBounded'
  <2>1. CASE UNCHANGED cache
    BY <2>1 DEF CacheInv, CacheIsBounded
  <2>2. ASSUME NEW kept \in Pruned, DOMAIN cache' = kept \cup {k}
        PROVE  CacheIsBounded'
    <3>1. IsFiniteSet(kept) /\ Cardinality(kept) < MaxEntries
      BY PrunedHasRoom DEF CacheInv, CacheIsBounded
    <3>2. /\ IsFiniteSet(kept \cup {k})
          /\ Cardinality(kept \cup {k}) = Cardinality(kept) \/ Cardinality(kept \cup {k}) = Cardinality(kept) + 1
      BY <3>1, FS_AddElement
    <3>3. Cardinality(kept) \in Nat /\ MaxEntries \in Nat
      BY <3>1, FS_CardinalityType, ResolverAssumption
    <3>. QED  BY <2>2, <3>1, <3>2, <3>3 DEF CacheIsBounded
  <2>. QED  BY <1>0, <2>1, <2>2 DEF StorePlan
<1>. QED  BY <1>2, <1>3, <1>4

LEMMA CacheStep == CacheInv /\ [Next]_vars => CacheInv'
<1>. SUFFICES ASSUME CacheInv, [Next]_vars PROVE CacheInv'
  OBVIOUS
<1>0. OrderInv' /\ TypeOK /\ clock \in Nat
  BY OrderStep DEF CacheInv, OrderInv, Typed, TypeOK
<1>1. ASSUME Shrinks(cache'), clock' \in Nat, clock <= clock',
             \A k \in Keys : At(k, "gate")' \/ At(k, "chain")' \/ At(k, "authenticated")' =>
               At(k, "gate") \/ At(k, "chain") \/ At(k, "authenticated") \/ ~Valid(k)
      PROVE  CacheInv'
  BY <1>0, <1>1, ShrunkCache, MissesStay DEF CacheInv
<1>2. ASSUME NEW c \in Callers, NEW k \in Keys, Call(c, k) PROVE CacheInv'
  <2>1. Shrinks(cache')
    BY <1>0, <1>2, SameShrinks, ForgetShrinks DEF Call
  <2>. QED  BY <1>0, <1>1, <1>2, <2>1 DEF Call, At
<1>3. ASSUME NEW c \in Callers, Wait(c) \/ CancelContext(c) PROVE CacheInv'
  <2>1. UNCHANGED <<cache, clock>>
    BY <1>3 DEF Wait, Join, Receive, GiveUp, CancelContext
  <2>2. \A k \in Keys : flights'[k] = flights[k] \/ (flights'[k] # NoFlight => flights'[k].pc = "recheck")
    BY <1>0, <1>3 DEF Wait, Join, Receive, GiveUp, CancelContext, TypeOK
  <2>. QED  BY <1>0, <1>1, <2>1, <2>2, SameShrinks DEF At
<1>4. ASSUME NEW k \in Keys, Recheck(k) \/ Gate(k) \/ Extract(k) PROVE CacheInv'
  <2>1. Shrinks(cache') /\ UNCHANGED clock
    BY <1>0, <1>4, SameShrinks, ForgetShrinks
       DEF Recheck, Gate, Extract, TryCancelled, TrySucceeds, AuthenticateSucceeds, TryFails, AuthenticateFails
  <2>2. \A l \in Keys \ {k} : flights'[l] = flights[l]
    BY <1>0, <1>4
       DEF Recheck, Gate, Extract, TryCancelled, TrySucceeds, AuthenticateSucceeds, TryFails, AuthenticateFails,
           Resolved, Finish, Go, TypeOK
  <2>3. CASE Recheck(k)
    <3>1. At(k, "gate")' \/ At(k, "chain")' \/ At(k, "authenticated")' => ~Valid(k)
      BY <1>0, <2>3 DEF Recheck, Finish, At, TypeOK
    <3>. QED  BY <1>0, <1>1, <2>1, <2>2, <3>1 DEF At
  <2>4. CASE Gate(k) \/ Extract(k)
    <3>1. At(k, "gate") \/ At(k, "chain") \/ At(k, "authenticated")
      BY <2>4 DEF Gate, Extract, TryCancelled, TrySucceeds, AuthenticateSucceeds, TryFails, AuthenticateFails
    <3>. QED  BY <1>0, <1>1, <2>1, <2>2, <3>1 DEF At
  <2>. QED  BY <1>4, <2>3, <2>4
<1>5. ASSUME NEW k \in Keys, Store(k) PROVE CacheInv'
  BY <1>0, <1>5, StoreCache DEF CacheInv
<1>6. CASE Tick
  BY <1>0, <1>1, <1>6, SameShrinks DEF Tick, At
<1>7. CASE UNCHANGED vars
  BY <1>0, <1>1, <1>7, SameShrinks DEF vars, At
<1>. QED  BY <1>2, <1>3, <1>4, <1>5, <1>6, <1>7 DEF Next, Fly

LEMMA CacheHolds == Spec => []CacheInv
BY InitCache, CacheStep, PTL DEF Spec

\* No provider is asked for a key whose plan is cached: between a flight's second
\* look at the cache and its end nobody else stores that plan (cascading.go).
THEOREM ExtractionsMissed == Spec => []NoRedundantExtraction
<1>1. CacheInv => NoRedundantExtraction
  BY DEF CacheInv, ExtractingMissed, NoRedundantExtraction
<1>. QED  BY <1>1, CacheHolds, PTL

\* The cache never exceeds its limit and never hands out a plan within the safety
\* margin of its expiry (playbackPlanCacheDeadline, pruneCacheLocked).
THEOREM CachedPlansAreFresh == Spec => []HitsAreFresh
<1>1. CacheInv => HitsAreFresh
  <2>. SUFFICES ASSUME CacheInv, NEW k \in Keys, Valid(k), cache[k].plan.expiresAt # None
                PROVE  clock + Margin < cache[k].plan.expiresAt
    BY DEF HitsAreFresh, CacheInv, CacheIsBounded
  <2>1. /\ k \in DOMAIN cache /\ clock < cache[k].validUntil
        /\ cache[k].validUntil + Margin <= cache[k].plan.expiresAt
    BY DEF Valid, CacheInv, EntriesKeepMargin
  <2>2. cache[k] \in Entry /\ clock \in Nat /\ Margin \in Nat
    BY <2>1, ResolverAssumption DEF CacheInv, OrderInv, Typed, TypeOK
  <2>3. cache[k].validUntil \in Nat /\ cache[k].plan.expiresAt \in Nat
    BY <2>2 DEF Entry, Plan
  <2>. QED  BY <2>1, <2>2, <2>3
<1>. QED  BY <1>1, CacheHolds, PTL

--------------------------------------------------------------------------------
(* The callers. *)

\* A caller that waits has a flight of its key under way: one that ends answers
\* everybody who joined it, whoever started it and whoever gave up meanwhile.
WaitersHaveFlights ==
  \A c \in Callers : callers[c].pc = "waiting" => flights[callers[c].key] \in Flight

WaitInv == OrderInv /\ WaitersHaveFlights

\* Nobody begins to wait, and no flight ends without its callers.
LEMMA WaitersStay ==
  ASSUME WaitInv, NEW k \in Keys,
         \A l \in Keys \ {k} : flights'[l] = flights[l],
         \/ flights'[k] \in Flight /\ UNCHANGED callers
         \/ \E result : Finish(k, result)
         \/ flights'[k] = flights[k] /\ UNCHANGED callers
  PROVE  WaitersHaveFlights'
<1>1. CASE UNCHANGED callers /\ (flights'[k] \in Flight \/ flights'[k] = flights[k])
  BY <1>1 DEF WaitInv, WaitersHaveFlights, OrderInv, Typed, CallersHaveKeys
<1>2. ASSUME NEW result, Finish(k, result) PROVE WaitersHaveFlights'
  <2>. SUFFICES ASSUME NEW c \in Callers, callers'[c].pc = "waiting"
                PROVE  flights'[callers'[c].key] \in Flight
    BY DEF WaitersHaveFlights
  <2>1. callers'[c] = callers[c] /\ callers[c].key # k
    BY <1>2 DEF Finish, WaitInv, OrderInv, Typed, TypeOK
  <2>. QED  BY <2>1 DEF WaitInv, WaitersHaveFlights, OrderInv, Typed, CallersHaveKeys
<1>. QED  BY <1>1, <1>2

LEMMA FlyWaiters ==
  ASSUME WaitInv, NEW k \in Keys, Fly(k)
  PROVE  WaitersHaveFlights'
<1>0. TypeOK
  BY DEF WaitInv, OrderInv, Typed
<1>1. \A l \in Keys \ {k} : flights'[l] = flights[l]
  BY <1>0 DEF Fly, Recheck, Gate, Extract, Store, TryCancelled, TrySucceeds, AuthenticateSucceeds, TryFails,
              AuthenticateFails, Resolved, Finish, Go, TypeOK
<1>2. ASSUME NEW result, Finish(k, result) PROVE WaitersHaveFlights'
  BY <1>1, <1>2, WaitersStay
<1>3. ASSUME NEW from, At(k, from), NEW pc \in {"gate", "chain"}, Go(k, pc) PROVE WaitersHaveFlights'
  <2>1. flights'[k] \in Flight
    BY <1>0, <1>3, FlightAt DEF Go, TypeOK, Flight
  <2>. QED  BY <1>1, <1>3, <2>1, WaitersStay DEF Go
<1>4. ASSUME NEW plan \in Plans, TrySucceeds(k, plan) \/ AuthenticateSucceeds(k, plan)
      PROVE  WaitersHaveFlights'
  <2>1. plan \in Plan
    BY <1>0, ResolverAssumption DEF Plans, Plan, TypeOK
  <2>2. flights[k] \in Flight
    BY <1>0, <1>4, FlightAt DEF TrySucceeds, AuthenticateSucceeds
  <2>3. flights'[k] \in Flight /\ UNCHANGED callers
    BY <1>0, <1>4, <2>1, <2>2 DEF TrySucceeds, AuthenticateSucceeds, Resolved, TypeOK, Flight
  <2>. QED  BY <1>1, <2>3, WaitersStay
<1>5. ASSUME NEW kind \in Kinds, TryFails(k, kind) PROVE WaitersHaveFlights'
  <2>1. flights[k] \in Flight /\ flights[k].tried + 1 \in 0..Providers
    BY <1>0, <1>5, FlightAt, ResolverAssumption DEF TryFails, WaitInv, OrderInv, ChainIsOpen
  <2>2. ASSUME NEW pc \in {"authenticated", "chain"},
               flights' = [flights EXCEPT ![k].pc = pc, ![k].tried = flights[k].tried + 1,
                                          ![k].failures = flights[k].failures \cup {kind}],
               UNCHANGED callers
        PROVE  WaitersHaveFlights'
    <3>1. flights'[k] \in Flight
      BY <1>0, <2>1, <2>2 DEF TypeOK, Flight
    <3>. QED  BY <1>1, <2>2, <3>1, WaitersStay
  <2>. QED  BY <1>2, <1>5, <2>2 DEF TryFails
<1>6. CASE Recheck(k) \/ Gate(k)
  BY <1>2, <1>3, <1>6 DEF Recheck, Gate
<1>7. CASE TryCancelled(k) \/ Store(k) \/ \E kind \in Kinds : AuthenticateFails(k, kind)
  BY <1>2, <1>7 DEF TryCancelled, Store, AuthenticateFails
<1>. QED  BY <1>4, <1>5, <1>6, <1>7 DEF Fly, Extract

LEMMA WaitWaiters ==
  ASSUME WaitInv, NEW c \in Callers, Wait(c)
  PROVE  WaitersHaveFlights'
<1>0. TypeOK /\ CallersHaveKeys
  BY DEF WaitInv, OrderInv, Typed
<1>1. CASE Receive(c) \/ GiveUp(c)
  BY <1>0, <1>1 DEF Receive, GiveUp, Return, WaitInv, WaitersHaveFlights, TypeOK
<1>2. CASE Join(c)
  <2>. DEFINE k == callers[c].key
              new == [pc |-> "recheck", leader |-> c, tried |-> 0, failures |-> {}, plan |-> None]
  <2>1. k \in Keys /\ new \in Flight
    BY <1>0, <1>2, ResolverAssumption DEF CallersHaveKeys, Join, Flight
  <2>2. flights' = (IF flights[k] # NoFlight THEN flights ELSE [flights EXCEPT ![k] = new])
    BY <1>2 DEF Join
  <2>3. flights'[k] \in Flight /\ \A l \in Keys : flights[l] \in Flight => flights'[l] \in Flight
    <3>. HIDE DEF new
    <3>. QED  BY <1>0, <2>1, <2>2 DEF TypeOK
  <2>4. /\ \A d \in Callers \ {c} : callers'[d] = callers[d]
        /\ callers'[c].key = k
    BY <1>0, <1>2 DEF Join, TypeOK
  <2>. QED  BY <1>0, <2>3, <2>4 DEF WaitInv, WaitersHaveFlights, CallersHaveKeys
<1>. QED  BY <1>1, <1>2 DEF Wait

LEMMA WaitStep == WaitInv /\ [Next]_vars => WaitInv'
<1>. SUFFICES ASSUME WaitInv, [Next]_vars PROVE WaitersHaveFlights'
  BY OrderStep DEF WaitInv
<1>0. TypeOK
  BY DEF WaitInv, OrderInv, Typed
<1>1. ASSUME NEW c \in Callers, NEW k \in Keys, Call(c, k) PROVE WaitersHaveFlights'
  BY <1>0, <1>1 DEF Call, Return, WaitInv, WaitersHaveFlights, TypeOK
<1>2. ASSUME NEW c \in Callers, Wait(c) PROVE WaitersHaveFlights'
  BY <1>2, WaitWaiters
<1>3. ASSUME NEW k \in Keys, Fly(k) PROVE WaitersHaveFlights'
  BY <1>3, FlyWaiters
<1>4. CASE UNCHANGED <<callers, flights>>
  BY <1>4 DEF WaitInv, WaitersHaveFlights
<1>. QED  BY <1>1, <1>2, <1>3, <1>4 DEF Next, CancelContext, Tick, vars

\* No caller is left behind: whoever waits, waits for a flight that is under way,
\* also when its leader was cancelled or it was joined at the last moment
\* (singleflight, cascading.go).  With the fairness of flights this is why every
\* call is answered.
THEOREM WaitersAreServed == Spec => []WaitersHaveFlights
<1>1. Init => WaitInv
  BY InitOrder DEF Init, WaitInv, WaitersHaveFlights
<1>2. WaitInv => WaitersHaveFlights
  BY DEF WaitInv
<1>. QED  BY <1>1, <1>2, WaitStep, PTL DEF Spec

--------------------------------------------------------------------------------
Inputs == FilterInputs \cup SearchInputs \cup HomeInputs \cup PageInputs \cup ListInputs

\* A question stays what it is.
LEMMA QuestionStays == AskSpec => [](question \in Inputs)
<1>1. AskInit => question \in Inputs
  BY DEF AskInit, Inputs
<1>2. question \in Inputs /\ [AskNext]_question => (question \in Inputs)'
  BY DEF AskNext
<1>. QED  BY <1>1, <1>2, PTL DEF AskSpec

-------------------------------------------------------------------------------
(* The three filters of a video. *)

\* A form asks for videos by the list of one type.
LEMMA TypesOfOne ==
    ToSet(<<"video">>) = {"video"}
<1>1. DOMAIN <<"video">> = {1} /\ <<"video">>[1] = "video"
  OBVIOUS
<1>. HIDE DEF ToSet
<1>2. \A x : x \in ToSet(<<"video">>) <=> \E n \in DOMAIN <<"video">> : x = <<"video">>[n]
  BY Zenon DEF ToSet
<1>. QED  BY <1>1, <1>2

\* The fields a form has.
Fields == DOMAIN AnyForm

LEMMA FormFields ==
    Fields = {"malformed", "query", "phrase", "include", "exclude", "channel", "topic", "location", "api",
              "official", "types", "order", "after", "before", "duration", "minDuration", "maxDuration",
              "shorts", "regular", "event", "watch", "saved", "onlySubscribed", "hideRejected", "max", "offset"}
BY DEF Fields, AnyForm

\* The fields that NormalizeOptions gives a value, and the rest.
Normal == {"max", "types", "order", "duration", "official", "watch", "saved"}

\* What normalization does to each field of a form.
LEMMA Normalized ==
    ASSUME NEW o, DOMAIN o = Fields
    PROVE  LET n == NormalizeOptions(o) IN
           /\ DOMAIN n = Fields
           /\ \A field \in Fields \ Normal : n[field] = o[field]
           /\ n.types = IF o.types = <<>> THEN <<"video">> ELSE o.types
           /\ n.order = Or(o.order, "relevance") /\ n.duration = Or(o.duration, "any")
           /\ n.official = Or(o.official, "any") /\ n.watch = Or(o.watch, "any")
           /\ n.saved = Or(o.saved, "any")
           /\ n.max = IF o.max <= 0 THEN DefaultResults ELSE IF o.max > MaxResults THEN MaxResults ELSE o.max
<1>. DEFINE value(field) ==
        CASE field = "max" -> IF o.max <= 0 THEN DefaultResults ELSE IF o.max > MaxResults THEN MaxResults ELSE o.max
          [] field = "types" -> IF o.types = <<>> THEN <<"video">> ELSE o.types
          [] field = "order" -> Or(o.order, "relevance") [] field = "duration" -> Or(o.duration, "any")
          [] field = "official" -> Or(o.official, "any") [] field = "watch" -> Or(o.watch, "any")
          [] field = "saved" -> Or(o.saved, "any") [] OTHER -> o[field]
<1>1. NormalizeOptions(o) = [field \in Fields |-> value(field)]
  BY FormFields DEF NormalizeOptions
<1>. QED  BY <1>1, FormFields DEF Normal

\* The options that no filter of the form changes.
LEMMA NeutralOptions ==
    /\ AnyOptions.types = <<"video">> /\ AnyOptions.channel = 0 /\ AnyOptions.onlySubscribed = FALSE
    /\ AnyOptions.hideRejected = FALSE /\ AnyOptions.after = 0 /\ AnyOptions.before = 0
    /\ AnyOptions.duration = "any" /\ AnyOptions.minDuration = 0 /\ AnyOptions.maxDuration = 0
    /\ AnyOptions.shorts = FALSE /\ AnyOptions.regular = FALSE /\ AnyOptions.event = "" /\ AnyOptions.watch = "any"
    /\ AnyOptions.saved = "any"
    /\ DOMAIN AnyOptions = Fields
<1>. DEFINE form == [AnyForm EXCEPT !.query = "a"]
<1>1. DOMAIN form = Fields /\ \A field \in Fields \ {"query"} : form[field] = AnyForm[field]
  BY DEF Fields
<1>2. /\ form.types = <<>> /\ form.channel = 0 /\ form.onlySubscribed = FALSE
      /\ form.hideRejected = FALSE /\ form.after = 0 /\ form.before = 0
      /\ form.duration = "" /\ form.minDuration = 0 /\ form.maxDuration = 0
      /\ form.shorts = FALSE /\ form.regular = FALSE /\ form.event = "" /\ form.watch = "" /\ form.saved = ""
  BY DEF AnyForm
<1>. HIDE DEF form
<1>3. AnyOptions = NormalizeOptions(form)
  BY DEF AnyOptions, form
<1>4. /\ DOMAIN AnyOptions = Fields
      /\ \A field \in Fields \ Normal : AnyOptions[field] = form[field]
      /\ AnyOptions.types = IF form.types = <<>> THEN <<"video">> ELSE form.types
      /\ AnyOptions.duration = Or(form.duration, "any") /\ AnyOptions.watch = Or(form.watch, "any")
      /\ AnyOptions.saved = Or(form.saved, "any")
  BY <1>1, <1>3, Normalized
<1>5. {"channel", "onlySubscribed", "hideRejected", "after", "before", "minDuration", "maxDuration", "shorts",
       "regular", "event"} \subseteq Fields \ Normal
  BY FormFields DEF Normal
<1>6. AnyOptions.types = <<"video">> /\ AnyOptions.duration = "any" /\ AnyOptions.watch = "any" /\ AnyOptions.saved = "any"
  BY <1>2, <1>4 DEF Or
<1>. QED  BY <1>2, <1>4, <1>5, <1>6

\* What a filter of a video asks, where the options on channels, dates and the
\* device are neutral.
LEMMA VideoMatches ==
    ASSUME NEW v, v.type = "video", NEW state, NEW o,
           o.types = <<"video">>, o.channel = 0, o.onlySubscribed = FALSE, o.hideRejected = FALSE,
           o.after = 0, o.before = 0
    PROVE  MatchesLocal(v, o, state)
               <=> /\ DurationMatches(v, o)
                   /\ o.event # "" => LiveKindOf(v.live) = o.event
                   /\ WatchMatches(v, o.watch, state)
                   /\ SavedMatches(v, o.saved, state)
<1>1. AnyMatches(v, o, state)
  BY TypesOfOne DEF AnyMatches
<1>. QED  BY <1>1 DEF MatchesLocal

\* The two tests of the watch state.
LEMMA WatchedAlike ==
    ASSUME NEW db, NEW v, NEW state, AreRows(db.progress), state.progress = db.progress
    PROVE  /\ \A watched \in {"any", "watched", "unwatched"} :
                WatchedAs(db, v, watched) <=> WatchMatches(v, watched, state)
           /\ WatchMatches(v, "continue", state) => WatchedAs(db, v, "continue")
<1>. DEFINE p == db.progress[v.id]
<1>1. v.id \in DOMAIN db.progress => p.position \in Nat /\ p.duration \in Nat /\ p.completed \in BOOLEAN
  BY DEF AreRows
<1>. QED  BY <1>1 DEF WatchedAs, WatchMatches, Meaningful

\* The durations of the form and of a filter, and Shorts.
LEMMA DurationAlike ==
    ASSUME NEW v, v.duration \in Nat, NEW o, NEW filter, o.regular = FALSE,
           o.duration = filter.duration, o.shorts = filter.shorts, o.minDuration = filter.min,
           o.maxDuration = filter.max, filter.duration \in Durations,
           filter.duration = "custom" \/ (filter.min = 0 /\ filter.max = 0)
    PROVE  DurationMatches(v, o)
               <=> DurationFits(v.duration, filter) /\ (filter.shorts => v.duration > 0 /\ v.duration <= 180)
BY DEF DurationMatches, DurationFits, Durations

\* What a filter without a channel, an age, a category or a content asks.
LEMMA NeutralFilter ==
    ASSUME NEW db, NEW v, NEW filter, filter.channel = 0, filter.age = "any", filter.category = "",
           filter.content = "all"
    PROVE  Passes(db, v, filter)
               <=> /\ DurationFits(v.duration, filter)
                   /\ WatchedAs(db, v, filter.watched)
                   /\ filter.favorite => v.id \in db.favorites
                   /\ filter.shorts => v.duration > 0 /\ v.duration <= 180
BY DEF Passes, MaxAge

\* The states of a broadcast.
LEMMA LiveAlike ==
    ASSUME NEW v
    PROVE  /\ IsLive(v) <=> \E event \in Events \ {""} : LiveKindOf(v.live) = event
           /\ IsLive(v) <=> LiveKindCondition(v)
           /\ IsLive(v) <=> SubscriptionLive(v)
BY DEF IsLive, Events, LiveKindOf, LiveNow, LiveUpcoming, LiveCompleted, LiveKindCondition, SubscriptionLive

\* The first conjuncts of FiltersAgree, for one video and one watch state.
LEMMA WatchFilters ==
    ASSUME NEW v, v.type = "video", v.duration \in Nat, NEW db, AreRows(db.progress),
           NEW state, state.progress = db.progress, state.favorites = db.favorites,
           NEW watched \in {"any", "watched", "unwatched"}, NEW d \in {"any", "short", "medium", "long"},
           NEW b \in BOOLEAN, NEW f \in BOOLEAN
    PROVE  Passes(db, v, [AnyFilter EXCEPT !.watched = watched, !.duration = d, !.shorts = b, !.favorite = f])
               <=> MatchesLocal(v, [AnyOptions EXCEPT !.watch = watched, !.duration = d, !.shorts = b,
                                                      !.saved = IF f THEN "favorites" ELSE "any"], state)
<1>. DEFINE filter == [AnyFilter EXCEPT !.watched = watched, !.duration = d, !.shorts = b, !.favorite = f]
            saved == IF f THEN "favorites" ELSE "any"
            o == [AnyOptions EXCEPT !.watch = watched, !.duration = d, !.shorts = b, !.saved = saved]
<1>1. /\ filter.watched = watched /\ filter.duration = d /\ filter.shorts = b /\ filter.favorite = f
      /\ filter.channel = 0 /\ filter.min = 0 /\ filter.max = 0 /\ filter.age = "any" /\ filter.category = ""
      /\ filter.content = "all"
  BY DEF AnyFilter
<1>2. /\ o.watch = watched /\ o.duration = d /\ o.shorts = b /\ o.saved = saved
      /\ o.types = <<"video">> /\ o.channel = 0 /\ o.onlySubscribed = FALSE /\ o.hideRejected = FALSE
      /\ o.after = 0 /\ o.before = 0 /\ o.minDuration = 0 /\ o.maxDuration = 0 /\ o.regular = FALSE /\ o.event = ""
  BY NeutralOptions, FormFields
<1>. HIDE DEF filter, o
<1>3. Passes(db, v, filter)
          <=> /\ DurationFits(v.duration, filter) /\ WatchedAs(db, v, watched)
              /\ f => v.id \in db.favorites
              /\ b => v.duration > 0 /\ v.duration <= 180
  BY <1>1, NeutralFilter
<1>4. MatchesLocal(v, o, state)
          <=> DurationMatches(v, o) /\ WatchMatches(v, watched, state) /\ SavedMatches(v, saved, state)
  BY <1>2, VideoMatches
<1>5. DurationMatches(v, o) <=> DurationFits(v.duration, filter) /\ (b => v.duration > 0 /\ v.duration <= 180)
  BY <1>1, <1>2, DurationAlike DEF Durations
<1>6. WatchedAs(db, v, watched) <=> WatchMatches(v, watched, state)
  BY WatchedAlike
<1>7. SavedMatches(v, saved, state) <=> (f => v.id \in db.favorites)
  BY DEF SavedMatches
<1>8. Passes(db, v, filter) <=> MatchesLocal(v, o, state)
  BY <1>3, <1>4, <1>5, <1>6, <1>7
<1>. QED  BY <1>8 DEF filter, o

\* Options and a filter that are neutral but for one field.
LEMMA ContinueFilters ==
    ASSUME NEW v, v.type = "video", NEW db, AreRows(db.progress), NEW state, state.progress = db.progress,
           MatchesLocal(v, [AnyOptions EXCEPT !.watch = "continue"], state)
    PROVE  Passes(db, v, [AnyFilter EXCEPT !.watched = "continue"])
<1>. DEFINE filter == [AnyFilter EXCEPT !.watched = "continue"]
            o == [AnyOptions EXCEPT !.watch = "continue"]
<1>1. /\ filter.watched = "continue" /\ filter.duration = "any" /\ filter.shorts = FALSE /\ filter.favorite = FALSE
      /\ filter.channel = 0 /\ filter.age = "any" /\ filter.category = "" /\ filter.content = "all"
  BY DEF AnyFilter
<1>2. /\ o.watch = "continue" /\ o.types = <<"video">> /\ o.channel = 0 /\ o.onlySubscribed = FALSE
      /\ o.hideRejected = FALSE /\ o.after = 0 /\ o.before = 0
  BY NeutralOptions, FormFields
<1>3. MatchesLocal(v, o, state)
  OBVIOUS
<1>. HIDE DEF filter, o
<1>4. WatchMatches(v, "continue", state)
  BY <1>2, <1>3, VideoMatches
<1>5. WatchedAs(db, v, "continue")
  BY <1>4, WatchedAlike
<1>6. DurationFits(v.duration, filter)
  BY <1>1 DEF DurationFits
<1>7. Passes(db, v, filter)
  BY <1>1, <1>5, <1>6, NeutralFilter
<1>. QED  BY <1>7 DEF filter

CustomFilter(low, high) == [AnyFilter EXCEPT !.duration = "custom", !.min = low, !.max = high]
CustomForm(low, high) == [AnyOptions EXCEPT !.duration = "custom", !.minDuration = low, !.maxDuration = high]

\* A range of durations is the same in a filter and in a form, whatever its ends.
LEMMA CustomFilters ==
    ASSUME NEW v, v.type = "video", v.duration \in Nat, NEW db, NEW state, NEW low \in Nat, NEW high \in Nat
    PROVE  Passes(db, v, CustomFilter(low, high)) <=> MatchesLocal(v, CustomForm(low, high), state)
<1>. DEFINE filter == CustomFilter(low, high)
            o == CustomForm(low, high)
<1>1. /\ filter.watched = "any" /\ filter.duration = "custom" /\ filter.shorts = FALSE /\ filter.favorite = FALSE
      /\ filter.channel = 0 /\ filter.min = low /\ filter.max = high /\ filter.age = "any"
      /\ filter.category = "" /\ filter.content = "all"
  BY DEF AnyFilter, CustomFilter
<1>2. /\ o.watch = "any" /\ o.duration = "custom" /\ o.shorts = FALSE /\ o.saved = "any"
      /\ o.types = <<"video">> /\ o.channel = 0 /\ o.onlySubscribed = FALSE /\ o.hideRejected = FALSE
      /\ o.after = 0 /\ o.before = 0 /\ o.minDuration = low /\ o.maxDuration = high
      /\ o.regular = FALSE /\ o.event = ""
  BY NeutralOptions, FormFields DEF CustomForm
<1>. HIDE DEF filter, o
<1>3. Passes(db, v, filter) <=> DurationFits(v.duration, filter) /\ WatchedAs(db, v, "any")
  BY <1>1, NeutralFilter
<1>4. MatchesLocal(v, o, state)
          <=> DurationMatches(v, o) /\ WatchMatches(v, "any", state) /\ SavedMatches(v, "any", state)
  BY <1>2, VideoMatches
<1>5. DurationMatches(v, o) <=> DurationFits(v.duration, filter)
  BY <1>1, <1>2, DurationAlike DEF Durations
<1>6. WatchedAs(db, v, "any") /\ WatchMatches(v, "any", state) /\ SavedMatches(v, "any", state)
  BY DEF WatchedAs, WatchMatches, SavedMatches
<1>7. Passes(db, v, filter) <=> MatchesLocal(v, o, state)
  BY <1>3, <1>4, <1>5, <1>6
<1>. QED  BY <1>7 DEF filter, o

\* The Shorts of the search are those of the Home.
LEMMA ShortsFilter ==
    ASSUME NEW v, v.type = "video", v.duration \in Nat, NEW state
    PROVE  MatchesLocal(v, [AnyOptions EXCEPT !.shorts = TRUE], state) <=> IsShort(v)
<1>. DEFINE o == [AnyOptions EXCEPT !.shorts = TRUE]
<1>1. /\ o.watch = "any" /\ o.duration = "any" /\ o.shorts = TRUE /\ o.saved = "any"
      /\ o.types = <<"video">> /\ o.channel = 0 /\ o.onlySubscribed = FALSE /\ o.hideRejected = FALSE
      /\ o.after = 0 /\ o.before = 0 /\ o.minDuration = 0 /\ o.maxDuration = 0
      /\ o.regular = FALSE /\ o.event = ""
  BY NeutralOptions, FormFields
<1>. HIDE DEF o
<1>2. MatchesLocal(v, o, state)
          <=> DurationMatches(v, o) /\ WatchMatches(v, "any", state) /\ SavedMatches(v, "any", state)
  BY <1>1, VideoMatches
<1>. DEFINE filter == [duration |-> "any", min |-> 0, max |-> 0, shorts |-> TRUE]
<1>3. DurationMatches(v, o) <=> IsShort(v)
  <2>1. filter.duration = "any" /\ filter.min = 0 /\ filter.max = 0 /\ filter.shorts = TRUE
    OBVIOUS
  <2>. HIDE DEF filter
  <2>2. DurationMatches(v, o)
            <=> DurationFits(v.duration, filter) /\ (filter.shorts => v.duration > 0 /\ v.duration <= 180)
    BY <1>1, <2>1, DurationAlike DEF Durations
  <2>. QED  BY <2>1, <2>2 DEF DurationFits, IsShort
<1>4. MatchesLocal(v, o, state) <=> IsShort(v)
  BY <1>2, <1>3 DEF WatchMatches, SavedMatches
<1>. QED  BY <1>4 DEF o

\* The events of the search are the kinds of live of the feed.
LEMMA EventFilter ==
    ASSUME NEW v, v.type = "video", v.duration \in Nat, NEW state, NEW event \in Events \ {""}
    PROVE  MatchesLocal(v, [AnyOptions EXCEPT !.event = event], state) <=> LiveKindOf(v.live) = event
<1>. DEFINE o == [AnyOptions EXCEPT !.event = event]
<1>1. /\ o.watch = "any" /\ o.duration = "any" /\ o.shorts = FALSE /\ o.saved = "any"
      /\ o.types = <<"video">> /\ o.channel = 0 /\ o.onlySubscribed = FALSE /\ o.hideRejected = FALSE
      /\ o.after = 0 /\ o.before = 0 /\ o.minDuration = 0 /\ o.maxDuration = 0
      /\ o.regular = FALSE /\ o.event = event
  BY NeutralOptions, FormFields
<1>. HIDE DEF o
<1>2. DurationMatches(v, o) /\ WatchMatches(v, "any", state) /\ SavedMatches(v, "any", state)
  <2>. DEFINE filter == [AnyFilter EXCEPT !.category = ""]
  <2>1. filter.duration = "any" /\ filter.min = 0 /\ filter.max = 0 /\ filter.shorts = FALSE
    BY DEF AnyFilter
  <2>. HIDE DEF filter
  <2>2. DurationMatches(v, o)
            <=> DurationFits(v.duration, filter) /\ (filter.shorts => v.duration > 0 /\ v.duration <= 180)
    BY <1>1, <2>1, DurationAlike DEF Durations
  <2>3. DurationMatches(v, o)
    BY <2>1, <2>2 DEF DurationFits
  <2>. QED  BY <2>3 DEF WatchMatches, SavedMatches
<1>3. MatchesLocal(v, o, state) <=> LiveKindOf(v.live) = event
  BY <1>1, <1>2, VideoMatches
<1>. QED  BY <1>3 DEF o

\* The content of a feed and of a filter.
LEMMA ContentFilters ==
    ASSUME NEW v, v.duration \in Nat, NEW db
    PROVE  /\ FeedMatches(v, [content |-> "live", age |-> "any", category |-> ""]) <=> IsLive(v)
           /\ FeedMatches(v, [content |-> "regular", age |-> "any", category |-> ""]) <=> ~IsLive(v)
           /\ Passes(db, v, [AnyFilter EXCEPT !.content = "live"]) <=> IsLive(v)
           /\ Passes(db, v, [AnyFilter EXCEPT !.content = "regular"]) <=> ~IsLive(v)
<1>1. ASSUME NEW content \in {"live", "regular"}
      PROVE  /\ FeedMatches(v, [content |-> content, age |-> "any", category |-> ""])
                    <=> (IF content = "live" THEN IsLive(v) ELSE ~IsLive(v))
             /\ Passes(db, v, [AnyFilter EXCEPT !.content = content])
                    <=> (IF content = "live" THEN IsLive(v) ELSE ~IsLive(v))
  <2>. DEFINE filter == [AnyFilter EXCEPT !.content = content]
              feed == [content |-> content, age |-> "any", category |-> ""]
  <2>1. /\ filter.watched = "any" /\ filter.duration = "any" /\ filter.shorts = FALSE /\ filter.favorite = FALSE
        /\ filter.channel = 0 /\ filter.age = "any" /\ filter.category = "" /\ filter.content = content
    BY DEF AnyFilter
  <2>2. feed.content = content /\ feed.age = "any" /\ feed.category = ""
    OBVIOUS
  <2>3. "any" \notin DOMAIN MaxAge
    BY DEF MaxAge
  <2>. HIDE DEF filter, feed
  <2>4. FeedMatches(v, feed) <=> (IF content = "live" THEN IsLive(v) ELSE ~IsLive(v))
    BY <2>2, <2>3 DEF FeedMatches
  <2>5. DurationFits(v.duration, filter) /\ WatchedAs(db, v, "any")
    BY <2>1 DEF DurationFits, WatchedAs
  <2>6. Passes(db, v, filter) <=> (IF content = "live" THEN IsLive(v) ELSE ~IsLive(v))
    BY <2>1, <2>3, <2>5, LiveAlike DEF Passes
  <2>. QED  BY <2>4, <2>6 DEF filter, feed
<1>. QED  BY <1>1

\* The ages of a feed and of a filter, except at the last instant of one.
LEMMA AgeFilters ==
    ASSUME NEW v, v.duration \in Nat, v.published \in Nat, NEW db, NEW age \in DOMAIN MaxAge,
           v.published \notin {0, Now - MaxAge[age]}
    PROVE  FeedMatches(v, [content |-> "all", age |-> age, category |-> ""])
               <=> Passes(db, v, [AnyFilter EXCEPT !.age = age])
<1>. DEFINE filter == [AnyFilter EXCEPT !.age = age]
            feed == [content |-> "all", age |-> age, category |-> ""]
            days == MaxAge[age]
<1>1. /\ filter.watched = "any" /\ filter.duration = "any" /\ filter.shorts = FALSE /\ filter.favorite = FALSE
      /\ filter.channel = 0 /\ filter.age = age /\ filter.category = "" /\ filter.content = "all"
  BY DEF AnyFilter
<1>2. feed.content = "all" /\ feed.age = age /\ feed.category = ""
  OBVIOUS
<1>3. days \in Nat /\ days > 0
  BY DEF MaxAge
<1>. HIDE DEF filter, feed, days
<1>4. FeedMatches(v, feed) <=> (IF Now > v.published THEN Now - v.published ELSE 0) < days
  BY <1>2 DEF FeedMatches, days
<1>5. DurationFits(v.duration, filter) /\ WatchedAs(db, v, "any")
  BY <1>1 DEF DurationFits, WatchedAs
<1>6. Passes(db, v, filter) <=> v.published >= Now - days
  BY <1>1, <1>5 DEF Passes, days
<1>7. (IF Now > v.published THEN Now - v.published ELSE 0) < days <=> v.published >= Now - days
  BY <1>3, NowAssumption DEF days
<1>. QED  BY <1>4, <1>6, <1>7 DEF filter, feed

\* FiltersAgree: for every video, whatever is known of it, the filter of a
\* playlist or a rule, the local filters of the search and the filter of a feed
\* answer alike where they use the same words.
THEOREM FiltersAlwaysAgree == AskSpec => []FiltersAgree
<1>1. ASSUME question \in Inputs PROVE FiltersAgree
  <2>. SUFFICES ASSUME question.kind = "filter" PROVE FiltersAgree
    BY DEF FiltersAgree
  <2>1. question \in FilterInputs
    BY <1>1, KindAssumption DEF Inputs
  <2>. DEFINE v == question.video
              rows == [Rows(question.rows, <<v>>) EXCEPT !.favorites = question.favorites]
              state == LocalSearchState(rows, [videos |-> {}, channels |-> {}])
  <2>2. v.type = "video" /\ v.duration \in Nat /\ v.published \in Nat /\ AreRows(question.rows)
    BY <2>1, FilterAssumption DEF IsVideo
  <2>3. rows.progress = question.rows /\ rows.favorites = question.favorites
    BY DEF Rows
  <2>4. state.progress = rows.progress /\ state.favorites = rows.favorites
    BY DEF LocalSearchState
  <2>. HIDE DEF v, rows, state
  <2>5. \A watched \in {"any", "watched", "unwatched"}, d \in {"any", "short", "medium", "long"},
           b \in BOOLEAN, f \in BOOLEAN :
            Passes(rows, v, [AnyFilter EXCEPT !.watched = watched, !.duration = d, !.shorts = b, !.favorite = f])
               <=> MatchesLocal(v, [AnyOptions EXCEPT !.watch = watched, !.duration = d, !.shorts = b,
                                                    !.saved = IF f THEN "favorites" ELSE "any"], state)
    BY <2>2, <2>3, <2>4, WatchFilters
  <2>6. MatchesLocal(v, [AnyOptions EXCEPT !.watch = "continue"], state)
            => Passes(rows, v, [AnyFilter EXCEPT !.watched = "continue"])
    BY <2>2, <2>3, <2>4, ContinueFilters
  <2>7. \A low \in {0, 181, 240}, high \in {0, 240, 1200} :
            Passes(rows, v, [AnyFilter EXCEPT !.duration = "custom", !.min = low, !.max = high])
               <=> MatchesLocal(v, [AnyOptions EXCEPT !.duration = "custom", !.minDuration = low,
                                                    !.maxDuration = high], state)
    <3>. SUFFICES ASSUME NEW low \in {0, 181, 240}, NEW high \in {0, 240, 1200}
                  PROVE  Passes(rows, v, [AnyFilter EXCEPT !.duration = "custom", !.min = low, !.max = high])
                             <=> MatchesLocal(v, [AnyOptions EXCEPT !.duration = "custom", !.minDuration = low,
                                                                  !.maxDuration = high], state)
      OBVIOUS
    <3>1. low \in Nat /\ high \in Nat
      OBVIOUS
    <3>2. Passes(rows, v, CustomFilter(low, high)) <=> MatchesLocal(v, CustomForm(low, high), state)
      BY <2>2, <3>1, CustomFilters
    <3>. QED  BY <3>2 DEF CustomFilter, CustomForm
  <2>8. MatchesLocal(v, [AnyOptions EXCEPT !.shorts = TRUE], state) <=> IsShort(v)
    BY <2>2, ShortsFilter
  <2>9. (\E event \in Events \ {""} : MatchesLocal(v, [AnyOptions EXCEPT !.event = event], state)) <=> IsLive(v)
    BY <2>2, EventFilter, LiveAlike
  <2>10. \A age \in DOMAIN MaxAge : v.published \notin {0, Now - MaxAge[age]} =>
            (FeedMatches(v, [content |-> "all", age |-> age, category |-> ""])
                <=> Passes(rows, v, [AnyFilter EXCEPT !.age = age]))
    BY <2>2, AgeFilters
  <2>11. /\ FeedMatches(v, [content |-> "live", age |-> "any", category |-> ""]) <=> IsLive(v)
         /\ FeedMatches(v, [content |-> "regular", age |-> "any", category |-> ""]) <=> ~IsLive(v)
         /\ Passes(rows, v, [AnyFilter EXCEPT !.content = "live"]) <=> IsLive(v)
         /\ Passes(rows, v, [AnyFilter EXCEPT !.content = "regular"]) <=> ~IsLive(v)
         /\ SubscriptionLive(v) <=> IsLive(v)
    BY <2>2, ContentFilters, LiveAlike
  <2>. QED  BY <2>11, <2>10, <2>9, <2>8, <2>7, <2>6, <2>5 DEF FiltersAgree, v, rows, state
<1>. QED  BY <1>1, QuestionStays, PTL

-------------------------------------------------------------------------------
(* The order of a selection: each chosen row has a place of its own.            *)

Keyed(chosen, key) == IsFiniteSet(chosen) /\ chosen \subseteq Int /\ \A i \in chosen : key[i] \in Int

Rank(chosen, key, i) == Cardinality({j \in chosen : Precedes(key, j, i)})

\* How many places a beginning has.
LEMMA FirstPlaces ==
    ASSUME NEW n \in Nat
    PROVE  IsFiniteSet(1..n) /\ Cardinality(1..n) = n
BY FS_Interval

\* The order is total, where the key does not tell by the place.
LEMMA PrecedesOrders ==
    ASSUME NEW chosen, NEW key, Keyed(chosen, key), NEW i \in chosen, NEW j \in chosen, NEW k \in chosen
    PROVE  /\ ~Precedes(key, i, i)
           /\ Precedes(key, i, j) => ~Precedes(key, j, i)
           /\ Precedes(key, i, j) /\ Precedes(key, j, k) => Precedes(key, i, k)
           /\ i = j \/ Precedes(key, i, j) \/ Precedes(key, j, i)
<1>1. i \in Int /\ j \in Int /\ k \in Int /\ key[i] \in Int /\ key[j] \in Int /\ key[k] \in Int
  BY DEF Keyed
<1>. QED  BY <1>1 DEF Precedes

\* Each chosen place has a rank of its own.
LEMMA RankGrows ==
    ASSUME NEW chosen, NEW key, Keyed(chosen, key), NEW i \in chosen, NEW j \in chosen
    PROVE  /\ Rank(chosen, key, i) \in 0..(Cardinality(chosen) - 1)
           /\ Precedes(key, i, j) => Rank(chosen, key, i) < Rank(chosen, key, j)
           /\ Rank(chosen, key, i) = Rank(chosen, key, j) => i = j
<1>. DEFINE Below(k) == {m \in chosen : Precedes(key, m, k)}
<1>1. IsFiniteSet(chosen)
  BY DEF Keyed
<1>2. ASSUME NEW k \in chosen
      PROVE  IsFiniteSet(Below(k)) /\ Cardinality(Below(k)) \in Nat /\ Cardinality(Below(k)) < Cardinality(chosen)
  <2>1. Below(k) \in SUBSET chosen /\ Below(k) # chosen
    BY PrecedesOrders
  <2>. HIDE DEF Below
  <2>. QED  BY <1>1, <2>1, FS_Subset, FS_CardinalityType
<1>3. ASSUME NEW k \in chosen, NEW m \in chosen, Precedes(key, k, m)
      PROVE  Cardinality(Below(k)) < Cardinality(Below(m))
  <2>1. Below(k) \in SUBSET Below(m)
    BY <1>3, PrecedesOrders
  <2>2. k \in Below(m) /\ k \notin Below(k)
    BY <1>3, PrecedesOrders
  <2>3. IsFiniteSet(Below(m)) /\ Cardinality(Below(m)) \in Nat /\ Cardinality(Below(k)) \in Nat
    BY <1>2
  <2>. HIDE DEF Below
  <2>. QED  BY <2>1, <2>2, <2>3, FS_Subset
<1>4. Rank(chosen, key, i) = Cardinality(Below(i)) /\ Rank(chosen, key, j) = Cardinality(Below(j))
  BY DEF Rank
<1>5. Cardinality(chosen) \in Nat
  BY <1>1, FS_CardinalityType
<1>6. i = j \/ Precedes(key, i, j) \/ Precedes(key, j, i)
  BY PrecedesOrders
<1>7. Precedes(key, i, j) => Cardinality(Below(i)) < Cardinality(Below(j))
  BY <1>3
<1>8. Precedes(key, j, i) => Cardinality(Below(j)) < Cardinality(Below(i))
  BY <1>3
<1>9. Cardinality(Below(i)) \in Nat /\ Cardinality(Below(i)) < Cardinality(chosen) /\ Cardinality(Below(j)) \in Nat
  BY <1>2
<1>. HIDE DEF Below
<1>. QED  BY <1>4, <1>5, <1>6, <1>7, <1>8, <1>9

\* The n-th of the chosen places is the one that n - 1 precede: every chosen
\* place is the n-th for one n, and they come in the order of the key.
LEMMA PlacesInOrder ==
    ASSUME NEW chosen, NEW key, Keyed(chosen, key)
    PROVE  /\ Cardinality(chosen) \in Nat
           /\ \A n \in 1..Cardinality(chosen) :
                Place(chosen, key, n) \in chosen /\ Rank(chosen, key, Place(chosen, key, n)) = n - 1
           /\ \A i \in chosen :
                /\ Rank(chosen, key, i) + 1 \in 1..Cardinality(chosen)
                /\ Place(chosen, key, Rank(chosen, key, i) + 1) = i
           /\ \A m, n \in 1..Cardinality(chosen) :
                m < n => Precedes(key, Place(chosen, key, m), Place(chosen, key, n))
<1>. DEFINE size == Cardinality(chosen)
            rank == [i \in chosen |-> Rank(chosen, key, i)]
<1>1. IsFiniteSet(chosen) /\ size \in Nat
  BY FS_CardinalityType DEF Keyed
<1>2. rank \in Injection(chosen, 0..(size - 1))
  <2>1. \A i \in chosen : Rank(chosen, key, i) \in 0..(size - 1)
    BY RankGrows
  <2>2. \A i, j \in chosen : Rank(chosen, key, i) = Rank(chosen, key, j) => i = j
    BY RankGrows
  <2>. HIDE DEF size
  <2>. QED  BY <2>1, <2>2 DEF Injection, IsInjective
<1>3. IsFiniteSet(0..(size - 1)) /\ Cardinality(0..(size - 1)) = size
  BY <1>1, FS_Interval
<1>4. rank \in Surjection(chosen, 0..(size - 1))
  BY <1>2, <1>3, FS_Injection
<1>5. ASSUME NEW n \in 1..size
      PROVE  Place(chosen, key, n) \in chosen /\ Rank(chosen, key, Place(chosen, key, n)) = n - 1
  <2>1. n - 1 \in 0..(size - 1)
    BY <1>1
  <2>2. PICK i \in chosen : rank[i] = n - 1
    BY <1>4, <2>1 DEF Surjection
  <2>3. \E k \in chosen : Rank(chosen, key, k) = n - 1
    BY <2>2
  <2>4. Place(chosen, key, n) = CHOOSE k \in chosen : Rank(chosen, key, k) = n - 1
    BY DEF Place, Rank
  <2>. QED  BY <2>3, <2>4
<1>6. ASSUME NEW i \in chosen
      PROVE  Rank(chosen, key, i) + 1 \in 1..size /\ Place(chosen, key, Rank(chosen, key, i) + 1) = i
  <2>1. Rank(chosen, key, i) \in 0..(size - 1)
    BY RankGrows
  <2>2. Rank(chosen, key, i) + 1 \in 1..size
    BY <1>1, <2>1
  <2>3. /\ Place(chosen, key, Rank(chosen, key, i) + 1) \in chosen
        /\ Rank(chosen, key, Place(chosen, key, Rank(chosen, key, i) + 1)) = (Rank(chosen, key, i) + 1) - 1
    BY <1>5, <2>2
  <2>4. (Rank(chosen, key, i) + 1) - 1 = Rank(chosen, key, i)
    BY <2>1
  <2>. QED  BY <2>2, <2>3, <2>4, RankGrows
<1>7. ASSUME NEW m \in 1..size, NEW n \in 1..size, m < n
      PROVE  Precedes(key, Place(chosen, key, m), Place(chosen, key, n))
  <2>. DEFINE i == Place(chosen, key, m)
              j == Place(chosen, key, n)
  <2>1. i \in chosen /\ j \in chosen /\ Rank(chosen, key, i) = m - 1 /\ Rank(chosen, key, j) = n - 1
    BY <1>5
  <2>. HIDE DEF i, j
  <2>2. ~(n - 1 < m - 1) /\ n - 1 # m - 1
    BY <1>7
  <2>3. i = j \/ Precedes(key, i, j) \/ Precedes(key, j, i)
    BY <2>1, PrecedesOrders
  <2>4. Precedes(key, j, i) => Rank(chosen, key, j) < Rank(chosen, key, i)
    BY <2>1, RankGrows
  <2>5. Precedes(key, i, j)
    BY <2>4, <2>3, <2>2, <2>1
  <2>. QED  BY <2>5 DEF i, j
<1>. QED  BY <1>1, <1>5, <1>6, <1>7

-------------------------------------------------------------------------------
(* What a query selects. *)

Unordered(rows) == [n \in DOMAIN rows |-> 0]

Distinct(rows, chosen) == \A i, j \in chosen : rows[i] = rows[j] => i = j

IsSelection(s, rows, chosen, key) ==
    /\ Cardinality(chosen) \in Nat
    /\ DOMAIN s = 1..Cardinality(chosen) /\ Len(s) = Cardinality(chosen)
    /\ s \in Seq({rows[i] : i \in chosen})
    /\ ToSet(s) = {rows[i] : i \in chosen}
    /\ \A n \in DOMAIN s : Place(chosen, key, n) \in chosen /\ s[n] = rows[Place(chosen, key, n)]
    /\ Distinct(rows, chosen) => IsInjective(s)

\* A selection has every chosen row, once, in the order of the key.
LEMMA SelectedRows ==
    ASSUME NEW rows, NEW chosen, NEW key, Keyed(chosen, key), chosen \subseteq DOMAIN rows
    PROVE  IsSelection(Selected(rows, chosen, key), rows, chosen, key)
<1>. DEFINE s == Selected(rows, chosen, key)
            size == Cardinality(chosen)
            places == {rows[i] : i \in chosen}
<1>1. size \in Nat /\ \A n \in 1..size : Place(chosen, key, n) \in chosen
  BY PlacesInOrder
<1>2. s = [n \in 1..size |-> rows[Place(chosen, key, n)]]
  BY DEF Selected
<1>3. \A n \in 1..size : s[n] \in places /\ s[n] = rows[Place(chosen, key, n)]
  BY <1>1, <1>2
<1>4. s \in Seq(places) /\ Len(s) = size /\ DOMAIN s = 1..size
  <2>. HIDE DEF size, places
  <2>. QED  BY <1>1, <1>2, <1>3
<1>5. ToSet(s) = places
  <2>1. ASSUME NEW i \in chosen PROVE \E n \in 1..size : s[n] = rows[i]
    BY <1>3, PlacesInOrder
  <2>. HIDE DEF s, size
  <2>. QED  BY <1>3, <1>4, <2>1 DEF ToSet
<1>6. Distinct(rows, chosen) => IsInjective(s)
  <2>1. SUFFICES ASSUME Distinct(rows, chosen),
                        NEW m \in 1..size, NEW n \in 1..size, s[m] = s[n]
                 PROVE  m = n
    BY <1>4 DEF IsInjective
  <2>2. Place(chosen, key, m) = Place(chosen, key, n)
    BY <1>1, <1>3, <2>1 DEF Distinct
  <2>3. Rank(chosen, key, Place(chosen, key, m)) = m - 1 /\ Rank(chosen, key, Place(chosen, key, n)) = n - 1
    BY PlacesInOrder
  <2>4. m \in Int /\ n \in Int
    BY <1>1
  <2>. QED  BY <2>2, <2>3, <2>4
<1>. QED  BY <1>1, <1>3, <1>4, <1>5, <1>6 DEF IsSelection

Below(chosen, i) == {j \in chosen : j < i}

\* The rows of a sequence, kept in their order.
LEMMA KeepsOrder ==
    ASSUME NEW rows, NEW S, rows \in Seq(S), NEW chosen, chosen \subseteq DOMAIN rows
    PROVE  /\ Keyed(chosen, Unordered(rows))
           /\ \A i, j \in DOMAIN rows : Precedes(Unordered(rows), i, j) <=> i < j
           /\ \A i \in chosen : Rank(chosen, Unordered(rows), i) = Cardinality(Below(chosen, i))
<1>1. DOMAIN rows = 1..Len(rows) /\ Len(rows) \in Nat
  OBVIOUS
<1>2. IsFiniteSet(chosen)
  <2>1. chosen \in SUBSET (1..Len(rows)) /\ IsFiniteSet(1..Len(rows))
    BY <1>1, FS_Interval
  <2>. QED  BY <2>1, FS_Subset
<1>3. \A i, j \in DOMAIN rows : Precedes(Unordered(rows), i, j) <=> i < j
  BY DEF Precedes, Unordered
<1>4. \A i \in chosen : {j \in chosen : Precedes(Unordered(rows), j, i)} = Below(chosen, i)
  BY <1>3 DEF Below
<1>5. \A i \in chosen : Rank(chosen, Unordered(rows), i) = Cardinality(Below(chosen, i))
  BY <1>4 DEF Rank
<1>6. Keyed(chosen, Unordered(rows))
  <2>1. chosen \subseteq Int /\ \A i \in chosen : Unordered(rows)[i] = 0
    BY <1>1 DEF Unordered
  <2>. QED  BY <1>2, <2>1 DEF Keyed
<1>. QED  BY <1>3, <1>5, <1>6

\* All rows, in their order, are the rows.
LEMMA SelectsAll ==
    ASSUME NEW rows, NEW S, rows \in Seq(S)
    PROVE  Selected(rows, DOMAIN rows, Unordered(rows)) = rows
<1>. DEFINE K == DOMAIN rows
            key == Unordered(rows)
<1>1. K = 1..Len(rows) /\ Len(rows) \in Nat
  OBVIOUS
<1>2. Cardinality(K) = Len(rows)
  BY <1>1, FS_Interval
<1>3. ASSUME NEW n \in K PROVE Place(K, key, n) = n
  <2>1. Below(K, n) = 1..(n - 1)
    BY <1>1 DEF Below
  <2>2. Rank(K, key, n) = n - 1
    <3>1. Rank(K, key, n) = Cardinality(Below(K, n))
      BY KeepsOrder
    <3>2. Rank(K, key, n) = Cardinality(1..(n - 1))
      BY <2>1, <3>1
    <3>. QED  BY <1>1, <3>2, FS_Interval
  <2>3. Keyed(K, key)
    BY KeepsOrder
  <2>4. Place(K, key, Rank(K, key, n) + 1) = n
    BY <2>3, PlacesInOrder
  <2>5. (n - 1) + 1 = n
    BY <1>1
  <2>. QED  BY <2>2, <2>4, <2>5
<1>4. Selected(rows, K, key) = [n \in 1..Len(rows) |-> rows[Place(K, key, n)]]
  BY <1>2 DEF Selected
<1>. QED  BY <1>1, <1>3, <1>4

\* What is chosen first and ordered then.
LEMMA SelectedTwice ==
    ASSUME NEW rows, NEW S, rows \in Seq(S), NEW chosen, chosen \subseteq DOMAIN rows, NEW key,
           \A n \in 1..Cardinality(chosen) : key[n] \in Int
    PROVE  LET f == Selected(rows, chosen, Unordered(rows))
               s == Selected(f, DOMAIN f, key) IN
           /\ Cardinality(chosen) \in Nat
           /\ DOMAIN f = 1..Cardinality(chosen) /\ f \in Seq(S) /\ Len(f) = Cardinality(chosen)
           /\ \A n \in DOMAIN f : /\ Place(chosen, Unordered(rows), n) \in chosen
                                  /\ f[n] = rows[Place(chosen, Unordered(rows), n)]
                                  /\ Cardinality(Below(chosen, Place(chosen, Unordered(rows), n))) = n - 1
           /\ Keyed(DOMAIN f, key)
           /\ DOMAIN s = DOMAIN f /\ s \in Seq(S)
           /\ ToSet(s) = {rows[i] : i \in chosen}
           /\ Distinct(rows, chosen) => IsInjective(s)
           /\ \A m, n \in DOMAIN s : m < n =>
                \E i, j \in DOMAIN f :
                    /\ s[m] = f[i] /\ s[n] = f[j] /\ Precedes(key, i, j)
                    /\ i < j => Place(chosen, Unordered(rows), i) < Place(chosen, Unordered(rows), j)
<1>. DEFINE u == Unordered(rows)
            f == Selected(rows, chosen, u)
            s == Selected(f, DOMAIN f, key)
            size == Cardinality(chosen)
<1>1. Keyed(chosen, u)
  BY KeepsOrder
<1>2. /\ size \in Nat /\ DOMAIN f = 1..size /\ f \in Seq({rows[i] : i \in chosen})
      /\ Len(f) = size /\ ToSet(f) = {rows[i] : i \in chosen}
      /\ \A n \in DOMAIN f : Place(chosen, u, n) \in chosen /\ f[n] = rows[Place(chosen, u, n)]
      /\ Distinct(rows, chosen) => IsInjective(f)
  <2>1. IsSelection(f, rows, chosen, u)
    BY <1>1, SelectedRows
  <2>. HIDE DEF f, u
  <2>. QED  BY <2>1 DEF IsSelection
<1>3. \A i \in chosen : rows[i] \in S
  OBVIOUS
<1>4. f \in Seq(S)
  <2>. HIDE DEF f, size
  <2>. QED  BY <1>2, <1>3
<1>5. \A n \in 1..size : Rank(chosen, u, Place(chosen, u, n)) = n - 1
  BY <1>1, PlacesInOrder
<1>6. \A n \in DOMAIN f : Cardinality(Below(chosen, Place(chosen, u, n))) = n - 1
  <2>1. \A i \in chosen : Rank(chosen, u, i) = Cardinality(Below(chosen, i))
    BY KeepsOrder
  <2>. HIDE DEF u, f, size
  <2>. QED  BY <1>2, <1>5, <2>1, Zenon
<1>7. Keyed(DOMAIN f, key) /\ Cardinality(DOMAIN f) = size
  <2>. HIDE DEF f, size
  <2>1. IsFiniteSet(1..size) /\ Cardinality(1..size) = size
    BY <1>2, FS_Interval
  <2>. QED  BY <1>2, <2>1 DEF Keyed, size
<1>8. /\ DOMAIN s = 1..size /\ s \in Seq({f[i] : i \in DOMAIN f})
      /\ ToSet(s) = {f[i] : i \in DOMAIN f}
      /\ \A n \in DOMAIN s : Place(DOMAIN f, key, n) \in DOMAIN f /\ s[n] = f[Place(DOMAIN f, key, n)]
      /\ Distinct(f, DOMAIN f) => IsInjective(s)
  <2>1. IsSelection(s, f, DOMAIN f, key)
    BY <1>7, SelectedRows
  <2>. HIDE DEF f, s
  <2>. QED  BY <1>7, <2>1 DEF IsSelection
<1>9. DOMAIN s = DOMAIN f /\ s \in Seq(S) /\ ToSet(s) = {rows[i] : i \in chosen}
  <2>1. \A i \in DOMAIN f : f[i] \in S
    BY <1>4
  <2>2. {f[i] : i \in DOMAIN f} \subseteq S
    BY <2>1
  <2>3. {f[i] : i \in DOMAIN f} = ToSet(f)
    BY DEF ToSet
  <2>. HIDE DEF s, f, size
  <2>4. s \in Seq(S)
    BY <1>8, <2>2
  <2>. QED  BY <1>2, <1>8, <2>3, <2>4
<1>10. Distinct(rows, chosen) => IsInjective(s)
  <2>. HIDE DEF s, f
  <2>. QED  BY <1>2, <1>8 DEF IsInjective, Distinct
<1>11. ASSUME NEW m \in DOMAIN s, NEW n \in DOMAIN s, m < n
       PROVE  \E i, j \in DOMAIN f :
                    /\ s[m] = f[i] /\ s[n] = f[j] /\ Precedes(key, i, j)
                    /\ i < j => Place(chosen, u, i) < Place(chosen, u, j)
  <2>. DEFINE i == Place(DOMAIN f, key, m)
              j == Place(DOMAIN f, key, n)
  <2>1. i \in DOMAIN f /\ j \in DOMAIN f /\ s[m] = f[i] /\ s[n] = f[j]
    BY <1>8
  <2>2. Precedes(key, i, j)
    BY <1>7, <1>8, <1>11, PlacesInOrder
  <2>3. ASSUME i < j PROVE Place(chosen, u, i) < Place(chosen, u, j)
    <3>1. i \in 1..size /\ j \in 1..size
      BY <1>2, <2>1
    <3>2. Precedes(u, Place(chosen, u, i), Place(chosen, u, j))
      BY <1>1, <2>3, <3>1, PlacesInOrder
    <3>3. Place(chosen, u, i) \in DOMAIN rows /\ Place(chosen, u, j) \in DOMAIN rows
      BY <1>2, <2>1
    <3>. QED  BY <3>2, <3>3, KeepsOrder
  <2>. HIDE DEF i, j
  <2>. QED  BY <2>1, <2>2, <2>3
<1>. HIDE DEF f, s, size
<1>12. /\ size \in Nat
       /\ DOMAIN f = 1..size /\ f \in Seq(S) /\ Len(f) = size
       /\ \A n \in DOMAIN f : /\ Place(chosen, u, n) \in chosen /\ f[n] = rows[Place(chosen, u, n)]
                              /\ Cardinality(Below(chosen, Place(chosen, u, n))) = n - 1
  BY <1>2, <1>4, <1>6
<1>13. \A m, n \in DOMAIN s : m < n =>
            \E i, j \in DOMAIN f :
                    /\ s[m] = f[i] /\ s[n] = f[j] /\ Precedes(key, i, j)
                    /\ i < j => Place(chosen, u, i) < Place(chosen, u, j)
  BY <1>11
<1>. QED  BY <1>7, <1>9, <1>10, <1>12, <1>13 DEF f, s, size

\* What a window shows.
WindowSize(length, limit, offset) ==
    IF offset >= length THEN 0 ELSE IF offset + limit > length THEN length - offset ELSE limit

\* LIMIT and OFFSET: which rows a window has.
LEMMA Windows ==
    ASSUME NEW rows, NEW S, rows \in Seq(S), NEW limit \in Nat, NEW offset \in Nat
    PROVE  /\ Window(rows, limit, offset) \in Seq(S)
           /\ Len(Window(rows, limit, offset)) = WindowSize(Len(rows), limit, offset)
           /\ \A n \in 1..WindowSize(Len(rows), limit, offset) :
                offset + n \in DOMAIN rows /\ Window(rows, limit, offset)[n] = rows[offset + n]
           /\ IsInjective(rows) => IsInjective(Window(rows, limit, offset))
           /\ ToSet(Window(rows, limit, offset)) \subseteq ToSet(rows)
<1>. DEFINE w == Window(rows, limit, offset)
            last == IF offset + limit > Len(rows) THEN Len(rows) ELSE offset + limit
            size == WindowSize(Len(rows), limit, offset)
<1>1. Len(rows) \in Nat /\ DOMAIN rows = 1..Len(rows) /\ last \in Nat /\ size \in Nat
  BY DEF WindowSize
<1>2. w = SubSeq(rows, offset + 1, last)
  BY DEF Window
<1>3. size <= Len(rows) - offset \/ size = 0
  BY <1>1 DEF WindowSize
<1>4. w \in Seq(S) /\ Len(w) = size /\ \A n \in 1..size : w[n] = rows[offset + n]
  <2>1. CASE offset >= Len(rows)
    <3>1. last < offset + 1 /\ size = 0
      BY <1>1, <2>1 DEF WindowSize
    <3>2. w = <<>>
      BY <1>1, <1>2, <3>1
    <3>. QED  BY <3>1, <3>2
  <2>2. CASE offset < Len(rows)
    <3>1. offset + 1 \in 1..Len(rows) + 1 /\ last \in offset..Len(rows) /\ last - offset = size
      BY <1>1, <2>2 DEF WindowSize
    <3>. HIDE DEF last, size, w
    <3>2. w = [n \in 1..size |-> rows[offset + n]]
      BY <1>1, <1>2, <3>1
    <3>. QED  BY <1>1, <3>1, <3>2
  <2>. QED  BY <1>1, <2>1, <2>2
<1>5. \A n \in 1..size : offset + n \in DOMAIN rows
  BY <1>1, <1>3
<1>. HIDE DEF w, size
<1>6. DOMAIN w = 1..size
  BY <1>4
<1>7. IsInjective(rows) => IsInjective(w)
  <2>. SUFFICES ASSUME IsInjective(rows), NEW a \in 1..size, NEW b \in 1..size, w[a] = w[b]
                PROVE  a = b
    BY <1>6 DEF IsInjective
  <2>1. rows[offset + a] = rows[offset + b] /\ offset + a \in DOMAIN rows /\ offset + b \in DOMAIN rows
    BY <1>4, <1>5
  <2>2. offset + a = offset + b
    BY <2>1 DEF IsInjective
  <2>. QED  BY <1>1, <2>2
<1>8. ToSet(w) \subseteq ToSet(rows)
  BY <1>4, <1>5, <1>6 DEF ToSet
<1>. QED  BY <1>4, <1>5, <1>7, <1>8 DEF w, size

-------------------------------------------------------------------------------
(* The search. *)

\* What each option asks of an item.
DurationIn(v, duration) ==
    CASE duration = "short" -> v.duration > 0 /\ v.duration < 240
      [] duration = "medium" -> v.duration >= 240 /\ v.duration <= 1200
      [] duration = "long" -> v.duration > 1200
      [] OTHER -> TRUE

Fits(v, field, value, state) ==
    LET video == v.type = "video" IN
    /\ field = "channel" => value \in {0, v.channel}
    /\ field = "onlySubscribed" /\ value = TRUE => v.channel \in state.subscribed
    /\ field = "hideRejected" /\ value = TRUE =>
            v.id \notin state.rejected.videos /\ v.channel \notin state.rejected.channels
    /\ field = "after" /\ value # 0 => v.published >= value
    /\ field = "before" /\ value # 0 /\ v.published # 0 => v.published <= value
    /\ field = "minDuration" /\ video /\ value > 0 => v.duration >= value
    /\ field = "maxDuration" /\ video /\ value > 0 => v.duration <= value
    /\ field = "duration" /\ video => DurationIn(v, value)
    /\ field = "shorts" /\ value = TRUE => video /\ v.duration > 0 /\ v.duration <= 180
    /\ field = "regular" /\ value = TRUE /\ video => v.duration > 180
    /\ field = "event" /\ video /\ value # "" => LiveKindOf(v.live) = value
    /\ field = "watch" => IF video THEN WatchMatches(v, value, state) ELSE value = "any"
    /\ field = "saved" => IF video THEN SavedMatches(v, value, state) ELSE value = "any"

\* What the form sends: switches that are on or off.
Switches(o) ==
    o.shorts \in BOOLEAN /\ o.regular \in BOOLEAN /\ o.onlySubscribed \in BOOLEAN /\ o.hideRejected \in BOOLEAN

\* The local filter is the conjunction of its options.
LEMMA MatchesEachOption ==
    ASSUME NEW v, NEW o, NEW state, Switches(o)
    PROVE  MatchesLocal(v, o, state)
               <=> v.type \in ToSet(o.types) /\ \A field \in LocalFields : Fits(v, field, o[field], state)
<1>1. DurationMatches(v, o)
          <=> /\ o.minDuration > 0 => v.duration >= o.minDuration
              /\ o.maxDuration > 0 => v.duration <= o.maxDuration
              /\ o.shorts = TRUE => v.duration > 0 /\ v.duration <= 180
              /\ o.regular = TRUE => v.duration > 180
              /\ DurationIn(v, o.duration)
  BY DEF DurationMatches, DurationIn, Switches
<1>2. AnyMatches(v, o, state)
          <=> /\ v.type \in ToSet(o.types)
              /\ Fits(v, "channel", o.channel, state) /\ Fits(v, "onlySubscribed", o.onlySubscribed, state)
              /\ Fits(v, "hideRejected", o.hideRejected, state) /\ Fits(v, "after", o.after, state)
              /\ Fits(v, "before", o.before, state)
  BY DEF AnyMatches, Fits, Switches
<1>3. CASE v.type = "video"
  <2>1. DurationMatches(v, o)
            <=> /\ Fits(v, "minDuration", o.minDuration, state) /\ Fits(v, "maxDuration", o.maxDuration, state)
                /\ Fits(v, "shorts", o.shorts, state) /\ Fits(v, "regular", o.regular, state)
                /\ Fits(v, "duration", o.duration, state)
    BY <1>1, <1>3 DEF Fits
  <2>2. (o.event # "" => LiveKindOf(v.live) = o.event) <=> Fits(v, "event", o.event, state)
    BY <1>3 DEF Fits
  <2>3. /\ WatchMatches(v, o.watch, state) <=> Fits(v, "watch", o.watch, state)
        /\ SavedMatches(v, o.saved, state) <=> Fits(v, "saved", o.saved, state)
    BY <1>3 DEF Fits
  <2>. QED  BY <1>2, <1>3, <2>1, <2>2, <2>3 DEF MatchesLocal, LocalFields
<1>4. CASE v.type # "video"
  <2>1. /\ Fits(v, "minDuration", o.minDuration, state) /\ Fits(v, "maxDuration", o.maxDuration, state)
        /\ Fits(v, "regular", o.regular, state) /\ Fits(v, "duration", o.duration, state)
        /\ Fits(v, "event", o.event, state)
    BY <1>4 DEF Fits
  <2>2. /\ Fits(v, "shorts", o.shorts, state) <=> ~o.shorts
        /\ Fits(v, "watch", o.watch, state) <=> o.watch = "any"
        /\ Fits(v, "saved", o.saved, state) <=> o.saved = "any"
    BY <1>4 DEF Fits, Switches
  <2>. QED  BY <1>2, <1>4, <2>1, <2>2 DEF MatchesLocal, LocalFields
<1>. QED  BY <1>3, <1>4

\* An option at its neutral value excludes nothing.
LEMMA NeutralFits ==
    ASSUME NEW v, NEW state, NEW field \in LocalFields
    PROVE  Fits(v, field, AnyOptions[field], state)
<1>1. SavedMatches(v, "any", state) /\ WatchMatches(v, "any", state) /\ DurationIn(v, "any")
  BY DEF SavedMatches, WatchMatches, DurationIn
<1>2. ~(AnyOptions.minDuration > 0) /\ ~(AnyOptions.maxDuration > 0)
  <2>1. AnyOptions.minDuration = 0 /\ AnyOptions.maxDuration = 0
    BY NeutralOptions
  <2>2. ~(0 > 0)
    OBVIOUS
  <2>. QED  BY <2>1, <2>2
<1>. QED  BY <1>1, <1>2, NeutralOptions DEF Fits, LocalFields

\* Where no option but one is chosen, that one alone is asked: a video or
\* another item matches all of a form exactly if it matches each by itself.
LEMMA OptionsAreAlone ==
    ASSUME NEW o, DOMAIN o = Fields, NEW field \in LocalFields, NEW types
    PROVE  LET a == [Alone(o, field) EXCEPT !.types = types] IN
           /\ a.types = types
           /\ \A other \in LocalFields : a[other] = IF other = field THEN o[field] ELSE AnyOptions[other]
<1>. DEFINE b == Alone(o, field)
            a == [b EXCEPT !.types = types]
<1>1. LocalFields \subseteq Fields /\ "types" \in Fields /\ "types" \notin LocalFields
  BY FormFields DEF LocalFields
<1>2. DOMAIN b = Fields /\ \A other \in Fields : b[other] = IF other = field THEN o[field] ELSE AnyOptions[other]
  BY NeutralOptions DEF Alone
<1>. HIDE DEF b
<1>3. a.types = types /\ \A other \in Fields \ {"types"} : a[other] = b[other]
  BY <1>1, <1>2
<1>. HIDE DEF a
<1>4. /\ a.types = types
      /\ \A other \in LocalFields : a[other] = IF other = field THEN o[field] ELSE AnyOptions[other]
  BY <1>1, <1>2, <1>3
<1>. QED  BY <1>4 DEF a, b

\* A form asks of an item what its options ask each by itself.
LEMMA FormIsItsOptions ==
    ASSUME NEW v, NEW o, NEW state, DOMAIN o = Fields, Switches(o)
    PROVE  MatchesLocal(v, o, state)
               <=> /\ v.type \in ToSet(o.types)
                   /\ \A field \in LocalFields :
                        MatchesLocal(v, [Alone(o, field) EXCEPT !.types = o.types], state)
<1>1. ASSUME NEW field \in LocalFields
      PROVE  MatchesLocal(v, [Alone(o, field) EXCEPT !.types = o.types], state)
                 <=> v.type \in ToSet(o.types) /\ Fits(v, field, o[field], state)
  <2>. DEFINE a == [Alone(o, field) EXCEPT !.types = o.types]
  <2>1. /\ a.types = o.types
        /\ \A other \in LocalFields : a[other] = IF other = field THEN o[field] ELSE AnyOptions[other]
    BY <1>1, OptionsAreAlone
  <2>. HIDE DEF a
  <2>2. Switches(a)
    <3>1. /\ AnyOptions.shorts = FALSE /\ AnyOptions.regular = FALSE /\ AnyOptions.onlySubscribed = FALSE
          /\ AnyOptions.hideRejected = FALSE
      BY NeutralOptions
    <3>. QED  BY <2>1, <3>1 DEF Switches, LocalFields
  <2>3. MatchesLocal(v, a, state)
            <=> v.type \in ToSet(o.types) /\ \A other \in LocalFields : Fits(v, other, a[other], state)
    BY <2>1, <2>2, MatchesEachOption
  <2>4. (\A other \in LocalFields : Fits(v, other, a[other], state)) <=> Fits(v, field, o[field], state)
    BY <1>1, <2>1, NeutralFits
  <2>. QED  BY <2>3, <2>4 DEF a
<1>. QED  BY <1>1, MatchesEachOption

\* What the results are ordered by.
ResultKey(items, o, state) ==
    [n \in DOMAIN items |->
        CASE o.order = "date" -> Newest(items[n])
          [] o.order = "viewCount" -> 0 - items[n].views
          [] o.order = "title" -> items[n].title
          [] o.order = "relevance" -> 0 - NanoRankScore(items[n], n - 1, o, state)
          [] OTHER -> 0]

\* Scores can be compared.
LEMMA ScoreIsInteger ==
    ASSUME NEW v, IsVideo(v), NEW index \in Nat, NEW o, NEW state
    PROVE  NanoRankScore(v, index, o, state) \in Int
<1>. DEFINE bonus(holds, points) == IF holds THEN points ELSE 0
            terms(texts, points) == bonus(o.query \in texts, points)
                                    + bonus(o.include # "" /\ o.include \in texts, points)
            days == Now - v.published
            a == 20000 \div (5 + index)
            b == bonus(o.query # "" /\ o.query \in v.words, 4000)
            c == IF o.query = "" THEN 0
                 ELSE terms(v.words, 1500) + terms(v.channelWords, 750) + terms(v.excerpt, 200)
            d == bonus(o.phrase # "" /\ o.phrase \in v.words, 6000)
            e == bonus(v.channel \in state.subscribed, 1000)
            f == bonus(v.id \in state.favorites, 750)
            g == bonus(v.id \in state.queued, 250)
            h == IF v.views > 8 THEN 800 ELSE 100 * v.views
            i == bonus(v.published # 0 /\ days \in 0..364, 750 - (750 * days) \div 365)
<1>1. a \in Int
  OBVIOUS
<1>2. b \in Int /\ d \in Int /\ e \in Int /\ f \in Int /\ g \in Int
  OBVIOUS
<1>3. c \in Int
  OBVIOUS
<1>4. h \in Int
  BY DEF IsVideo
<1>5. i \in Int
  <2>1. days \in Int
    BY NowAssumption DEF IsVideo
  <2>. HIDE DEF days
  <2>. QED  BY <2>1
<1>6. NanoRankScore(v, index, o, state) = a + b + c + d + e + f + g + h + i
  BY DEF NanoRankScore
<1>. HIDE DEF a, b, c, d, e, f, g, h, i
<1>. QED  BY <1>1, <1>2, <1>3, <1>4, <1>5, <1>6

\* So can what the results are sorted by.
LEMMA KeyIsInteger ==
    ASSUME NEW items, NEW S, items \in Seq(S), \A n \in DOMAIN items : IsVideo(items[n]), NEW o, NEW state
    PROVE  \A n \in DOMAIN items : ResultKey(items, o, state)[n] \in Int
<1>. SUFFICES ASSUME NEW n \in DOMAIN items PROVE ResultKey(items, o, state)[n] \in Int
  OBVIOUS
<1>1. NanoRankScore(items[n], n - 1, o, state) \in Int
  <2>1. n - 1 \in Nat
    OBVIOUS
  <2>. QED  BY <2>1, ScoreIsInteger
<1>2. Newest(items[n]) \in Int /\ 0 - items[n].views \in Int /\ items[n].title \in Int
  BY DEF IsVideo, Newest
<1>3. 0 - NanoRankScore(items[n], n - 1, o, state) \in Int
  BY <1>1
<1>. QED  BY <1>2, <1>3 DEF ResultKey

\* The results are the items that pass, in one order.
LEMMA RankedOnce ==
    ASSUME NEW items, NEW S, items \in Seq(S), \A n \in DOMAIN items : IsVideo(items[n]), NEW o, NEW state
    PROVE  RankWithNanoRank(SortResults(items, o.order), o, state)
               = Selected(items, DOMAIN items, ResultKey(items, o, state))
<1>. DEFINE key == [n \in DOMAIN items |-> CASE o.order = "date" -> Newest(items[n])
                                              [] o.order = "viewCount" -> 0 - items[n].views
                                              [] o.order = "title" -> items[n].title
                                              [] OTHER -> 0]
<1>1. SortResults(items, o.order) = Selected(items, DOMAIN items, key)
  BY DEF SortResults, SortedBy
<1>2. CASE o.order # "relevance"
  <2>1. key = ResultKey(items, o, state)
    BY <1>2 DEF ResultKey
  <2>. QED  BY <1>1, <1>2, <2>1 DEF RankWithNanoRank
<1>3. CASE o.order = "relevance"
  <2>1. key = Unordered(items)
    BY <1>3 DEF Unordered
  <2>2. SortResults(items, o.order) = items
    BY <1>1, <2>1, SelectsAll
  <2>. DEFINE self == [n \in DOMAIN items |-> n]
              score(n) == NanoRankScore(items[n], n - 1, o, state)
              order == SortedBy(self, LAMBDA n : 0 - score(n))
              ranks == [n \in DOMAIN self |-> 0 - score(self[n])]
  <2>3. RankWithNanoRank(items, o, state) = [n \in DOMAIN items |-> items[order[n]]]
    BY <1>3 DEF RankWithNanoRank
  <2>4. order = Selected(self, DOMAIN self, ranks)
    BY DEF SortedBy
  <2>5. ranks = ResultKey(items, o, state)
    BY <1>3 DEF ResultKey
  <2>. HIDE DEF ranks, order
  <2>6. Len(items) \in Nat /\ DOMAIN items = 1..Len(items)
    OBVIOUS
  <2>7. IsFiniteSet(DOMAIN items) /\ Cardinality(DOMAIN items) = Len(items)
    BY <2>6, FS_Interval
  <2>8. Keyed(DOMAIN items, ResultKey(items, o, state))
    BY <2>6, <2>7, KeyIsInteger DEF Keyed
  <2>9. \A n \in DOMAIN items : Place(DOMAIN items, ResultKey(items, o, state), n) \in DOMAIN items
    BY <2>6, <2>7, <2>8, PlacesInOrder
  <2>10. DOMAIN self = DOMAIN items /\ \A n \in DOMAIN items : self[n] = n
    OBVIOUS
  <2>. HIDE DEF self
  <2>11. \A n \in DOMAIN items : order[n] = Place(DOMAIN items, ResultKey(items, o, state), n)
    BY <2>10, <2>9, <2>7, <2>6, <2>5, <2>4 DEF Selected
  <2>12. Selected(items, DOMAIN items, ResultKey(items, o, state))
            = [n \in DOMAIN items |-> items[Place(DOMAIN items, ResultKey(items, o, state), n)]]
    BY <2>6, <2>7 DEF Selected
  <2>. QED  BY <2>12, <2>11, <2>3, <2>2
<1>. QED  BY <1>2, <1>3

Kept(raw, o, state) == {n \in DOMAIN raw : MatchesLocal(raw[n], o, state)}

\* What the service makes of the items of a provider.
LEMMA ResultsInOrder ==
    ASSUME NEW raw, NEW S, raw \in Seq(S), \A n \in DOMAIN raw : IsVideo(raw[n]), NEW o, NEW state, IsInjective(raw),
           DOMAIN o = Fields, Switches(o)
    PROVE  LET items == RankWithNanoRank(ApplyLocalFilters(raw, o, state), o, state) IN
           /\ ToSet(items) = {v \in ToSet(raw) : Wanted(v, o, state)}
           /\ IsInjective(items)
           /\ \A m, n \in DOMAIN items : m < n =>
                \/ ComesBefore(raw, items[m], items[n], o, state)
                \/ /\ ~ComesBefore(raw, items[n], items[m], o, state)
                   /\ PlaceIn(raw, items[m]) < PlaceIn(raw, items[n])
<1>. DEFINE K == Kept(raw, o, state)
            u == Unordered(raw)
            f == Selected(raw, K, u)
            key == ResultKey(f, o, state)
            items == Selected(f, DOMAIN f, key)
<1>0. \A v : MatchesLocal(v, o, state) <=> Wanted(v, o, state)
  BY FormIsItsOptions DEF Wanted
<1>1. K \subseteq DOMAIN raw
  BY DEF Kept
<1>2. ApplyLocalFilters(raw, o, state) = SortResults(f, o.order)
  BY DEF ApplyLocalFilters, Where, Kept, Unordered
<1>3. Keyed(K, u)
  BY <1>1, KeepsOrder
<1>4. IsSelection(f, raw, K, u)
  BY <1>1, <1>3, SelectedRows
<1>. HIDE DEF f, K, u
<1>5. Cardinality(K) \in Nat /\ DOMAIN f = 1..Cardinality(K) /\ f \in Seq(S) /\ \A n \in DOMAIN f : IsVideo(f[n])
  <2>1. {raw[i] : i \in K} \subseteq S
    BY <1>1
  <2>. QED  BY <1>1, <1>4, <2>1 DEF IsSelection
<1>6. RankWithNanoRank(ApplyLocalFilters(raw, o, state), o, state) = items
  BY <1>2, <1>5, RankedOnce
<1>7. \A n \in 1..Cardinality(K) : key[n] \in Int
  BY <1>5, KeyIsInteger
<1>8. Distinct(raw, K)
  BY <1>1 DEF IsInjective, Distinct
<1>. HIDE DEF key
<1>9. /\ \A n \in DOMAIN f : /\ Place(K, u, n) \in K /\ f[n] = raw[Place(K, u, n)]
                            /\ Cardinality(Below(K, Place(K, u, n))) = n - 1
      /\ DOMAIN items = DOMAIN f
      /\ ToSet(items) = {raw[i] : i \in K}
      /\ Distinct(raw, K) => IsInjective(items)
      /\ \A m, n \in DOMAIN items : m < n =>
            \E i, j \in DOMAIN f :
                /\ items[m] = f[i] /\ items[n] = f[j] /\ Precedes(key, i, j)
                /\ i < j => Place(K, u, i) < Place(K, u, j)
  BY <1>1, <1>7, SelectedTwice DEF f, u
<1>10. ASSUME NEW n \in DOMAIN f
       PROVE  /\ PlaceIn(raw, f[n]) = Place(K, u, n)
              /\ ScoreIn(raw, f[n], o, state) = NanoRankScore(f[n], n - 1, o, state)
  <2>1. Place(K, u, n) \in DOMAIN raw /\ raw[Place(K, u, n)] = f[n]
    BY <1>1, <1>9
  <2>2. PlaceIn(raw, f[n]) = Place(K, u, n)
    BY <2>1 DEF PlaceIn, IsInjective
  <2>3. {k \in 1..(Place(K, u, n) - 1) : Wanted(raw[k], o, state)} = Below(K, Place(K, u, n))
    <3>1. DOMAIN raw = 1..Len(raw) /\ Len(raw) \in Nat
      OBVIOUS
    <3>2. \A k : k \in K <=> k \in DOMAIN raw /\ Wanted(raw[k], o, state)
      BY <1>0 DEF K, Kept
    <3>. QED  BY <2>1, <3>1, <3>2 DEF Below
  <2>. QED  BY <1>9, <2>2, <2>3 DEF ScoreIn
<1>11. ASSUME NEW m \in DOMAIN f, NEW n \in DOMAIN f
       PROVE  ComesBefore(raw, f[m], f[n], o, state) <=> key[m] < key[n]
  <2>1. IsVideo(f[m]) /\ IsVideo(f[n])
    BY <1>5
  <2>2. /\ NanoRankScore(f[m], m - 1, o, state) \in Int /\ NanoRankScore(f[n], n - 1, o, state) \in Int
    <3>1. m - 1 \in Nat /\ n - 1 \in Nat
      BY <1>5
    <3>. QED  BY <2>1, <3>1, ScoreIsInteger
  <2>3. f[m].published \in Int /\ f[n].published \in Int /\ f[m].views \in Int /\ f[n].views \in Int
        /\ f[m].title \in Int /\ f[n].title \in Int
    BY <2>1 DEF IsVideo
  <2>4. CASE o.order = "date"
    BY <2>3, <2>4 DEF ComesBefore, key, ResultKey, Newest
  <2>5. CASE o.order = "title"
    BY <2>3, <2>5 DEF ComesBefore, key, ResultKey
  <2>6. CASE o.order = "viewCount"
    BY <2>3, <2>6 DEF ComesBefore, key, ResultKey
  <2>7. CASE o.order = "relevance"
    <3>1. key[m] = 0 - NanoRankScore(f[m], m - 1, o, state) /\ key[n] = 0 - NanoRankScore(f[n], n - 1, o, state)
      BY <2>7 DEF key, ResultKey
    <3>2. ComesBefore(raw, f[m], f[n], o, state)
              <=> NanoRankScore(f[m], m - 1, o, state) > NanoRankScore(f[n], n - 1, o, state)
      BY <1>10, <2>7 DEF ComesBefore
    <3>. QED  BY <2>2, <3>1, <3>2
  <2>8. CASE o.order \notin {"date", "title", "viewCount", "relevance"}
    BY <2>8 DEF ComesBefore, key, ResultKey
  <2>. QED  BY <2>8, <2>7, <2>6, <2>5, <2>4
<1>12. ASSUME NEW m \in DOMAIN items, NEW n \in DOMAIN items, m < n
       PROVE  \/ ComesBefore(raw, items[m], items[n], o, state)
              \/ /\ ~ComesBefore(raw, items[n], items[m], o, state)
                 /\ PlaceIn(raw, items[m]) < PlaceIn(raw, items[n])
  <2>1. PICK i \in DOMAIN f, j \in DOMAIN f :
            /\ items[m] = f[i] /\ items[n] = f[j] /\ Precedes(key, i, j)
            /\ i < j => Place(K, u, i) < Place(K, u, j)
    BY <1>9, <1>12
  <2>2. key[i] \in Int /\ key[j] \in Int
    BY <1>5, <1>7
  <2>3. key[i] < key[j] \/ (~(key[j] < key[i]) /\ i < j)
    BY <2>1, <2>2 DEF Precedes
  <2>. QED  BY <1>10, <1>11, <2>1, <2>3
<1>13. {raw[i] : i \in K} = {v \in ToSet(raw) : Wanted(v, o, state)}
  BY <1>0 DEF K, Kept, ToSet
<1>. QED  BY <1>6, <1>8, <1>9, <1>12, <1>13

\* What the public provider returns are videos of those there are.
LEMMA PublicItems ==
    ASSUME NEW all, AreVideos(all), NEW o, o.max \in Nat
    PROVE  /\ PublicSearch(all, o).items \in Seq(ToSet(all))
           /\ \A n \in DOMAIN PublicSearch(all, o).items : IsVideo(PublicSearch(all, o).items[n])
<1>. DEFINE first == Window(all, o.offset + o.max, 0)
            chosen == {n \in DOMAIN first : first[n].id # 0}
            parsed == Selected(first, chosen, Unordered(first))
            items == Window(parsed, o.max, o.offset)
            S == ToSet(all)
<1>1. all \in Seq(S) /\ \A v \in S : IsVideo(v)
  BY DEF AreVideos, ToSet
<1>2. PublicSearch(all, o).items \in {<<>>, items} /\ (o.offset \in 0..MaxPublicOffset \/ PublicSearch(all, o).items = <<>>)
  <2>1. Parsed(first) = parsed
    BY DEF Parsed, Where, Unordered
  <2>. HIDE DEF first, parsed
  <2>2. PublicSearch(all, o) =
            CASE QueryString(o) = {} -> Answer("none", <<>>, 0)
              [] QueryString(o) # {} /\ o.offset \notin 0..MaxPublicOffset -> Answer("token", <<>>, 0)
              [] OTHER -> Answer("none", items, IF Len(items) = o.max THEN o.offset + Len(items) ELSE 0)
    BY <2>1 DEF PublicSearch, first
  <2>. HIDE DEF items
  <2>. QED  BY <2>2 DEF Answer
<1>3. ASSUME o.offset \in 0..MaxPublicOffset PROVE items \in Seq(S)
  <2>1. o.offset \in Nat /\ o.offset + o.max \in Nat
    BY <1>3
  <2>2. first \in Seq(S)
    BY <1>1, <2>1, Windows
  <2>. HIDE DEF first
  <2>3. Keyed(chosen, Unordered(first)) /\ chosen \subseteq DOMAIN first
    BY <2>2, KeepsOrder
  <2>4. IsSelection(parsed, first, chosen, Unordered(first))
    BY <2>3, SelectedRows
  <2>5. {first[i] : i \in chosen} \subseteq S
    BY <2>2
  <2>. HIDE DEF chosen, parsed
  <2>6. parsed \in Seq(S)
    BY <2>4, <2>5 DEF IsSelection
  <2>. QED  BY <2>1, <2>6, Windows
<1>. HIDE DEF items, S
<1>4. PublicSearch(all, o).items \in Seq(S)
  <2>. DEFINE found == PublicSearch(all, o).items
  <2>1. <<>> \in Seq(S)
    OBVIOUS
  <2>2. found \in {<<>>, items} /\ (o.offset \in 0..MaxPublicOffset \/ found = <<>>)
    BY <1>2
  <2>. HIDE DEF found
  <2>3. found \in Seq(S)
    BY <1>3, <2>1, <2>2
  <2>. QED  BY <2>3 DEF found
<1>. QED  BY <1>1, <1>4 DEF S

\* The options as the service asks for them.
LEMMA AskedOptions ==
    ASSUME NEW q \in SearchInputs
    PROVE  LET form == IF ShouldUseGuestVideoSearch(q.form, q.connected)
                       THEN [q.form EXCEPT !.types = <<"video">>] ELSE q.form IN
           /\ NormalizeOptions(form) = Asked(q)
           /\ DOMAIN Asked(q) = Fields /\ Asked(q).max \in Nat /\ Switches(Asked(q))
<1>. DEFINE guest == ShouldUseGuestVideoSearch(q.form, q.connected)
            form == IF guest THEN [q.form EXCEPT !.types = <<"video">>] ELSE q.form
<1>1. /\ DOMAIN q.form = Fields /\ q.form.max \in Int
      /\ {q.form.shorts, q.form.regular, q.form.onlySubscribed, q.form.hideRejected} \subseteq BOOLEAN
  BY SearchAssumption DEF Fields
<1>2. DOMAIN form = Fields /\ \A field \in Fields \ {"types"} : form[field] = q.form[field]
  BY <1>1
<1>3. form.types = IF guest THEN <<"video">> ELSE q.form.types
  BY <1>1, FormFields
<1>. DEFINE o == NormalizeOptions(q.form)
            p == NormalizeOptions(form)
<1>4. /\ DOMAIN o = Fields
      /\ \A field \in Fields \ Normal : o[field] = q.form[field]
      /\ o.types = IF q.form.types = <<>> THEN <<"video">> ELSE q.form.types
      /\ o.order = Or(q.form.order, "relevance") /\ o.duration = Or(q.form.duration, "any")
      /\ o.official = Or(q.form.official, "any") /\ o.watch = Or(q.form.watch, "any")
      /\ o.saved = Or(q.form.saved, "any")
      /\ o.max = IF q.form.max <= 0 THEN DefaultResults ELSE IF q.form.max > MaxResults THEN MaxResults ELSE q.form.max
  BY <1>1, Normalized
<1>5. /\ DOMAIN p = Fields
      /\ \A field \in Fields \ Normal : p[field] = form[field]
      /\ p.types = IF form.types = <<>> THEN <<"video">> ELSE form.types
      /\ p.order = Or(form.order, "relevance") /\ p.duration = Or(form.duration, "any")
      /\ p.official = Or(form.official, "any") /\ p.watch = Or(form.watch, "any")
      /\ p.saved = Or(form.saved, "any")
      /\ p.max = IF form.max <= 0 THEN DefaultResults ELSE IF form.max > MaxResults THEN MaxResults ELSE form.max
  <2>. HIDE DEF form
  <2>. QED  BY <1>2, Normalized
<1>6. Asked(q) = IF guest THEN [o EXCEPT !.types = <<"video">>] ELSE o
  BY DEF Asked
<1>7. \E x : x = p /\ x = NormalizeOptions(form)
  OBVIOUS
<1>8. <<"video">> # <<>>
  OBVIOUS
<1>. HIDE DEF o, p, form, guest
<1>9. DOMAIN Asked(q) = Fields
      /\ \A field \in Fields : Asked(q)[field] = IF guest /\ field = "types" THEN <<"video">> ELSE o[field]
  BY <1>4, <1>6
<1>10. {"max", "types", "order", "duration", "official", "watch", "saved", "shorts", "regular", "onlySubscribed",
        "hideRejected"} \subseteq Fields
       /\ {"shorts", "regular", "onlySubscribed", "hideRejected"} \cap Normal = {}
  BY FormFields DEF Normal
<1>11. p.types = Asked(q).types
  BY <1>3, <1>4, <1>5, <1>8, <1>9, <1>10
<1>12. \A field \in Fields \ {"types"} : p[field] = o[field]
  <2>1. \A field \in Fields \ Normal : field # "types"
    BY DEF Normal
  <2>2. \A field \in Fields \ Normal : p[field] = o[field]
    BY <1>2, <1>4, <1>5, <2>1
  <2>3. p.max = o.max /\ p.order = o.order /\ p.duration = o.duration /\ p.official = o.official
        /\ p.watch = o.watch /\ p.saved = o.saved
    BY <1>2, <1>4, <1>5, <1>10
  <2>. QED  BY <2>2, <2>3 DEF Normal
<1>13. p = Asked(q)
  <2>1. DOMAIN p = DOMAIN Asked(q) /\ \A field \in DOMAIN p : p[field] = Asked(q)[field]
    BY <1>5, <1>9, <1>11, <1>12
  <2>2. p = [field \in Fields |-> p[field]] /\ Asked(q) = [field \in Fields |-> Asked(q)[field]]
    BY <1>5, <1>6, <1>4, <1>9 DEF p, o, NormalizeOptions
  <2>. QED  BY <1>5, <2>1, <2>2
<1>14. Asked(q).max \in Nat
  <2>1. Asked(q).max = o.max
    BY <1>9, <1>10
  <2>2. DefaultResults \in Nat /\ MaxResults \in Nat /\ (q.form.max \in Nat \/ q.form.max <= 0)
    BY <1>1, SizeAssumption
  <2>. QED  BY <1>4, <2>1, <2>2
<1>15. Switches(Asked(q))
  BY <1>1, <1>4, <1>9, <1>10 DEF Switches
<1>. QED  BY <1>9, <1>13, <1>14, <1>15 DEF p, form, guest

\* What stays on the device does not change a public search.
LEMMA SameSearch ==
    ASSUME NEW all, NEW o, DOMAIN o = Fields
    PROVE  PublicSearch(all, RemoteSearchOptions(o)) = PublicSearch(all, o)
<1>. DEFINE p == RemoteSearchOptions(o)
<1>1. \A field \in Fields \ {"watch", "saved", "onlySubscribed", "hideRejected"} : p[field] = o[field]
  BY DEF RemoteSearchOptions
<1>. HIDE DEF p
<1>2. p.query = o.query /\ p.phrase = o.phrase /\ p.include = o.include /\ p.exclude = o.exclude
      /\ p.offset = o.offset /\ p.max = o.max
  BY <1>1, FormFields
<1>3. QueryString(p) = QueryString(o)
  BY <1>2 DEF QueryString
<1>. QED  BY <1>2, <1>3 DEF PublicSearch, p

\* SearchHonoursOptions: whatever the form, what the device knows and what the
\* providers return, an item is shown exactly if no option, taken by itself,
\* excludes it, once, by the order that was asked for.
THEOREM SearchAlwaysHonoursOptions == AskSpec => []SearchHonoursOptions
<1>1. ASSUME question \in Inputs PROVE SearchHonoursOptions
  <2>. SUFFICES ASSUME question.kind = "search" PROVE SearchHonoursOptions
    BY DEF SearchHonoursOptions
  <2>1. question \in SearchInputs
    BY <1>1, KindAssumption DEF Inputs
  <2>. DEFINE providers == [public |-> question.public, official |-> question.official]
              form == IF ShouldUseGuestVideoSearch(question.form, question.connected)
                      THEN [question.form EXCEPT !.types = <<"video">>] ELSE question.form
              page == SearchAdvanced(question.form, question.state, providers, question.connected)
              o == Asked(question)
              raw == Returned(question)
              state == question.state
              answer == IF RequiresOfficialAPI(o) THEN question.official ELSE PublicSearch(question.public, o)
              items == RankWithNanoRank(ApplyLocalFilters(raw, o, state), o, state)
  <2>2. NormalizeOptions(form) = o /\ DOMAIN o = Fields /\ o.max \in Nat /\ Switches(o)
    BY <2>1, AskedOptions
  <2>3. page = ServiceSearch(form, state, providers, question.connected)
    BY DEF SearchAdvanced
  <2>4. /\ raw = answer.items /\ "items" \in DOMAIN answer
        /\ raw \in Seq(ToSet(raw)) /\ \A n \in DOMAIN raw : IsVideo(raw[n])
    <3>1. CASE RequiresOfficialAPI(o)
      BY <2>1, <3>1, SearchAssumption DEF Returned, AreVideos
    <3>2. CASE ~RequiresOfficialAPI(o)
      <4>1. /\ PublicSearch(question.public, o).items \in Seq(ToSet(question.public))
            /\ \A n \in DOMAIN PublicSearch(question.public, o).items :
                    IsVideo(PublicSearch(question.public, o).items[n])
        BY <2>1, <2>2, SearchAssumption, PublicItems
      <4>2. raw = PublicSearch(question.public, o).items
        BY <3>2 DEF Returned
      <4>3. "items" \in DOMAIN PublicSearch(question.public, o)
        BY DEF PublicSearch, Answer
      <4>4. raw \in Seq(ToSet(raw))
        <5>. HIDE DEF raw
        <5>1. raw \in Seq(ToSet(question.public))
          BY <4>1, <4>2
        <5>2. \A n \in 1..Len(raw) : raw[n] \in ToSet(raw)
          BY <5>1 DEF ToSet
        <5>. QED  BY <5>1, <5>2
      <4>. QED  BY <3>2, <4>1, <4>2, <4>3, <4>4
    <3>. QED  BY <3>1, <3>2
  <2>5. page.error = "none" => page.items = items
    <3>1. ServiceSearch(form, state, providers, question.connected)
            = IF ~ValidOptions(o) THEN Answer("invalid", <<>>, 0)
              ELSE IF RequiresOfficialAPI(o) /\ ~question.connected THEN Answer("no account", <<>>, 0)
              ELSE [answer EXCEPT !.items = RankWithNanoRank(ApplyLocalFilters(@, o, state), o, state)]
      <4>1. PublicSearch(providers.public, RemoteSearchOptions(o)) = PublicSearch(question.public, o)
        BY <2>2, SameSearch
      <4>2. providers.official = question.official
        OBVIOUS
      <4>. HIDE DEF form, providers, o, state
      <4>. QED  BY <2>2, <4>1, <4>2 DEF ServiceSearch
    <3>2. Answer("invalid", <<>>, 0).error # "none" /\ Answer("no account", <<>>, 0).error # "none"
      BY DEF Answer
    <3>. HIDE DEF answer, raw, form, providers, o, state, page
    <3>3. [answer EXCEPT !.items = RankWithNanoRank(ApplyLocalFilters(@, o, state), o, state)].items = items
      BY <2>4
    <3>. QED  BY <2>3, <3>1, <3>2, <3>3
  <2>6. IsInjective(raw) =>
           /\ ToSet(items) = {v \in ToSet(raw) : Wanted(v, o, state)}
           /\ IsInjective(items)
           /\ \A m, n \in DOMAIN items : m < n =>
                \/ ComesBefore(raw, items[m], items[n], o, state)
                \/ /\ ~ComesBefore(raw, items[n], items[m], o, state)
                   /\ PlaceIn(raw, items[m]) < PlaceIn(raw, items[n])
    <3>. HIDE DEF raw, o, state
    <3>. QED  BY <2>2, <2>4, ResultsInOrder
  <2>. HIDE DEF items
  <2>. QED  BY <2>5, <2>6 DEF SearchHonoursOptions
<1>2. question \in Inputs => SearchHonoursOptions
  BY <1>1
<1>. QED  BY <1>2, QuestionStays, PTL

-------------------------------------------------------------------------------
(* What is computed step by step. *)

\* A set of numbers has a least one: the induction of this module.
LEMMA LeastExists ==
    ASSUME NEW S \in SUBSET Nat, S # {}
    PROVE  \E n \in S : \A m \in S : n <= m
<1>1. IsWellFoundedOn(OpToRel(<, Nat), Nat)
  BY NatLessThanWellFounded
<1>2. PICK n \in S : \A m \in S : ~(<<m, n>> \in OpToRel(<, Nat))
  BY <1>1, WFMin
<1>3. ASSUME NEW m \in S PROVE n <= m
  <2>1. m \in Nat /\ n \in Nat
    OBVIOUS
  <2>2. ~(m < n)
    BY <1>2, <2>1 DEF OpToRel
  <2>. QED  BY <2>1, <2>2
<1>. QED  BY <1>3

\* What holds at first and is kept by every step up to a bound holds up to it.
LEMMA StepByStep ==
    ASSUME NEW bound \in Nat, NEW S, 0 \in S, \A n \in 0..(bound - 1) : n \in S => n + 1 \in S
    PROVE  0..bound \subseteq S
<1>. DEFINE Missing == {n \in 0..bound : n \notin S}
<1>1. SUFFICES ASSUME Missing # {} PROVE FALSE
  OBVIOUS
<1>2. PICK n \in Missing : \A m \in Missing : n <= m
  <2>1. Missing \in SUBSET Nat
    OBVIOUS
  <2>. HIDE DEF Missing
  <2>. QED  BY <1>1, <2>1, LeastExists
<1>3. n \in 1..bound /\ n - 1 \notin Missing /\ n - 1 \in 0..(bound - 1) /\ (n - 1) + 1 = n
  BY <1>2
<1>. QED  BY <1>3

\* The function that a step defines, from one place to the next.
Stepped(g, first, step, n) == IF n = 0 THEN first ELSE step[<<n, g[n - 1]>>]

HasSteps(g, bound, X, first, step) ==
    g \in [0..bound -> X] /\ \A n \in 0..bound : g[n] = Stepped(g, first, step, n)

\* A recursive function of finitely many steps exists.
LEMMA StepsExist ==
    ASSUME NEW bound \in Nat, NEW X, NEW first \in X, NEW step, step \in [(1..bound) \X X -> X]
    PROVE  \E g : HasSteps(g, bound, X, first, step)
<1>. DEFINE Some(m) == \E g \in [0..m -> X] : \A n \in 0..m : g[n] = Stepped(g, first, step, n)
            S == {m \in Nat : Some(m)}
<1>1. 0 \in S
  <2>. DEFINE g == [n \in 0..0 |-> first]
  <2>1. g \in [0..0 -> X] /\ \A n \in 0..0 : g[n] = Stepped(g, first, step, n)
    BY DEF Stepped
  <2>. HIDE DEF g
  <2>2. Some(0)
    BY <2>1
  <2>. QED  BY <2>2
<1>2. ASSUME NEW m \in 0..(bound - 1), m \in S PROVE m + 1 \in S
  <2>1. PICK g \in [0..m -> X] : \A n \in 0..m : g[n] = Stepped(g, first, step, n)
    BY <1>2
  <2>. DEFINE last == step[<<m + 1, g[m]>>]
              h == [n \in 0..(m + 1) |-> IF n = m + 1 THEN last ELSE g[n]]
  <2>2. last \in X
    <3>1. m + 1 \in 1..bound /\ g[m] \in X
      OBVIOUS
    <3>. QED  BY <3>1
  <2>. HIDE DEF last
  <2>3. h \in [0..(m + 1) -> X]
    BY <2>2
  <2>4. h[m + 1] = last /\ \A n \in 0..m : h[n] = g[n]
    OBVIOUS
  <2>. HIDE DEF h
  <2>5. ASSUME NEW n \in 0..(m + 1) PROVE h[n] = Stepped(h, first, step, n)
    <3>1. CASE n = m + 1
      <4>1. n # 0 /\ n - 1 = m /\ h[n - 1] = g[m]
        BY <2>4, <3>1
      <4>. QED  BY <2>4, <3>1, <4>1 DEF Stepped, last
    <3>2. CASE n # m + 1
      <4>1. n \in 0..m /\ (n # 0 => n - 1 \in 0..m)
        BY <3>2
      <4>. QED  BY <2>1, <2>4, <4>1 DEF Stepped
    <3>. QED  BY <3>1, <3>2
  <2>6. Some(m + 1) /\ m + 1 \in Nat
    BY <2>3, <2>5
  <2>. HIDE DEF Some
  <2>. QED  BY <2>6
<1>. HIDE DEF S
<1>3. 0..bound \subseteq S
  BY <1>1, <1>2, StepByStep
<1>4. bound \in S
  BY <1>3
<1>. QED  BY <1>4 DEF S, HasSteps

-------------------------------------------------------------------------------
(* Lists that are read page by page. *)

ReaderType(S) == [items : Seq(S), at : Nat, ended : BOOLEAN]

\* The states of a reader, where what it asks for next is a natural number.
ReadsOn(f, page, bound) ==
    f = [n \in 0..bound |-> IF n = 0 THEN NewReader
                            ELSE IF f[n - 1].ended THEN f[n - 1] ELSE Read(f[n - 1], page[f[n - 1].at])]

ArePages(page, S) == \A n \in Nat : page[n].items \in Seq(S) /\ page[n].next \in Nat

\* So does a reader of pages.
LEMMA ReadersExist ==
    ASSUME NEW S, NEW page, ArePages(page, S), NEW bound \in Nat
    PROVE  \E f : ReadsOn(f, page, bound)
<1>. DEFINE X == ReaderType(S)
            on(r) == IF r.ended THEN r ELSE Read(r, page[r.at])
            step == [x \in (1..bound) \X X |-> on(x[2])]
<1>1. NewReader \in X
  BY DEF NewReader, ReaderType
<1>2. ASSUME NEW r \in X PROVE on(r) \in X
  <2>1. r.items \in Seq(S) /\ r.at \in Nat
    BY DEF ReaderType
  <2>2. page[r.at].items \in Seq(S) /\ page[r.at].next \in Nat
    BY <2>1 DEF ArePages
  <2>3. r.items \o page[r.at].items \in Seq(S)
    BY <2>1, <2>2, ConcatProperties
  <2>4. Read(r, page[r.at]) \in X
    BY <2>2, <2>3 DEF Read, ReaderType
  <2>. QED  BY <2>4
<1>. HIDE DEF on, X
<1>3. step \in [(1..bound) \X X -> X]
  BY <1>2
<1>. HIDE DEF step
<1>4. PICK g : HasSteps(g, bound, X, NewReader, step)
  BY <1>1, <1>3, StepsExist
<1>4a. g \in [0..bound -> X] /\ \A n \in 0..bound : g[n] = Stepped(g, NewReader, step, n)
  BY <1>4 DEF HasSteps
<1>5. ASSUME NEW n \in 0..bound, n # 0 PROVE g[n] = on(g[n - 1])
  <2>1. n \in 1..bound /\ n - 1 \in 0..bound
    BY <1>5
  <2>2. g[n - 1] \in X
    BY <1>4a, <2>1
  <2>3. step[<<n, g[n - 1]>>] = on(g[n - 1])
    BY <2>1, <2>2 DEF step
  <2>. QED  BY <1>4a, <1>5, <2>3 DEF Stepped
<1>6. g[0] = NewReader
  <2>1. 0 \in 0..bound
    OBVIOUS
  <2>. QED  BY <1>4a, <2>1 DEF Stepped
<1>7. g = [n \in 0..bound |-> g[n]]
  BY <1>4a
<1>8. \A n \in 0..bound : g[n] = IF n = 0 THEN NewReader ELSE on(g[n - 1])
  BY <1>5, <1>6
<1>9. g = [n \in 0..bound |-> IF n = 0 THEN NewReader ELSE on(g[n - 1])]
  BY <1>7, <1>8
<1>10. ReadsOn(g, page, bound)
  BY <1>9 DEF ReadsOn, on
<1>. QED  BY <1>10

\* What reading one page does to a reader.
LEMMA ReadFields ==
    ASSUME NEW r, NEW p
    PROVE  /\ Read(r, p).items = r.items \o p.items /\ Read(r, p).at = p.next
           /\ p.next = 0 => Read(r, p).ended = TRUE
           /\ p.next # 0 => Read(r, p).ended = FALSE
<1>. DEFINE ended == p.next = 0
            items == r.items \o p.items
<1>1. Read(r, p) = [items |-> items, at |-> p.next, ended |-> ended]
  BY DEF Read
<1>2. (p.next = 0 => ended = TRUE) /\ (p.next # 0 => ended = FALSE)
  OBVIOUS
<1>. HIDE DEF ended, items
<1>3. Read(r, p).items = items /\ Read(r, p).at = p.next /\ Read(r, p).ended = ended
  BY <1>1
<1>. QED  BY <1>2, <1>3 DEF items

Follows(f, page, bound) ==
    /\ f[0] = NewReader
    /\ \A n \in 0..(bound - 1) :
        /\ f[n].ended => f[n + 1] = f[n]
        /\ ~f[n].ended /\ f[n].at \in Nat => f[n + 1] = Read(f[n], page[f[n].at])

\* The readers that Discovery defines follow the pages.
LEMMA ReadersFollow ==
    ASSUME NEW S, NEW page, ArePages(page, S), NEW bound \in Nat
    PROVE  Follows(Readers(page, bound), page, bound)
<1>. DEFINE r == Readers(page, bound)
<1>1. \E f : ReadsOn(f, page, bound)
  BY ReadersExist
<1>2. ReadsOn(r, page, bound)
  BY <1>1 DEF Readers, ReadsOn
<1>. HIDE DEF r
<1>3. r[0] = NewReader
  BY <1>2 DEF ReadsOn
<1>4. ASSUME NEW n \in 0..(bound - 1)
      PROVE  r[n + 1] = IF r[n].ended THEN r[n] ELSE Read(r[n], page[r[n].at])
  <2>1. n + 1 \in 0..bound /\ n + 1 # 0 /\ (n + 1) - 1 = n
    OBVIOUS
  <2>. QED  BY <1>2, <2>1 DEF ReadsOn
<1>5. Follows(r, page, bound)
  BY <1>3, <1>4 DEF Follows
<1>. QED  BY <1>5 DEF r

\* Pages of one size, each with where the next one begins, or that none does.
LEMMA WholeList ==
    ASSUME NEW S, NEW W \in Seq(S), NEW P \in Nat \ {0}, NEW bound \in Nat, bound > Len(W), NEW page, NEW f,
           Follows(f, page, bound),
           \A n \in 0..Len(W) : /\ page[n].items = Window(W, P, n)
                                /\ page[n].next \in {0, n + P}
                                /\ n + P < Len(W) => page[n].next = n + P
                                /\ n + P > Len(W) => page[n].next = 0
    PROVE  f[bound].ended /\ f[bound].items = W
<1>. DEFINE Sound(n) ==
        /\ f[n].ended \in BOOLEAN
        /\ f[n].ended => f[n].items = W
        /\ ~f[n].ended => /\ f[n].at \in n..Len(W)
                          /\ f[n].items = SubSeq(W, 1, f[n].at)
            Good == {n \in 0..bound : Sound(n)}
<1>1. Len(W) \in Nat
  OBVIOUS
<1>2. f[0] = NewReader
  BY DEF Follows
<1>3. ASSUME NEW n \in 0..(bound - 1)
      PROVE  /\ f[n].ended => f[n + 1] = f[n]
             /\ ~f[n].ended /\ f[n].at \in Nat => f[n + 1] = Read(f[n], page[f[n].at])
  BY DEF Follows
<1>4. Sound(0)
  <2>1. SubSeq(W, 1, 0) = <<>>
    BY SubSeqEmpty
  <2>. QED  BY <1>1, <1>2, <2>1 DEF NewReader
<1>5. ASSUME NEW n \in 0..(bound - 1), Sound(n) PROVE Sound(n + 1)
  <2>1. CASE f[n].ended
    BY <1>3, <1>5, <2>1
  <2>2. CASE ~f[n].ended
    <3>. DEFINE at == f[n].at
                p == page[at]
                last == IF at + P > Len(W) THEN Len(W) ELSE at + P
    <3>1. at \in Nat /\ at >= n /\ at <= Len(W) /\ f[n].items = SubSeq(W, 1, at)
      BY <1>1, <1>5, <2>2
    <3>2. /\ p.items = Window(W, P, at) /\ p.next \in {0, at + P}
          /\ at + P < Len(W) => p.next = at + P
          /\ at + P > Len(W) => p.next = 0
      BY <1>1, <3>1
    <3>3. /\ f[n + 1].items = f[n].items \o p.items /\ f[n + 1].at = p.next
          /\ p.next = 0 => f[n + 1].ended = TRUE
          /\ p.next # 0 => f[n + 1].ended = FALSE
      <4>1. f[n + 1] = Read(f[n], p)
        BY <1>3, <2>2, <3>1
      <4>2. /\ Read(f[n], p).items = f[n].items \o p.items /\ Read(f[n], p).at = p.next
            /\ p.next = 0 => Read(f[n], p).ended = TRUE
            /\ p.next # 0 => Read(f[n], p).ended = FALSE
        BY ReadFields
      <4>. HIDE DEF p
      <4>. QED  BY <4>1, <4>2
    <3>. HIDE DEF at, p
    <3>4. p.items = SubSeq(W, at + 1, last)
      BY <3>2 DEF Window
    <3>5. last \in at..Len(W)
      BY <1>1, <3>1
    <3>6. SubSeq(W, 1, at) \o SubSeq(W, at + 1, last) = SubSeq(W, 1, last)
      <4>. HIDE DEF last
      <4>1. 1 \in 1..Len(W) + 1 /\ at \in (1 - 1)..Len(W)
        BY <1>1, <3>1
      <4>. QED  BY <3>5, <4>1, ConcatAdjacentSubSeq
    <3>7. f[n + 1].items = SubSeq(W, 1, last) /\ f[n + 1].at = p.next
      <4>. HIDE DEF last
      <4>. QED  BY <3>1, <3>3, <3>4, <3>6
    <3>8. CASE p.next = 0
      <4>1. last = Len(W)
        BY <1>1, <3>1, <3>2, <3>8
      <4>2. f[n + 1].items = W
        BY <3>7, <4>1, SubSeqFull
      <4>3. f[n + 1].ended = TRUE
        BY <3>3, <3>8
      <4>. QED  BY <4>2, <4>3
    <3>9. CASE p.next # 0
      <4>1. p.next = at + P /\ at + P <= Len(W) /\ last = at + P
        BY <1>1, <3>1, <3>2, <3>9
      <4>2. at + P \in (n + 1)..Len(W)
        BY <1>1, <3>1, <4>1
      <4>3. f[n + 1].ended = FALSE
        BY <3>3, <3>9
      <4>. HIDE DEF last
      <4>. QED  BY <3>7, <4>1, <4>2, <4>3
    <3>. QED  BY <3>8, <3>9
  <2>. QED  BY <1>5, <2>1, <2>2
<1>. HIDE DEF Sound
<1>6. 0..bound \subseteq Good
  <2>1. 0 \in Good
    BY <1>4
  <2>2. ASSUME NEW n \in 0..(bound - 1), n \in Good PROVE n + 1 \in Good
    <3>1. n + 1 \in 0..bound
      OBVIOUS
    <3>. QED  BY <1>5, <2>2, <3>1
  <2>. HIDE DEF Good
  <2>. QED  BY <2>1, <2>2, StepByStep
<1>7. Sound(bound)
  <2>1. bound \in 0..bound
    OBVIOUS
  <2>. QED  BY <1>6, <2>1
<1>. QED  BY <1>1, <1>7 DEF Sound

\* The subscriptions in their order, and a page of them.
SubscribedRows(db) == {n \in DOMAIN db.videos : Subscribed(db, db.videos[n])}
SubscribedVideos(db) == SortedBy(Where(db.videos, LAMBDA v : Subscribed(db, v)), Newest)

\* The videos of the subscriptions as a sequence.
LEMMA SubscriptionsList ==
    ASSUME NEW db, AreVideos(db.videos)
    PROVE  /\ SubscribedVideos(db) \in Seq(ToSet(db.videos))
           /\ Len(SubscribedVideos(db)) <= Len(db.videos)
           /\ Len(Where(db.videos, LAMBDA v : Subscribed(db, v))) = Len(SubscribedVideos(db))
<1>. DEFINE V == db.videos
            chosen == SubscribedRows(db)
            f == Selected(V, chosen, Unordered(V))
            key == [n \in DOMAIN f |-> Newest(f[n])]
            w == Selected(f, DOMAIN f, key)
            S == ToSet(V)
<1>1. V \in Seq(S) /\ chosen \subseteq DOMAIN V /\ \A v \in S : IsVideo(v)
  BY DEF AreVideos, SubscribedRows, ToSet
<1>2. Where(V, LAMBDA v : Subscribed(db, v)) = f
  BY DEF Where, SubscribedRows, Unordered
<1>3. SubscribedVideos(db) = w
  BY <1>2 DEF SubscribedVideos, SortedBy
<1>4. IsSelection(f, V, chosen, Unordered(V))
  BY <1>1, KeepsOrder, SelectedRows
<1>5. Len(V) \in Nat /\ DOMAIN V = 1..Len(V)
  BY <1>1
<1>6. Cardinality(chosen) <= Len(V)
  <2>. HIDE DEF chosen, V
  <2>1. IsFiniteSet(1..Len(V)) /\ Cardinality(1..Len(V)) = Len(V)
    BY <1>5, FirstPlaces
  <2>2. chosen \in SUBSET (1..Len(V))
    BY <1>1, <1>5
  <2>. QED  BY <2>1, <2>2, FS_Subset
<1>. HIDE DEF f, chosen, S
<1>7. /\ Cardinality(chosen) \in Nat /\ DOMAIN f = 1..Cardinality(chosen)
      /\ Len(f) = Cardinality(chosen) /\ \A n \in DOMAIN f : IsVideo(f[n])
  <2>1. {V[i] : i \in chosen} \subseteq S
    BY <1>1
  <2>. QED  BY <1>1, <1>4, <2>1 DEF IsSelection
<1>8. \A n \in 1..Cardinality(chosen) : key[n] \in Int
  BY <1>7 DEF IsVideo, Newest
<1>. HIDE DEF key
<1>9. w \in Seq(S) /\ DOMAIN w = DOMAIN f
  BY <1>1, <1>8, SelectedTwice DEF f
<1>. HIDE DEF w
<1>10. Len(w) = Cardinality(chosen)
  BY <1>7, <1>9
<1>. QED  BY <1>2, <1>3, <1>6, <1>7, <1>9, <1>10 DEF S

\* A page of the subscriptions is a window, with a cursor as long as something follows.
LEMMA PageOfSubscriptions ==
    ASSUME NEW db, AreVideos(db.videos), NEW size \in Int, NEW n \in Nat
    PROVE  LET w == SubscribedVideos(db)
               p == Window(w, PageSize(size), n) IN
           /\ PageSize(size) \in Nat \ {0}
           /\ SubscriptionPage(db, size, n).items = p
           /\ SubscriptionPage(db, size, n).next = IF n + Len(p) < Len(w) THEN n + Len(p) ELSE 0
<1>. DEFINE query == [channel |-> 0, category |-> "", from |-> 0, to |-> 0,
                      content |-> "all", watch |-> "all", limit |-> size, offset |-> n]
            V == db.videos
            w == SubscribedVideos(db)
            p == Window(w, PageSize(size), n)
            f == Selected(V, SubscribedRows(db), [m \in DOMAIN V |-> 0])
<1>1. PageSize(size) \in Nat \ {0}
  BY SizeAssumption DEF PageSize
<1>2. {m \in DOMAIN V : SubscriptionSelects(db, V[m], query)} = SubscribedRows(db)
  BY DEF SubscriptionSelects, SubscribedRows
<1>3. Where(V, LAMBDA v : SubscriptionSelects(db, v, query)) = f
  BY <1>2 DEF Where
<1>4. Where(V, LAMBDA v : Subscribed(db, v)) = f
  BY DEF Where, SubscribedRows
<1>5. w = SortedBy(f, Newest)
  BY <1>4 DEF SubscribedVideos
<1>6. Len(f) = Len(w)
  BY <1>4, SubscriptionsList
<1>7. query.limit = size /\ query.offset = n /\ ~(query.offset < 0)
  OBVIOUS
<1>. HIDE DEF f, query, w
<1>8. SubscriptionVideos(db, query) =
         [videos |-> p, total |-> Len(f), offset |-> n, limit |-> PageSize(size),
          more |-> HasMore(p, PageSize(size), n, Len(f))]
  BY <1>3, <1>5, <1>7 DEF SubscriptionVideos
<1>9. SubscriptionPage(db, size, n) = [items |-> p, next |-> IF n + Len(p) < Len(w) THEN n + Len(p) ELSE 0]
  <2>1. SubscriptionPage(db, size, n) = [items |-> SubscriptionVideos(db, query).videos,
            next |-> IF SubscriptionVideos(db, query).more THEN n + Len(SubscriptionVideos(db, query).videos) ELSE 0]
    BY DEF SubscriptionPage, query
  <2>. HIDE DEF p
  <2>2. SubscriptionVideos(db, query).videos = p /\ SubscriptionVideos(db, query).more = HasMore(p, PageSize(size), n, Len(f))
    BY <1>8
  <2>3. SubscriptionVideos(db, query).more <=> n + Len(p) < Len(w)
    BY <1>6, <2>2 DEF HasMore
  <2>. QED  BY <2>1, <2>2, <2>3
<1>. HIDE DEF p
<1>. QED  BY <1>1, <1>9 DEF p, w

\* Reading on in the subscriptions gives all of them.
LEMMA SubscriptionsWhole ==
    ASSUME NEW db, AreVideos(db.videos), NEW size \in Int, NEW bound, bound = Len(db.videos) + 2
    PROVE  LET r == Followed([n \in Nat |-> SubscriptionPage(db, size, n)], bound)
           IN  r.ended /\ r.items = SubscribedVideos(db)
<1>. DEFINE W == SubscribedVideos(db)
            S == ToSet(db.videos)
            P == PageSize(size)
            page == [n \in Nat |-> SubscriptionPage(db, size, n)]
            r == Readers(page, bound)
<1>1. W \in Seq(S) /\ Len(W) <= Len(db.videos) /\ db.videos \in Seq(S)
  BY SubscriptionsList DEF AreVideos
<1>2. bound \in Nat /\ bound > Len(W)
  <2>. HIDE DEF W
  <2>. QED  BY <1>1
<1>3. ASSUME NEW n \in Nat
      PROVE  /\ P \in Nat \ {0} /\ Window(W, P, n) \in Seq(S)
             /\ Len(Window(W, P, n)) = WindowSize(Len(W), P, n)
             /\ page[n].items = Window(W, P, n)
             /\ page[n].next = IF n + WindowSize(Len(W), P, n) < Len(W) THEN n + WindowSize(Len(W), P, n) ELSE 0
             /\ page[n].next \in Nat
  <2>1. P \in Nat \ {0}
    BY PageOfSubscriptions
  <2>2. Window(W, P, n) \in Seq(S) /\ Len(Window(W, P, n)) = WindowSize(Len(W), P, n)
    BY <1>1, <2>1, Windows
  <2>3. /\ page[n].items = Window(W, P, n)
        /\ page[n].next = IF n + Len(Window(W, P, n)) < Len(W) THEN n + Len(Window(W, P, n)) ELSE 0
    BY PageOfSubscriptions
  <2>4. WindowSize(Len(W), P, n) \in Nat
    BY <1>1, <2>1 DEF WindowSize
  <2>. HIDE DEF W, P, page
  <2>. QED  BY <2>4, <2>3, <2>2, <2>1
<1>4. ArePages(page, S)
  BY <1>3 DEF ArePages
<1>5. Follows(r, page, bound)
  <2>. HIDE DEF page, S
  <2>. QED  BY <1>2, <1>4, ReadersFollow
<1>. HIDE DEF page, W, P, r
<1>6. \A n \in 0..Len(W) : /\ page[n].items = Window(W, P, n)
                           /\ page[n].next \in {0, n + P}
                           /\ n + P < Len(W) => page[n].next = n + P
                           /\ n + P > Len(W) => page[n].next = 0
  <2>. SUFFICES ASSUME NEW n \in 0..Len(W)
                PROVE  /\ page[n].items = Window(W, P, n)
                       /\ page[n].next \in {0, n + P}
                       /\ n + P < Len(W) => page[n].next = n + P
                       /\ n + P > Len(W) => page[n].next = 0
    OBVIOUS
  <2>1. n \in Nat /\ n <= Len(W) /\ Len(W) \in Nat
    BY <1>1
  <2>2. P \in Nat \ {0} /\ page[n].items = Window(W, P, n)
        /\ page[n].next = IF n + WindowSize(Len(W), P, n) < Len(W) THEN n + WindowSize(Len(W), P, n) ELSE 0
    BY <1>3, <2>1
  <2>3. WindowSize(Len(W), P, n) = IF n + P > Len(W) THEN Len(W) - n ELSE P
    BY <2>1, <2>2 DEF WindowSize
  <2>4. CASE n + P > Len(W)
    BY <2>4, <2>3, <2>2, <2>1
  <2>5. CASE n + P <= Len(W)
    <3>1. page[n].next = IF n + P < Len(W) THEN n + P ELSE 0
      BY <2>5, <2>3, <2>2, <2>1
    <3>. QED  BY <2>1, <2>2, <2>5, <3>1
  <2>. QED  BY <2>5, <2>4, <2>2, <2>1
<1>7. r[bound].ended /\ r[bound].items = W
  <2>1. P \in Nat \ {0}
    BY <1>3
  <2>. QED  BY <1>1, <1>2, <1>5, <1>6, <2>1, WholeList
<1>. QED  BY <1>7 DEF Followed, r, W, page

IsPublicPage(page, V, P, limit, n) ==
    IF n <= limit
    THEN page.items = Window(V, P, n) /\ page.next = IF Len(Window(V, P, n)) = P THEN n + P ELSE 0
    ELSE page.items = <<>> /\ page.next = 0
ArePublicPages(page, V, P, limit) == \A n \in Nat : IsPublicPage(page[n], V, P, limit, n)

\* A public list, whose offsets end at a limit.
LEMMA PublicWhole ==
    ASSUME NEW S, NEW V \in Seq(S), NEW P \in Nat \ {0}, NEW bound \in Nat, bound > Len(V), NEW page, NEW limit \in Nat,
           Len(V) <= limit + 1, ArePublicPages(page, V, P, limit)
    PROVE  Followed(page, bound).ended /\ Followed(page, bound).items = V
<1>1. Len(V) \in Nat
  OBVIOUS
<1>2. ASSUME NEW n \in Nat
      PROVE  /\ Window(V, P, n) \in Seq(S)
             /\ Len(Window(V, P, n)) = IF n >= Len(V) THEN 0 ELSE IF n + P > Len(V) THEN Len(V) - n ELSE P
  BY Windows DEF WindowSize
<1>3. ArePages(page, S)
  <2>1. ASSUME NEW n \in Nat PROVE page[n].items \in Seq(S) /\ page[n].next \in Nat
    <3>1. IsPublicPage(page[n], V, P, limit, n)
      BY DEF ArePublicPages
    <3>2. Window(V, P, n) \in Seq(S)
      BY <1>2
    <3>3. <<>> \in Seq(S) /\ n + P \in Nat
      OBVIOUS
    <3>4. CASE n <= limit
      BY <3>1, <3>2, <3>3, <3>4 DEF IsPublicPage
    <3>5. CASE n > limit
      <4>1. ~(n <= limit)
        BY <3>5
      <4>2. page[n].items = <<>> /\ page[n].next = 0
        BY <3>1, <4>1 DEF IsPublicPage
      <4>. QED  BY <3>3, <4>2
    <3>. QED  BY <3>4, <3>5
  <2>. QED  BY <2>1 DEF ArePages
<1>4. ASSUME NEW n \in 0..Len(V)
      PROVE  /\ page[n].items = Window(V, P, n)
             /\ page[n].next \in {0, n + P}
             /\ n + P < Len(V) => page[n].next = n + P
             /\ n + P > Len(V) => page[n].next = 0
  <2>1. n \in Nat /\ n <= Len(V)
    BY <1>1
  <2>2. CASE n <= limit
    <3>1. /\ page[n].items = Window(V, P, n)
          /\ page[n].next = IF Len(Window(V, P, n)) = P THEN n + P ELSE 0
      BY <2>1, <2>2 DEF IsPublicPage, ArePublicPages
    <3>2. Len(Window(V, P, n)) = IF n >= Len(V) THEN 0 ELSE IF n + P > Len(V) THEN Len(V) - n ELSE P
      BY <1>2, <2>1
    <3>3. n + P < Len(V) => Len(Window(V, P, n)) = P
      BY <1>1, <2>1, <3>2
    <3>4. n + P > Len(V) => Len(Window(V, P, n)) # P
      BY <1>1, <2>1, <3>2
    <3>. QED  BY <3>1, <3>3, <3>4
  <2>3. CASE n > limit
    <3>1. n = Len(V)
      BY <1>1, <2>1, <2>3
    <3>2. Window(V, P, n) \in Seq(S) /\ Len(Window(V, P, n)) = 0
      BY <1>1, <1>2, <2>1, <3>1
    <3>3. Window(V, P, n) = <<>>
      BY <3>2
    <3>4. page[n].items = <<>> /\ page[n].next = 0
      BY <2>1, <2>3 DEF IsPublicPage, ArePublicPages
    <3>. QED  BY <1>1, <3>1, <3>3, <3>4
  <2>. QED  BY <2>1, <2>2, <2>3
<1>5. Follows(Readers(page, bound), page, bound)
  BY <1>3, ReadersFollow
<1>6. Readers(page, bound)[bound].ended /\ Readers(page, bound)[bound].items = V
  BY <1>4, <1>5, WholeList
<1>. QED  BY <1>6 DEF Followed

\* No entry is left out where all have an identifier.
LEMMA ParsedWhole ==
    ASSUME NEW S, NEW x \in Seq(S), \A n \in DOMAIN x : x[n].id # 0
    PROVE  Parsed(x) = x
<1>1. {n \in DOMAIN x : x[n].id # 0} = DOMAIN x
  OBVIOUS
<1>2. Parsed(x) = Selected(x, DOMAIN x, Unordered(x))
  BY <1>1 DEF Parsed, Where, Unordered
<1>. QED  BY <1>2, SelectsAll

\* Reading on in a public listing gives all of it.
LEMMA ListingWhole ==
    ASSUME NEW V, AreVideos(V), NEW size \in Int, NEW bound, bound = Len(V) + 2,
           \A n \in DOMAIN V : V[n].id # 0, Len(V) <= MaxListingOffset + 1
    PROVE  LET r == Followed([n \in Nat |-> Listing(V, size, n)], bound) IN r.ended /\ r.items = V
<1>. DEFINE S == ToSet(V)
            P == IF size \in 1..MaxListing THEN size ELSE MaxListing
            page == [n \in Nat |-> Listing(V, size, n)]
<1>1. V \in Seq(S) /\ Len(V) \in Nat /\ bound \in Nat /\ bound > Len(V)
  BY DEF AreVideos
<1>2. P \in Nat \ {0} /\ MaxListingOffset \in Nat
  BY SizeAssumption
<1>3. ASSUME NEW n \in Nat
      PROVE  IsPublicPage(page[n], V, P, MaxListingOffset, n)
  <2>1. Window(V, P, n) \in Seq(S) /\ \A k \in DOMAIN Window(V, P, n) : Window(V, P, n)[k].id # 0
    <3>. HIDE DEF P
    <3>1. Window(V, P, n) \in Seq(S) /\ Len(Window(V, P, n)) = WindowSize(Len(V), P, n)
      BY <1>1, <1>2, Windows
    <3>2. DOMAIN Window(V, P, n) = 1..WindowSize(Len(V), P, n)
      BY <3>1
    <3>3. ASSUME NEW k \in 1..WindowSize(Len(V), P, n) PROVE n + k \in DOMAIN V /\ Window(V, P, n)[k] = V[n + k]
      BY <1>1, <1>2, Windows
    <3>. QED  BY <3>1, <3>2, <3>3
  <2>2. Parsed(Window(V, P, n)) = Window(V, P, n)
    BY <2>1, ParsedWhole
  <2>3. page[n] = IF n \notin 0..MaxListingOffset THEN Answer("token", <<>>, 0)
                  ELSE Answer("none", Window(V, P, n), IF Len(Window(V, P, n)) = P THEN n + P ELSE 0)
    <3>1. page[n] = Listing(V, size, n)
      OBVIOUS
    <3>. HIDE DEF page
    <3>. QED  BY <2>2, <3>1 DEF Listing
  <2>4. n <= MaxListingOffset <=> n \in 0..MaxListingOffset
    BY <1>2
  <2>. HIDE DEF page, P
  <2>. QED  BY <2>3, <2>4 DEF Answer, IsPublicPage
<1>. HIDE DEF page, P, S
<1>4. ArePublicPages(page, V, P, MaxListingOffset)
  BY <1>3 DEF ArePublicPages
<1>5. Len(V) <= MaxListingOffset + 1
  OBVIOUS
<1>6. Followed(page, bound).ended /\ Followed(page, bound).items = V
  <2>1. ASSUME NEW limit \in Nat, Len(V) <= limit + 1, ArePublicPages(page, V, P, limit)
        PROVE  Followed(page, bound).ended /\ Followed(page, bound).items = V
    BY <1>1, <1>2, <2>1, PublicWhole
  <2>. QED  BY <1>2, <1>4, <1>5, <2>1
<1>. QED  BY <1>6 DEF page

\* The public provider is asked for all up to the end of the page.
LEMMA WindowOfFirst ==
    ASSUME NEW S, NEW V \in Seq(S), NEW P \in Nat, NEW n \in Nat
    PROVE  Window(Window(V, n + P, 0), P, n) = Window(V, P, n)
<1>. DEFINE first == Window(V, n + P, 0)
            length == WindowSize(Len(V), n + P, 0)
            size == WindowSize(Len(V), P, n)
<1>1. n + P \in Nat /\ 0 \in Nat /\ Len(V) \in Nat
  OBVIOUS
<1>2. first \in Seq(S) /\ Len(first) = length
  BY <1>1, Windows
<1>3. ASSUME NEW k \in 1..length PROVE first[k] = V[k]
  <2>1. first[k] = V[0 + k]
    BY <1>1, Windows
  <2>. QED  BY <1>1, <2>1 DEF WindowSize
<1>4. length = (IF n + P > Len(V) THEN Len(V) ELSE n + P) /\ length \in Nat
  BY <1>1 DEF WindowSize
<1>5. WindowSize(length, P, n) = size /\ size \in Nat
  BY <1>1, <1>4 DEF WindowSize
<1>. HIDE DEF first, size
<1>6. Window(first, P, n) \in Seq(S) /\ Len(Window(first, P, n)) = size
  BY <1>2, <1>5, Windows
<1>7. Window(V, P, n) \in Seq(S) /\ Len(Window(V, P, n)) = size
  BY Windows DEF size
<1>8. ASSUME NEW k \in 1..size PROVE Window(first, P, n)[k] = Window(V, P, n)[k]
  <2>0. \A m \in 1..WindowSize(Len(first), P, n) :
            n + m \in DOMAIN first /\ Window(first, P, n)[m] = first[n + m]
    BY <1>2, Windows
  <2>1. n + k \in DOMAIN first /\ Window(first, P, n)[k] = first[n + k]
    BY <1>2, <1>5, <2>0
  <2>2. Window(V, P, n)[k] = V[n + k]
    BY Windows DEF size
  <2>3. n + k \in 1..length
    BY <1>2, <2>1
  <2>4. first[n + k] = V[n + k]
    BY <1>3, <2>3
  <2>. QED  BY <2>1, <2>2, <2>4
<1>. QED  BY <1>6, <1>7, <1>8, SeqEqual DEF first

\* Reading on in a public search gives all of it.
LEMMA SearchWhole ==
    ASSUME NEW db, NEW V, db.videos = V, AreVideos(V), NEW size \in Int, NEW bound, bound = Len(V) + 2,
           \A n \in DOMAIN V : V[n].id # 0, Len(V) <= MaxPublicOffset + 1
    PROVE  LET r == Followed([n \in Nat |-> SearchPage(db, size, n)], bound) IN r.ended /\ r.items = V
<1>. DEFINE S == ToSet(V)
            P == IF size <= 0 THEN DefaultResults ELSE IF size > MaxResults THEN MaxResults ELSE size
            page == [n \in Nat |-> SearchPage(db, size, n)]
<1>1. V \in Seq(S) /\ Len(V) \in Nat /\ bound \in Nat /\ bound > Len(V)
  BY DEF AreVideos
<1>2. P \in Nat \ {0} /\ MaxPublicOffset \in Nat
  BY SizeAssumption
<1>3. ASSUME NEW n \in Nat
      PROVE  IsPublicPage(page[n], V, P, MaxPublicOffset, n)
  <2>. DEFINE form == [AnyOptions EXCEPT !.max = size, !.offset = n]
              o == NormalizeOptions(form)
  <2>1. DOMAIN form = Fields /\ form.max = size /\ form.offset = n /\ form.query = AnyOptions.query
    BY NeutralOptions, FormFields
  <2>2. AnyOptions.query = "a"
    <3>. DEFINE any == [AnyForm EXCEPT !.query = "a"]
    <3>1. DOMAIN any = Fields /\ any.query = "a"
      BY FormFields DEF Fields
    <3>2. AnyOptions = NormalizeOptions(any)
      BY DEF AnyOptions
    <3>. HIDE DEF any
    <3>. QED  BY <3>1, <3>2, Normalized, FormFields DEF Normal
  <2>. HIDE DEF form, P
  <2>3. o.max = P /\ o.offset = n /\ o.query = "a"
    BY <2>1, <2>2, Normalized, FormFields DEF Normal, P
  <2>4. QueryString(o) # {}
    <3>1. "a" \in QueryString(o)
      BY <2>3 DEF QueryString
    <3>. QED  BY <3>1
  <2>. DEFINE first == Window(V, n + P, 0)
  <2>5. Parsed(first) = first
    <3>1. n + P \in Nat /\ 0 \in Nat
      BY <1>2
    <3>2. first \in Seq(S) /\ Len(first) = WindowSize(Len(V), n + P, 0)
      BY <1>1, <3>1, Windows
    <3>3. \A k \in 1..WindowSize(Len(V), n + P, 0) : 0 + k \in DOMAIN V /\ Window(V, n + P, 0)[k] = V[0 + k]
      <4>1. ASSUME NEW limit \in Nat, NEW offset \in Nat
            PROVE  \A k \in 1..WindowSize(Len(V), limit, offset) :
                       offset + k \in DOMAIN V /\ Window(V, limit, offset)[k] = V[offset + k]
        <5>1. V \in Seq(S)
          BY <1>1
        <5>. HIDE DEF S
        <5>. QED  BY <5>1, Windows
      <4>. QED  BY <3>1, <4>1
    <3>. HIDE DEF first
    <3>4. DOMAIN first = 1..WindowSize(Len(V), n + P, 0)
      BY <3>2
    <3>5. \A k \in DOMAIN first : first[k].id # 0
      <4>1. ASSUME NEW k \in DOMAIN first PROVE first[k].id # 0
        <5>1. 0 + k \in DOMAIN V /\ first[k] = V[0 + k]
          BY <3>3, <3>4 DEF first
        <5>. QED  BY <5>1
      <4>. QED  BY <4>1
    <3>. QED  BY <3>2, <3>5, ParsedWhole
  <2>6. Window(first, P, n) = Window(V, P, n)
    BY <1>1, <1>2, WindowOfFirst
  <2>7. page[n] = PublicSearch(V, o)
    BY DEF SearchPage, form
  <2>. HIDE DEF o, page, first
  <2>8. PublicSearch(V, o) =
            IF n \notin 0..MaxPublicOffset THEN Answer("token", <<>>, 0)
            ELSE Answer("none", Window(V, P, n), IF Len(Window(V, P, n)) = P THEN n + Len(Window(V, P, n)) ELSE 0)
    BY <2>6, <2>5, <2>4, <2>3 DEF PublicSearch, first
  <2>9. n <= MaxPublicOffset <=> n \in 0..MaxPublicOffset
    BY <1>2
  <2>10. CASE n \in 0..MaxPublicOffset
    <3>1. PublicSearch(V, o).items = Window(V, P, n)
      BY <2>8, <2>10 DEF Answer
    <3>2. PublicSearch(V, o).next = IF Len(Window(V, P, n)) = P THEN n + P ELSE 0
      BY <2>8, <2>10 DEF Answer
    <3>. QED  BY <2>7, <2>9, <2>10, <3>1, <3>2 DEF IsPublicPage
  <2>11. CASE n \notin 0..MaxPublicOffset
    <3>1. PublicSearch(V, o).items = <<>> /\ PublicSearch(V, o).next = 0
      BY <2>8, <2>11 DEF Answer
    <3>. QED  BY <2>7, <2>9, <2>11, <3>1 DEF IsPublicPage
  <2>. QED  BY <2>10, <2>11
<1>. HIDE DEF page, P, S
<1>4. ArePublicPages(page, V, P, MaxPublicOffset)
  BY <1>3 DEF ArePublicPages
<1>5. Followed(page, bound).ended /\ Followed(page, bound).items = V
  BY <1>1, <1>2, <1>4, PublicWhole
<1>. QED  BY <1>5 DEF page

\* A rule and a playlist of the whole catalogue.
LEMMA RuleIsPlaylist ==
    ASSUME NEW db, NEW filter, NEW sort \in {"title", "published", "duration"}
    PROVE  SmartVideos(db, [subscribed |-> FALSE, term |-> "", filter |-> filter, sort |-> sort])
               = PlaylistVideos(db, db.videos, filter, sort)
<1>. DEFINE V == db.videos
            rule == [subscribed |-> FALSE, term |-> "", filter |-> filter, sort |-> sort]
            chosen == {n \in DOMAIN V : Passes(db, V[n], filter)}
            f == Selected(V, chosen, [n \in DOMAIN V |-> 0])
            key == [n \in DOMAIN f |-> CASE sort = "title" -> f[n].title
                                          [] sort = "duration" -> f[n].duration
                                          [] OTHER -> Newest(f[n])]
<1>1. rule.subscribed = FALSE /\ rule.term = "" /\ rule.filter = filter /\ rule.sort = sort
  OBVIOUS
<1>. HIDE DEF rule
<1>2. SmartVideos(db, rule) = Window(Selected(f, DOMAIN f, key), FilterLimit, 0)
  <2>. DEFINE selected(v) == /\ rule.subscribed => v.channel \in db.subscribed \cap DOMAIN db.titles
                             /\ rule.term # "" => rule.term \in v.words
                             /\ Passes(db, v, rule.filter)
              by(v) == CASE rule.sort = "title" -> v.title
                         [] rule.sort = "channel" -> Title(db, v)
                         [] rule.sort = "duration" -> v.duration
                         [] rule.sort = "added" -> 0 - v.seen
                         [] OTHER -> Newest(v)
  <2>1. {n \in DOMAIN V : selected(V[n])} = chosen
    BY <1>1
  <2>. HIDE DEF chosen
  <2>2. Selected(V, {n \in DOMAIN V : selected(V[n])}, [n \in DOMAIN V |-> 0]) = f
    BY <2>1
  <2>3. [n \in DOMAIN f |-> by(f[n])] = key
    <3>. HIDE DEF f
    <3>1. ASSUME NEW v PROVE by(v) = CASE sort = "title" -> v.title
                                       [] sort = "duration" -> v.duration
                                       [] OTHER -> Newest(v)
      BY <1>1
    <3>. HIDE DEF by
    <3>. QED  BY <3>1
  <2>4. Where(V, selected) = f
    BY <2>2 DEF Where
  <2>5. SortedBy(f, by) = Selected(f, DOMAIN f, key)
    <3>. HIDE DEF f, key
    <3>. QED  BY <2>3 DEF SortedBy
  <2>6. SmartVideos(db, rule) = Window(SortedBy(Where(V, selected), by), FilterLimit, 0)
    BY DEF SmartVideos
  <2>. HIDE DEF f, key
  <2>. QED  BY <2>4, <2>5, <2>6
<1>3. PlaylistVideos(db, V, filter, sort) = Window(Selected(f, DOMAIN f, key), FilterLimit, 0)
  <2>. DEFINE joined(v) == sort = "channel" => v.channel \in DOMAIN db.titles
              selected(v) == joined(v) /\ Passes(db, v, filter)
              by(v) == CASE sort = "title" -> v.title
                         [] sort = "channel" -> Title(db, v)
                         [] sort = "published" -> Newest(v)
                         [] sort = "duration" -> v.duration
                         [] sort = "added" -> v.added
                         [] OTHER -> 0
  <2>1. {n \in DOMAIN V : selected(V[n])} = chosen
    OBVIOUS
  <2>. HIDE DEF chosen
  <2>2. Selected(V, {n \in DOMAIN V : selected(V[n])}, [n \in DOMAIN V |-> 0]) = f
    BY <2>1
  <2>3. [n \in DOMAIN f |-> by(f[n])] = key
    <3>. HIDE DEF f
    <3>. QED  OBVIOUS
  <2>4. Where(V, selected) = f
    BY <2>2 DEF Where
  <2>5. SortedBy(f, by) = Selected(f, DOMAIN f, key)
    <3>. HIDE DEF f, key
    <3>. QED  BY <2>3 DEF SortedBy
  <2>6. sort \in SortKeys /\ sort # "channel"
    BY DEF SortKeys
  <2>7. PlaylistVideos(db, V, filter, sort) = Window(SortedBy(Where(V, selected), by), FilterLimit, 0)
    BY <2>6 DEF PlaylistVideos
  <2>. HIDE DEF f, key
  <2>. QED  BY <2>4, <2>5, <2>7
<1>. HIDE DEF f, key
<1>. QED  BY <1>2, <1>3 DEF rule

\* PagesPartition: whatever the length of the list and the size of a page, the
\* pages of a list are the list, and a rule lists what a playlist does.
THEOREM PagesAlwaysPartition == AskSpec => []PagesPartition
<1>1. ASSUME question \in Inputs PROVE PagesPartition
  <2>. SUFFICES ASSUME question.kind = "pages" PROVE PagesPartition
    BY DEF PagesPartition
  <2>1. question \in PageInputs
    BY <1>1, KindAssumption DEF Inputs
  <2>. DEFINE db == question.db
              size == question.size
              bound == Len(db.videos) + 2
  <2>2. AreVideos(db.videos) /\ size \in Int
    BY <2>1, PageAssumption
  <2>. HIDE DEF db, size
  <2>3. LET r == Followed([n \in Nat |-> SubscriptionPage(db, size, n)], bound)
        IN  r.ended /\ r.items = SubscribedVideos(db)
    BY <2>2, SubscriptionsWhole
  <2>4. (\A n \in DOMAIN db.videos : db.videos[n].id # 0) /\ Len(db.videos) <= MaxListingOffset + 1 =>
            LET r == Followed([n \in Nat |-> Listing(db.videos, size, n)], bound) IN r.ended /\ r.items = db.videos
    BY <2>2, ListingWhole
  <2>5. (\A n \in DOMAIN db.videos : db.videos[n].id # 0) /\ Len(db.videos) <= MaxPublicOffset + 1 =>
            LET r == Followed([n \in Nat |-> SearchPage(db, size, n)], bound) IN r.ended /\ r.items = db.videos
    BY <2>2, SearchWhole
  <2>6. \A sort \in {"title", "published", "duration"}, content \in {"all", "regular"} :
            LET filter == [AnyFilter EXCEPT !.content = content] IN
            SmartVideos(db, [subscribed |-> FALSE, term |-> "", filter |-> filter, sort |-> sort])
                = PlaylistVideos(db, db.videos, filter, sort)
    BY RuleIsPlaylist
  <2>. QED  BY <2>6, <2>5, <2>4, <2>3 DEF PagesPartition, SubscribedVideos, db, size
<1>2. question \in Inputs => PagesPartition
  BY <1>1
<1>. QED  BY <1>2, QuestionStays, PTL

--------------------------------------------------------------------------------
(* The greatest of a finite set, and the first place where it stands. *)

\* Of finitely many integers there is a first greatest one.
LEMMA GreatestFirst ==
    ASSUME NEW n \in Nat, NEW e, \A i \in 1..(n + 1) : e[i] \in Int
    PROVE  \E i \in 1..(n + 1) : (\A j \in 1..(n + 1) : e[j] <= e[i]) /\ (\A j \in 1..(i - 1) : e[j] < e[i])
<1>. DEFINE Top(m, i) == i \in 1..(m + 1) /\ \A j \in 1..(m + 1) : e[j] <= e[i]
            S == {m \in 0..n : \E i \in 1..(m + 1) : Top(m, i)}
<1>1. 0 \in S
  <2>1. Top(0, 1)
    OBVIOUS
  <2>2. 0 \in 0..n /\ 1 \in 1..(0 + 1)
    OBVIOUS
  <2>. HIDE DEF Top
  <2>. QED  BY <2>1, <2>2
<1>2. ASSUME NEW m \in 0..(n - 1), m \in S PROVE m + 1 \in S
  <2>1. PICK i \in 1..(m + 1) : Top(m, i)
    BY <1>2
  <2>2. e[i] \in Int /\ e[m + 2] \in Int /\ m + 1 \in 0..n
    OBVIOUS
  <2>3. CASE e[m + 2] <= e[i]
    <3>1. Top(m + 1, i)
      BY <2>1, <2>3
    <3>2. i \in 1..((m + 1) + 1)
      OBVIOUS
    <3>. HIDE DEF Top
    <3>. QED  BY <2>2, <3>1, <3>2
  <2>4. CASE ~(e[m + 2] <= e[i])
    <3>1. Top(m + 1, m + 2)
      <4>1. ASSUME NEW j \in 1..((m + 1) + 1) PROVE e[j] <= e[m + 2]
        <5>1. j = m + 2 \/ (j \in 1..(m + 1) /\ e[j] <= e[i])
          BY <2>1
        <5>2. e[j] \in Int
          OBVIOUS
        <5>. QED  BY <2>2, <2>4, <5>1, <5>2
      <4>. QED  BY <4>1
    <3>2. m + 2 \in 1..((m + 1) + 1)
      OBVIOUS
    <3>. HIDE DEF Top
    <3>. QED  BY <2>2, <3>1, <3>2
  <2>. QED  BY <2>3, <2>4
<1>3. 0..n \subseteq S
  <2>. HIDE DEF S
  <2>. QED  BY <1>1, <1>2, StepByStep
<1>4. PICK k \in 1..(n + 1) : Top(n, k)
  <2>1. n \in 0..n
    OBVIOUS
  <2>2. n \in S
    BY <1>3, <2>1
  <2>. HIDE DEF Top
  <2>. QED  BY <2>2
<1>. DEFINE Tops == {i \in 1..(n + 1) : e[i] = e[k]}
<1>5. PICK i \in Tops : \A j \in Tops : i <= j
  <2>1. Tops \in SUBSET Nat /\ Tops # {}
    OBVIOUS
  <2>. HIDE DEF Tops
  <2>. QED  BY <2>1, LeastExists
<1>6. i \in 1..(n + 1) /\ e[i] = e[k] /\ \A j \in 1..(n + 1) : e[j] <= e[i]
  BY <1>4
<1>7. ASSUME NEW j \in 1..(i - 1) PROVE e[j] < e[i]
  <2>1. j \in 1..(n + 1) /\ j < i
    BY <1>6
  <2>2. e[j] # e[k]
    BY <1>5, <2>1
  <2>3. e[j] \in Int /\ e[i] \in Int /\ e[j] <= e[i]
    BY <1>6, <2>1
  <2>. QED  BY <1>6, <2>2, <2>3
<1>. QED  BY <1>6, <1>7

\* Of a finite set of integers that is not empty, Greatest is one.
LEMMA GreatestOf ==
    ASSUME NEW S, IsFiniteSet(S), S \subseteq Int
    PROVE  /\ Greatest(S) \in Int
           /\ S # {} => Greatest(S) \in S /\ \A y \in S : y <= Greatest(S)
<1>1. CASE S = {}
  BY <1>1 DEF Greatest
<1>2. CASE S # {}
  <2>1. PICK n \in Nat : ExistsBijection(1..n, S)
    BY FS_NatBijection
  <2>2. PICK e \in [1..n -> S] : \A y \in S : \E i \in 1..n : e[i] = y
    BY <2>1 DEF ExistsBijection, Bijection, Surjection
  <2>3. n # 0 /\ n - 1 \in Nat /\ (n - 1) + 1 = n
    <3>1. PICK y \in S : TRUE
      BY <1>2
    <3>2. PICK i \in 1..n : e[i] = y
      BY <2>2, <3>1
    <3>. QED  BY <3>2
  <2>4. \A i \in 1..n : e[i] \in Int
    BY <2>2
  <2>5. \E i \in 1..n : \A j \in 1..n : e[j] <= e[i]
    <3>. DEFINE m == n - 1
    <3>1. m \in Nat /\ m + 1 = n
      BY <2>3
    <3>. HIDE DEF m
    <3>2. \E i \in 1..(m + 1) : (\A j \in 1..(m + 1) : e[j] <= e[i]) /\ (\A j \in 1..(i - 1) : e[j] < e[i])
      BY <2>4, <3>1, GreatestFirst
    <3>. QED  BY <3>1, <3>2
  <2>6. \E x \in S : \A y \in S : y <= x
    BY <2>2, <2>5
  <2>. QED  BY <1>2, <2>6 DEF Greatest
<1>. QED  BY <1>1, <1>2

-------------------------------------------------------------------------------
(* The ranking with diversity. *)

\* What Picks ranks: rows whose score is an integer.
Scored(items, score) == items \in Seq(ToSet(items)) /\ \A n \in DOMAIN items : score[items[n].id] \in Int

\* A score stays an integer under the penalty of its channel.
LEMMA EffectiveIsInteger ==
    ASSUME NEW v, NEW score, NEW picks, score[v.id] \in Int, picks[v.channel] \in Nat
    PROVE  Effective(v, score, picks) \in Int
<1>1. 1 + picks[v.channel] \in Nat \ {0}
  OBVIOUS
<1>2. ASSUME NEW d \in Nat \ {0} PROVE 5000 \div d \in Int
  OBVIOUS
<1>3. 5000 \div (1 + picks[v.channel]) \in Int
  BY <1>1, <1>2
<1>. QED  BY <1>3 DEF Effective

\* One of the best is picked.
LEMMA BestPicked ==
    ASSUME NEW S, NEW remaining \in Seq(S), remaining # <<>>, NEW score, NEW picks,
           \A n \in DOMAIN remaining : Effective(remaining[n], score, picks) \in Int
    PROVE  /\ BestOf(remaining, score, picks) \in DOMAIN remaining
           /\ \A n \in DOMAIN remaining :
                Effective(remaining[n], score, picks)
                    <= Effective(remaining[BestOf(remaining, score, picks)], score, picks)
<1>. DEFINE e == [n \in DOMAIN remaining |-> Effective(remaining[n], score, picks)]
            m == Len(remaining) - 1
<1>1. m \in Nat /\ DOMAIN remaining = 1..(m + 1)
  OBVIOUS
<1>2. \A i \in 1..(m + 1) : e[i] \in Int
  BY <1>1
<1>3. \A i \in 1..(m + 1) : e[i] = Effective(remaining[i], score, picks)
  BY <1>1
<1>. HIDE DEF m, e
<1>4. \E i \in 1..(m + 1) : (\A j \in 1..(m + 1) : e[j] <= e[i]) /\ (\A j \in 1..(i - 1) : e[j] < e[i])
  BY <1>1, <1>2, GreatestFirst
<1>5. \E i \in DOMAIN remaining :
        /\ \A j \in DOMAIN remaining :
            Effective(remaining[j], score, picks) <= Effective(remaining[i], score, picks)
        /\ \A j \in 1..(i - 1) :
            Effective(remaining[j], score, picks) < Effective(remaining[i], score, picks)
  <2>1. PICK i \in 1..(m + 1) : (\A j \in 1..(m + 1) : e[j] <= e[i]) /\ (\A j \in 1..(i - 1) : e[j] < e[i])
    BY <1>4
  <2>2. \A j \in 1..(i - 1) : j \in 1..(m + 1)
    BY <1>1
  <2>. QED  BY <1>1, <1>3, <2>1, <2>2
<1>. QED  BY <1>5 DEF BestOf

\* The one picked leaves, the others stay.
LEMMA TakenOut ==
    ASSUME NEW S, NEW x \in Seq(S), NEW i \in DOMAIN x
    PROVE  /\ SwappedOut(x, i) \in Seq(S) /\ Len(SwappedOut(x, i)) = Len(x) - 1
           /\ ToSet(SwappedOut(x, i)) \subseteq ToSet(x)
           /\ IsInjective(x) => IsInjective(SwappedOut(x, i)) /\ x[i] \notin ToSet(SwappedOut(x, i))
<1>. DEFINE last == Len(x)
            from(n) == IF n = i THEN last ELSE n
            y == SwappedOut(x, i)
<1>1. last \in Nat \ {0} /\ DOMAIN x = 1..last /\ i \in 1..last
  OBVIOUS
<1>2. y = [n \in 1..(last - 1) |-> x[from(n)]]
  BY DEF SwappedOut
<1>3. ASSUME NEW n \in 1..(last - 1) PROVE from(n) \in 1..last /\ from(n) # i /\ x[from(n)] \in S
  BY <1>1
<1>4. ASSUME NEW m \in 1..(last - 1), NEW n \in 1..(last - 1), from(m) = from(n) PROVE m = n
  BY <1>1, <1>4
<1>. HIDE DEF from, last, y
<1>5. y \in Seq(S) /\ Len(y) = last - 1 /\ DOMAIN y = 1..(last - 1) /\ last - 1 \in Nat
  BY <1>1, <1>2, <1>3
<1>6. \A n \in DOMAIN y : y[n] = x[from(n)] /\ from(n) \in DOMAIN x
  BY <1>1, <1>2, <1>3, <1>5
<1>7. ToSet(y) \subseteq ToSet(x)
  BY <1>6 DEF ToSet
<1>8. ASSUME IsInjective(x) PROVE IsInjective(y) /\ x[i] \notin ToSet(y)
  <2>1. ASSUME NEW m \in DOMAIN y, NEW n \in DOMAIN y, y[m] = y[n] PROVE m = n
    <3>1. from(m) = from(n)
      BY <1>6, <1>8, <2>1 DEF IsInjective
    <3>. QED  BY <1>4, <1>5, <3>1
  <2>2. ASSUME NEW n \in DOMAIN y PROVE y[n] # x[i]
    <3>1. from(n) # i /\ from(n) \in DOMAIN x
      BY <1>3, <1>5, <1>6
    <3>. QED  BY <1>6, <1>8, <3>1 DEF IsInjective
  <2>. QED  BY <2>1, <2>2 DEF IsInjective, ToSet
<1>. QED  BY <1>5, <1>7, <1>8 DEF y, last

\* What was picked by then, and how often of a channel.
OfChannel(out, m, c) == {k \in 1..m : out[k].channel = c}

Weight(out, v, m, score) == score[v.id] + 5000 \div (1 + Cardinality(OfChannel(out, m - 1, v.channel)))

\* At each place stands one that weighs no less than any of the later ones.
IsGreedy(out, later, score) ==
    \A m \in DOMAIN out :
        /\ \A n \in DOMAIN out : m < n => Weight(out, out[m], m, score) >= Weight(out, out[n], m, score)
        /\ \A v \in later : Weight(out, out[m], m, score) >= Weight(out, v, m, score)

IsOnce(out, remaining) ==
    IsInjective(out) /\ IsInjective(remaining) /\ ToSet(out) \cap ToSet(remaining) = {}

Counted(out, picks, R) ==
    \A v \in R : v.channel \in DOMAIN picks /\ picks[v.channel] = Cardinality(OfChannel(out, Len(out), v.channel))

\* The rows picked and those that remain, after n of them.
AfterPicks(state, n, items, score) ==
    /\ state.out \in Seq(ToSet(items)) /\ Len(state.out) = n
    /\ state.remaining \in Seq(ToSet(items)) /\ Len(state.remaining) = Len(items) - n
    /\ Counted(state.out, state.picks, ToSet(items))
    /\ IsInjective(items) => IsOnce(state.out, state.remaining)
    /\ IsGreedy(state.out, ToSet(state.remaining), score)

\* A pick adds one to the count of its channel and nothing to the others.
LEMMA CountOne ==
    ASSUME NEW S, NEW out \in Seq(S), NEW v \in S, NEW c
    PROVE  LET more == Append(out, v) IN
           /\ \A m \in 0..Len(out) : OfChannel(more, m, c) = OfChannel(out, m, c)
           /\ Cardinality(OfChannel(out, Len(out), c)) \in Nat
           /\ Cardinality(OfChannel(more, Len(more), c))
                = IF v.channel = c THEN Cardinality(OfChannel(out, Len(out), c)) + 1
                  ELSE Cardinality(OfChannel(out, Len(out), c))
<1>. DEFINE more == Append(out, v)
            n == Len(out)
            before == OfChannel(out, n, c)
<1>1. n \in Nat /\ Len(more) = n + 1 /\ more[n + 1] = v /\ \A k \in 1..n : more[k] = out[k]
  BY AppendProperties
<1>. HIDE DEF more
<1>2. \A m \in 0..n : OfChannel(more, m, c) = OfChannel(out, m, c)
  <2>. HIDE DEF n
  <2>1. ASSUME NEW m \in 0..n PROVE \A k \in 1..m : k \in 1..n
    BY <1>1
  <2>. QED  BY <1>1, <2>1 DEF OfChannel
<1>3. before \subseteq 1..n /\ IsFiniteSet(before)
  <2>1. before \subseteq 1..n
    BY DEF OfChannel
  <2>2. IsFiniteSet(1..n)
    BY <1>1, FirstPlaces
  <2>. QED  BY <2>1, <2>2, FS_Subset
<1>4. OfChannel(more, n + 1, c) = IF v.channel = c THEN before \cup {n + 1} ELSE before
  <2>1. \A k : k \in 1..(n + 1) <=> k \in 1..n \/ k = n + 1
    BY <1>1
  <2>2. \A k : k \in before <=> k \in 1..n /\ out[k].channel = c
    BY DEF OfChannel
  <2>3. \A k : k \in OfChannel(more, n + 1, c) <=> k \in 1..(n + 1) /\ more[k].channel = c
    BY DEF OfChannel
  <2>4. \A k \in 1..n : k # n + 1
    BY <1>1
  <2>. HIDE DEF n, before
  <2>. QED  BY <1>1, <2>4, <2>3, <2>2, <2>1
<1>5. Cardinality(before) \in Nat /\ Cardinality(before \cup {n + 1}) = Cardinality(before) + 1
  <2>1. n + 1 \notin before
    BY <1>1, <1>3
  <2>. HIDE DEF before
  <2>. QED  BY <1>3, <2>1, FS_AddElement, FS_CardinalityType
<1>. QED  BY <1>1, <1>2, <1>4, <1>5 DEF more

\* What is picked next weighs no less than all that remain.
LEMMA GreedyNext ==
    ASSUME NEW S, NEW out \in Seq(S), NEW rest \in SUBSET S, NEW v \in rest, NEW later, later \subseteq rest, NEW score,
           IsGreedy(out, rest, score),
           \A w \in rest : Weight(out, v, Len(out) + 1, score) >= Weight(out, w, Len(out) + 1, score)
    PROVE  IsGreedy(Append(out, v), later, score)
<1>. DEFINE more == Append(out, v)
            n == Len(out)
<1>1. n \in Nat /\ DOMAIN out = 1..n /\ DOMAIN more = 1..(n + 1) /\ more[n + 1] = v /\ \A k \in 1..n : more[k] = out[k]
  BY AppendProperties
<1>2. ASSUME NEW m \in 1..(n + 1), NEW w PROVE Weight(more, w, m, score) = Weight(out, w, m, score)
  <2>1. m - 1 \in 0..n
    BY <1>1
  <2>2. OfChannel(more, m - 1, w.channel) = OfChannel(out, m - 1, w.channel)
    <3>1. v \in S
      OBVIOUS
    <3>2. ASSUME NEW c PROVE \A k \in 0..Len(out) : OfChannel(Append(out, v), k, c) = OfChannel(out, k, c)
      BY <3>1, CountOne
    <3>. QED  BY <2>1, <3>2
  <2>. QED  BY <2>2 DEF Weight
<1>. HIDE DEF more
<1>3. ASSUME NEW m \in 1..(n + 1), NEW w, w \in later \/ \E k \in 1..(n + 1) : m < k /\ w = more[k]
      PROVE  Weight(more, more[m], m, score) >= Weight(more, w, m, score)
  <2>1. CASE m = n + 1
    <3>1. w \in rest
      BY <1>1, <1>3, <2>1
    <3>2. Weight(out, v, n + 1, score) >= Weight(out, w, n + 1, score)
      BY <3>1
    <3>. QED  BY <1>1, <1>2, <2>1, <3>2
  <2>2. CASE m # n + 1
    <3>1. m \in 1..n /\ more[m] = out[m]
      BY <1>1, <2>2
    <3>2. w \in rest \/ \E k \in 1..n : m < k /\ w = out[k]
      BY <1>1, <1>3
    <3>3. Weight(out, out[m], m, score) >= Weight(out, w, m, score)
      BY <1>1, <3>1, <3>2 DEF IsGreedy
    <3>. QED  BY <1>2, <3>1, <3>3
  <2>. QED  BY <2>1, <2>2
<1>. QED  BY <1>1, <1>3 DEF IsGreedy, more

\* A pick leaves what AfterPicks says, with one more picked.
LEMMA PickKeeps ==
    ASSUME NEW items, NEW score, Scored(items, score), NEW state, NEW n \in Nat, n < Len(items),
           AfterPicks(state, n, items, score)
    PROVE  AfterPicks(Pick(state, score), n + 1, items, score)
<1>. DEFINE R == ToSet(items)
            out == state.out
            remaining == state.remaining
            picks == state.picks
            i == BestOf(remaining, score, picks)
            v == remaining[i]
            next == Pick(state, score)
<1>1. out \in Seq(R) /\ Len(out) = n /\ remaining \in Seq(R) /\ Len(remaining) = Len(items) - n
      /\ Counted(out, picks, R) /\ IsGreedy(out, ToSet(remaining), score)
      /\ (IsInjective(items) => IsOnce(out, remaining))
  BY DEF AfterPicks
<1>2. \A w \in R : score[w.id] \in Int
  BY DEF Scored, ToSet
<1>3. ToSet(remaining) \subseteq R /\ \A k \in DOMAIN remaining : remaining[k] \in R /\ remaining[k] \in ToSet(remaining)
  BY <1>1 DEF ToSet
<1>4. Len(items) \in Nat
  BY DEF Scored
<1>5. remaining # <<>>
  BY <1>1, <1>4
<1>6. ASSUME NEW w \in R
      PROVE  /\ picks[w.channel] \in Nat /\ Effective(w, score, picks) \in Int
             /\ Effective(w, score, picks) = Weight(out, w, n + 1, score)
  <2>1. out \in Seq(R) /\ w \in R
    BY <1>1
  <2>. HIDE DEF out, R
  <2>2. Cardinality(OfChannel(out, Len(out), w.channel)) \in Nat
    BY <2>1, CountOne
  <2>3. picks[w.channel] = Cardinality(OfChannel(out, n, w.channel)) /\ picks[w.channel] \in Nat
    BY <1>1, <2>2 DEF Counted
  <2>4. Effective(w, score, picks) \in Int
    BY <1>2, <2>3, EffectiveIsInteger
  <2>5. (n + 1) - 1 = n
    OBVIOUS
  <2>. QED  BY <2>3, <2>4, <2>5 DEF Effective, Weight
<1>. HIDE DEF out, remaining, picks, R
<1>7. i \in DOMAIN remaining /\ \A k \in DOMAIN remaining : Effective(remaining[k], score, picks) <= Effective(v, score, picks)
  <2>1. \A k \in DOMAIN remaining : Effective(remaining[k], score, picks) \in Int
    BY <1>3, <1>6
  <2>. QED  BY <1>1, <1>5, <2>1, BestPicked
<1>. HIDE DEF i
<1>8. v \in R /\ v \in ToSet(remaining)
  BY <1>3, <1>7
<1>9. /\ next.out = Append(out, v) /\ next.remaining = SwappedOut(remaining, i)
      /\ next.picks = [picks EXCEPT ![v.channel] = @ + 1]
  BY DEF Pick, out, remaining, picks, i
<1>. HIDE DEF next, v
<1>10. next.out \in Seq(R) /\ Len(next.out) = n + 1
  BY <1>1, <1>8, <1>9, AppendProperties
<1>11. /\ next.remaining \in Seq(R) /\ Len(next.remaining) = Len(items) - (n + 1)
       /\ ToSet(next.remaining) \subseteq ToSet(remaining)
       /\ IsInjective(remaining) => IsInjective(next.remaining) /\ v \notin ToSet(next.remaining)
  <2>1. LET y == SwappedOut(remaining, i) IN
        /\ y \in Seq(R) /\ Len(y) = Len(remaining) - 1 /\ ToSet(y) \subseteq ToSet(remaining)
        /\ IsInjective(remaining) => IsInjective(y) /\ remaining[i] \notin ToSet(y)
    BY <1>1, <1>7, TakenOut
  <2>2. Len(remaining) - 1 = Len(items) - (n + 1)
    BY <1>1, <1>4
  <2>. QED  BY <1>9, <2>1, <2>2 DEF v
<1>12. Counted(next.out, next.picks, R)
  <2>1. ASSUME NEW w \in R
        PROVE  /\ w.channel \in DOMAIN next.picks
               /\ next.picks[w.channel] = Cardinality(OfChannel(next.out, Len(next.out), w.channel))
    <3>1. w.channel \in DOMAIN picks /\ picks[w.channel] = Cardinality(OfChannel(out, Len(out), w.channel))
      BY <1>1 DEF Counted
    <3>2. next.picks[w.channel] = (IF v.channel = w.channel THEN picks[w.channel] + 1 ELSE picks[w.channel])
          /\ DOMAIN next.picks = DOMAIN picks
      BY <1>9, <3>1
    <3>3. Cardinality(OfChannel(Append(out, v), Len(Append(out, v)), w.channel))
            = IF v.channel = w.channel THEN Cardinality(OfChannel(out, Len(out), w.channel)) + 1
              ELSE Cardinality(OfChannel(out, Len(out), w.channel))
      BY <1>1, <1>8, CountOne
    <3>. QED  BY <1>9, <3>1, <3>2, <3>3
  <2>. QED  BY <2>1 DEF Counted
<1>13. IsInjective(items) => IsOnce(next.out, next.remaining)
  <2>1. SUFFICES ASSUME IsOnce(out, remaining) PROVE IsOnce(next.out, next.remaining)
    BY <1>1
  <2>2. v \notin ToSet(out) /\ IsInjective(out) /\ IsInjective(remaining)
    BY <1>8, <2>1 DEF IsOnce
  <2>3. DOMAIN out = 1..n /\ DOMAIN next.out = 1..(n + 1)
        /\ next.out[n + 1] = v /\ \A k \in 1..n : next.out[k] = out[k]
    BY <1>1, <1>8, <1>9, AppendProperties
  <2>4. \A k \in 1..(n + 1) : k = n + 1 \/ k \in 1..n
    OBVIOUS
  <2>5. \A k \in 1..n : out[k] # v
    BY <2>2, <2>3 DEF ToSet
  <2>6. IsInjective(next.out)
    BY <2>5, <2>4, <2>3, <2>2 DEF IsInjective
  <2>7. ToSet(next.out) = ToSet(out) \cup {v}
    <3>1. \A w : w \in ToSet(next.out) <=> \E k \in 1..(n + 1) : next.out[k] = w
      BY <2>3 DEF ToSet
    <3>2. \A w : w \in ToSet(out) <=> \E k \in 1..n : out[k] = w
      BY <2>3 DEF ToSet
    <3>3. n + 1 \in 1..(n + 1) /\ \A k \in 1..n : k \in 1..(n + 1)
      OBVIOUS
    <3>. QED  BY <2>3, <2>4, <3>1, <3>2, <3>3
  <2>. QED  BY <1>11, <2>7, <2>6, <2>2, <2>1 DEF IsOnce
<1>14. IsGreedy(next.out, ToSet(next.remaining), score)
  <2>1. \A w \in ToSet(remaining) : Weight(out, v, n + 1, score) >= Weight(out, w, n + 1, score)
    <3>1. ASSUME NEW k \in DOMAIN remaining
          PROVE  Weight(out, v, n + 1, score) >= Weight(out, remaining[k], n + 1, score)
      <4>1. remaining[k] \in R
        BY <1>3
      <4>2. Effective(remaining[k], score, picks) <= Effective(v, score, picks)
        BY <1>7 DEF v
      <4>3. /\ Effective(v, score, picks) \in Int /\ Effective(remaining[k], score, picks) \in Int
            /\ Effective(v, score, picks) = Weight(out, v, n + 1, score)
            /\ Effective(remaining[k], score, picks) = Weight(out, remaining[k], n + 1, score)
        BY <1>6, <1>8, <4>1
      <4>. QED  BY <4>2, <4>3
    <3>. QED  BY <3>1 DEF ToSet
  <2>. DEFINE rest == ToSet(remaining)
              later == ToSet(next.remaining)
  <2>2. /\ rest \in SUBSET R /\ v \in rest /\ later \subseteq rest /\ IsGreedy(out, rest, score) /\ out \in Seq(R)
        /\ \A w \in rest : Weight(out, v, Len(out) + 1, score) >= Weight(out, w, Len(out) + 1, score)
    BY <1>1, <1>3, <1>8, <1>11, <2>1
  <2>. HIDE DEF rest, later
  <2>3. IsGreedy(Append(out, v), later, score)
    BY <2>2, GreedyNext
  <2>. QED  BY <1>9, <2>3 DEF later
<1>. QED  BY <1>10, <1>11, <1>12, <1>13, <1>14 DEF AfterPicks, next, R

\* The states of the ranking, up to the limit.
IsRanking(f, bound, items, score) ==
    f = [n \in 0..bound |-> IF n = 0 THEN Unpicked(items) ELSE Pick(f[n - 1], score)]

\* The invariant of the ranking holds before the first pick.
LEMMA NothingPicked ==
    ASSUME NEW items, NEW score, Scored(items, score)
    PROVE  AfterPicks(Unpicked(items), 0, items, score)
<1>. DEFINE state == Unpicked(items)
            C == {items[i].channel : i \in DOMAIN items}
<1>1. state.out = <<>> /\ state.remaining = items /\ state.picks = [c \in C |-> 0]
  BY DEF Unpicked
<1>2. items \in Seq(ToSet(items)) /\ Len(items) \in Nat /\ Len(items) - 0 = Len(items)
  BY DEF Scored
<1>3. Counted(<<>>, [c \in C |-> 0], ToSet(items))
  <2>1. ASSUME NEW v \in ToSet(items) PROVE v.channel \in C
    BY DEF ToSet
  <2>2. ASSUME NEW c PROVE Cardinality(OfChannel(<<>>, Len(<<>>), c)) = 0
    <3>1. Len(<<>>) = 0 /\ 1..0 = {}
      OBVIOUS
    <3>2. OfChannel(<<>>, Len(<<>>), c) = {}
      BY <3>1 DEF OfChannel
    <3>. QED  BY <3>2, FS_EmptySet
  <2>. HIDE DEF C
  <2>. QED  BY <2>1, <2>2 DEF Counted
<1>4. IsInjective(items) => IsOnce(<<>>, items)
  <2>1. DOMAIN <<>> = {} /\ ToSet(<<>>) = {}
    BY DEF ToSet
  <2>. QED  BY <2>1 DEF IsOnce, IsInjective
<1>5. IsGreedy(<<>>, ToSet(items), score)
  BY DEF IsGreedy
<1>. HIDE DEF state, C
<1>6. Len(<<>>) = 0 /\ <<>> \in Seq(ToSet(items))
  OBVIOUS
<1>. QED  BY <1>1, <1>2, <1>3, <1>4, <1>5, <1>6 DEF AfterPicks, state


Channels(items) == {items[i].channel : i \in DOMAIN items}

RankingType(items) == [out : Seq(ToSet(items)), remaining : Seq(ToSet(items)), picks : [Channels(items) -> Nat]]

\* A pick keeps the type of the ranking and takes one video.
LEMMA PickType ==
    ASSUME NEW items, NEW score, Scored(items, score), NEW state \in RankingType(items), state.remaining # <<>>
    PROVE  /\ Pick(state, score) \in RankingType(items)
           /\ Len(Pick(state, score).remaining) = Len(state.remaining) - 1
<1>. DEFINE R == ToSet(items)
            out == state.out
            remaining == state.remaining
            picks == state.picks
            i == BestOf(remaining, score, picks)
            v == remaining[i]
            next == Pick(state, score)
<1>1. out \in Seq(R) /\ remaining \in Seq(R) /\ picks \in [Channels(items) -> Nat] /\ remaining # <<>>
  BY DEF RankingType
<1>2. \A w \in R : score[w.id] \in Int /\ w.channel \in Channels(items)
  BY DEF Scored, ToSet, Channels
<1>. HIDE DEF out, remaining, picks, R
<1>3. \A k \in DOMAIN remaining : remaining[k] \in R
  BY <1>1
<1>4. ASSUME NEW w \in R PROVE Effective(w, score, picks) \in Int
  <2>1. score[w.id] \in Int /\ picks[w.channel] \in Nat
    BY <1>1, <1>2
  <2>. QED  BY <2>1, EffectiveIsInteger
<1>5. i \in DOMAIN remaining
  <2>1. \A k \in DOMAIN remaining : Effective(remaining[k], score, picks) \in Int
    BY <1>3, <1>4
  <2>. QED  BY <1>1, <2>1, BestPicked
<1>. HIDE DEF i
<1>6. v \in R
  BY <1>3, <1>5
<1>7. next = [out |-> Append(out, v), remaining |-> SwappedOut(remaining, i), picks |-> [picks EXCEPT ![v.channel] = @ + 1]]
  BY DEF Pick, out, remaining, picks, i
<1>8. SwappedOut(remaining, i) \in Seq(R) /\ Len(SwappedOut(remaining, i)) = Len(remaining) - 1
  BY <1>1, <1>5, TakenOut
<1>. HIDE DEF next, v
<1>9. Append(out, v) \in Seq(R)
  BY <1>1, <1>6, AppendProperties
<1>10. [picks EXCEPT ![v.channel] = @ + 1] \in [Channels(items) -> Nat]
  <2>1. v.channel \in Channels(items) /\ picks[v.channel] + 1 \in Nat
    BY <1>1, <1>2, <1>6
  <2>. QED  BY <1>1, <2>1
<1>. DEFINE a == Append(out, v)
            b == SwappedOut(remaining, i)
            c == [picks EXCEPT ![v.channel] = @ + 1]
<1>11. a \in Seq(R) /\ b \in Seq(R) /\ c \in [Channels(items) -> Nat] /\ Len(b) = Len(remaining) - 1
       /\ next = [out |-> a, remaining |-> b, picks |-> c]
  BY <1>7, <1>8, <1>9, <1>10
<1>. HIDE DEF a, b, c
<1>12. next \in [out : Seq(R), remaining : Seq(R), picks : [Channels(items) -> Nat]] /\ next.remaining = b
  BY <1>11
<1>. QED  BY <1>11, <1>12 DEF RankingType, next, remaining, R

\* The states of a ranking exist.
LEMMA RankingExists ==
    ASSUME NEW items, NEW score, Scored(items, score), NEW bound \in Nat, bound <= Len(items)
    PROVE  \E f : IsRanking(f, bound, items, score)
<1>. DEFINE X == RankingType(items)
            first == Unpicked(items)
            on(s) == IF s.remaining = <<>> THEN s ELSE Pick(s, score)
            step == [x \in (1..bound) \X X |-> on(x[2])]
<1>1. first \in X /\ first.remaining = items
  <2>1. <<>> \in Seq(ToSet(items)) /\ items \in Seq(ToSet(items))
    BY DEF Scored
  <2>2. [c \in Channels(items) |-> 0] \in [Channels(items) -> Nat]
    OBVIOUS
  <2>3. first = [out |-> <<>>, remaining |-> items, picks |-> [c \in Channels(items) |-> 0]]
    BY DEF Unpicked, Channels
  <2>. HIDE DEF first
  <2>. QED  BY <2>1, <2>2, <2>3 DEF RankingType
<1>2. ASSUME NEW s \in X PROVE on(s) \in X
  BY PickType
<1>. HIDE DEF on, X, first
<1>3. step \in [(1..bound) \X X -> X]
  BY <1>2
<1>. HIDE DEF step
<1>4. PICK g : HasSteps(g, bound, X, first, step)
  BY <1>1, <1>3, StepsExist
<1>5. g \in [0..bound -> X] /\ \A n \in 0..bound : g[n] = Stepped(g, first, step, n)
  BY <1>4 DEF HasSteps
<1>6. ASSUME NEW n \in 0..bound, n # 0 PROVE g[n] = on(g[n - 1])
  <2>1. n \in 1..bound /\ n - 1 \in 0..bound
    BY <1>6
  <2>2. g[n - 1] \in X
    BY <1>5, <2>1
  <2>3. step[<<n, g[n - 1]>>] = on(g[n - 1])
    BY <2>1, <2>2 DEF step
  <2>. QED  BY <1>5, <1>6, <2>3 DEF Stepped
<1>7. g[0] = first
  <2>1. 0 \in 0..bound
    OBVIOUS
  <2>. QED  BY <1>5, <2>1 DEF Stepped
<1>. DEFINE Left == {n \in 0..bound : Len(g[n].remaining) = Len(items) - n}
<1>8. Len(items) \in Nat
  BY DEF Scored
<1>9. ASSUME NEW n \in 0..(bound - 1), n \in Left
      PROVE  n + 1 \in Left /\ g[n + 1] = Pick(g[n], score)
  <2>1. n + 1 \in 0..bound /\ n + 1 # 0 /\ (n + 1) - 1 = n /\ n \in 0..bound /\ g[n] \in X
    BY <1>5
  <2>2. g[n].remaining # <<>>
    BY <1>8, <1>9
  <2>3. g[n + 1] = Pick(g[n], score)
    BY <1>6, <2>1, <2>2 DEF on
  <2>4. Len(Pick(g[n], score).remaining) = Len(g[n].remaining) - 1
    BY <2>1, <2>2, PickType DEF X
  <2>5. Len(g[n + 1].remaining) = Len(items) - (n + 1)
    <3>. DEFINE a == Len(g[n].remaining)
                b == Len(g[n + 1].remaining)
                c == Len(items)
    <3>1. b = a - 1
      BY <2>3, <2>4
    <3>2. a = c - n
      BY <1>9
    <3>3. c \in Nat /\ n \in Nat
      BY <1>8
    <3>. HIDE DEF a, b, c
    <3>4. b = c - (n + 1)
      BY <3>1, <3>2, <3>3
    <3>. QED  BY <3>4 DEF b, c
  <2>. QED  BY <2>1, <2>3, <2>5
<1>10. 0..bound \subseteq Left
  <2>1. 0 \in Left
    BY <1>1, <1>7, <1>8
  <2>. HIDE DEF Left
  <2>. QED  BY <1>9, <2>1, StepByStep
<1>11. ASSUME NEW n \in 0..bound, n # 0 PROVE g[n] = Pick(g[n - 1], score)
  <2>1. n - 1 \in 0..(bound - 1) /\ n - 1 \in 0..bound /\ (n - 1) + 1 = n
    BY <1>11
  <2>2. n - 1 \in Left
    BY <1>10, <2>1
  <2>. QED  BY <1>9, <2>1, <2>2
<1>12. g = [n \in 0..bound |-> IF n = 0 THEN first ELSE Pick(g[n - 1], score)]
  <2>1. g = [n \in 0..bound |-> g[n]]
    BY <1>5
  <2>2. \A n \in 0..bound : g[n] = IF n = 0 THEN first ELSE Pick(g[n - 1], score)
    BY <1>7, <1>11
  <2>. QED  BY <2>1, <2>2
<1>13. IsRanking(g, bound, items, score)
  BY <1>12 DEF IsRanking, first
<1>. QED  BY <1>13

\* The ranking has rows of the items, once each, the heaviest first.
LEMMA RankedWithDiversity ==
    ASSUME NEW items, NEW score, Scored(items, score), NEW limit \in Nat
    PROVE  LET out == RankWithDiversity(items, limit, score) IN
           /\ out \in Seq(ToSet(items)) /\ Len(out) = Least(limit, Len(items))
           /\ IsInjective(items) => IsInjective(out)
           /\ IsGreedy(out, {}, score)
<1>. DEFINE bound == Least(limit, Len(items))
            f == Picks(items, limit, score)
<1>1. Len(items) \in Nat /\ bound \in Nat /\ bound <= Len(items)
  BY DEF Scored, Least
<1>2. IsRanking(f, bound, items, score)
  <2>. HIDE DEF bound
  <2>1. \E g : IsRanking(g, bound, items, score)
    BY <1>1, RankingExists
  <2>. QED  BY <2>1 DEF Picks, IsRanking, bound
<1>. HIDE DEF bound, f
<1>. DEFINE Good == {n \in 0..bound : AfterPicks(f[n], n, items, score)}
<1>3. 0 \in Good
  <2>1. f[0] = Unpicked(items) /\ 0 \in 0..bound
    BY <1>1, <1>2 DEF IsRanking
  <2>. QED  BY <2>1, NothingPicked
<1>4. ASSUME NEW n \in 0..(bound - 1), n \in Good PROVE n + 1 \in Good
  <2>1. n + 1 \in 0..bound /\ n + 1 # 0 /\ (n + 1) - 1 = n /\ n \in Nat /\ n < Len(items)
    BY <1>1
  <2>2. f[n + 1] = Pick(f[n], score)
    BY <1>2, <2>1 DEF IsRanking
  <2>3. AfterPicks(Pick(f[n], score), n + 1, items, score)
    BY <1>4, <2>1, PickKeeps
  <2>. QED  BY <2>1, <2>2, <2>3
<1>5. 0..bound \subseteq Good
  <2>. HIDE DEF Good
  <2>. QED  BY <1>1, <1>3, <1>4, StepByStep
<1>6. AfterPicks(f[bound], bound, items, score)
  <2>1. bound \in 0..bound
    BY <1>1
  <2>. QED  BY <1>5, <2>1
<1>7. RankWithDiversity(items, limit, score) = f[bound].out
  BY DEF RankWithDiversity, f, bound
<1>. QED  BY <1>6, <1>7 DEF AfterPicks, IsOnce, IsGreedy, bound

-------------------------------------------------------------------------------
(* The score of a video is an integer. *)

\* The image of a finite set is finite.
LEMMA ImageFinite ==
    ASSUME NEW S, IsFiniteSet(S), NEW f
    PROVE  IsFiniteSet({f[x] : x \in S})
<1>. DEFINE T == {f[x] : x \in S}
            g == [x \in S |-> f[x]]
<1>1. g \in Surjection(S, T)
  BY DEF Surjection
<1>. HIDE DEF T, g
<1>2. IsFiniteSet(T)
  BY <1>1, FS_Surjection
<1>. QED  BY <1>2 DEF T

\* Division keeps integers.
LEMMA QuotientIsInteger ==
    ASSUME NEW a \in Int, NEW d \in Nat \ {0}
    PROVE  a \div d \in Int
OBVIOUS

\* What a Home is made from.
IsHomeDb(db) ==
    /\ AreVideos(db.videos) /\ IsInjective(db.videos) /\ AreRows(db.progress)
    /\ db.topics \in Seq(ToSet(db.topics))
    /\ \A n \in DOMAIN db.topics : IsFiniteSet(db.topics[n].words) /\ db.topics[n].score \in Int

\* The fraction watched is an integer.
LEMMA FractionIsInteger ==
    ASSUME NEW p, {p.position, p.duration, p.updated} \subseteq Nat
    PROVE  Fraction(p) \in Int
<1>1. CASE p.duration <= 0
  BY <1>1 DEF Fraction
<1>2. CASE ~(p.duration <= 0)
  <2>1. 1000 * p.position \in Int /\ p.duration \in Nat \ {0}
    BY <1>2
  <2>2. (1000 * p.position) \div p.duration \in Int
    BY <2>1, QuotientIsInteger
  <2>. QED  BY <1>2, <2>2 DEF Fraction, Least
<1>. QED  BY <1>1, <1>2

\* The overlap of a topic with a text is an integer.
LEMMA OverlapIsInteger ==
    ASSUME NEW topic, IsFiniteSet(topic), NEW words
    PROVE  Overlap(topic, words) \in Int
<1>1. CASE topic = {}
  BY <1>1 DEF Overlap
<1>2. CASE topic # {}
  <2>1. Cardinality(topic) \in Nat \ {0}
    BY <1>2, FS_CardinalityType, FS_EmptySet
  <2>2. Cardinality(topic \cap words) \in Nat
    <3>1. IsFiniteSet(topic \cap words)
      BY FS_Subset
    <3>. QED  BY <3>1, FS_CardinalityType
  <2>3. (1000 * Cardinality(topic \cap words)) \div Cardinality(topic) \in Int
    <3>1. 1000 * Cardinality(topic \cap words) \in Int
      BY <2>2
    <3>. QED  BY <2>1, <3>1, QuotientIsInteger
  <2>. QED  BY <1>2, <2>3 DEF Overlap
<1>. QED  BY <1>1, <1>2

\* The topics of a profile are topics of the database.
LEMMA TopicsOfProfile ==
    ASSUME NEW db, IsHomeDb(db)
    PROVE  /\ InterestTopics(db) \in Seq(ToSet(db.topics))
           /\ \A n \in DOMAIN InterestTopics(db) : IsFiniteSet(InterestTopics(db)[n].words)
<1>. DEFINE rows == db.topics
            S == ToSet(rows)
            chosen == {n \in DOMAIN rows : rows[n].score > 0}
            f == Selected(rows, chosen, Unordered(rows))
            key == [n \in DOMAIN f |-> 0 - f[n].score]
<1>1. rows \in Seq(S) /\ chosen \subseteq DOMAIN rows
      /\ \A t \in S : IsFiniteSet(t.words) /\ t.score \in Int
  BY DEF IsHomeDb, ToSet
<1>2. InterestTopics(db) = Selected(f, DOMAIN f, key)
  BY DEF InterestTopics, SortedBy, Where, Unordered
<1>. HIDE DEF S, chosen, rows
<1>3. Keyed(chosen, Unordered(rows))
  BY <1>1, KeepsOrder
<1>4. IsSelection(f, rows, chosen, Unordered(rows))
  BY <1>1, <1>3, SelectedRows
<1>5. DOMAIN f = 1..Cardinality(chosen) /\ \A n \in DOMAIN f : f[n] \in S
  BY <1>1, <1>4 DEF IsSelection
<1>. HIDE DEF f
<1>6. \A n \in 1..Cardinality(chosen) : key[n] \in Int
  BY <1>1, <1>5
<1>. HIDE DEF key
<1>7. Selected(f, DOMAIN f, key) \in Seq(S)
  BY <1>1, <1>6, SelectedTwice DEF f
<1>. QED  BY <1>1, <1>2, <1>7 DEF S, rows

\* The affinity to the best topic is an integer.
LEMMA TopicAffinityIsInteger ==
    ASSUME NEW db, IsHomeDb(db), NEW profile, profile.topics = InterestTopics(db), NEW v
    PROVE  TopicAffinity(profile, v) \in Int
<1>. DEFINE T == profile.topics
            f == [n \in DOMAIN T |-> Overlap(T[n].words, v.words)]
            S == {f[n] : n \in DOMAIN T}
<1>1. DOMAIN T = 1..Len(T) /\ Len(T) \in Nat /\ \A n \in DOMAIN T : IsFiniteSet(T[n].words)
  BY TopicsOfProfile
<1>2. \A n \in DOMAIN T : f[n] \in Int
  BY <1>1, OverlapIsInteger
<1>3. {Overlap(T[n].words, v.words) : n \in DOMAIN T} = S
  OBVIOUS
<1>4. IsFiniteSet(DOMAIN T)
  BY <1>1, FirstPlaces
<1>. HIDE DEF T, f
<1>5. IsFiniteSet(S) /\ S \subseteq Int
  BY <1>2, <1>4, ImageFinite
<1>. HIDE DEF S
<1>6. Greatest(S) \in Int
  BY <1>5, GreatestOf
<1>. QED  BY <1>3, <1>6 DEF TopicAffinity, T

IsSum(f, bound, term) == f = [n \in 0..bound |-> IF n = 0 THEN 0 ELSE f[n - 1] + term[n]]

\* A finite sum of integers exists and is an integer.
LEMMA SumIsInteger ==
    ASSUME NEW bound \in Nat, NEW term, \A n \in 1..bound : term[n] \in Int
    PROVE  /\ \E f : IsSum(f, bound, term)
           /\ \A f : IsSum(f, bound, term) => f[bound] \in Int
<1>. DEFINE step == [x \in (1..bound) \X Int |-> x[2] + term[x[1]]]
<1>1. step \in [(1..bound) \X Int -> Int]
  OBVIOUS
<1>2. \A n \in 1..bound, i \in Int : step[<<n, i>>] = i + term[n]
  OBVIOUS
<1>. HIDE DEF step
<1>3. PICK g : HasSteps(g, bound, Int, 0, step)
  <2>1. 0 \in Int
    OBVIOUS
  <2>. QED  BY <1>1, <2>1, StepsExist
<1>4. g \in [0..bound -> Int] /\ \A n \in 0..bound : g[n] = Stepped(g, 0, step, n)
  BY <1>3 DEF HasSteps
<1>5. ASSUME NEW n \in 0..bound PROVE g[n] = IF n = 0 THEN 0 ELSE g[n - 1] + term[n]
  <2>1. CASE n = 0
    BY <1>4, <2>1 DEF Stepped
  <2>2. CASE n # 0
    <3>1. n \in 1..bound /\ n - 1 \in 0..bound
      BY <2>2
    <3>2. g[n - 1] \in Int
      BY <1>4, <3>1
    <3>. QED  BY <1>2, <1>4, <2>2, <3>1, <3>2 DEF Stepped
  <2>. QED  BY <2>1, <2>2
<1>6. IsSum(g, bound, term)
  <2>1. g = [n \in 0..bound |-> g[n]]
    BY <1>4
  <2>. QED  BY <1>5, <2>1 DEF IsSum
<1>7. ASSUME NEW f, IsSum(f, bound, term) PROVE f[bound] \in Int
  <2>. DEFINE S == {n \in 0..bound : f[n] \in Int}
  <2>1. \A n \in 0..bound : f[n] = IF n = 0 THEN 0 ELSE f[n - 1] + term[n]
    BY <1>7 DEF IsSum
  <2>2. 0 \in S
    BY <2>1
  <2>3. ASSUME NEW n \in 0..(bound - 1), n \in S PROVE n + 1 \in S
    <3>1. n + 1 \in 0..bound /\ n + 1 # 0 /\ (n + 1) - 1 = n /\ n + 1 \in 1..bound
      OBVIOUS
    <3>2. f[n + 1] = f[n] + term[n + 1]
      BY <2>1, <3>1
    <3>. QED  BY <2>3, <3>1, <3>2
  <2>. HIDE DEF S
  <2>4. 0..bound \subseteq S
    BY <2>2, <2>3, StepByStep
  <2>5. bound \in 0..bound
    OBVIOUS
  <2>. QED  BY <2>4, <2>5 DEF S
<1>. QED  BY <1>6, <1>7

\* The volume watched of a channel is an integer.
LEMMA VolumeIsInteger ==
    ASSUME NEW db, IsHomeDb(db), NEW c
    PROVE  Volume(db, Played(db, c)) \in Int
<1>. DEFINE V == db.videos
            played == Played(db, c)
            bound == Len(V)
            term == [n \in 1..bound |-> IF V[n] \in played THEN Fraction(db.progress[V[n].id]) ELSE 0]
            f == CHOOSE g : g = [n \in 0..bound |-> IF n = 0 THEN 0
                        ELSE g[n - 1] + IF V[n] \in played THEN Fraction(db.progress[V[n].id]) ELSE 0]
<1>1. bound \in Nat
  BY DEF IsHomeDb, AreVideos
<1>2. \A v \in played : v.id \in DOMAIN db.progress
  BY DEF Played
<1>3. ASSUME NEW n \in 1..bound PROVE term[n] \in Int
  <2>1. CASE V[n] \in played
    <3>1. {db.progress[V[n].id].position, db.progress[V[n].id].duration, db.progress[V[n].id].updated} \subseteq Nat
      BY <1>2, <2>1 DEF IsHomeDb, AreRows
    <3>2. Fraction(db.progress[V[n].id]) \in Int
      BY <3>1, FractionIsInteger
    <3>. QED  BY <2>1, <3>2
  <2>. QED  BY <2>1
<1>4. \A n \in 1..bound : term[n] = IF V[n] \in played THEN Fraction(db.progress[V[n].id]) ELSE 0
  OBVIOUS
<1>. HIDE DEF played, bound, term
<1>5. ASSUME NEW g
      PROVE  IsSum(g, bound, term) <=>
                 g = [n \in 0..bound |-> IF n = 0 THEN 0
                        ELSE g[n - 1] + IF V[n] \in played THEN Fraction(db.progress[V[n].id]) ELSE 0]
  <2>1. \A n \in 0..bound : n # 0 => n \in 1..bound
    BY <1>1
  <2>2. [n \in 0..bound |-> IF n = 0 THEN 0 ELSE g[n - 1] + term[n]]
          = [n \in 0..bound |-> IF n = 0 THEN 0
                        ELSE g[n - 1] + IF V[n] \in played THEN Fraction(db.progress[V[n].id]) ELSE 0]
    BY <1>4, <2>1
  <2>. QED  BY <2>2 DEF IsSum
<1>6. \E g : IsSum(g, bound, term)
  BY <1>1, <1>3, SumIsInteger
<1>7. IsSum(f, bound, term)
  <2>1. \E g : g = [n \in 0..bound |-> IF n = 0 THEN 0
                        ELSE g[n - 1] + IF V[n] \in played THEN Fraction(db.progress[V[n].id]) ELSE 0]
    BY <1>5, <1>6
  <2>2. f = [n \in 0..bound |-> IF n = 0 THEN 0
                        ELSE f[n - 1] + IF V[n] \in played THEN Fraction(db.progress[V[n].id]) ELSE 0]
    BY <2>1
  <2>. QED  BY <1>5, <2>2
<1>8. Volume(db, Played(db, c)) = f[bound]
  BY DEF Volume, played, bound
<1>. HIDE DEF f
<1>. QED  BY <1>1, <1>3, <1>7, <1>8, SumIsInteger

\* It stays one while it fades.
LEMMA FadedIsInteger ==
    ASSUME NEW watched \in Int, NEW last \in Int
    PROVE  Faded(watched, last) \in Int
<1>. DEFINE days == Now - last
            left == IF days < 74 THEN 74 - days ELSE 0
<1>1. left \in Int
  BY NowAssumption
<1>. HIDE DEF left
<1>2. watched * left \in Int
  BY <1>1
<1>3. (watched * left) \div 60 \in Int
  BY <1>2, QuotientIsInteger
<1>. QED  BY <1>3 DEF Faded, left

\* The affinity of a channel is an integer.
LEMMA AffinityIsInteger ==
    ASSUME NEW db, IsHomeDb(db), NEW c
    PROVE  Affinity(db, c) \in Int
<1>. DEFINE played == Played(db, c)
            done == {v \in played : Completed(db.progress[v.id])}
            completed == Cardinality(done)
            floor == (IF c \in db.subscribed THEN 500 ELSE 0) + (IF c \in db.stars THEN 300 ELSE 0)
            volume == Volume(db, played)
            watched == (200 * Least(volume, 5000)) \div 5000 + (100 * Least(completed, 3)) \div 3
            updated == [v \in played |-> db.progress[v.id].updated]
            last == Greatest({updated[v] : v \in played})
<1>1. IsFiniteSet(played)
  <2>. DEFINE V == db.videos
              all == {V[n] : n \in DOMAIN V}
  <2>1. DOMAIN V = 1..Len(V) /\ Len(V) \in Nat
    BY DEF IsHomeDb, AreVideos
  <2>2. IsFiniteSet(DOMAIN V)
    BY <2>1, FirstPlaces
  <2>3. IsFiniteSet(all)
    BY <2>2, ImageFinite
  <2>4. played \subseteq all
    BY DEF Played
  <2>. HIDE DEF all, played
  <2>. QED  BY <2>3, <2>4, FS_Subset
<1>2. \A v \in played : updated[v] \in Int
  BY DEF Played, IsHomeDb, AreRows
<1>3. volume \in Int
  BY VolumeIsInteger
<1>4. {db.progress[v.id].updated : v \in played} = {updated[v] : v \in played}
  OBVIOUS
<1>. HIDE DEF played, updated, volume
<1>5. completed \in Int
  <2>1. done \subseteq played
    OBVIOUS
  <2>. HIDE DEF done
  <2>2. IsFiniteSet(done)
    BY <1>1, <2>1, FS_Subset
  <2>. QED  BY <2>2, FS_CardinalityType
<1>6. last \in Int
  <2>. DEFINE S == {updated[v] : v \in played}
  <2>1. IsFiniteSet(S) /\ S \subseteq Int
    BY <1>1, <1>2, ImageFinite
  <2>. HIDE DEF S
  <2>2. Greatest(S) \in Int
    BY <2>1, GreatestOf
  <2>. QED  BY <2>2 DEF S
<1>. HIDE DEF completed
<1>7. watched \in Int
  BY <1>3, <1>5 DEF Least
<1>8. floor \in Int
  OBVIOUS
<1>9. Affinity(db, c) = Least(floor + Faded(watched, last), 1000)
  <2>. DEFINE latest == Greatest({db.progress[v.id].updated : v \in played})
  <2>1. Affinity(db, c) = Least(floor + Faded(watched, latest), 1000)
    BY Zenon DEF Affinity, played, volume, completed
  <2>2. latest = last
    BY <1>4
  <2>. HIDE DEF latest, last
  <2>. QED  BY <2>1, <2>2
<1>. HIDE DEF floor, watched, last
<1>10. Faded(watched, last) \in Int
  BY <1>6, <1>7, FadedIsInteger
<1>. QED  BY <1>8, <1>9, <1>10 DEF Least

\* The parts of a profile that the Home looks at.
LEMMA ProfileFields ==
    ASSUME NEW db
    PROVE  /\ BuildProfile(db).topics = InterestTopics(db)
           /\ BuildProfile(db).affinity = [c \in DOMAIN db.titles |-> Affinity(db, c)]
           /\ BuildProfile(db).progress = db.progress
           /\ BuildProfile(db).excluded = FeedbackExclusions(db)
BY DEF BuildProfile

\* The score of a video is an integer.
LEMMA ScoreOfVideo ==
    ASSUME NEW db, IsHomeDb(db), NEW v, IsVideo(v)
    PROVE  Score(BuildProfile(db), v) \in Int
<1>. DEFINE profile == BuildProfile(db)
            p == db.progress[v.id]
<1>1. /\ profile.topics = InterestTopics(db)
      /\ profile.affinity = [c \in DOMAIN db.titles |-> Affinity(db, c)]
      /\ profile.progress = db.progress
  BY ProfileFields
<1>2. v.id \in DOMAIN db.progress => {p.position, p.duration, p.updated} \subseteq Nat
  BY DEF IsHomeDb, AreRows
<1>. HIDE DEF profile
<1>3. TopicAffinity(profile, v) \in Int
  BY <1>1, TopicAffinityIsInteger
<1>4. ChannelAffinity(profile, v) \in Int
  <2>1. CASE v.channel \in DOMAIN db.titles
    <3>1. Affinity(db, v.channel) \in Int
      BY AffinityIsInteger
    <3>2. profile.affinity[v.channel] = Affinity(db, v.channel)
      BY <1>1, <2>1
    <3>. QED  BY <1>1, <2>1, <3>1, <3>2 DEF ChannelAffinity
  <2>2. CASE v.channel \notin DOMAIN db.titles
    BY <1>1, <2>2 DEF ChannelAffinity
  <2>. QED  BY <2>1, <2>2
<1>5. Freshness(v) \in Int
  <2>. DEFINE days == IF Now > v.published THEN Now - v.published ELSE 0
  <2>1. days \in Int
    BY NowAssumption DEF IsVideo
  <2>2. Freshness(v) = IF v.published = 0 \/ days > 90 THEN 0 ELSE 1000 - (1000 * days) \div 90
    BY DEF Freshness
  <2>. HIDE DEF days
  <2>. QED  BY <2>1, <2>2
<1>6. Watched(profile, v) \in Int
  <2>1. CASE v.id \in DOMAIN db.progress
    <3>1. Fraction(p) \in Int
      BY <1>2, <2>1, FractionIsInteger
    <3>. QED  BY <1>1, <2>1, <3>1 DEF Watched
  <2>2. CASE v.id \notin DOMAIN db.progress
    BY <1>1, <2>2 DEF Watched
  <2>. QED  BY <2>1, <2>2
<1>7. Novelty(profile, v) \in Int
  <2>1. CASE v.id \notin DOMAIN db.progress
    BY <1>1, <2>1 DEF Novelty
  <2>2. CASE v.id \in DOMAIN db.progress /\ p.updated = 0
    BY <1>1, <2>2 DEF Novelty
  <2>3. CASE v.id \in DOMAIN db.progress /\ p.updated # 0
    <3>. DEFINE days == Now - p.updated
                points == IF days >= 30 THEN 900 ELSE IF days >= 7 THEN 500 ELSE 200
    <3>1. points \in Int
      OBVIOUS
    <3>2. Novelty(profile, v) = points
      BY <1>1, <2>3 DEF Novelty
    <3>. QED  BY <3>1, <3>2
  <2>. QED  BY <2>1, <2>2, <2>3
<1>. DEFINE a == TopicAffinity(profile, v)
            b == ChannelAffinity(profile, v)
            c == Freshness(v)
            d == Watched(profile, v)
            e == Novelty(profile, v)
<1>8. Score(profile, v) = 30 * a + 30 * b + 15 * c + 10 * d + 10 * e
  BY DEF Score
<1>9. a \in Int /\ b \in Int /\ c \in Int /\ d \in Int /\ e \in Int
  BY <1>3, <1>4, <1>5, <1>6, <1>7
<1>. HIDE DEF a, b, c, d, e
<1>. QED  BY <1>8, <1>9 DEF profile

-------------------------------------------------------------------------------
(* The sections. *)

\* Some of the rows, each once.
IsPart(list, S) == list \in Seq(ToSet(list)) /\ IsInjective(list) /\ ToSet(list) \subseteq S

\* WHERE gives a part of a list: some of its rows, each once.
LEMMA FilteredPart ==
    ASSUME NEW rows, NEW S, IsPart(rows, S), NEW chosen, chosen \subseteq DOMAIN rows
    PROVE  LET f == Selected(rows, chosen, Unordered(rows)) IN
           IsPart(f, S) /\ ToSet(f) = {rows[i] : i \in chosen}
<1>. DEFINE f == Selected(rows, chosen, Unordered(rows))
<1>1. rows \in Seq(ToSet(rows)) /\ IsInjective(rows) /\ ToSet(rows) \subseteq S
  BY DEF IsPart
<1>2. Keyed(chosen, Unordered(rows))
  BY <1>1, KeepsOrder
<1>3. IsSelection(f, rows, chosen, Unordered(rows))
  BY <1>2, SelectedRows
<1>4. Distinct(rows, chosen)
  BY <1>1 DEF Distinct, IsInjective
<1>5. ToSet(f) = {rows[i] : i \in chosen} /\ f \in Seq(ToSet(f)) /\ IsInjective(f)
  BY <1>3, <1>4 DEF IsSelection
<1>6. {rows[i] : i \in chosen} \subseteq S
  BY <1>1 DEF ToSet
<1>. QED  BY <1>5, <1>6 DEF IsPart

\* ORDER BY gives all of its rows, each once.
LEMMA OrderedPart ==
    ASSUME NEW rows, NEW S, IsPart(rows, S), NEW key, \A n \in DOMAIN rows : key[n] \in Int
    PROVE  LET f == Selected(rows, DOMAIN rows, key) IN IsPart(f, S) /\ ToSet(f) = ToSet(rows)
<1>. DEFINE f == Selected(rows, DOMAIN rows, key)
<1>1. rows \in Seq(ToSet(rows)) /\ IsInjective(rows) /\ ToSet(rows) \subseteq S
  BY DEF IsPart
<1>2. Keyed(DOMAIN rows, key)
  <2>1. DOMAIN rows = 1..Len(rows) /\ Len(rows) \in Nat
    BY <1>1
  <2>2. IsFiniteSet(DOMAIN rows) /\ DOMAIN rows \subseteq Int
    BY <2>1, FirstPlaces
  <2>. QED  BY <2>2 DEF Keyed
<1>3. IsSelection(f, rows, DOMAIN rows, key)
  BY <1>2, SelectedRows
<1>4. Distinct(rows, DOMAIN rows)
  BY <1>1 DEF Distinct, IsInjective
<1>5. ToSet(f) = {rows[i] : i \in DOMAIN rows} /\ f \in Seq(ToSet(f)) /\ IsInjective(f)
  BY <1>3, <1>4 DEF IsSelection
<1>6. {rows[i] : i \in DOMAIN rows} = ToSet(rows)
  BY DEF ToSet
<1>. QED  BY <1>1, <1>5, <1>6 DEF IsPart

\* LIMIT gives some of its rows, each once.
LEMMA WindowPart ==
    ASSUME NEW rows, NEW S, IsPart(rows, S), NEW limit \in Nat
    PROVE  IsPart(Window(rows, limit, 0), S) /\ ToSet(Window(rows, limit, 0)) \subseteq ToSet(rows)
<1>. DEFINE w == Window(rows, limit, 0)
<1>1. rows \in Seq(ToSet(rows)) /\ IsInjective(rows) /\ ToSet(rows) \subseteq S /\ 0 \in Nat
  BY DEF IsPart
<1>2. w \in Seq(ToSet(rows)) /\ IsInjective(w) /\ ToSet(w) \subseteq ToSet(rows)
  <2>1. ASSUME NEW offset \in Nat
        PROVE  /\ Window(rows, limit, offset) \in Seq(ToSet(rows)) /\ IsInjective(Window(rows, limit, offset))
               /\ ToSet(Window(rows, limit, offset)) \subseteq ToSet(rows)
    BY <1>1, Windows
  <2>. QED  BY <1>1, <2>1
<1>. HIDE DEF w
<1>3. w \in Seq(ToSet(w))
  <2>1. Len(w) \in Nat /\ DOMAIN w = 1..Len(w) /\ w = [n \in 1..Len(w) |-> w[n]]
    BY <1>2
  <2>2. \A n \in 1..Len(w) : w[n] \in ToSet(w)
    BY <2>1 DEF ToSet
  <2>. HIDE DEF ToSet
  <2>. QED  BY <2>1, <2>2
<1>. QED  BY <1>1, <1>2, <1>3 DEF IsPart, w

\* The scores of these videos.
ScoresOf(S, score) == \A v \in S : score[v.id] \in Int

\* The ranking gives some of its rows, each once, by the greedy rule.
LEMMA DiversePart ==
    ASSUME NEW rows, NEW S, IsPart(rows, S), NEW score, ScoresOf(S, score), NEW limit \in Nat
    PROVE  LET out == RankWithDiversity(rows, limit, score) IN
           IsPart(out, S) /\ ToSet(out) \subseteq ToSet(rows) /\ IsGreedy(out, {}, score)
<1>. DEFINE out == RankWithDiversity(rows, limit, score)
<1>1. rows \in Seq(ToSet(rows)) /\ IsInjective(rows) /\ ToSet(rows) \subseteq S
  BY DEF IsPart
<1>2. Scored(rows, score)
  <2>1. \A n \in DOMAIN rows : rows[n] \in S
    BY <1>1 DEF ToSet
  <2>. QED  BY <1>1, <2>1 DEF Scored, ScoresOf
<1>3. out \in Seq(ToSet(rows)) /\ IsInjective(out) /\ IsGreedy(out, {}, score)
  BY <1>1, <1>2, RankedWithDiversity
<1>. HIDE DEF out
<1>4. ToSet(out) \subseteq ToSet(rows)
  <2>1. \A n \in DOMAIN out : out[n] \in ToSet(rows)
    BY <1>3
  <2>. QED  BY <2>1 DEF ToSet
<1>5. out \in Seq(ToSet(out))
  <2>1. Len(out) \in Nat /\ DOMAIN out = 1..Len(out) /\ out = [n \in 1..Len(out) |-> out[n]]
    BY <1>3
  <2>2. \A n \in 1..Len(out) : out[n] \in ToSet(out)
    BY <2>1 DEF ToSet
  <2>. HIDE DEF ToSet
  <2>. QED  BY <2>1, <2>2
<1>. QED  BY <1>1, <1>3, <1>4, <1>5 DEF IsPart, out

\* The best of the rows that are chosen.
LEMMA BestPart ==
    ASSUME NEW rows, NEW S, IsPart(rows, S), NEW score, ScoresOf(S, score), NEW limit \in Nat
    PROVE  IsPart(BestFirst(rows, score, limit), S) /\ ToSet(BestFirst(rows, score, limit)) \subseteq ToSet(rows)
<1>. DEFINE key == [n \in DOMAIN rows |-> 0 - score[rows[n].id]]
            sorted == Selected(rows, DOMAIN rows, key)
<1>1. BestFirst(rows, score, limit) = Window(sorted, limit, 0)
  BY DEF BestFirst, SortedBy
<1>2. \A n \in DOMAIN rows : key[n] \in Int
  <2>1. \A n \in DOMAIN rows : rows[n] \in S
    BY DEF IsPart, ToSet
  <2>. QED  BY <2>1 DEF ScoresOf
<1>. HIDE DEF key
<1>3. IsPart(sorted, S) /\ ToSet(sorted) = ToSet(rows)
  BY <1>2, OrderedPart
<1>. HIDE DEF sorted
<1>4. IsPart(Window(sorted, limit, 0), S) /\ ToSet(Window(sorted, limit, 0)) \subseteq ToSet(sorted)
  BY <1>3, WindowPart
<1>. QED  BY <1>1, <1>3, <1>4

\* The recent videos are of the catalogue, each once.
RecentVideos(db) == Recent(db, [channel |-> 0, subscribed |-> FALSE, limit |-> MaxRecent, offset |-> 0])

\* The recent videos are a part of those of the database.
LEMMA RecentPart ==
    ASSUME NEW db, IsHomeDb(db)
    PROVE  IsPart(RecentVideos(db), ToSet(db.videos))
<1>. DEFINE V == db.videos
            S == ToSet(V)
            chosen == DOMAIN V
            f == Selected(V, chosen, Unordered(V))
            key == [n \in DOMAIN f |-> Newest(f[n])]
            sorted == Selected(f, DOMAIN f, key)
            filter == [channel |-> 0, subscribed |-> FALSE, limit |-> MaxRecent, offset |-> 0]
<1>1. filter.channel = 0 /\ filter.subscribed = FALSE /\ filter.limit = MaxRecent /\ filter.offset = 0
  OBVIOUS
<1>. HIDE DEF filter
<1>2. MaxRecent \in Nat \ {0}
  BY SizeAssumption
<1>3. IsPart(V, S) /\ \A v \in S : IsVideo(v)
  BY DEF IsHomeDb, AreVideos, IsPart, ToSet
<1>4. Where(V, LAMBDA v : /\ filter.channel \in {0, v.channel}
                          /\ filter.subscribed => Subscribed(db, v)) = f
  <2>1. {n \in DOMAIN V : /\ filter.channel \in {0, V[n].channel}
                          /\ filter.subscribed => Subscribed(db, V[n])} = chosen
    BY <1>1
  <2>. HIDE DEF chosen
  <2>2. Selected(V, {n \in DOMAIN V : /\ filter.channel \in {0, V[n].channel}
                                      /\ filter.subscribed => Subscribed(db, V[n])}, Unordered(V)) = f
    BY <2>1
  <2>. HIDE DEF f
  <2>. QED  BY <2>2 DEF Where, Unordered
<1>5. RecentVideos(db) = Window(sorted, MaxRecent, 0)
  <2>. DEFINE selected(v) == /\ filter.channel \in {0, v.channel}
                             /\ filter.subscribed => Subscribed(db, v)
              limit == CASE filter.limit <= 0 -> DefaultRecent
                         [] filter.limit > MaxRecent -> MaxRecent
                         [] OTHER -> filter.limit
              offset == IF filter.offset < 0 THEN 0 ELSE filter.offset
  <2>1. limit = MaxRecent /\ offset = 0
    BY <1>1, <1>2
  <2>2. Recent(db, filter) = Window(SortedBy(Where(V, selected), Newest), limit, offset)
    BY DEF Recent
  <2>. HIDE DEF limit, offset, f
  <2>3. SortedBy(f, Newest) = Selected(f, DOMAIN f, key)
    BY DEF SortedBy
  <2>4. Where(V, selected) = f
    BY <1>4
  <2>. HIDE DEF key, selected
  <2>. QED  BY <2>4, <2>3, <2>2, <2>1 DEF RecentVideos, filter
<1>6. IsPart(f, S)
  <2>1. chosen \subseteq DOMAIN V
    OBVIOUS
  <2>. HIDE DEF chosen, S
  <2>. QED  BY <1>3, <2>1, FilteredPart
<1>. HIDE DEF f
<1>7. \A n \in DOMAIN f : key[n] \in Int
  <2>1. \A n \in DOMAIN f : f[n] \in S
    BY <1>6 DEF IsPart, ToSet
  <2>. HIDE DEF S
  <2>. QED  BY <1>3, <2>1 DEF IsVideo, Newest
<1>. HIDE DEF key, S
<1>8. IsPart(sorted, S)
  BY <1>6, <1>7, OrderedPart
<1>. HIDE DEF sorted
<1>. QED  BY <1>2, <1>5, <1>8, WindowPart DEF S

HomeItems(db) == Candidates(BuildProfile(db), RecentVideos(db))

ScoreById(profile, items) ==
    [id \in {items[n].id : n \in DOMAIN items} |->
        Score(profile, CHOOSE v \in {items[n] : n \in DOMAIN items} : v.id = id)]

HomeScore(db) == ScoreById(BuildProfile(db), HomeItems(db))

\* The sections of the Home as lists over its candidates.
LEMMA HomeFields ==
    ASSUME NEW db
    PROVE  LET home == GetHome(db).home
               profile == BuildProfile(db)
               items == HomeItems(db)
               score == HomeScore(db) IN
           /\ home.continueWatching = ContinueWatching(profile, items)
           /\ home.forYou = ForYou(profile, items, score)
           /\ home.recentSubscriptions = RecentSubscriptions(profile, items, score)
           /\ home.rediscovery = Rediscovery(profile, items, score)
           /\ home.topicSections = TopicSections(profile, items, score)
           /\ home.score = score
<1>1. GetHome(db).home = BuildHome(BuildProfile(db), RecentVideos(db))
  BY DEF GetHome, RecentVideos
<1>. QED  BY <1>1 DEF BuildHome, HomeItems, HomeScore, ScoreById

\* What the user did not reject and is no Short.
Welcome(db) ==
    {v \in ToSet(db.videos) : /\ v.id \notin FeedbackExclusions(db).videos
                              /\ v.channel \notin FeedbackExclusions(db).channels /\ ~IsShort(v)}

\* No candidate was rejected or is a Short, and each has a score.
LEMMA ItemsPart ==
    ASSUME NEW db, IsHomeDb(db)
    PROVE  IsPart(HomeItems(db), Welcome(db)) /\ ScoresOf(ToSet(HomeItems(db)), HomeScore(db))
<1>. DEFINE profile == BuildProfile(db)
            recent == RecentVideos(db)
            items == HomeItems(db)
            keep(v) == v.id \notin profile.excluded.videos /\ v.channel \notin profile.excluded.channels /\ ~IsShort(v)
            chosen == {n \in DOMAIN recent : keep(recent[n])}
            S == ToSet(db.videos)
<1>1. profile.excluded = FeedbackExclusions(db)
  BY ProfileFields
<1>2. IsPart(recent, S)
  BY RecentPart
<1>3. items = Selected(recent, chosen, Unordered(recent))
  BY DEF HomeItems, Candidates, Where, Unordered
<1>4. chosen \subseteq DOMAIN recent
  OBVIOUS
<1>5. \A n \in chosen : recent[n] \in Welcome(db)
  <2>1. \A n \in DOMAIN recent : recent[n] \in S
    BY <1>2 DEF IsPart, ToSet
  <2>. QED  BY <1>1, <2>1 DEF Welcome
<1>. HIDE DEF profile, recent, items, chosen, keep, S
<1>6. IsPart(items, S) /\ ToSet(items) = {recent[n] : n \in chosen}
  BY <1>2, <1>3, <1>4, FilteredPart
<1>7. IsPart(items, Welcome(db))
  BY <1>5, <1>6 DEF IsPart
<1>8. ASSUME NEW w \in ToSet(items) PROVE HomeScore(db)[w.id] \in Int
  <2>. DEFINE all == {items[n] : n \in DOMAIN items}
              ids == {items[n].id : n \in DOMAIN items}
              v == CHOOSE x \in all : x.id = w.id
  <2>1. w \in all /\ w.id \in ids
    BY DEF ToSet
  <2>2. v \in all
    BY <2>1
  <2>3. IsVideo(v)
    <3>1. v \in S
      BY <1>6, <2>2 DEF IsPart, ToSet
    <3>. QED  BY <3>1 DEF S, ToSet, IsHomeDb, AreVideos
  <2>4. HomeScore(db) = [id \in ids |-> Score(profile, CHOOSE x \in all : x.id = id)]
    BY DEF HomeScore, ScoreById, profile, items
  <2>5. HomeScore(db)[w.id] = Score(profile, v)
    <3>. HIDE DEF ids, all
    <3>. QED  BY <2>1, <2>4
  <2>. QED  BY <2>3, <2>5, ScoreOfVideo DEF profile
<1>. QED  BY <1>7, <1>8 DEF ScoresOf, items

\* What the user is in the middle of.
Begun(db) == {v \in ToSet(HomeItems(db)) : InProgress(BuildProfile(db), v)}

\* What can be continued was begun.
LEMMA ContinuePart ==
    ASSUME NEW db, IsHomeDb(db)
    PROVE  IsPart(ContinueWatching(BuildProfile(db), HomeItems(db)), Begun(db))
<1>. DEFINE profile == BuildProfile(db)
            items == HomeItems(db)
            chosen == {n \in DOMAIN items : InProgress(profile, items[n])}
            f == Selected(items, chosen, Unordered(items))
            key == [n \in DOMAIN f |-> 0 - profile.progress[f[n].id].updated]
            sorted == Selected(f, DOMAIN f, key)
            S == ToSet(items)
<1>1. IsPart(items, S)
  BY ItemsPart DEF IsPart
<1>2. ContinueWatching(profile, items) = Window(sorted, Limits.continue, 0)
  BY DEF ContinueWatching, SortedBy, Where, Unordered
<1>3. chosen \subseteq DOMAIN items /\ \A n \in chosen : items[n] \in Begun(db)
  BY DEF Begun, ToSet
<1>. HIDE DEF chosen, items, S
<1>4. IsPart(f, S) /\ ToSet(f) = {items[n] : n \in chosen}
  BY <1>1, <1>3, FilteredPart
<1>. HIDE DEF f
<1>5. ToSet(f) \subseteq Begun(db)
  BY <1>3, <1>4
<1>6. IsPart(f, Begun(db))
  BY <1>4, <1>5 DEF IsPart
<1>7. \A n \in DOMAIN f : key[n] \in Int
  <2>1. ASSUME NEW n \in DOMAIN f PROVE 0 - profile.progress[f[n].id].updated \in Int
    <3>1. f[n] \in Begun(db)
      BY <1>5 DEF ToSet
    <3>2. f[n].id \in DOMAIN profile.progress
      BY <3>1 DEF Begun, InProgress
    <3>3. profile.progress = db.progress
      BY ProfileFields
    <3>4. profile.progress[f[n].id].updated \in Nat
      BY <3>2, <3>3 DEF IsHomeDb, AreRows
    <3>. QED  BY <3>4
  <2>. QED  BY <2>1
<1>. HIDE DEF key
<1>8. IsPart(sorted, Begun(db))
  BY <1>6, <1>7, OrderedPart
<1>9. Limits.continue \in Nat
  BY SizeAssumption
<1>. HIDE DEF sorted
<1>. QED  BY <1>2, <1>8, <1>9, WindowPart DEF items

\* What it is not: the candidates of the recommendations.
NotBegun(db) == ToSet(HomeItems(db)) \ Begun(db)

\* What is recommended was not begun, and is ranked.
LEMMA ForYouPart ==
    ASSUME NEW db, IsHomeDb(db)
    PROVE  LET list == ForYou(BuildProfile(db), HomeItems(db), HomeScore(db)) IN
           IsPart(list, NotBegun(db)) /\ IsGreedy(list, {}, HomeScore(db))
<1>. DEFINE profile == BuildProfile(db)
            items == HomeItems(db)
            chosen == {n \in DOMAIN items : ~InProgress(profile, items[n])}
            f == Selected(items, chosen, Unordered(items))
            S == ToSet(items)
            score == HomeScore(db)
<1>1. IsPart(items, S) /\ ScoresOf(S, score)
  BY ItemsPart DEF IsPart
<1>2. ForYou(profile, items, score) = RankWithDiversity(f, Limits.forYou, score)
  BY DEF ForYou, Where, Unordered
<1>3. chosen \subseteq DOMAIN items /\ \A n \in chosen : items[n] \in NotBegun(db)
  BY DEF Begun, NotBegun, ToSet
<1>. HIDE DEF chosen, items, S
<1>4. IsPart(f, S) /\ ToSet(f) = {items[n] : n \in chosen}
  BY <1>1, <1>3, FilteredPart
<1>. HIDE DEF f
<1>5. IsPart(f, NotBegun(db)) /\ ScoresOf(NotBegun(db), score)
  BY <1>1, <1>3, <1>4 DEF IsPart, ScoresOf, NotBegun, S, items
<1>6. Limits.forYou \in Nat
  BY SizeAssumption
<1>. HIDE DEF score, profile
<1>7. LET out == RankWithDiversity(f, Limits.forYou, score) IN
      IsPart(out, NotBegun(db)) /\ IsGreedy(out, {}, score)
  BY <1>5, <1>6, DiversePart
<1>. QED  BY <1>2, <1>7 DEF profile, items, score

\* So is what a topic recommends.
LEMMA TopicParts ==
    ASSUME NEW db, IsHomeDb(db),
           NEW list \in ToSet(TopicSections(BuildProfile(db), HomeItems(db), HomeScore(db)))
    PROVE  IsPart(list, NotBegun(db)) /\ IsGreedy(list, {}, HomeScore(db))
<1>. DEFINE profile == BuildProfile(db)
            items == HomeItems(db)
            score == HomeScore(db)
            S == ToSet(items)
            chosen(t) == {n \in DOMAIN items : ~InProgress(profile, items[n]) /\ Overlap(t.words, items[n].words) > 0}
            f(t) == Selected(items, chosen(t), Unordered(items))
            section(t) == RankWithDiversity(f(t), Limits.topic, score)
            top == Window(profile.topics, Limits.topics, 0)
            all == [n \in DOMAIN top |-> section(top[n])]
            some == {n \in DOMAIN all : all[n] # <<>>}
            shown == Selected(all, some, Unordered(all))
<1>1. TopicSections(profile, items, score) = shown
  BY DEF TopicSections, Where, Unordered
<1>2. IsPart(items, S) /\ ScoresOf(S, score)
  BY ItemsPart DEF IsPart
<1>3. ASSUME NEW t PROVE IsPart(section(t), NotBegun(db)) /\ IsGreedy(section(t), {}, score)
  <2>1. chosen(t) \subseteq DOMAIN items /\ \A n \in chosen(t) : items[n] \in NotBegun(db)
    BY DEF Begun, NotBegun, ToSet
  <2>. HIDE DEF chosen, S
  <2>2. IsPart(f(t), S) /\ ToSet(f(t)) = {items[n] : n \in chosen(t)}
    <3>. HIDE DEF items
    <3>. QED  BY <1>2, <2>1, FilteredPart
  <2>. HIDE DEF f
  <2>3. IsPart(f(t), NotBegun(db)) /\ ScoresOf(NotBegun(db), score)
    BY <1>2, <2>1, <2>2 DEF IsPart, ScoresOf, NotBegun, S
  <2>4. Limits.topic \in Nat
    BY SizeAssumption
  <2>. HIDE DEF score, items, profile
  <2>. QED  BY <2>3, <2>4, DiversePart
<1>4. top \in Seq(ToSet(db.topics)) /\ DOMAIN top = 1..Len(top) /\ Len(top) \in Nat
  <2>1. profile.topics \in Seq(ToSet(db.topics))
    BY ProfileFields, TopicsOfProfile
  <2>2. Limits.topics \in Nat /\ 0 \in Nat
    BY SizeAssumption
  <2>3. ASSUME NEW offset \in Nat PROVE Window(profile.topics, Limits.topics, offset) \in Seq(ToSet(db.topics))
    <3>. HIDE DEF profile
    <3>. QED  BY <2>1, <2>2, Windows
  <2>4. top \in Seq(ToSet(db.topics))
    BY <2>2, <2>3
  <2>. HIDE DEF top
  <2>. QED  BY <2>4
<1>. HIDE DEF top, section
<1>5. DOMAIN all = 1..Len(top) /\ \A n \in DOMAIN all : all[n] = section(top[n])
  BY <1>4
<1>6. IsSelection(shown, all, some, Unordered(all))
  <2>1. Keyed(some, Unordered(all))
    <3>1. some \subseteq 1..Len(top) /\ IsFiniteSet(1..Len(top))
      BY <1>4, <1>5, FirstPlaces
    <3>. HIDE DEF some, all
    <3>2. IsFiniteSet(some)
      BY <3>1, FS_Subset
    <3>3. some \subseteq Int /\ \A n \in some : Unordered(all)[n] = 0
      BY <1>4, <1>5, <3>1 DEF Unordered
    <3>. QED  BY <3>2, <3>3 DEF Keyed
  <2>2. some \subseteq DOMAIN all
    OBVIOUS
  <2>. HIDE DEF some, all
  <2>. QED  BY <2>1, <2>2, SelectedRows
<1>7. PICK n \in some : list = all[n]
  <2>1. ToSet(shown) = {all[n] : n \in some}
    <3>. HIDE DEF shown, some, all
    <3>. QED  BY <1>6 DEF IsSelection
  <2>. QED  BY <1>1, <2>1
<1>8. list = section(top[n])
  BY <1>5, <1>7
<1>. QED  BY <1>3, <1>8

\* The recent videos of the subscriptions are candidates.
LEMMA SubscriptionsPart ==
    ASSUME NEW db, IsHomeDb(db)
    PROVE  IsPart(RecentSubscriptions(BuildProfile(db), HomeItems(db), HomeScore(db)), ToSet(HomeItems(db)))
<1>. DEFINE profile == BuildProfile(db)
            items == HomeItems(db)
            chosen == {n \in DOMAIN items : items[n].channel \in profile.subscribed}
            f == Selected(items, chosen, Unordered(items))
            S == ToSet(items)
            score == HomeScore(db)
<1>1. IsPart(items, S) /\ ScoresOf(S, score)
  BY ItemsPart DEF IsPart
<1>2. RecentSubscriptions(profile, items, score) = BestFirst(f, score, Limits.subscriptions)
  BY DEF RecentSubscriptions, Where, Unordered
<1>3. chosen \subseteq DOMAIN items
  OBVIOUS
<1>. HIDE DEF chosen, items, S, score
<1>4. IsPart(f, S)
  BY <1>1, <1>3, FilteredPart
<1>5. Limits.subscriptions \in Nat
  BY SizeAssumption
<1>. HIDE DEF f, profile
<1>6. IsPart(BestFirst(f, score, Limits.subscriptions), S)
  BY <1>1, <1>4, <1>5, BestPart
<1>. QED  BY <1>2, <1>6 DEF S, items, score, profile

\* What is to be rediscovered is not begun.
LEMMA RediscoveryPart ==
    ASSUME NEW db, IsHomeDb(db)
    PROVE  IsPart(Rediscovery(BuildProfile(db), HomeItems(db), HomeScore(db)), NotBegun(db))
<1>. DEFINE profile == BuildProfile(db)
            items == HomeItems(db)
            chosen == {n \in DOMAIN items : Finished(profile, items[n]) /\ Forgotten(profile, items[n])}
            f == Selected(items, chosen, Unordered(items))
            S == ToSet(items)
            score == HomeScore(db)
<1>1. IsPart(items, S) /\ ScoresOf(S, score)
  BY ItemsPart DEF IsPart
<1>2. Rediscovery(profile, items, score) = BestFirst(f, score, Limits.rediscovery)
  BY DEF Rediscovery, Where, Unordered
<1>3. ASSUME NEW v, Finished(profile, v) PROVE ~InProgress(profile, v)
  <2>. DEFINE p == profile.progress[v.id]
  <2>1. v.id \in DOMAIN profile.progress /\ (p.completed \/ (p.duration > 0 /\ 100 * p.position > 95 * p.duration))
    BY <1>3 DEF Finished
  <2>2. p.position \in Nat /\ p.duration \in Nat
    BY <2>1, ProfileFields DEF IsHomeDb, AreRows
  <2>3. InProgress(profile, v) => ~p.completed /\ 100 * p.position <= 95 * p.duration
    BY DEF InProgress
  <2>. HIDE DEF p
  <2>. QED  BY <2>1, <2>2, <2>3
<1>4. chosen \subseteq DOMAIN items /\ \A n \in chosen : items[n] \in NotBegun(db)
  <2>1. ASSUME NEW n \in chosen PROVE items[n] \in NotBegun(db)
    <3>1. ~InProgress(profile, items[n])
      BY <1>3
    <3>2. items[n] \in S
      BY DEF ToSet
    <3>. QED  BY <3>1, <3>2 DEF NotBegun, Begun
  <2>. QED  BY <2>1
<1>. HIDE DEF chosen, items, S
<1>5. IsPart(f, S) /\ ToSet(f) = {items[n] : n \in chosen}
  BY <1>1, <1>4, FilteredPart
<1>. HIDE DEF f
<1>6. IsPart(f, NotBegun(db)) /\ ScoresOf(NotBegun(db), score)
  BY <1>1, <1>4, <1>5 DEF IsPart, ScoresOf, NotBegun, S, items
<1>7. Limits.rediscovery \in Nat
  BY SizeAssumption
<1>. HIDE DEF score, profile
<1>8. IsPart(BestFirst(f, score, Limits.rediscovery), NotBegun(db))
  BY <1>6, <1>7, BestPart
<1>. QED  BY <1>2, <1>8 DEF items, score, profile

\* HomeSections: for every catalogue, history and profile, no section repeats a
\* video or shows what was rejected, what can be continued is not recommended,
\* and the ranking is greedy, the repetition of a channel counted.
THEOREM HomeAlwaysSound == AskSpec => []HomeSections
<1>1. ASSUME question \in Inputs PROVE HomeSections
  <2>. SUFFICES ASSUME question.kind = "home" PROVE HomeSections
    BY DEF HomeSections
  <2>1. question \in HomeInputs
    BY <1>1, KindAssumption DEF Inputs
  <2>. DEFINE db == question.db
              home == GetHome(db).home
              excluded == FeedbackExclusions(db)
              score == HomeScore(db)
              sections == {home.continueWatching, home.forYou, home.recentSubscriptions, home.rediscovery}
                          \cup ToSet(home.topicSections)
              recommended == {home.forYou, home.rediscovery} \cup ToSet(home.topicSections)
              ranked == {home.forYou} \cup ToSet(home.topicSections)
  <2>2. IsHomeDb(db)
    BY <2>1, HomeAssumption DEF IsHomeDb
  <2>. HIDE DEF db
  <2>3. IsPart(home.continueWatching, Begun(db))
    BY <2>2, HomeFields, ContinuePart
  <2>4. \A list \in ranked : IsPart(list, NotBegun(db)) /\ IsGreedy(list, {}, score)
    <3>1. IsPart(home.forYou, NotBegun(db)) /\ IsGreedy(home.forYou, {}, score)
      BY <2>2, HomeFields, ForYouPart
    <3>2. ToSet(home.topicSections) = ToSet(TopicSections(BuildProfile(db), HomeItems(db), HomeScore(db)))
      BY HomeFields
    <3>3. ASSUME NEW list \in ToSet(home.topicSections)
          PROVE  IsPart(list, NotBegun(db)) /\ IsGreedy(list, {}, score)
      BY <2>2, <3>2, TopicParts
    <3>. QED  BY <3>1, <3>3
  <2>5. IsPart(home.rediscovery, NotBegun(db))
    BY <2>2, HomeFields, RediscoveryPart
  <2>6. IsPart(home.recentSubscriptions, ToSet(HomeItems(db)))
    BY <2>2, HomeFields, SubscriptionsPart
  <2>7. ToSet(HomeItems(db)) \subseteq Welcome(db)
    BY <2>2, ItemsPart DEF IsPart
  <2>8. home.score = score
    BY HomeFields
  <2>9. Begun(db) \subseteq ToSet(HomeItems(db)) /\ NotBegun(db) \subseteq ToSet(HomeItems(db))
        /\ Begun(db) \cap NotBegun(db) = {}
    BY DEF Begun, NotBegun
  <2>. HIDE DEF home, score
  <2>10. \A list \in sections : IsInjective(list) /\ ToSet(list) \subseteq Welcome(db)
    BY <2>9, <2>7, <2>6, <2>5, <2>4, <2>3 DEF IsPart
  <2>11. ASSUME NEW list \in sections
         PROVE  /\ IsInjective(list)
                /\ \A v \in ToSet(list) :
                    ~IsShort(v) /\ v.id \notin excluded.videos /\ v.channel \notin excluded.channels
    BY <2>10 DEF Welcome
  <2>12. ASSUME NEW list \in recommended PROVE ToSet(list) \cap ToSet(home.continueWatching) = {}
    <3>1. ToSet(list) \subseteq NotBegun(db)
      BY <2>4, <2>5 DEF IsPart
    <3>. QED  BY <2>3, <2>9, <3>1 DEF IsPart
  <2>13. ASSUME NEW list \in ranked, NEW m \in DOMAIN list, NEW n \in DOMAIN list, m < n
         PROVE  Weight(list, list[m], m, home.score) >= Weight(list, list[n], m, home.score)
    BY <2>4, <2>8, <2>13 DEF IsGreedy
  <2>14. ASSUME NEW list, NEW v, NEW m
         PROVE  Weight(list, v, m, home.score)
                    = home.score[v.id] + 5000 \div (1 + Cardinality({k \in 1..(m - 1) : list[k].channel = v.channel}))
    BY DEF Weight, OfChannel
  <2>15. ASSUME NEW list \in ranked, NEW m \in DOMAIN list, NEW n \in DOMAIN list
         PROVE  LET weight(l, v, k) ==
                    home.score[v.id] + 5000 \div (1 + Cardinality({j \in 1..(k - 1) : l[j].channel = v.channel}))
                IN  m < n => weight(list, list[m], m) >= weight(list, list[n], m)
    BY <2>13, <2>14
  <2>. QED  BY <2>11, <2>12, <2>15 DEF HomeSections, home, db
<1>2. question \in Inputs => HomeSections
  BY <1>1
<1>. QED  BY <1>2, QuestionStays, PTL

--------------------------------------------------------------------------------
(* The playlists of channels: what is computed twice. *)

\* Deleting first and deleting last leave the same rows.
LEMMA RowsAlwaysAgree ==
    ASSUME NEW before, NEW items
    PROVE  RowsAgree(before, items)
<1>. DEFINE rows == Lists!ReplacedCatalog(before, "s", items)
            other == Lists!Imported(before, "s", items)
            old == Lists!Of(before, "s")
            ids == {items[n].id : n \in DOMAIN items}
            bare(i) == [items[Lists!LastWith(items, i)] EXCEPT !.url = ""]
<1>1. old \subseteq DOMAIN before
  BY DEF Lists!Of
<1>2. rows = [i \in (DOMAIN before \cup ids) \ (old \ ids) |-> IF i \in ids THEN bare(i) ELSE before[i]]
  <2>. HIDE DEF old
  <2>. QED  BY DEF Lists!ReplacedCatalog, Lists!Inserted, Lists!Without, old
<1>3. other = [i \in (DOMAIN before \ old) \cup ids |-> IF i \in ids THEN bare(i) ELSE before[i]]
  <2>. HIDE DEF old
  <2>. QED  BY DEF Lists!Imported, Lists!Inserted, Lists!Without, old
<1>4. (DOMAIN before \cup ids) \ (old \ ids) = (DOMAIN before \ old) \cup ids
  BY <1>1
<1>5. rows = other
  <2>. HIDE DEF rows, other, old, ids, bare
  <2>. QED  BY <1>2, <1>3, <1>4
<1>6. ASSUME NEW kind \in {"", "tv", "movie", "series", "unknown"}
      PROVE  Lists!Groups(rows, kind) =
                {group \in {rows[i].group : i \in DOMAIN rows} \ {""} : \E i \in DOMAIN rows :
                    Lists!Shown(rows[i], [source |-> "", kind |-> kind, group |-> group, query |-> ""])}
  <2>. HIDE DEF rows
  <2>1. \A i \in DOMAIN rows : \A group :
            Lists!Shown(rows[i], [source |-> "", kind |-> kind, group |-> group, query |-> ""])
                <=> kind \in {"", rows[i].kind} /\ group \in {"", rows[i].group}
    BY DEF Lists!Shown
  <2>2. Lists!Groups(rows, kind) = {rows[i].group : i \in {j \in DOMAIN rows : kind \in {"", rows[j].kind}}} \ {""}
    BY DEF Lists!Groups
  <2>. QED  BY <2>1, <2>2
<1>. QED  BY <1>5, <1>6 DEF RowsAgree

\* What is on the air at an instant is in every window that is open then.
LEMMA WindowsAlwaysAgree ==
    ASSUME NEW guide, \A p \in guide.programs : p.start \in Int /\ p.end \in Int
    PROVE  WindowsAgree(guide)
<1>. SUFFICES ASSUME NEW from \in 0..4, NEW to \in 0..4, NEW at \in 0..4, from <= at, at < to,
                     NEW p \in guide.programs, p.start <= at, p.end > at
              PROVE  p.start < to /\ p.end > from
  BY DEF WindowsAgree, Lists!OnAir, Lists!InWindow
<1>1. p.start \in Int /\ p.end \in Int /\ from \in Int /\ to \in Int /\ at \in Int
  OBVIOUS
<1>. QED  BY <1>1

\* Where each page begins, and that the last one goes to the end.
LEMMA PagePlaces ==
    ASSUME NEW size \in 1..4, NEW length \in Nat
    PROVE  LET N == Lists!TotalPages(length, size) IN
           /\ N \in Nat \ {0} /\ N * size >= length
           /\ \A n \in 1..N : (n - 1) * size \in 0..length /\ (n - 1) * size + size = n * size
<1>. DEFINE N == Lists!TotalPages(length, size)
            Placed(m) == /\ m \in Nat \ {0} /\ m * size >= length
                         /\ \A n \in 1..m : (n - 1) * size \in 0..length /\ (n - 1) * size + size = n * size
<1>. SUFFICES Placed(N)
  OBVIOUS
<1>1. CASE length = 0
  <2>1. N = 1
    BY <1>1 DEF Lists!TotalPages
  <2>. QED  BY <1>1, <2>1
<1>2. CASE length # 0
  <2>1. N = (length + size - 1) \div size
    BY <1>2 DEF Lists!TotalPages
  <2>. HIDE DEF N
  <2>2. CASE size = 1
    <3>1. N = (length + 0) \div 1
      BY <2>1, <2>2
    <3>2. N \in Nat \ {0} /\ N * 1 >= length /\ (N - 1) * 1 < length
      BY <1>2, <3>1
    <3>3. \A n \in 1..N : (n - 1) * 1 \in 0..length /\ (n - 1) * 1 + 1 = n * 1
      BY <3>2
    <3>. QED  BY <2>2, <3>2, <3>3 DEF Placed
  <2>3. CASE size = 2
    <3>1. N = (length + 1) \div 2
      BY <2>1, <2>3
    <3>2. N \in Nat \ {0} /\ N * 2 >= length /\ (N - 1) * 2 < length
      BY <1>2, <3>1
    <3>3. \A n \in 1..N : (n - 1) * 2 \in 0..length /\ (n - 1) * 2 + 2 = n * 2
      BY <3>2
    <3>. QED  BY <2>3, <3>2, <3>3 DEF Placed
  <2>4. CASE size = 3
    <3>1. N = (length + 2) \div 3
      BY <2>1, <2>4
    <3>2. N \in Nat \ {0} /\ N * 3 >= length /\ (N - 1) * 3 < length
      BY <1>2, <3>1
    <3>3. \A n \in 1..N : (n - 1) * 3 \in 0..length /\ (n - 1) * 3 + 3 = n * 3
      BY <3>2
    <3>. QED  BY <2>4, <3>2, <3>3 DEF Placed
  <2>5. CASE size = 4
    <3>1. N = (length + 3) \div 4
      BY <2>1, <2>5
    <3>2. N \in Nat \ {0} /\ N * 4 >= length /\ (N - 1) * 4 < length
      BY <1>2, <3>1
    <3>3. \A n \in 1..N : (n - 1) * 4 \in 0..length /\ (n - 1) * 4 + 4 = n * 4
      BY <3>2
    <3>. QED  BY <2>5, <3>2, <3>3 DEF Placed
  <2>. QED  BY <2>5, <2>4, <2>3, <2>2 DEF N
<1>. QED  BY <1>1, <1>2

\* The places that the first n pages cover.
Covered(items, size, n) == IF n * size > Len(items) THEN Len(items) ELSE n * size

Flattens(f, seqs) == f = [i \in 1..Len(seqs) |-> IF i = 1 THEN seqs[i] ELSE f[i - 1] \o seqs[i]]

\* The pages of a list, one after the other, are the list.
LEMMA PagesAreTheList ==
    ASSUME NEW S, NEW items \in Seq(S), NEW size \in 1..4
    PROVE  FlattenSeq(PagesOf(items, size)) = items
<1>. DEFINE N == Lists!TotalPages(Len(items), size)
            pages == PagesOf(items, size)
            first(n) == SubSeq(items, 1, Covered(items, size, n))
<1>1. Len(items) \in Nat
  OBVIOUS
<1>2. /\ N \in Nat \ {0} /\ N * size >= Len(items)
      /\ \A n \in 1..N : (n - 1) * size \in 0..Len(items) /\ (n - 1) * size + size = n * size
  BY <1>1, PagePlaces
<1>. HIDE DEF N
<1>3. pages = [n \in 1..N |-> Lists!Page(items, n, size)]
  BY DEF PagesOf, N
<1>4. Len(pages) = N /\ \A n \in 1..N : pages[n] = Lists!Page(items, n, size)
  <2>. HIDE DEF pages
  <2>. QED  BY <1>2, <1>3
<1>. HIDE DEF pages
<1>5. ASSUME NEW n \in 1..N
      PROVE  /\ pages[n] = SubSeq(items, (n - 1) * size + 1, Covered(items, size, n))
             /\ Covered(items, size, n) \in Nat /\ Covered(items, size, n) <= Len(items)
             /\ Covered(items, size, n) >= (n - 1) * size
             /\ Covered(items, size, n - 1) = (n - 1) * size
  <2>. DEFINE offset == (n - 1) * size
              next == n * size
  <2>1. offset \in 0..Len(items) /\ offset + size = next /\ size \in Nat /\ size > 0
    BY <1>2
  <2>2. Lists!Page(items, n, size) = SubSeq(items, offset + 1, IF offset + size > Len(items) THEN Len(items) ELSE offset + size)
    <3>1. ~(n <= 0)
      BY <1>2
    <3>. QED  BY <3>1 DEF Lists!Page
  <2>3. /\ Covered(items, size, n) = IF next > Len(items) THEN Len(items) ELSE next
        /\ Covered(items, size, n - 1) = IF offset > Len(items) THEN Len(items) ELSE offset
    BY DEF Covered
  <2>4. pages[n] = Lists!Page(items, n, size)
    BY <1>4
  <2>. HIDE DEF offset, next
  <2>5. /\ pages[n] = SubSeq(items, offset + 1, Covered(items, size, n))
        /\ Covered(items, size, n) \in Nat /\ Covered(items, size, n) <= Len(items)
        /\ Covered(items, size, n) >= offset
        /\ Covered(items, size, n - 1) = offset
    BY <1>1, <2>4, <2>3, <2>2, <2>1
  <2>. QED  BY <2>5 DEF offset
<1>6. pages[1] = first(1)
  <2>1. 1 \in 1..N /\ (1 - 1) * size = 0 /\ 0 + 1 = 1
    BY <1>2
  <2>2. pages[1] = SubSeq(items, (1 - 1) * size + 1, Covered(items, size, 1))
    BY <1>5, <2>1
  <2>. QED  BY <2>1, <2>2
<1>7. ASSUME NEW n \in 1..N, n # 1 PROVE first(n - 1) \o pages[n] = first(n)
  <2>. DEFINE offset == (n - 1) * size
              end == Covered(items, size, n)
  <2>1. /\ pages[n] = SubSeq(items, offset + 1, end) /\ Covered(items, size, n - 1) = offset
        /\ end \in Nat /\ end <= Len(items) /\ end >= offset
    BY <1>5
  <2>0. offset \in Nat /\ offset <= Len(items)
    <3>1. offset \in 0..Len(items)
      BY <1>2
    <3>. HIDE DEF offset
    <3>. QED  BY <1>1, <3>1
  <2>. HIDE DEF offset, end
  <2>2. 1 \in 1..Len(items) + 1 /\ offset \in (1 - 1)..Len(items) /\ end \in offset..Len(items)
    BY <1>1, <2>0, <2>1
  <2>3. SubSeq(items, 1, offset) \o SubSeq(items, offset + 1, end) = SubSeq(items, 1, end)
    BY <2>2, ConcatAdjacentSubSeq
  <2>. QED  BY <2>1, <2>3 DEF end
<1>. DEFINE whole == [n \in 1..N |-> first(n)]
<1>8. Flattens(whole, pages)
  <2>1. ASSUME NEW n \in 1..N PROVE whole[n] = IF n = 1 THEN pages[n] ELSE whole[n - 1] \o pages[n]
    <3>1. CASE n = 1
      BY <1>6, <3>1
    <3>2. CASE n # 1
      <4>1. n - 1 \in 1..N
        BY <1>2, <3>2
      <4>2. whole[n - 1] = first(n - 1) /\ whole[n] = first(n)
        BY <4>1
      <4>. HIDE DEF whole, first
      <4>. QED  BY <1>7, <3>2, <4>2
    <3>. QED  BY <3>1, <3>2
  <2>2. whole = [n \in 1..N |-> whole[n]]
    OBVIOUS
  <2>. HIDE DEF whole
  <2>3. whole = [n \in 1..N |-> IF n = 1 THEN pages[n] ELSE whole[n - 1] \o pages[n]]
    BY <2>1, <2>2
  <2>. QED  BY <1>4, <2>3 DEF Flattens
<1>. HIDE DEF whole
<1>9. PICK f : Flattens(f, pages) /\ FlattenSeq(pages) = f[N]
  <2>. DEFINE f == CHOOSE f : Flattens(f, pages)
  <2>1. Flattens(f, pages)
    BY <1>8
  <2>2. FlattenSeq(pages) = f[N]
    BY <1>2, <1>4 DEF FlattenSeq, Flattens
  <2>. QED  BY <2>1, <2>2
<1>. DEFINE Good == {n \in 0..N : n = 0 \/ f[n] = first(n)}
<1>10. f = [n \in 1..N |-> IF n = 1 THEN pages[n] ELSE f[n - 1] \o pages[n]]
  BY <1>4, <1>9 DEF Flattens
<1>11. 0..N \subseteq Good
  <2>1. 0 \in Good
    BY <1>2
  <2>2. ASSUME NEW n \in 0..(N - 1), n \in Good PROVE n + 1 \in Good
    <3>1. n + 1 \in 1..N /\ (n + 1) - 1 = n
      BY <1>2
    <3>2. f[n + 1] = IF n + 1 = 1 THEN pages[n + 1] ELSE f[n] \o pages[n + 1]
      BY <1>10, <3>1
    <3>3. CASE n = 0
      <4>1. f[n + 1] = first(n + 1)
        BY <1>6, <3>2, <3>3
      <4>. HIDE DEF first
      <4>. QED  BY <3>1, <4>1
    <3>4. CASE n # 0
      <4>1. f[n] = first(n) /\ n + 1 # 1
        BY <2>2, <3>4
      <4>2. first(n) \o pages[n + 1] = first(n + 1)
        BY <1>7, <3>1, <4>1
      <4>. HIDE DEF first
      <4>3. f[n + 1] = first(n + 1)
        BY <3>2, <4>1, <4>2
      <4>. QED  BY <3>1, <4>3
    <3>. QED  BY <3>3, <3>4
  <2>3. N \in Nat
    BY <1>2
  <2>. HIDE DEF Good
  <2>. QED  BY <2>1, <2>2, <2>3, StepByStep
<1>12. f[N] = first(N)
  <2>1. N \in 0..N /\ N # 0
    BY <1>2
  <2>. QED  BY <1>11, <2>1
<1>13. first(N) = items
  <2>1. Covered(items, size, N) = Len(items)
    <3>. DEFINE most == N * size
    <3>1. most >= Len(items) /\ most \in Int
      BY <1>2
    <3>. HIDE DEF most
    <3>2. Covered(items, size, N) = IF most > Len(items) THEN Len(items) ELSE most
      BY DEF Covered, most
    <3>. QED  BY <1>1, <3>1, <3>2
  <2>. QED  BY <2>1, SubSeqFull
<1>. QED  BY <1>9, <1>12, <1>13 DEF pages

\* Whatever is listed is its pages.
LEMMA ListsAlwaysAgree ==
    ASSUME NEW S, NEW items \in Seq(S)
    PROVE  ListsAgree(items)
<1>. SUFFICES ASSUME NEW size \in 1..4, NEW kind \in {"", "tv", "movie"}
              PROVE  LET shown == Where(items, LAMBDA i :
                            Lists!Shown(i, [source |-> "s", kind |-> kind, group |-> "", query |-> ""]))
                     IN  FlattenSeq(PagesOf(shown, size)) = shown
  BY DEF ListsAgree
<1>. DEFINE chosen == {n \in DOMAIN items :
                Lists!Shown(items[n], [source |-> "s", kind |-> kind, group |-> "", query |-> ""])}
            shown == Where(items, LAMBDA i :
                            Lists!Shown(i, [source |-> "s", kind |-> kind, group |-> "", query |-> ""]))
<1>1. shown = Selected(items, chosen, Unordered(items))
  BY DEF Where, Unordered
<1>2. chosen \subseteq DOMAIN items
  OBVIOUS
<1>. HIDE DEF shown, chosen
<1>3. IsSelection(shown, items, chosen, Unordered(items))
  BY <1>1, <1>2, KeepsOrder, SelectedRows
<1>4. shown \in Seq({items[i] : i \in chosen})
  BY <1>3 DEF IsSelection
<1>5. FlattenSeq(PagesOf(shown, size)) = shown
  BY <1>4, PagesAreTheList
<1>. QED  BY <1>5 DEF shown

\* The rows that a condition keeps, in their order; the first of them is the one
\* at the least place, and none is there where no row fits.
Subrows(rows, chosen) == Selected(rows, chosen, Unordered(rows))

\* The first row of a selection is the one at its least place.
LEMMA FirstKept ==
    ASSUME NEW S, NEW rows \in Seq(S), NEW chosen, chosen \subseteq DOMAIN rows
    PROVE  /\ chosen = {} => Subrows(rows, chosen) = <<>>
           /\ \A i \in chosen : (\A j \in chosen : i <= j) =>
                Subrows(rows, chosen) # <<>> /\ Head(Subrows(rows, chosen)) = rows[i]
<1>. DEFINE u == Unordered(rows)
            kept == Subrows(rows, chosen)
<1>1. Keyed(chosen, u)
  BY KeepsOrder
<1>2. IsSelection(kept, rows, chosen, u)
  BY <1>1, SelectedRows DEF Subrows
<1>. HIDE DEF kept
<1>3. /\ Cardinality(chosen) \in Nat /\ DOMAIN kept = 1..Cardinality(chosen) /\ Len(kept) = Cardinality(chosen)
      /\ \A n \in DOMAIN kept : kept[n] = rows[Place(chosen, u, n)]
      /\ kept \in Seq({rows[i] : i \in chosen})
  BY <1>2 DEF IsSelection
<1>4. chosen = {} => kept = <<>>
  <2>1. ASSUME chosen = {} PROVE Len(kept) = 0
    BY <1>3, <2>1, FS_EmptySet
  <2>. QED  BY <1>3, <2>1, EmptySeq
<1>5. ASSUME NEW i \in chosen, \A j \in chosen : i <= j
      PROVE  kept # <<>> /\ Head(kept) = rows[i]
  <2>1. Below(chosen, i) = {}
    <3>1. \A j \in chosen : j \in Int
      OBVIOUS
    <3>. QED  BY <1>5, <3>1 DEF Below
  <2>2. Rank(chosen, u, i) = 0
    <3>1. Rank(chosen, u, i) = Cardinality(Below(chosen, i))
      BY KeepsOrder
    <3>. QED  BY <2>1, <3>1, FS_EmptySet
  <2>3. Place(chosen, u, 0 + 1) = i
    BY <1>1, <2>2, PlacesInOrder
  <2>4. chosen # {} /\ Cardinality(chosen) # 0
    BY <1>1, FS_EmptySet DEF Keyed
  <2>5. 1 \in DOMAIN kept
    BY <1>3, <2>4
  <2>6. kept[1] = rows[i]
    BY <1>3, <2>3, <2>5
  <2>. QED  BY <1>3, <2>5, <2>6, EmptySeq
<1>. QED  BY <1>4, <1>5 DEF kept

\* What is first of those that fit twice is first of those that fit both.
LEMMA FirstOfBoth ==
    ASSUME NEW S, NEW rows \in Seq(S), NEW A, A \subseteq DOMAIN rows, NEW B, B \subseteq A,
           NEW again, again = {n \in DOMAIN Subrows(rows, A) : Place(A, Unordered(rows), n) \in B}
    PROVE  /\ B = {} => Subrows(Subrows(rows, A), again) = <<>> /\ Subrows(rows, B) = <<>>
           /\ B # {} => \E i \in B : /\ Subrows(rows, B) # <<>> /\ Head(Subrows(rows, B)) = rows[i]
                                     /\ Subrows(Subrows(rows, A), again) # <<>>
                                     /\ Head(Subrows(Subrows(rows, A), again)) = rows[i]
<1>. DEFINE u == Unordered(rows)
            exact == Subrows(rows, A)
<1>1. Keyed(A, u)
  BY KeepsOrder
<1>2. IsSelection(exact, rows, A, u)
  BY <1>1, SelectedRows DEF Subrows
<1>. HIDE DEF exact
<1>3. /\ Cardinality(A) \in Nat /\ DOMAIN exact = 1..Cardinality(A)
      /\ \A n \in DOMAIN exact : Place(A, u, n) \in A /\ exact[n] = rows[Place(A, u, n)]
      /\ exact \in Seq({rows[i] : i \in A})
  BY <1>2 DEF IsSelection
<1>4. again \subseteq DOMAIN exact /\ again = {n \in DOMAIN exact : Place(A, u, n) \in B}
  BY DEF exact
<1>5. ASSUME B = {} PROVE Subrows(exact, again) = <<>> /\ Subrows(rows, B) = <<>>
  <2>1. again = {}
    BY <1>4, <1>5
  <2>. QED  BY <1>3, <1>4, <1>5, <2>1, FirstKept
<1>6. ASSUME B # {}
      PROVE  \E i \in B : /\ Subrows(rows, B) # <<>> /\ Head(Subrows(rows, B)) = rows[i]
                          /\ Subrows(exact, again) # <<>> /\ Head(Subrows(exact, again)) = rows[i]
  <2>1. PICK i \in B : \A j \in B : i <= j
    <3>1. B \in SUBSET Nat
      OBVIOUS
    <3>. QED  BY <1>6, <3>1, LeastExists
  <2>2. Subrows(rows, B) # <<>> /\ Head(Subrows(rows, B)) = rows[i]
    <3>1. B \subseteq DOMAIN rows
      OBVIOUS
    <3>. QED  BY <2>1, <3>1, FirstKept
  <2>. DEFINE r == Rank(A, u, i) + 1
  <2>3. r \in 1..Cardinality(A) /\ Place(A, u, r) = i
    BY <1>1, PlacesInOrder
  <2>. HIDE DEF r
  <2>4. r \in again
    BY <1>3, <1>4, <2>3
  <2>5. ASSUME NEW n \in again PROVE r <= n
    <3>1. n \in 1..Cardinality(A) /\ Place(A, u, n) \in B /\ Place(A, u, n) \in A
      BY <1>3, <1>4
    <3>2. i <= Place(A, u, n)
      BY <2>1, <3>1
    <3>3. SUFFICES ASSUME n < r PROVE FALSE
      BY <1>3, <2>3, <3>1
    <3>4. Precedes(u, Place(A, u, n), Place(A, u, r))
      BY <1>1, <2>3, <3>1, <3>3, PlacesInOrder
    <3>5. Place(A, u, n) < i
      <4>1. Place(A, u, n) \in DOMAIN rows /\ i \in DOMAIN rows
        BY <3>1
      <4>. QED  BY <2>3, <3>4, <4>1, KeepsOrder
    <3>6. Place(A, u, n) \in Int /\ i \in Int
      BY <3>1
    <3>. QED  BY <3>2, <3>5, <3>6
  <2>6. Subrows(exact, again) # <<>> /\ Head(Subrows(exact, again)) = exact[r]
    BY <1>3, <1>4, <2>4, <2>5, FirstKept
  <2>7. exact[r] = rows[i]
    BY <1>3, <2>3
  <2>. QED  BY <2>7, <2>6, <2>2, <2>1
<1>. QED  BY <1>5, <1>6 DEF exact

\* M3U and the catalogue select with the same operators.
LEMMA SelectionsAgree ==
    \A rows, chosen, key : Lists!Selected(rows, chosen, key) = Selected(rows, chosen, key)
<1>. SUFFICES ASSUME NEW rows, NEW chosen, NEW key PROVE Lists!Selected(rows, chosen, key) = Selected(rows, chosen, key)
  OBVIOUS
<1>1. ASSUME NEW T PROVE Lists!Cardinality(T) = Cardinality(T)
  BY Zenon DEF Lists!Cardinality, Cardinality
<1>2. ASSUME NEW n PROVE Lists!Place(chosen, key, n) = Place(chosen, key, n)
  BY <1>1, Zenon DEF Lists!Place, Place, Lists!Precedes, Precedes
<1>. QED  BY <1>1, <1>2 DEF Lists!Selected, Selected

\* The rows with the id, or with the identity, of an item, and those to be played.
WithId(items, item) == {n \in DOMAIN items : items[n].id = item.id}
WithIdentity(items, item) == {n \in DOMAIN items : Lists!SameIdentity(items[n], item)}
Playable(items) == {n \in DOMAIN items : items[n].url \in PlayableURLs}

\* Each way to find a stream as the first row of a selection.
LEMMA StreamsByTheirRows ==
    ASSUME NEW items, NEW item
    PROVE  LET exact == Subrows(items, WithId(items, item))
               hits == Subrows(items, WithId(items, item) \cap Playable(items))
               alike == Subrows(items, WithIdentity(items, item) \cap Playable(items))
               again == Subrows(exact, Playable(exact)) IN
           /\ exact # <<>> => Lists!Resolve(items, item) = IF again = <<>> THEN "invalid" ELSE Head(again).url
           /\ Lists!ResolveById(items, item) = IF hits = <<>> THEN "not found" ELSE Head(hits).url
           /\ Lists!ResolveFirst(items, item) = IF alike = <<>> THEN "not found" ELSE Head(alike).url
<1>. DEFINE exact == Subrows(items, WithId(items, item))
            hits == Subrows(items, WithId(items, item) \cap Playable(items))
            alike == Subrows(items, WithIdentity(items, item) \cap Playable(items))
            again == Subrows(exact, Playable(exact))
<1>1. Lists!Where(items, LAMBDA i : i.id = item.id) = exact
  BY SelectionsAgree DEF Lists!Where, Subrows, WithId, Unordered
<1>2. Lists!ChooseStream(exact) = IF again = <<>> THEN "invalid" ELSE Head(again).url
  <2>. HIDE DEF exact
  <2>1. Lists!Where(exact, LAMBDA i : i.url \in PlayableURLs) = again
    BY SelectionsAgree DEF Lists!Where, Subrows, Playable, Unordered
  <2>. HIDE DEF again
  <2>. QED  BY <2>1 DEF Lists!ChooseStream, Lists!Invalid
<1>3. exact # <<>> => Lists!Resolve(items, item) = Lists!ChooseStream(exact)
  <2>. HIDE DEF exact
  <2>. QED  BY <1>1 DEF Lists!Resolve
<1>4. Lists!ResolveById(items, item) = IF hits = <<>> THEN "not found" ELSE Head(hits).url
  <2>1. WithId(items, item) \cap Playable(items) = {n \in DOMAIN items : items[n].id = item.id /\ items[n].url \in PlayableURLs}
    BY DEF WithId, Playable
  <2>2. Lists!Where(items, LAMBDA i : i.id = item.id /\ i.url \in PlayableURLs) = hits
    BY <2>1, SelectionsAgree DEF Lists!Where, Subrows, Unordered
  <2>. HIDE DEF hits
  <2>. QED  BY <2>2 DEF Lists!ResolveById, Lists!First, Lists!NotFound
<1>5. Lists!ResolveFirst(items, item) = IF alike = <<>> THEN "not found" ELSE Head(alike).url
  <2>1. WithIdentity(items, item) \cap Playable(items)
            = {n \in DOMAIN items : Lists!SameIdentity(items[n], item) /\ items[n].url \in PlayableURLs}
    BY DEF WithIdentity, Playable
  <2>2. Lists!Where(items, LAMBDA i : Lists!SameIdentity(i, item) /\ i.url \in PlayableURLs) = alike
    BY <2>1, SelectionsAgree DEF Lists!Where, Subrows, Unordered
  <2>. HIDE DEF alike
  <2>. QED  BY <2>2 DEF Lists!ResolveFirst, Lists!First, Lists!NotFound
<1>. HIDE DEF exact, hits, alike, again
<1>6. exact # <<>> => Lists!Resolve(items, item) = IF again = <<>> THEN "invalid" ELSE Head(again).url
  BY <1>2, <1>3
<1>. QED  BY <1>4, <1>5, <1>6 DEF exact, hits, alike, again

\* The ways to find a stream agree.
LEMMA StreamsAlwaysAgree ==
    ASSUME NEW S, NEW items \in Seq(S)
    PROVE  StreamsAgree(items)
<1>. SUFFICES ASSUME NEW n \in DOMAIN items
              PROVE  LET item == items[n]
                         found == Lists!Resolve(items, item)
                         first == Lists!ResolveById(items, item) IN
                     /\ found = (IF first = Lists!NotFound THEN Lists!Invalid ELSE first)
                     /\ found \notin Lists!Failures
                            /\ (\A m \in DOMAIN items : items[m].id = item.id => Lists!SameIdentity(items[m], item))
                        => Lists!ResolveFirst(items, item) \notin Lists!Failures
  BY DEF StreamsAgree
<1>. DEFINE item == items[n]
            A == WithId(items, item)
            B == A \cap Playable(items)
            C == WithIdentity(items, item) \cap Playable(items)
            exact == Subrows(items, A)
            again == Playable(exact)
            found == Lists!Resolve(items, item)
            first == Lists!ResolveById(items, item)
            last == Lists!ResolveFirst(items, item)
<1>1. n \in A /\ A \subseteq DOMAIN items /\ B \subseteq A /\ C \subseteq DOMAIN items
  BY DEF WithId, WithIdentity
<1>2. exact # <<>> /\ again = {m \in DOMAIN exact : Place(A, Unordered(items), m) \in B}
  <2>. HIDE DEF A
  <2>1. IsSelection(exact, items, A, Unordered(items))
    BY <1>1, KeepsOrder, SelectedRows DEF Subrows
  <2>. HIDE DEF exact
  <2>2. /\ ToSet(exact) = {items[i] : i \in A} /\ exact \in Seq({items[i] : i \in A})
        /\ \A m \in DOMAIN exact : /\ Place(A, Unordered(items), m) \in A
                                   /\ exact[m] = items[Place(A, Unordered(items), m)]
    BY <2>1 DEF IsSelection
  <2>3. exact # <<>>
    <3>1. items[n] \in ToSet(exact)
      BY <1>1, <2>2
    <3>2. ToSet(<<>>) = {}
      BY DEF ToSet
    <3>. QED  BY <3>1, <3>2
  <2>4. \A m \in DOMAIN exact : exact[m].url \in PlayableURLs <=> Place(A, Unordered(items), m) \in B
    BY <1>1, <2>2 DEF Playable
  <2>. QED  BY <2>3, <2>4 DEF Playable
<1>3. /\ found = IF Subrows(exact, again) = <<>> THEN "invalid" ELSE Head(Subrows(exact, again)).url
      /\ first = IF Subrows(items, B) = <<>> THEN "not found" ELSE Head(Subrows(items, B)).url
      /\ last = IF Subrows(items, C) = <<>> THEN "not found" ELSE Head(Subrows(items, C)).url
  BY <1>2, StreamsByTheirRows
<1>4. /\ B = {} => Subrows(exact, again) = <<>> /\ Subrows(items, B) = <<>>
      /\ B # {} => \E i \in B : /\ Subrows(items, B) # <<>> /\ Head(Subrows(items, B)) = items[i]
                                /\ Subrows(exact, again) # <<>> /\ Head(Subrows(exact, again)) = items[i]
  <2>. HIDE DEF A, B, again
  <2>. QED  BY <1>1, <1>2, FirstOfBoth
<1>5. \A i \in Playable(items) : items[i].url \notin {"not found", "ambiguous", "invalid"}
  BY ListAssumption DEF Playable, Lists!Failures, Lists!NotFound, Lists!Ambiguous, Lists!Invalid
<1>6. B \subseteq Playable(items) /\ C \subseteq Playable(items)
  OBVIOUS
<1>7. found = IF first = "not found" THEN "invalid" ELSE first
  <2>. HIDE DEF found, first, last, A, B, C, exact, again
  <2>. QED  BY <1>3, <1>4, <1>5, <1>6
<1>8. ASSUME found \notin {"not found", "ambiguous", "invalid"},
             \A m \in DOMAIN items : items[m].id = item.id => Lists!SameIdentity(items[m], item)
      PROVE  last \notin {"not found", "ambiguous", "invalid"}
  <2>1. B \subseteq C
    BY <1>8 DEF WithId, WithIdentity
  <2>2. B # {}
    <3>. HIDE DEF found, first, last, A, B, C, exact, again
    <3>. QED  BY <1>3, <1>4, <1>8
  <2>3. PICK i \in C : \A j \in C : i <= j
    <3>1. C \in SUBSET Nat
      BY <1>1
    <3>. HIDE DEF B, C
    <3>. QED  BY <2>1, <2>2, <3>1, LeastExists
  <2>4. Subrows(items, C) # <<>> /\ Head(Subrows(items, C)) = items[i]
    <3>. HIDE DEF C
    <3>. QED  BY <1>1, <2>3, FirstKept
  <2>. HIDE DEF found, first, last, A, B, C, exact, again
  <2>. QED  BY <1>3, <1>5, <1>6, <2>3, <2>4
<1>. HIDE DEF found, first, last
<1>. QED  BY <1>7, <1>8 DEF found, first, last, item, Lists!Failures, Lists!NotFound, Lists!Ambiguous, Lists!Invalid

-------------------------------------------------------------------------------
(* The guide, element after element. *)

Programmes == [kind : {"programme"}, channel : STRING, start : Nat, end : Nat]
GuideElements == [kind : {"channel"}, id : STRING] \cup Programmes
GuideType == [channels : SUBSET STRING, programs : SUBSET Programmes, error : BOOLEAN]

\* Reading one element keeps the type of a guide.
LEMMA ReadKeepsType ==
    ASSUME NEW g \in GuideType, NEW e \in GuideElements
    PROVE  Lists!Read(g, e) \in GuideType
<1>1. CASE g.error
  BY <1>1 DEF Lists!Read
<1>2. CASE ~g.error /\ e \in [kind : {"channel"}, id : STRING]
  <2>1. Lists!Read(g, e) = IF e.id = "" THEN g ELSE [g EXCEPT !.channels = @ \cup {e.id}]
    BY <1>2 DEF Lists!Read
  <2>2. g.channels \cup {e.id} \in SUBSET STRING
    BY <1>2 DEF GuideType
  <2>. QED  BY <2>1, <2>2 DEF GuideType
<1>3. CASE ~g.error /\ e \in Programmes
  <2>1. e.kind # "channel"
    BY <1>3 DEF Programmes
  <2>2. \/ Lists!Read(g, e) = [g EXCEPT !.programs = @ \cup {e}]
        \/ Lists!Read(g, e) = [g EXCEPT !.error = TRUE]
    BY <1>3, <2>1 DEF Lists!Read
  <2>3. g.programs \cup {e} \in SUBSET Programmes
    BY <1>3 DEF GuideType
  <2>. QED  BY <2>2, <2>3 DEF GuideType
<1>. QED  BY <1>1, <1>2, <1>3 DEF GuideElements

GuideStates(f, elements) ==
    f = [n \in 0..Len(elements) |-> IF n = 0 THEN Lists!Guide ELSE Lists!Read(f[n - 1], elements[n])]

\* A guide that was read has its type.
LEMMA GuideIsTyped ==
    ASSUME NEW elements \in Seq(GuideElements)
    PROVE  Lists!ParseXMLTV(elements) \in GuideType
<1>. DEFINE bound == Len(elements)
            step == [x \in (1..bound) \X GuideType |-> Lists!Read(x[2], elements[x[1]])]
            f == CHOOSE f : GuideStates(f, elements)
<1>1. bound \in Nat /\ \A n \in 1..bound : elements[n] \in GuideElements
  OBVIOUS
<1>2. Lists!Guide \in GuideType
  BY DEF Lists!Guide, GuideType
<1>. HIDE DEF bound
<1>3. step \in [(1..bound) \X GuideType -> GuideType]
  BY <1>1, ReadKeepsType
<1>4. \A n \in 1..bound, g \in GuideType : step[<<n, g>>] = Lists!Read(g, elements[n])
  OBVIOUS
<1>. HIDE DEF step
<1>5. PICK g : HasSteps(g, bound, GuideType, Lists!Guide, step)
  BY <1>1, <1>2, <1>3, StepsExist
<1>6. g \in [0..bound -> GuideType] /\ \A n \in 0..bound : g[n] = Stepped(g, Lists!Guide, step, n)
  BY <1>5 DEF HasSteps
<1>7. ASSUME NEW n \in 0..bound PROVE g[n] = IF n = 0 THEN Lists!Guide ELSE Lists!Read(g[n - 1], elements[n])
  <2>1. CASE n = 0
    BY <1>6, <2>1 DEF Stepped
  <2>2. CASE n # 0
    <3>1. n \in 1..bound /\ n - 1 \in 0..bound
      BY <1>1, <2>2
    <3>2. g[n - 1] \in GuideType
      BY <1>6, <3>1
    <3>. QED  BY <1>4, <1>6, <2>2, <3>1, <3>2 DEF Stepped
  <2>. QED  BY <2>1, <2>2
<1>8. g = [n \in 0..bound |-> g[n]]
  BY <1>6
<1>9. g = [n \in 0..bound |-> IF n = 0 THEN Lists!Guide ELSE Lists!Read(g[n - 1], elements[n])]
  BY <1>7, <1>8
<1>10. GuideStates(f, elements)
  BY <1>9 DEF GuideStates, bound
<1>11. Lists!ParseXMLTV(elements) = f[bound]
  BY DEF Lists!ParseXMLTV, GuideStates, bound
<1>. HIDE DEF f
<1>12. /\ f[0] = Lists!Guide
       /\ \A n \in 1..bound : f[n] = Lists!Read(f[n - 1], elements[n])
  <2>1. f = [n \in 0..bound |-> IF n = 0 THEN Lists!Guide ELSE Lists!Read(f[n - 1], elements[n])]
    BY <1>10 DEF GuideStates, bound
  <2>2. 0 \in 0..bound /\ \A n \in 1..bound : n \in 0..bound /\ n # 0
    BY <1>1
  <2>. QED  BY <2>1, <2>2
<1>. DEFINE Good == {n \in Nat : f[n] \in GuideType}
<1>13. 0..bound \subseteq Good
  <2>1. 0 \in Good
    BY <1>2, <1>12
  <2>2. ASSUME NEW n \in 0..(bound - 1), n \in Good PROVE n + 1 \in Good
    <3>1. n + 1 \in 1..bound /\ (n + 1) - 1 = n /\ n + 1 \in Nat
      BY <1>1
    <3>2. f[n + 1] = Lists!Read(f[n], elements[n + 1])
      BY <1>12, <3>1
    <3>. QED  BY <1>1, <2>2, <3>1, <3>2, ReadKeepsType
  <2>. HIDE DEF Good
  <2>. QED  BY <1>1, <2>1, <2>2, StepByStep
<1>14. bound \in 0..bound
  BY <1>1
<1>. QED  BY <1>11, <1>13, <1>14

-------------------------------------------------------------------------------
(* The parser, line after line. *)

ListTexts == STRING \cup {"", "missing-stream", "invalid-extinf", "orphan-stream"}
ListEntries == [kind : {"extinf", "bad", "extgrp", "url", "other"}, id : STRING, title : STRING, group : ListTexts,
                type : STRING, url : STRING]
ListItems == {Lists!Item(e, u, "s") : e \in ListEntries, u \in STRING}
ParserType ==
    [pending : Seq(ListEntries), group : ListTexts, batch : Seq(ListItems), total : Nat, warnings : Seq(ListTexts),
     out : Seq(ListItems), error : BOOLEAN]
IsParser(p) == p \in ParserType
Options == [items : Nat, batch : Nat]

\* What a line has.
LEMMA LineFields ==
    ASSUME NEW line \in Lists!Lines
    PROVE  /\ line \in ListEntries /\ line.url \in STRING /\ line.group \in STRING
           /\ line.kind \in {"extinf", "bad", "extgrp", "url", "other"}
BY DEF Lists!Lines, ListEntries, ListTexts

\* What the state of a parser has.
LEMMA ParserFields ==
    ASSUME NEW p, IsParser(p)
    PROVE  /\ p.pending \in Seq(ListEntries) /\ p.group \in ListTexts /\ p.batch \in Seq(ListItems)
           /\ p.total \in Nat /\ p.warnings \in Seq(ListTexts) /\ p.out \in Seq(ListItems) /\ p.error \in BOOLEAN
BY DEF IsParser, ParserType

\* A warning and an entry that gives way change the warnings only.
Alike(p, q) ==
    /\ q.pending = p.pending /\ q.group = p.group /\ q.batch = p.batch /\ q.total = p.total
    /\ q.out = p.out /\ q.error = p.error

\* A warning changes nothing but the warnings.
LEMMA WarnedStep ==
    ASSUME NEW p, IsParser(p), NEW code \in ListTexts
    PROVE  IsParser(Lists!Warned(p, code)) /\ Alike(p, Lists!Warned(p, code))
<1>. DEFINE q == [p EXCEPT !.warnings = Append(@, code)]
<1>1. p \in ParserType
  BY DEF IsParser
<1>2. Append(p.warnings, code) \in Seq(ListTexts)
  BY <1>1, AppendProperties DEF ParserType
<1>3. q \in ParserType /\ Alike(p, q)
  BY <1>1, <1>2 DEF ParserType, Alike
<1>4. Lists!Warned(p, code) = IF Len(p.warnings) >= MaxWarnings THEN p ELSE q
  BY DEF Lists!Warned
<1>. HIDE DEF q
<1>. QED  BY <1>1, <1>3, <1>4 DEF IsParser, Alike

\* An entry that is replaced before its address changes nothing but the warnings.
LEMMA ReplacedStep ==
    ASSUME NEW p, IsParser(p)
    PROVE  IsParser(Lists!Replaced(p)) /\ Alike(p, Lists!Replaced(p))
<1>1. "missing-stream" \in ListTexts
  BY DEF ListTexts
<1>. QED  BY <1>1, WarnedStep DEF Lists!Replaced, Alike

\* Storing a batch moves it to what was stored.
LEMMA FlushedStep ==
    ASSUME NEW p, IsParser(p)
    PROVE  /\ IsParser(Lists!Flushed(p)) /\ Lists!Flushed(p).error = p.error /\ Lists!Flushed(p).total = p.total
           /\ Lists!Flushed(p).pending = p.pending /\ Lists!Flushed(p).group = p.group
           /\ Lists!Flushed(p).batch = <<>> /\ Lists!Flushed(p).out = p.out \o p.batch
           /\ Lists!Flushed(p).warnings = p.warnings
<1>1. p.out \o p.batch \in Seq(ListItems) /\ <<>> \in Seq(ListItems)
  BY ParserFields, ConcatProperties, EmptySeq
<1>. QED  BY <1>1 DEF IsParser, ParserType, Lists!Flushed

\* The entry that waits gives an item.
Follower(p, batch) == [p EXCEPT !.batch = batch, !.total = @ + 1, !.pending = <<>>]
LongerBatch(p, url) == Append(p.batch, Lists!Item(p.pending[1], url, "s"))

\* An entry that is complete joins the batch and is counted.
LEMMA FollowerStep ==
    ASSUME NEW p, IsParser(p), p.pending # <<>>, NEW url \in STRING
    PROVE  LET q == Follower(p, LongerBatch(p, url)) IN
           /\ LongerBatch(p, url) \in Seq(ListItems)
           /\ IsParser(q) /\ q.pending = <<>> /\ q.group = p.group /\ q.batch = LongerBatch(p, url)
           /\ q.total = p.total + 1 /\ q.warnings = p.warnings /\ q.out = p.out /\ q.error = p.error
<1>. DEFINE batch == LongerBatch(p, url)
<1>1. p \in ParserType /\ p.pending \in Seq(ListEntries) /\ p.batch \in Seq(ListItems) /\ p.total \in Nat
  BY ParserFields DEF IsParser
<1>2. p.pending[1] \in ListEntries
  BY <1>1, EmptySeq, LenProperties, ElementOfSeq
<1>3. Lists!Item(p.pending[1], url, "s") \in ListItems
  BY <1>2 DEF ListItems
<1>4. batch \in Seq(ListItems) /\ <<>> \in Seq(ListEntries) /\ p.total + 1 \in Nat
  BY <1>1, <1>3, AppendProperties, EmptySeq DEF LongerBatch
<1>. HIDE DEF batch
<1>. DEFINE longer == [p EXCEPT !.batch = batch]
            counted == [longer EXCEPT !.total = @ + 1]
            next == [counted EXCEPT !.pending = <<>>]
<1>5. /\ longer \in ParserType /\ longer.pending = p.pending /\ longer.group = p.group /\ longer.batch = batch
      /\ longer.total = p.total /\ longer.warnings = p.warnings /\ longer.out = p.out /\ longer.error = p.error
  BY <1>1, <1>4 DEF ParserType
<1>. HIDE DEF longer
<1>6. /\ counted \in ParserType /\ counted.group = p.group /\ counted.batch = batch
      /\ counted.total = p.total + 1 /\ counted.warnings = p.warnings /\ counted.out = p.out /\ counted.error = p.error
  <2>1. longer.total + 1 \in Nat
    BY <1>4, <1>5
  <2>. QED  BY <1>5, <2>1 DEF ParserType
<1>. HIDE DEF counted
<1>7. /\ next \in ParserType /\ next.pending = <<>> /\ next.group = p.group /\ next.batch = batch
      /\ next.total = p.total + 1 /\ next.warnings = p.warnings /\ next.out = p.out /\ next.error = p.error
  BY <1>4, <1>6 DEF ParserType
<1>8. Follower(p, batch) = next
  BY DEF Follower, counted, longer
<1>. HIDE DEF next
<1>. QED  BY <1>4, <1>7, <1>8 DEF IsParser, batch

\* An address completes an entry: beyond the limit, at the end of a batch, within one.
LEMMA TakenCases ==
    ASSUME NEW p, NEW url, NEW o
    PROVE  Lists!Taken(p, url, "s", o) =
             IF p.total >= o.items THEN [p EXCEPT !.error = TRUE]
             ELSE IF Len(LongerBatch(p, url)) >= o.batch THEN Lists!Flushed(Follower(p, LongerBatch(p, url)))
             ELSE Follower(p, LongerBatch(p, url))
BY DEF Lists!Taken, Follower, LongerBatch

\* Completing an entry keeps the type of the parser.
LEMMA TakenStep ==
    ASSUME NEW p, IsParser(p), p.pending # <<>>, NEW url \in STRING, NEW o
    PROVE  IsParser(Lists!Taken(p, url, "s", o))
<1>1. IsParser([p EXCEPT !.error = TRUE])
  BY DEF IsParser, ParserType
<1>. DEFINE next == Follower(p, LongerBatch(p, url))
<1>2. IsParser(next)
  BY FollowerStep
<1>. HIDE DEF next
<1>3. IsParser(Lists!Flushed(next))
  BY <1>2, FlushedStep
<1>4. \/ Lists!Taken(p, url, "s", o) = [p EXCEPT !.error = TRUE]
      \/ Lists!Taken(p, url, "s", o) = Lists!Flushed(next)
      \/ Lists!Taken(p, url, "s", o) = next
  BY TakenCases DEF next
<1>. QED  BY <1>1, <1>2, <1>3, <1>4

\* What each kind of line makes of a parser that goes on.
GoesOn(p, q, line, o) ==
    LET r == Lists!Replaced(p) IN
    /\ line.kind = "extinf" => q = [r EXCEPT !.pending = <<Lists!Grouped(line, p.group)>>]
    /\ line.kind = "bad" => q = [Lists!Warned(r, "invalid-extinf") EXCEPT !.pending = <<>>]
    /\ line.kind = "extgrp" =>
        q = [p EXCEPT !.group = line.group,
                      !.pending = [n \in DOMAIN p.pending |-> Lists!Grouped(p.pending[n], line.group)]]
    /\ line.kind = "url" /\ p.pending = <<>> => q = Lists!Warned(p, "orphan-stream")
    /\ line.kind = "url" /\ p.pending # <<>> => q = Lists!Taken(p, line.url, "s", o)
    /\ line.kind = "other" => q = p

\* A line either goes on or, after an error, changes nothing.
LEMMA ParsedCases ==
    ASSUME NEW p, NEW line, NEW o
    PROVE  /\ p.error => Lists!Parsed(p, line, "s", o) = p
           /\ ~p.error => GoesOn(p, Lists!Parsed(p, line, "s", o), line, o)
<1>. DEFINE q == Lists!Parsed(p, line, "s", o)
<1>1. p.error => q = p
  BY DEF Lists!Parsed
<1>2. ASSUME ~p.error PROVE GoesOn(p, q, line, o)
  <2>1. CASE line.kind = "extinf"
    BY <1>2, <2>1 DEF Lists!Parsed, GoesOn
  <2>2. CASE line.kind = "bad"
    BY <1>2, <2>2 DEF Lists!Parsed, GoesOn
  <2>3. CASE line.kind = "extgrp"
    BY <1>2, <2>3 DEF Lists!Parsed, GoesOn
  <2>4. CASE line.kind = "url" /\ p.pending = <<>>
    BY <1>2, <2>4 DEF Lists!Parsed, GoesOn
  <2>5. CASE line.kind = "url" /\ p.pending # <<>>
    BY <1>2, <2>5 DEF Lists!Parsed, GoesOn
  <2>6. CASE line.kind = "other"
    BY <1>2, <2>6 DEF Lists!Parsed, GoesOn
  <2>7. CASE line.kind \notin {"extinf", "bad", "extgrp", "url", "other"}
    BY <2>7 DEF GoesOn
  <2>. HIDE DEF q
  <2>. QED  BY <2>7, <2>6, <2>5, <2>4, <2>3, <2>2, <2>1
<1>. QED  BY <1>1, <1>2

\* A line keeps the type of the parser.
LEMMA ParsedStep ==
    ASSUME NEW p, IsParser(p), NEW line \in Lists!Lines, NEW o
    PROVE  IsParser(Lists!Parsed(p, line, "s", o))
<1>. DEFINE q == Lists!Parsed(p, line, "s", o)
            r == Lists!Replaced(p)
<1>1. /\ line \in ListEntries /\ line.url \in STRING /\ line.group \in ListTexts
      /\ line.kind \in {"extinf", "bad", "extgrp", "url", "other"}
      /\ "invalid-extinf" \in ListTexts /\ "orphan-stream" \in ListTexts
  BY LineFields DEF ListTexts
<1>2. p \in ParserType /\ p.pending \in Seq(ListEntries) /\ p.group \in ListTexts
  BY ParserFields DEF IsParser
<1>3. r \in ParserType /\ IsParser(r)
  BY ReplacedStep DEF IsParser
<1>0. (p.error => q = p) /\ (~p.error => GoesOn(p, q, line, o))
  BY ParsedCases
<1>. HIDE DEF q
<1>4. CASE p.error
  BY <1>0, <1>4 DEF q
<1>5. CASE ~p.error /\ line.kind = "extinf"
  <2>. DEFINE entry == Lists!Grouped(line, p.group)
  <2>1. entry \in ListEntries
    BY <1>1, <1>2 DEF Lists!Grouped, ListEntries
  <2>2. q = [r EXCEPT !.pending = <<entry>>]
    BY <1>0, <1>5 DEF GoesOn
  <2>. HIDE DEF entry, r
  <2>3. <<entry>> \in Seq(ListEntries)
    BY <2>1
  <2>4. q \in ParserType
    BY <1>3, <2>2, <2>3 DEF ParserType
  <2>. QED  BY <2>4 DEF IsParser, q
<1>6. CASE ~p.error /\ line.kind = "bad"
  <2>. DEFINE w == Lists!Warned(r, "invalid-extinf")
  <2>1. q = [w EXCEPT !.pending = <<>>]
    BY <1>0, <1>6 DEF GoesOn
  <2>2. IsParser(w) /\ <<>> \in Seq(ListEntries)
    BY <1>1, <1>3, WarnedStep, EmptySeq
  <2>. HIDE DEF w
  <2>3. q \in ParserType
    BY <2>1, <2>2 DEF IsParser, ParserType
  <2>. QED  BY <2>3 DEF IsParser, q
<1>7. CASE ~p.error /\ line.kind = "extgrp"
  <2>. DEFINE pending == [n \in DOMAIN p.pending |-> Lists!Grouped(p.pending[n], line.group)]
  <2>1. pending \in Seq(ListEntries)
    <3>1. \A e \in ListEntries : Lists!Grouped(e, line.group) \in ListEntries
      BY <1>1 DEF ListEntries, Lists!Grouped
    <3>2. Len(p.pending) \in Nat /\ DOMAIN p.pending = 1..Len(p.pending) /\ \A n \in 1..Len(p.pending) : p.pending[n] \in ListEntries
      BY <1>2, LenProperties, ElementOfSeq
    <3>3. pending \in [1..Len(p.pending) -> ListEntries]
      BY <3>1, <3>2
    <3>. QED  BY <3>2, <3>3, SeqDef
  <2>2. q = [p EXCEPT !.group = line.group, !.pending = pending]
    BY <1>0, <1>7 DEF GoesOn
  <2>. HIDE DEF pending
  <2>3. q \in ParserType
    BY <1>1, <1>2, <2>1, <2>2 DEF ParserType
  <2>. QED  BY <2>3 DEF IsParser, q
<1>8. CASE ~p.error /\ line.kind = "url" /\ p.pending = <<>>
  BY <1>0, <1>1, <1>8, WarnedStep DEF GoesOn, q
<1>9. CASE ~p.error /\ line.kind = "url" /\ p.pending # <<>>
  BY <1>0, <1>1, <1>9, TakenStep DEF GoesOn, q
<1>10. CASE ~p.error /\ line.kind = "other"
  BY <1>0, <1>10 DEF GoesOn, q
<1>. QED  BY <1>1, <1>4, <1>5, <1>6, <1>7, <1>8, <1>9, <1>10

\* What a parser has in hand is handed over at once: the same as at the end.
LEMMA SameParser ==
    ASSUME NEW p \in ParserType, NEW q \in ParserType, Alike(p, q), q.warnings = p.warnings
    PROVE  p = q
BY DEF ParserType, Alike

\* Storing twice is storing once.
LEMMA FlushedTwice ==
    ASSUME NEW p, IsParser(p)
    PROVE  Lists!Flushed(Lists!Flushed(p)) = Lists!Flushed(p)
<1>. DEFINE q == Lists!Flushed(p)
            r == Lists!Flushed(q)
<1>1. /\ IsParser(q) /\ q.batch = <<>> /\ q.out \in Seq(ListItems)
  BY FlushedStep, ParserFields
<1>2. /\ IsParser(r) /\ r.error = q.error /\ r.total = q.total /\ r.pending = q.pending /\ r.group = q.group
      /\ r.batch = <<>> /\ r.out = q.out \o q.batch /\ r.warnings = q.warnings
  BY <1>1, FlushedStep
<1>. HIDE DEF q, r
<1>3. q.out \o q.batch = q.out
  BY <1>1, ConcatEmptySeq
<1>4. Alike(q, r)
  BY <1>1, <1>2, <1>3 DEF Alike
<1>. QED  BY <1>1, <1>2, <1>4, SameParser DEF IsParser, q, r

\* A warning commutes with storing the batch.
LEMMA WarnedFlushed ==
    ASSUME NEW p, IsParser(p), NEW code
    PROVE  Lists!Warned(Lists!Flushed(p), code) = Lists!Flushed(Lists!Warned(p, code))
BY DEF Lists!Warned, Lists!Flushed, IsParser, ParserType

\* So does the warning of an entry that is replaced.
LEMMA ReplacedFlushed ==
    ASSUME NEW p, IsParser(p)
    PROVE  Lists!Replaced(Lists!Flushed(p)) = Lists!Flushed(Lists!Replaced(p))
<1>1. Lists!Flushed(p).pending = p.pending
  BY FlushedStep
<1>2. Lists!Warned(Lists!Flushed(p), "missing-stream") = Lists!Flushed(Lists!Warned(p, "missing-stream"))
  BY WarnedFlushed
<1>. QED  BY <1>1, <1>2 DEF Lists!Replaced

\* So do the changes to the entry under way and to the error.
LEMMA FieldsFlushed ==
    ASSUME NEW p, IsParser(p), NEW pending
    PROVE  /\ Lists!Flushed([p EXCEPT !.pending = pending]) = [Lists!Flushed(p) EXCEPT !.pending = pending]
           /\ Lists!Flushed([p EXCEPT !.error = TRUE]) = [Lists!Flushed(p) EXCEPT !.error = TRUE]
BY DEF Lists!Flushed, IsParser, ParserType

\* An address taken into a batch of any size, and into one of size 1.
LEMMA TakenFlushed ==
    ASSUME NEW p, IsParser(p), p.pending # <<>>, NEW url \in STRING, NEW o, NEW one,
           one.items = o.items, one.batch = 1
    PROVE  Lists!Flushed(Lists!Taken(p, url, "s", o)) = Lists!Taken(Lists!Flushed(p), url, "s", one)
<1>. DEFINE f == Lists!Flushed(p)
            item == Lists!Item(p.pending[1], url, "s")
            next == Follower(p, LongerBatch(p, url))
            last == Follower(f, LongerBatch(f, url))
<1>1. /\ IsParser(f) /\ f.error = p.error /\ f.total = p.total /\ f.pending = p.pending /\ f.group = p.group
      /\ f.batch = <<>> /\ f.out = p.out \o p.batch /\ f.warnings = p.warnings
  BY FlushedStep
<1>2. p.total \in Nat /\ p.batch \in Seq(ListItems) /\ p.out \in Seq(ListItems)
  BY ParserFields
<1>. HIDE DEF f
<1>3. CASE p.total >= o.items
  <2>1. Lists!Taken(p, url, "s", o) = [p EXCEPT !.error = TRUE]
    BY <1>3, TakenCases
  <2>2. Lists!Taken(f, url, "s", one) = [f EXCEPT !.error = TRUE]
    BY <1>1, <1>3, TakenCases
  <2>. QED  BY <2>1, <2>2, FieldsFlushed DEF f
<1>4. CASE ~(p.total >= o.items)
  <2>1. LongerBatch(p, url) = Append(p.batch, item) /\ LongerBatch(f, url) = Append(<<>>, item)
    BY <1>1 DEF LongerBatch
  <2>2. /\ LongerBatch(p, url) \in Seq(ListItems)
        /\ IsParser(next) /\ next.pending = <<>> /\ next.group = p.group /\ next.batch = LongerBatch(p, url)
        /\ next.total = p.total + 1 /\ next.warnings = p.warnings /\ next.out = p.out /\ next.error = p.error
    BY FollowerStep
  <2>3. /\ IsParser(last) /\ last.pending = <<>> /\ last.group = f.group /\ last.batch = LongerBatch(f, url)
        /\ last.total = f.total + 1 /\ last.warnings = f.warnings /\ last.out = f.out /\ last.error = f.error
    BY <1>1, FollowerStep
  <2>4. item \in ListItems
    <3>1. p.pending \in Seq(ListEntries)
      BY ParserFields
    <3>2. p.pending[1] \in ListEntries
      BY <3>1, EmptySeq, LenProperties, ElementOfSeq
    <3>. QED  BY <3>2 DEF ListItems
  <2>. HIDE DEF next, last, item
  <2>5. Len(LongerBatch(f, url)) = 1
    BY <2>1, <2>4
  <2>6. Lists!Taken(f, url, "s", one) = Lists!Flushed(last)
    <3>1. Lists!Taken(f, url, "s", one) =
             IF f.total >= one.items THEN [f EXCEPT !.error = TRUE]
             ELSE IF Len(LongerBatch(f, url)) >= one.batch THEN Lists!Flushed(Follower(f, LongerBatch(f, url)))
             ELSE Follower(f, LongerBatch(f, url))
      BY TakenCases
    <3>2. ~(f.total >= one.items) /\ Len(LongerBatch(f, url)) >= one.batch
      BY <1>1, <1>4, <2>5
    <3>. QED  BY <3>1, <3>2 DEF last
  <2>7. Lists!Flushed(Lists!Taken(p, url, "s", o)) = Lists!Flushed(next)
    <3>1. Lists!Taken(p, url, "s", o) = Lists!Flushed(next) \/ Lists!Taken(p, url, "s", o) = next
      BY <1>4, TakenCases DEF next
    <3>2. Lists!Flushed(Lists!Flushed(next)) = Lists!Flushed(next)
      BY <2>2, FlushedTwice
    <3>. QED  BY <3>1, <3>2
  <2>. DEFINE q == Lists!Flushed(next)
              r == Lists!Flushed(last)
  <2>8. /\ IsParser(q) /\ q.error = next.error /\ q.total = next.total /\ q.pending = next.pending
        /\ q.group = next.group /\ q.batch = <<>> /\ q.out = next.out \o next.batch /\ q.warnings = next.warnings
    BY <2>2, FlushedStep
  <2>9. /\ IsParser(r) /\ r.error = last.error /\ r.total = last.total /\ r.pending = last.pending
        /\ r.group = last.group /\ r.batch = <<>> /\ r.out = last.out \o last.batch /\ r.warnings = last.warnings
    BY <2>3, FlushedStep
  <2>10. (p.out \o p.batch) \o Append(<<>>, item) = p.out \o Append(p.batch, item)
    <3>. DEFINE a == p.out
                b == p.batch
    <3>1. a \in Seq(ListItems) /\ b \in Seq(ListItems)
      BY <1>2
    <3>. HIDE DEF a, b
    <3>2. Append(b, item) = b \o <<item>> /\ Append(<<>>, item) = <<item>> /\ <<item>> \in Seq(ListItems)
      BY <2>4, <3>1, AppendIsConcat, EmptySeq
    <3>3. (a \o b) \o <<item>> = a \o (b \o <<item>>)
      BY <3>1, <3>2, ConcatAssociative
    <3>. QED  BY <3>2, <3>3 DEF a, b
  <2>. HIDE DEF q, r
  <2>11. r.out = q.out
    BY <1>1, <2>10, <2>9, <2>8, <2>3, <2>2, <2>1
  <2>12. Alike(q, r) /\ r.warnings = q.warnings
    BY <1>1, <2>11, <2>9, <2>8, <2>3, <2>2 DEF Alike
  <2>13. q = r
    BY <2>8, <2>9, <2>12, SameParser DEF IsParser
  <2>. QED  BY <2>6, <2>7, <2>13 DEF q, r, f
<1>. QED  BY <1>3, <1>4

\* A line commutes with storing the batch: the size of the batches makes no difference.
LEMMA ParsedFlushed ==
    ASSUME NEW p, IsParser(p), NEW line \in Lists!Lines, NEW o, NEW one, one.items = o.items, one.batch = 1
    PROVE  Lists!Flushed(Lists!Parsed(p, line, "s", o)) = Lists!Parsed(Lists!Flushed(p), line, "s", one)
<1>. DEFINE f == Lists!Flushed(p)
            q == Lists!Parsed(p, line, "s", o)
            u == Lists!Parsed(f, line, "s", one)
<1>1. /\ line.url \in STRING /\ line.kind \in {"extinf", "bad", "extgrp", "url", "other"}
  BY LineFields
<1>2. IsParser(f) /\ f.error = p.error /\ f.pending = p.pending /\ f.group = p.group
  BY FlushedStep
<1>3. (p.error => q = p) /\ (~p.error => GoesOn(p, q, line, o))
  BY ParsedCases
<1>4. (f.error => u = f) /\ (~f.error => GoesOn(f, u, line, one))
  BY ParsedCases
<1>5. Lists!Replaced(f) = Lists!Flushed(Lists!Replaced(p)) /\ IsParser(Lists!Replaced(p))
  BY ReplacedFlushed, ReplacedStep
<1>. HIDE DEF q, u
<1>6. CASE p.error
  BY <1>2, <1>3, <1>4, <1>6 DEF q, u
<1>7. CASE ~p.error /\ line.kind = "extinf"
  <2>. DEFINE r == Lists!Replaced(p)
              pending == <<Lists!Grouped(line, p.group)>>
  <2>1. q = [r EXCEPT !.pending = pending]
    BY <1>3, <1>7 DEF GoesOn
  <2>2. u = [Lists!Replaced(f) EXCEPT !.pending = pending]
    BY <1>2, <1>4, <1>7 DEF GoesOn
  <2>3. Lists!Flushed([r EXCEPT !.pending = pending]) = [Lists!Flushed(r) EXCEPT !.pending = pending]
    BY <1>5, FieldsFlushed
  <2>. HIDE DEF pending, r, f
  <2>. QED  BY <1>5, <2>1, <2>2, <2>3 DEF q, u, r, f
<1>8. CASE ~p.error /\ line.kind = "bad"
  <2>. DEFINE r == Lists!Replaced(p)
              w == Lists!Warned(r, "invalid-extinf")
  <2>1. q = [w EXCEPT !.pending = <<>>]
    BY <1>3, <1>8 DEF GoesOn
  <2>2. u = [Lists!Warned(Lists!Replaced(f), "invalid-extinf") EXCEPT !.pending = <<>>]
    BY <1>2, <1>4, <1>8 DEF GoesOn
  <2>3. Lists!Warned(Lists!Replaced(f), "invalid-extinf") = Lists!Flushed(w) /\ IsParser(w)
    <3>1. "invalid-extinf" \in ListTexts
      BY DEF ListTexts
    <3>. QED  BY <1>5, <3>1, WarnedFlushed, WarnedStep
  <2>. HIDE DEF w
  <2>4. Lists!Flushed([w EXCEPT !.pending = <<>>]) = [Lists!Flushed(w) EXCEPT !.pending = <<>>]
    BY <2>3, FieldsFlushed
  <2>5. Lists!Flushed(q) = u
    BY <2>4, <2>3, <2>2, <2>1
  <2>. QED  BY <2>5 DEF q, u
<1>9. CASE ~p.error /\ line.kind = "extgrp"
  <2>. DEFINE pending == [n \in DOMAIN p.pending |-> Lists!Grouped(p.pending[n], line.group)]
  <2>1. q = [p EXCEPT !.group = line.group, !.pending = pending]
    BY <1>3, <1>9 DEF GoesOn
  <2>2. u = [f EXCEPT !.group = line.group, !.pending = pending]
    BY <1>2, <1>4, <1>9 DEF GoesOn
  <2>. HIDE DEF pending
  <2>3. Lists!Flushed([p EXCEPT !.group = line.group, !.pending = pending]) = [f EXCEPT !.group = line.group, !.pending = pending]
    <3>. DEFINE group == line.group
    <3>. HIDE DEF group, f
    <3>1. Lists!Flushed([p EXCEPT !.group = group, !.pending = pending])
            = [Lists!Flushed(p) EXCEPT !.group = group, !.pending = pending]
      BY DEF Lists!Flushed, IsParser, ParserType
    <3>. QED  BY <3>1 DEF group, f
  <2>. QED  BY <2>1, <2>2, <2>3 DEF q, u
<1>10. CASE ~p.error /\ line.kind = "url" /\ p.pending = <<>>
  <2>1. q = Lists!Warned(p, "orphan-stream")
    BY <1>3, <1>10 DEF GoesOn
  <2>2. u = Lists!Warned(f, "orphan-stream")
    BY <1>2, <1>4, <1>10 DEF GoesOn
  <2>. QED  BY <2>1, <2>2, WarnedFlushed DEF q, u
<1>11. CASE ~p.error /\ line.kind = "url" /\ p.pending # <<>>
  <2>1. q = Lists!Taken(p, line.url, "s", o)
    BY <1>3, <1>11 DEF GoesOn
  <2>2. u = Lists!Taken(f, line.url, "s", one)
    BY <1>2, <1>4, <1>11 DEF GoesOn
  <2>3. Lists!Flushed(Lists!Taken(p, line.url, "s", o)) = Lists!Taken(Lists!Flushed(p), line.url, "s", one)
    BY <1>1, <1>11, TakenFlushed
  <2>. QED  BY <2>1, <2>2, <2>3 DEF q, u
<1>12. CASE ~p.error /\ line.kind = "other"
  <2>1. q = p /\ u = f
    BY <1>2, <1>3, <1>4, <1>12 DEF GoesOn
  <2>. QED  BY <2>1 DEF q, u
<1>. QED  BY <1>1, <1>6, <1>7, <1>8, <1>9, <1>10, <1>11, <1>12

StatesOf(f, lines, o) ==
    f = [n \in 0..Len(lines) |-> IF n = 0 THEN Lists!Parser ELSE Lists!Parsed(f[n - 1], lines[n], "s", o)]

\* The parser starts typed.
LEMMA ParserIsTyped == IsParser(Lists!Parser)
<1>1. <<>> \in Seq(ListEntries) /\ <<>> \in Seq(ListItems) /\ <<>> \in Seq(ListTexts) /\ "" \in ListTexts
  BY EmptySeq DEF ListTexts
<1>. QED  BY <1>1 DEF Lists!Parser, IsParser, ParserType

\* The states of the parser exist for every playlist, each by the one before it.
LEMMA StatesFollow ==
    ASSUME NEW lines \in Seq(Lists!Lines), NEW o
    PROVE  LET g == Lists!ParserStates(lines, "s", o) IN
           /\ g[0] = Lists!Parser
           /\ \A n \in 1..Len(lines) : g[n] = Lists!Parsed(g[n - 1], lines[n], "s", o)
           /\ \A n \in 0..Len(lines) : IsParser(g[n])
<1>. DEFINE bound == Len(lines)
            step == [x \in (1..bound) \X ParserType |-> Lists!Parsed(x[2], lines[x[1]], "s", o)]
            f == CHOOSE f : StatesOf(f, lines, o)
<1>1. bound \in Nat /\ \A n \in 1..bound : lines[n] \in Lists!Lines
  BY LenProperties, ElementOfSeq
<1>2. Lists!Parser \in ParserType
  BY ParserIsTyped DEF IsParser
<1>. HIDE DEF bound
<1>3. step \in [(1..bound) \X ParserType -> ParserType]
  BY <1>1, ParsedStep DEF IsParser
<1>4. \A n \in 1..bound, p \in ParserType : step[<<n, p>>] = Lists!Parsed(p, lines[n], "s", o)
  OBVIOUS
<1>. HIDE DEF step
<1>5. PICK g : HasSteps(g, bound, ParserType, Lists!Parser, step)
  BY <1>1, <1>2, <1>3, StepsExist
<1>6. g \in [0..bound -> ParserType] /\ \A n \in 0..bound : g[n] = Stepped(g, Lists!Parser, step, n)
  BY <1>5 DEF HasSteps
<1>7. ASSUME NEW n \in 0..bound PROVE g[n] = IF n = 0 THEN Lists!Parser ELSE Lists!Parsed(g[n - 1], lines[n], "s", o)
  <2>1. CASE n = 0
    BY <1>6, <2>1 DEF Stepped
  <2>2. CASE n # 0
    <3>1. n \in 1..bound /\ n - 1 \in 0..bound
      BY <1>1, <2>2
    <3>2. g[n - 1] \in ParserType
      BY <1>6, <3>1
    <3>. QED  BY <1>4, <1>6, <2>2, <3>1, <3>2 DEF Stepped
  <2>. QED  BY <2>1, <2>2
<1>8. g = [n \in 0..bound |-> g[n]]
  BY <1>6
<1>9. g = [n \in 0..bound |-> IF n = 0 THEN Lists!Parser ELSE Lists!Parsed(g[n - 1], lines[n], "s", o)]
  BY <1>7, <1>8
<1>10. StatesOf(f, lines, o)
  BY <1>9 DEF StatesOf, bound
<1>11. Lists!ParserStates(lines, "s", o) = f
  BY DEF Lists!ParserStates, StatesOf
<1>. HIDE DEF f
<1>12. /\ f[0] = Lists!Parser
       /\ \A n \in 1..bound : f[n] = Lists!Parsed(f[n - 1], lines[n], "s", o)
  <2>1. f = [n \in 0..bound |-> IF n = 0 THEN Lists!Parser ELSE Lists!Parsed(f[n - 1], lines[n], "s", o)]
    BY <1>10 DEF StatesOf, bound
  <2>2. 0 \in 0..bound /\ \A n \in 1..bound : n \in 0..bound /\ n # 0
    BY <1>1
  <2>. QED  BY <2>1, <2>2
<1>. DEFINE Good == {n \in Nat : IsParser(f[n])}
<1>13. 0..bound \subseteq Good
  <2>1. 0 \in Good
    BY <1>12, ParserIsTyped
  <2>2. ASSUME NEW n \in 0..(bound - 1), n \in Good PROVE n + 1 \in Good
    <3>1. n + 1 \in 1..bound /\ (n + 1) - 1 = n /\ n + 1 \in Nat
      BY <1>1
    <3>2. f[n + 1] = Lists!Parsed(f[n], lines[n + 1], "s", o)
      BY <1>12, <3>1
    <3>. QED  BY <1>1, <2>2, <3>1, <3>2, ParsedStep
  <2>. HIDE DEF Good
  <2>. QED  BY <1>1, <2>1, <2>2, StepByStep
<1>14. \A n \in 0..bound : IsParser(f[n])
  BY <1>13
<1>. QED  BY <1>11, <1>12, <1>14 DEF bound

\* Where the batches end makes no difference to what is handed over.
LEMMA StatesFlushed ==
    ASSUME NEW lines \in Seq(Lists!Lines), NEW o, NEW one, one.items = o.items, one.batch = 1
    PROVE  Lists!Flushed(Lists!ParserStates(lines, "s", o)[Len(lines)])
                = Lists!ParserStates(lines, "s", one)[Len(lines)]
<1>. DEFINE g == Lists!ParserStates(lines, "s", o)
            h == Lists!ParserStates(lines, "s", one)
            bound == Len(lines)
<1>1. /\ g[0] = Lists!Parser
      /\ \A n \in 1..bound : g[n] = Lists!Parsed(g[n - 1], lines[n], "s", o)
      /\ \A n \in 0..bound : IsParser(g[n])
  BY StatesFollow
<1>2. /\ h[0] = Lists!Parser
      /\ \A n \in 1..bound : h[n] = Lists!Parsed(h[n - 1], lines[n], "s", one)
  BY StatesFollow
<1>3. bound \in Nat /\ \A n \in 1..bound : lines[n] \in Lists!Lines
  BY LenProperties, ElementOfSeq
<1>. HIDE DEF g, h, bound
<1>. DEFINE Good == {n \in Nat : Lists!Flushed(g[n]) = h[n]}
<1>4. 0..bound \subseteq Good
  <2>1. 0 \in Good
    <3>. DEFINE p == Lists!Parser
                q == Lists!Flushed(p)
    <3>1. p.batch = <<>> /\ p.out = <<>> /\ <<>> \o <<>> = <<>>
      BY DEF Lists!Parser
    <3>2. IsParser(p)
      BY ParserIsTyped
    <3>. HIDE DEF p
    <3>3. /\ IsParser(q) /\ q.error = p.error /\ q.total = p.total /\ q.pending = p.pending /\ q.group = p.group
          /\ q.batch = <<>> /\ q.out = p.out \o p.batch /\ q.warnings = p.warnings
      BY <3>2, FlushedStep
    <3>. HIDE DEF q
    <3>4. Alike(p, q)
      BY <3>1, <3>3 DEF Alike
    <3>5. p = q
      BY <3>2, <3>3, <3>4, SameParser DEF IsParser
    <3>. QED  BY <1>1, <1>2, <3>5 DEF p, q
  <2>2. ASSUME NEW n \in 0..(bound - 1), n \in Good PROVE n + 1 \in Good
    <3>1. n + 1 \in 1..bound /\ (n + 1) - 1 = n /\ n + 1 \in Nat /\ n \in 0..bound
      BY <1>3
    <3>2. g[n + 1] = Lists!Parsed(g[n], lines[n + 1], "s", o) /\ IsParser(g[n])
      BY <1>1, <3>1
    <3>3. h[n + 1] = Lists!Parsed(h[n], lines[n + 1], "s", one)
      BY <1>2, <3>1
    <3>4. Lists!Flushed(Lists!Parsed(g[n], lines[n + 1], "s", o)) = Lists!Parsed(Lists!Flushed(g[n]), lines[n + 1], "s", one)
      BY <1>3, <3>1, <3>2, ParsedFlushed
    <3>. QED  BY <2>2, <3>1, <3>2, <3>3, <3>4
  <2>. HIDE DEF Good
  <2>. QED  BY <1>3, <2>1, <2>2, StepByStep
<1>5. bound \in 0..bound
  BY <1>3
<1>. QED  BY <1>4, <1>5 DEF g, h, bound

\* A parse in batches is one that stores each entry by itself.
LEMMA ParseIsFlushed ==
    ASSUME NEW lines \in Seq(Lists!Lines), NEW o, NEW one, one.items = o.items, one.batch = 1
    PROVE  LET q == Lists!ParserStates(lines, "s", one)[Len(lines)]
               r == Lists!Parse(lines, "s", o) IN
           /\ IsParser(q) /\ r.error = q.error
           /\ ~q.error => r = Lists!Replaced(q)
<1>. DEFINE p == Lists!ParserStates(lines, "s", o)[Len(lines)]
            q == Lists!ParserStates(lines, "s", one)[Len(lines)]
            r == Lists!Parse(lines, "s", o)
<1>1. IsParser(p) /\ IsParser(q)
  <2>1. Len(lines) \in 0..Len(lines)
    BY LenProperties
  <2>. QED  BY <2>1, StatesFollow
<1>2. q = Lists!Flushed(p)
  BY StatesFlushed
<1>3. r = Lists!Finished(p)
  BY DEF Lists!Parse
<1>. HIDE DEF p, q, r
<1>4. q.error = p.error
  BY <1>1, <1>2, FlushedStep
<1>5. CASE p.error
  BY <1>1, <1>3, <1>4, <1>5 DEF Lists!Finished, p, q, r
<1>6. CASE ~p.error
  <2>1. r = Lists!Flushed(Lists!Replaced(p))
    BY <1>3, <1>6 DEF Lists!Finished
  <2>2. Lists!Flushed(Lists!Replaced(p)) = Lists!Replaced(q)
    BY <1>1, <1>2, ReplacedFlushed
  <2>3. Lists!Replaced(q).error = q.error
    BY <1>1, ReplacedStep DEF Alike
  <2>. QED  BY <1>1, <2>1, <2>2, <2>3 DEF q, r
<1>. QED  BY <1>5, <1>6

-------------------------------------------------------------------------------
(* The entries of a playlist, and those the parser has counted. *)

Tallied(p) == Len(p.out) + Len(p.batch) = p.total

\* A line counts the entry it completes, or is the one beyond the limit.
LEMMA ParsedCounts ==
    ASSUME NEW p, IsParser(p), Tallied(p), ~p.error, NEW line \in Lists!Lines, NEW o, o.items \in Nat
    PROVE  LET q == Lists!Parsed(p, line, "s", o)
               completes == line.kind = "url" /\ p.pending # <<>> IN
           /\ completes /\ p.total >= o.items => q.error
           /\ ~(completes /\ p.total >= o.items) =>
                /\ ~q.error /\ Tallied(q)
                /\ completes => q.total = p.total + 1
                /\ ~completes => q.total = p.total
                /\ q.pending # <<>> <=> (line.kind = "extinf" \/ (line.kind \in {"extgrp", "other"} /\ p.pending # <<>>))
<1>. DEFINE q == Lists!Parsed(p, line, "s", o)
            r == Lists!Replaced(p)
            completes == line.kind = "url" /\ p.pending # <<>>
            Goal == /\ completes /\ p.total >= o.items => q.error
                    /\ ~(completes /\ p.total >= o.items) =>
                        /\ ~q.error /\ Tallied(q)
                        /\ completes => q.total = p.total + 1
                        /\ ~completes => q.total = p.total
                        /\ q.pending # <<>> <=> (line.kind = "extinf" \/ (line.kind \in {"extgrp", "other"} /\ p.pending # <<>>))
<1>1. /\ line.url \in STRING /\ line.kind \in {"extinf", "bad", "extgrp", "url", "other"}
      /\ "invalid-extinf" \in ListTexts /\ "orphan-stream" \in ListTexts
  BY LineFields DEF ListTexts
<1>2. GoesOn(p, q, line, o)
  BY ParsedCases
<1>3. IsParser(r) /\ Alike(p, r)
  BY ReplacedStep
<1>4. p \in ParserType /\ p.pending \in Seq(ListEntries) /\ p.batch \in Seq(ListItems) /\ p.total \in Nat /\ p.out \in Seq(ListItems)
  BY ParserFields DEF IsParser
<1>. HIDE DEF q, r
<1>5. CASE line.kind = "extinf"
  <2>. DEFINE pending == <<Lists!Grouped(line, p.group)>>
  <2>1. q = [r EXCEPT !.pending = pending]
    BY <1>2, <1>5 DEF GoesOn, r
  <2>2. pending # <<>>
    OBVIOUS
  <2>. HIDE DEF pending
  <2>3. q.pending = pending /\ q.error = r.error /\ q.total = r.total /\ q.out = r.out /\ q.batch = r.batch
    BY <1>3, <2>1 DEF IsParser, ParserType
  <2>4. ~q.error /\ Tallied(q) /\ q.total = p.total /\ q.pending # <<>>
    BY <1>3, <2>2, <2>3 DEF Alike, Tallied
  <2>5. Goal
    BY <1>5, <2>4
  <2>. QED  BY <2>5 DEF q
<1>6. CASE line.kind = "bad"
  <2>. DEFINE w == Lists!Warned(r, "invalid-extinf")
  <2>1. q = [w EXCEPT !.pending = <<>>]
    BY <1>2, <1>6 DEF GoesOn, r
  <2>2. IsParser(w) /\ Alike(r, w)
    BY <1>1, <1>3, WarnedStep
  <2>. HIDE DEF w
  <2>3. q.pending = <<>> /\ q.error = w.error /\ q.total = w.total /\ q.out = w.out /\ q.batch = w.batch
    BY <2>1, <2>2 DEF IsParser, ParserType
  <2>4. Goal
    BY <1>3, <1>6, <2>2, <2>3 DEF Alike, Tallied
  <2>. QED  BY <2>4 DEF q
<1>7. CASE line.kind = "extgrp"
  <2>. DEFINE pending == [n \in DOMAIN p.pending |-> Lists!Grouped(p.pending[n], line.group)]
  <2>1. q = [p EXCEPT !.group = line.group, !.pending = pending]
    BY <1>2, <1>7 DEF GoesOn
  <2>2. pending # <<>> <=> p.pending # <<>>
    <3>1. DOMAIN pending = DOMAIN p.pending
      OBVIOUS
    <3>2. \A t \in Seq(ListEntries) : t = <<>> <=> DOMAIN t = {}
      BY LenProperties, EmptySeq
    <3>3. DOMAIN <<>> = {}
      OBVIOUS
    <3>4. pending = <<>> => p.pending = <<>>
      BY <1>4, <3>1, <3>2, <3>3
    <3>5. p.pending = <<>> => pending = <<>>
      <4>1. ASSUME p.pending = <<>> PROVE pending = [n \in 1..0 |-> Lists!Grouped(p.pending[n], line.group)]
        BY <4>1
      <4>. QED  BY <4>1
    <3>. QED  BY <3>4, <3>5
  <2>. HIDE DEF pending
  <2>3. q.pending = pending /\ q.error = p.error /\ q.total = p.total /\ q.out = p.out /\ q.batch = p.batch
    BY <1>4, <2>1 DEF ParserType
  <2>4. Goal
    BY <1>7, <2>2, <2>3 DEF Tallied
  <2>. QED  BY <2>4 DEF q
<1>8. CASE line.kind = "url" /\ p.pending = <<>>
  <2>1. q = Lists!Warned(p, "orphan-stream")
    BY <1>2, <1>8 DEF GoesOn
  <2>2. Alike(p, q)
    BY <1>1, <2>1, WarnedStep
  <2>3. Goal
    BY <1>8, <2>2 DEF Alike, Tallied
  <2>. QED  BY <2>3 DEF q
<1>9. CASE line.kind = "url" /\ p.pending # <<>> /\ p.total >= o.items
  <2>1. q = [p EXCEPT !.error = TRUE]
    BY <1>2, <1>9, TakenCases DEF GoesOn
  <2>2. q.error
    BY <1>4, <2>1 DEF ParserType
  <2>3. Goal
    BY <1>9, <2>2
  <2>. QED  BY <2>3 DEF q
<1>10. CASE line.kind = "url" /\ p.pending # <<>> /\ ~(p.total >= o.items)
  <2>. DEFINE batch == LongerBatch(p, line.url)
              next == Follower(p, batch)
              item == Lists!Item(p.pending[1], line.url, "s")
  <2>1. q = Lists!Flushed(next) \/ q = next
    BY <1>2, <1>10, TakenCases DEF GoesOn
  <2>2. /\ batch \in Seq(ListItems)
        /\ IsParser(next) /\ next.pending = <<>> /\ next.batch = batch
        /\ next.total = p.total + 1 /\ next.out = p.out /\ next.error = p.error
    BY <1>1, <1>10, FollowerStep
  <2>3. Len(batch) = Len(p.batch) + 1
    <3>1. batch = Append(p.batch, item)
      BY DEF LongerBatch
    <3>2. item \in ListItems
      <4>1. p.pending[1] \in ListEntries
        BY <1>4, <1>10, EmptySeq, LenProperties, ElementOfSeq
      <4>. QED  BY <1>1, <4>1 DEF ListItems
    <3>. HIDE DEF item, batch
    <3>. QED  BY <1>4, <3>1, <3>2, AppendProperties
  <2>. HIDE DEF next, batch
  <2>4. Len(p.out) \in Nat /\ Len(p.batch) \in Nat
    BY <1>4, LenProperties
  <2>5. Len(next.out) + Len(next.batch) = next.total
    <3>. DEFINE a == Len(p.out)
                b == Len(p.batch)
                t == p.total
    <3>1. a \in Nat /\ b \in Nat /\ t \in Nat /\ a + b = t
      BY <1>4, <2>4 DEF Tallied
    <3>2. Len(next.out) = a /\ Len(next.batch) = b + 1 /\ next.total = t + 1
      BY <2>2, <2>3
    <3>. HIDE DEF a, b, t
    <3>3. a + (b + 1) = t + 1
      BY <3>1
    <3>. QED  BY <3>2, <3>3
  <2>6. /\ Lists!Flushed(next).error = next.error /\ Lists!Flushed(next).total = next.total
        /\ Lists!Flushed(next).pending = next.pending /\ Tallied(Lists!Flushed(next))
    <3>. DEFINE f == Lists!Flushed(next)
    <3>1. /\ f.error = next.error /\ f.total = next.total /\ f.pending = next.pending
          /\ f.batch = <<>> /\ f.out = next.out \o next.batch
      BY <2>2, FlushedStep
    <3>. HIDE DEF f
    <3>2. Len(f.out) = Len(next.out) + Len(next.batch) /\ Len(f.batch) = 0
      BY <1>4, <2>2, <3>1, ConcatProperties, EmptySeq
    <3>3. Len(f.out) + Len(f.batch) = f.total
      <4>. DEFINE a == Len(next.out)
                  b == Len(next.batch)
      <4>1. a \in Nat /\ b \in Nat
        BY <1>4, <2>2, LenProperties
      <4>2. Len(f.out) = a + b /\ Len(f.batch) = 0 /\ f.total = a + b
        BY <2>5, <3>1, <3>2
      <4>. HIDE DEF a, b
      <4>3. (a + b) + 0 = a + b
        BY <4>1
      <4>. QED  BY <4>2, <4>3
    <3>. QED  BY <3>1, <3>3 DEF f, Tallied
  <2>7. ~q.error /\ Tallied(q) /\ q.total = p.total + 1 /\ q.pending = <<>>
    BY <2>6, <2>5, <2>2, <2>1 DEF Tallied
  <2>8. Goal
    BY <1>10, <2>7
  <2>. QED  BY <2>8 DEF q
<1>11. CASE line.kind = "other"
  <2>1. q = p
    BY <1>2, <1>11 DEF GoesOn
  <2>2. Goal
    BY <1>11, <2>1
  <2>. QED  BY <2>2 DEF q
<1>. QED  BY <1>1, <1>5, <1>6, <1>7, <1>8, <1>9, <1>10, <1>11

\* Whether an entry waits for its address, line by line.
LEMMA OpenStep ==
    ASSUME NEW lines \in Seq(Lists!Lines)
    PROVE  /\ ~Open(lines, 0)
           /\ \A n \in 1..Len(lines) :
                Open(lines, n) <=> (lines[n].kind = "extinf"
                                    \/ (lines[n].kind \in {"extgrp", "other"} /\ Open(lines, n - 1)))
<1>1. ~Open(lines, 0)
  BY DEF Open
<1>2. ASSUME NEW n \in 1..Len(lines)
      PROVE  Open(lines, n) <=> (lines[n].kind = "extinf"
                                 \/ (lines[n].kind \in {"extgrp", "other"} /\ Open(lines, n - 1)))
  <2>1. lines[n].kind \in {"extinf", "bad", "extgrp", "url", "other"}
    BY LenProperties, ElementOfSeq, LineFields
  <2>2. ASSUME Open(lines, n), lines[n].kind # "extinf"
        PROVE  lines[n].kind \in {"extgrp", "other"} /\ Open(lines, n - 1)
    <3>1. PICK m \in 1..n : lines[m].kind = "extinf" /\ \A k \in (m + 1)..n : lines[k].kind \notin {"url", "extinf", "bad"}
      BY <2>2 DEF Open
    <3>2. m \in 1..(n - 1) /\ n \in (m + 1)..n
      BY <2>2, <3>1
    <3>3. lines[n].kind \in {"extgrp", "other"}
      BY <2>1, <3>1, <3>2
    <3>4. \A k \in (m + 1)..(n - 1) : lines[k].kind \notin {"url", "extinf", "bad"}
      BY <3>1
    <3>5. Open(lines, n - 1)
      BY <3>1, <3>2, <3>4 DEF Open
    <3>. QED  BY <3>3, <3>5
  <2>3. ASSUME lines[n].kind = "extinf" PROVE Open(lines, n)
    <3>1. n \in 1..n /\ \A k \in (n + 1)..n : FALSE
      OBVIOUS
    <3>. QED  BY <2>3, <3>1 DEF Open
  <2>4. ASSUME lines[n].kind \in {"extgrp", "other"}, Open(lines, n - 1) PROVE Open(lines, n)
    <3>1. PICK m \in 1..(n - 1) : /\ lines[m].kind = "extinf"
                                  /\ \A k \in (m + 1)..(n - 1) : lines[k].kind \notin {"url", "extinf", "bad"}
      BY <2>4 DEF Open
    <3>2. m \in 1..n /\ \A k \in (m + 1)..n : k = n \/ k \in (m + 1)..(n - 1)
      OBVIOUS
    <3>3. \A k \in (m + 1)..n : lines[k].kind \notin {"url", "extinf", "bad"}
      BY <2>4, <3>1, <3>2
    <3>. QED  BY <3>1, <3>2, <3>3 DEF Open
  <2>. QED  BY <2>2, <2>3, <2>4
<1>. QED  BY <1>1, <1>2

Completing(lines) == {n \in DOMAIN lines : lines[n].kind = "url" /\ Open(lines, n - 1)}
UpTo(lines, n) == {k \in Completing(lines) : k <= n}
Complete(lines, n) == Cardinality(UpTo(lines, n))

\* How many entries are complete, line by line.
LEMMA CountStep ==
    ASSUME NEW lines \in Seq(Lists!Lines)
    PROVE  /\ Complete(lines, 0) = 0
           /\ \A n \in 0..Len(lines) : Complete(lines, n) \in Nat
           /\ \A n \in 1..Len(lines) :
                /\ n \in Completing(lines) => Complete(lines, n) = Complete(lines, n - 1) + 1
                /\ n \notin Completing(lines) => Complete(lines, n) = Complete(lines, n - 1)
           /\ Complete(lines, Len(lines)) = Entries(lines)
<1>. DEFINE C == Completing(lines)
<1>1. Len(lines) \in Nat /\ DOMAIN lines = 1..Len(lines) /\ C \subseteq 1..Len(lines)
  BY LenProperties DEF Completing
<1>2. ASSUME NEW n PROVE IsFiniteSet(UpTo(lines, n)) /\ Complete(lines, n) \in Nat
  <2>1. IsFiniteSet(1..Len(lines)) /\ UpTo(lines, n) \subseteq 1..Len(lines)
    BY <1>1, FS_Interval DEF UpTo
  <2>. QED  BY <2>1, FS_Subset, FS_CardinalityType DEF Complete
<1>3. Complete(lines, 0) = 0
  <2>1. UpTo(lines, 0) = {}
    BY <1>1 DEF UpTo
  <2>. QED  BY <2>1, FS_EmptySet DEF Complete
<1>4. ASSUME NEW n \in 1..Len(lines)
      PROVE  /\ n \in C => Complete(lines, n) = Complete(lines, n - 1) + 1
             /\ n \notin C => Complete(lines, n) = Complete(lines, n - 1)
  <2>. HIDE DEF C
  <2>0. \A k \in C : k \in Int
    BY <1>1
  <2>1. UpTo(lines, n) = {k \in C : k <= n} /\ UpTo(lines, n - 1) = {k \in C : k <= n - 1}
    BY DEF UpTo, C
  <2>2. CASE n \in C
    <3>0. /\ ~(n <= n - 1)
          /\ \A k \in C : k <= n <=> (k <= n - 1 \/ k = n)
      BY <1>1, <2>0
    <3>1. UpTo(lines, n) = UpTo(lines, n - 1) \cup {n} /\ n \notin UpTo(lines, n - 1)
      BY <2>1, <2>2, <3>0
    <3>. QED  BY <1>2, <2>2, <3>1, FS_AddElement DEF Complete
  <2>3. CASE n \notin C
    <3>1. UpTo(lines, n) = UpTo(lines, n - 1)
      BY <2>0, <2>1, <2>3
    <3>. QED  BY <2>3, <3>1 DEF Complete
  <2>. QED  BY <2>2, <2>3
<1>5. Complete(lines, Len(lines)) = Entries(lines)
  <2>1. UpTo(lines, Len(lines)) = {n \in DOMAIN lines : lines[n].kind = "url" /\ Open(lines, n - 1)}
    BY <1>1 DEF UpTo, Completing
  <2>. QED  BY <2>1 DEF Complete, Entries
<1>. QED  BY <1>2, <1>3, <1>4, <1>5

\* After each line the parser has counted the entries that are complete, or has
\* given up on more than it may take.
CountsEntries(p, lines, o, n) ==
    /\ p.error => Complete(lines, n) > o.items
    /\ ~p.error => /\ p.total = Complete(lines, n) /\ p.total <= o.items /\ Tallied(p)
                   /\ p.pending # <<>> <=> Open(lines, n)

\* The parser counts the entries of the playlist, and fails beyond the limit only.
LEMMA EntriesCounted ==
    ASSUME NEW lines \in Seq(Lists!Lines), NEW o, o.items \in Nat
    PROVE  CountsEntries(Lists!ParserStates(lines, "s", o)[Len(lines)], lines, o, Len(lines))
<1>. DEFINE g == Lists!ParserStates(lines, "s", o)
            bound == Len(lines)
            Good == {n \in Nat : CountsEntries(g[n], lines, o, n)}
<1>1. /\ g[0] = Lists!Parser
      /\ \A n \in 1..bound : g[n] = Lists!Parsed(g[n - 1], lines[n], "s", o)
      /\ \A n \in 0..bound : IsParser(g[n])
  BY StatesFollow
<1>2. bound \in Nat /\ DOMAIN lines = 1..bound /\ \A n \in 1..bound : lines[n] \in Lists!Lines
  BY LenProperties, ElementOfSeq
<1>3. /\ Complete(lines, 0) = 0
      /\ \A n \in 0..bound : Complete(lines, n) \in Nat
      /\ \A n \in 1..bound :
            /\ n \in Completing(lines) => Complete(lines, n) = Complete(lines, n - 1) + 1
            /\ n \notin Completing(lines) => Complete(lines, n) = Complete(lines, n - 1)
  BY CountStep
<1>. HIDE DEF g, bound
<1>4. CountsEntries(g[0], lines, o, 0)
  <2>. DEFINE p == Lists!Parser
  <2>1. p.error = FALSE /\ p.total = 0 /\ p.pending = <<>> /\ p.out = <<>> /\ p.batch = <<>>
    BY DEF Lists!Parser
  <2>. HIDE DEF p
  <2>2. Len(p.out) = 0 /\ Len(p.batch) = 0
    BY <2>1, EmptySeq
  <2>3. Tallied(p)
    BY <2>1, <2>2 DEF Tallied
  <2>4. ~Open(lines, 0)
    BY OpenStep
  <2>5. CountsEntries(p, lines, o, 0)
    BY <1>3, <2>1, <2>3, <2>4 DEF CountsEntries
  <2>. QED  BY <1>1, <2>5 DEF p
<1>5. ASSUME NEW n \in 0..(bound - 1), CountsEntries(g[n], lines, o, n)
      PROVE  CountsEntries(g[n + 1], lines, o, n + 1)
  <2>. DEFINE p == g[n]
              line == lines[n + 1]
              q == g[n + 1]
              completes == line.kind = "url" /\ p.pending # <<>>
  <2>1. n + 1 \in 1..bound /\ (n + 1) - 1 = n /\ n \in 0..bound /\ n + 1 \in 0..bound
    BY <1>2
  <2>2. q = Lists!Parsed(p, line, "s", o) /\ IsParser(p) /\ line \in Lists!Lines
    BY <1>1, <1>2, <2>1
  <2>. DEFINE before == Complete(lines, n)
              after == Complete(lines, n + 1)
  <2>3. /\ before \in Nat /\ after \in Nat
        /\ n + 1 \in Completing(lines) => after = before + 1
        /\ n + 1 \notin Completing(lines) => after = before
    BY <1>3, <2>1
  <2>4. n + 1 \in Completing(lines) <=> line.kind = "url" /\ Open(lines, n)
    BY <1>2, <2>1 DEF Completing
  <2>5. Open(lines, n + 1) <=> (line.kind = "extinf" \/ (line.kind \in {"extgrp", "other"} /\ Open(lines, n)))
    BY <2>1, OpenStep DEF bound
  <2>6. p.total \in Nat
    BY <2>2, ParserFields
  <2>7. /\ p.error => before > o.items
        /\ ~p.error => /\ p.total = before /\ p.total <= o.items /\ Tallied(p)
                       /\ p.pending # <<>> <=> Open(lines, n)
    BY <1>5 DEF CountsEntries
  <2>8. SUFFICES /\ q.error => after > o.items
                 /\ ~q.error => /\ q.total = after /\ q.total <= o.items /\ Tallied(q)
                                /\ q.pending # <<>> <=> Open(lines, n + 1)
    BY DEF CountsEntries
  <2>. HIDE DEF p, line, q, before, after
  <2>9. CASE p.error
    <3>1. q = p
      BY <2>2, <2>9, ParsedCases
    <3>2. after >= before
      BY <2>3
    <3>. QED  BY <2>3, <2>7, <2>9, <3>1, <3>2
  <2>10. CASE ~p.error
    <3>1. /\ completes /\ p.total >= o.items => q.error
          /\ ~(completes /\ p.total >= o.items) =>
                /\ ~q.error /\ Tallied(q)
                /\ completes => q.total = p.total + 1
                /\ ~completes => q.total = p.total
                /\ q.pending # <<>> <=> (line.kind = "extinf" \/ (line.kind \in {"extgrp", "other"} /\ p.pending # <<>>))
      BY <2>2, <2>7, <2>10, ParsedCounts
    <3>2. completes <=> n + 1 \in Completing(lines)
      BY <2>4, <2>7, <2>10
    <3>3. CASE completes /\ p.total >= o.items
      BY <2>10, <2>7, <2>6, <2>3, <3>1, <3>2, <3>3
    <3>4. CASE ~(completes /\ p.total >= o.items)
      <4>1. ~q.error /\ Tallied(q)
        BY <3>1, <3>4
      <4>2. q.total = after /\ q.total <= o.items
        BY <2>10, <2>7, <2>6, <2>3, <3>1, <3>2, <3>4
      <4>3. q.pending # <<>> <=> Open(lines, n + 1)
        BY <2>5, <2>7, <2>10, <3>1, <3>4
      <4>. QED  BY <4>1, <4>2, <4>3
    <3>. QED  BY <3>3, <3>4
  <2>. QED  BY <2>9, <2>10
<1>6. 0..bound \subseteq Good
  <2>1. 0 \in Good
    BY <1>4
  <2>2. ASSUME NEW n \in 0..(bound - 1), n \in Good PROVE n + 1 \in Good
    <3>1. n + 1 \in Nat
      BY <1>2
    <3>. QED  BY <1>5, <2>2, <3>1
  <2>. HIDE DEF Good
  <2>. QED  BY <1>2, <2>1, <2>2, StepByStep
<1>7. bound \in 0..bound
  BY <1>2
<1>. QED  BY <1>6, <1>7 DEF g, bound

\* Batches of any size give the same entries and warnings.
LEMMA BatchesAlwaysAgree ==
    ASSUME NEW lines \in Seq(Lists!Lines), NEW options \in [items : Nat, batch : Nat]
    PROVE  /\ BatchesAgree(lines, options)
           /\ ~Lists!Parse(lines, "s", options).error => Lists!Parse(lines, "s", options).out \in Seq(ListItems)
<1>. DEFINE one == [options EXCEPT !.batch = 1]
            more == [options EXCEPT !.batch = 100]
            q == Lists!ParserStates(lines, "s", one)[Len(lines)]
            parsed == Lists!Parse(lines, "s", options)
            whole == Lists!Parse(lines, "s", more)
<1>1. one.items = options.items /\ one.batch = 1 /\ more.items = options.items /\ options.items \in Nat
  OBVIOUS
<1>. HIDE DEF one, more
<1>2. /\ IsParser(q) /\ parsed.error = q.error
      /\ ~q.error => parsed = Lists!Replaced(q)
  BY <1>1, ParseIsFlushed
<1>3. ~q.error => whole = Lists!Replaced(q)
  BY <1>1, ParseIsFlushed
<1>4. CountsEntries(q, lines, one, Len(lines))
  BY <1>1, EntriesCounted
<1>5. Complete(lines, Len(lines)) = Entries(lines)
  BY CountStep
<1>6. q.error => Entries(lines) > options.items
  BY <1>1, <1>4, <1>5 DEF CountsEntries
<1>7. ~q.error => q.total = Entries(lines) /\ q.total <= options.items /\ Tallied(q)
  BY <1>1, <1>4, <1>5 DEF CountsEntries
<1>8. q = Lists!Flushed(q)
  BY <1>1, StatesFlushed
<1>. HIDE DEF q, parsed, whole
<1>9. q.total \in Nat /\ q.batch = <<>> /\ q.out \in Seq(ListItems)
  BY <1>2, <1>8, FlushedStep, ParserFields
<1>10. ASSUME ~q.error
       PROVE  /\ parsed.out = whole.out /\ parsed.warnings = whole.warnings
              /\ parsed.out = q.out /\ Len(parsed.out) = Entries(lines)
  <2>1. parsed.out = q.out
    BY <1>2, <1>10, ReplacedStep DEF Alike
  <2>. DEFINE a == Len(q.out)
              b == Len(q.batch)
  <2>2. a + b = q.total /\ a \in Nat /\ b = 0
    BY <1>7, <1>9, <1>10, LenProperties, EmptySeq DEF Tallied
  <2>3. a = Len(parsed.out)
    BY <2>1
  <2>. HIDE DEF a, b
  <2>4. a = Entries(lines)
    BY <1>7, <1>9, <1>10, <2>2
  <2>. QED  BY <1>2, <1>3, <1>10, <2>1, <2>3, <2>4
<1>11. parsed.error <=> Entries(lines) > options.items
  BY <1>1, <1>2, <1>6, <1>7, <1>9
<1>12. ~parsed.error => ~q.error
  BY <1>2
<1>13. ~parsed.error => parsed.out = whole.out /\ parsed.warnings = whole.warnings /\ Len(parsed.out) = Entries(lines)
  BY <1>10, <1>12
<1>14. ~parsed.error => parsed.out \in Seq(ListItems)
  BY <1>9, <1>10, <1>12
<1>. QED  BY <1>11, <1>13, <1>14 DEF BatchesAgree, parsed, whole, more

\* ImportsAgree: whatever the playlist, the limits, the rows that were there and
\* the guide, what is computed twice from them agrees.
THEOREM ImportsAlwaysAgree == AskSpec => []ImportsAgree
<1>1. ASSUME question \in Inputs PROVE ImportsAgree
  <2>. SUFFICES ASSUME question.kind = "list" PROVE ImportsAgree
    BY DEF ImportsAgree
  <2>1. question \in ListInputs
    BY <1>1, KindAssumption DEF Inputs
  <2>. DEFINE lines == question.lines
              options == question.options
              elements == question.guide
              parsed == Lists!Parse(lines, "s", options)
              guide == Lists!ParseXMLTV(elements)
  <2>2. lines \in Seq(Lists!Lines) /\ options \in [items : Nat, batch : Nat] /\ elements \in Seq(GuideElements)
    BY <2>1, ListAssumption DEF GuideElements, Programmes
  <2>. HIDE DEF lines, options, elements
  <2>3. BatchesAgree(lines, options) /\ (~parsed.error => parsed.out \in Seq(ListItems))
    BY <2>2, BatchesAlwaysAgree
  <2>4. WindowsAgree(guide)
    <3>1. guide \in GuideType
      BY <2>2, GuideIsTyped
    <3>2. \A p \in guide.programs : p.start \in Int /\ p.end \in Int
      BY <3>1 DEF GuideType, Programmes
    <3>. HIDE DEF guide
    <3>. QED  BY <3>2, WindowsAlwaysAgree
  <2>. HIDE DEF parsed, guide
  <2>5. ASSUME ~parsed.error
        PROVE  /\ RowsAgree(Lists!Inserted(<<>>, question.before), parsed.out)
               /\ ListsAgree(parsed.out)
               /\ StreamsAgree(parsed.out)
    BY <2>3, <2>5, RowsAlwaysAgree, ListsAlwaysAgree, StreamsAlwaysAgree
  <2>. QED  BY <2>3, <2>4, <2>5 DEF ImportsAgree, lines, options, elements, parsed, guide
<1>2. question \in Inputs => ImportsAgree
  BY <1>1
<1>. QED  BY <1>2, QuestionStays, PTL

================================================================================
