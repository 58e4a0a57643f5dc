------------------------------ MODULE MediaProxy ------------------------------
(***************************************************************************)
(* The local media proxy, src/internal/playback/media_proxy.go.            *)
(*                                                                         *)
(* WrapPlan replaces the remote URLs of a plan by random local tokens.     *)
(* Every token names a session in a table guarded by one mutex; every      *)
(* session carries the lifetime (a context) of the plan it came from.      *)
(* ServeHTTP looks a token up, transfers the upstream resource and, for an *)
(* HLS manifest, adds one session per reference it rewrites.  Calls and    *)
(* requests run concurrently; an action below is what one goroutine does   *)
(* between two points where another may be scheduled.                      *)
(***************************************************************************)
EXTENDS Integers, FiniteSets

CONSTANTS
  Plans,         \* calls of WrapPlan, each with the plan it was given
  Requests,      \* connections of the player, each with one request at a time
  None,
  MaxSessions,   \* MediaProxy.maxSessions, mediaProxyMaxSessions = 128
  DefaultTTL,    \* mediaProxyDefaultTTL
  Expiries,      \* deadlines a plan or a URL may carry
  MaxResources,  \* bound: URLs of a plan, references of a manifest
  MaxTime        \* bound: the clock stops here

ASSUME ProxyAssumption ==
  /\ None \notin Plans
  /\ MaxSessions \in Nat \ {0}
  /\ DefaultTTL \in Nat \ {0}
  /\ Expiries \subseteq Nat
  /\ MaxResources \in Nat \ {0}
  /\ MaxTime \in Nat

VARIABLES
  clock,     \* the time now() reads
  sessions,  \* MediaProxy.sessions: token -> session
  holder,    \* the plan MediaProxy.cancelPlan cancels, or None
  ended,     \* plans whose lifetime context is done
  rpcDone,   \* calls whose own (RPC) context is done
  call,      \* per call of WrapPlan: where it is in its plan
  staged,    \* per call of WrapPlan: the table of its private, staged proxy
  req        \* per request: where it is, and its copy of the session

vars == <<clock, sessions, holder, ended, rpcDone, call, staged, req>>

(***************************************************************************)
(* Tokens are random and unique: the k-th one a call or a request draws is *)
(* <<p, k>> or <<r, k>>.  The first resource of a plan and the first       *)
(* reference of a manifest stand for .m3u8 playlists, the others for media.*)
(***************************************************************************)
Tokens == (Plans \cup Requests) \X (1..MaxResources)
IsHLS(t) == t[2] = 1

\* mediaProxySession: deadline, LRU stamp and lifetime.
Session == [plan : Plans, expiresAt : Nat, lastUsed : Nat]

\* The tables a proxy may hold.
IsTable(f) == DOMAIN f \subseteq Tokens /\ f \in [DOMAIN f -> Session]
EmptyTable == [t \in {} |-> None]

CallStates == {"idle", "staging", "publishing", "done", "direct", "failed"}
Serving    == {"connect", "transfer", "rewrite"}
ReqStates  == {"idle", "lookup"} \cup Serving

\* How far a call is: the URLs of its plan, the next one, the plan's deadline.
Call == [pc : CallStates, count : 0..MaxResources, next : Nat \ {0}, until : Nat]

\* The one request of a connection, and its copy of the session: the references
\* of its manifest so far, and which of their tokens are new or given out.
Request == [pc : ReqStates, token : Tokens \cup {None}, plan : Plans \cup {None},
            expiresAt : Nat, now : Nat, refs : 0..MaxResources,
            fresh : SUBSET (1..MaxResources), given : SUBSET (1..MaxResources)]

\* A call that has not started, and a request that holds no session.
Unstarted == [pc |-> "idle", count |-> 0, next |-> 1, until |-> 0]
Unserved  == [pc |-> "idle", token |-> None, plan |-> None, expiresAt |-> 0,
              now |-> 0, refs |-> 0, fresh |-> {}, given |-> {}]

TypeOK ==
  /\ clock \in Nat
  /\ IsTable(sessions)
  /\ holder \in Plans \cup {None}
  /\ ended \subseteq Plans
  /\ rpcDone \subseteq Plans
  /\ call \in [Plans -> Call]
  /\ staged = [p \in Plans |-> staged[p]]
  /\ \A p \in Plans : IsTable(staged[p])
  /\ req \in [Requests -> Request]
  /\ \A r \in Requests : req[r].pc \in Serving => req[r].plan \in Plans

Init ==
  /\ clock = 0
  /\ sessions = EmptyTable
  /\ holder = None
  /\ ended = {}
  /\ rpcDone = {}
  /\ call = [p \in Plans |-> Unstarted]
  /\ staged = [p \in Plans |-> EmptyTable]
  /\ req = [r \in Requests |-> Unserved]

--------------------------------------------------------------------------------
Earliest(a, b) == IF a <= b THEN a ELSE b

Without(table, t) == [u \in DOMAIN table \ {t} |-> table[u]]
Keep(table, S)    == [u \in S |-> table[u]]
With(table, t, s) == [u \in DOMAIN table \cup {t} |-> IF u = t THEN s ELSE table[u]]

\* pruneLocked, first loop: sessions neither expired nor of an ended plan.
Live(table, now) ==
  {t \in DOMAIN table : now < table[t].expiresAt /\ table[t].plan \notin ended}

\* pruneLocked, second loop: evict a least recently used session (any of them
\* when stamps are equal: Go's map order is random) until there is room for one.
Survivors(table, now) ==
  {S \in SUBSET Live(table, now) :
     /\ Cardinality(S) = Earliest(Cardinality(Live(table, now)), MaxSessions - 1)
     /\ \A t \in S, u \in Live(table, now) \ S :
          table[u].lastUsed <= table[t].lastUsed}

\* wrapStream's critical section: the tables that may result from pruning and
\* adding session s under token t.
Insertions(table, t, s, now) ==
  {With(Keep(table, S), t, s) : S \in Survivors(table, now)}

\* Mutation: a reference gets a fresh lease.
StreamExpiryRenewed(now, planExpiry, e) == Earliest(now + DefaultTTL, e)

\* wrapStream: the deadline of a resource whose own URL expires at e.
StreamExpiry(now, planExpiry, e) == Earliest(Earliest(now + DefaultTTL, planExpiry), e)

\* p.cancelPlan(), when there is one.
Retired == {holder} \ {None}

--------------------------------------------------------------------------------
(* WrapPlan *)

\* cancel() and return an error: the published plan is left alone.
CallFails(p) ==
  /\ call' = [call EXCEPT ![p] = [Unstarted EXCEPT !.pc = "failed"]]
  /\ staged' = [staged EXCEPT ![p] = EmptyTable]
  /\ ended' = ended \cup {p}
  /\ UNCHANGED <<clock, sessions, holder, rpcDone, req>>

\* A plan that is not resolved media is passed through and revokes the previous.
WrapDirect(p) ==
  /\ call[p].pc = "idle" /\ p \notin rpcDone
  /\ call' = [call EXCEPT ![p].pc = "direct"]
  /\ holder' = None
  /\ ended' = ended \cup Retired
  /\ sessions' = EmptyTable
  /\ UNCHANGED <<clock, rpcDone, staged, req>>

\* Mutation: the number of URLs is not compared with the table's limit.
WrapBeginUnlimited(p, n, e) ==
  /\ call[p].pc = "idle" /\ p \notin rpcDone
  /\ Earliest(clock + DefaultTTL, e) > clock
  /\ call' = [call EXCEPT ![p] = [pc |-> "staging", count |-> n, next |-> 1,
                                  until |-> Earliest(clock + DefaultTTL, e)]]
  /\ UNCHANGED <<clock, sessions, holder, ended, rpcDone, staged, req>>

\* The plan has n URLs, the earliest deadline among them and its own is e.
WrapBegin(p, n, e) ==
  /\ call[p].pc = "idle" /\ p \notin rpcDone
  /\ n <= MaxSessions
  /\ Earliest(clock + DefaultTTL, e) > clock
  /\ call' = [call EXCEPT ![p] = [pc |-> "staging", count |-> n, next |-> 1,
                                  until |-> Earliest(clock + DefaultTTL, e)]]
  /\ UNCHANGED <<clock, sessions, holder, ended, rpcDone, staged, req>>

\* The early returns: caller gone, too many URLs, or a deadline already past.
WrapReject(p, n, e) ==
  /\ call[p].pc = "idle"
  /\ \/ p \in rpcDone
     \/ n > MaxSessions
     \/ Earliest(clock + DefaultTTL, e) <= clock
  /\ call' = [call EXCEPT ![p].pc = "failed"]
  /\ UNCHANGED <<clock, sessions, holder, ended, rpcDone, staged, req>>

\* wrapPlan, one wrapStream on the private staged proxy.
WrapResource(p) ==
  LET c         == call[p]
      expiresAt == StreamExpiry(clock, c.until, c.until)
      session   == [plan |-> p, expiresAt |-> expiresAt, lastUsed |-> clock]
  IN /\ c.pc = "staging" /\ c.next <= c.count
     /\ \/ /\ expiresAt > clock /\ p \notin ended
           /\ \E table \in Insertions(staged[p], <<p, c.next>>, session, clock) :
                staged' = [staged EXCEPT ![p] = table]
           /\ call' = [call EXCEPT ![p].next = @ + 1]
           /\ UNCHANGED <<clock, sessions, holder, ended, rpcDone, req>>
        \/ /\ expiresAt <= clock \/ p \in ended
           /\ CallFails(p)

\* The last look at the caller's context, outside the mutex.
WrapCheck(p) ==
  /\ call[p].pc = "staging" /\ call[p].next > call[p].count
  /\ \/ /\ p \notin rpcDone
        /\ call' = [call EXCEPT ![p].pc = "publishing"]
        /\ UNCHANGED <<clock, sessions, holder, ended, rpcDone, staged, req>>
     \/ /\ p \in rpcDone
        /\ CallFails(p)

\* Under the mutex: end the previous plan and swap the whole table.
WrapPublish(p) ==
  /\ call[p].pc = "publishing"
  /\ ended' = ended \cup Retired
  /\ sessions' = staged[p]
  /\ holder' = p
  /\ call' = [call EXCEPT ![p].pc = "done"]
  /\ staged' = [staged EXCEPT ![p] = EmptyTable]
  /\ UNCHANGED <<clock, rpcDone, req>>

\* RevokePlayerSession, from the frontend at any time.
Revoke ==
  /\ holder' = None
  /\ ended' = ended \cup Retired
  /\ sessions' = EmptyTable
  /\ UNCHANGED <<clock, rpcDone, call, staged, req>>

--------------------------------------------------------------------------------
(* ServeHTTP and the rewriting of HLS manifests *)

\* Tokens the player was given: those of a plan WrapPlan returned, and those of
\* a rewritten manifest that was written out.
Offered ==
  {t \in Tokens : \/ \E p \in Plans : /\ call[p].pc = "done"
                                     /\ t \in {<<p, k>> : k \in 1..call[p].count}
                  \/ \E r \in Requests : t \in {<<r, k>> : k \in req[r].given}}

\* The handler returns; given are the tokens the player has of this connection.
Return(r, given) ==
  req' = [req EXCEPT ![r] = [Unserved EXCEPT !.refs = req[r].refs, !.given = given]]
Step(r, pc) == req' = [req EXCEPT ![r].pc = pc]

\* session() reads the clock before it takes the mutex.
Receive(r, t) ==
  /\ req[r].pc = "idle" /\ t \in Offered
  /\ req' = [req EXCEPT ![r].pc = "lookup", ![r].token = t, ![r].now = clock]
  /\ UNCHANGED <<clock, sessions, holder, ended, rpcDone, call, staged>>

\* session() under the mutex, with the time read before it.
Usable(t, now) == t \in Live(sessions, now)

Lookup(r) ==
  LET t == req[r].token IN
  /\ req[r].pc = "lookup"
  /\ \/ /\ Usable(t, req[r].now)
        /\ sessions' = [sessions EXCEPT ![t].lastUsed = req[r].now]
        /\ req' = [req EXCEPT ![r].pc = "connect", ![r].plan = sessions[t].plan,
                              ![r].expiresAt = sessions[t].expiresAt]
     \/ /\ ~Usable(t, req[r].now)
        /\ sessions' = Without(sessions, t)
        /\ Return(r, req[r].given)
  /\ UNCHANGED <<clock, holder, ended, rpcDone, call, staged>>

\* Mutation: the lifetime is not looked at again.
ConnectUnchecked(r) ==
  /\ req[r].pc = "connect"
  /\ IF req[r].expiresAt <= clock
     THEN Return(r, req[r].given) ELSE Step(r, "transfer")
  /\ UNCHANGED <<clock, sessions, holder, ended, rpcDone, call, staged>>

\* The request context is armed with the deadline and the lifetime, and the
\* lifetime is looked at once more before the upstream request is sent.
Connect(r) ==
  /\ req[r].pc = "connect"
  /\ IF req[r].plan \in ended \/ req[r].expiresAt <= clock
     THEN Return(r, req[r].given) ELSE Step(r, "transfer")
  /\ UNCHANGED <<clock, sessions, holder, ended, rpcDone, call, staged>>

\* Mutation: the transfer has its deadline, not the lifetime of its plan.
AbortTransferOnDeadline(r) ==
  /\ req[r].pc = "transfer"
  /\ req[r].expiresAt <= clock
  /\ Return(r, req[r].given)
  /\ UNCHANGED <<clock, sessions, holder, ended, rpcDone, call, staged>>

\* The context of a transfer is cancelled by AfterFunc, or by its deadline.
AbortTransfer(r) ==
  /\ req[r].pc = "transfer"
  /\ req[r].plan \in ended \/ req[r].expiresAt <= clock
  /\ Return(r, req[r].given)
  /\ UNCHANGED <<clock, sessions, holder, ended, rpcDone, call, staged>>

\* markSessionObserved forgets a session it finds dead.
Observed(r) ==
  LET t == req[r].token IN
  IF t \in DOMAIN sessions /\ sessions[t].plan \in ended
  THEN Without(sessions, t) ELSE sessions

\* A transfer ends: a body was copied, HEAD was answered, or upstream failed
\* (before or after the session was marked as observed).
FinishTransfer(r) ==
  /\ req[r].pc = "transfer"
  /\ sessions' \in {sessions, Observed(r)}
  /\ Return(r, req[r].given)
  /\ UNCHANGED <<clock, holder, ended, rpcDone, call, staged>>

\* The manifest of an HLS session was read in full.
ReadManifest(r) ==
  /\ req[r].pc = "transfer" /\ IsHLS(req[r].token)
  /\ sessions' = Observed(r)
  /\ Step(r, "rewrite")
  /\ UNCHANGED <<clock, holder, ended, rpcDone, call, staged>>

\* Mutation: the lifetime is not looked at under the mutex.
WrapReferenceUnchecked(r, e, now) ==
  LET expiresAt == StreamExpiry(now, req[r].expiresAt, e)
      session   == [plan |-> req[r].plan, expiresAt |-> expiresAt, lastUsed |-> now]
  IN /\ req[r].pc = "rewrite" /\ req[r].refs < MaxResources
     /\ req[r].now <= now /\ now <= clock
     /\ \/ /\ expiresAt > now
           /\ sessions' \in Insertions(sessions, <<r, req[r].refs + 1>>, session, now)
           /\ req' = [req EXCEPT ![r].refs = @ + 1, ![r].now = now,
                                 ![r].fresh = @ \cup {req[r].refs + 1}]
        \/ /\ expiresAt <= now
           /\ Return(r, req[r].given)
           /\ UNCHANGED sessions
     /\ UNCHANGED <<clock, holder, ended, rpcDone, call, staged>>

\* The reference gets a session of its own in the shared table, unless it has
\* expired (checked before the mutex) or the lifetime is over (under the mutex).
\* wrapStream reads the clock before it takes the mutex, at some time now after
\* the request last read it.
WrapReference(r, e, now) ==
  LET expiresAt == StreamExpiry(now, req[r].expiresAt, e)
      session   == [plan |-> req[r].plan, expiresAt |-> expiresAt, lastUsed |-> now]
  IN /\ req[r].pc = "rewrite" /\ req[r].refs < MaxResources
     /\ req[r].now <= now /\ now <= clock
     /\ \/ /\ expiresAt > now /\ req[r].plan \notin ended
           /\ sessions' \in Insertions(sessions, <<r, req[r].refs + 1>>, session, now)
           /\ req' = [req EXCEPT ![r].refs = @ + 1, ![r].now = now,
                                 ![r].fresh = @ \cup {req[r].refs + 1}]
        \/ /\ expiresAt <= now \/ req[r].plan \in ended
           /\ Return(r, req[r].given)
           /\ UNCHANGED sessions
     /\ UNCHANGED <<clock, holder, ended, rpcDone, call, staged>>

\* The rewritten manifest is written to the client.
WriteManifest(r) ==
  /\ req[r].pc = "rewrite"
  /\ Return(r, req[r].given \cup req[r].fresh)
  /\ UNCHANGED <<clock, sessions, holder, ended, rpcDone, call, staged>>

--------------------------------------------------------------------------------
(* The environment: time, the caller's context, the timer of a lifetime *)

Tick ==
  /\ clock < MaxTime
  /\ clock' = clock + 1
  /\ UNCHANGED <<sessions, holder, ended, rpcDone, call, staged, req>>

\* From "publishing" on nobody looks at the caller's context any more.
CancelCall(p) ==
  /\ call[p].pc \in {"idle", "staging"} /\ p \notin rpcDone
  /\ rpcDone' = rpcDone \cup {p}
  /\ UNCHANGED <<clock, sessions, holder, ended, call, staged, req>>

\* context.WithTimeout: the timer fires some time after the deadline.
LifetimeTimesOut(p) ==
  /\ call[p].pc \in {"staging", "publishing", "done"} /\ p \notin ended
  /\ call[p].until <= clock
  /\ ended' = ended \cup {p}
  /\ UNCHANGED <<clock, sessions, holder, rpcDone, call, staged, req>>

Wrap(p) ==
  \/ \E n \in 1..MaxResources, e \in Expiries : WrapBegin(p, n, e) \/ WrapReject(p, n, e)
  \/ WrapDirect(p) \/ WrapResource(p) \/ WrapCheck(p) \/ WrapPublish(p)

Serve(r) ==
  \/ \E t \in Tokens : Receive(r, t)
  \/ \E e \in Expiries, now \in 0..clock : WrapReference(r, e, now)
  \/ Lookup(r) \/ Connect(r) \/ AbortTransfer(r) \/ FinishTransfer(r)
  \/ ReadManifest(r) \/ WriteManifest(r)

Next ==
  \/ \E p \in Plans : Wrap(p) \/ CancelCall(p) \/ LifetimeTimesOut(p)
  \/ \E r \in Requests : Serve(r)
  \/ Revoke
  \/ Tick

\* The Go runtime runs the AfterFunc of a context that is done; nothing else is
\* assumed: clients, upstream servers and the clock may stop at any point.
Fairness == \A r \in Requests : WF_vars(AbortTransfer(r))

Spec == Init /\ [][Next]_vars /\ Fairness

--------------------------------------------------------------------------------
(* Properties *)

\* Every session in the table belongs to the plan that holds the proxy, however
\* publications, revocations and manifest rewrites of older plans interleave.
SessionsBelongToHolder ==
  \A t \in DOMAIN sessions : sessions[t].plan = holder

\* The table never outgrows mediaProxyMaxSessions (pruneLocked before each insert,
\* and a swap of a staged table that obeyed the same limit).
TableBounded == Cardinality(DOMAIN sessions) <= MaxSessions

\* HLS references inherit the deadline of their plan: they may shorten it, never
\* renew it, through any depth of playlists (docs PLAYBACK_BACKENDS.md, line 34).
LeaseNeverRenewed ==
  \A t \in DOMAIN sessions : sessions[t].expiresAt <= call[sessions[t].plan].until

\* Publication is all or nothing: the step in which WrapPlan succeeds makes every
\* token of the plan it returns available.
PublishedPlanIsWhole ==
  [][\A p \in Plans : call[p].pc = "publishing" /\ call'[p].pc = "done" =>
       \A k \in 1..call[p].count : <<p, k>> \in DOMAIN sessions']_vars

\* A transfer whose plan was superseded, revoked or timed out does not go on, even
\* if the upstream server streams without end (AfterFunc in ServeHTTP).
RevokedTransfersStop ==
  \A r \in Requests :
    (req[r].pc = "transfer" /\ req[r].plan \in ended) ~> (req[r].pc # "transfer")

\* The proxy implements the lease: a request serves a plan while it transfers.
Lease == INSTANCE PlaybackLease WITH
  serving <- [r \in Requests |-> IF req[r].pc = "transfer" THEN req[r].plan ELSE None]

\* Upstream transfers start only for the plan that holds the proxy and is alive.
ImplementsLease == Lease!LeaseSpec
================================================================================
