--------------------------- MODULE MediaProxyProofs ---------------------------
(***************************************************************************)
(* What the media proxy guarantees for any number of plans and requests,   *)
(* any table limit and any deadlines.  The argument, in this order:        *)
(*   - the operators on tables return tables (With, Keep, Without,         *)
(*     Insertions), so every variable keeps its type;                      *)
(*   - a plan that was published and does not hold the proxy is over, so   *)
(*     only the holder passes the check wrapStream makes under the mutex;  *)
(*   - deadlines are inherited from the plan through every insertion.      *)
(***************************************************************************)
EXTENDS MediaProxy, FiniteSetTheorems, TLAPS

--------------------------------------------------------------------------------
(* Tables *)

LEMMA WithIsTable ==
  ASSUME NEW f, IsTable(f), NEW t \in Tokens, NEW s \in Session
  PROVE  IsTable(With(f, t, s))
BY DEF IsTable, With

LEMMA KeepIsTable ==
  ASSUME NEW f, IsTable(f), NEW S, S \subseteq DOMAIN f
  PROVE  IsTable(Keep(f, S))
BY DEF IsTable, Keep

LEMMA WithoutIsTable ==
  ASSUME NEW f, IsTable(f), NEW t
  PROVE  IsTable(Without(f, t))
BY DEF IsTable, Without

LEMMA EmptyIsTable == IsTable(EmptyTable)
BY DEF IsTable, EmptyTable

\* Pruning and inserting yields a table whose entries are the new session and
\* entries that were there before.
LEMMA InsertionsAreTables ==
  ASSUME NEW f, IsTable(f), NEW t \in Tokens, NEW s \in Session, NEW now,
         NEW g \in Insertions(f, t, s, now)
  PROVE  /\ IsTable(g)
         /\ \A u \in DOMAIN g : g[u] = s \/ (u \in DOMAIN f /\ g[u] = f[u])
<1>1. PICK S \in Survivors(f, now) : g = With(Keep(f, S), t, s)
  BY DEF Insertions
<1>2. S \subseteq DOMAIN f
  BY <1>1 DEF Survivors, Live
<1>3. IsTable(g)
  BY <1>1, <1>2, KeepIsTable, WithIsTable
<1>4. \A u \in DOMAIN g : g[u] = s \/ (u \in DOMAIN f /\ g[u] = f[u])
  BY <1>1, <1>2 DEF With, Keep
<1>. QED  BY <1>3, <1>4
--------------------------------------------------------------------------------
(* Types *)

LEMMA RetiredType == TypeOK => Retired \subseteq Plans
BY DEF TypeOK, Retired

LEMMA InitType == Init => TypeOK
BY ProxyAssumption, EmptyIsTable
   DEF Init, TypeOK, Call, Request, Unstarted, Unserved, CallStates, ReqStates, Serving

LEMMA StreamExpiryType ==
  ASSUME NEW a \in Nat, NEW b \in Nat, NEW c \in Nat
  PROVE  StreamExpiry(a, b, c) \in Nat
BY ProxyAssumption DEF StreamExpiry, Earliest

\* A failing call, a step of its own and of WrapResource and WrapCheck.
LEMMA CallFailsType ==
  ASSUME TypeOK, NEW p \in Plans, CallFails(p)
  PROVE  TypeOK'
<1>1. \A q \in Plans : IsTable(staged'[q])
  BY EmptyIsTable DEF TypeOK, CallFails
<1>2. call' \in [Plans -> Call]
  BY ProxyAssumption DEF TypeOK, CallFails, Unstarted, Call, CallStates
<1>. QED  BY <1>1, <1>2 DEF TypeOK, CallFails

LEMMA WrapResourceType ==
  ASSUME TypeOK, NEW p \in Plans, WrapResource(p), ~CallFails(p)
  PROVE  TypeOK'
<1>. DEFINE c == call[p]
            until == StreamExpiry(clock, c.until, c.until)
            session == [plan |-> p, expiresAt |-> until, lastUsed |-> clock]
<1>1. PICK table \in Insertions(staged[p], <<p, c.next>>, session, clock) :
        staged' = [staged EXCEPT ![p] = table]
  BY DEF WrapResource
<1>2. <<p, c.next>> \in Tokens
  BY ProxyAssumption DEF WrapResource, TypeOK, Call, Tokens
<1>3. session \in Session
  BY StreamExpiryType DEF TypeOK, Call, Session
<1>4. IsTable(table)
  BY <1>1, <1>2, <1>3, InsertionsAreTables DEF TypeOK
<1>5. \A q \in Plans : IsTable(staged'[q])
  BY <1>1, <1>4 DEF TypeOK
<1>6. call' \in [Plans -> Call]
  <2>1. call[p] \in Call /\ call[p].next + 1 \in Nat \ {0}
    BY DEF TypeOK, Call
  <2>2. call' = [call EXCEPT ![p].next = @ + 1]
    BY DEF WrapResource
  <2>. QED  BY <2>1, <2>2 DEF TypeOK, Call
<1>. QED  BY <1>1, <1>5, <1>6 DEF TypeOK, WrapResource

LEMMA WrapType ==
  ASSUME TypeOK, NEW p \in Plans, Wrap(p)
  PROVE  TypeOK'
<1>1. CASE WrapDirect(p)
  BY <1>1, EmptyIsTable, RetiredType DEF TypeOK, WrapDirect, Call, CallStates
<1>2. ASSUME NEW n \in 1..MaxResources, NEW e \in Expiries, WrapBegin(p, n, e)
      PROVE  TypeOK'
  <2>1. Earliest(clock + DefaultTTL, e) \in Nat
    BY ProxyAssumption DEF TypeOK, Earliest
  <2>2. call' \in [Plans -> Call]
    BY <1>2, <2>1, ProxyAssumption DEF TypeOK, WrapBegin, Call, CallStates
  <2>. QED  BY <1>2, <2>2 DEF TypeOK, WrapBegin
<1>3. ASSUME NEW n \in 1..MaxResources, NEW e \in Expiries, WrapReject(p, n, e)
      PROVE  TypeOK'
  BY <1>3 DEF TypeOK, WrapReject, Call, CallStates
<1>4. CASE WrapResource(p)
  BY <1>4, CallFailsType, WrapResourceType
<1>5. CASE WrapCheck(p)
  <2>1. CASE CallFails(p)
    BY <2>1, CallFailsType
  <2>2. CASE ~CallFails(p)
    BY <1>5, <2>2 DEF TypeOK, WrapCheck, Call, CallStates
  <2>. QED  BY <2>1, <2>2
<1>6. CASE WrapPublish(p)
  <2>1. \A q \in Plans : IsTable(staged'[q])
    BY <1>6, EmptyIsTable DEF TypeOK, WrapPublish
  <2>2. call' \in [Plans -> Call]
    BY <1>6 DEF TypeOK, WrapPublish, Call, CallStates
  <2>. QED  BY <1>6, <2>1, <2>2, RetiredType DEF TypeOK, WrapPublish
<1>. QED  BY <1>1, <1>2, <1>3, <1>4, <1>5, <1>6 DEF Wrap

LEMMA ReturnType ==
  ASSUME TypeOK, NEW r \in Requests, NEW given \in SUBSET (1..MaxResources),
         Return(r, given)
  PROVE  /\ req' \in [Requests -> Request]
         /\ \A q \in Requests : req'[q].pc \in Serving => req'[q].plan \in Plans
BY DEF TypeOK, Return, Unserved, Request, ReqStates, Serving

LEMMA WrapReferenceType ==
  ASSUME TypeOK, NEW r \in Requests, NEW e \in Expiries, NEW now \in 0..clock,
         WrapReference(r, e, now), ~(Return(r, req[r].given) /\ UNCHANGED sessions)
  PROVE  TypeOK'
<1>. DEFINE until == StreamExpiry(now, req[r].expiresAt, e)
            session == [plan |-> req[r].plan, expiresAt |-> until, lastUsed |-> now]
            t == <<r, req[r].refs + 1>>
<1>1. req[r] \in Request /\ req[r].pc = "rewrite" /\ req[r].plan \in Plans
  BY DEF TypeOK, WrapReference, Serving
<1>2. sessions' \in Insertions(sessions, t, session, now)
  BY DEF WrapReference
<1>3. req[r].refs + 1 \in 1..MaxResources
  BY <1>1, ProxyAssumption DEF WrapReference, Request
<1>4. now \in Nat /\ until \in Nat
  BY <1>1, StreamExpiryType, ProxyAssumption DEF TypeOK, Request
<1>5. t \in Tokens /\ session \in Session
  BY <1>1, <1>3, <1>4 DEF Tokens, Session
<1>6. IsTable(sessions')
  BY <1>2, <1>5, InsertionsAreTables DEF TypeOK
<1>7. /\ req' \in [Requests -> Request]
      /\ \A q \in Requests : req'[q].pc \in Serving => req'[q].plan \in Plans
  BY <1>1, <1>3, <1>4 DEF WrapReference, TypeOK, Request
<1>. QED  BY <1>6, <1>7 DEF TypeOK, WrapReference

LEMMA ServeType ==
  ASSUME TypeOK, NEW r \in Requests, Serve(r)
  PROVE  TypeOK'
<1>0. /\ req[r] \in Request
      /\ req[r].given \in SUBSET (1..MaxResources)
      /\ req[r].given \cup req[r].fresh \in SUBSET (1..MaxResources)
  BY DEF TypeOK, Request
<1>1. ASSUME NEW t \in Tokens, Receive(r, t)
      PROVE  TypeOK'
  BY <1>0, <1>1 DEF TypeOK, Receive, Request, ReqStates, Serving
<1>2. ASSUME NEW e \in Expiries, NEW now \in 0..clock, WrapReference(r, e, now)
      PROVE  TypeOK'
  <2>1. CASE Return(r, req[r].given) /\ UNCHANGED sessions
    BY <1>0, <1>2, <2>1, ReturnType DEF TypeOK, WrapReference
  <2>2. CASE ~(Return(r, req[r].given) /\ UNCHANGED sessions)
    BY <1>2, <2>2, WrapReferenceType
  <2>. QED  BY <2>1, <2>2
<1>3. CASE Lookup(r)
  <2>. DEFINE t == req[r].token
  <2>1. CASE Usable(t, req[r].now)
    <3>1. t \in DOMAIN sessions /\ sessions[t] \in Session
      BY <2>1 DEF Usable, Live, TypeOK, IsTable
    <3>2. /\ sessions' = [sessions EXCEPT ![t].lastUsed = req[r].now]
          /\ req' = [req EXCEPT ![r].pc = "connect", ![r].plan = sessions[t].plan,
                                ![r].expiresAt = sessions[t].expiresAt]
      BY <1>3, <2>1 DEF Lookup
    <3>3. [sessions[t] EXCEPT !.lastUsed = req[r].now] \in Session
      BY <1>0, <3>1 DEF Session, Request
    <3>4. IsTable(sessions')
      BY <3>2, <3>3 DEF TypeOK, IsTable
    <3>5. req' \in [Requests -> Request]
      BY <1>0, <3>1, <3>2 DEF TypeOK, Session, Request, ReqStates, Serving
    <3>6. \A q \in Requests : req'[q].pc \in Serving => req'[q].plan \in Plans
      BY <3>1, <3>2 DEF TypeOK, Session
    <3>. QED  BY <1>3, <3>4, <3>5, <3>6 DEF TypeOK, Lookup
  <2>2. CASE ~Usable(t, req[r].now)
    BY <1>0, <1>3, <2>2, WithoutIsTable, ReturnType DEF TypeOK, Lookup
  <2>. QED  BY <2>1, <2>2
<1>4. CASE Connect(r)
  <2>1. CASE Return(r, req[r].given)
    BY <1>0, <1>4, <2>1, ReturnType DEF TypeOK, Connect
  <2>2. CASE Step(r, "transfer")
    BY <1>0, <1>4, <2>2 DEF TypeOK, Connect, Step, Request, ReqStates, Serving
  <2>. QED  BY <1>4, <2>1, <2>2 DEF Connect
<1>5. CASE AbortTransfer(r)
  BY <1>0, <1>5, ReturnType DEF TypeOK, AbortTransfer
<1>6. IsTable(Observed(r))
  BY WithoutIsTable DEF TypeOK, Observed
<1>7. CASE FinishTransfer(r)
  BY <1>0, <1>6, <1>7, ReturnType DEF TypeOK, FinishTransfer
<1>8. CASE ReadManifest(r)
  BY <1>0, <1>6, <1>8 DEF TypeOK, ReadManifest, Step, Request, ReqStates, Serving
<1>9. CASE WriteManifest(r)
  BY <1>0, <1>9, ReturnType DEF TypeOK, WriteManifest
<1>. QED  BY <1>1, <1>2, <1>3, <1>4, <1>5, <1>7, <1>8, <1>9 DEF Serve

LEMMA TypeStep == TypeOK /\ [Next]_vars => TypeOK'
<1>. SUFFICES ASSUME TypeOK, [Next]_vars PROVE TypeOK'
  OBVIOUS
<1>1. ASSUME NEW p \in Plans, Wrap(p) \/ CancelCall(p) \/ LifetimeTimesOut(p) PROVE TypeOK'
  BY <1>1, WrapType DEF TypeOK, CancelCall, LifetimeTimesOut
<1>2. ASSUME NEW r \in Requests, Serve(r) PROVE TypeOK'
  BY <1>2, ServeType
<1>3. CASE Revoke
  BY <1>3, EmptyIsTable, RetiredType DEF TypeOK, Revoke
<1>4. CASE Tick \/ UNCHANGED vars
  BY <1>4 DEF TypeOK, Tick, vars
<1>. QED  BY <1>1, <1>2, <1>3, <1>4 DEF Next

\* Every variable of the proxy keeps its type: in particular every session is
\* that of a plan, and a request that is served has one (media_proxy.go, 34-44).
THEOREM TypeCorrect == Spec => []TypeOK
BY InitType, TypeStep, PTL DEF Spec
--------------------------------------------------------------------------------
(* Who owns the table *)

\* A published plan that does not hold the proxy (any more) is over.
SupersededIsOver ==
  \A p \in Plans : call[p].pc = "done" /\ p # holder => p \in ended

HolderIsPublished == holder # None => call[holder].pc = "done"

ServedIsPublished ==
  \A r \in Requests : req[r].pc \in Serving => call[req[r].plan].pc = "done"

\* A private table holds sessions of its call only, and while it is filled only.
StagedIsOwn ==
  \A p \in Plans : \A t \in DOMAIN staged[p] :
    staged[p][t].plan = p /\ call[p].pc \in {"staging", "publishing"}

OwnerInv ==
  /\ TypeOK
  /\ SupersededIsOver
  /\ HolderIsPublished
  /\ ServedIsPublished
  /\ StagedIsOwn
  /\ SessionsBelongToHolder

LEMMA InitOwner == Init => OwnerInv
BY InitType
   DEF Init, OwnerInv, SupersededIsOver, HolderIsPublished, ServedIsPublished, StagedIsOwn,
       SessionsBelongToHolder, Unstarted, Unserved, EmptyTable, Serving

\* What a call does leaves published plans, the holder and the requests alone,
\* unless it publishes.
LEMMA WrapOwner ==
  ASSUME OwnerInv, TypeOK', NEW p \in Plans, Wrap(p)
  PROVE  OwnerInv'
<1>1. CASE WrapDirect(p)
  BY <1>1, ProxyAssumption
     DEF WrapDirect, OwnerInv, TypeOK, SupersededIsOver, HolderIsPublished, ServedIsPublished,
         StagedIsOwn, SessionsBelongToHolder, Retired, EmptyTable, Serving
<1>2. ASSUME NEW n \in 1..MaxResources, NEW e \in Expiries, WrapBegin(p, n, e)
      PROVE  OwnerInv'
  BY <1>2, ProxyAssumption
     DEF WrapBegin, OwnerInv, TypeOK, SupersededIsOver, HolderIsPublished, ServedIsPublished,
         StagedIsOwn, SessionsBelongToHolder, Serving
<1>3. ASSUME NEW n \in 1..MaxResources, NEW e \in Expiries, WrapReject(p, n, e)
      PROVE  OwnerInv'
  BY <1>3, ProxyAssumption
     DEF WrapReject, OwnerInv, TypeOK, SupersededIsOver, HolderIsPublished, ServedIsPublished,
         StagedIsOwn, SessionsBelongToHolder, Serving
<1>4. ASSUME CallFails(p), call[p].pc = "staging" PROVE OwnerInv'
  BY <1>4, ProxyAssumption
     DEF CallFails, OwnerInv, TypeOK, SupersededIsOver, HolderIsPublished, ServedIsPublished,
         StagedIsOwn, SessionsBelongToHolder, Unstarted, EmptyTable, Serving
<1>5. CASE WrapResource(p)
  <2>1. CASE CallFails(p)
    BY <1>4, <1>5, <2>1 DEF WrapResource
  <2>2. CASE ~CallFails(p)
    <3>. DEFINE until == StreamExpiry(clock, call[p].until, call[p].until)
                session == [plan |-> p, expiresAt |-> until, lastUsed |-> clock]
    <3>1. PICK table \in Insertions(staged[p], <<p, call[p].next>>, session, clock) :
            staged' = [staged EXCEPT ![p] = table]
      BY <1>5, <2>2 DEF WrapResource
    <3>2. <<p, call[p].next>> \in Tokens /\ session \in Session /\ IsTable(staged[p])
      BY <1>5, StreamExpiryType, ProxyAssumption
         DEF OwnerInv, WrapResource, TypeOK, Call, Tokens, Session
    <3>3. \A t \in DOMAIN table : table[t].plan = p
      BY <3>1, <3>2, InsertionsAreTables DEF OwnerInv, StagedIsOwn
    <3>4. /\ call' = [call EXCEPT ![p].next = @ + 1] /\ call[p].pc = "staging"
          /\ UNCHANGED <<sessions, holder, ended, req>>
      BY <1>5, <2>2 DEF WrapResource
    <3>5. \A q \in Plans : call'[q].pc = call[q].pc
      BY <3>4 DEF OwnerInv, TypeOK, Call
    <3>6. StagedIsOwn'
      BY <3>1, <3>3, <3>4, <3>5 DEF OwnerInv, TypeOK, StagedIsOwn
    <3>. QED
      BY <3>4, <3>5, <3>6, ProxyAssumption
         DEF OwnerInv, TypeOK, SupersededIsOver, HolderIsPublished, ServedIsPublished,
             SessionsBelongToHolder
  <2>. QED  BY <2>1, <2>2
<1>6. CASE WrapCheck(p)
  <2>1. CASE CallFails(p)
    BY <1>4, <1>6, <2>1 DEF WrapCheck
  <2>2. CASE ~CallFails(p)
    <3>1. /\ call' = [call EXCEPT ![p].pc = "publishing"] /\ call[p].pc = "staging"
          /\ UNCHANGED <<sessions, holder, ended, staged, req>>
      BY <1>6, <2>2 DEF WrapCheck
    <3>. QED
      BY <3>1, ProxyAssumption
         DEF OwnerInv, TypeOK, SupersededIsOver, HolderIsPublished, ServedIsPublished,
             StagedIsOwn, SessionsBelongToHolder
  <2>. QED  BY <2>1, <2>2
<1>7. CASE WrapPublish(p)
  BY <1>7, ProxyAssumption
     DEF WrapPublish, OwnerInv, TypeOK, SupersededIsOver, HolderIsPublished,
         ServedIsPublished, StagedIsOwn, SessionsBelongToHolder, Retired, EmptyTable,
         Serving
<1>. QED  BY <1>1, <1>2, <1>3, <1>5, <1>6, <1>7 DEF Wrap

\* The holder passes the check under the mutex, and nobody else does.
LEMMA OnlyHolderIsAlive ==
  ASSUME OwnerInv, NEW r \in Requests, req[r].pc \in Serving, req[r].plan \notin ended
  PROVE  req[r].plan = holder
BY DEF OwnerInv, TypeOK, ServedIsPublished, SupersededIsOver

\* Serving touches the table and the request only, and each new session has the
\* plan of the request.
LEMMA ServeOwner ==
  ASSUME OwnerInv, TypeOK', NEW r \in Requests, Serve(r)
  PROVE  OwnerInv'
<1>1. UNCHANGED <<holder, ended, call, staged>>
  BY DEF Serve, Receive, Lookup, Connect, AbortTransfer, FinishTransfer, ReadManifest,
         WrapReference, WriteManifest
<1>2. SupersededIsOver' /\ HolderIsPublished' /\ StagedIsOwn'
  BY <1>1 DEF OwnerInv, SupersededIsOver, HolderIsPublished, StagedIsOwn
<1>3. \/ UNCHANGED sessions
      \/ \E t : sessions' = Without(sessions, t)
      \/ \E t \in DOMAIN sessions : \E n : sessions' = [sessions EXCEPT ![t].lastUsed = n]
      \/ \E e \in Expiries, now \in 0..clock :
           WrapReference(r, e, now) /\ req[r].plan \notin ended
  BY DEF Serve, Receive, Lookup, Connect, AbortTransfer, FinishTransfer, ReadManifest,
         WrapReference, WriteManifest, Observed, Usable, Live
<1>4. SessionsBelongToHolder'
  <2>1. ASSUME NEW t, sessions' = Without(sessions, t)
        PROVE  SessionsBelongToHolder'
    BY <1>1, <2>1 DEF OwnerInv, SessionsBelongToHolder, Without
  <2>2. ASSUME NEW t \in DOMAIN sessions, NEW n,
               sessions' = [sessions EXCEPT ![t].lastUsed = n]
        PROVE  SessionsBelongToHolder'
    BY <1>1, <2>2 DEF OwnerInv, TypeOK, IsTable, Session, SessionsBelongToHolder
  <2>3. ASSUME NEW e \in Expiries, NEW now \in 0..clock,
               WrapReference(r, e, now), req[r].plan \notin ended
        PROVE  SessionsBelongToHolder'
    <3>. DEFINE until == StreamExpiry(now, req[r].expiresAt, e)
                session == [plan |-> req[r].plan, expiresAt |-> until, lastUsed |-> now]
                t == <<r, req[r].refs + 1>>
    <3>1. req[r].plan = holder
      BY <2>3, OnlyHolderIsAlive DEF WrapReference, Serving
    <3>2. CASE UNCHANGED sessions
      BY <1>1, <3>2 DEF OwnerInv, SessionsBelongToHolder
    <3>3. CASE sessions' \in Insertions(sessions, t, session, now)
      <4>1. t \in Tokens /\ session \in Session /\ IsTable(sessions)
        <5>1. req[r] \in Request /\ req[r].plan \in Plans /\ now \in Nat
          BY <2>3, ProxyAssumption DEF OwnerInv, TypeOK, WrapReference, Serving
        <5>2. until \in Nat /\ req[r].refs + 1 \in 1..MaxResources
          BY <2>3, <5>1, StreamExpiryType, ProxyAssumption DEF Request, WrapReference
        <5>. QED  BY <5>1, <5>2 DEF OwnerInv, TypeOK, Tokens, Session
      <4>2. \A u \in DOMAIN sessions' :
              sessions'[u] = session \/ (u \in DOMAIN sessions /\ sessions'[u] = sessions[u])
        BY <3>3, <4>1, InsertionsAreTables
      <4>. QED  BY <1>1, <3>1, <4>2 DEF OwnerInv, SessionsBelongToHolder
    <3>. QED  BY <2>3, <3>2, <3>3 DEF WrapReference
  <2>4. CASE UNCHANGED sessions
    BY <1>1, <2>4 DEF OwnerInv, SessionsBelongToHolder
  <2>. QED  BY <1>3, <2>4, <2>3, <2>2, <2>1
<1>5. ServedIsPublished'
  <2>. DEFINE Same == \/ req'[r].pc \notin Serving
                      \/ req[r].pc \in Serving /\ req'[r].plan = req[r].plan
                      \/ \E t \in DOMAIN sessions : req'[r].plan = sessions[t].plan
  <2>1. Same
    <3>1. ASSUME NEW given, Return(r, given) PROVE Same
      BY <3>1 DEF Return, Unserved, Serving, OwnerInv, TypeOK
    <3>2. ASSUME NEW t \in Tokens, Receive(r, t) PROVE Same
      BY <3>2 DEF Receive, Serving, OwnerInv, TypeOK, Request
    <3>3. ASSUME NEW e \in Expiries, NEW now \in 0..clock, WrapReference(r, e, now)
          PROVE  Same
      BY <3>1, <3>3 DEF WrapReference, Serving, OwnerInv, TypeOK, Request
    <3>4. CASE Lookup(r)
      BY <3>1, <3>4 DEF Lookup, Usable, Live, OwnerInv, TypeOK, Request
    <3>5. CASE Connect(r) \/ ReadManifest(r)
      BY <3>1, <3>5 DEF Connect, ReadManifest, Step, Serving, OwnerInv, TypeOK, Request
    <3>6. CASE AbortTransfer(r) \/ FinishTransfer(r) \/ WriteManifest(r)
      BY <3>1, <3>6 DEF AbortTransfer, FinishTransfer, WriteManifest
    <3>. QED  BY <3>2, <3>3, <3>4, <3>5, <3>6 DEF Serve
  <2>2. \A q \in Requests \ {r} : req'[q] = req[q]
    BY DEF Serve, Receive, Lookup, Connect, AbortTransfer, FinishTransfer, ReadManifest,
           WrapReference, WriteManifest, Return, Step, OwnerInv, TypeOK
  <2>3. \A t \in DOMAIN sessions :
          call[sessions[t].plan].pc = "done" /\ sessions[t].plan \in Plans
    BY ProxyAssumption
       DEF OwnerInv, TypeOK, IsTable, Session, SessionsBelongToHolder, HolderIsPublished
  <2>. QED  BY <1>1, <2>1, <2>2, <2>3 DEF OwnerInv, ServedIsPublished
<1>. QED  BY <1>2, <1>4, <1>5 DEF OwnerInv

LEMMA OwnerStep == OwnerInv /\ [Next]_vars => OwnerInv'
<1>. SUFFICES ASSUME OwnerInv, [Next]_vars PROVE OwnerInv'
  OBVIOUS
<1>1. TypeOK'
  BY TypeStep DEF OwnerInv
<1>2. ASSUME NEW p \in Plans, Wrap(p) PROVE OwnerInv'
  BY <1>1, <1>2, WrapOwner
<1>3. ASSUME NEW p \in Plans, CancelCall(p) \/ LifetimeTimesOut(p) PROVE OwnerInv'
  BY <1>1, <1>3
     DEF CancelCall, LifetimeTimesOut, OwnerInv, SupersededIsOver, HolderIsPublished,
         ServedIsPublished, StagedIsOwn, SessionsBelongToHolder
<1>4. ASSUME NEW r \in Requests, Serve(r) PROVE OwnerInv'
  BY <1>1, <1>4, ServeOwner
<1>5. CASE Revoke
  BY <1>1, <1>5, ProxyAssumption
     DEF Revoke, OwnerInv, TypeOK, SupersededIsOver, HolderIsPublished,
         ServedIsPublished, StagedIsOwn, SessionsBelongToHolder, Retired, EmptyTable
<1>6. CASE Tick \/ UNCHANGED vars
  BY <1>1, <1>6
     DEF Tick, vars, OwnerInv, SupersededIsOver, HolderIsPublished, ServedIsPublished,
         StagedIsOwn, SessionsBelongToHolder
<1>. QED  BY <1>2, <1>3, <1>4, <1>5, <1>6 DEF Next

\* Every session in the table is of the plan that holds the proxy, for any number
\* of plans, requests and interleavings of their steps (WrapPlan, Revoke and
\* wrapStream of media_proxy.go).
THEOREM HolderOwnsTable == Spec => []SessionsBelongToHolder
<1>1. OwnerInv => SessionsBelongToHolder
  BY DEF OwnerInv
<1>. QED  BY <1>1, InitOwner, OwnerStep, PTL DEF Spec
--------------------------------------------------------------------------------
(* The proxy implements the lease *)

\* The refinement mapping: the plan each request transfers for.
Served == [r \in Requests |-> IF req[r].pc = "transfer" THEN req[r].plan ELSE None]

LEMMA ServedIsMapped == Lease!leaseVars = <<holder, ended, Served>>
BY DEF Lease!leaseVars, Served

LEMMA InitLease == Init => Lease!LeaseInit
BY DEF Init, Lease!LeaseInit, Unserved

\* The steps of a call: publishing grants the lease, a direct plan releases it, a
\* failing call ends its own lifetime.
LEMMA WrapLease ==
  ASSUME OwnerInv, NEW p \in Plans, Wrap(p)
  PROVE  [Lease!LeaseNext]_(Lease!leaseVars)
<1>1. UNCHANGED req
  BY DEF Wrap, WrapDirect, WrapBegin, WrapReject, WrapResource, WrapCheck, WrapPublish,
         CallFails
<1>2. UNCHANGED Served
  BY <1>1 DEF Served
<1>3. CASE WrapDirect(p)
  BY <1>2, <1>3 DEF WrapDirect, Retired, Lease!Release, Lease!Retired, Lease!LeaseNext, Served
<1>4. CASE WrapPublish(p)
  <2>1. p # holder
    BY <1>4, ProxyAssumption DEF OwnerInv, HolderIsPublished, WrapPublish
  <2>. QED
    BY <1>2, <1>4, <2>1
       DEF WrapPublish, Retired, Lease!Grant, Lease!Retired, Lease!LeaseNext, Served
<1>5. CASE CallFails(p)
  BY <1>2, <1>5 DEF CallFails, Lease!EndLifetime, Lease!LeaseNext, Served
<1>6. CASE UNCHANGED <<holder, ended>>
  BY <1>2, <1>6 DEF Lease!leaseVars, Served
<1>. QED
  BY <1>3, <1>4, <1>5, <1>6
     DEF Wrap, WrapDirect, WrapBegin, WrapReject, WrapResource, WrapCheck, WrapPublish

\* A request stops transferring, or starts to for the holder, or does neither.
LEMMA ServeLease ==
  ASSUME OwnerInv, NEW r \in Requests, Serve(r)
  PROVE  [Lease!LeaseNext]_(Lease!leaseVars)
<1>. DEFINE Starts == /\ req[r].pc = "connect" /\ req[r].plan \notin ended
                      /\ req'[r].pc = "transfer" /\ req'[r].plan = req[r].plan
            Idles == req'[r].pc # "transfer"
<1>1. UNCHANGED <<holder, ended>>
  BY DEF Serve, Receive, Lookup, Connect, AbortTransfer, FinishTransfer, ReadManifest,
         WrapReference, WriteManifest
<1>2. req[r] \in Request /\ \A q \in Requests \ {r} : req'[q] = req[q]
  BY DEF Serve, Receive, Lookup, Connect, AbortTransfer, FinishTransfer, ReadManifest,
         WrapReference, WriteManifest, Return, Step, OwnerInv, TypeOK
<1>3. Starts \/ Idles
  <2>1. ASSUME NEW given, Return(r, given) PROVE Idles
    BY <2>1 DEF Return, Unserved, OwnerInv, TypeOK
  <2>2. ASSUME NEW t \in Tokens, Receive(r, t) PROVE Idles
    BY <2>2 DEF Receive, OwnerInv, TypeOK, Request
  <2>3. ASSUME NEW e \in Expiries, NEW now \in 0..clock, WrapReference(r, e, now)
        PROVE  Idles
    BY <1>2, <2>1, <2>3 DEF WrapReference, OwnerInv, TypeOK, Request
  <2>4. CASE Lookup(r)
    BY <1>2, <2>1, <2>4 DEF Lookup, OwnerInv, TypeOK, Request
  <2>5. CASE Connect(r)
    BY <1>2, <2>1, <2>5 DEF Connect, Step, OwnerInv, TypeOK, Request
  <2>6. CASE ReadManifest(r)
    BY <1>2, <2>6 DEF ReadManifest, Step, OwnerInv, TypeOK, Request
  <2>7. CASE AbortTransfer(r) \/ FinishTransfer(r) \/ WriteManifest(r)
    BY <2>1, <2>7 DEF AbortTransfer, FinishTransfer, WriteManifest
  <2>. QED  BY <2>7, <2>6, <2>5, <2>4, <2>3, <2>2 DEF Serve
<1>4. CASE Starts
  <2>1. req[r].plan = holder /\ holder # None
    BY <1>4, OnlyHolderIsAlive, ProxyAssumption DEF Serving, OwnerInv, TypeOK
  <2>2. Served[r] = None /\ Served' = [Served EXCEPT ![r] = holder]
    BY <1>2, <1>4, <2>1 DEF Served
  <2>3. Lease!StartTransfer(r)
    BY <1>1, <1>4, <2>1, <2>2 DEF Lease!StartTransfer, Served
  <2>. QED  BY <2>3 DEF Lease!LeaseNext
<1>5. CASE Idles /\ req[r].pc = "transfer"
  <2>1. Served[r] # None /\ Served' = [Served EXCEPT ![r] = None]
    BY <1>2, <1>5, ProxyAssumption DEF Served, OwnerInv, TypeOK, Serving
  <2>2. Lease!StopTransfer(r)
    BY <1>1, <2>1 DEF Lease!StopTransfer, Served
  <2>. QED  BY <2>2 DEF Lease!LeaseNext
<1>6. CASE Idles /\ req[r].pc # "transfer"
  <2>1. Served' = Served
    BY <1>2, <1>6 DEF Served
  <2>. QED  BY <1>1, <2>1, ServedIsMapped DEF Served, Lease!leaseVars
<1>. QED  BY <1>3, <1>4, <1>5, <1>6

LEMMA LeaseStep == OwnerInv /\ [Next]_vars => [Lease!LeaseNext]_(Lease!leaseVars)
<1>. SUFFICES ASSUME OwnerInv, [Next]_vars PROVE [Lease!LeaseNext]_(Lease!leaseVars)
  OBVIOUS
<1>1. ASSUME NEW p \in Plans, Wrap(p) PROVE [Lease!LeaseNext]_(Lease!leaseVars)
  BY <1>1, WrapLease
<1>2. ASSUME NEW r \in Requests, Serve(r) PROVE [Lease!LeaseNext]_(Lease!leaseVars)
  BY <1>2, ServeLease
<1>3. ASSUME NEW p \in Plans, LifetimeTimesOut(p)
      PROVE  [Lease!LeaseNext]_(Lease!leaseVars)
  BY <1>3 DEF LifetimeTimesOut, Lease!EndLifetime, Lease!LeaseNext
<1>4. CASE Revoke
  BY <1>4 DEF Revoke, Retired, Lease!Release, Lease!Retired, Lease!LeaseNext
<1>5. ASSUME UNCHANGED <<holder, ended, req>>
      PROVE  [Lease!LeaseNext]_(Lease!leaseVars)
  BY <1>5 DEF Lease!leaseVars
<1>. QED  BY <1>1, <1>2, <1>3, <1>4, <1>5 DEF Next, CancelCall, Tick, vars

\* The token table, the mutex and the contexts implement the lease of
\* PlaybackLease: upstream transfers start only for the plan that holds the proxy
\* and is alive (ServeHTTP and wrapStream, media_proxy.go 255-393).
THEOREM ProxyImplementsLease == Spec => ImplementsLease
<1>. QED
  BY InitLease, InitOwner, OwnerStep, LeaseStep, PTL
     DEF Spec, ImplementsLease, Lease!LeaseSpec
--------------------------------------------------------------------------------
(* Deadlines are inherited *)

StagedNotRenewed ==
  \A p \in Plans : \A t \in DOMAIN staged[p] : staged[p][t].expiresAt <= call[p].until

ServedNotRenewed ==
  \A r \in Requests :
    req[r].pc \in Serving => req[r].expiresAt <= call[req[r].plan].until

DeadlineInv == OwnerInv /\ LeaseNeverRenewed /\ StagedNotRenewed /\ ServedNotRenewed

LEMMA InitDeadline == Init => DeadlineInv
BY InitOwner
   DEF Init, DeadlineInv, LeaseNeverRenewed, StagedNotRenewed, ServedNotRenewed,
       EmptyTable, Unserved, Serving

\* wrapStream only ever shortens a deadline.
LEMMA StreamExpiryShortens ==
  ASSUME NEW a \in Nat, NEW b \in Nat, NEW c \in Nat
  PROVE  StreamExpiry(a, b, c) <= b
BY ProxyAssumption DEF StreamExpiry, Earliest

\* The plans that sessions and requests refer to are published.
LEMMA ReferredIsPublished ==
  ASSUME OwnerInv
  PROVE  /\ \A t \in DOMAIN sessions :
              sessions[t].plan \in Plans /\ call[sessions[t].plan].pc = "done"
         /\ \A r \in Requests : req[r].pc \in Serving =>
              req[r].plan \in Plans /\ call[req[r].plan].pc = "done"
BY ProxyAssumption
   DEF OwnerInv, TypeOK, IsTable, Session, SessionsBelongToHolder, HolderIsPublished,
       ServedIsPublished

\* A call may set its deadline only before anything carries it.
LEMMA WrapDeadline ==
  ASSUME DeadlineInv, OwnerInv', NEW p \in Plans, Wrap(p)
  PROVE  DeadlineInv'
<1>1. /\ UNCHANGED req
      /\ \A q \in Plans \ {p} : call'[q] = call[q] /\ staged'[q] = staged[q]
  BY DEF Wrap, WrapDirect, WrapBegin, WrapReject, WrapResource, WrapCheck, WrapPublish,
         CallFails, DeadlineInv, OwnerInv, TypeOK
<1>2. call[p].pc = "done" => UNCHANGED call
  BY DEF Wrap, WrapDirect, WrapBegin, WrapReject, WrapResource, WrapCheck, WrapPublish
<1>3. ServedNotRenewed'
  BY <1>1, <1>2, ReferredIsPublished DEF DeadlineInv, ServedNotRenewed
<1>4. LeaseNeverRenewed'
  <2>1. CASE WrapPublish(p)
    BY <2>1 DEF WrapPublish, DeadlineInv, OwnerInv, TypeOK, StagedIsOwn,
                StagedNotRenewed, LeaseNeverRenewed
  <2>2. CASE WrapDirect(p)
    BY <2>2 DEF WrapDirect, LeaseNeverRenewed, EmptyTable
  <2>3. CASE UNCHANGED sessions
    BY <1>1, <1>2, <2>3, ReferredIsPublished DEF DeadlineInv, LeaseNeverRenewed
  <2>. QED
    BY <2>1, <2>2, <2>3
       DEF Wrap, WrapBegin, WrapReject, WrapResource, WrapCheck, CallFails
<1>5. StagedNotRenewed'
  <2>1. \/ DOMAIN staged'[p] = {}
        \/ staged'[p] = staged[p] /\ call'[p].until = call[p].until
        \/ WrapResource(p) /\ ~CallFails(p)
    <3>1. DOMAIN staged[p] = {} \/ call[p].pc \in {"staging", "publishing"}
      BY DEF DeadlineInv, OwnerInv, StagedIsOwn
    <3>2. CASE CallFails(p) \/ WrapPublish(p)
      BY <3>2 DEF CallFails, WrapPublish, EmptyTable, DeadlineInv, OwnerInv, TypeOK
    <3>3. CASE WrapCheck(p) /\ ~CallFails(p)
      BY <3>3 DEF WrapCheck, DeadlineInv, OwnerInv, TypeOK, Call
    <3>4. ASSUME call[p].pc = "idle", UNCHANGED staged
          PROVE  DOMAIN staged'[p] = {}
      BY <3>1, <3>4
    <3>. QED  BY <3>2, <3>3, <3>4 DEF Wrap, WrapDirect, WrapBegin, WrapReject
  <2>2. CASE WrapResource(p) /\ ~CallFails(p)
    <3>. DEFINE until == StreamExpiry(clock, call[p].until, call[p].until)
                session == [plan |-> p, expiresAt |-> until, lastUsed |-> clock]
    <3>1. PICK table \in Insertions(staged[p], <<p, call[p].next>>, session, clock) :
            staged' = [staged EXCEPT ![p] = table]
      BY <2>2 DEF WrapResource
    <3>2. call' = [call EXCEPT ![p].next = @ + 1]
      BY <2>2 DEF WrapResource
    <3>3. <<p, call[p].next>> \in Tokens /\ session \in Session /\ IsTable(staged[p])
      BY <2>2, StreamExpiryType, ProxyAssumption
         DEF DeadlineInv, OwnerInv, WrapResource, TypeOK, Call, Tokens, Session
    <3>4. until <= call[p].until
      BY StreamExpiryShortens DEF DeadlineInv, OwnerInv, TypeOK, Call
    <3>5. \A t \in DOMAIN table : table[t].expiresAt <= call[p].until
      BY <3>3, <3>4, InsertionsAreTables DEF DeadlineInv, StagedNotRenewed
    <3>. QED
      BY <1>1, <3>1, <3>2, <3>5 DEF DeadlineInv, OwnerInv, TypeOK, Call, StagedNotRenewed
  <2>. QED  BY <1>1, <2>1, <2>2 DEF DeadlineInv, StagedNotRenewed
<1>. QED  BY <1>3, <1>4, <1>5 DEF DeadlineInv

\* A request inherits the deadline of its session, a reference that of its request.
LEMMA ServeDeadline ==
  ASSUME DeadlineInv, OwnerInv', NEW r \in Requests, Serve(r)
  PROVE  DeadlineInv'
<1>1. UNCHANGED <<call, staged>>
  BY DEF Serve, Receive, Lookup, Connect, AbortTransfer, FinishTransfer, ReadManifest,
         WrapReference, WriteManifest
<1>2. StagedNotRenewed'
  BY <1>1 DEF DeadlineInv, StagedNotRenewed
<1>3. req[r] \in Request /\ \A q \in Requests \ {r} : req'[q] = req[q]
  BY DEF Serve, Receive, Lookup, Connect, AbortTransfer, FinishTransfer, ReadManifest,
         WrapReference, WriteManifest, Return, Step, DeadlineInv, OwnerInv, TypeOK
<1>. DEFINE Same == \/ req'[r].pc \notin Serving
                    \/ /\ req[r].pc \in Serving
                       /\ req'[r].plan = req[r].plan
                       /\ req'[r].expiresAt = req[r].expiresAt
                    \/ \E t \in DOMAIN sessions :
                         /\ req'[r].plan = sessions[t].plan
                         /\ req'[r].expiresAt = sessions[t].expiresAt
<1>4. Same
  <2>. USE <1>3 DEF DeadlineInv, OwnerInv, TypeOK, Request
  <2>1. ASSUME NEW given, Return(r, given) PROVE Same
    BY <2>1 DEF Return, Unserved, Serving
  <2>2. ASSUME NEW t \in Tokens, Receive(r, t) PROVE Same
    BY <2>2 DEF Receive, Serving
  <2>3. ASSUME NEW e \in Expiries, NEW now \in 0..clock, WrapReference(r, e, now)
        PROVE  Same
    BY <2>1, <2>3 DEF WrapReference, Serving
  <2>4. CASE Lookup(r)
    BY <2>1, <2>4 DEF Lookup, Usable, Live
  <2>5. CASE Connect(r) \/ ReadManifest(r)
    BY <2>1, <2>5 DEF Connect, ReadManifest, Step, Serving
  <2>6. CASE AbortTransfer(r) \/ FinishTransfer(r) \/ WriteManifest(r)
    BY <2>1, <2>6 DEF AbortTransfer, FinishTransfer, WriteManifest
  <2>. QED  BY <2>6, <2>5, <2>4, <2>3, <2>2 DEF Serve
<1>5. ServedNotRenewed'
  BY <1>1, <1>3, <1>4 DEF DeadlineInv, ServedNotRenewed, LeaseNeverRenewed
<1>6. LeaseNeverRenewed'
  <2>1. ASSUME NEW t, sessions' = Without(sessions, t)
        PROVE  LeaseNeverRenewed'
    BY <1>1, <2>1 DEF DeadlineInv, LeaseNeverRenewed, Without
  <2>2. ASSUME NEW t \in DOMAIN sessions, NEW n,
               sessions' = [sessions EXCEPT ![t].lastUsed = n]
        PROVE  LeaseNeverRenewed'
    BY <1>1, <2>2 DEF DeadlineInv, OwnerInv, TypeOK, IsTable, Session, LeaseNeverRenewed
  <2>3. CASE UNCHANGED sessions
    BY <1>1, <2>3 DEF DeadlineInv, LeaseNeverRenewed
  <2>4. ASSUME NEW e \in Expiries, NEW now \in 0..clock, WrapReference(r, e, now)
        PROVE  LeaseNeverRenewed'
    <3>. DEFINE until == StreamExpiry(now, req[r].expiresAt, e)
                session == [plan |-> req[r].plan, expiresAt |-> until, lastUsed |-> now]
                t == <<r, req[r].refs + 1>>
    <3>1. CASE sessions' \in Insertions(sessions, t, session, now)
      <4>1. req[r].plan \in Plans /\ now \in Nat /\ e \in Nat /\ req[r].pc = "rewrite"
        BY <2>4, ProxyAssumption
           DEF DeadlineInv, OwnerInv, TypeOK, WrapReference, Serving
      <4>2. until \in Nat /\ until <= req[r].expiresAt /\ req[r].refs + 1 \in 1..MaxResources
        <5>1. req[r].expiresAt \in Nat
          BY <1>3 DEF Request
        <5>2. until \in Nat /\ until <= req[r].expiresAt
          BY <4>1, <5>1, StreamExpiryType, StreamExpiryShortens
        <5>3. req[r].refs + 1 \in 1..MaxResources
          BY <1>3, <2>4, ProxyAssumption DEF Request, WrapReference
        <5>. QED  BY <5>2, <5>3
      <4>3. t \in Tokens /\ session \in Session /\ IsTable(sessions)
        BY <4>1, <4>2 DEF DeadlineInv, OwnerInv, TypeOK, Tokens, Session
      <4>4. until <= call[req[r].plan].until
        BY <1>3, <4>1, <4>2
           DEF DeadlineInv, ServedNotRenewed, Serving, OwnerInv, TypeOK, Call, Request
      <4>5. \A u \in DOMAIN sessions' :
              sessions'[u] = session \/ (u \in DOMAIN sessions /\ sessions'[u] = sessions[u])
        BY <3>1, <4>3, InsertionsAreTables
      <4>. QED  BY <1>1, <4>4, <4>5 DEF DeadlineInv, LeaseNeverRenewed
    <3>. QED  BY <2>3, <2>4, <3>1 DEF WrapReference
  <2>. QED
    BY <2>4, <2>3, <2>2, <2>1
       DEF Serve, Receive, Lookup, Connect, AbortTransfer, FinishTransfer, ReadManifest,
           WriteManifest, Observed, Usable, Live
<1>. QED  BY <1>2, <1>5, <1>6 DEF DeadlineInv

LEMMA DeadlineStep == DeadlineInv /\ [Next]_vars => DeadlineInv'
<1>. SUFFICES ASSUME DeadlineInv, [Next]_vars PROVE DeadlineInv'
  OBVIOUS
<1>1. OwnerInv'
  BY OwnerStep DEF DeadlineInv
<1>2. ASSUME NEW p \in Plans, Wrap(p) PROVE DeadlineInv'
  BY <1>1, <1>2, WrapDeadline
<1>3. ASSUME NEW r \in Requests, Serve(r) PROVE DeadlineInv'
  BY <1>1, <1>3, ServeDeadline
<1>4. CASE Revoke
  BY <1>1, <1>4
     DEF Revoke, DeadlineInv, LeaseNeverRenewed, StagedNotRenewed, ServedNotRenewed, EmptyTable
<1>5. CASE UNCHANGED <<sessions, call, staged, req>>
  BY <1>1, <1>5 DEF DeadlineInv, LeaseNeverRenewed, StagedNotRenewed, ServedNotRenewed
<1>. QED
  BY <1>2, <1>3, <1>4, <1>5 DEF Next, CancelCall, LifetimeTimesOut, Tick, vars

\* No session outlives the deadline of its plan, through any depth of HLS playlists
\* and with any deadlines in their URLs (wrapStream and wrapHLSReference,
\* media_proxy.go 255-297 and 466-486).
THEOREM LeaseIsNeverRenewed == Spec => []LeaseNeverRenewed
<1>1. DeadlineInv => LeaseNeverRenewed
  BY DEF DeadlineInv
<1>. QED  BY <1>1, InitDeadline, DeadlineStep, PTL DEF Spec
--------------------------------------------------------------------------------
(* The limit of the table *)

IsBounded(f) == IsFiniteSet(DOMAIN f) /\ Cardinality(DOMAIN f) <= MaxSessions

BoundedInv ==
  /\ IsBounded(sessions)
  /\ \A p \in Plans : IsBounded(staged[p])

\* pruneLocked leaves room for the session that is inserted.
LEMMA InsertionsAreBounded ==
  ASSUME NEW f, IsBounded(f), NEW t, NEW s, NEW now, NEW g \in Insertions(f, t, s, now)
  PROVE  IsBounded(g)
<1>1. PICK S \in Survivors(f, now) : g = With(Keep(f, S), t, s)
  BY DEF Insertions
<1>2. S \subseteq Live(f, now) /\ Live(f, now) \subseteq DOMAIN f
  BY <1>1 DEF Survivors, Live
<1>3. /\ IsFiniteSet(S) /\ Cardinality(S) \in Nat
      /\ IsFiniteSet(Live(f, now)) /\ Cardinality(Live(f, now)) \in Nat
  BY <1>2, FS_Subset, FS_CardinalityType DEF IsBounded
<1>4. Cardinality(S) <= MaxSessions - 1
  BY <1>1, <1>3, ProxyAssumption DEF Survivors, Earliest
<1>5. DOMAIN g = S \cup {t}
  BY <1>1 DEF With, Keep
<1>6. /\ IsFiniteSet(S \cup {t})
      /\ Cardinality(S \cup {t}) = IF t \in S THEN Cardinality(S) ELSE Cardinality(S) + 1
  BY <1>3, FS_AddElement
<1>7. Cardinality(S \cup {t}) <= MaxSessions
  BY <1>3, <1>4, <1>6, ProxyAssumption
<1>. QED  BY <1>5, <1>6, <1>7 DEF IsBounded

LEMMA FewerIsBounded ==
  ASSUME NEW f, IsBounded(f), NEW g, DOMAIN g \subseteq DOMAIN f
  PROVE  IsBounded(g)
BY FS_Subset, FS_CardinalityType, ProxyAssumption DEF IsBounded

LEMMA EmptyIsBounded == IsBounded(EmptyTable)
BY FS_EmptySet, ProxyAssumption DEF IsBounded, EmptyTable

LEMMA BoundedStep == TypeOK /\ BoundedInv /\ [Next]_vars => BoundedInv'
<1>. SUFFICES ASSUME TypeOK, BoundedInv, [Next]_vars PROVE BoundedInv'
  OBVIOUS
<1>1. ASSUME UNCHANGED sessions,
             NEW p \in Plans, NEW f, IsBounded(f), staged' = [staged EXCEPT ![p] = f]
      PROVE  BoundedInv'
  BY <1>1 DEF BoundedInv, TypeOK
<1>2. ASSUME IsBounded(sessions'), UNCHANGED staged PROVE BoundedInv'
  BY <1>2 DEF BoundedInv
<1>3. ASSUME NEW p \in Plans, Wrap(p) PROVE BoundedInv'
  <2>1. CASE WrapDirect(p)
    BY <1>2, <2>1, EmptyIsBounded DEF WrapDirect
  <2>2. CASE CallFails(p)
    BY <1>1, <2>2, EmptyIsBounded DEF CallFails
  <2>3. CASE WrapResource(p) /\ ~CallFails(p)
    <3>. DEFINE session == [plan |-> p,
                            expiresAt |-> StreamExpiry(clock, call[p].until, call[p].until),
                            lastUsed |-> clock]
    <3>1. PICK f \in Insertions(staged[p], <<p, call[p].next>>, session, clock) :
            staged' = [staged EXCEPT ![p] = f] /\ UNCHANGED sessions
      BY <2>3 DEF WrapResource
    <3>2. IsBounded(f)
      BY <3>1, InsertionsAreBounded DEF BoundedInv
    <3>. QED  BY <1>1, <3>1, <3>2
  <2>4. CASE WrapPublish(p)
    <3>1. IsBounded(staged[p])
      BY DEF BoundedInv
    <3>. QED  BY <2>4, <3>1, EmptyIsBounded DEF WrapPublish, BoundedInv, TypeOK
  <2>5. CASE UNCHANGED <<sessions, staged>>
    BY <2>5 DEF BoundedInv
  <2>. QED
    BY <1>3, <2>5, <2>4, <2>3, <2>2, <2>1
       DEF Wrap, WrapBegin, WrapReject, WrapResource, WrapCheck
<1>4. ASSUME NEW r \in Requests, Serve(r) PROVE BoundedInv'
  <2>1. UNCHANGED staged
    BY <1>4 DEF Serve, Receive, Lookup, Connect, AbortTransfer, FinishTransfer,
                ReadManifest, WrapReference, WriteManifest
  <2>2. DOMAIN sessions' \subseteq DOMAIN sessions
        \/ \E t, s, now : sessions' \in Insertions(sessions, t, s, now)
    BY <1>4 DEF Serve, Receive, Lookup, Connect, AbortTransfer, FinishTransfer,
                ReadManifest, WrapReference, WriteManifest, Observed, Without
  <2>. QED  BY <1>2, <2>1, <2>2, FewerIsBounded, InsertionsAreBounded DEF BoundedInv
<1>5. CASE Revoke
  BY <1>2, <1>5, EmptyIsBounded DEF Revoke
<1>6. CASE UNCHANGED <<sessions, staged>>
  BY <1>6 DEF BoundedInv
<1>. QED
  BY <1>3, <1>4, <1>5, <1>6 DEF Next, CancelCall, LifetimeTimesOut, Tick, vars

\* The table never outgrows its limit, however many plans and manifests there are
\* (pruneLocked, media_proxy.go 517-541).
THEOREM TableIsBounded == Spec => []TableBounded
<1>1. Init => BoundedInv
  BY EmptyIsBounded DEF Init, BoundedInv
<1>2. BoundedInv => TableBounded
  BY DEF BoundedInv, IsBounded, TableBounded
<1>. QED  BY <1>1, <1>2, InitType, TypeStep, BoundedStep, PTL DEF Spec
--------------------------------------------------------------------------------
(* Publication is whole *)

\* A private table holds exactly the resources wrapped so far, none of them evicted:
\* they share one deadline, which is the plan's, and there is room for all.
StagedSoFar(p) ==
  /\ call[p].count <= MaxSessions
  /\ call[p].next <= call[p].count + 1
  /\ call[p].until <= clock + DefaultTTL
  /\ \A t \in DOMAIN staged[p] : staged[p][t].expiresAt = call[p].until
  /\ DOMAIN staged[p] = {<<p, k>> : k \in 1..(call[p].next - 1)}
  /\ Cardinality(DOMAIN staged[p]) = call[p].next - 1
  /\ call[p].pc = "publishing" => call[p].next = call[p].count + 1

StagedIsWhole ==
  \A p \in Plans : call[p].pc \in {"staging", "publishing"} => StagedSoFar(p)

WholeInv == OwnerInv /\ BoundedInv /\ StagedIsWhole

\* Nothing is evicted from a table that is alive and has room.
LEMMA NothingEvicted ==
  ASSUME NEW f, IsFiniteSet(DOMAIN f), NEW now, Live(f, now) = DOMAIN f,
         Cardinality(DOMAIN f) <= MaxSessions - 1,
         NEW t, NEW s, NEW g \in Insertions(f, t, s, now)
  PROVE  g = With(f, t, s)
<1>1. PICK S \in Survivors(f, now) : g = With(Keep(f, S), t, s)
  BY DEF Insertions
<1>2. S \subseteq DOMAIN f /\ Cardinality(S) = Cardinality(DOMAIN f)
  <2>1. Cardinality(DOMAIN f) \in Nat
    BY FS_CardinalityType
  <2>. QED  BY <1>1, <2>1, ProxyAssumption DEF Survivors, Earliest
<1>3. S = DOMAIN f
  BY <1>2, FS_Subset
<1>. QED  BY <1>1, <1>3 DEF With, Keep

LEMMA WrapResourceWhole ==
  ASSUME WholeInv, NEW p \in Plans, WrapResource(p), ~CallFails(p)
  PROVE  StagedSoFar(p)'
<1>. DEFINE f == staged[p]
            n == call[p].next
            until == StreamExpiry(clock, call[p].until, call[p].until)
            session == [plan |-> p, expiresAt |-> until, lastUsed |-> clock]
<1>1. /\ call[p] \in Call /\ clock \in Nat /\ n \in Nat /\ n >= 1
      /\ StagedSoFar(p) /\ call[p].pc = "staging" /\ n <= call[p].count
  BY DEF WrapResource, WholeInv, OwnerInv, TypeOK, Call, StagedIsWhole
<1>2. until = call[p].until
  BY <1>1, ProxyAssumption DEF StagedSoFar, StreamExpiry, Earliest, Call
<1>3. /\ until > clock /\ p \notin ended
      /\ \E g \in Insertions(f, <<p, n>>, session, clock) : staged' = [staged EXCEPT ![p] = g]
      /\ call' = [call EXCEPT ![p].next = @ + 1]
      /\ clock' = clock
  BY DEF WrapResource
<1>4. IsFiniteSet(DOMAIN f) /\ Cardinality(DOMAIN f) = n - 1
  BY <1>1 DEF WholeInv, BoundedInv, IsBounded, StagedSoFar
<1>5. Live(f, clock) = DOMAIN f
  BY <1>1, <1>2, <1>3 DEF Live, StagedSoFar, WholeInv, OwnerInv, StagedIsOwn, Call
<1>6. Cardinality(DOMAIN f) <= MaxSessions - 1
  BY <1>1, <1>4, ProxyAssumption DEF StagedSoFar, Call
<1>7. staged'[p] = With(f, <<p, n>>, session)
  BY <1>3, <1>4, <1>5, <1>6, NothingEvicted DEF WholeInv, OwnerInv, TypeOK
<1>8. call'[p].next = n + 1 /\ call'[p].count = call[p].count
      /\ call'[p].until = call[p].until /\ call'[p].pc = "staging"
  BY <1>1, <1>3 DEF WholeInv, OwnerInv, TypeOK, Call
<1>9. DOMAIN staged'[p] = DOMAIN f \cup {<<p, n>>}
  BY <1>7 DEF With
<1>10. <<p, n>> \notin DOMAIN f
  BY <1>1 DEF StagedSoFar
<1>11. Cardinality(DOMAIN staged'[p]) = n
  <2>1. Cardinality(DOMAIN f \cup {<<p, n>>}) = Cardinality(DOMAIN f) + 1
    BY <1>4, <1>10, FS_AddElement
  <2>. QED  BY <1>1, <1>4, <1>9, <2>1
<1>12. DOMAIN staged'[p] = {<<p, k>> : k \in 1..(call'[p].next - 1)}
  BY <1>1, <1>8, <1>9 DEF StagedSoFar
<1>13. \A t \in DOMAIN staged'[p] : staged'[p][t].expiresAt = call'[p].until
  BY <1>1, <1>2, <1>7, <1>8 DEF With, StagedSoFar
<1>. QED
  BY <1>1, <1>3, <1>8, <1>11, <1>12, <1>13 DEF StagedSoFar, Call

LEMMA WholeStep == WholeInv /\ [Next]_vars => WholeInv'
<1>. SUFFICES ASSUME WholeInv, [Next]_vars PROVE WholeInv'
  OBVIOUS
<1>1. OwnerInv' /\ BoundedInv'
  BY OwnerStep, BoundedStep DEF WholeInv, OwnerInv
<1>2. ASSUME UNCHANGED <<call, staged>>, clock' \in Nat, clock <= clock'
      PROVE  WholeInv'
  <2>1. ASSUME NEW p \in Plans, StagedSoFar(p) PROVE StagedSoFar(p)'
    BY <1>2, <2>1, ProxyAssumption DEF StagedSoFar, WholeInv, OwnerInv, TypeOK, Call
  <2>. QED  BY <1>1, <1>2, <2>1 DEF WholeInv, StagedIsWhole
<1>3. ASSUME NEW p \in Plans, Wrap(p) PROVE WholeInv'
  <2>1. \A q \in Plans \ {p} : call'[q] = call[q] /\ staged'[q] = staged[q]
    BY <1>3 DEF Wrap, WrapDirect, WrapBegin, WrapReject, WrapResource, WrapCheck,
                WrapPublish, CallFails, WholeInv, OwnerInv, TypeOK
  <2>2. UNCHANGED clock
    BY <1>3 DEF Wrap, WrapDirect, WrapBegin, WrapReject, WrapResource, WrapCheck,
                WrapPublish, CallFails
  <2>3. \A q \in Plans \ {p} :
          /\ StagedSoFar(q) => StagedSoFar(q)'
          /\ call'[q].pc = call[q].pc /\ call'[q].next = call[q].next
    BY <2>1, <2>2 DEF StagedSoFar
  <2>4. /\ call'[p].pc \in {"staging", "publishing"} => StagedSoFar(p)'
        /\ call'[p].pc # "idle"
    <3>. USE DEF WholeInv, OwnerInv, TypeOK
    <3>1. CASE WrapDirect(p) \/ CallFails(p) \/ WrapPublish(p)
      BY <3>1 DEF WrapDirect, CallFails, WrapPublish, Call, Unstarted
    <3>2. ASSUME NEW n, NEW e, WrapReject(p, n, e)
          PROVE  call'[p].pc = "failed"
      BY <3>2 DEF WrapReject, Call
    <3>3. ASSUME NEW n \in 1..MaxResources, NEW e \in Expiries, WrapBegin(p, n, e)
          PROVE  StagedSoFar(p)' /\ call'[p].pc = "staging"
      <4>1. call[p].pc = "idle" /\ DOMAIN staged'[p] = {} /\ n \in Nat /\ e \in Nat
        BY <3>3, ProxyAssumption DEF WrapBegin, StagedIsOwn
      <4>2. call'[p] = [pc |-> "staging", count |-> n, next |-> 1,
                        until |-> Earliest(clock + DefaultTTL, e)] /\ n <= MaxSessions
        BY <3>3 DEF WrapBegin
      <4>3. Earliest(clock + DefaultTTL, e) <= clock + DefaultTTL
        BY <4>1, ProxyAssumption DEF Earliest
      <4>4. {<<p, k>> : k \in 1..(1 - 1)} = {} /\ Cardinality({}) = 1 - 1
        BY FS_EmptySet
      <4>. QED  BY <2>2, <4>1, <4>2, <4>3, <4>4 DEF StagedSoFar
    <3>4. CASE WrapResource(p) /\ ~CallFails(p)
      <4>1. call'[p].pc = "staging"
        BY <3>4 DEF WrapResource, Call
      <4>. QED  BY <3>4, <4>1, WrapResourceWhole
    <3>5. CASE WrapCheck(p) /\ ~CallFails(p)
      <4>1. /\ call' = [call EXCEPT ![p].pc = "publishing"] /\ UNCHANGED <<staged, clock>>
            /\ call[p].pc = "staging" /\ call[p].next > call[p].count
        BY <3>5 DEF WrapCheck
      <4>2. StagedSoFar(p) /\ call[p] \in Call
        BY <4>1 DEF StagedIsWhole
      <4>3. call[p].next = call[p].count + 1
        BY <4>1, <4>2, ProxyAssumption DEF StagedSoFar, Call
      <4>. QED  BY <4>1, <4>2, <4>3 DEF StagedSoFar, Call
    <3>. QED  BY <1>3, <3>1, <3>2, <3>3, <3>4, <3>5 DEF Wrap
  <2>. QED  BY <1>1, <2>3, <2>4 DEF WholeInv, StagedIsWhole
<1>4. ASSUME NEW r \in Requests, Serve(r) PROVE WholeInv'
  <2>1. UNCHANGED <<call, staged, clock>>
    BY <1>4 DEF Serve, Receive, Lookup, Connect, AbortTransfer, FinishTransfer,
                ReadManifest, WrapReference, WriteManifest
  <2>. QED  BY <1>2, <2>1 DEF WholeInv, OwnerInv, TypeOK
<1>5. CASE Tick
  BY <1>2, <1>5 DEF Tick, WholeInv, OwnerInv, TypeOK
<1>6. CASE UNCHANGED <<call, staged, clock>>
  BY <1>2, <1>6 DEF WholeInv, OwnerInv, TypeOK
<1>. QED
  BY <1>3, <1>4, <1>5, <1>6 DEF Next, CancelCall, LifetimeTimesOut, Revoke, vars

\* When WrapPlan succeeds every token of the plan it returns is in the table: the
\* staged table lost none to pruning (wrapPlan and WrapPlan, media_proxy.go 137-253).
THEOREM PublicationIsWhole == Spec => PublishedPlanIsWhole
<1>1. Init => WholeInv
  BY InitOwner, EmptyIsBounded
     DEF Init, WholeInv, BoundedInv, StagedIsWhole, Unstarted
<1>2. ASSUME WholeInv, [Next]_vars,
             NEW p \in Plans, call[p].pc = "publishing", call'[p].pc = "done"
      PROVE  \A k \in 1..call[p].count : <<p, k>> \in DOMAIN sessions'
  <2>1. call[p] \in Call
    BY <1>2 DEF WholeInv, OwnerInv, TypeOK
  <2>2. WrapPublish(p)
    <3>1. ASSUME NEW q \in Plans, Wrap(q) PROVE WrapPublish(p)
      <4>1. \A o \in Plans \ {q} : call'[o] = call[o]
        BY <1>2, <3>1 DEF Wrap, WrapDirect, WrapBegin, WrapReject, WrapResource, WrapCheck,
                          WrapPublish, CallFails, WholeInv, OwnerInv, TypeOK
      <4>2. q = p
        BY <1>2, <4>1
      <4>. QED
        BY <1>2, <2>1, <3>1, <4>2
           DEF Wrap, WrapDirect, WrapBegin, WrapReject, WrapResource, WrapCheck, CallFails,
               Unstarted, WholeInv, OwnerInv, TypeOK, Call
    <3>2. ASSUME UNCHANGED call PROVE FALSE
      BY <1>2, <3>2
    <3>3. ASSUME NEW r \in Requests, Serve(r) PROVE UNCHANGED call
      BY <3>3 DEF Serve, Receive, Lookup, Connect, AbortTransfer, FinishTransfer,
                  ReadManifest, WrapReference, WriteManifest
    <3>. QED
      BY <1>2, <3>1, <3>2, <3>3 DEF Next, CancelCall, LifetimeTimesOut, Revoke, Tick, vars
  <2>3. call[p].next - 1 = call[p].count /\ sessions' = staged[p]
    BY <1>2, <2>1, <2>2, ProxyAssumption
       DEF WrapPublish, WholeInv, StagedIsWhole, StagedSoFar, Call
  <2>. QED  BY <1>2, <2>3 DEF WholeInv, StagedIsWhole, StagedSoFar
<1>3. WholeInv /\ [Next]_vars =>
        [\A p \in Plans : call[p].pc = "publishing" /\ call'[p].pc = "done" =>
           \A k \in 1..call[p].count : <<p, k>> \in DOMAIN sessions']_vars
  BY <1>2
<1>. QED  BY <1>1, <1>3, WholeStep, PTL DEF Spec, PublishedPlanIsWhole
================================================================================
