---------------------------- MODULE AccountsProofs ----------------------------
(***************************************************************************)
(* What the account services guarantee for any number of profiles, logins, *)
(* RPCs and crashes.  The argument, in this order:                         *)
(*   - CommitInv: who holds loginCommitMu and how the generations of       *)
(*     logins relate to those of their profiles; it carries the theorems   *)
(*     about obsolete logins and about the mutex;                          *)
(*   - SecretInv: what a login that is half written has in the keyring and *)
(*     would restore; since only one login commits at a time, every write  *)
(*     of a store keeps keyring, rows and profiles in agreement.           *)
(***************************************************************************)
EXTENDS Accounts, TLAPS

--------------------------------------------------------------------------------
(* Types *)

LEMMA ActiveProfileType == TypeOK => ActiveProfile \in Profiles
BY AccountsAssumption DEF TypeOK, ActiveProfile

LEMMA InitType == Init => TypeOK
BY AccountsAssumption
   DEF Init, TypeOK, NoAttempt, NoCall, Attempt, CallRecord, AttemptStates, CallStates,
       Statuses, Sessions, Methods

LEMMA GoType ==
  ASSUME TypeOK, NEW a \in Attempts, NEW pc \in AttemptStates, Go(a, pc)
  PROVE  attempts' \in [Attempts -> Attempt]
BY DEF TypeOK, Go, Attempt

LEMMA EndType ==
  ASSUME TypeOK, NEW a \in Attempts, End(a)
  PROVE  attempts' \in [Attempts -> Attempt]
BY AccountsAssumption DEF TypeOK, End, Ended, NoAttempt, Attempt, AttemptStates

LEMMA OutdatedType ==
  ASSUME TypeOK, NEW p \in Profiles
  PROVE  Outdated(p) \in [Attempts -> Attempt]
<1>1. \A a \in Attempts : /\ attempts[a] \in Attempt
                         /\ [attempts[a] EXCEPT !.obsolete = TRUE] \in Attempt
  BY DEF TypeOK, Attempt
<1>. QED  BY <1>1 DEF Outdated

LEMMA ReportedType ==
  ASSUME TypeOK, NEW a \in Attempts, NEW s \in Statuses
  PROVE  Reported(a, s) \in [Profiles -> Statuses]
BY DEF TypeOK, Reported

LEMMA ToType ==
  ASSUME TypeOK, NEW c \in Calls, NEW pc \in CallStates, To(c, pc)
  PROVE  calls' \in [Calls -> CallRecord]
BY SMTT(30) DEF TypeOK, To, CallRecord

LEMMA StartType ==
  ASSUME TypeOK, NEW c \in Calls, NEW kind \in Methods, NEW p \in Profiles,
         NEW pc \in CallStates, Start(c, kind, p, pc)
  PROVE  calls' \in [Calls -> CallRecord]
BY AccountsAssumption DEF TypeOK, Start, NoCall, CallRecord, Statuses

LEMMA ReturnType ==
  ASSUME TypeOK, NEW c \in Calls, Return(c)
  PROVE  calls' \in [Calls -> CallRecord] /\ mutex' \in Sessions \cup {None}
BY AccountsAssumption DEF TypeOK, Return, NoCall, CallRecord, CallStates, Statuses

LEMMA LoginFailsType ==
  ASSUME TypeOK, NEW a \in Attempts, LoginFails(a)
  PROVE  /\ attempts' \in [Attempts -> Attempt]
         /\ status' \in [Profiles -> Statuses]
         /\ mutex' = None
         /\ UNCHANGED <<session, generation>>
BY EndType, ReportedType DEF LoginFails, Statuses

LEMMA LoginType ==
  ASSUME TypeOK, NEW a \in Attempts, Login(a)
  PROVE  TypeOK'
<1>1. CASE StartLogin(a)
  <2>1. active' \in Profiles /\ attempts[a] \in Attempt
    BY <1>1, ActiveProfileType DEF StartLogin, TypeOK
  <2>2. [attempts[a] EXCEPT !.pc = "opening", !.profile = active'] \in Attempt
    BY <2>1 DEF Attempt, AttemptStates
  <2>. QED  BY <1>1, <2>1, <2>2 DEF StartLogin, TypeOK, memory
<1>2. CASE OpeningFails(a)
  BY <1>2, EndType DEF OpeningFails, TypeOK, stores, memory
<1>3. CASE BeginLoginAttempt(a)
  <2>. DEFINE p == attempts[a].profile
  <2>1. p \in Profiles /\ generation[p] + 1 \in Nat
    BY DEF TypeOK, Attempt
  <2>2. generation' \in [Profiles -> Nat] /\ generation'[p] \in Nat
    BY <1>3, <2>1 DEF BeginLoginAttempt, TypeOK
  <2>3. attempts' \in [Attempts -> Attempt]
    BY <1>3, <2>1, <2>2, OutdatedType DEF BeginLoginAttempt, Attempt, AttemptStates
  <2>. QED  BY <1>3, <2>1, <2>2, <2>3 DEF BeginLoginAttempt, TypeOK, stores, Statuses
<1>4. CASE Authorise(a)
  BY <1>4, GoType DEF Authorise, TypeOK, stores, memory, AttemptStates
<1>5. CASE AuthorisationFails(a)
  BY <1>5, EndType, ReportedType DEF AuthorisationFails, TypeOK, stores, Statuses
<1>6. CASE EnterCommit(a)
  BY <1>6, EndType, GoType DEF EnterCommit, TypeOK, stores, memory, AttemptStates, Sessions
<1>7. CASE Snapshot(a)
  <2>1. CASE LoginFails(a)
    <3>1. UNCHANGED <<stores, token, resolver, calls, restarts, torn>>
      BY <1>7 DEF Snapshot, memory
    <3>. QED  BY <2>1, <3>1, LoginFailsType DEF TypeOK, stores
  <2>2. ASSUME NEW previous \in Attempts \cup {None},
               attempts' = [attempts EXCEPT ![a].pc = "store", ![a].previous = previous]
        PROVE  attempts' \in [Attempts -> Attempt]
    <3>1. attempts[a] \in Attempt
      BY DEF TypeOK
    <3>2. [attempts[a] EXCEPT !.pc = "store", !.previous = previous] \in Attempt
      BY <3>1 DEF Attempt, AttemptStates
    <3>. QED  BY <2>2, <3>2 DEF TypeOK
  <2>3. CASE ~LoginFails(a)
    <3>1. attempts' \in [Attempts -> Attempt]
      BY <1>7, <2>2, <2>3 DEF Snapshot, TypeOK, Attempt
    <3>. QED  BY <1>7, <2>3, <3>1 DEF Snapshot, TypeOK, stores, memory
  <2>. QED  BY <2>1, <2>3
<1>8. CASE StoreRefreshToken(a)
  <2>1. CASE LoginFails(a)
    BY <1>8, <2>1, LoginFailsType DEF StoreRefreshToken, Hold, TypeOK, stores
  <2>2. ASSUME NEW m \in BOOLEAN, Hold(a, m)
        PROVE  /\ attempts' \in [Attempts -> Attempt]
               /\ token' \in [Sessions -> Attempts \cup {None}]
    <3>1. attempts[a] \in Attempt
      BY DEF TypeOK
    <3>2. [attempts[a] EXCEPT !.pc = "save", !.memory = m] \in Attempt
      BY <3>1 DEF Attempt, AttemptStates
    <3>. QED  BY <2>2, <3>2 DEF Hold, TypeOK
  <2>3. CASE ~LoginFails(a)
    <3>1. Hold(a, TRUE) \/ Hold(a, FALSE)
      BY <1>8, <2>3 DEF StoreRefreshToken
    <3>. QED  BY <1>8, <2>2, <2>3, <3>1, ZenonT(60) DEF StoreRefreshToken, Hold, TypeOK
  <2>. QED  BY <2>1, <2>3
<1>9. CASE SaveAccount(a)
  BY <1>9, GoType DEF SaveAccount, Row, TypeOK, memory, Attempt, AttemptStates
<1>10. CASE SaveAccountFails(a)
  BY <1>10, GoType DEF SaveAccountFails, TypeOK, stores, memory, AttemptStates
<1>11. CASE Rollback(a)
  BY <1>11, LoginFailsType DEF Rollback, TypeOK, Attempt
<1>12. CASE PublishSession(a)
  BY <1>12, EndType, ActiveProfileType
     DEF PublishSession, TypeOK, Attempt, Statuses, Sessions
<1>. QED  BY <1>1, <1>2, <1>3, <1>4, <1>5, <1>6, <1>7, <1>8, <1>9, <1>10, <1>11, <1>12
          DEF Login, CompleteLogin

LEMMA CallType ==
  ASSUME TypeOK, NEW c \in Calls, Call(c)
  PROVE  TypeOK'
<1>1. ASSUME NEW p \in Profiles, SetActiveProfile(c, p) PROVE TypeOK'
  BY <1>1, StartType DEF SetActiveProfile, TypeOK, stores, memory, Methods, CallStates
<1>2. ASSUME NEW p \in Profiles, DeleteProfile(c, p) PROVE TypeOK'
  BY <1>2, StartType DEF DeleteProfile, TypeOK, stores, memory, Methods, CallStates
<1>3. ASSUME NEW p \in Profiles, NEW g \in BOOLEAN, CreateProfile(c, p, g) PROVE TypeOK'
  <2>1. calls' \in [Calls -> CallRecord]
    BY <1>3, StartType DEF CreateProfile, Methods, CallStates
  <2>2. guests' \subseteq Profiles
    BY <1>3 DEF CreateProfile, TypeOK
  <2>. QED  BY <1>3, <2>1, <2>2 DEF CreateProfile, TypeOK, memory
<1>4. CASE SetBrowserCookies(c)
  BY <1>4, StartType, ActiveProfileType
     DEF SetBrowserCookies, TypeOK, memory, Methods, CallStates
<1>5. CASE DisconnectAccount(c)
  BY <1>5, StartType, ActiveProfileType
     DEF DisconnectAccount, TypeOK, memory, Methods, CallStates
<1>6. CASE NewYouTubeService(c)
  BY <1>6, StartType, ActiveProfileType
     DEF NewYouTubeService, TypeOK, memory, Methods, CallStates
<1>. QED  BY <1>1, <1>2, <1>3, <1>4, <1>5, <1>6 DEF Call

LEMMA DeleteRowType ==
  ASSUME TypeOK, NEW p \in Profiles, DeleteRow(p)
  PROVE  /\ profiles' \in [Profiles -> {"unborn", "live", "gone"}]
         /\ active' \in Profiles
         /\ account' \in [Profiles -> [login : Attempts, memory : BOOLEAN] \cup {None}]
BY AccountsAssumption DEF DeleteRow, TypeOK

LEMMA RunType ==
  ASSUME TypeOK, NEW c \in Calls, Run(c)
  PROVE  TypeOK'
<1>. calls[c].profile \in Profiles
  BY DEF TypeOK, CallRecord
<1>1. CASE Check(c)
  BY <1>1, ToType DEF Check, TypeOK, stores, memory, CallStates
<1>2. CASE Select(c)
  BY <1>2, ToType DEF Select, TypeOK, memory, CallStates
<1>3. CASE Reload(c)
  <2>1. active' \in Profiles /\ calls[c] \in CallRecord
    BY <1>3, ActiveProfileType DEF Reload, TypeOK
  <2>2. [calls[c] EXCEPT !.pc = "install", !.current = active'] \in CallRecord
    BY <2>1 DEF CallRecord, CallStates
  <2>. QED  BY <1>3, <2>1, <2>2 DEF Reload, TypeOK, memory
<1>4. CASE Install(c)
  <2>1. resolver' \in Profiles
    BY <1>4 DEF Install, TypeOK, CallRecord
  <2>2. calls' \in [Calls -> CallRecord] /\ mutex' \in Sessions \cup {None}
    BY <1>4, ToType, ReturnType DEF Install, TypeOK, CallStates
  <2>. QED  BY <1>4, <2>1, <2>2 DEF Install, TypeOK, stores, memory
<1>5. CASE Assess(c)
  <2>1. PICK s \in Assessments(calls[c].profile) :
          calls' = [calls EXCEPT ![c].pc = "report", ![c].seen = s]
    BY <1>5 DEF Assess
  <2>2. s \in Statuses /\ calls[c] \in CallRecord
    BY DEF Assessments, Statuses, TypeOK
  <2>3. [calls[c] EXCEPT !.pc = "report", !.seen = s] \in CallRecord
    BY <2>2 DEF CallRecord, CallStates
  <2>. QED  BY <1>5, <2>1, <2>3 DEF Assess, TypeOK, stores, memory
<1>6. CASE Report(c)
  BY <1>6, ReturnType DEF Report, TypeOK, stores, CallRecord
<1>7. CASE ActivationFails(c)
  BY <1>7, ReturnType, DeleteRowType DEF ActivationFails, TypeOK, memory
<1>8. CASE Lock(c)
  BY <1>8, ToType, OutdatedType DEF Lock, TypeOK, stores, CallStates, Sessions
<1>9. CASE Erase(c)
  BY <1>9, ToType, ReturnType DEF Erase, TypeOK, memory, CallStates
<1>10. CASE Unlink(c)
  BY <1>10, ToType, ReturnType, DeleteRowType DEF Unlink, TypeOK, memory, CallStates
<1>11. CASE Drop(c)
  <2>1. CASE calls[c].kind = "disconnect"
    BY <1>11, <2>1, ReturnType DEF Drop, TypeOK, Statuses
  <2>2. CASE calls[c].kind # "disconnect"
    <3>1. active' \in Profiles /\ calls[c] \in CallRecord
      BY <1>11, <2>2, ActiveProfileType DEF Drop, TypeOK
    <3>2. [calls[c] EXCEPT !.pc = "check", !.profile = active'] \in CallRecord
      BY <3>1 DEF CallRecord, CallStates
    <3>. QED  BY <1>11, <2>2, <3>1, <3>2 DEF Drop, TypeOK, Statuses
  <2>. QED  BY <2>1, <2>2
<1>12. CASE Verify(c)
  BY <1>12, ToType DEF Verify, TypeOK, stores, memory, CallStates
<1>13. CASE UseSession(c)
  <2>. DEFINE p == calls[c].profile
              s == IF session[p] = None THEN c ELSE session[p]
  <2>1. s \in Sessions /\ calls[c] \in CallRecord
    BY DEF TypeOK, Sessions
  <2>2. [calls[c] EXCEPT !.pc = "source", !.session = s] \in CallRecord
    BY <2>1 DEF CallRecord, CallStates
  <2>. QED  BY <1>13, <2>1, <2>2 DEF UseSession, TypeOK, stores
<1>14. CASE Source(c)
  BY <1>14, ToType, ReturnType DEF Source, TypeOK, stores, memory, CallStates
<1>15. CASE ReadKeyring(c)
  <2>1. secret[calls[c].profile] \in Attempts \cup {None} /\ calls[c] \in CallRecord
    BY DEF TypeOK
  <2>2. [calls[c] EXCEPT !.pc = "restore", !.read = secret[calls[c].profile]] \in CallRecord
    BY <2>1 DEF CallRecord, CallStates
  <2>. QED  BY <1>15, <2>2 DEF ReadKeyring, TypeOK, stores, memory
<1>16. CASE Restore(c)
  BY <1>16, ReturnType DEF Restore, TypeOK, stores, CallRecord
<1>17. CASE SearchFails(c)
  BY <1>17, ReturnType DEF SearchFails, TypeOK, stores, memory
<1>. QED  BY <1>1, <1>2, <1>3, <1>4, <1>5, <1>6, <1>7, <1>8, <1>9, <1>10, <1>11, <1>12,
             <1>13, <1>14, <1>15, <1>16, <1>17 DEF Run

LEMMA RestartType ==
  ASSUME TypeOK, Restart
  PROVE  TypeOK'
<1>1. /\ active' \in Profiles
      /\ profiles' \in [Profiles -> {"unborn", "live", "gone"}]
      /\ account' \in [Profiles -> [login : Attempts, memory : BOOLEAN] \cup {None}]
  BY AccountsAssumption, ActiveProfileType DEF Restart, TypeOK
<1>2. attempts' \in [Attempts -> Attempt]
  <2>1. \A a \in Attempts : NoAttempt \in Attempt /\ Ended(a) \in Attempt
    BY AccountsAssumption DEF TypeOK, NoAttempt, Ended, Attempt, AttemptStates
  <2>. QED  BY <2>1 DEF Restart
<1>3. calls' \in [Calls -> CallRecord]
  <2>1. NoCall \in CallRecord /\ [NoCall EXCEPT !.pc = "over"] \in CallRecord
    BY AccountsAssumption DEF NoCall, CallRecord, CallStates, Statuses
  <2>. QED  BY <2>1 DEF Restart
<1>4. torn' \subseteq Profiles
  BY DEF Restart, HalfWritten, TypeOK, Attempt
<1>5. restarts' \in 0..MaxRestarts
  BY AccountsAssumption DEF Restart, TypeOK
<1>. QED  BY <1>1, <1>2, <1>3, <1>4, <1>5 DEF Restart, TypeOK, Statuses

LEMMA TypeStep == TypeOK /\ [Next]_vars => TypeOK'
<1>. SUFFICES ASSUME TypeOK, [Next]_vars PROVE TypeOK'
  OBVIOUS
<1>1. ASSUME NEW a \in Attempts, Login(a) PROVE TypeOK'
  BY <1>1, LoginType
<1>2. ASSUME NEW c \in Calls, Call(c) \/ Run(c) PROVE TypeOK'
  BY <1>2, CallType, RunType
<1>3. CASE Restart \/ UNCHANGED vars
  BY <1>3, RestartType DEF vars, stores, memory, TypeOK
<1>. QED  BY <1>1, <1>2, <1>3 DEF Next

\* The variables of the services keep their types (services.go, 57-110).
THEOREM AccountsTyped == Spec => []TypeOK
BY InitType, TypeStep, PTL DEF Spec

--------------------------------------------------------------------------------
(* loginCommitMu and the generations *)

Committing == {"snapshot", "store", "save", "rollback", "publish"}

\* A login that is being committed holds the mutex and is the latest of its profile;
\* one that is not yet knows a generation of the past, once it is obsolete.
InOrder(a) ==
  LET latest == generation[attempts[a].profile] IN
  /\ attempts[a].pc \in Committing =>
       mutex = a /\ attempts[a].generation = latest /\ ~attempts[a].obsolete
  /\ attempts[a].pc \in {"waiting", "authorised"} =>
       /\ attempts[a].generation <= latest
       /\ attempts[a].obsolete => attempts[a].generation < latest
  /\ attempts[a].pc \in {"idle", "opening", "over"} => ~attempts[a].obsolete

LoginsInOrder == \A a \in Attempts : InOrder(a)

\* Where an RPC that holds the mutex may be; Erasing: where it must hold it.
Holding == {"erase", "unlink", "drop", "check", "select", "reload", "install", "assess", "report"}
Erasing == {"erase", "unlink", "drop"}

CallsInOrder ==
  \A c \in Calls :
    /\ mutex = c => calls[c].pc \in Holding
    /\ mutex = c \/ calls[c].pc = "lock" => calls[c].kind \in {"disconnect", "delete"}
    /\ calls[c].pc \in Erasing => mutex = c

HolderCommits == mutex \in Attempts => attempts[mutex].pc \in Committing

CommitInv == TypeOK /\ LoginsInOrder /\ CallsInOrder /\ HolderCommits

LEMMA InitCommit == Init => CommitInv
BY AccountsAssumption, InitType
   DEF Init, CommitInv, InOrder, LoginsInOrder, CallsInOrder, HolderCommits, Committing, Holding, Erasing,
       NoAttempt, NoCall, Sessions

\* A login does not move an RPC, and takes or releases the mutex for itself only.
LEMMA LoginFrame ==
  ASSUME TypeOK, NEW a \in Attempts, Login(a)
  PROVE  /\ calls' = calls
         /\ \/ mutex' = mutex
            \/ mutex = None /\ mutex' = a
            \/ mutex' = None /\ attempts[a].pc \in Committing
BY DEF Login, CompleteLogin, StartLogin, OpeningFails, BeginLoginAttempt, Authorise,
       AuthorisationFails, EnterCommit, Snapshot, StoreRefreshToken, Hold, SaveAccount,
       SaveAccountFails, Rollback, PublishSession, LoginFails, At, Committing

Starts(c, r) ==
  /\ calls' = [calls EXCEPT ![c] = r]
  /\ r.pc \notin Erasing
  /\ r.pc = "lock" => r.kind \in {"disconnect", "delete"}
  /\ r.kind = "create" => profiles[r.profile] = "unborn"
  /\ r.kind = "delete" => r.profile # Default

\* An RPC that starts does not hold the mutex, nor will it erase before it does.
LEMMA CallStarts ==
  ASSUME NEW c \in Calls, Call(c)
  PROVE  \E r : Starts(c, r)
<1>1. ASSUME NEW kind, NEW p, NEW pc, Start(c, kind, p, pc), pc \notin Erasing,
             pc = "lock" => kind \in {"disconnect", "delete"},
             kind = "create" => profiles[p] = "unborn",
             kind = "delete" => p # Default
      PROVE  \E r : Starts(c, r)
  <2>. DEFINE r == [NoCall EXCEPT !.pc = pc, !.kind = kind, !.profile = p]
  <2>1. r.pc = pc /\ r.kind = kind /\ r.profile = p
    BY DEF NoCall
  <2>. QED  BY <1>1, <2>1 DEF Start, Starts
<1>. QED  BY <1>1 DEF Call, SetActiveProfile, DeleteProfile, CreateProfile, SetBrowserCookies,
                      DisconnectAccount, NewYouTubeService, Erasing

\* A start or a step of an RPC moves no login but those a Lock makes obsolete,
\* and takes or releases the mutex for itself only.
LEMMA CallFrame ==
  ASSUME NEW c \in Calls, Call(c)
  PROVE  UNCHANGED <<attempts, generation, mutex>> /\ calls[c].pc = "idle"
BY DEF Call, SetActiveProfile, DeleteProfile, CreateProfile, SetBrowserCookies,
       DisconnectAccount, NewYouTubeService, Start, In, memory

LEMMA RunFrame ==
  ASSUME NEW c \in Calls, Run(c), ~Lock(c)
  PROVE  /\ UNCHANGED <<attempts, generation>>
         /\ mutex' = mutex \/ (mutex = c /\ mutex' = None)
BY DEF Run, Check, Select, Reload, Install, Assess, Report, ActivationFails, Erase, Unlink, Drop,
       Verify, UseSession, Source, ReadKeyring, Restore, SearchFails, Return, memory

\* A step of login a that leaves the other logins and the generations alone.
LEMMA OneLoginMoves ==
  ASSUME CommitInv, NEW a \in Attempts, NEW r,
         attempts' = [attempts EXCEPT ![a] = r], generation' = generation,
         InOrder(a)',
         \/ mutex' = mutex /\ mutex # a
         \/ mutex' = a /\ mutex \in {a, None} /\ r.pc \in Committing
         \/ mutex' = None /\ mutex = a
  PROVE  LoginsInOrder' /\ HolderCommits'
<1>1. attempts'[a] = r /\ \A b \in Attempts : b # a => attempts'[b] = attempts[b]
  BY DEF CommitInv, TypeOK
<1>2. ASSUME NEW b \in Attempts, b # a PROVE InOrder(b)'
  BY <1>1, <1>2, AccountsAssumption DEF CommitInv, LoginsInOrder, InOrder
<1>3. HolderCommits'
  BY <1>1, AccountsAssumption DEF CommitInv, HolderCommits
<1>. QED  BY <1>2, <1>3 DEF LoginsInOrder

LEMMA LoginEnds ==
  ASSUME CommitInv, NEW a \in Attempts, End(a), generation' = generation,
         \/ mutex' = mutex /\ mutex # a
         \/ mutex' = None /\ mutex = a
  PROVE  LoginsInOrder' /\ HolderCommits'
<1>1. attempts' = [attempts EXCEPT ![a] = Ended(a)] /\ attempts'[a] = Ended(a)
  BY DEF End, CommitInv, TypeOK
<1>2. Ended(a).pc = "over" /\ ~Ended(a).obsolete
  BY DEF Ended, NoAttempt
<1>3. InOrder(a)'
  BY <1>1, <1>2 DEF InOrder, Committing
<1>. QED  BY <1>1, <1>3, OneLoginMoves

\* The login that is being committed is the one that holds the mutex.
LEMMA CommittingHolds ==
  ASSUME CommitInv, NEW a \in Attempts
  PROVE  attempts[a].pc \in Committing <=> mutex = a
BY DEF CommitInv, LoginsInOrder, InOrder, HolderCommits

\* Where nobody holds the mutex, the next generation of a profile keeps its logins,
\* obsolete from now on, in order, and those of the other profiles.
LEMMA OutdatedInOrder ==
  ASSUME CommitInv, NEW p \in Profiles, NEW b \in Attempts, mutex = None,
         generation' = [generation EXCEPT ![p] = generation[p] + 1],
         attempts'[b] = Outdated(p)[b]
  PROVE  InOrder(b)'
<1>1. /\ attempts[b] \in Attempt /\ InOrder(b) /\ b # None
      /\ generation \in [Profiles -> Nat]
  BY AccountsAssumption DEF CommitInv, TypeOK, LoginsInOrder
<1>2. attempts[b].pc \notin Committing
  BY <1>1 DEF InOrder
<1>3. CASE b \in Begun(p)
  <2>1. attempts'[b] = [attempts[b] EXCEPT !.obsolete = TRUE]
    BY <1>3 DEF Outdated
  <2>2. /\ attempts'[b].pc = attempts[b].pc /\ attempts'[b].profile = p
        /\ attempts'[b].generation = attempts[b].generation
    BY <1>1, <1>3, <2>1 DEF Attempt, Begun
  <2>3. attempts[b].pc \in {"waiting", "authorised"} /\ attempts[b].profile = p
    BY <1>1, <1>2, <1>3 DEF Begun, Attempt, AttemptStates, Committing
  <2>4. attempts[b].generation <= generation[p] /\ attempts[b].generation \in Nat
    BY <1>1, <2>3 DEF InOrder, Attempt
  <2>5. attempts'[b].generation < generation'[p]
    BY <1>1, <2>2, <2>4
  <2>. QED  BY <1>1, <2>2, <2>3, <2>5 DEF InOrder, Committing, Attempt
<1>4. CASE b \notin Begun(p)
  <2>1. attempts'[b] = attempts[b]
    BY <1>4 DEF Outdated
  <2>2. CASE attempts[b].profile = p
    <3>1. attempts[b].pc \in {"idle", "opening", "over"}
      BY <1>4, <2>2 DEF Begun
    <3>. QED  BY <1>1, <2>1, <3>1 DEF InOrder, Committing
  <2>3. CASE attempts[b].profile # p
    BY <1>1, <1>2, <2>1, <2>3 DEF InOrder, Attempt
  <2>. QED  BY <2>2, <2>3
<1>. QED  BY <1>3, <1>4

LEMMA LoginCommits ==
  ASSUME CommitInv, TypeOK', NEW a \in Attempts, Login(a)
  PROVE  CommitInv'
<1>1. CallsInOrder'
  BY LoginFrame, AccountsAssumption DEF CommitInv, LoginsInOrder, InOrder, CallsInOrder
<1>. SUFFICES LoginsInOrder' /\ HolderCommits'
  BY <1>1 DEF CommitInv
<1>2. a \notin Calls /\ a # None /\ attempts[a] \in Attempt /\ InOrder(a)
  BY AccountsAssumption DEF CommitInv, TypeOK, LoginsInOrder
<1>3. ASSUME NEW pc, attempts[a].pc \in Committing, pc \in Committing,
             \E prev, m : attempts' = [attempts EXCEPT ![a] = [attempts[a] EXCEPT !.pc = pc, !.previous = prev, !.memory = m]],
             UNCHANGED <<generation, mutex>>
      PROVE  LoginsInOrder' /\ HolderCommits'
  <2>0. PICK prev, m : attempts' = [attempts EXCEPT ![a] = [attempts[a] EXCEPT !.pc = pc, !.previous = prev, !.memory = m]]
    BY <1>3
  <2>. DEFINE r == [attempts[a] EXCEPT !.pc = pc, !.previous = prev, !.memory = m]
  <2>1. /\ attempts' = [attempts EXCEPT ![a] = r]
        /\ r.pc = pc /\ r.profile = attempts[a].profile
        /\ r.generation = attempts[a].generation /\ r.obsolete = attempts[a].obsolete
    BY <1>2, <2>0 DEF Attempt
  <2>2. attempts'[a] = r
    BY <2>1 DEF CommitInv, TypeOK
  <2>. HIDE DEF r
  <2>3. InOrder(a)'
    BY <1>2, <1>3, <2>1, <2>2 DEF InOrder, Committing
  <2>. QED  BY <1>3, <2>1, <2>3, CommittingHolds, OneLoginMoves
<1>4. CASE StartLogin(a)
  <2>. DEFINE r == [attempts[a] EXCEPT !.pc = "opening", !.profile = active']
  <2>1. attempts' = [attempts EXCEPT ![a] = r] /\ attempts'[a] = r
    BY <1>4 DEF StartLogin, CommitInv, TypeOK
  <2>2. r.pc = "opening" /\ r.obsolete = attempts[a].obsolete
    BY <1>2 DEF Attempt
  <2>3. InOrder(a)'
    BY <1>2, <1>4, <2>1, <2>2 DEF InOrder, StartLogin, At, Committing
  <2>4. mutex # a
    BY <1>4, CommittingHolds DEF StartLogin, At, Committing
  <2>. QED  BY <1>4, <2>1, <2>3, <2>4, OneLoginMoves DEF StartLogin, memory
<1>5. CASE OpeningFails(a)
  BY <1>5, CommittingHolds, LoginEnds DEF OpeningFails, At, Committing, memory
<1>6. CASE BeginLoginAttempt(a)
  <2>. DEFINE p == attempts[a].profile
              r == [attempts[a] EXCEPT !.pc = "waiting", !.generation = generation[p] + 1]
  <2>1. /\ p \in Profiles
        /\ generation' = [generation EXCEPT ![p] = generation[p] + 1]
        /\ attempts[a].pc = "opening"
        /\ mutex = None /\ mutex' = None
    BY <1>2, <1>6 DEF BeginLoginAttempt, At, Attempt
  <2>2. generation'[p] = generation[p] + 1 /\ \A q \in Profiles : generation[q] \in Nat
    BY <2>1 DEF CommitInv, TypeOK
  <2>3. a \notin Begun(p) /\ Outdated(p)[a] = attempts[a]
    BY <2>1 DEF Outdated, Begun
  <2>4. attempts' = [Outdated(p) EXCEPT ![a].pc = "waiting", ![a].generation = generation[p] + 1]
    BY <1>6, <2>2 DEF BeginLoginAttempt
  <2>5. attempts' = [Outdated(p) EXCEPT ![a] = r]
    BY <2>3, <2>4, OutdatedType, <2>1 DEF CommitInv
  <2>6. attempts'[a] = r /\ \A b \in Attempts : b # a => attempts'[b] = Outdated(p)[b]
    BY <2>5, OutdatedType, <2>1 DEF CommitInv
  <2>7. InOrder(a)'
    <3>1. r.pc = "waiting" /\ r.profile = p /\ r.generation = generation[p] + 1 /\ ~r.obsolete
      BY <1>2, <2>1 DEF InOrder, Attempt
    <3>. QED  BY <2>1, <2>2, <2>6, <3>1 DEF InOrder, Committing
  <2>8. ASSUME NEW b \in Attempts, b # a PROVE InOrder(b)'
    BY <2>8, <2>6, <2>2, <2>1, OutdatedInOrder
  <2>. QED  BY <1>2, <2>1, <2>7, <2>8, AccountsAssumption DEF LoginsInOrder, HolderCommits
<1>7. CASE Authorise(a)
  <2>. DEFINE r == [attempts[a] EXCEPT !.pc = "authorised"]
  <2>1. attempts' = [attempts EXCEPT ![a] = r] /\ attempts'[a] = r
    BY <1>7 DEF Authorise, Go, CommitInv, TypeOK
  <2>2. InOrder(a)'
    BY <1>2, <1>7, <2>1 DEF InOrder, Authorise, At, Committing, Attempt, memory
  <2>3. mutex # a
    BY <1>7, CommittingHolds DEF Authorise, At, Committing
  <2>. QED  BY <1>7, <2>1, <2>2, <2>3, OneLoginMoves DEF Authorise, memory
<1>8. CASE AuthorisationFails(a)
  BY <1>8, CommittingHolds, LoginEnds DEF AuthorisationFails, At, Committing
<1>9. CASE EnterCommit(a)
  <2>1. mutex = None
    BY <1>9 DEF EnterCommit
  <2>2. CASE generation[attempts[a].profile] = attempts[a].generation
    <3>. DEFINE r == [attempts[a] EXCEPT !.pc = "snapshot"]
    <3>1. attempts' = [attempts EXCEPT ![a] = r] /\ attempts'[a] = r
      BY <1>9, <2>2 DEF EnterCommit, Go, CommitInv, TypeOK
    <3>2. r.pc = "snapshot" /\ generation' = generation /\ mutex' = a
      BY <1>2, <1>9, <2>2 DEF EnterCommit, memory, Attempt
    <3>3. InOrder(a)'
      BY <1>2, <1>9, <2>2, <3>1, <3>2 DEF InOrder, EnterCommit, At, Committing, CommitInv, TypeOK, Attempt
    <3>. QED  BY <2>1, <3>1, <3>2, <3>3, OneLoginMoves DEF Committing
  <2>3. CASE generation[attempts[a].profile] # attempts[a].generation
    BY <1>2, <1>9, <2>1, <2>3, LoginEnds DEF EnterCommit, memory
  <2>. QED  BY <2>2, <2>3
<1>10. CASE LoginFails(a) /\ attempts[a].pc \in Committing
  BY <1>10, CommittingHolds, LoginEnds DEF LoginFails
<1>11. CASE Snapshot(a)
  <2>1. CASE \E previous : /\ attempts' = [attempts EXCEPT ![a].pc = "store", ![a].previous = previous]
                          /\ UNCHANGED <<memory, mutex>>
    <3>1. PICK previous : attempts' = [attempts EXCEPT ![a].pc = "store", ![a].previous = previous]
      BY <2>1
    <3>2. attempts' = [attempts EXCEPT ![a] = [attempts[a] EXCEPT !.pc = "store", !.previous = previous, !.memory = attempts[a].memory]]
      BY <1>2, <3>1, ZenonT(60) DEF CommitInv, TypeOK, Attempt
    <3>. QED  BY <1>3, <1>11, <2>1, <3>2 DEF Snapshot, At, Committing, memory
  <2>. QED  BY <1>10, <1>11, <2>1 DEF Snapshot, At, Committing
<1>12. CASE StoreRefreshToken(a)
  <2>1. ASSUME NEW m, Hold(a, m) PROVE LoginsInOrder' /\ HolderCommits'
    <3>1. attempts' = [attempts EXCEPT ![a] = [attempts[a] EXCEPT !.pc = "save", !.previous = attempts[a].previous, !.memory = m]]
      BY <1>2, <2>1, ZenonT(60) DEF Hold, CommitInv, TypeOK, Attempt
    <3>. QED  BY <1>3, <1>12, <2>1, <3>1 DEF StoreRefreshToken, Hold, At, Committing
  <2>. QED  BY <1>10, <1>12, <2>1 DEF StoreRefreshToken, At, Committing
<1>13. ASSUME NEW pc \in {"publish", "rollback"}, At(a, "save"), Go(a, pc), UNCHANGED <<memory, mutex>>
       PROVE  LoginsInOrder' /\ HolderCommits'
  <2>1. attempts' = [attempts EXCEPT ![a] = [attempts[a] EXCEPT !.pc = pc, !.previous = attempts[a].previous, !.memory = attempts[a].memory]]
    BY <1>2, <1>13 DEF Go, CommitInv, TypeOK, Attempt
  <2>. QED  BY <1>3, <1>13, <2>1 DEF At, Committing, memory
<1>14. CASE SaveAccount(a) \/ SaveAccountFails(a)
  BY <1>13, <1>14 DEF SaveAccount, SaveAccountFails
<1>15. CASE Rollback(a)
  BY <1>10, <1>15 DEF Rollback, At, Committing
<1>16. CASE PublishSession(a)
  BY <1>16, CommittingHolds, LoginEnds DEF PublishSession, At, Committing
<1>. QED  BY <1>4, <1>5, <1>6, <1>7, <1>8, <1>9, <1>11, <1>12, <1>14, <1>15, <1>16
          DEF Login, CompleteLogin

Goes(c, r) ==
  /\ mutex' = mutex
  /\ r.kind = calls[c].kind
  /\ r.profile = calls[c].profile \/ (r.kind = "delete" /\ r.pc = "check")
  /\ r.pc \notin {"lock", "erase"}
  /\ calls[c].pc \in Holding => r.pc \in Holding
  /\ r.pc \in Erasing => calls[c].pc \in Erasing
  /\ r.pc = "unlink" => Erase(c)

Returns(c, r) ==
  /\ mutex' = IF mutex = c THEN None ELSE mutex
  /\ r.pc = "over" /\ r.kind = None

Moves(c, r) == calls' = [calls EXCEPT ![c] = r] /\ (Returns(c, r) \/ Goes(c, r))

\* An RPC that moves returns without the mutex, or goes on with what it holds and
\* keeps its kind and, until a deletion ends, its profile; only an RPC that holds
\* the mutex erases.
LEMMA RunMoves ==
  ASSUME TypeOK, NEW c \in Calls, Run(c), ~Lock(c)
  PROVE  \E r : Moves(c, r)
<1>. DEFINE Goal == \E r : Moves(c, r)
<1>. SUFFICES Goal
  OBVIOUS
<1>1. calls[c] \in CallRecord
  BY DEF TypeOK
<1>2. CASE Return(c)
  <2>. DEFINE r == [NoCall EXCEPT !.pc = "over"]
  <2>1. r.pc = "over" /\ r.kind = None
    BY DEF NoCall
  <2>. QED  BY <1>2, <2>1 DEF Return, Moves, Returns
<1>3. ASSUME NEW pc, To(c, pc), mutex' = mutex, pc \notin {"lock", "erase"},
             calls[c].pc \in Holding => pc \in Holding,
             pc \in Erasing => calls[c].pc \in Erasing,
             pc = "unlink" => Erase(c)
      PROVE  Goal
  <2>. DEFINE r == [calls[c] EXCEPT !.pc = pc]
  <2>1. calls' = [calls EXCEPT ![c] = r]
    BY <1>3 DEF To
  <2>2. Goes(c, r)
    BY <1>1, <1>3 DEF Goes, CallRecord
  <2>. QED  BY <2>1, <2>2 DEF Moves
<1>4. CASE Check(c) \/ Select(c)
  BY <1>3, <1>4 DEF Check, Select, In, Holding, Erasing
<1>5. CASE Reload(c)
  <2>. DEFINE r == [calls[c] EXCEPT !.pc = "install", !.current = active']
  <2>1. calls' = [calls EXCEPT ![c] = r]
    BY <1>5 DEF Reload, TypeOK
  <2>2. Goes(c, r)
    BY <1>1, <1>5 DEF Goes, CallRecord, Reload, Holding, Erasing
  <2>. QED  BY <2>1, <2>2 DEF Moves
<1>6. CASE Install(c)
  BY <1>2, <1>3, <1>6 DEF Install, In, Holding, Erasing
<1>7. CASE Assess(c)
  <2>1. PICK s : calls' = [calls EXCEPT ![c].pc = "report", ![c].seen = s]
    BY <1>7 DEF Assess
  <2>. DEFINE r == [calls[c] EXCEPT !.pc = "report", !.seen = s]
  <2>2. calls' = [calls EXCEPT ![c] = r]
    BY <2>1 DEF TypeOK
  <2>3. Goes(c, r)
    BY <1>1, <1>7 DEF Goes, CallRecord, Assess, Holding, Erasing
  <2>. QED  BY <2>2, <2>3 DEF Moves
<1>8. CASE Report(c) \/ ActivationFails(c) \/ Restore(c) \/ SearchFails(c)
  BY <1>2, <1>8 DEF Report, ActivationFails, Restore, SearchFails
<1>9. CASE Erase(c)
  BY <1>2, <1>3, <1>9 DEF Erase, In, Holding, Erasing
<1>10. CASE Unlink(c)
  BY <1>2, <1>3, <1>10 DEF Unlink, In, Holding, Erasing
<1>11. CASE Drop(c)
  <2>. DEFINE r == [calls[c] EXCEPT !.pc = "check", !.profile = active']
  <2>1. CASE calls[c].kind = "disconnect"
    BY <1>2, <1>11, <2>1 DEF Drop
  <2>2. CASE calls[c].kind # "disconnect"
    <3>1. calls' = [calls EXCEPT ![c] = r]
      BY <1>11, <2>2 DEF Drop, TypeOK
    <3>2. Goes(c, r)
      BY <1>1, <1>11, <2>2 DEF Goes, CallRecord, Drop, Holding, Erasing
    <3>. QED  BY <3>1, <3>2 DEF Moves
  <2>. QED  BY <2>1, <2>2 DEF Moves
<1>12. CASE Verify(c)
  BY <1>3, <1>12 DEF Verify, In, Holding, Erasing
<1>13. CASE UseSession(c)
  <2>1. PICK s : calls' = [calls EXCEPT ![c].pc = "source", ![c].session = s]
    BY <1>13 DEF UseSession
  <2>. DEFINE r == [calls[c] EXCEPT !.pc = "source", !.session = s]
  <2>2. calls' = [calls EXCEPT ![c] = r]
    BY <2>1 DEF TypeOK
  <2>3. Goes(c, r)
    BY <1>1, <1>13 DEF Goes, CallRecord, UseSession, In, Holding, Erasing
  <2>. QED  BY <2>2, <2>3 DEF Moves
<1>14. CASE Source(c)
  BY <1>2, <1>3, <1>14 DEF Source, In, Holding, Erasing
<1>15. CASE ReadKeyring(c)
  <2>1. PICK s : calls' = [calls EXCEPT ![c].pc = "restore", ![c].read = s]
    BY <1>15 DEF ReadKeyring
  <2>. DEFINE r == [calls[c] EXCEPT !.pc = "restore", !.read = s]
  <2>2. calls' = [calls EXCEPT ![c] = r]
    BY <2>1 DEF TypeOK
  <2>3. Goes(c, r)
    BY <1>1, <1>15 DEF Goes, CallRecord, ReadKeyring, In, Holding, Erasing
  <2>. QED  BY <2>2, <2>3 DEF Moves
<1>. QED  BY <1>4, <1>5, <1>6, <1>7, <1>8, <1>9, <1>10, <1>11, <1>12, <1>13, <1>14, <1>15
          DEF Run

LEMMA CallCommits ==
  ASSUME CommitInv, TypeOK', NEW c \in Calls, Call(c) \/ (Run(c) /\ ~Lock(c))
  PROVE  CommitInv'
<1>1. UNCHANGED <<attempts, generation>> /\ (mutex' = mutex \/ (mutex = c /\ mutex' = None))
  BY CallFrame, RunFrame
<1>2. c \notin Attempts /\ None \notin Attempts \cup Calls
  BY AccountsAssumption
<1>3. LoginsInOrder' /\ HolderCommits'
  BY <1>1, <1>2 DEF CommitInv, LoginsInOrder, InOrder, HolderCommits
<1>4. CallsInOrder'
  <2>1. CASE Call(c)
    <3>1. mutex' = mutex /\ mutex # c
      BY <2>1, CallFrame DEF CommitInv, CallsInOrder, Holding
    <3>2. PICK r : Starts(c, r)
      BY <2>1, CallStarts
    <3>3. calls'[c] = r /\ \A d \in Calls : d # c => calls'[d] = calls[d]
      BY <3>2 DEF Starts, CommitInv, TypeOK
    <3>. QED  BY <3>1, <3>2, <3>3 DEF Starts, CommitInv, CallsInOrder
  <2>2. CASE Run(c) /\ ~Lock(c)
    <3>1. PICK r : Moves(c, r)
      BY <2>2, RunMoves DEF CommitInv
    <3>2. calls'[c] = r /\ \A d \in Calls : d # c => calls'[d] = calls[d]
      BY <3>1 DEF Moves, CommitInv, TypeOK
    <3>. QED  BY <1>1, <1>2, <3>1, <3>2
              DEF Moves, Returns, Goes, CommitInv, CallsInOrder, Erasing
  <2>. QED  BY <2>1, <2>2
<1>. QED  BY <1>3, <1>4 DEF CommitInv

LEMMA LockCommits ==
  ASSUME CommitInv, TypeOK', NEW c \in Calls, Lock(c)
  PROVE  CommitInv'
<1>. DEFINE p == calls[c].profile
<1>1. /\ p \in Profiles /\ mutex = None /\ mutex' = c
      /\ generation' = [generation EXCEPT ![p] = generation[p] + 1]
      /\ attempts' = Outdated(p)
      /\ calls' = [calls EXCEPT ![c].pc = "erase"]
      /\ calls[c].pc = "lock"
  BY DEF Lock, In, To, CommitInv, TypeOK, CallRecord
<1>2. LoginsInOrder'
  BY <1>1, OutdatedInOrder DEF LoginsInOrder
<1>3. HolderCommits'
  BY <1>1, AccountsAssumption DEF HolderCommits
<1>4. CallsInOrder'
  <2>1. calls'[c].pc = "erase" /\ calls'[c].kind = calls[c].kind
    BY <1>1 DEF CommitInv, TypeOK, CallRecord
  <2>2. \A d \in Calls : d # c => calls'[d] = calls[d]
    BY <1>1 DEF CommitInv, TypeOK
  <2>. QED  BY <1>1, <2>1, <2>2, AccountsAssumption
            DEF CommitInv, CallsInOrder, Holding, Erasing
<1>. QED  BY <1>2, <1>3, <1>4 DEF CommitInv

LEMMA RestartCommits ==
  ASSUME CommitInv, TypeOK', Restart
  PROVE  CommitInv'
<1>1. \A a \in Attempts : attempts'[a].pc \in {"idle", "over"} /\ ~attempts'[a].obsolete
  BY DEF Restart, NoAttempt, Ended
<1>2. \A c \in Calls : calls'[c].pc \in {"idle", "over"}
  BY DEF Restart, NoCall
<1>3. mutex' = None /\ None \notin Attempts \cup Calls
  BY AccountsAssumption DEF Restart
<1>. QED  BY <1>1, <1>2, <1>3
          DEF CommitInv, LoginsInOrder, InOrder, CallsInOrder, HolderCommits, Committing, Erasing

LEMMA CommitStep == CommitInv /\ [Next]_vars => CommitInv'
<1>. SUFFICES ASSUME CommitInv, [Next]_vars PROVE CommitInv'
  OBVIOUS
<1>. TypeOK'
  BY TypeStep DEF CommitInv
<1>1. ASSUME NEW a \in Attempts, Login(a) PROVE CommitInv'
  BY <1>1, LoginCommits
<1>2. ASSUME NEW c \in Calls, Call(c) \/ Run(c) PROVE CommitInv'
  BY <1>2, CallCommits, LockCommits
<1>3. CASE Restart
  BY <1>3, RestartCommits
<1>4. CASE UNCHANGED vars
  BY <1>4 DEF vars, stores, memory, CommitInv, LoginsInOrder, InOrder, CallsInOrder, HolderCommits
<1>. QED  BY <1>1, <1>2, <1>3, <1>4 DEF Next

\* A login that a newer one, a disconnection or a deletion made obsolete writes no
\* token and no account and publishes no Session (completeLogin, services.go 1839-1856).
THEOREM ObsoleteLoginsAreInert == Spec => []ObsoleteLoginsInstallNothing
<1>1. CommitInv => ObsoleteLoginsInstallNothing
  BY DEF CommitInv, TypeOK, Attempt, AttemptStates, LoginsInOrder, InOrder, Committing,
         ObsoleteLoginsInstallNothing
<1>. QED  BY <1>1, InitCommit, CommitStep, PTL DEF Spec

\* loginCommitMu is held only by a login being committed, or by a disconnection or a
\* deletion that is past its Lock and has not returned.
THEOREM MutexHasLiveHolder == Spec => []MutexIsReleased
<1>1. CommitInv => MutexIsReleased
  BY DEF CommitInv, CallsInOrder, HolderCommits, Committing, Holding, MutexIsReleased
<1>. QED  BY <1>1, InitCommit, CommitStep, PTL DEF Spec
--------------------------------------------------------------------------------
(* The keyring and the accounts *)

\* The row of a profile whose session is kept in the keyring, and was never torn.
Kept(p) == account[p] # None /\ ~account[p].memory /\ p \notin torn

RowsHaveLogins ==
  \A p \in Profiles : account[p] # None =>
    LET a == account[p].login IN attempts[a].profile = p /\ attempts[a].pc # "idle"

SecretsMatch ==
  \A p \in Profiles : Kept(p) /\ p \notin HalfWritten => secret[p] \in {account[p].login, None}

\* What a login that is half written has in the keyring, and would restore.
WrittenIsOwn ==
  \A a \in Attempts :
    attempts[a].pc \in {"save", "rollback"} /\ ~attempts[a].memory => secret[attempts[a].profile] = a

\* Where a login knows the token it replaces.
Undoing == {"store", "save", "rollback"}

PreviousMatches ==
  \A a \in Attempts : LET p == attempts[a].profile IN
    attempts[a].pc \in Undoing /\ Kept(p) => attempts[a].previous \in {account[p].login, None}

DefaultLives == Live(Default) /\ Default \notin guests

\* A profile that a creation may delete again, or a deletion deletes, is not the default.
DefaultStays ==
  \A c \in Calls :
    /\ calls[c].kind = "create" => calls[c].profile # Default
    /\ calls[c].kind = "delete" /\ calls[c].pc \in {"lock", "erase", "unlink"}
         => calls[c].profile # Default

Born ==
  /\ \A a \in Attempts : attempts[a].pc # "idle" => profiles[attempts[a].profile] # "unborn"
  /\ \A p \in Profiles : secret[p] # None => profiles[p] # "unborn"

Owned(p) == p \notin guests /\ (Live(p) \/ p \in torn)

SecretsOwned ==
  \A p \in Profiles : secret[p] # None => p \notin guests /\ (Owned(p) \/ p \in HalfWritten)

PreviousOwned ==
  \A a \in Attempts : LET p == attempts[a].profile IN
    attempts[a].pc \in Undoing /\ attempts[a].previous # None => Owned(p) /\ secret[p] # None

Unlinking == \A c \in Calls : calls[c].pc = "unlink" => secret[calls[c].profile] = None

StoresAgree ==
  /\ RowsHaveLogins /\ SecretsMatch /\ WrittenIsOwn /\ PreviousMatches
  /\ DefaultLives /\ Born /\ SecretsOwned /\ PreviousOwned

CallsCareful == DefaultStays /\ Unlinking

SecretInv == CommitInv /\ StoresAgree /\ CallsCareful

LEMMA InitSecret == Init => SecretInv
<1>. SUFFICES ASSUME Init PROVE SecretInv
  OBVIOUS
<1>1. /\ \A p \in Profiles : account[p] = None /\ secret[p] = None
      /\ \A a \in Attempts : attempts[a].pc = "idle"
      /\ \A c \in Calls : calls[c].pc = "idle" /\ calls[c].kind = None
      /\ guests = {} /\ Live(Default)
  BY DEF Init, NoAttempt, NoCall
<1>2. CallsCareful
  BY <1>1, AccountsAssumption DEF CallsCareful, DefaultStays, Unlinking, Init, NoCall, Methods
<1>3. StoresAgree
  BY <1>1
     DEF StoresAgree, RowsHaveLogins, SecretsMatch, WrittenIsOwn, PreviousMatches, DefaultLives,
         Born, SecretsOwned, PreviousOwned, Kept, Undoing
<1>. QED  BY <1>2, <1>3, InitCommit DEF SecretInv

\* The login does not come nearer to the stores, nor does it leave them half written.
Quiet(b) ==
  /\ attempts[b].pc # "idle" =>
       attempts'[b].pc # "idle" /\ attempts'[b].profile = attempts[b].profile
  /\ attempts'[b].pc # "idle" => attempts[b].pc # "idle" \/ Live(attempts'[b].profile)
  /\ attempts'[b].pc \in Undoing =>
       /\ attempts[b].pc \in Undoing
       /\ attempts'[b].pc = "store" <=> attempts[b].pc = "store"
       /\ attempts'[b].previous = attempts[b].previous
       /\ attempts'[b].memory = attempts[b].memory
  /\ attempts[b].pc \in {"save", "rollback"} /\ ~attempts[b].memory =>
       attempts'[b].pc \in {"save", "rollback"}

UntouchedStores == UNCHANGED <<profiles, guests, account, secret, torn>>

LEMMA QuietStep ==
  ASSUME SecretInv, TypeOK', UntouchedStores, \A b \in Attempts : Quiet(b)
  PROVE  StoresAgree'
<1>. USE DEF UntouchedStores
<1>1. HalfWritten' = HalfWritten
  BY DEF Quiet, HalfWritten, At, Undoing, TypeOK, Attempt
<1>2. RowsHaveLogins'
  BY DEF SecretInv, CommitInv, StoresAgree, RowsHaveLogins, Quiet, TypeOK
<1>3. SecretsMatch'
  BY <1>1 DEF SecretInv, StoresAgree, SecretsMatch, Kept
<1>4. WrittenIsOwn'
  BY DEF SecretInv, StoresAgree, WrittenIsOwn, Quiet, Undoing
<1>5. PreviousMatches'
  BY DEF SecretInv, StoresAgree, PreviousMatches, Kept, Quiet, Undoing
<1>6. DefaultLives'
  BY DEF SecretInv, StoresAgree, DefaultLives, Live
<1>7. Born'
  BY DEF SecretInv, StoresAgree, Born, Live, Quiet, TypeOK, Attempt
<1>8. SecretsOwned'
  BY <1>1 DEF SecretInv, StoresAgree, SecretsOwned, Owned, Live
<1>9. PreviousOwned'
  BY DEF SecretInv, StoresAgree, PreviousOwned, Owned, Live, Quiet, Undoing
<1>. QED  BY <1>2, <1>3, <1>4, <1>5, <1>6, <1>7, <1>8, <1>9 DEF StoresAgree

LEMMA OutdatedKeeps ==
  ASSUME TypeOK, NEW p \in Profiles, NEW b \in Attempts
  PROVE  /\ Outdated(p)[b].pc = attempts[b].pc
         /\ Outdated(p)[b].profile = attempts[b].profile
         /\ Outdated(p)[b].previous = attempts[b].previous
         /\ Outdated(p)[b].memory = attempts[b].memory
<1>1. attempts[b] \in Attempt
  BY DEF TypeOK
<1>2. Outdated(p)[b] = attempts[b] \/ Outdated(p)[b] = [attempts[b] EXCEPT !.obsolete = TRUE]
  BY DEF Outdated
<1>. QED  BY <1>1, <1>2 DEF Attempt

LEMMA OneLoginQuiet ==
  ASSUME TypeOK, NEW a \in Attempts, NEW r, attempts' = [attempts EXCEPT ![a] = r], Quiet(a)
  PROVE  \A b \in Attempts : Quiet(b)
<1>. SUFFICES ASSUME NEW b \in Attempts, b # a PROVE Quiet(b)
  OBVIOUS
<1>1. attempts'[b] = attempts[b]
  BY DEF TypeOK
<1>. QED  BY <1>1 DEF Quiet

\* A login that ends before it wrote to the keyring.
LEMMA EndIsQuiet ==
  ASSUME TypeOK, NEW a \in Attempts, End(a), attempts[a].pc # "idle",
         attempts[a].pc \in {"save", "rollback"} => attempts[a].memory
  PROVE  \A b \in Attempts : Quiet(b)
<1>1. attempts' = [attempts EXCEPT ![a] = Ended(a)] /\ attempts'[a] = Ended(a)
  BY DEF End, TypeOK
<1>2. Ended(a).pc = "over" /\ Ended(a).profile = attempts[a].profile
  BY DEF Ended, NoAttempt
<1>3. Quiet(a)
  BY <1>1, <1>2 DEF Quiet, Undoing
<1>. QED  BY <1>1, <1>3, OneLoginQuiet

LEMMA GoIsQuiet ==
  ASSUME TypeOK, NEW a \in Attempts, NEW pc, Go(a, pc),
         attempts[a].pc # "idle", pc # "idle", pc \notin Undoing,
         attempts[a].pc \in {"save", "rollback"} => attempts[a].memory
  PROVE  \A b \in Attempts : Quiet(b)
<1>. DEFINE r == [attempts[a] EXCEPT !.pc = pc]
<1>1. attempts' = [attempts EXCEPT ![a] = r] /\ attempts'[a] = r
  BY DEF Go, TypeOK
<1>2. r.pc = pc /\ r.profile = attempts[a].profile
  BY DEF TypeOK, Attempt
<1>3. Quiet(a)
  BY <1>1, <1>2 DEF Quiet
<1>. QED  BY <1>1, <1>3, OneLoginQuiet

\* No RPC that erases is disturbed by a login, which writes with the mutex only.
LEMMA LoginCareful ==
  ASSUME SecretInv, NEW a \in Attempts, Login(a)
  PROVE  CallsCareful'
<1>1. calls' = calls
  BY LoginFrame DEF SecretInv, CommitInv
<1>2. DefaultStays'
  BY <1>1 DEF SecretInv, CallsCareful, DefaultStays
<1>3. secret' = secret \/ mutex = a
  BY CommittingHolds
     DEF SecretInv, Login, CompleteLogin, StartLogin, OpeningFails, BeginLoginAttempt, Authorise,
         AuthorisationFails, EnterCommit, Snapshot, StoreRefreshToken, SaveAccount, stores,
         SaveAccountFails, Rollback, PublishSession, At, Committing
<1>4. Unlinking'
  BY <1>1, <1>3, AccountsAssumption
     DEF SecretInv, CommitInv, CallsCareful, CallsInOrder, Unlinking, Erasing
<1>. QED  BY <1>2, <1>4 DEF CallsCareful

\* While a login is being committed, no other is.
LEMMA OneCommits ==
  ASSUME CommitInv, NEW a \in Attempts, attempts[a].pc \in Committing
  PROVE  /\ mutex = a
         /\ \A b \in Attempts : b # a => attempts[b].pc \notin Committing
         /\ \A c \in Calls : calls[c].pc \notin Erasing
BY CommittingHolds, AccountsAssumption DEF CommitInv, CallsInOrder

LEMMA SnapshotAgrees ==
  ASSUME SecretInv, TypeOK', NEW a \in Attempts, Snapshot(a)
  PROVE  StoresAgree'
<1>. DEFINE p == attempts[a].profile
<1>1. CASE LoginFails(a)
  <2>1. UntouchedStores
    BY <1>1 DEF Snapshot, stores, UntouchedStores
  <2>. QED  BY <1>1, <2>1, EndIsQuiet, QuietStep
            DEF Snapshot, At, LoginFails, SecretInv, CommitInv
<1>2. CASE ~LoginFails(a)
  <2>1. PICK previous : /\ attempts' = [attempts EXCEPT ![a].pc = "store", ![a].previous = previous]
                        /\ previous # None => previous = secret[p] /\ p \notin guests
    BY <1>2 DEF Snapshot
  <2>. DEFINE r == [attempts[a] EXCEPT !.pc = "store", !.previous = previous]
  <2>2. UNCHANGED <<profiles, guests, account, secret, torn>> /\ attempts[a].pc = "snapshot"
    BY DEF Snapshot, stores, At
  <2>3. p \in Profiles /\ r.pc = "store" /\ r.profile = p /\ r.previous = previous
    BY DEF SecretInv, CommitInv, TypeOK, Attempt
  <2>4. attempts'[a] = r /\ \A b \in Attempts : b # a => attempts'[b] = attempts[b]
    BY <2>1 DEF SecretInv, CommitInv, TypeOK
  <2>. HIDE DEF r
  <2>5. \A b \in Attempts : b # a => attempts[b].pc \notin Undoing
    BY <2>2, OneCommits DEF SecretInv, Committing, Undoing
  <2>6. HalfWritten = {} /\ HalfWritten' = {}
    BY <2>5, <2>4, <2>3, <2>2 DEF HalfWritten, At, Undoing
  <2>7. RowsHaveLogins'
    BY <2>2, <2>3, <2>4 DEF SecretInv, CommitInv, TypeOK, StoresAgree, RowsHaveLogins
  <2>8. SecretsMatch' /\ SecretsOwned'
    BY <2>2, <2>6 DEF SecretInv, StoresAgree, SecretsMatch, SecretsOwned, Owned, Live, Kept
  <2>9. WrittenIsOwn'
    BY <2>3, <2>4, <2>5 DEF WrittenIsOwn, Undoing
  <2>10. PreviousMatches'
    <3>1. Kept(p) /\ previous # None => previous = account[p].login
      BY <2>1, <2>3, <2>6 DEF SecretInv, StoresAgree, SecretsMatch
    <3>. QED  BY <2>5, <2>4, <2>3, <2>2, <3>1 DEF PreviousMatches, Kept
  <2>11. PreviousOwned'
    <3>1. previous # None => Owned(p) /\ secret[p] # None
      BY <2>1, <2>3, <2>6 DEF SecretInv, StoresAgree, SecretsOwned
    <3>. QED  BY <2>5, <2>4, <2>3, <2>2, <3>1 DEF PreviousOwned, Owned, Live
  <2>12. DefaultLives' /\ Born'
    BY <2>2, <2>3, <2>4 DEF SecretInv, StoresAgree, DefaultLives, Born, Live
  <2>. QED  BY <2>12, <2>11, <2>10, <2>9, <2>8, <2>7 DEF StoresAgree
<1>. QED  BY <1>1, <1>2

LEMMA StoreRefreshTokenAgrees ==
  ASSUME SecretInv, TypeOK', NEW a \in Attempts, StoreRefreshToken(a)
  PROVE  StoresAgree'
<1>. DEFINE p == attempts[a].profile
<1>1. CASE LoginFails(a) /\ UNCHANGED secret
  <2>1. UntouchedStores
    BY <1>1 DEF StoreRefreshToken, UntouchedStores
  <2>. QED  BY <1>1, <2>1, EndIsQuiet, QuietStep
            DEF StoreRefreshToken, At, LoginFails, SecretInv, CommitInv
<1>2. ASSUME NEW m \in BOOLEAN, Hold(a, m),
             m = TRUE => UNCHANGED secret,
             m = FALSE => secret' = [secret EXCEPT ![p] = a] /\ p \notin guests
      PROVE  StoresAgree'
  <2>. DEFINE r == [attempts[a] EXCEPT !.pc = "save", !.memory = m]
  <2>1. attempts' = [attempts EXCEPT ![a] = r]
    BY <1>2 DEF Hold, SecretInv, CommitInv, TypeOK
  <2>2. UNCHANGED <<profiles, guests, account, torn>> /\ attempts[a].pc = "store"
    BY DEF StoreRefreshToken, At
  <2>3. p \in Profiles /\ r.pc = "save" /\ r.memory = m /\ r.profile = p
        /\ r.previous = attempts[a].previous
    BY DEF SecretInv, CommitInv, TypeOK, Attempt
  <2>4. attempts'[a] = r /\ \A b \in Attempts : b # a => attempts'[b] = attempts[b]
    BY <2>1 DEF SecretInv, CommitInv, TypeOK
  <2>. HIDE DEF r
  <2>5. \A b \in Attempts : b # a => attempts[b].pc \notin Undoing
    BY <2>2, OneCommits DEF SecretInv, Committing, Undoing
  <2>6. HalfWritten = {} /\ HalfWritten' = IF m THEN {} ELSE {p}
    BY <1>2, <2>5, <2>4, <2>3, <2>2 DEF HalfWritten, At, Undoing
  <2>7. /\ \A q \in Profiles : q # p => secret'[q] = secret[q]
        /\ m => secret' = secret
        /\ ~m => secret'[p] = a
        /\ a # None
    BY <1>2, <2>3, AccountsAssumption DEF SecretInv, CommitInv, TypeOK
  <2>8. RowsHaveLogins'
    BY <2>2, <2>3, <2>4 DEF SecretInv, CommitInv, TypeOK, StoresAgree, RowsHaveLogins
  <2>9. SecretsMatch'
    BY <2>2, <2>6, <2>7 DEF SecretInv, StoresAgree, SecretsMatch, Kept
  <2>10. WrittenIsOwn'
    BY <2>7, <2>5, <2>4, <2>3 DEF WrittenIsOwn, Undoing
  <2>11. PreviousMatches'
    BY <2>5, <2>4, <2>3, <2>2 DEF SecretInv, StoresAgree, PreviousMatches, Kept, Undoing
  <2>12. DefaultLives' /\ Born'
    BY <2>7, <2>4, <2>3, <2>2 DEF SecretInv, StoresAgree, DefaultLives, Born, Live
  <2>13. SecretsOwned'
    BY <1>2, <2>2, <2>6, <2>7 DEF SecretInv, StoresAgree, SecretsOwned, Owned, Live
  <2>14. PreviousOwned'
    BY <2>7, <2>5, <2>4, <2>3, <2>2
       DEF SecretInv, StoresAgree, PreviousOwned, Owned, Live, Undoing
  <2>. QED  BY <2>14, <2>13, <2>12, <2>11, <2>10, <2>9, <2>8 DEF StoresAgree
<1>3. Hold(a, FALSE) => secret' = [secret EXCEPT ![p] = a] /\ p \notin guests
  <2>1. Hold(a, FALSE) => ~Hold(a, TRUE)
    <3>1. ASSUME NEW m \in BOOLEAN, Hold(a, m) PROVE attempts'[a].memory = m
      <4>. DEFINE r == [attempts[a] EXCEPT !.pc = "save", !.memory = m]
      <4>1. attempts'[a] = r
        BY <3>1 DEF Hold, SecretInv, CommitInv, TypeOK
      <4>. QED  BY <4>1 DEF SecretInv, CommitInv, TypeOK, Attempt
    <3>. QED  BY <3>1
  <2>2. Hold(a, FALSE) => ~LoginFails(a)
    BY OneCommits, AccountsAssumption
       DEF Hold, LoginFails, StoreRefreshToken, At, Committing, SecretInv
  <2>. QED  BY <2>1, <2>2 DEF StoreRefreshToken
<1>. QED  BY <1>1, <1>2, <1>3 DEF StoreRefreshToken

LEMMA SaveAccountAgrees ==
  ASSUME SecretInv, TypeOK', NEW a \in Attempts, SaveAccount(a)
  PROVE  StoresAgree'
<1>. DEFINE p == attempts[a].profile
            r == [attempts[a] EXCEPT !.pc = "publish"]
<1>1. /\ UNCHANGED <<profiles, guests, secret>> /\ Live(p) /\ attempts[a].pc = "save"
      /\ account' = [account EXCEPT ![p] = [login |-> a, memory |-> attempts[a].memory]]
      /\ torn' = IF attempts[a].memory THEN torn ELSE torn \ {p}
  BY DEF SaveAccount, At, Row
<1>2. p \in Profiles /\ r.pc = "publish" /\ r.profile = p
  BY DEF SecretInv, CommitInv, TypeOK, Attempt
<1>3. attempts'[a] = r /\ \A b \in Attempts : b # a => attempts'[b] = attempts[b]
  BY DEF SaveAccount, Go, SecretInv, CommitInv, TypeOK
<1>. HIDE DEF r
<1>4. \A b \in Attempts : b # a => attempts[b].pc \notin Undoing
  BY <1>1, OneCommits DEF SecretInv, Committing, Undoing
<1>5. HalfWritten = (IF attempts[a].memory THEN {} ELSE {p}) /\ HalfWritten' = {}
  BY <1>1, <1>2, <1>3, <1>4 DEF HalfWritten, At, Undoing
<1>6. /\ \A q \in Profiles : q # p => account'[q] = account[q]
      /\ account'[p] = [login |-> a, memory |-> attempts[a].memory]
  BY <1>1, <1>2 DEF SecretInv, CommitInv, TypeOK
<1>7. ~attempts[a].memory => secret[p] = a
  BY <1>1 DEF SecretInv, StoresAgree, WrittenIsOwn
<1>8. RowsHaveLogins'
  BY <1>2, <1>3, <1>6 DEF SecretInv, CommitInv, TypeOK, StoresAgree, RowsHaveLogins
<1>9. SecretsMatch'
  BY <1>1, <1>5, <1>6, <1>7 DEF SecretInv, StoresAgree, SecretsMatch, Kept
<1>10. WrittenIsOwn' /\ PreviousMatches' /\ PreviousOwned'
  BY <1>2, <1>3, <1>4 DEF WrittenIsOwn, PreviousMatches, PreviousOwned, Undoing
<1>11. DefaultLives' /\ Born'
  BY <1>1, <1>2, <1>3 DEF SecretInv, StoresAgree, DefaultLives, Born, Live
<1>12. SecretsOwned'
  BY <1>1, <1>5 DEF SecretInv, StoresAgree, SecretsOwned, Owned, Live
<1>. QED  BY <1>8, <1>9, <1>10, <1>11, <1>12 DEF StoresAgree

LEMMA SaveAccountFailsAgrees ==
  ASSUME SecretInv, TypeOK', NEW a \in Attempts, SaveAccountFails(a)
  PROVE  StoresAgree'
<1>. DEFINE r == [attempts[a] EXCEPT !.pc = "rollback"]
<1>1. attempts' = [attempts EXCEPT ![a] = r] /\ attempts'[a] = r
  BY DEF SaveAccountFails, Go, SecretInv, CommitInv, TypeOK
<1>2. r.pc = "rollback" /\ r.profile = attempts[a].profile /\ r.memory = attempts[a].memory
      /\ r.previous = attempts[a].previous /\ attempts[a].pc = "save"
  BY DEF SaveAccountFails, At, SecretInv, CommitInv, TypeOK, Attempt
<1>3. Quiet(a)
  BY <1>1, <1>2 DEF Quiet, Undoing
<1>4. UntouchedStores
  BY DEF SaveAccountFails, stores, UntouchedStores
<1>. QED  BY <1>1, <1>3, <1>4, OneLoginQuiet, QuietStep DEF SecretInv, CommitInv

LEMMA RollbackAgrees ==
  ASSUME SecretInv, TypeOK', NEW a \in Attempts, Rollback(a)
  PROVE  StoresAgree'
<1>. DEFINE p == attempts[a].profile
            previous == attempts[a].previous
<1>0. attempts[a].pc = "rollback" /\ End(a) /\ UNCHANGED <<profiles, guests, account>>
  BY DEF Rollback, At, LoginFails
<1>1. CASE attempts[a].memory
  <2>1. UntouchedStores
    BY <1>0, <1>1 DEF Rollback, UntouchedStores
  <2>. QED  BY <1>0, <1>1, <2>1, EndIsQuiet, QuietStep DEF SecretInv, CommitInv
<1>2. CASE ~attempts[a].memory
  <2>1. \/ secret' = [secret EXCEPT ![p] = previous] /\ torn' = torn
        \/ torn' = torn \cup {p} /\ secret' = secret
    BY <1>2 DEF Rollback
  <2>2. p \in Profiles /\ Ended(a).pc = "over" /\ Ended(a).profile = p
    BY DEF SecretInv, CommitInv, TypeOK, Attempt, Ended, NoAttempt
  <2>3. attempts'[a] = Ended(a) /\ \A b \in Attempts : b # a => attempts'[b] = attempts[b]
    BY <1>0 DEF End, SecretInv, CommitInv, TypeOK
  <2>4. \A b \in Attempts : b # a => attempts[b].pc \notin Undoing
    BY <1>0, OneCommits DEF SecretInv, Committing, Undoing
  <2>5. HalfWritten = {p} /\ HalfWritten' = {}
    BY <1>0, <1>2, <2>2, <2>3, <2>4 DEF HalfWritten, At, Undoing
  <2>6. /\ \A q \in Profiles : q # p => secret'[q] = secret[q]
        /\ p \notin torn' => secret'[p] = previous
        /\ secret'[p] # None => secret[p] # None
        /\ torn \subseteq torn'
    BY <1>0, <2>1, <2>2
       DEF SecretInv, CommitInv, TypeOK, StoresAgree, PreviousOwned, Undoing
  <2>7. RowsHaveLogins'
    BY <1>0, <2>2, <2>3 DEF SecretInv, CommitInv, TypeOK, StoresAgree, RowsHaveLogins
  <2>8. SecretsMatch'
    <3>1. Kept(p) => previous \in {account[p].login, None}
      BY <1>0 DEF SecretInv, StoresAgree, PreviousMatches, Undoing
    <3>. QED  BY <1>0, <2>5, <2>6, <3>1 DEF SecretInv, StoresAgree, SecretsMatch, Kept
  <2>9. WrittenIsOwn' /\ PreviousMatches' /\ PreviousOwned'
    BY <2>2, <2>3, <2>4 DEF WrittenIsOwn, PreviousMatches, PreviousOwned, Undoing
  <2>10. DefaultLives' /\ Born'
    BY <1>0, <2>2, <2>3, <2>6 DEF SecretInv, StoresAgree, DefaultLives, Born, Live
  <2>11. SecretsOwned'
    <3>1. previous # None => Owned(p)
      BY <1>0 DEF SecretInv, StoresAgree, PreviousOwned, Undoing
    <3>2. p \in torn' \/ secret'[p] = previous
      BY <2>6
    <3>. QED  BY <1>0, <2>5, <2>6, <3>1, <3>2
              DEF SecretInv, StoresAgree, SecretsOwned, Owned, Live
  <2>. QED  BY <2>11, <2>10, <2>9, <2>8, <2>7 DEF StoresAgree
<1>. QED  BY <1>1, <1>2

LEMMA LoginAgrees ==
  ASSUME SecretInv, TypeOK', NEW a \in Attempts, Login(a)
  PROVE  StoresAgree'
<1>. TypeOK
  BY DEF SecretInv, CommitInv
<1>1. CASE StartLogin(a)
  <2>. DEFINE r == [attempts[a] EXCEPT !.pc = "opening", !.profile = active']
  <2>1. attempts' = [attempts EXCEPT ![a] = r] /\ attempts'[a] = r /\ attempts[a].pc = "idle"
    BY <1>1 DEF StartLogin, At, TypeOK
  <2>2. r.pc = "opening" /\ r.profile = active'
    BY DEF TypeOK, Attempt
  <2>3. Live(active')
    BY <1>1 DEF StartLogin, ActiveProfile, SecretInv, StoresAgree, DefaultLives
  <2>4. Quiet(a)
    BY <2>1, <2>2, <2>3 DEF Quiet, Undoing
  <2>. QED  BY <1>1, <2>1, <2>4, OneLoginQuiet, QuietStep DEF StartLogin, UntouchedStores
<1>2. CASE OpeningFails(a)
  BY <1>2, EndIsQuiet, QuietStep DEF OpeningFails, At, stores, UntouchedStores
<1>3. CASE BeginLoginAttempt(a)
  <2>. DEFINE p == attempts[a].profile
              r == [Outdated(p)[a] EXCEPT !.pc = "waiting", !.generation = generation'[p]]
  <2>1. p \in Profiles /\ Outdated(p) \in [Attempts -> Attempt]
    BY OutdatedType DEF TypeOK, Attempt
  <2>2. attempts' = [Outdated(p) EXCEPT ![a] = r]
    <3>1. attempts' = [Outdated(p) EXCEPT ![a].pc = "waiting", ![a].generation = generation'[p]]
      BY <1>3 DEF BeginLoginAttempt
    <3>. QED  BY <2>1, <3>1
  <2>3. /\ attempts'[a].pc = "waiting" /\ attempts'[a].profile = Outdated(p)[a].profile
        /\ \A b \in Attempts : b # a => attempts'[b] = Outdated(p)[b]
    BY <2>1, <2>2 DEF Attempt
  <2>4. Quiet(a)
    BY <1>3, <2>3, OutdatedKeeps DEF Quiet, Undoing, BeginLoginAttempt, At, TypeOK, Attempt
  <2>5. \A b \in Attempts : b # a => Quiet(b)
    <3>1. ASSUME NEW b \in Attempts, b # a PROVE Quiet(b)
      <4>1. /\ attempts'[b].pc = attempts[b].pc /\ attempts'[b].profile = attempts[b].profile
            /\ attempts'[b].previous = attempts[b].previous
            /\ attempts'[b].memory = attempts[b].memory
        BY <2>1, <2>3, <3>1, OutdatedKeeps
      <4>. QED  BY <4>1 DEF Quiet
    <3>. QED  BY <3>1
  <2>. QED  BY <1>3, <2>4, <2>5, QuietStep DEF BeginLoginAttempt, stores, UntouchedStores
<1>4. CASE Authorise(a)
  BY <1>4, GoIsQuiet, QuietStep DEF Authorise, At, Undoing, stores, UntouchedStores
<1>5. CASE AuthorisationFails(a)
  BY <1>5, EndIsQuiet, QuietStep DEF AuthorisationFails, At, stores, UntouchedStores
<1>6. CASE EnterCommit(a)
  BY <1>6, EndIsQuiet, GoIsQuiet, QuietStep DEF EnterCommit, At, Undoing, stores, UntouchedStores
<1>7. CASE PublishSession(a)
  BY <1>7, EndIsQuiet, QuietStep DEF PublishSession, At, UntouchedStores
<1>. QED  BY <1>1, <1>2, <1>3, <1>4, <1>5, <1>6, <1>7, SnapshotAgrees, StoreRefreshTokenAgrees,
             SaveAccountAgrees, SaveAccountFailsAgrees, RollbackAgrees DEF Login, CompleteLogin

\* Steps that move no login.
LEMMA StillStep ==
  ASSUME SecretInv, TypeOK', UntouchedStores, attempts' = attempts
  PROVE  StoresAgree'
<1>1. \A b \in Attempts : Quiet(b)
  BY DEF Quiet
<1>. QED  BY <1>1, QuietStep

LEMMA CreateProfileAgrees ==
  ASSUME SecretInv, TypeOK', NEW c \in Calls, NEW p \in Profiles, NEW isGuest \in BOOLEAN,
         CreateProfile(c, p, isGuest)
  PROVE  StoresAgree'
<1>1. /\ UNCHANGED <<account, secret, torn, attempts>>
      /\ profiles[p] = "unborn"
      /\ guests \subseteq guests' /\ guests' \subseteq guests \cup {p}
  BY DEF CreateProfile
<1>2. profiles'[p] = "live" /\ \A q \in Profiles : q # p => profiles'[q] = profiles[q]
  BY DEF CreateProfile, SecretInv, CommitInv, TypeOK
<1>3. HalfWritten' = HalfWritten
  BY <1>1 DEF HalfWritten, At
<1>4. secret[p] = None
  BY <1>1 DEF SecretInv, StoresAgree, Born
<1>5. RowsHaveLogins' /\ SecretsMatch' /\ WrittenIsOwn' /\ PreviousMatches'
  BY <1>1, <1>3
     DEF SecretInv, StoresAgree, RowsHaveLogins, SecretsMatch, WrittenIsOwn, PreviousMatches, Kept
<1>6. DefaultLives' /\ Born'
  BY <1>1, <1>2, AccountsAssumption
     DEF SecretInv, CommitInv, TypeOK, Attempt, StoresAgree, DefaultLives, Born, Live
<1>7. SecretsOwned'
  BY <1>1, <1>2, <1>3, <1>4 DEF SecretInv, StoresAgree, SecretsOwned, Owned, Live
<1>8. PreviousOwned'
  BY <1>1, <1>2, <1>4
     DEF SecretInv, CommitInv, TypeOK, Attempt, StoresAgree, PreviousOwned, Owned, Live
<1>. QED  BY <1>5, <1>6, <1>7, <1>8 DEF StoresAgree

LEMMA CallSecret ==
  ASSUME SecretInv, TypeOK', NEW c \in Calls, Call(c)
  PROVE  StoresAgree' /\ CallsCareful'
<1>1. StoresAgree'
  <2>1. ASSUME NEW p \in Profiles, SetActiveProfile(c, p) \/ DeleteProfile(c, p)
        PROVE  StoresAgree'
    BY <2>1, StillStep DEF SetActiveProfile, DeleteProfile, stores, UntouchedStores
  <2>2. CASE SetBrowserCookies(c) \/ DisconnectAccount(c) \/ NewYouTubeService(c)
    BY <2>2, StillStep
       DEF SetBrowserCookies, DisconnectAccount, NewYouTubeService, UntouchedStores
  <2>. QED  BY <2>1, <2>2, CreateProfileAgrees DEF Call
<1>2. PICK r : Starts(c, r)
  BY CallStarts
<1>3. calls'[c] = r /\ \A d \in Calls : d # c => calls'[d] = calls[d]
  BY <1>2 DEF Starts, SecretInv, CommitInv, TypeOK
<1>4. secret' = secret
  BY DEF Call, SetActiveProfile, DeleteProfile, CreateProfile, SetBrowserCookies,
         DisconnectAccount, NewYouTubeService, stores
<1>5. DefaultStays'
  BY <1>2, <1>3 DEF Starts, SecretInv, StoresAgree, CallsCareful, DefaultStays, DefaultLives, Live
<1>6. Unlinking'
  BY <1>2, <1>3, <1>4 DEF Starts, Erasing, SecretInv, CallsCareful, Unlinking
<1>. QED  BY <1>1, <1>5, <1>6 DEF CallsCareful

\* A row disappears, with its profile or without it; a profile that leaves a token in the
\* keyring counts as torn.
LEMMA UnlinkAgrees ==
  ASSUME SecretInv, TypeOK', NEW p \in Profiles, UNCHANGED <<guests, secret, attempts>>,
         torn \subseteq torn',
         account' = [account EXCEPT ![p] = None],
         \/ profiles' = profiles
         \/ /\ profiles' = [profiles EXCEPT ![p] = "gone"]
            /\ p # Default
            /\ secret[p] # None => p \in torn'
  PROVE  StoresAgree'
<1>1. account'[p] = None /\ \A q \in Profiles : q # p => account'[q] = account[q]
  BY DEF SecretInv, CommitInv, TypeOK
<1>2. /\ \A q \in Profiles : q # p => profiles'[q] = profiles[q]
      /\ profiles'[p] = profiles[p] \/ profiles'[p] = "gone"
      /\ profiles'[p] = profiles[p] \/ (p # Default /\ (secret[p] # None => p \in torn'))
  BY DEF SecretInv, CommitInv, TypeOK
<1>3. HalfWritten' = HalfWritten
  BY DEF HalfWritten, At
<1>4. RowsHaveLogins' /\ SecretsMatch' /\ WrittenIsOwn'
  BY <1>1, <1>3
     DEF SecretInv, StoresAgree, RowsHaveLogins, SecretsMatch, WrittenIsOwn, Kept
<1>5. PreviousMatches'
  BY <1>1 DEF SecretInv, CommitInv, TypeOK, Attempt, StoresAgree, PreviousMatches, Kept
<1>6. DefaultLives' /\ Born'
  BY <1>2, AccountsAssumption
     DEF SecretInv, CommitInv, TypeOK, Attempt, StoresAgree, DefaultLives, Born, Live
<1>7. SecretsOwned'
  BY <1>2, <1>3 DEF SecretInv, StoresAgree, SecretsOwned, Owned, Live
<1>8. PreviousOwned'
  BY <1>2 DEF SecretInv, CommitInv, TypeOK, Attempt, StoresAgree, PreviousOwned, Owned, Live
<1>. QED  BY <1>4, <1>5, <1>6, <1>7, <1>8 DEF StoresAgree

LEMMA EraseAgrees ==
  ASSUME SecretInv, TypeOK', NEW c \in Calls, Erase(c)
  PROVE  StoresAgree'
<1>. DEFINE p == calls[c].profile
<1>1. UNCHANGED <<profiles, guests, account, attempts>> /\ calls[c].pc = "erase" /\ p \in Profiles
  BY DEF Erase, In, SecretInv, CommitInv, TypeOK, CallRecord
<1>2. CASE UNCHANGED <<secret, torn>>
  BY <1>1, <1>2, StillStep DEF UntouchedStores
<1>3. CASE secret' = [secret EXCEPT ![p] = None] /\ torn' = torn \ {p}
  <2>1. secret'[p] = None /\ \A q \in Profiles : q # p => secret'[q] = secret[q]
    BY <1>1, <1>3 DEF SecretInv, CommitInv, TypeOK
  <2>2. \A b \in Attempts : attempts[b].pc \notin Committing
    BY <1>1, CommittingHolds, AccountsAssumption
       DEF SecretInv, CommitInv, CallsInOrder, Erasing
  <2>3. HalfWritten = {} /\ HalfWritten' = {}
    BY <1>1, <2>2 DEF HalfWritten, At, Committing
  <2>4. RowsHaveLogins'
    BY <1>1 DEF SecretInv, StoresAgree, RowsHaveLogins
  <2>5. SecretsMatch' /\ SecretsOwned'
    BY <1>1, <1>3, <2>1, <2>3
       DEF SecretInv, StoresAgree, SecretsMatch, SecretsOwned, Kept, Owned, Live
  <2>6. WrittenIsOwn' /\ PreviousMatches' /\ PreviousOwned'
    BY <1>1, <2>2 DEF WrittenIsOwn, PreviousMatches, PreviousOwned, Undoing, Committing
  <2>7. DefaultLives' /\ Born'
    BY <1>1, <2>1 DEF SecretInv, StoresAgree, DefaultLives, Born, Live
  <2>. QED  BY <2>7, <2>6, <2>5, <2>4 DEF StoresAgree
<1>. QED  BY <1>2, <1>3 DEF Erase

LEMMA RunAgrees ==
  ASSUME SecretInv, TypeOK', NEW c \in Calls, Run(c)
  PROVE  StoresAgree'
<1>. DEFINE p == calls[c].profile
<1>1. p \in Profiles
  BY DEF SecretInv, CommitInv, TypeOK, CallRecord
<1>2. CASE \/ Check(c) \/ Select(c) \/ Reload(c) \/ Install(c) \/ Assess(c) \/ Report(c)
           \/ Drop(c) \/ Verify(c) \/ UseSession(c) \/ Source(c) \/ ReadKeyring(c)
           \/ Restore(c) \/ SearchFails(c)
  BY <1>2, StillStep
     DEF Check, Select, Reload, Install, Assess, Report, Drop, Verify, UseSession, Source,
         ReadKeyring, Restore, SearchFails, stores, UntouchedStores
<1>3. CASE ActivationFails(c)
  <2>1. CASE DeleteRow(p) /\ calls[c].kind = "create"
    BY <1>1, <1>3, <2>1, UnlinkAgrees
       DEF ActivationFails, DeleteRow, SecretInv, CallsCareful, DefaultStays
  <2>2. CASE UNCHANGED <<profiles, active, account, torn>>
    BY <1>3, <2>2, StillStep DEF ActivationFails, UntouchedStores
  <2>. QED  BY <1>3, <2>1, <2>2 DEF ActivationFails
<1>4. CASE Lock(c)
  <2>1. \A b \in Attempts : Quiet(b)
    BY <1>1, <1>4, OutdatedKeeps DEF Lock, Quiet, SecretInv, CommitInv
  <2>. QED  BY <1>4, <2>1, QuietStep DEF Lock, stores, UntouchedStores
<1>5. CASE Erase(c)
  BY <1>5, EraseAgrees
<1>6. CASE Unlink(c)
  <2>1. UNCHANGED <<guests, secret, attempts, torn>> /\ calls[c].pc = "unlink"
    BY <1>6 DEF Unlink, In
  <2>2. CASE account' = [account EXCEPT ![p] = None] /\ profiles' = profiles
    BY <1>1, <2>1, <2>2, UnlinkAgrees
  <2>3. CASE DeleteRow(p) /\ calls[c].kind = "delete"
    BY <1>1, <2>1, <2>3, UnlinkAgrees
       DEF DeleteRow, SecretInv, CallsCareful, DefaultStays, Unlinking
  <2>4. CASE UNCHANGED <<profiles, active, account>>
    BY <2>1, <2>4, StillStep DEF UntouchedStores
  <2>. QED  BY <1>6, <2>2, <2>3, <2>4 DEF Unlink
<1>. QED  BY <1>2, <1>3, <1>4, <1>5, <1>6 DEF Run

LEMMA RunCareful ==
  ASSUME SecretInv, TypeOK', NEW c \in Calls, Run(c)
  PROVE  CallsCareful'
<1>. DEFINE p == calls[c].profile
<1>1. \A q \in Profiles : secret'[q] \in {secret[q], None}
  BY DEF Run, Check, Select, Reload, Install, Assess, Report, ActivationFails, Lock, Erase, Unlink,
         Drop, Verify, UseSession, Source, ReadKeyring, Restore, SearchFails, stores,
         SecretInv, CommitInv, TypeOK
<1>2. CASE Lock(c)
  <2>1. calls' = [calls EXCEPT ![c].pc = "erase"] /\ calls[c].pc = "lock"
    BY <1>2 DEF Lock, To, In
  <2>2. /\ calls'[c].pc = "erase" /\ calls'[c].kind = calls[c].kind /\ calls'[c].profile = p
        /\ \A d \in Calls : d # c => calls'[d] = calls[d]
    BY <2>1 DEF SecretInv, CommitInv, TypeOK, CallRecord
  <2>. QED  BY <1>1, <2>1, <2>2
            DEF SecretInv, CommitInv, TypeOK, CallRecord, CallsCareful, DefaultStays, Unlinking
<1>3. CASE ~Lock(c)
  <2>1. PICK r : Moves(c, r)
    BY <1>3, RunMoves DEF SecretInv, CommitInv
  <2>2. calls'[c] = r /\ \A d \in Calls : d # c => calls'[d] = calls[d]
    BY <2>1 DEF Moves, SecretInv, CommitInv, TypeOK
  <2>3. DefaultStays'
    <3>1. /\ r.kind = "create" => calls[c].kind = "create" /\ r.profile = p
          /\ r.pc # "lock"
          /\ r.kind = "delete" /\ r.pc \in {"erase", "unlink"} =>
               calls[c].kind = "delete" /\ calls[c].pc = "erase" /\ r.profile = p
      BY <2>1, AccountsAssumption DEF Moves, Goes, Returns, Erase, In, Methods
    <3>. QED  BY <2>2, <3>1 DEF SecretInv, CallsCareful, DefaultStays
  <2>4. r.pc = "unlink" => secret'[r.profile] = None
    <3>1. SUFFICES ASSUME r.pc = "unlink" PROVE secret'[r.profile] = None
      OBVIOUS
    <3>2. Erase(c) /\ r.profile = p
      BY <2>1, <3>1 DEF Moves, Goes, Returns
    <3>3. ~Return(c)
      BY <2>2, <3>1 DEF Return, NoCall, SecretInv, CommitInv, TypeOK
    <3>. QED  BY <3>2, <3>3 DEF Erase, SecretInv, CommitInv, TypeOK, CallRecord
  <2>5. Unlinking'
    BY <1>1, <2>2, <2>4
       DEF SecretInv, CommitInv, TypeOK, CallRecord, CallsCareful, Unlinking
  <2>. QED  BY <2>3, <2>5 DEF CallsCareful
<1>. QED  BY <1>2, <1>3

LEMMA RestartSecret ==
  ASSUME SecretInv, TypeOK', Restart
  PROVE  StoresAgree' /\ CallsCareful'
<1>. DEFINE kept(p) == p \notin guests \/ profiles[p] # "live"
<1>1. ASSUME NEW a \in Attempts
      PROVE  /\ attempts'[a].pc = IF attempts[a].pc = "idle" THEN "idle" ELSE "over"
             /\ attempts[a].pc # "idle" => attempts'[a].profile = attempts[a].profile
  BY DEF Restart, NoAttempt, Ended, At
<1>2. \A c \in Calls : calls'[c].pc \in {"idle", "over"} /\ calls'[c].kind = None
  BY DEF Restart, NoCall
<1>3. /\ UNCHANGED <<guests, secret>> /\ torn' = torn \cup HalfWritten
      /\ \A p \in Profiles : profiles'[p] = IF kept(p) THEN profiles[p] ELSE "gone"
      /\ \A p \in Profiles : account'[p] # None =>
           account'[p] = account[p]
  BY DEF Restart
<1>4. RowsHaveLogins'
  BY <1>1, <1>3 DEF SecretInv, CommitInv, TypeOK, StoresAgree, RowsHaveLogins
<1>5. SecretsMatch'
  BY <1>3 DEF SecretInv, StoresAgree, SecretsMatch, Kept
<1>6. WrittenIsOwn' /\ PreviousMatches' /\ PreviousOwned'
  BY <1>1 DEF WrittenIsOwn, PreviousMatches, PreviousOwned, Undoing
<1>7. DefaultLives'
  BY <1>3, AccountsAssumption DEF SecretInv, StoresAgree, DefaultLives, Live
<1>8. Born'
  BY <1>1, <1>3 DEF SecretInv, CommitInv, TypeOK, Attempt, StoresAgree, Born
<1>9. SecretsOwned'
  BY <1>3 DEF SecretInv, StoresAgree, SecretsOwned, Owned, Live
<1>10. CallsCareful'
  BY <1>2, AccountsAssumption DEF CallsCareful, DefaultStays, Unlinking, Methods
<1>. QED  BY <1>4, <1>5, <1>6, <1>7, <1>8, <1>9, <1>10 DEF StoresAgree

LEMMA SecretStep == SecretInv /\ [Next]_vars => SecretInv'
<1>. SUFFICES ASSUME SecretInv, [Next]_vars PROVE SecretInv'
  OBVIOUS
<1>1. CommitInv' /\ TypeOK'
  BY CommitStep DEF SecretInv, CommitInv
<1>2. ASSUME NEW a \in Attempts, Login(a) PROVE StoresAgree' /\ CallsCareful'
  BY <1>1, <1>2, LoginAgrees, LoginCareful
<1>3. ASSUME NEW c \in Calls, Call(c) PROVE StoresAgree' /\ CallsCareful'
  BY <1>1, <1>3, CallSecret
<1>4. ASSUME NEW c \in Calls, Run(c) PROVE StoresAgree' /\ CallsCareful'
  BY <1>1, <1>4, RunAgrees, RunCareful
<1>5. CASE Restart
  BY <1>1, <1>5, RestartSecret DEF SecretInv
<1>6. CASE UNCHANGED vars
  <2>1. UntouchedStores /\ UNCHANGED <<attempts, calls>>
    BY <1>6 DEF vars, stores, UntouchedStores
  <2>. QED  BY <1>1, <2>1, StillStep
            DEF UntouchedStores, SecretInv, CallsCareful, DefaultStays, Unlinking
<1>. QED  BY <1>1, <1>2, <1>3, <1>4, <1>5, <1>6 DEF Next, SecretInv

\* Outside of a commit, no profile has a row or a secret half written.
LEMMA NothingHalfWritten == CommitInv /\ mutex = None => HalfWritten = {}
<1>. SUFFICES ASSUME CommitInv, mutex = None PROVE HalfWritten = {}
  OBVIOUS
<1>1. \A a \in Attempts : attempts[a].pc \notin Committing
  BY AccountsAssumption, CommittingHolds
<1>. QED  BY <1>1 DEF HalfWritten, At, Committing

\* The keyring has the token of the account that the row of a profile shows, or none, and
\* the row is of a login of that profile (completeLogin and its rollback,
\* services.go 1858-1895), for any number of logins, RPCs and crashes.
THEOREM SecretsAgree == Spec => []SecretMatchesAccount
<1>1. SecretInv => SecretMatchesAccount
  BY NothingHalfWritten
     DEF SecretInv, StoresAgree, RowsHaveLogins, SecretsMatch, Kept, SecretMatchesAccount
<1>. QED  BY <1>1, InitSecret, SecretStep, PTL DEF Spec

\* Only live profiles that are no guests have a token in the keyring, but while it is
\* being written or where a crash or a failed rollback left it.
THEOREM SecretsAreOwned == Spec => []SecretsHaveOwners
<1>1. SecretInv => SecretsHaveOwners
  BY NothingHalfWritten
     DEF SecretInv, StoresAgree, SecretsOwned, Owned, SecretsHaveOwners
<1>. QED  BY <1>1, InitSecret, SecretStep, PTL DEF Spec
================================================================================
