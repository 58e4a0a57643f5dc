-------------------------------- MODULE Accounts --------------------------------
(***************************************************************************)
(* Profiles and their accounts: the Account part of                        *)
(* src/internal/services/services.go over auth/session.go, the profiles    *)
(* and profile_accounts tables, and the keyring of the system.             *)
(*                                                                         *)
(* A login runs in the background, fixed to the profile that was active    *)
(* when it began, while RPCs switch, create, delete and disconnect         *)
(* profiles.  A login that was authorised writes to the keyring and then   *)
(* to the database, which share no transaction; loginCommitMu serialises   *)
(* these commits with disconnections and deletions, and a generation per   *)
(* profile tells a login that it is no longer wanted.                      *)
(*                                                                         *)
(* Reads and writes of the database and of the keyring are steps of their  *)
(* own, and any of them may fail.  The token of a login is named by the    *)
(* login.  The legacy keyring entry, moved once at start, and the audit    *)
(* log are left out.                                                       *)
(***************************************************************************)
EXTENDS Integers

CONSTANTS
  Profiles,
  Default,      \* storage.DefaultProfileID
  Attempts,     \* logins in the order they are started: 1..n
  Calls,        \* RPCs
  Kinds,        \* bound: per RPC, the methods it may be a call of
  None,
  ActivationMayFail,  \* bound: whether the database may fail in SetActiveProfile
  MaxRestarts   \* bound

\* The RPCs that are modelled.
Methods == {"activate", "create", "cookies", "disconnect", "delete", "search"}

ASSUME AccountsAssumption ==
  /\ Default \in Profiles
  /\ Attempts \subseteq Nat
  /\ Calls \cap Nat = {}
  /\ None \notin Profiles \cup Attempts \cup Calls /\ None \notin Methods
  /\ Kinds \in [Calls -> SUBSET Methods]
  /\ ActivationMayFail \in BOOLEAN
  /\ MaxRestarts \in Nat

VARIABLES
  profiles,    \* the profiles table; ids are never used again
  guests,      \* the profiles of kind guest
  active,      \* the setting ui.active_profile
  account,     \* profile_accounts: a login and how its session is kept, or None
  secret,      \* keyring: the refresh token stored for a profile, or None
  session,     \* profileSessions: the Session of a profile, or None
  token,       \* per Session: its memoryToken, or None
  generation,  \* loginGenerations
  status,      \* loginStatuses
  mutex,       \* who holds loginCommitMu
  resolver,    \* the profile whose cookies the playback resolver uses
  attempts,    \* per login: where it is and what it captured
  calls,       \* per RPC: where it is and what it captured
  restarts

\* Auxiliary: the profiles whose keyring entry was left behind, by a crash between the
\* keyring and the database, by a rollback that failed, or by a failed creation.
\* (Also auxiliary: attempts[a].obsolete, set when a newer login, a disconnection or
\* a deletion of the same profile begins after login a.)
VARIABLE torn

stores == <<profiles, guests, active, account, secret>>
memory == <<session, token, generation, status>>
vars == <<stores, memory, mutex, resolver, attempts, calls, restarts, torn>>

\* Sessions are created by the login or the RPC they are named by.
Sessions == Attempts \cup Calls
Statuses == {"idle", "pending", "connected", "error"}

AttemptStates == {"idle", "opening", "waiting", "authorised", "snapshot", "store",
                  "save", "rollback", "publish", "over"}
CallStates == {"idle", "check", "select", "reload", "install", "assess", "report",
               "lock", "erase", "unlink", "drop", "verify", "session", "source",
               "keyring", "restore", "over"}

Attempt == [pc : AttemptStates, profile : Profiles, generation : Nat,
            previous : Attempts \cup {None}, memory : BOOLEAN, obsolete : BOOLEAN]
CallRecord == [pc : CallStates, kind : Methods \cup {None}, profile : Profiles,
               session : Sessions \cup {None}, current : Profiles,
               read : Attempts \cup {None}, seen : Statuses]

TypeOK ==
  /\ profiles \in [Profiles -> {"unborn", "live", "gone"}]
  /\ guests \subseteq Profiles
  /\ active \in Profiles
  /\ account \in [Profiles -> [login : Attempts, memory : BOOLEAN] \cup {None}]
  /\ secret \in [Profiles -> Attempts \cup {None}]
  /\ session \in [Profiles -> Sessions \cup {None}]
  /\ token \in [Sessions -> Attempts \cup {None}]
  /\ generation \in [Profiles -> Nat]
  /\ status \in [Profiles -> Statuses]
  /\ mutex \in Sessions \cup {None}
  /\ resolver \in Profiles
  /\ attempts \in [Attempts -> Attempt]
  /\ calls \in [Calls -> CallRecord]
  /\ restarts \in 0..MaxRestarts
  /\ torn \subseteq Profiles

NoAttempt == [pc |-> "idle", profile |-> Default, generation |-> 0,
              previous |-> None, memory |-> FALSE, obsolete |-> FALSE]
NoCall    == [pc |-> "idle", kind |-> None, profile |-> Default, session |-> None,
              current |-> Default, read |-> None, seen |-> "idle"]

Live(p) == profiles[p] = "live"

\* The application starts with some persistent profiles, without guests.
Init ==
  /\ profiles \in [Profiles -> {"unborn", "live"}]
  /\ Live(Default)
  /\ guests = {}
  /\ active \in {p \in Profiles : Live(p)}
  /\ account = [p \in Profiles |-> None]
  /\ secret = [p \in Profiles |-> None]
  /\ session = [p \in Profiles |-> None]
  /\ token = [s \in Sessions |-> None]
  /\ generation = [p \in Profiles |-> 0]
  /\ status = [p \in Profiles |-> "idle"]
  /\ mutex = None
  /\ resolver = active
  /\ attempts = [a \in Attempts |-> NoAttempt]
  /\ calls = [c \in Calls |-> NoCall]
  /\ restarts = 0
  /\ torn = {}

--------------------------------------------------------------------------------
\* Repo.ActiveProfile: a setting that names no profile is set to the default.
ActiveProfile == IF Live(active) THEN active ELSE Default

\* The transaction of Repo.DeleteProfile; the account goes with its profile.
DeleteRow(p) ==
  /\ profiles' = [profiles EXCEPT ![p] = "gone"]
  /\ active' = IF active = p THEN Default ELSE active
  /\ account' = [account EXCEPT ![p] = None]

--------------------------------------------------------------------------------
(* Logins: StartGoogleLogin, StartDeviceLogin and their goroutine *)

At(a, pc) == attempts[a].pc = pc
Go(a, pc) == attempts' = [attempts EXCEPT ![a].pc = pc]

\* The goroutine returns; what it captured is forgotten, but for the profile.
Ended(a) == [NoAttempt EXCEPT !.pc = "over", !.profile = attempts[a].profile]
End(a)   == attempts' = [attempts EXCEPT ![a] = Ended(a)]

\* The active profile is captured; the browser is opened or a code is requested.
StartLogin(a) ==
  /\ At(a, "idle") /\ \A b \in Attempts : b < a => ~At(b, "idle")
  /\ active' = ActiveProfile
  /\ attempts' = [attempts EXCEPT ![a].pc = "opening", ![a].profile = active']
  /\ UNCHANGED <<profiles, guests, account, secret, memory, mutex, resolver, calls, restarts, torn>>

OpeningFails(a) ==
  /\ At(a, "opening") /\ End(a)
  /\ UNCHANGED <<stores, memory, mutex, resolver, calls, restarts, torn>>

\* The logins of a profile that have begun and are not over.
Begun(p) == {a \in Attempts : /\ attempts[a].profile = p
                              /\ attempts[a].pc \notin {"idle", "opening", "over"}}

Outdated(p) == [a \in Attempts |-> IF a \in Begun(p)
                                   THEN [attempts[a] EXCEPT !.obsolete = TRUE]
                                   ELSE attempts[a]]

BeginLoginAttempt(a) ==
  LET p == attempts[a].profile IN
  /\ At(a, "opening") /\ mutex = None
  /\ generation' = [generation EXCEPT ![p] = @ + 1]
  /\ status' = [status EXCEPT ![p] = "pending"]
  /\ attempts' = [Outdated(p) EXCEPT ![a].pc = "waiting", ![a].generation = generation'[p]]
  /\ UNCHANGED <<stores, session, token, mutex, resolver, calls, restarts, torn>>

\* setLoginStatusForAttempt: only the latest attempt of a profile is reported.
Reported(a, s) ==
  IF generation[attempts[a].profile] = attempts[a].generation
  THEN [status EXCEPT ![attempts[a].profile] = s] ELSE status

\* The token was exchanged and the identity fetched with it.
Authorise(a) ==
  /\ At(a, "waiting") /\ Go(a, "authorised")
  /\ UNCHANGED <<stores, memory, mutex, resolver, calls, restarts, torn>>

AuthorisationFails(a) ==
  /\ At(a, "waiting") /\ End(a)
  /\ status' = Reported(a, "error")
  /\ UNCHANGED <<stores, session, token, generation, mutex, resolver, calls, restarts, torn>>

\* completeLogin takes loginCommitMu and returns if the login is not the latest.
EnterCommit(a) ==
  /\ At(a, "authorised") /\ mutex = None
  /\ IF generation[attempts[a].profile] = attempts[a].generation
     THEN mutex' = a /\ Go(a, "snapshot")
     ELSE mutex' = None /\ End(a)
  /\ UNCHANGED <<stores, memory, resolver, calls, restarts, torn>>

\* completeLogin reports an error and returns.
LoginFails(a) ==
  /\ End(a) /\ mutex' = None
  /\ status' = Reported(a, "error")
  /\ UNCHANGED <<session, generation>>

\* snapshotRefreshToken: a keyring that is not available has no previous token.
Snapshot(a) ==
  LET p == attempts[a].profile IN
  /\ At(a, "snapshot")
  /\ \/ /\ \E previous \in {None} \cup (IF p \in guests THEN {} ELSE {secret[p]}) :
             attempts' = [attempts EXCEPT ![a].pc = "store", ![a].previous = previous]
        /\ UNCHANGED <<memory, mutex>>
     \/ /\ p \notin guests
        /\ LoginFails(a) /\ UNCHANGED token
  /\ UNCHANGED <<stores, resolver, calls, restarts, torn>>

\* setMemoryToken on the new Session of this login.
Hold(a, inMemory) ==
  /\ token' = [token EXCEPT ![a] = a]
  /\ attempts' = [attempts EXCEPT ![a].pc = "save", ![a].memory = inMemory]
  /\ UNCHANGED <<session, generation, status, mutex>>

\* StoreRefreshToken: in the keyring, or in memory for a guest and when the
\* keyring is not available; any other failure ends the login.
StoreRefreshToken(a) ==
  LET p == attempts[a].profile IN
  /\ At(a, "store")
  /\ \/ /\ p \notin guests
        /\ secret' = [secret EXCEPT ![p] = a]
        /\ Hold(a, FALSE)
     \/ /\ Hold(a, TRUE)
        /\ UNCHANGED secret
     \/ /\ p \notin guests
        /\ LoginFails(a) /\ UNCHANGED <<secret, token>>
  /\ UNCHANGED <<profiles, guests, active, account, resolver, calls, restarts, torn>>

\* The row of profile_accounts.
Row(a) == [login |-> a, memory |-> attempts[a].memory]

\* SaveAccount; its foreign key needs the profile.
SaveAccount(a) ==
  LET p == attempts[a].profile IN
  /\ At(a, "save") /\ Live(p)
  /\ account' = [account EXCEPT ![p] = Row(a)]
  /\ torn' = IF attempts[a].memory THEN torn ELSE torn \ {p}
  /\ Go(a, "publish")
  /\ UNCHANGED <<profiles, guests, active, secret, memory, mutex, resolver, calls, restarts>>

\* The profile is gone, another profile has this identity, or the database fails.
SaveAccountFails(a) ==
  /\ At(a, "save") /\ Go(a, "rollback")
  /\ UNCHANGED <<stores, memory, mutex, resolver, calls, restarts, torn>>

\* Mutation: the token written before is left where it is.
RollbackForgotten(a) ==
  /\ At(a, "rollback")
  /\ LoginFails(a) /\ UNCHANGED token
  /\ UNCHANGED <<stores, resolver, calls, restarts, torn>>

\* rollbackRefreshToken, and the error it reports either way.
Rollback(a) ==
  LET p == attempts[a].profile IN
  /\ At(a, "rollback")
  /\ \/ attempts[a].memory /\ UNCHANGED <<secret, torn>>
     \/ ~attempts[a].memory /\ secret' = [secret EXCEPT ![p] = attempts[a].previous]
                            /\ UNCHANGED torn
     \/ ~attempts[a].memory /\ torn' = torn \cup {p} /\ UNCHANGED secret
  /\ LoginFails(a) /\ UNCHANGED token
  /\ UNCHANGED <<profiles, guests, active, account, resolver, calls, restarts>>

\* Under loginMu: the Session becomes that of the profile.
PublishSession(a) ==
  LET p == attempts[a].profile IN
  /\ At(a, "publish") /\ End(a) /\ mutex' = None
  /\ session' = [session EXCEPT ![p] = a]
  /\ status' = [status EXCEPT ![p] = "connected"]
  /\ active' = ActiveProfile
  /\ UNCHANGED <<profiles, guests, account, secret, token, generation, resolver, calls, restarts, torn>>

CompleteLogin(a) ==
  \/ EnterCommit(a) \/ Snapshot(a) \/ StoreRefreshToken(a) \/ SaveAccount(a)
  \/ SaveAccountFails(a) \/ Rollback(a) \/ PublishSession(a)

Login(a) ==
  \/ StartLogin(a) \/ OpeningFails(a) \/ BeginLoginAttempt(a)
  \/ Authorise(a) \/ AuthorisationFails(a) \/ CompleteLogin(a)

--------------------------------------------------------------------------------
(* RPCs *)

In(c, pc) == calls[c].pc = pc
To(c, pc) == calls' = [calls EXCEPT ![c].pc = pc]

\* An RPC starts, once, with the profile it is about.
Start(c, kind, p, pc) ==
  /\ In(c, "idle") /\ kind \in Kinds[c]
  /\ calls' = [calls EXCEPT ![c] = [NoCall EXCEPT !.pc = pc, !.kind = kind, !.profile = p]]

\* Mutation: loginCommitMu is not released.
ReturnLocked(c) ==
  /\ calls' = [calls EXCEPT ![c] = [NoCall EXCEPT !.pc = "over"]]
  /\ UNCHANGED mutex

\* It returns; deferred: loginCommitMu is released by those who hold it.
Return(c) ==
  /\ calls' = [calls EXCEPT ![c] = [NoCall EXCEPT !.pc = "over"]]
  /\ mutex' = IF mutex = c THEN None ELSE mutex

SetActiveProfile(c, p) ==
  /\ Start(c, "activate", p, "check")
  /\ UNCHANGED <<stores, memory, mutex, resolver, attempts, restarts, torn>>

\* CreateProfile and CreateGuestProfile insert a row and activate the profile.
CreateProfile(c, p, isGuest) ==
  /\ profiles[p] = "unborn"
  /\ profiles' = [profiles EXCEPT ![p] = "live"]
  /\ guests' = IF isGuest THEN guests \cup {p} ELSE guests
  /\ Start(c, "create", p, "check")
  /\ UNCHANGED <<active, account, secret, memory, mutex, resolver, attempts, restarts, torn>>

\* SetBrowserCookies, and SetSetting for those the resolver is built from.
SetBrowserCookies(c) ==
  /\ active' = ActiveProfile
  /\ Start(c, "cookies", active', IF active' \in guests THEN "over" ELSE "reload")
  /\ UNCHANGED <<profiles, guests, account, secret, memory, mutex, resolver, attempts, restarts, torn>>

DisconnectAccount(c) ==
  /\ active' = ActiveProfile
  /\ Start(c, "disconnect", active', "lock")
  /\ UNCHANGED <<profiles, guests, account, secret, memory, mutex, resolver, attempts, restarts, torn>>

DeleteProfile(c, p) ==
  /\ p # Default /\ Live(p)
  /\ Start(c, "delete", p, "lock")
  /\ UNCHANGED <<stores, memory, mutex, resolver, attempts, restarts, torn>>

\* newYouTubeService, for a search with the account of the active profile.
NewYouTubeService(c) ==
  /\ active' = ActiveProfile
  /\ Start(c, "search", active', IF active' \in guests THEN "over" ELSE "verify")
  /\ UNCHANGED <<profiles, guests, account, secret, memory, mutex, resolver, attempts, restarts, torn>>

--------------------------------------------------------------------------------
(* SetActiveProfile, by itself, after a creation, or at the end of a deletion *)

\* Repo.SetActiveProfile looks the profile up and then writes the setting.
Check(c) ==
  /\ In(c, "check") /\ Live(calls[c].profile) /\ To(c, "select")
  /\ UNCHANGED <<stores, memory, mutex, resolver, attempts, restarts, torn>>

Select(c) ==
  /\ In(c, "select") /\ To(c, "reload")
  /\ active' = calls[c].profile
  /\ UNCHANGED <<profiles, guests, account, secret, memory, mutex, resolver, attempts, restarts, torn>>

\* reloadPlaybackResolver reads the active profile and its settings ...
Reload(c) ==
  /\ In(c, "reload")
  /\ active' = ActiveProfile
  /\ calls' = [calls EXCEPT ![c].pc = "install", ![c].current = active']
  /\ UNCHANGED <<profiles, guests, account, secret, memory, mutex, resolver, attempts, restarts, torn>>

\* ... and replaces the resolver.
Install(c) ==
  /\ In(c, "install")
  /\ resolver' = calls[c].current
  /\ \/ calls[c].kind = "cookies" /\ Return(c)
     \/ calls[c].kind # "cookies" /\ To(c, "assess") /\ UNCHANGED mutex
  /\ UNCHANGED <<stores, memory, attempts, restarts, torn>>

\* assessAccountCredential, when the keyring answers.
Restorable(p) == account[p] # None /\ (account[p].memory \/ secret[p] # None)

\* What the account and its credential are reported as.
Assessments(p) ==
  IF account[p] = None THEN {"idle"}
  ELSE IF account[p].memory THEN {"connected"}
  ELSE {IF Restorable(p) THEN "connected" ELSE "error", "error"}

Assess(c) ==
  /\ In(c, "assess")
  /\ \E s \in Assessments(calls[c].profile) :
       calls' = [calls EXCEPT ![c].pc = "report", ![c].seen = s]
  /\ UNCHANGED <<stores, memory, mutex, resolver, attempts, restarts, torn>>

Report(c) ==
  /\ In(c, "report") /\ Return(c)
  /\ status' = [status EXCEPT ![calls[c].profile] = calls[c].seen]
  /\ UNCHANGED <<stores, session, token, generation, resolver, attempts, restarts, torn>>

\* A step fails, or the profile is gone: the RPC returns an error, and a profile
\* that could not be activated after its creation is deleted again.
ActivationFails(c) ==
  /\ \E pc \in {"check", "select", "reload", "assess"} : In(c, pc)
  /\ ActivationMayFail \/ (In(c, "check") /\ ~Live(calls[c].profile))
  /\ Return(c)
  /\ LET p == calls[c].profile IN
     \/ /\ calls[c].kind = "create" /\ Live(p)
        /\ DeleteRow(p)
        /\ torn' = IF secret[p] = None THEN torn ELSE torn \cup {p}
     \/ UNCHANGED <<profiles, active, account, torn>>
  /\ UNCHANGED <<guests, secret, memory, resolver, attempts, restarts>>

--------------------------------------------------------------------------------
(* DisconnectAccount and DeleteProfile *)

\* Mutation: logins under way are not told.
LockSilently(c) ==
  LET s == session[calls[c].profile] IN
  /\ In(c, "lock") /\ mutex = None
  /\ mutex' = c
  /\ token' = IF s = None THEN token ELSE [token EXCEPT ![s] = None]
  /\ To(c, "erase")
  /\ attempts' = Outdated(calls[c].profile)
  /\ UNCHANGED <<stores, session, generation, status, resolver, restarts, torn>>

\* loginCommitMu is taken, logins under way are made obsolete, and Session.Clear
\* forgets the token of the profile's Session, if there is one.
Lock(c) ==
  LET p == calls[c].profile
      s == session[p]
  IN /\ In(c, "lock") /\ mutex = None
     /\ mutex' = c
     /\ generation' = [generation EXCEPT ![p] = @ + 1]
     /\ token' = IF s = None THEN token ELSE [token EXCEPT ![s] = None]
     /\ To(c, "erase")
     /\ attempts' = Outdated(p)
     /\ UNCHANGED <<stores, session, status, resolver, restarts, torn>>

\* Mutation: the keyring is left alone.
EraseNothing(c) ==
  /\ In(c, "erase") /\ To(c, "unlink")
  /\ UNCHANGED <<stores, memory, mutex, resolver, attempts, restarts, torn>>

\* Session.Clear deletes the keyring entry, which a guest does not have.
Erase(c) ==
  LET p == calls[c].profile IN
  /\ In(c, "erase")
  /\ \/ /\ To(c, "unlink")
        /\ secret' = [secret EXCEPT ![p] = None]
        /\ torn' = torn \ {p}
        /\ UNCHANGED mutex
     \/ /\ p \notin guests /\ Return(c)
        /\ UNCHANGED <<secret, torn>>
  /\ UNCHANGED <<profiles, guests, active, account, memory, resolver, attempts, restarts>>

\* ClearAccount, or Repo.DeleteProfile.
Unlink(c) ==
  LET p == calls[c].profile IN
  /\ In(c, "unlink")
  /\ \/ /\ calls[c].kind = "disconnect" /\ To(c, "drop")
        /\ account' = [account EXCEPT ![p] = None]
        /\ UNCHANGED <<profiles, active, mutex>>
     \/ /\ calls[c].kind = "delete" /\ Live(p) /\ To(c, "drop")
        /\ DeleteRow(p)
        /\ UNCHANGED mutex
     \/ /\ Return(c)
        /\ UNCHANGED <<profiles, active, account>>
  /\ UNCHANGED <<guests, secret, memory, resolver, attempts, restarts, torn>>

\* The Session and the status are dropped; a deletion then activates the profile
\* that is active now, with loginCommitMu held.
Drop(c) ==
  LET p == calls[c].profile IN
  /\ In(c, "drop")
  /\ session' = [session EXCEPT ![p] = None]
  /\ status' = [status EXCEPT ![p] = "idle"]
  /\ \/ /\ calls[c].kind = "disconnect" /\ Return(c)
        /\ UNCHANGED active
     \/ /\ calls[c].kind = "delete"
        /\ active' = ActiveProfile
        /\ calls' = [calls EXCEPT ![c].pc = "check", ![c].profile = active']
        /\ UNCHANGED mutex
  /\ UNCHANGED <<profiles, guests, account, secret, token, generation, resolver, attempts, restarts, torn>>

--------------------------------------------------------------------------------
(* newYouTubeService and Session.Source *)

Verify(c) ==
  /\ In(c, "verify") /\ Restorable(calls[c].profile) /\ To(c, "session")
  /\ UNCHANGED <<stores, memory, mutex, resolver, attempts, restarts, torn>>

\* The profile's Session, or a new one, which becomes the profile's.
UseSession(c) ==
  LET p == calls[c].profile
      s == IF session[p] = None THEN c ELSE session[p]
  IN /\ In(c, "session")
     /\ session' = [session EXCEPT ![p] = s]
     /\ calls' = [calls EXCEPT ![c].pc = "source", ![c].session = s]
     /\ UNCHANGED <<stores, token, generation, status, mutex, resolver, attempts, restarts, torn>>

\* Source: a Session that has a token is used as it is ...
Source(c) ==
  /\ In(c, "source")
  /\ IF token[calls[c].session] # None THEN Return(c) ELSE To(c, "keyring") /\ UNCHANGED mutex
  /\ UNCHANGED <<stores, memory, resolver, attempts, restarts, torn>>

\* ... another reads it from the keyring ...
ReadKeyring(c) ==
  LET p == calls[c].profile IN
  /\ In(c, "keyring") /\ secret[p] # None
  /\ calls' = [calls EXCEPT ![c].pc = "restore", ![c].read = secret[p]]
  /\ UNCHANGED <<stores, memory, mutex, resolver, attempts, restarts, torn>>

\* ... and keeps it.
Restore(c) ==
  /\ In(c, "restore") /\ Return(c)
  /\ token' = [token EXCEPT ![calls[c].session] = calls[c].read]
  /\ UNCHANGED <<stores, session, generation, status, resolver, attempts, restarts, torn>>

\* No account, no credential, or a read that fails.
SearchFails(c) ==
  /\ \E pc \in {"verify", "keyring"} : In(c, pc)
  /\ Return(c)
  /\ UNCHANGED <<stores, memory, resolver, attempts, restarts, torn>>

Run(c) ==
  \/ Check(c) \/ Select(c) \/ Reload(c) \/ Install(c) \/ Assess(c) \/ Report(c)
  \/ ActivationFails(c)
  \/ Lock(c) \/ Erase(c) \/ Unlink(c) \/ Drop(c)
  \/ Verify(c) \/ UseSession(c) \/ Source(c) \/ ReadKeyring(c) \/ Restore(c) \/ SearchFails(c)

Call(c) ==
  \/ \E p \in Profiles : SetActiveProfile(c, p) \/ DeleteProfile(c, p)
  \/ \E p \in Profiles, isGuest \in BOOLEAN : CreateProfile(c, p, isGuest)
  \/ SetBrowserCookies(c) \/ DisconnectAccount(c) \/ NewYouTubeService(c)

--------------------------------------------------------------------------------
(* The end of the process, and NewAppServices *)

\* What was being committed is half written.
HalfWritten ==
  {attempts[a].profile : a \in {b \in Attempts : (At(b, "save") \/ At(b, "rollback"))
                                                 /\ ~attempts[b].memory}}

\* The process ends at any point.  The next one deletes the guests and the accounts
\* whose session was kept in memory.  (While that fails, every operation above is
\* refused, so a start that fails is no different from a later one.)
Restart ==
  LET kept(p) == p \notin guests \/ profiles[p] # "live" IN
  /\ restarts < MaxRestarts /\ restarts' = restarts + 1
  /\ profiles' = [p \in Profiles |-> IF kept(p) THEN profiles[p] ELSE "gone"]
  /\ active' = IF kept(ActiveProfile) THEN ActiveProfile ELSE Default
  /\ account' = [p \in Profiles |-> IF kept(p) /\ account[p] # None /\ ~account[p].memory
                                    THEN account[p] ELSE None]
  /\ session' = [p \in Profiles |-> None]
  /\ token' = [s \in Sessions |-> None]
  /\ generation' = [p \in Profiles |-> 0]
  /\ status' = [p \in Profiles |-> "idle"]
  /\ mutex' = None
  /\ resolver' = active'
  /\ attempts' = [a \in Attempts |-> IF At(a, "idle") THEN NoAttempt
                                     ELSE Ended(a)]
  /\ calls' = [c \in Calls |-> IF In(c, "idle") THEN NoCall ELSE [NoCall EXCEPT !.pc = "over"]]
  /\ torn' = torn \cup HalfWritten
  /\ UNCHANGED <<guests, secret>>

Next ==
  \/ \E a \in Attempts : Login(a)
  \/ \E c \in Calls : Call(c) \/ Run(c)
  \/ Restart

Spec == Init /\ [][Next]_vars

--------------------------------------------------------------------------------
(* Properties *)

\* The keyring of a connected profile holds the token of the account that its row
\* shows, or none, and both come from a login that this profile began: whichever of
\* the steps of a login fails, and whatever profile is active when they run.
SecretMatchesAccount ==
  \A p \in Profiles : account[p] # None =>
    /\ attempts[account[p].login].profile = p
    /\ (mutex = None /\ p \notin torn /\ ~account[p].memory)
         => secret[p] \in {account[p].login, None}

\* Only profiles that exist, and are no guests, leave a token in the keyring, however
\* logins, deletions and creations that fail overlap (YOUTUBE_AND_AUTH.md, section 3).
SecretsHaveOwners ==
  \A p \in Profiles : secret[p] # None =>
    p \notin guests /\ (Live(p) \/ mutex # None \/ p \in torn)

\* A login that is no longer wanted installs nothing: once a newer login, a
\* disconnection or a deletion of its profile has begun, it neither writes a token or
\* an account nor publishes a Session (YOUTUBE_AND_AUTH.md: an old conclusion must not
\* overwrite the token or the identity of a newer attempt).
ObsoleteLoginsInstallNothing ==
  \A a \in Attempts : attempts[a].obsolete =>
    attempts[a].pc \in {"waiting", "authorised", "over"}

\* Whoever holds loginCommitMu is on its way to release it: it is not left locked by
\* an error, a deletion that goes on to activate a profile, or the end of a login.
MutexIsReleased ==
  /\ mutex \in Attempts =>
       attempts[mutex].pc \in {"snapshot", "store", "save", "rollback", "publish"}
  /\ mutex \in Calls =>
       /\ calls[mutex].kind \in {"disconnect", "delete"}
       /\ calls[mutex].pc \notin {"idle", "lock", "over"}

\* Does not hold.  When no commit is under way, the Session of a profile has the
\* token of the account its row shows: a commit that failed restored what was there
\* before.
SessionMatchesAccount ==
  \A p \in Profiles :
    mutex = None /\ p \notin torn /\ account[p] # None /\ session[p] # None
      => token[session[p]] \in {account[p].login, None}

\* Does not hold.  When no RPC is under way, the resolver uses the cookies of the
\* active profile (services.go: a switch cannot retain those of the previous one).
ResolverFollowsProfile ==
  (\A c \in Calls : calls[c].pc \in {"idle", "over"}) => resolver = ActiveProfile
================================================================================
