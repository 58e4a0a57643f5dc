----------------------------- MODULE RuntimeStore -----------------------------
(* The store of extractor runtimes (internal/playback/runtime_store.go and      *)
(* runtime_manifest.go): a directory of versions, each published by the rename  *)
(* of a staging directory, and a file naming the active version and the one     *)
(* before it.  The directory belongs to the user, not to a process: every       *)
(* product of the suite, and every concurrent RPC of one of them, works on it,  *)
(* and nothing takes a lock.                                                    *)
(*                                                                              *)
(* A content stands for the bytes of a file and for their SHA-256 alike.  A     *)
(* staging directory has a random name beginning with a dot, which no reader    *)
(* looks at: the ones a crash leaves behind are not kept in the state.  The     *)
(* same holds of the temporary file the activation is renamed from.             *)
EXTENDS Naturals, FiniteSets

CONSTANTS
    Calls,      \* concurrent calls, of any process
    Versions,   \* names of versions
    Components, \* yt-dlp, the JavaScript runtime, the EJS solver, the POT plugin
    Contents,   \* contents of files
    Packages,   \* [manifest, files]: what an installation may be given
    None,       \* no file, no hash, no version
    MaxCalls,   \* bound: calls begun
    MaxDamage   \* bound: files altered behind the store's back

Manifests ==
    [version : Versions, path : SUBSET Components, sha256 : [Components -> Contents \cup {None}]]
Trees == [Components -> Contents \cup {None}]
Directories == [manifest : Manifests, files : Trees]

\* What the constants must be.
StoreAssumption ==
    /\ Packages \subseteq Directories
    /\ None \notin Versions \cup Contents \cup Directories

VARIABLES
    installed,  \* version -> its directory, or None
    active,     \* active.json
    call,       \* call -> where it is and what it has read
    damaged,    \* versions altered since they were published
    begun       \* calls begun so far

storeVars == <<installed, active, call, damaged, begun>>

Empty == [c \in Components |-> None]
Inactive == [version |-> None, previous |-> None]
Idle == [at |-> "idle"]

-------------------------------------------------------------------------------
(* What a directory holds. *)

\* An empty hash verifies any regular file.
VerifyComponent(manifest, c, content) ==
    /\ content # None
    /\ manifest.sha256[c] \in {None, content}

\* Every component the manifest gives a path is there and has its hash.
Whole(dir) ==
    \A c \in dir.manifest.path : VerifyComponent(dir.manifest, c, dir.files[c])

\* The version is a directory whose manifest and components verify.
Loadable(v) == installed[v] # None /\ Whole(installed[v])

InstalledVersions == {v \in Versions : Loadable(v)}

-------------------------------------------------------------------------------
StoreInit ==
    /\ installed = [v \in Versions |-> None]
    /\ active = Inactive
    /\ call = [c \in Calls |-> Idle]
    /\ damaged = {}
    /\ begun = 0

Goto(c, state) == call' = [call EXCEPT ![c] = state]

Begin(c, state) ==
    /\ call[c].at = "idle" /\ begun < MaxCalls
    /\ begun' = begun + 1
    /\ Goto(c, state)
    /\ UNCHANGED <<installed, active, damaged>>

\* A call returns: an error leaves nothing but its staging directory, which the
\* deferred removal takes away.  A crash ends a call the same way.
Return(c) ==
    /\ call[c].at # "idle"
    /\ Goto(c, Idle)
    /\ UNCHANGED <<installed, active, damaged, begun>>

-------------------------------------------------------------------------------
(* Install. *)

\* A version that is already there is refused before anything is copied.
InstallBegin(c) ==
    \E p \in Packages :
        /\ installed[p.manifest.version] = None
        /\ Begin(c, [at |-> "copying", package |-> p, files |-> Empty, todo |-> p.manifest.path])

\* Mutant: the copy is not compared with its hash.
AcceptedUnverified(manifest, c, content) == manifest.sha256[c] # None /\ content # None

\* A component without a hash, without a file, or whose copy does not have the
\* hash ends the installation.
Accepted(manifest, c, content) ==
    manifest.sha256[c] # None /\ VerifyComponent(manifest, c, content)

CopyComponent(c) ==
    /\ call[c].at = "copying"
    /\ \E component \in call[c].todo :
        LET package == call[c].package
            content == package.files[component] IN
        /\ Accepted(package.manifest, component, content)
        /\ Goto(c, [call[c] EXCEPT !.files[component] = content, !.todo = @ \ {component}])
    /\ UNCHANGED <<installed, active, damaged, begun>>

\* The rename fails on a directory that is not empty, and a published version
\* holds its manifest: of two installations of one version, one publishes.
Occupied(v) == installed[v] # None

Publish(c) ==
    LET manifest == call[c].package.manifest IN
    /\ call[c].at = "copying" /\ call[c].todo = {}
    /\ ~Occupied(manifest.version)
    /\ installed' = [installed EXCEPT
            ![manifest.version] = [manifest |-> manifest, files |-> call[c].files]]
    /\ Goto(c, Idle)
    /\ UNCHANGED <<active, damaged, begun>>

-------------------------------------------------------------------------------
(* Activate and Rollback. *)

\* Activate verifies the version, then reads the activation, then writes it.
ActivateBegin(c) ==
    \E v \in InstalledVersions : Begin(c, [at |-> "activating", version |-> v])

\* Mutant: the version before is set also when the version stays.
ActivatedOverItself(v, a) == [version |-> v, previous |-> a.version]

\* What an activation of v leaves in the file when it read a.
Activated(v, a) ==
    [version |-> v, previous |-> IF a.version = v THEN a.previous ELSE a.version]

ActivateRead(c) ==
    /\ call[c].at = "activating"
    /\ Goto(c, [at |-> "writing", activation |-> Activated(call[c].version, active)])
    /\ UNCHANGED <<installed, active, damaged, begun>>

\* Rollback reads the activation, then verifies the version before it.
RollbackBegin(c) == Begin(c, [at |-> "returning", read |-> active])

Reverted(a) == [version |-> a.previous, previous |-> a.version]

RollbackLoad(c) ==
    LET read == call[c].read IN
    /\ call[c].at = "returning"
    /\ read.previous # None
    /\ Loadable(read.previous)
    /\ Goto(c, [at |-> "writing", activation |-> Reverted(read)])
    /\ UNCHANGED <<installed, active, damaged, begun>>

\* One rename replaces the file.
WriteActivation(c) ==
    /\ call[c].at = "writing"
    /\ active' = call[c].activation
    /\ Goto(c, Idle)
    /\ UNCHANGED <<installed, damaged, begun>>

-------------------------------------------------------------------------------
(* ComponentPath: the binary an extraction is about to run. *)

ResolveBegin(c) ==
    /\ active.version # None
    /\ Begin(c, [at |-> "resolving", version |-> active.version])

\* The version verifies again at every use; an error makes the extraction run
\* the binary of the system.
ResolveLoad(c) ==
    LET v == call[c].version IN
    /\ call[c].at = "resolving"
    /\ Loadable(v)
    /\ \E component \in installed[v].manifest.path :
        Goto(c, [at |-> "running", manifest |-> installed[v].manifest,
                 component |-> component, content |-> installed[v].files[component]])
    /\ UNCHANGED <<installed, active, damaged, begun>>

-------------------------------------------------------------------------------
\* Someone alters or removes a component of a published version.
Damage ==
    \E v \in Versions, c \in Components, content \in Contents \cup {None} :
        /\ installed[v] # None /\ installed[v].files[c] # content
        /\ Cardinality(damaged) < MaxDamage
        /\ damaged' = damaged \cup {v}
        /\ installed' = [installed EXCEPT ![v].files[c] = content]
        /\ UNCHANGED <<active, call, begun>>

StoreNext ==
    \/ \E c \in Calls :
        \/ InstallBegin(c)
        \/ CopyComponent(c)
        \/ Publish(c)
        \/ ActivateBegin(c)
        \/ ActivateRead(c)
        \/ RollbackBegin(c)
        \/ RollbackLoad(c)
        \/ WriteActivation(c)
        \/ ResolveBegin(c)
        \/ ResolveLoad(c)
        \/ Return(c)
    \/ Damage

StoreSpec == StoreInit /\ [][StoreNext]_storeVars

-------------------------------------------------------------------------------
States ==
    {Idle}
    \cup [at : {"copying"}, package : Packages, files : Trees, todo : SUBSET Components]
    \cup [at : {"activating"}, version : Versions]
    \cup [at : {"resolving"}, version : Versions]
    \cup [at : {"running"}, manifest : Manifests, component : Components,
          content : Contents \cup {None}]
    \cup [at : {"returning"}, read : [version : Versions \cup {None}, previous : Versions \cup {None}]]
    \cup [at : {"writing"}, activation : [version : Versions, previous : Versions \cup {None}]]

\* Every variable stays within its type.
StoreTypeOK ==
    /\ installed \in [Versions -> Directories \cup {None}]
    /\ active \in [version : Versions \cup {None}, previous : Versions \cup {None}]
    /\ call \in [Calls -> States]
    /\ damaged \subseteq Versions
    /\ begun \in Nat

\* A version is published whole or not at all: unless someone altered its
\* files, every component its manifest declares is there, has a hash and has
\* the content the hash names, whatever failed or crashed while it was
\* installed (runtime_store.go Install, "uma falha não deixa uma versão
\* parcialmente visível").
VersionsAreWhole ==
    \A v \in Versions : installed[v] # None =>
        /\ installed[v].manifest.version = v
        /\ v \notin damaged =>
            \A c \in installed[v].manifest.path :
                /\ installed[v].manifest.sha256[c] # None
                /\ installed[v].files[c] = installed[v].manifest.sha256[c]

\* The active version, and the one a rollback would return to, are published
\* versions and differ, whatever activations, rollbacks and crashes overlapped
\* (runtime_store.go Activate and Rollback).
ActivationIsUsable ==
    /\ active.version = None => active.previous = None
    /\ active.version # None =>
        /\ installed[active.version] # None
        /\ active.previous # None => installed[active.previous] # None
        /\ active.previous # active.version

\* What an extraction runs from the store is a component the manifest declares,
\* with the content its hash names, even after someone altered the files
\* (runtime_store.go ComponentPath, TestRuntimeManagerRejectsTamperedActiveComponent).
OnlyVerifiedComponentsRun ==
    \A c \in Calls : call[c].at = "running" =>
        LET run == call[c] IN
        /\ run.component \in run.manifest.path
        /\ run.content = run.manifest.sha256[run.component]

\* A published version is never replaced by a later installation: only someone
\* altering its files changes it (runtime_store.go Install, Stat then Rename).
VersionsAreImmutable ==
    [][\A v \in Versions :
        installed[v] # None =>
            \/ installed'[v] = installed[v]
            \/ /\ v \in damaged'
               /\ installed'[v] # None
               /\ installed'[v].manifest = installed[v].manifest
       ]_storeVars
===============================================================================
