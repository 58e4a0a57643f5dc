-------------------------- MODULE ServiceProofs --------------------------
(* The components of the application services that work behind the player: the  *)
(* starts of a product, the store of runtimes, the refreshes of the feed and    *)
(* the playlists.  They share nothing, so each theorem is about the             *)
(* specification of one of them, for all values of its constants that its own   *)
(* assumption admits.                                                           *)
EXTENDS Launcher, RuntimeStore, FeedSync, Playlists, FiniteSetTheorems, SequenceTheorems,
        TLAPS, WellFoundedInduction

------------------------------------------------------------
(* What the starts of a product guarantee, however many overlap and crash.      *)
(* Nothing keeps two starts apart but the file: a clone begins only while there *)
(* is none, and until it ends nobody can open what it has created.  So no start *)
(* that has opened the database sees a clone replace it.                        *)

At(s, stages) == start[s].at \in stages

\* The starts that have opened the database.
Opened == {"pruning", "copying", "serving"}

\* The states of the starts, as far as the argument needs them.
Placed ==
    /\ start = [s \in Starts |-> start[s]]
    /\ \A s \in Starts : "at" \in DOMAIN start[s]
    /\ \A s \in Starts : At(s, {"chosen", "cloning"}) => start[s].source \in Legacy
    /\ database = Absent \/ database \in [Kinds -> Origins]
    /\ product \in Products /\ legacy \subseteq Legacy

\* There is a file from the moment a clone begins, and nobody opens it before
\* the clone ends.
CloneIsAlone ==
    /\ \A s \in Starts : At(s, Opened \cup {"cloning"}) => database # Absent
    /\ \A s, t \in Starts : At(s, {"cloning"}) => ~At(t, Opened)

\* What a start prunes stays pruned.
PrunedStays ==
    \A s \in Starts : At(s, {"copying", "serving"}) =>
        \A k \in Foreign[product] : database[k] = Absent

\* What was saved is there, and no clone is about to replace it.
SavedStands ==
    /\ saved \subseteq Kinds \ Foreign[product]
    /\ \A k \in saved : database # Absent /\ database[k] = Own
    /\ \A s \in Starts : At(s, {"cloning"}) => saved = {}

StartInv == Placed /\ CloneIsAlone /\ PrunedStays /\ SavedStands

\* A start moves, and the others stay.
LEMMA GotoMoves ==
    ASSUME Placed, NEW s \in Starts, NEW state, "at" \in DOMAIN state, Proceed(s, state)
    PROVE  /\ start' = [t \in Starts |-> start'[t]]
           /\ \A t \in Starts : "at" \in DOMAIN start'[t]
           /\ start'[s] = state
           /\ \A t \in Starts : t # s => start'[t] = start[t]
BY DEF Placed, Proceed

LEMMA ProductSets ==
    ASSUME product \in Products
    PROVE  Foreign[product] \subseteq Kinds
BY DEF Products, Foreign, Kinds

\* A step that keeps the database, and leaves its start where it was or outside
\* of the clone.
LEMMA KeepsDatabase ==
    ASSUME LaunchAssumption, StartInv, NEW s \in Starts, NEW state, "at" \in DOMAIN state, Proceed(s, state),
           UNCHANGED <<fixed, database, saved>>,
           state.at # "cloning", state.at = "chosen" => state.source \in Legacy,
           state.at \in Opened => start[s].at \in Opened,
           state.at \in {"copying", "serving"} => start[s].at \in {"copying", "serving"}
    PROVE  StartInv'
<1>1. /\ start' = [t \in Starts |-> start'[t]]
      /\ \A t \in Starts : "at" \in DOMAIN start'[t]
      /\ start'[s] = state
      /\ \A t \in Starts : t # s => start'[t] = start[t]
    BY GotoMoves DEF StartInv
<1>2. Placed'
    BY <1>1 DEF StartInv, Placed, At, fixed
<1>3. CloneIsAlone'
    BY <1>1 DEF StartInv, CloneIsAlone, At, Opened
<1>4. PrunedStays'
    BY <1>1 DEF StartInv, PrunedStays, At, fixed
<1>5. SavedStands'
    BY <1>1 DEF StartInv, SavedStands, At, fixed
<1>. QED  BY <1>2, <1>3, <1>4, <1>5 DEF StartInv

\* The database that is chosen is one of the legacy.
LEMMA BestIsLegacy ==
    ASSUME Placed, Candidates # {}
    PROVE  Best \in Legacy
<1>1. DOMAIN CandidateLegacyPaths[product] \subseteq {1, 2}
    BY DEF Placed, Products, CandidateLegacyPaths
<1>2. Candidates \subseteq {1, 2}
    BY <1>1 DEF Candidates
<1>3. \E i \in Candidates : \A j \in Candidates : i <= j
    <2>1. CASE 1 \in Candidates
        <3>1. \A j \in Candidates : 1 <= j
            BY <1>2
        <3>. QED  BY <2>1, <3>1
    <2>2. CASE 1 \notin Candidates
        <3>1. Candidates = {2}
            BY <1>2, <2>2
        <3>. QED  BY <3>1
    <2>. QED  BY <2>1, <2>2
<1>. DEFINE least == CHOOSE i \in Candidates : \A j \in Candidates : i <= j
<1>4. least \in Candidates
    BY <1>3
<1>5. CandidateLegacyPaths[product][least] \in legacy
    BY <1>4 DEF Candidates
<1>. QED  BY <1>5 DEF Best, Placed

LEMMA RunStep ==
    ASSUME LaunchAssumption, StartInv, NEW s \in Starts,
           \/ Run(s) \/ PrepareProductDatabase(s) \/ CopySecrets(s) \/ Serve(s) \/ Stop(s)
    PROVE  StartInv'
<1>1. CASE Run(s)
    BY <1>1, KeepsDatabase DEF Run, Opened
<1>2. CASE PrepareProductDatabase(s)
    <2>1. PICK state : /\ "at" \in DOMAIN state /\ state.at \in {"chosen", "opening"}
                       /\ state.at = "chosen" => state.source \in Legacy
                       /\ Proceed(s, state)
        <3>1. CASE database = Absent /\ Candidates # {}
            BY <1>2, <3>1, BestIsLegacy DEF PrepareProductDatabase, StartInv
        <3>2. CASE ~(database = Absent /\ Candidates # {})
            BY <1>2, <3>2 DEF PrepareProductDatabase
        <3>. QED  BY <3>1, <3>2
    <2>. QED  BY <1>2, <2>1, KeepsDatabase DEF PrepareProductDatabase, Opened
<1>3. CASE CopySecrets(s)
    <2>. DEFINE state == [start[s] EXCEPT !.keyrings = Tail(@)]
    <2>1. "at" \in DOMAIN state /\ state.at = "copying"
        BY <1>3 DEF CopySecrets, StartInv, Placed
    <2>2. Proceed(s, state) /\ UNCHANGED <<fixed, database, saved>> /\ start[s].at = "copying"
        BY <1>3 DEF CopySecrets
    <2>. HIDE DEF state
    <2>. QED  BY <2>1, <2>2, KeepsDatabase DEF Opened
<1>4. CASE Serve(s)
    BY <1>4, KeepsDatabase DEF Serve, Opened
<1>5. CASE Stop(s)
    BY <1>5, KeepsDatabase DEF Stop, Opened, Down
<1>. QED  BY <1>1, <1>2, <1>3, <1>4, <1>5

\* What the steps of the database share: where the other starts are.
LEMMA CloneBeginStep ==
    ASSUME LaunchAssumption, StartInv, NEW s \in Starts, CloneBegin(s)
    PROVE  StartInv'
<1>. DEFINE state == [start[s] EXCEPT !.at = "cloning"]
<1>1. /\ database = Absent /\ database' = EmptyDatabase
      /\ UNCHANGED <<fixed, saved>>
      /\ Proceed(s, state)
    BY DEF CloneBegin
<1>2. /\ "at" \in DOMAIN state /\ state.at = "cloning"
      /\ state.source = start[s].source /\ start[s].source \in Legacy
    BY DEF StartInv, Placed, CloneBegin, At
<1>. HIDE DEF state
<1>3. /\ start' = [t \in Starts |-> start'[t]]
      /\ \A t \in Starts : "at" \in DOMAIN start'[t]
      /\ start'[s].at = "cloning" /\ start'[s].source \in Legacy
      /\ \A t \in Starts : t # s => start'[t] = start[t]
    BY <1>1, <1>2, GotoMoves DEF StartInv
<1>4. EmptyDatabase \in [Kinds -> Origins] /\ EmptyDatabase # Absent
    BY DEF EmptyDatabase, Origins, LaunchAssumption
<1>5. \A t \in Starts : ~At(t, Opened \cup {"cloning"})
    BY <1>1 DEF StartInv, CloneIsAlone
<1>6. \A t \in Starts : ~(start'[t].at \in Opened)
    BY <1>3, <1>5 DEF At, Opened
<1>7. Placed'
    BY <1>1, <1>3, <1>4 DEF StartInv, Placed, At, fixed
<1>8. CloneIsAlone'
    BY <1>1, <1>4, <1>6 DEF CloneIsAlone, At
<1>9. PrunedStays'
    BY <1>6 DEF PrunedStays, At, Opened
<1>10. SavedStands'
    BY <1>1, <1>4 DEF StartInv, SavedStands, fixed
<1>. QED  BY <1>7, <1>8, <1>9, <1>10 DEF StartInv

LEMMA CloneEndStep ==
    ASSUME LaunchAssumption, StartInv, NEW s \in Starts, CloneEnd(s)
    PROVE  StartInv'
<1>1. /\ database' = [k \in Kinds |->
                IF k \in LegacyKinds[start[s].source] THEN start[s].source ELSE Absent]
      /\ UNCHANGED <<fixed, saved>>
      /\ Proceed(s, [at |-> "opening", cloned |-> TRUE])
      /\ start[s].at = "cloning"
    BY DEF CloneEnd
<1>2. /\ start' = [t \in Starts |-> start'[t]]
      /\ \A t \in Starts : "at" \in DOMAIN start'[t]
      /\ start'[s].at = "opening"
      /\ \A t \in Starts : t # s => start'[t] = start[t]
    BY <1>1, GotoMoves DEF StartInv
<1>3. start[s].source \in Legacy
    BY <1>1 DEF StartInv, Placed, At
<1>4. database' \in [Kinds -> Origins]
    BY <1>1, <1>3 DEF Origins
<1>5. \A t \in Starts : start'[t].at \notin Opened
    BY <1>1, <1>2 DEF StartInv, CloneIsAlone, At, Opened
<1>6. saved = {}
    BY <1>1 DEF StartInv, SavedStands, At
<1>7. Placed'
    BY <1>1, <1>2, <1>4 DEF StartInv, Placed, At, fixed
<1>8. CloneIsAlone'
    BY <1>4, <1>5 DEF CloneIsAlone, At, LaunchAssumption
<1>9. PrunedStays'
    BY <1>5 DEF PrunedStays, At, Opened
<1>10. SavedStands'
    BY <1>1, <1>6 DEF SavedStands
<1>. QED  BY <1>7, <1>8, <1>9, <1>10 DEF StartInv

LEMMA OpenStep ==
    ASSUME LaunchAssumption, StartInv, NEW s \in Starts, OpenAndMigrate(s)
    PROVE  StartInv'
<1>. DEFINE state == [start[s] EXCEPT !.at = "pruning"]
<1>1. /\ start[s].at = "opening" /\ ~Cloning
      /\ database' = IF database = Absent THEN EmptyDatabase ELSE database
      /\ UNCHANGED <<fixed, saved>>
      /\ Proceed(s, state)
    BY DEF OpenAndMigrate
<1>2. "at" \in DOMAIN state /\ state.at = "pruning"
    BY DEF StartInv, Placed
<1>. HIDE DEF state
<1>3. /\ start' = [t \in Starts |-> start'[t]]
      /\ \A t \in Starts : "at" \in DOMAIN start'[t]
      /\ start'[s].at = "pruning"
      /\ \A t \in Starts : t # s => start'[t] = start[t]
    BY <1>1, <1>2, GotoMoves DEF StartInv
<1>4. database' \in [Kinds -> Origins] /\ database' # Absent
    BY <1>1 DEF StartInv, Placed, EmptyDatabase, Origins, LaunchAssumption
<1>5. \A t \in Starts : start'[t].at # "cloning"
    BY <1>1, <1>3 DEF Cloning
<1>6. Placed'
    BY <1>1, <1>3, <1>4 DEF StartInv, Placed, At, fixed
<1>7. CloneIsAlone'
    BY <1>4, <1>5 DEF CloneIsAlone, At
<1>8. PrunedStays'
    <2>1. SUFFICES ASSUME NEW t \in Starts, t # s, start[t].at \in {"copying", "serving"}
                   PROVE  \A k \in Foreign[product] : database'[k] = Absent
        BY <1>1, <1>3 DEF PrunedStays, At, fixed
    <2>2. database # Absent
        BY <2>1 DEF StartInv, CloneIsAlone, At, Opened
    <2>. QED  BY <1>1, <2>1, <2>2 DEF StartInv, PrunedStays, At
<1>9. SavedStands'
    BY <1>1, <1>4, <1>5 DEF StartInv, SavedStands, At, fixed
<1>. QED  BY <1>6, <1>7, <1>8, <1>9 DEF StartInv

LEMMA PruneStep ==
    ASSUME LaunchAssumption, StartInv, NEW s \in Starts, PruneLegacyData(s)
    PROVE  StartInv'
<1>. DEFINE state == IF start[s].cloned THEN [at |-> "copying", keyrings |-> LegacyKeyrings]
                                         ELSE [at |-> "serving"]
<1>1. /\ start[s].at = "pruning"
      /\ database' = [k \in Kinds |-> IF k \in Foreign[product] THEN Absent ELSE database[k]]
      /\ UNCHANGED <<fixed, saved>>
      /\ Proceed(s, state)
    BY DEF PruneLegacyData, Pruned
<1>2. "at" \in DOMAIN state /\ state.at \in {"copying", "serving"}
    OBVIOUS
<1>. HIDE DEF state
<1>3. /\ start' = [t \in Starts |-> start'[t]]
      /\ \A t \in Starts : "at" \in DOMAIN start'[t]
      /\ start'[s].at \in {"copying", "serving"}
      /\ \A t \in Starts : t # s => start'[t] = start[t]
    BY <1>1, <1>2, GotoMoves DEF StartInv
<1>4. database # Absent /\ database \in [Kinds -> Origins] /\ Foreign[product] \subseteq Kinds
    BY <1>1, ProductSets DEF StartInv, CloneIsAlone, Placed, At, Opened
<1>5. database' \in [Kinds -> Origins] /\ database' # Absent
    BY <1>1, <1>4 DEF Origins, LaunchAssumption
<1>6. \A t \in Starts : start'[t].at # "cloning"
    BY <1>1, <1>3 DEF StartInv, CloneIsAlone, At, Opened
<1>7. Placed'
    BY <1>1, <1>3, <1>5 DEF StartInv, Placed, At, fixed
<1>8. CloneIsAlone'
    BY <1>5, <1>6 DEF CloneIsAlone, At
<1>9. PrunedStays'
    BY <1>1, <1>4 DEF PrunedStays, fixed
<1>10. SavedStands'
    BY <1>1, <1>5, <1>6 DEF StartInv, SavedStands, At, fixed
<1>. QED  BY <1>7, <1>8, <1>9, <1>10 DEF StartInv

LEMMA SaveStep ==
    ASSUME LaunchAssumption, StartInv, NEW s \in Starts, Save(s)
    PROVE  StartInv'
<1>1. PICK k \in Kinds \ Foreign[product] :
        database' = [database EXCEPT ![k] = Own] /\ saved' = saved \cup {k}
    BY DEF Save
<1>2. start[s].at = "serving" /\ UNCHANGED <<fixed, start>>
    BY DEF Save
<1>3. database # Absent /\ database \in [Kinds -> Origins]
    BY <1>2 DEF StartInv, CloneIsAlone, Placed, At, Opened
<1>4. database' \in [Kinds -> Origins] /\ database' # Absent
    BY <1>1, <1>3 DEF Origins, LaunchAssumption
<1>5. Placed'
    BY <1>2, <1>4 DEF StartInv, Placed, At, fixed
<1>6. CloneIsAlone'
    BY <1>2, <1>4 DEF StartInv, CloneIsAlone, At
<1>7. PrunedStays'
    BY <1>1, <1>2, <1>3, ProductSets DEF StartInv, Placed, PrunedStays, At, fixed
<1>8. SavedStands'
    <2>1. \A j \in saved' : database'[j] = Own
        BY <1>1, <1>3 DEF StartInv, SavedStands
    <2>2. saved' \subseteq Kinds \ Foreign[product]
        BY <1>1 DEF StartInv, SavedStands
    <2>3. \A t \in Starts : start[t].at # "cloning"
        BY <1>2 DEF StartInv, CloneIsAlone, At, Opened
    <2>. QED  BY <1>2, <1>4, <2>3, <2>2, <2>1 DEF SavedStands, At, fixed
<1>. QED  BY <1>5, <1>6, <1>7, <1>8 DEF StartInv

LEMMA StartStep ==
    ASSUME LaunchAssumption, StartInv, [LaunchNext]_launchVars
    PROVE  StartInv'
<1>1. CASE UNCHANGED launchVars
    BY <1>1 DEF launchVars, fixed, StartInv, Placed, CloneIsAlone, PrunedStays, SavedStands, At
<1>. QED  BY <1>1, RunStep, CloneBeginStep, CloneEndStep, OpenStep, PruneStep, SaveStep DEF LaunchNext

LEMMA InitStart ==
    ASSUME LaunchAssumption, LaunchInit
    PROVE  StartInv
<1>1. \A s \in Starts : start[s] = Down
    BY DEF LaunchInit
<1>2. Down.at = "down" /\ "at" \in DOMAIN Down
    BY DEF Down
<1>3. Placed
    BY <1>1, <1>2 DEF LaunchInit, Placed, At
<1>4. CloneIsAlone /\ PrunedStays
    BY <1>1, <1>2 DEF CloneIsAlone, PrunedStays, At, Opened
<1>5. SavedStands
    BY <1>1, <1>2 DEF LaunchInit, SavedStands, At
<1>. QED  BY <1>3, <1>4, <1>5 DEF StartInv

\* No product serves data of another one, however many starts overlap and crash.
THEOREM ServesItsOwn ==
    ASSUME LaunchAssumption
    PROVE  LaunchSpec => []ServedIsPruned
<1>1. StartInv => ServedIsPruned
    BY DEF StartInv, PrunedStays, ServedIsPruned, At
<1>. QED  BY <1>1, InitStart, StartStep, PTL DEF LaunchSpec

\* No start clones over what the user saved, nor prunes it.
THEOREM SavedOutlives ==
    ASSUME LaunchAssumption
    PROVE  LaunchSpec => []SavedDataStands
<1>1. StartInv => SavedDataStands
    BY DEF StartInv, SavedStands, SavedDataStands
<1>. QED  BY <1>1, InitStart, StartStep, PTL DEF LaunchSpec

------------------------------------------------------------
(* What the store of runtimes guarantees for any number of calls, versions and  *)
(* components, any packages and any damage.  Nothing takes a lock: the argument *)
(* is that a published version is never taken away (Published), so that what a  *)
(* call verified before it writes the activation is still published when it     *)
(* writes it.                                                                   *)

------------------------------------------------------------
(* Types *)

LEMMA GotoType ==
    ASSUME StoreTypeOK, NEW c \in Calls, NEW state \in States, Goto(c, state)
    PROVE  call' \in [Calls -> States]
BY DEF StoreTypeOK, Goto

LEMMA BeginType ==
    ASSUME StoreTypeOK, NEW c \in Calls, NEW state \in States, Begin(c, state)
    PROVE  StoreTypeOK'
<1>1. call' \in [Calls -> States]
    BY GotoType DEF Begin
<1>. QED  BY <1>1 DEF StoreTypeOK, Begin

LEMMA StoreInitType == StoreInit => StoreTypeOK
BY DEF StoreInit, StoreTypeOK, Idle, Inactive, States

\* What a version that can be loaded holds.
LEMMA LoadedType ==
    ASSUME StoreAssumption, StoreTypeOK, NEW v \in Versions \cup {None}, v # None, Loadable(v)
    PROVE  v \in Versions /\ installed[v] \in Directories
BY DEF StoreAssumption, StoreTypeOK, Loadable

LEMMA CopyType ==
    ASSUME StoreAssumption, StoreTypeOK, NEW c \in Calls, CopyComponent(c)
    PROVE  StoreTypeOK'
<1>1. PICK component \in call[c].todo :
        Goto(c, [call[c] EXCEPT !.files[component] = call[c].package.files[component],
                                !.todo = @ \ {component}])
    BY DEF CopyComponent
<1>2. call[c] \in [at : {"copying"}, package : Packages, files : Trees, todo : SUBSET Components]
    BY DEF StoreTypeOK, CopyComponent, States, Idle
<1>3. component \in Components /\ call[c].package \in Directories
    BY <1>1, <1>2 DEF StoreAssumption
<1>4. call[c].package.files[component] \in Contents \cup {None}
    BY <1>3 DEF Directories, Trees
<1>5. [call[c].files EXCEPT ![component] = call[c].package.files[component]] \in Trees
    BY <1>2, <1>3, <1>4 DEF Trees
<1>6. [call[c] EXCEPT !.files[component] = call[c].package.files[component],
                      !.todo = @ \ {component}] \in States
    BY <1>2, <1>5 DEF States
<1>7. call' \in [Calls -> States]
    BY <1>1, <1>6, GotoType
<1>. QED  BY <1>7 DEF StoreTypeOK, CopyComponent

LEMMA PublishType ==
    ASSUME StoreAssumption, StoreTypeOK, NEW c \in Calls, Publish(c)
    PROVE  StoreTypeOK'
<1>1. call[c] \in [at : {"copying"}, package : Packages, files : Trees, todo : SUBSET Components]
    BY DEF StoreTypeOK, Publish, States, Idle
<1>2. call[c].package \in Directories
    BY <1>1 DEF StoreAssumption
<1>3. /\ call[c].package.manifest \in Manifests
      /\ call[c].package.manifest.version \in Versions
    BY <1>2 DEF Directories, Manifests
<1>4. [manifest |-> call[c].package.manifest, files |-> call[c].files] \in Directories
    BY <1>1, <1>3 DEF Directories
<1>5. call' \in [Calls -> States]
    BY GotoType DEF Publish, States
<1>. QED  BY <1>3, <1>4, <1>5 DEF StoreTypeOK, Publish

LEMMA DamageType ==
    ASSUME StoreAssumption, StoreTypeOK, Damage
    PROVE  StoreTypeOK'
<1>1. PICK v \in Versions, c \in Components, content \in Contents \cup {None} :
        /\ installed[v] # None
        /\ damaged' = damaged \cup {v}
        /\ installed' = [installed EXCEPT ![v].files[c] = content]
        /\ UNCHANGED <<active, call, begun>>
    BY DEF Damage
<1>2. installed[v] \in Directories
    BY <1>1 DEF StoreTypeOK
<1>3. [installed[v] EXCEPT !.files[c] = content] \in Directories
    BY <1>2 DEF Directories, Trees
<1>. QED  BY <1>1, <1>3 DEF StoreTypeOK

LEMMA InstallBeginType ==
    ASSUME StoreAssumption, StoreTypeOK, NEW c \in Calls, InstallBegin(c)
    PROVE  StoreTypeOK'
<1>1. PICK p \in Packages :
        Begin(c, [at |-> "copying", package |-> p, files |-> Empty, todo |-> p.manifest.path])
    BY DEF InstallBegin
<1>2. p \in Directories
    BY DEF StoreAssumption
<1>3. p.manifest.path \in SUBSET Components
    BY <1>2 DEF Directories, Manifests
<1>4. Empty \in Trees
    BY DEF Empty, Trees
<1>5. [at |-> "copying", package |-> p, files |-> Empty, todo |-> p.manifest.path] \in States
    BY <1>3, <1>4 DEF States
<1>. QED  BY <1>1, <1>5, BeginType

LEMMA ActivationType ==
    ASSUME StoreAssumption, StoreTypeOK, NEW c \in Calls,
           ActivateBegin(c) \/ ActivateRead(c) \/ WriteActivation(c)
    PROVE  StoreTypeOK'
<1>1. CASE ActivateBegin(c)
    <2>1. PICK v \in Versions : Begin(c, [at |-> "activating", version |-> v])
        BY <1>1 DEF ActivateBegin, InstalledVersions
    <2>2. [at |-> "activating", version |-> v] \in States
        BY DEF States
    <2>. QED  BY <2>1, <2>2, BeginType
<1>2. CASE ActivateRead(c)
    <2>1. call[c] \in [at : {"activating"}, version : Versions]
        BY <1>2 DEF StoreTypeOK, ActivateRead, States, Idle
    <2>2. Activated(call[c].version, active) \in [version : Versions, previous : Versions \cup {None}]
        BY <2>1 DEF StoreTypeOK, Activated
    <2>3. [at |-> "writing", activation |-> Activated(call[c].version, active)] \in States
        BY <2>2 DEF States
    <2>4. call' \in [Calls -> States]
        BY <1>2, <2>3, GotoType DEF ActivateRead
    <2>. QED  BY <1>2, <2>4 DEF StoreTypeOK, ActivateRead
<1>3. CASE WriteActivation(c)
    <2>1. call[c] \in [at : {"writing"},
                       activation : [version : Versions, previous : Versions \cup {None}]]
        BY <1>3 DEF StoreTypeOK, WriteActivation, States, Idle
    <2>2. call' \in [Calls -> States]
        BY <1>3, GotoType DEF WriteActivation, States
    <2>. QED  BY <1>3, <2>1, <2>2 DEF StoreTypeOK, WriteActivation
<1>. QED  BY <1>1, <1>2, <1>3

LEMMA RollbackType ==
    ASSUME StoreAssumption, StoreTypeOK, NEW c \in Calls, RollbackBegin(c) \/ RollbackLoad(c)
    PROVE  StoreTypeOK'
<1>1. CASE RollbackBegin(c)
    <2>1. [at |-> "returning", read |-> active] \in States
        BY DEF StoreTypeOK, States
    <2>. QED  BY <1>1, <2>1, BeginType DEF RollbackBegin
<1>2. CASE RollbackLoad(c)
    <2>1. call[c] \in [at : {"returning"},
                       read : [version : Versions \cup {None}, previous : Versions \cup {None}]]
        BY <1>2 DEF StoreTypeOK, RollbackLoad, States, Idle
    <2>2. Reverted(call[c].read) \in [version : Versions, previous : Versions \cup {None}]
        BY <1>2, <2>1 DEF RollbackLoad, Reverted
    <2>3. [at |-> "writing", activation |-> Reverted(call[c].read)] \in States
        BY <2>2 DEF States
    <2>4. call' \in [Calls -> States]
        BY <1>2, <2>3, GotoType DEF RollbackLoad
    <2>. QED  BY <1>2, <2>4 DEF StoreTypeOK, RollbackLoad
<1>. QED  BY <1>1, <1>2

LEMMA ResolveType ==
    ASSUME StoreAssumption, StoreTypeOK, NEW c \in Calls, ResolveBegin(c) \/ ResolveLoad(c)
    PROVE  StoreTypeOK'
<1>1. CASE ResolveBegin(c)
    <2>1. [at |-> "resolving", version |-> active.version] \in States
        BY <1>1 DEF StoreTypeOK, ResolveBegin, States
    <2>. QED  BY <1>1, <2>1, BeginType DEF ResolveBegin
<1>2. CASE ResolveLoad(c)
    <2>1. call[c].version \in Versions
        BY <1>2 DEF StoreTypeOK, ResolveLoad, States, Idle
    <2>2. installed[call[c].version] \in Directories
        BY <1>2, <2>1, LoadedType DEF StoreAssumption, ResolveLoad
    <2>3. PICK component \in installed[call[c].version].manifest.path :
            Goto(c, [at |-> "running", manifest |-> installed[call[c].version].manifest,
                     component |-> component,
                     content |-> installed[call[c].version].files[component]])
        BY <1>2 DEF ResolveLoad
    <2>4. /\ installed[call[c].version].manifest \in Manifests
          /\ component \in Components
          /\ installed[call[c].version].files[component] \in Contents \cup {None}
        BY <2>2 DEF Directories, Manifests, Trees
    <2>5. [at |-> "running", manifest |-> installed[call[c].version].manifest,
           component |-> component, content |-> installed[call[c].version].files[component]] \in States
        BY <2>4 DEF States
    <2>6. call' \in [Calls -> States]
        BY <2>3, <2>5, GotoType
    <2>. QED  BY <1>2, <2>6 DEF StoreTypeOK, ResolveLoad
<1>. QED  BY <1>1, <1>2

LEMMA StepType ==
    ASSUME StoreAssumption, StoreTypeOK, [StoreNext]_storeVars
    PROVE  StoreTypeOK'
<1>1. ASSUME NEW c \in Calls, Return(c) PROVE StoreTypeOK'
    <2>1. call' \in [Calls -> States]
        BY <1>1, GotoType DEF Return, States
    <2>. QED  BY <1>1, <2>1 DEF StoreTypeOK, Return
<1>2. CASE UNCHANGED storeVars
    BY <1>2 DEF storeVars, StoreTypeOK
<1>. QED  BY <1>1, <1>2, CopyType, PublishType, DamageType, InstallBeginType, ActivationType,
             RollbackType, ResolveType DEF StoreNext

\* The variables of the store keep their types.
THEOREM StoreTyped ==
    ASSUME StoreAssumption
    PROVE  StoreSpec => []StoreTypeOK
BY StoreInitType, StepType, PTL DEF StoreSpec

------------------------------------------------------------
(* What is published stays published *)

\* No step takes a published version away or changes its manifest, and only the
\* steps of an installation and of who alters the files touch a version at all.
LEMMA Kept ==
    ASSUME StoreAssumption, StoreTypeOK, [StoreNext]_storeVars, NEW v \in Versions, installed[v] # None
    PROVE  /\ installed'[v] # None
           /\ installed'[v].manifest = installed[v].manifest
           /\ installed'[v] = installed[v] \/ v \in damaged'
<1>1. ASSUME NEW c \in Calls, Publish(c)
      PROVE  installed'[v] = installed[v]
    BY <1>1 DEF Publish, Occupied, StoreTypeOK
<1>2. ASSUME Damage
      PROVE  /\ installed'[v] # None
             /\ installed'[v].manifest = installed[v].manifest
             /\ installed'[v] = installed[v] \/ v \in damaged'
    <2>1. PICK w \in Versions, c \in Components, content \in Contents \cup {None} :
            /\ damaged' = damaged \cup {w}
            /\ installed' = [installed EXCEPT ![w].files[c] = content]
        BY <1>2 DEF Damage
    <2>2. CASE v # w
        BY <2>1, <2>2 DEF StoreTypeOK
    <2>3. CASE v = w
        <3>1. installed[v] \in Directories
            BY DEF StoreTypeOK
        <3>2. installed'[v] = [installed[v] EXCEPT !.files[c] = content]
            BY <2>1, <2>3 DEF StoreTypeOK
        <3>3. installed'[v] \in Directories
            BY <3>1, <3>2 DEF Directories, Trees
        <3>4. installed'[v].manifest = installed[v].manifest
            BY <3>1, <3>2 DEF Directories
        <3>. QED  BY <2>1, <2>3, <3>3, <3>4 DEF StoreAssumption
    <2>. QED  BY <2>2, <2>3
<1>3. CASE UNCHANGED installed
    BY <1>3
<1>4. ASSUME NEW c \in Calls,
             \/ InstallBegin(c) \/ CopyComponent(c) \/ ActivateBegin(c) \/ ActivateRead(c)
             \/ RollbackBegin(c) \/ RollbackLoad(c) \/ WriteActivation(c)
             \/ ResolveBegin(c) \/ ResolveLoad(c) \/ Return(c)
      PROVE  UNCHANGED installed
    BY <1>4 DEF InstallBegin, CopyComponent, ActivateBegin, ActivateRead, RollbackBegin,
                RollbackLoad, WriteActivation, ResolveBegin, ResolveLoad, Return, Begin
<1>5. CASE UNCHANGED storeVars
    BY <1>3, <1>5 DEF storeVars
<1>. QED  BY <1>1, <1>2, <1>3, <1>4, <1>5 DEF StoreNext

\* A version that is published is never replaced by a later installation.
THEOREM VersionsImmutable ==
    ASSUME StoreAssumption
    PROVE  StoreSpec => VersionsAreImmutable
<1>1. ASSUME StoreTypeOK, [StoreNext]_storeVars
      PROVE  [\A v \in Versions :
                installed[v] # None =>
                    \/ installed'[v] = installed[v]
                    \/ /\ v \in damaged'
                       /\ installed'[v] # None
                       /\ installed'[v].manifest = installed[v].manifest]_storeVars
    BY <1>1, Kept
<1>. QED  BY <1>1, StoreInitType, StepType, PTL DEF StoreSpec, VersionsAreImmutable

------------------------------------------------------------
(* The activation *)

\* An activation names published versions that differ.
Usable(store, a) ==
    /\ a.version = None => a.previous = None
    /\ a.version # None =>
        /\ store[a.version] # None
        /\ a.previous # None => store[a.previous] # None
        /\ a.previous # a.version

\* What a call has verified, or read, is published when it writes it.
CallsUsable ==
    \A c \in Calls :
        /\ call[c].at = "activating" => installed[call[c].version] # None
        /\ call[c].at = "writing" => Usable(installed, call[c].activation)
        /\ call[c].at = "returning" => Usable(installed, call[c].read)

ActivationInv == StoreTypeOK /\ ActivationIsUsable /\ CallsUsable

Activations == [version : Versions \cup {None}, previous : Versions \cup {None}]

LEMMA UsableStays ==
    ASSUME StoreAssumption, StoreTypeOK, [StoreNext]_storeVars, NEW a \in Activations, Usable(installed, a)
    PROVE  Usable(installed', a)
BY Kept DEF Usable, Activations

\* The fields of a call that is about to write, or has read, an activation.
LEMMA StoreCallFields ==
    ASSUME StoreTypeOK, NEW c \in Calls
    PROVE  /\ call[c].at = "activating" => call[c].version \in Versions
           /\ call[c].at = "writing" => call[c].activation \in Activations
           /\ call[c].at = "returning" => call[c].read \in Activations
BY DEF StoreTypeOK, States, Idle, Activations

\* The calls that a step leaves where they were keep what they verified.
LEMMA OthersUsable ==
    ASSUME StoreAssumption, StoreTypeOK, CallsUsable, [StoreNext]_storeVars,
           NEW c \in Calls, call'[c] = call[c]
    PROVE  /\ call'[c].at = "activating" => installed'[call'[c].version] # None
           /\ call'[c].at = "writing" => Usable(installed', call'[c].activation)
           /\ call'[c].at = "returning" => Usable(installed', call'[c].read)
<1>1. ASSUME call[c].at = "activating" PROVE installed'[call[c].version] # None
    BY <1>1, StoreCallFields, Kept DEF CallsUsable
<1>2. ASSUME call[c].at = "writing" PROVE Usable(installed', call[c].activation)
    BY <1>2, StoreCallFields, UsableStays DEF CallsUsable
<1>3. ASSUME call[c].at = "returning" PROVE Usable(installed', call[c].read)
    BY <1>3, StoreCallFields, UsableStays DEF CallsUsable
<1>. QED  BY <1>1, <1>2, <1>3

\* A step of one call: the others stay, and it goes where state says.
LEMMA GotoUsable ==
    ASSUME StoreAssumption, StoreTypeOK, CallsUsable, [StoreNext]_storeVars,
           NEW c \in Calls, NEW state, Goto(c, state),
           state.at = "activating" => installed'[state.version] # None,
           state.at = "writing" => Usable(installed', state.activation),
           state.at = "returning" => Usable(installed', state.read)
    PROVE  CallsUsable'
<1>1. call'[c] = state
    BY DEF Goto, StoreTypeOK
<1>2. ASSUME NEW d \in Calls, d # c PROVE call'[d] = call[d]
    BY <1>2 DEF Goto, StoreTypeOK
<1>. QED  BY <1>1, <1>2, OthersUsable DEF CallsUsable

LEMMA ActivationStep ==
    ASSUME StoreAssumption, ActivationInv, [StoreNext]_storeVars
    PROVE  ActivationIsUsable' /\ CallsUsable'
<1>. USE DEF ActivationInv
<1>1. active \in Activations /\ Usable(installed, active)
    BY DEF StoreTypeOK, Activations, ActivationIsUsable, Usable
<1>2. ASSUME UNCHANGED active PROVE ActivationIsUsable'
    <2>1. Usable(installed', active)
        BY <1>1, UsableStays
    <2>. QED  BY <1>2, <2>1 DEF ActivationIsUsable, Usable
<1>3. ASSUME NEW c \in Calls, InstallBegin(c) PROVE ActivationIsUsable' /\ CallsUsable'
    <2>1. PICK p \in Packages :
            Begin(c, [at |-> "copying", package |-> p, files |-> Empty, todo |-> p.manifest.path])
        BY <1>3 DEF InstallBegin
    <2>. QED  BY <2>1, <1>2, GotoUsable DEF Begin
<1>4. ASSUME NEW c \in Calls, CopyComponent(c) PROVE ActivationIsUsable' /\ CallsUsable'
    <2>1. call[c] \in [at : {"copying"}, package : Packages, files : Trees, todo : SUBSET Components]
        BY <1>4 DEF StoreTypeOK, CopyComponent, States, Idle
    <2>2. PICK component \in call[c].todo :
            Goto(c, [call[c] EXCEPT !.files[component] = call[c].package.files[component],
                                    !.todo = @ \ {component}])
        BY <1>4 DEF CopyComponent
    <2>3. [call[c] EXCEPT !.files[component] = call[c].package.files[component],
                          !.todo = @ \ {component}].at = "copying"
        BY <2>1
    <2>. QED  BY <1>4, <2>2, <2>3, <1>2, GotoUsable DEF CopyComponent
<1>5. ASSUME NEW c \in Calls, Publish(c) PROVE ActivationIsUsable' /\ CallsUsable'
    BY <1>5, <1>2, GotoUsable DEF Publish, Idle
<1>6. ASSUME NEW c \in Calls, ActivateBegin(c) PROVE ActivationIsUsable' /\ CallsUsable'
    <2>1. PICK v \in Versions :
            installed[v] # None /\ Begin(c, [at |-> "activating", version |-> v])
        BY <1>6 DEF ActivateBegin, InstalledVersions, Loadable
    <2>. QED  BY <2>1, <1>2, GotoUsable DEF Begin
<1>7. ASSUME NEW c \in Calls, ActivateRead(c) PROVE ActivationIsUsable' /\ CallsUsable'
    <2>1. call[c].version \in Versions /\ installed[call[c].version] # None
        BY <1>7, StoreCallFields DEF ActivateRead, CallsUsable
    <2>2. Usable(installed, Activated(call[c].version, active))
        BY <1>1, <2>1 DEF Usable, Activated, Activations, StoreAssumption
    <2>. QED  BY <1>7, <2>2, <1>2, GotoUsable DEF ActivateRead
<1>8. ASSUME NEW c \in Calls, RollbackBegin(c) PROVE ActivationIsUsable' /\ CallsUsable'
    BY <1>8, <1>1, <1>2, GotoUsable DEF RollbackBegin, Begin
<1>9. ASSUME NEW c \in Calls, RollbackLoad(c) PROVE ActivationIsUsable' /\ CallsUsable'
    <2>1. call[c].read \in Activations /\ Usable(installed, call[c].read)
        BY <1>9, StoreCallFields DEF RollbackLoad, CallsUsable
    <2>2. Usable(installed, Reverted(call[c].read))
        BY <1>9, <2>1 DEF RollbackLoad, Loadable, Usable, Reverted, Activations
    <2>. QED  BY <1>9, <2>2, <1>2, GotoUsable DEF RollbackLoad
<1>10. ASSUME NEW c \in Calls, WriteActivation(c) PROVE ActivationIsUsable' /\ CallsUsable'
    <2>1. Usable(installed, call[c].activation)
        BY <1>10 DEF WriteActivation, CallsUsable
    <2>2. ActivationIsUsable'
        BY <1>10, <2>1 DEF WriteActivation, ActivationIsUsable, Usable
    <2>3. CallsUsable'
        BY <1>10, GotoUsable DEF WriteActivation, Idle
    <2>. QED  BY <2>2, <2>3
<1>11. ASSUME NEW c \in Calls, ResolveBegin(c) \/ ResolveLoad(c) \/ Return(c)
       PROVE  ActivationIsUsable' /\ CallsUsable'
    <2>1. CASE ResolveBegin(c)
        BY <2>1, <1>2, GotoUsable DEF ResolveBegin, Begin
    <2>2. CASE ResolveLoad(c)
        BY <2>2, <1>2, GotoUsable DEF ResolveLoad
    <2>3. CASE Return(c)
        BY <2>3, <1>2, GotoUsable DEF Return, Idle
    <2>. QED  BY <1>11, <2>3, <2>2, <2>1
<1>12. CASE Damage \/ UNCHANGED storeVars
    BY <1>12, <1>2, OthersUsable DEF Damage, storeVars, CallsUsable
<1>. QED  BY <1>3, <1>4, <1>5, <1>6, <1>7, <1>8, <1>9, <1>10, <1>11, <1>12 DEF StoreNext

\* Overlapping activations and rollbacks lose updates, but the active version
\* and the one a rollback returns to are always published and differ.
THEOREM ActivationUsable ==
    ASSUME StoreAssumption
    PROVE  StoreSpec => []ActivationIsUsable
<1>1. StoreInit => ActivationInv
    BY StoreInitType DEF StoreInit, ActivationInv, ActivationIsUsable, CallsUsable, Inactive, Idle
<1>2. ActivationInv /\ [StoreNext]_storeVars => ActivationInv'
    BY StepType, ActivationStep DEF ActivationInv
<1>3. ActivationInv => ActivationIsUsable
    BY DEF ActivationInv
<1>. QED  BY <1>1, <1>2, <1>3, PTL DEF StoreSpec

------------------------------------------------------------
(* The files *)

\* What an installation has copied has the hash its manifest names.
CopiesVerified ==
    \A c \in Calls : call[c].at = "copying" =>
        \A k \in call[c].package.manifest.path \ call[c].todo :
            /\ call[c].package.manifest.sha256[k] # None
            /\ call[c].files[k] = call[c].package.manifest.sha256[k]

\* A published manifest has a hash for every component, altered or not: without
\* it an altered file would verify.
HashesKnown ==
    \A v \in Versions : installed[v] # None =>
        \A k \in installed[v].manifest.path : installed[v].manifest.sha256[k] # None

FilesInv ==
    /\ StoreTypeOK
    /\ CopiesVerified
    /\ HashesKnown
    /\ VersionsAreWhole
    /\ OnlyVerifiedComponentsRun

\* A step of one call that goes where its files are verified.
LEMMA GotoVerified ==
    ASSUME StoreTypeOK, CopiesVerified, OnlyVerifiedComponentsRun,
           NEW c \in Calls, NEW state, Goto(c, state),
           state.at = "copying" =>
               \A k \in state.package.manifest.path \ state.todo :
                   /\ state.package.manifest.sha256[k] # None
                   /\ state.files[k] = state.package.manifest.sha256[k],
           state.at = "running" =>
               /\ state.component \in state.manifest.path
               /\ state.content = state.manifest.sha256[state.component]
    PROVE  CopiesVerified' /\ OnlyVerifiedComponentsRun'
<1>1. call'[c] = state
    BY DEF Goto, StoreTypeOK
<1>2. ASSUME NEW d \in Calls, d # c PROVE call'[d] = call[d]
    BY <1>2 DEF Goto, StoreTypeOK
<1>. QED  BY <1>1, <1>2 DEF CopiesVerified, OnlyVerifiedComponentsRun

\* A step that leaves the directories and what was damaged alone.
LEMMA StoreStays ==
    ASSUME HashesKnown, VersionsAreWhole, UNCHANGED <<installed, damaged>>
    PROVE  HashesKnown' /\ VersionsAreWhole'
BY DEF HashesKnown, VersionsAreWhole

\* A step that moves no call.
LEMMA StoreCallsStay ==
    ASSUME CopiesVerified, OnlyVerifiedComponentsRun, UNCHANGED call
    PROVE  CopiesVerified' /\ OnlyVerifiedComponentsRun'
<1>1. CopiesVerified'
    BY DEF CopiesVerified
<1>2. OnlyVerifiedComponentsRun'
    BY DEF OnlyVerifiedComponentsRun
<1>. QED  BY <1>1, <1>2

LEMMA CopyVerified ==
    ASSUME StoreAssumption, FilesInv, NEW c \in Calls, CopyComponent(c)
    PROVE  CopiesVerified' /\ OnlyVerifiedComponentsRun'
<1>. DEFINE manifest == call[c].package.manifest
<1>1. PICK k \in call[c].todo :
        /\ Accepted(manifest, k, call[c].package.files[k])
        /\ Goto(c, [call[c] EXCEPT !.files[k] = call[c].package.files[k], !.todo = @ \ {k}])
    BY DEF CopyComponent
<1>2. call[c] \in [at : {"copying"}, package : Packages, files : Trees, todo : SUBSET Components]
    BY DEF FilesInv, StoreTypeOK, CopyComponent, States, Idle
<1>3. k \in Components
    BY <1>1, <1>2
<1>. DEFINE next == [call[c] EXCEPT !.files[k] = call[c].package.files[k], !.todo = @ \ {k}]
<1>4. /\ next.at = "copying"
      /\ next.package = call[c].package
      /\ next.todo = call[c].todo \ {k}
      /\ next.files = [call[c].files EXCEPT ![k] = call[c].package.files[k]]
    BY <1>2
<1>5. manifest.sha256[k] # None /\ call[c].package.files[k] = manifest.sha256[k]
    BY <1>1 DEF Accepted, VerifyComponent
<1>6. next.files[k] = manifest.sha256[k]
    BY <1>2, <1>3, <1>4, <1>5 DEF Trees
<1>7. ASSUME NEW j \in manifest.path \ next.todo
      PROVE  manifest.sha256[j] # None /\ next.files[j] = manifest.sha256[j]
    <2>1. CASE j = k
        BY <2>1, <1>5, <1>6
    <2>2. CASE j # k
        <3>1. j \in manifest.path \ call[c].todo
            BY <1>4, <2>2
        <3>2. next.files[j] = call[c].files[j]
            BY <1>2, <1>3, <1>4, <2>2 DEF Trees
        <3>. QED  BY <1>2, <3>1, <3>2 DEF FilesInv, CopiesVerified
    <2>. QED  BY <2>1, <2>2
<1>8. Goto(c, next)
    BY <1>1
<1>. HIDE DEF next
<1>. QED  BY <1>4, <1>7, <1>8, GotoVerified DEF FilesInv

LEMMA PublishVerified ==
    ASSUME StoreAssumption, FilesInv, NEW c \in Calls, Publish(c)
    PROVE  HashesKnown' /\ VersionsAreWhole'
<1>. DEFINE manifest == call[c].package.manifest
            v == manifest.version
            dir == [manifest |-> manifest, files |-> call[c].files]
<1>1. call[c] \in [at : {"copying"}, package : Packages, files : Trees, todo : SUBSET Components]
    BY DEF FilesInv, StoreTypeOK, Publish, States, Idle
<1>2. v \in Versions
    BY <1>1 DEF StoreAssumption, Directories, Manifests
<1>3. /\ installed'[v] = dir
      /\ \A w \in Versions : w # v => installed'[w] = installed[w]
      /\ damaged' = damaged
    BY <1>2 DEF Publish, FilesInv, StoreTypeOK
<1>4. \A k \in manifest.path : manifest.sha256[k] # None /\ call[c].files[k] = manifest.sha256[k]
    BY DEF Publish, FilesInv, CopiesVerified
<1>5. dir.manifest = manifest /\ dir.files = call[c].files
    OBVIOUS
<1>. HIDE DEF dir
<1>. QED  BY <1>3, <1>4, <1>5 DEF FilesInv, HashesKnown, VersionsAreWhole

LEMMA DamageVerified ==
    ASSUME StoreAssumption, FilesInv, Damage
    PROVE  HashesKnown' /\ VersionsAreWhole'
<1>1. PICK w \in Versions, k \in Components, content \in Contents \cup {None} :
        /\ installed[w] # None
        /\ damaged' = damaged \cup {w}
        /\ installed' = [installed EXCEPT ![w].files[k] = content]
    BY DEF Damage
<1>2. installed[w] \in Directories
    BY <1>1 DEF FilesInv, StoreTypeOK
<1>3. installed'[w].manifest = installed[w].manifest
    BY <1>1, <1>2 DEF Directories, FilesInv, StoreTypeOK
<1>4. \A v \in Versions : v # w => installed'[v] = installed[v]
    BY <1>1 DEF FilesInv, StoreTypeOK
<1>. QED  BY <1>1, <1>3, <1>4 DEF FilesInv, HashesKnown, VersionsAreWhole

\* Every hash is known, so what loads is what the hashes name.
LEMMA ResolveVerified ==
    ASSUME StoreAssumption, FilesInv, NEW c \in Calls, ResolveLoad(c)
    PROVE  CopiesVerified' /\ OnlyVerifiedComponentsRun'
<1>. DEFINE dir == installed[call[c].version]
<1>1. call[c].version \in Versions
    BY DEF FilesInv, StoreTypeOK, ResolveLoad, States, Idle
<1>2. PICK k \in dir.manifest.path :
        Goto(c, [at |-> "running", manifest |-> dir.manifest, component |-> k,
                 content |-> dir.files[k]])
    BY DEF ResolveLoad
<1>3. dir.files[k] = dir.manifest.sha256[k]
    <2>1. VerifyComponent(dir.manifest, k, dir.files[k]) /\ dir # None
        BY <1>2 DEF ResolveLoad, Loadable, Whole
    <2>2. dir.manifest.sha256[k] # None
        BY <1>1, <1>2, <2>1 DEF FilesInv, HashesKnown
    <2>. QED  BY <2>1, <2>2 DEF VerifyComponent
<1>. HIDE DEF dir
<1>. QED  BY <1>2, <1>3, GotoVerified DEF FilesInv

\* Most steps of a call leave every directory alone and go where it has read no
\* component.
Bookkeeping(c) ==
    \/ ActivateBegin(c) \/ ActivateRead(c) \/ RollbackBegin(c) \/ RollbackLoad(c)
    \/ WriteActivation(c) \/ ResolveBegin(c) \/ Return(c)

LEMMA BookkeepingVerified ==
    ASSUME FilesInv, NEW c \in Calls, Bookkeeping(c)
    PROVE  /\ CopiesVerified' /\ OnlyVerifiedComponentsRun'
           /\ HashesKnown' /\ VersionsAreWhole'
<1>1. PICK state : Goto(c, state) /\ state.at \notin {"copying", "running"}
    <2>1. CASE ActivateBegin(c)
        <3>1. PICK v \in Versions : Begin(c, [at |-> "activating", version |-> v])
            BY <2>1 DEF ActivateBegin, InstalledVersions
        <3>. QED  BY <3>1 DEF Begin
    <2>2. CASE RollbackBegin(c) \/ ResolveBegin(c)
        BY <2>2 DEF RollbackBegin, ResolveBegin, Begin
    <2>3. CASE ActivateRead(c) \/ RollbackLoad(c)
        BY <2>3 DEF ActivateRead, RollbackLoad
    <2>4. CASE WriteActivation(c) \/ Return(c)
        BY <2>4 DEF WriteActivation, Return, Idle
    <2>. QED  BY <2>4, <2>3, <2>2, <2>1 DEF Bookkeeping
<1>2. UNCHANGED <<installed, damaged>>
    BY DEF Bookkeeping, ActivateBegin, ActivateRead, RollbackBegin, RollbackLoad,
           WriteActivation, ResolveBegin, Return, Begin
<1>. QED  BY <1>1, <1>2, GotoVerified, StoreStays DEF FilesInv

LEMMA FilesStep ==
    ASSUME StoreAssumption, FilesInv, [StoreNext]_storeVars
    PROVE  FilesInv'
<1>. DEFINE Files == CopiesVerified /\ HashesKnown /\ VersionsAreWhole /\ OnlyVerifiedComponentsRun
<1>. USE DEF FilesInv
<1>1. ASSUME NEW c \in Calls, InstallBegin(c) PROVE Files'
    <2>1. PICK p \in Packages :
            Begin(c, [at |-> "copying", package |-> p, files |-> Empty, todo |-> p.manifest.path])
        BY <1>1 DEF InstallBegin
    <2>2. p.manifest.path \ p.manifest.path = {}
        OBVIOUS
    <2>. QED  BY <2>1, <2>2, GotoVerified, StoreStays DEF Begin
<1>2. ASSUME NEW c \in Calls, CopyComponent(c) \/ ResolveLoad(c) PROVE Files'
    BY <1>2, CopyVerified, ResolveVerified, StoreStays DEF CopyComponent, ResolveLoad
<1>3. ASSUME NEW c \in Calls, Publish(c) PROVE Files'
    BY <1>3, PublishVerified, GotoVerified DEF Publish, Idle
<1>4. ASSUME NEW c \in Calls, Bookkeeping(c) PROVE Files'
    BY <1>4, BookkeepingVerified
<1>5. ASSUME UNCHANGED call PROVE CopiesVerified' /\ OnlyVerifiedComponentsRun'
    BY <1>5, StoreCallsStay
<1>6. CASE Damage
    BY <1>5, <1>6, StepType, DamageVerified DEF Damage
<1>7. CASE UNCHANGED storeVars
    BY <1>5, <1>7, StepType, StoreStays DEF storeVars
<1>. QED  BY <1>1, <1>2, <1>3, <1>4, <1>6, <1>7, StepType DEF StoreNext, Bookkeeping

LEMMA InitFiles == StoreInit => FilesInv
BY StoreInitType DEF StoreInit, FilesInv, CopiesVerified, HashesKnown, VersionsAreWhole,
                OnlyVerifiedComponentsRun, Idle

\* A version is published whole or not at all, whatever fails or crashes while
\* it is installed.
THEOREM VersionsWhole ==
    ASSUME StoreAssumption
    PROVE  StoreSpec => []VersionsAreWhole
<1>1. FilesInv => VersionsAreWhole
    BY DEF FilesInv
<1>. QED  BY <1>1, InitFiles, FilesStep, PTL DEF StoreSpec

\* What an extraction runs from the store has the content its manifest names,
\* whatever was altered since it was published.
THEOREM VerifiedComponentsRun ==
    ASSUME StoreAssumption
    PROVE  StoreSpec => []OnlyVerifiedComponentsRun
<1>1. FilesInv => OnlyVerifiedComponentsRun
    BY DEF FilesInv
<1>. QED  BY <1>1, InitFiles, FilesStep, PTL DEF StoreSpec

------------------------------------------------------------
(* What a refresh guarantees for any number of channels, videos, workers and    *)
(* overlapping refreshes.  A video is gone once it is stored, deleted by its    *)
(* channel or out of the feed unseen, and never comes back from there: a marker *)
(* is covered when every video up to it is gone.  The argument is that every    *)
(* marker is covered wherever it is: in its row, in the map a refresh read      *)
(* before its workers started, and in the goroutine about to write it, however  *)
(* old each of them has become.                                                 *)

\* A set of natural numbers that is bounded and not empty has a greatest number.
LEMMA NewestIsGreatest ==
    ASSUME NEW k \in Nat, NEW S \in SUBSET (1..k), S # {}
    PROVE  Newest(S) \in S /\ \A m \in S : m <= Newest(S)
<1>. DEFINE R == OpToRel(<, Nat)
            T == {n \in Nat : k - n \in S}
<1>1. IsWellFoundedOn(R, Nat)
    BY NatLessThanWellFounded
<1>2. T \subseteq Nat /\ T # {}
    <2>1. PICK m \in S : TRUE
        OBVIOUS
    <2>2. k - m \in T
        BY SMT
    <2>. QED  BY <2>2
<1>3. \A m, n \in Nat : <<m, n>> \in R <=> m < n
    BY SMT DEF OpToRel
<1>. HIDE DEF R
<1>4. PICK x \in T : \A y \in T : ~(<<y, x>> \in R)
    <2>. HIDE DEF T
    <2>. QED  BY <1>1, <1>2, WFMin
<1>5. ASSUME NEW m \in S PROVE m <= k - x
    <2>1. k - m \in T /\ k - m \in Nat /\ x \in Nat
        BY SMT
    <2>2. <<k - m, x>> \notin R
        BY <1>4, <2>1
    <2>3. ~(k - m < x)
        BY <1>3, <2>1, <2>2
    <2>. QED  BY <2>1, <2>3, SMT
<1>6. k - x \in S
    OBVIOUS
<1>. QED  BY <1>5, <1>6 DEF Newest

------------------------------------------------------------
(* Types *)

Syncing ==
    [at : {"syncing"}, channels : SUBSET Channels, markers : [Channels -> 0..MaxVideos],
     cancelled : BOOLEAN, broken : BOOLEAN, errors : SUBSET Channels, fetched : SUBSET Ids]

Rows == [known : BOOLEAN, subscribed : BOOLEAN, marker : 0..MaxVideos, error : BOOLEAN]

\* What the state of a refresh and of a goroutine holds.
LEMMA SyncCallFields ==
    ASSUME SyncTypeOK, NEW r \in Refreshes
    PROVE  /\ refresh[r].at = "syncing" => refresh[r] \in Syncing
           /\ refresh[r].at = "loading" => refresh[r].channels \subseteq Channels
BY DEF SyncTypeOK, RefreshStates, Syncing, Rest

LEMMA WorkerFields ==
    ASSUME SyncTypeOK, NEW r \in Refreshes, NEW c \in Channels
    PROVE  /\ worker[r][c] \in Goroutines
           /\ worker[r][c].at = "fetched" => worker[r][c].new \subseteq 1..MaxVideos
           /\ worker[r][c].at = "stored" =>
                worker[r][c].marker \in 0..MaxVideos /\ worker[r][c].error \in BOOLEAN
BY DEF SyncTypeOK, Goroutines, Waiting

LEMMA CallType ==
    ASSUME SyncTypeOK, NEW r \in Refreshes, NEW state \in RefreshStates, Call(r, state)
    PROVE  /\ refresh' \in [Refreshes -> RefreshStates]
           /\ refresh'[r] = state
           /\ \A s \in Refreshes : s # r => refresh'[s] = refresh[s]
BY DEF SyncTypeOK, Call

LEMMA GoesType ==
    ASSUME SyncTypeOK, NEW r \in Refreshes, NEW c \in Channels, NEW state \in Goroutines,
           Goes(r, c, state)
    PROVE  /\ worker' \in [Refreshes -> [Channels -> Goroutines]]
           /\ worker'[r][c] = state
           /\ \A s \in Refreshes, d \in Channels :
                s # r \/ d # c => worker'[s][d] = worker[s][d]
BY DEF SyncTypeOK, Goes

\* Subscribing and unsubscribing leave the markers.
LEMMA RowsType ==
    ASSUME SyncTypeOK, NEW S, row' = Subscribed(row, S) \/ row' = Unsubscribed(row, S)
    PROVE  /\ row' \in [Channels -> Rows]
           /\ \A c \in Channels : row'[c].marker = row[c].marker
<1>1. ASSUME NEW c \in Channels PROVE row'[c] \in Rows /\ row'[c].marker = row[c].marker
    <2>1. row[c] \in Rows
        BY DEF SyncTypeOK, Rows
    <2>2. \/ row'[c] = row[c]
          \/ row'[c] = [row[c] EXCEPT !.known = TRUE, !.subscribed = TRUE]
          \/ row'[c] = [row[c] EXCEPT !.subscribed = FALSE]
        BY DEF Subscribed, Unsubscribed
    <2>. QED  BY <2>1, <2>2 DEF Rows
<1>2. row' = [c \in Channels |-> row'[c]]
    BY DEF Subscribed, Unsubscribed
<1>. QED  BY <1>1, <1>2

LEMMA FeedType ==
    ASSUME SyncTypeOK, NEW c \in Channels
    PROVE  Feed(c) \subseteq 1..published[c] /\ published[c] \in 1..MaxVideos
BY DEF SyncTypeOK, Feed

LEMMA UpsertType ==
    ASSUME SyncTypeOK, NEW S \in SUBSET Ids, UpsertVideos(S)
    PROVE  videos' \subseteq Ids /\ index' \in [Ids -> Nat]
BY DEF SyncTypeOK, UpsertVideos, Indexed

\* A row of the database after the write of a marker.
LEMMA MarkerType ==
    ASSUME SyncAssumption, SyncTypeOK, NEW c \in Channels, NEW marker \in 0..MaxVideos,
           NEW error \in BOOLEAN, SetChannelSync(c, marker, error)
    PROVE  /\ row' \in [Channels -> Rows]
           /\ \A d \in Channels : row'[d].marker \in {row[d].marker, IF d = c THEN marker ELSE row[d].marker}
<1>. DEFINE next == IF row[c].known THEN [row[c] EXCEPT !.marker = marker, !.error = error]
                    ELSE row[c]
<1>1. row \in [Channels -> Rows]
    BY DEF SyncTypeOK, Rows
<1>2. next \in Rows /\ (next.marker = marker \/ next.marker = row[c].marker)
    BY <1>1 DEF Rows
<1>3. row' = [row EXCEPT ![c] = next]
    BY DEF SetChannelSync
<1>. HIDE DEF next
<1>. QED  BY <1>1, <1>2, <1>3

LEMMA SyncInitType == SyncAssumption /\ SyncInit => SyncTypeOK
<1>. SUFFICES ASSUME SyncAssumption, SyncInit PROVE SyncTypeOK
    OBVIOUS
<1>1. 1 \in 1..MaxVideos /\ 0 \in 0..MaxVideos
    BY DEF SyncAssumption
<1>2. ASSUME NEW S \in SUBSET Channels
      PROVE  [c \in Channels |-> Row(c \in S)] \in [Channels -> Rows]
    BY <1>1 DEF Row, Rows
<1>3. row \in [Channels -> Rows]
    BY <1>2 DEF SyncInit
<1>4. Rest \in RefreshStates /\ Waiting \in Goroutines
    BY DEF RefreshStates, Goroutines
<1>. QED  BY <1>1, <1>3, <1>4 DEF SyncInit, SyncTypeOK, Rows

\* The new videos of a feed.
LEMMA NewVideosListed ==
    ASSUME NEW feed, NEW marker
    PROVE  /\ NewVideos(feed, marker) \subseteq feed
           /\ marker \notin feed => NewVideos(feed, marker) = feed
           /\ \A n \in feed : n > marker => n \in NewVideos(feed, marker)
BY DEF NewVideos

------------------------------------------------------------
(* A step of a refresh, by what it changes. *)

\* The begin of a refresh.
LEMMA BeginStep ==
    ASSUME SyncTypeOK, NEW r \in Refreshes, RefreshLocal(r) \/ Refresh(r)
    PROVE  /\ row' \in [Channels -> Rows]
           /\ \A c \in Channels : row'[c].marker = row[c].marker
           /\ refresh' \in [Refreshes -> RefreshStates]
           /\ refresh'[r].at = "loading"
           /\ \A s \in Refreshes : s # r => refresh'[s] = refresh[s]
           /\ UNCHANGED <<youtube, videos, index, worker, lost>>
<1>1. CASE RefreshLocal(r)
    <2>. DEFINE S == {c \in Channels : row[c].subscribed}
    <2>1. [at |-> "loading", channels |-> S] \in RefreshStates
        BY DEF RefreshStates
    <2>2. Call(r, [at |-> "loading", channels |-> S])
        BY <1>1 DEF RefreshLocal, BeginRefresh
    <2>3. row' = row
        BY <1>1 DEF RefreshLocal, catalogue
    <2>. QED  BY <1>1, <2>3, <2>2, <2>1, CallType DEF RefreshLocal, BeginRefresh, catalogue, SyncTypeOK, Rows
<1>2. CASE Refresh(r)
    <2>1. [at |-> "loading", channels |-> account] \in RefreshStates
        BY DEF RefreshStates, SyncTypeOK
    <2>2. Call(r, [at |-> "loading", channels |-> account])
        BY <1>2 DEF Refresh, BeginRefresh
    <2>. QED  BY <1>2, <2>1, <2>2, CallType, RowsType DEF Refresh, BeginRefresh
<1>. QED  BY <1>1, <1>2

LEMMA LoadStep ==
    ASSUME SyncTypeOK, NEW r \in Refreshes, LoadMarkers(r)
    PROVE  /\ refresh' \in [Refreshes -> RefreshStates]
           /\ refresh'[r].at = "syncing"
           /\ \A c \in Channels : refresh'[r].markers[c] = row[c].marker
           /\ refresh'[r].cancelled = FALSE
           /\ refresh'[r].errors = {} /\ refresh'[r].fetched = {}
           /\ \A s \in Refreshes : s # r => refresh'[s] = refresh[s]
<1>. DEFINE state == [at |-> "syncing", channels |-> refresh[r].channels,
                      markers |-> [c \in Channels |-> row[c].marker],
                      cancelled |-> FALSE, broken |-> FALSE, errors |-> {}, fetched |-> {}]
<1>1. Call(r, state)
    BY DEF LoadMarkers
<1>2. refresh[r].channels \subseteq Channels
    BY SyncCallFields DEF LoadMarkers
<1>3. [c \in Channels |-> row[c].marker] \in [Channels -> 0..MaxVideos]
    BY DEF SyncTypeOK
<1>4. state \in RefreshStates
    BY <1>2, <1>3 DEF RefreshStates
<1>5. /\ state.at = "syncing" /\ state.cancelled = FALSE
      /\ state.errors = {} /\ state.fetched = {}
      /\ \A c \in Channels : state.markers[c] = row[c].marker
    OBVIOUS
<1>. HIDE DEF state
<1>. QED  BY <1>1, <1>4, <1>5, CallType

\* The fetch of a feed: either a feed with new videos, or nothing new.
LEMMA FetchStep ==
    ASSUME SyncAssumption, SyncTypeOK, NEW r \in Refreshes, NEW c \in Channels, FetchFeed(r, c)
    PROVE  LET new == NewVideos(Feed(c), refresh[r].markers[c]) IN
           /\ new \subseteq 1..MaxVideos
           /\ refresh[r] \in Syncing
           /\ refresh' \in [Refreshes -> RefreshStates]
           /\ refresh'[r] = [refresh[r] EXCEPT !.fetched = @ \cup {<<c, n>> : n \in new}]
           /\ \A s \in Refreshes : s # r => refresh'[s] = refresh[s]
           /\ worker' \in [Refreshes -> [Channels -> Goroutines]]
           /\ \/ new = {} /\ worker'[r][c] = [at |-> "done"]
              \/ new # {} /\ worker'[r][c] = [at |-> "fetched", new |-> new]
           /\ \A s \in Refreshes, d \in Channels :
                s # r \/ d # c => worker'[s][d] = worker[s][d]
<1>. DEFINE new == NewVideos(Feed(c), refresh[r].markers[c])
            state == [refresh[r] EXCEPT !.fetched = @ \cup {<<c, n>> : n \in new}]
            next == IF new = {} THEN [at |-> "done"] ELSE [at |-> "fetched", new |-> new]
<1>1. new \subseteq 1..MaxVideos
    <2>1. new \subseteq Feed(c)
        BY NewVideosListed
    <2>2. \A n \in 1..published[c] : n \in 1..MaxVideos
        BY FeedType DEF SyncAssumption
    <2>. QED  BY <2>1, <2>2, FeedType
<1>2. refresh[r] \in Syncing
    BY SyncCallFields DEF FetchFeed, MayFetch, Running
<1>3. {<<c, n>> : n \in new} \subseteq Ids
    BY <1>1 DEF Ids
<1>4. state \in RefreshStates
    <2>. HIDE DEF new
    <2>. QED  BY <1>2, <1>3 DEF RefreshStates, Syncing
<1>5. next \in Goroutines
    BY <1>1 DEF Goroutines
<1>6. Call(r, state) /\ Goes(r, c, next)
    BY DEF FetchFeed
<1>. HIDE DEF new, state
<1>7. /\ refresh' \in [Refreshes -> RefreshStates]
      /\ refresh'[r] = state
      /\ \A s \in Refreshes : s # r => refresh'[s] = refresh[s]
    BY <1>4, <1>6, CallType
<1>8. /\ worker' \in [Refreshes -> [Channels -> Goroutines]]
      /\ worker'[r][c] = next
      /\ \A s \in Refreshes, d \in Channels :
           s # r \/ d # c => worker'[s][d] = worker[s][d]
    BY <1>5, <1>6, GoesType
<1>. QED  BY <1>1, <1>2, <1>7, <1>8 DEF new, state

\* A worker, or a failure, that writes nothing: where the refresh and its
\* goroutine go.
LEMMA FeedFailsStep ==
    ASSUME SyncTypeOK, NEW r \in Refreshes, NEW c \in Channels, FeedFails(r, c)
    PROVE  /\ refresh[r] \in Syncing
           /\ refresh' \in [Refreshes -> RefreshStates]
           /\ refresh'[r] = Reported(refresh[r], c)
           /\ \A s \in Refreshes : s # r => refresh'[s] = refresh[s]
           /\ worker' \in [Refreshes -> [Channels -> Goroutines]]
           /\ worker'[r][c] = [at |-> "stored", marker |-> refresh[r].markers[c], error |-> TRUE]
           /\ \A s \in Refreshes, d \in Channels :
                s # r \/ d # c => worker'[s][d] = worker[s][d]
<1>1. refresh[r] \in Syncing
    BY SyncCallFields DEF FeedFails, MayFetch, Running
<1>2. Reported(refresh[r], c) \in RefreshStates
    BY <1>1 DEF Reported, RefreshStates, Syncing
<1>3. [at |-> "stored", marker |-> refresh[r].markers[c], error |-> TRUE] \in Goroutines
    BY <1>1 DEF Syncing, Goroutines
<1>. QED  BY <1>1, <1>2, <1>3, CallType, GoesType DEF FeedFails

\* A cancelled refresh.
Cancelled(task) == [task EXCEPT !.cancelled = TRUE, !.broken = TRUE]

LEMMA CancelStep ==
    ASSUME SyncTypeOK, NEW r \in Refreshes,
           Cancel(r) \/ \E c \in Channels : StorageFails(r, c)
    PROVE  /\ refresh[r] \in Syncing
           /\ refresh' \in [Refreshes -> RefreshStates]
           /\ refresh'[r] = Cancelled(refresh[r])
           /\ \A s \in Refreshes : s # r => refresh'[s] = refresh[s]
<1>1. refresh[r] \in Syncing
    BY SyncCallFields DEF Cancel, StorageFails, Running
<1>2. Cancelled(refresh[r]) \in RefreshStates
    BY <1>1 DEF Cancelled, RefreshStates, Syncing
<1>3. Call(r, Cancelled(refresh[r]))
    BY DEF Cancel, StorageFails, Cancelled
<1>. QED  BY <1>1, <1>2, <1>3, CallType

LEMMA ReturnStep ==
    ASSUME SyncTypeOK, NEW r \in Refreshes, ReturnRefresh(r)
    PROVE  /\ refresh[r] \in Syncing
           /\ refresh' \in [Refreshes -> RefreshStates]
           /\ refresh'[r].at = "returned"
           /\ refresh'[r].ok = ~refresh[r].cancelled
           /\ refresh'[r].broken = refresh[r].broken
           /\ refresh'[r].channels = refresh[r].channels
           /\ refresh'[r].errors = refresh[r].errors
           /\ refresh'[r].fetched = refresh[r].fetched
           /\ \A s \in Refreshes : s # r => refresh'[s] = refresh[s]
           /\ worker' \in [Refreshes -> [Channels -> Goroutines]]
           /\ \A c \in Channels : worker'[r][c] = Waiting
           /\ \A s \in Refreshes, c \in Channels : s # r => worker'[s][c] = worker[s][c]
<1>1. refresh[r] \in Syncing
    BY SyncCallFields DEF ReturnRefresh
<1>. DEFINE state == [at |-> "returned", ok |-> ~refresh[r].cancelled,
                      broken |-> refresh[r].broken, channels |-> refresh[r].channels,
                      errors |-> refresh[r].errors, fetched |-> refresh[r].fetched]
<1>2. state \in RefreshStates
    <2>1. (~refresh[r].cancelled) \in BOOLEAN
        OBVIOUS
    <2>. QED  BY <1>1, <2>1 DEF RefreshStates, Syncing
<1>3. Call(r, state)
    BY DEF ReturnRefresh
<1>4. worker' = [worker EXCEPT ![r] = [c \in Channels |-> Waiting]]
    BY DEF ReturnRefresh
<1>5. Waiting \in Goroutines
    BY DEF Goroutines
<1>. HIDE DEF state
<1>6. /\ refresh' \in [Refreshes -> RefreshStates]
      /\ refresh'[r] = state
      /\ \A s \in Refreshes : s # r => refresh'[s] = refresh[s]
    BY <1>2, <1>3, CallType
<1>7. /\ worker' \in [Refreshes -> [Channels -> Goroutines]]
      /\ \A c \in Channels : worker'[r][c] = Waiting
      /\ \A s \in Refreshes, c \in Channels : s # r => worker'[s][c] = worker[s][c]
    BY <1>4, <1>5 DEF SyncTypeOK
<1>8. /\ state.at = "returned"
      /\ state.ok = ~refresh[r].cancelled
      /\ state.broken = refresh[r].broken
      /\ state.channels = refresh[r].channels
      /\ state.errors = refresh[r].errors
      /\ state.fetched = refresh[r].fetched
    BY DEF state
<1>. QED  BY <1>1, <1>6, <1>7, <1>8

LEMMA StoreStep ==
    ASSUME SyncAssumption, SyncTypeOK, NEW r \in Refreshes, NEW c \in Channels, StoreVideos(r, c),
           worker[r][c].new # {}
    PROVE  LET new == worker[r][c].new IN
           /\ new \subseteq 1..MaxVideos
           /\ UpsertVideos({<<c, n>> : n \in new})
           /\ {<<c, n>> : n \in new} \subseteq Ids
           /\ worker' \in [Refreshes -> [Channels -> Goroutines]]
           /\ worker'[r][c] = [at |-> "stored", marker |-> Newest(new), error |-> FALSE]
           /\ \A s \in Refreshes, d \in Channels :
                s # r \/ d # c => worker'[s][d] = worker[s][d]
<1>. DEFINE new == worker[r][c].new
<1>1. new \subseteq 1..MaxVideos
    BY WorkerFields DEF StoreVideos
<1>2. Newest(new) \in new
    <2>. HIDE DEF new
    <2>. QED  BY <1>1, NewestIsGreatest DEF SyncAssumption, new
<1>3. AfterFetch(new) \in Goroutines
    BY <1>1, <1>2 DEF AfterFetch, Goroutines
<1>4. Goes(r, c, AfterFetch(new))
    BY DEF StoreVideos
<1>5. {<<c, n>> : n \in new} \subseteq Ids
    BY <1>1 DEF Ids
<1>. QED  BY <1>1, <1>3, <1>4, <1>5, GoesType DEF StoreVideos, AfterFetch

LEMMA MoveStep ==
    ASSUME SyncAssumption, SyncTypeOK, NEW r \in Refreshes, NEW c \in Channels, MoveMarker(r, c)
    PROVE  /\ row' \in [Channels -> Rows]
           /\ \A d \in Channels :
                row'[d].marker \in {row[d].marker, IF d = c THEN worker[r][c].marker ELSE row[d].marker}
           /\ worker' \in [Refreshes -> [Channels -> Goroutines]]
           /\ worker'[r][c] = [at |-> "done"]
           /\ \A s \in Refreshes, d \in Channels :
                s # r \/ d # c => worker'[s][d] = worker[s][d]
<1>1. worker[r][c].marker \in 0..MaxVideos /\ worker[r][c].error \in BOOLEAN
    BY WorkerFields DEF MoveMarker
<1>2. [at |-> "done"] \in Goroutines
    BY DEF Goroutines
<1>3. SetChannelSync(c, worker[r][c].marker, worker[r][c].error) /\ Goes(r, c, [at |-> "done"])
    BY DEF MoveMarker
<1>. QED  BY <1>1, <1>2, <1>3, MarkerType, GoesType

\* A goroutine that gives up.
LEMMA DropStep ==
    ASSUME SyncTypeOK, NEW r \in Refreshes, NEW c \in Channels, Abandon(r, c) \/ StorageFails(r, c)
    PROVE  /\ worker' \in [Refreshes -> [Channels -> Goroutines]]
           /\ worker'[r][c] = [at |-> "done"]
           /\ \A s \in Refreshes, d \in Channels :
                s # r \/ d # c => worker'[s][d] = worker[s][d]
<1>1. [at |-> "done"] \in Goroutines
    BY DEF Goroutines
<1>. QED  BY <1>1, GoesType DEF Abandon, StorageFails

LEMMA CrashStep ==
    ASSUME SyncTypeOK, Crash
    PROVE  /\ refresh' \in [Refreshes -> RefreshStates]
           /\ \A r \in Refreshes : refresh'[r] = Rest
           /\ worker' \in [Refreshes -> [Channels -> Goroutines]]
           /\ \A r \in Refreshes, c \in Channels : worker'[r][c] = Waiting
BY DEF Crash, RefreshStates, Goroutines

\* The videos of a channel are numbered up to the last it published.
LEMMA PublishStep ==
    ASSUME SyncAssumption, SyncTypeOK, NEW c \in Channels, PublishVideo(c)
    PROVE  /\ published' \in [Channels -> 1..MaxVideos]
           /\ published'[c] = published[c] + 1
           /\ \A d \in Channels : d # c => published'[d] = published[d]
           /\ lost' = lost \cup ({<<c, n>> : n \in {m \in Feed(c) : m <= published[c] + 1 - Window}} \ videos)
           /\ lost' \subseteq Ids
<1>1. published[c] \in 1..MaxVideos /\ published[c] < MaxVideos
    BY DEF SyncTypeOK, PublishVideo
<1>2. published[c] + 1 \in 1..MaxVideos
    BY <1>1 DEF SyncAssumption
<1>3. lost' = lost \cup ({<<c, n>> : n \in {m \in Feed(c) : m <= published[c] + 1 - Window}} \ videos)
    BY DEF PublishVideo
<1>4. \A n \in Feed(c) : <<c, n>> \in Ids
    <2>1. \A n \in 1..published[c] : n \in 1..MaxVideos
        BY <1>1 DEF SyncAssumption
    <2>. QED  BY <2>1, FeedType DEF Ids
<1>5. lost' \subseteq Ids
    BY <1>3, <1>4 DEF SyncTypeOK
<1>. QED  BY <1>2, <1>3, <1>5 DEF SyncTypeOK, PublishVideo

\* What the interface knows of a video it stores.
LEMMA RememberStep ==
    ASSUME SyncAssumption, SyncTypeOK, RememberVideo
    PROVE  \E S \in SUBSET Ids : UpsertVideos(S)
<1>0. PICK c \in Channels : \E n \in 1..published[c] : UpsertVideos({<<c, n>>})
    BY DEF RememberVideo
<1>1. PICK n \in 1..published[c] : UpsertVideos({<<c, n>>})
    BY <1>0
<1>2. n \in 1..MaxVideos
    BY FeedType DEF SyncAssumption
<1>3. {<<c, n>>} \in SUBSET Ids
    BY <1>2 DEF Ids
<1>. QED  BY <1>1, <1>3

\* A subscription, an import, or the end of subscriptions.
LEMMA EditStep ==
    ASSUME SyncTypeOK,
           \/ ImportSubscriptions
           \/ BulkUnsubscribeChannels
           \/ \E c \in Channels : SubscribeChannel(c) \/ UnsubscribeChannel(c)
    PROVE  /\ row' \in [Channels -> Rows]
           /\ \A c \in Channels : row'[c].marker = row[c].marker
           /\ UNCHANGED <<youtube, videos, index, refresh, worker, lost>>
<1>1. \E S : Edit(Subscribed(row, S)) \/ Edit(Unsubscribed(row, S))
    BY DEF ImportSubscriptions, BulkUnsubscribeChannels, SubscribeChannel, UnsubscribeChannel
<1>. QED  BY <1>1, RowsType DEF Edit

------------------------------------------------------------
(* The markers *)

\* The videos no refresh has left to store.
Gone == videos \cup withdrawn \cup lost

Covered(gone, c, marker) == \A n \in 1..marker : <<c, n>> \in gone

\* What is no longer in a feed is gone.
FeedIsWhole ==
    \A c \in Channels : \A n \in 1..published[c] : n \in Feed(c) \/ <<c, n>> \in Gone

\* The markers a refresh has read.
CallsCovered ==
    \A r \in Refreshes : refresh[r].at = "syncing" =>
        \A c \in Channels : Covered(Gone, c, refresh[r].markers[c])

\* What a goroutine carries: new videos before which all are gone, or a marker.
WorkerCovered(gone, c, w) ==
    /\ w.at = "fetched" =>
        /\ w.new # {}
        /\ \A n \in 1..Newest(w.new) : n \in w.new \/ <<c, n>> \in gone
    /\ w.at = "stored" => Covered(gone, c, w.marker)

WorkersCovered ==
    \A r \in Refreshes, c \in Channels : WorkerCovered(Gone, c, worker[r][c])

RowsCovered == \A c \in Channels : Covered(Gone, c, row[c].marker)

SyncInv ==
    /\ SyncTypeOK
    /\ FeedIsWhole
    /\ CallsCovered
    /\ WorkersCovered
    /\ RowsCovered

\* Each part stands while its own variables do and more videos are gone.
LEMMA SyncCallsStay ==
    ASSUME CallsCovered, Gone \subseteq Gone', NEW r \in Refreshes,
           refresh'[r] = refresh[r], refresh[r].at = "syncing", NEW c \in Channels
    PROVE  Covered(Gone', c, refresh'[r].markers[c])
BY DEF CallsCovered, Covered

LEMMA WorkerStays ==
    ASSUME WorkersCovered, Gone \subseteq Gone', NEW r \in Refreshes, NEW c \in Channels,
           worker'[r][c] = worker[r][c]
    PROVE  WorkerCovered(Gone', c, worker'[r][c])
BY DEF WorkersCovered, WorkerCovered, Covered

LEMMA RowsStay ==
    ASSUME RowsCovered, Gone \subseteq Gone',
           \A c \in Channels : row'[c].marker = row[c].marker
    PROVE  RowsCovered'
BY DEF RowsCovered, Covered

LEMMA FeedStays ==
    ASSUME FeedIsWhole, Gone \subseteq Gone', UNCHANGED <<published, withdrawn>>
    PROVE  FeedIsWhole'
BY DEF FeedIsWhole, Feed

LEMMA GoneGrows ==
    ASSUME SyncAssumption, SyncTypeOK, [SyncNext]_syncVars
    PROVE  Gone \subseteq Gone'
<1>1. ASSUME NEW S, UpsertVideos(S) PROVE videos \subseteq videos'
    BY <1>1 DEF UpsertVideos
<1>2. /\ videos \subseteq videos'
      /\ withdrawn \subseteq withdrawn'
      /\ lost \subseteq lost'
    BY <1>1, ZenonT(60) DEF SyncNext, syncVars, youtube, catalogue, PublishVideo, Withdraw, SubscribeChannel, UnsubscribeChannel,
                ImportSubscriptions, BulkUnsubscribeChannels, Edit, RememberVideo, Crash,
                RefreshLocal, Refresh, LoadMarkers, Cancel, ReturnRefresh, FetchFeed, FeedFails,
                StoreVideos, MoveMarker, StorageFails, Abandon
<1>. QED  BY <1>2 DEF Gone

LEMMA PublishKeepsFeed ==
    ASSUME SyncAssumption, SyncInv, NEW c \in Channels, PublishVideo(c), Gone \subseteq Gone'
    PROVE  FeedIsWhole'
<1>. USE DEF SyncInv
<1>1. ASSUME NEW d \in Channels, d # c, NEW n \in 1..published'[d]
      PROVE  n \in Feed(d)' \/ <<d, n>> \in Gone'
    <2>1. published'[d] = published[d] /\ withdrawn' = withdrawn
        BY <1>1, PublishStep DEF PublishVideo
    <2>2. Feed(d)' = Feed(d)
        BY <2>1 DEF Feed
    <2>. QED  BY <1>1, <2>1, <2>2 DEF FeedIsWhole
<1>2. ASSUME NEW n \in 1..published'[c]
      PROVE  n \in Feed(c)' \/ <<c, n>> \in Gone'
    <2>. DEFINE p == published[c]
    <2>1. /\ published'[c] = p + 1 /\ withdrawn' = withdrawn /\ videos' = videos
          /\ p \in Nat /\ n \in Nat /\ n >= 1 /\ n <= p + 1 /\ Window \in Nat /\ Window >= 1
        BY <1>2, PublishStep DEF PublishVideo, SyncTypeOK, SyncAssumption
    <2>2. ASSUME n > p + 1 - Window, <<c, n>> \notin withdrawn PROVE n \in Feed(c)'
        BY <2>1, <2>2 DEF Feed
    <2>3. ASSUME <<c, n>> \in withdrawn PROVE <<c, n>> \in Gone'
        BY <2>1, <2>3 DEF Gone
    <2>4. ASSUME ~(n > p + 1 - Window) PROVE <<c, n>> \in Gone'
        <3>1. n \in 1..p
            BY <2>1, <2>4
        <3>2. CASE <<c, n>> \in Gone
            BY <3>2
        <3>3. CASE n \in Feed(c)
            <4>1. n \in {m \in Feed(c) : m <= p + 1 - Window}
                BY <2>1, <2>4, <3>3
            <4>2. <<c, n>> \in lost' \/ <<c, n>> \in videos
                BY <4>1, PublishStep
            <4>. QED  BY <2>1, <4>2 DEF Gone
        <3>. QED  BY <3>1, <3>2, <3>3 DEF FeedIsWhole
    <2>. QED  BY <2>4, <2>3, <2>2
<1>. QED  BY <1>1, <1>2 DEF FeedIsWhole

LEMMA WithdrawKeepsFeed ==
    ASSUME SyncInv, Withdraw, Gone \subseteq Gone'
    PROVE  FeedIsWhole'
<1>1. published' = published
    BY DEF Withdraw
<1>2. ASSUME NEW c \in Channels, NEW n \in 1..published[c], n \in Feed(c)
      PROVE  n \in Feed(c)' \/ <<c, n>> \in Gone'
    BY <1>1, <1>2 DEF Feed, Gone
<1>. QED  BY <1>1, <1>2 DEF SyncInv, FeedIsWhole

\* Before the new videos of a feed every video is gone or listed with them.
LEMMA FetchCovered ==
    ASSUME SyncAssumption, SyncInv, NEW r \in Refreshes, NEW c \in Channels, FetchFeed(r, c),
           Gone \subseteq Gone'
    PROVE  WorkerCovered(Gone', c, worker'[r][c])
<1>. DEFINE marker == refresh[r].markers[c]
            new == NewVideos(Feed(c), marker)
<1>0. \/ worker'[r][c] = [at |-> "done"]
      \/ new # {} /\ worker'[r][c] = [at |-> "fetched", new |-> new]
    BY FetchStep DEF SyncInv
<1>1. SUFFICES ASSUME new # {}, NEW n \in 1..Newest(new), n \notin new
               PROVE  <<c, n>> \in Gone
    <2>. HIDE DEF new
    <2>. QED  BY <1>0 DEF WorkerCovered
<1>2. new \subseteq Feed(c) /\ Feed(c) \subseteq 1..published[c] /\ published[c] \in Nat
    BY FeedType, NewVideosListed DEF SyncInv, SyncAssumption
<1>3. Newest(new) \in new
    <2>. HIDE DEF new
    <2>. QED  BY <1>1, <1>2, NewestIsGreatest
<1>4. n \in 1..published[c]
    <2>. HIDE DEF new
    <2>. QED  BY <1>1, <1>2, <1>3
<1>5. CASE n \notin Feed(c)
    BY <1>4, <1>5 DEF SyncInv, FeedIsWhole
<1>6. CASE n \in Feed(c)
    <2>1. ~(n > marker) /\ marker \in Feed(c)
        BY <1>1, <1>6, NewVideosListed
    <2>2. marker \in Nat /\ n \in 1..marker
        <3>1. marker \in 1..published[c]
            BY <1>2, <2>1
        <3>. QED  BY <1>2, <1>4, <2>1, <3>1
    <2>3. refresh[r].at = "syncing"
        BY DEF FetchFeed, MayFetch, Running
    <2>. QED  BY <2>2, <2>3 DEF SyncInv, CallsCovered, Covered
<1>. QED  BY <1>5, <1>6

\* The newest video stored covers the marker that names it.
LEMMA StoreCovered ==
    ASSUME SyncAssumption, SyncInv, NEW r \in Refreshes, NEW c \in Channels, StoreVideos(r, c),
           Gone \subseteq Gone'
    PROVE  WorkerCovered(Gone', c, worker'[r][c])
<1>. DEFINE new == worker[r][c].new
<1>1. /\ new # {}
      /\ \A n \in 1..Newest(new) : n \in new \/ <<c, n>> \in Gone
    BY DEF SyncInv, StoreVideos, WorkersCovered, WorkerCovered
<1>2. worker'[r][c] = [at |-> "stored", marker |-> Newest(new), error |-> FALSE]
    BY <1>1, StoreStep DEF SyncInv
<1>3. \A n \in new : <<c, n>> \in videos'
    <2>1. UpsertVideos({<<c, n>> : n \in new})
        BY DEF StoreVideos
    <2>2. videos' = videos \cup {<<c, n>> : n \in new}
        BY <2>1 DEF UpsertVideos
    <2>. HIDE DEF new
    <2>. QED  BY <2>2
<1>4. \A n \in new : <<c, n>> \in Gone'
    BY <1>3 DEF Gone
<1>. HIDE DEF new
<1>5. Covered(Gone', c, Newest(new))
    BY <1>1, <1>4 DEF Covered
<1>. QED  BY <1>2, <1>5 DEF WorkerCovered

LEMMA FeedFailsCovered ==
    ASSUME SyncInv, NEW r \in Refreshes, NEW c \in Channels, FeedFails(r, c), Gone \subseteq Gone'
    PROVE  WorkerCovered(Gone', c, worker'[r][c])
<1>1. worker'[r][c] = [at |-> "stored", marker |-> refresh[r].markers[c], error |-> TRUE]
    BY FeedFailsStep DEF SyncInv
<1>2. Covered(Gone, c, refresh[r].markers[c])
    BY DEF SyncInv, FeedFails, MayFetch, Running, CallsCovered
<1>. QED  BY <1>1, <1>2 DEF WorkerCovered, Covered

\* One refresh moves and the others stay.
LEMMA CallMoves ==
    ASSUME CallsCovered, Gone \subseteq Gone', NEW r \in Refreshes,
           \A s \in Refreshes : s # r => refresh'[s] = refresh[s],
           refresh'[r].at = "syncing" =>
               \/ refresh[r].at = "syncing" /\ refresh'[r].markers = refresh[r].markers
               \/ \A c \in Channels : Covered(Gone', c, refresh'[r].markers[c])
    PROVE  CallsCovered'
<1>1. SUFFICES ASSUME NEW s \in Refreshes, refresh'[s].at = "syncing", NEW c \in Channels
               PROVE  Covered(Gone', c, refresh'[s].markers[c])
    BY DEF CallsCovered
<1>2. CASE s # r
    BY <1>1, <1>2, SyncCallsStay
<1>3. CASE s = r
    BY <1>1, <1>3 DEF CallsCovered, Covered
<1>. QED  BY <1>2, <1>3

\* One goroutine moves and the others stay.
LEMMA WorkerMoves ==
    ASSUME WorkersCovered, Gone \subseteq Gone', NEW r \in Refreshes, NEW c \in Channels,
           \A s \in Refreshes, d \in Channels : s # r \/ d # c => worker'[s][d] = worker[s][d],
           WorkerCovered(Gone', c, worker'[r][c])
    PROVE  WorkersCovered'
<1>1. SUFFICES ASSUME NEW s \in Refreshes, NEW d \in Channels
               PROVE  WorkerCovered(Gone', d, worker'[s][d])
    BY DEF WorkersCovered
<1>2. CASE s # r \/ d # c
    BY <1>2, WorkerStays
<1>3. CASE s = r /\ d = c
    BY <1>3
<1>. QED  BY <1>2, <1>3

LEMMA NothingMoves ==
    ASSUME Gone \subseteq Gone'
    PROVE  /\ CallsCovered /\ refresh' = refresh => CallsCovered'
           /\ WorkersCovered /\ worker' = worker => WorkersCovered'
<1>1. ASSUME CallsCovered, refresh' = refresh PROVE CallsCovered'
    BY <1>1 DEF CallsCovered, Covered
<1>2. ASSUME WorkersCovered, worker' = worker PROVE WorkersCovered'
    BY <1>2 DEF WorkersCovered, WorkerCovered, Covered
<1>. QED  BY <1>1, <1>2

\* A goroutine that is done or waits carries nothing.
LEMMA RestCovered ==
    ASSUME NEW gone, NEW c
    PROVE  WorkerCovered(gone, c, [at |-> "done"]) /\ WorkerCovered(gone, c, Waiting)
BY DEF WorkerCovered, Waiting

\* The steps that touch no refresh.
LEMMA OutsideStep ==
    ASSUME SyncAssumption, SyncInv, Gone \subseteq Gone',
           \/ \E c \in Channels : PublishVideo(c) \/ SubscribeChannel(c) \/ UnsubscribeChannel(c)
           \/ Withdraw \/ ImportSubscriptions \/ BulkUnsubscribeChannels \/ RememberVideo
           \/ UNCHANGED syncVars
    PROVE  SyncInv'
<1>. USE DEF SyncInv
<1>1. ASSUME NEW c \in Channels, PublishVideo(c) PROVE SyncInv'
    <2>1. UNCHANGED <<withdrawn, account, row, videos, index, refresh, worker>>
        BY <1>1 DEF PublishVideo
    <2>2. SyncTypeOK'
        BY <1>1, <2>1, PublishStep DEF SyncTypeOK
    <2>. QED  BY <1>1, <2>1, <2>2, PublishKeepsFeed, NothingMoves, RowsStay
<1>2. CASE Withdraw
    <2>1. UNCHANGED <<published, account, row, videos, index, refresh, worker, lost>>
        BY <1>2 DEF Withdraw
    <2>2. withdrawn' \subseteq Ids
        <3>1. PICK c \in Channels : \E n \in Feed(c) : withdrawn' = withdrawn \cup {<<c, n>>}
            BY <1>2 DEF Withdraw
        <3>2. PICK n \in Feed(c) : withdrawn' = withdrawn \cup {<<c, n>>}
            BY <3>1
        <3>3. n \in 1..MaxVideos
            BY FeedType DEF SyncAssumption
        <3>. QED  BY <3>2, <3>3 DEF SyncTypeOK, Ids
    <2>3. SyncTypeOK'
        BY <2>1, <2>2 DEF SyncTypeOK
    <2>. QED  BY <1>2, <2>1, <2>3, WithdrawKeepsFeed, NothingMoves, RowsStay
<1>3. CASE RememberVideo
    <2>1. UNCHANGED <<youtube, row, refresh, worker, lost>>
        BY <1>3 DEF RememberVideo
    <2>2. videos' \subseteq Ids /\ index' \in [Ids -> Nat]
        BY <1>3, RememberStep, UpsertType
    <2>3. SyncTypeOK'
        BY <2>1, <2>2 DEF SyncTypeOK, youtube
    <2>. QED  BY <2>1, <2>3, FeedStays, NothingMoves, RowsStay DEF youtube
<1>4. CASE \/ ImportSubscriptions
           \/ BulkUnsubscribeChannels
           \/ \E c \in Channels : SubscribeChannel(c) \/ UnsubscribeChannel(c)
    <2>1. SyncTypeOK'
        BY <1>4, EditStep DEF SyncTypeOK, youtube, Rows
    <2>. QED  BY <1>4, <2>1, EditStep, FeedStays, NothingMoves, RowsStay DEF youtube
<1>5. CASE UNCHANGED syncVars
    <2>1. SyncTypeOK'
        BY <1>5 DEF SyncTypeOK, syncVars
    <2>. QED  BY <1>5, <2>1, FeedStays, NothingMoves, RowsStay DEF syncVars
<1>. QED  BY <1>1, <1>2, <1>3, <1>4, <1>5

\* The steps of a refresh as a whole.
LEMMA CallStep ==
    ASSUME SyncAssumption, SyncInv, Gone \subseteq Gone',
           \/ Crash
           \/ \E r \in Refreshes :
                RefreshLocal(r) \/ Refresh(r) \/ LoadMarkers(r) \/ Cancel(r) \/ ReturnRefresh(r)
    PROVE  SyncInv'
<1>. USE DEF SyncInv
<1>1. CASE Crash
    <2>1. UNCHANGED <<youtube, catalogue, lost>>
        BY <1>1 DEF Crash
    <2>2. SyncTypeOK'
        BY <1>1, <2>1, CrashStep DEF SyncTypeOK, youtube, catalogue
    <2>3. CallsCovered'
        BY <1>1, CrashStep DEF CallsCovered, Rest
    <2>4. WorkersCovered'
        BY <1>1, CrashStep, RestCovered DEF WorkersCovered
    <2>. QED  BY <2>4, <2>3, <2>2, <2>1, FeedStays, RowsStay DEF youtube, catalogue
<1>2. ASSUME NEW r \in Refreshes, RefreshLocal(r) \/ Refresh(r) PROVE SyncInv'
    <2>1. SyncTypeOK'
        BY <1>2, BeginStep DEF SyncTypeOK, youtube, Rows
    <2>2. CallsCovered'
        BY <1>2, BeginStep, CallMoves
    <2>. QED  BY <1>2, <2>1, <2>2, BeginStep, FeedStays, NothingMoves, RowsStay DEF youtube
<1>3. ASSUME NEW r \in Refreshes, LoadMarkers(r) PROVE SyncInv'
    <2>1. UNCHANGED <<youtube, catalogue, worker, lost>>
        BY <1>3 DEF LoadMarkers
    <2>2. SyncTypeOK'
        BY <1>3, <2>1, LoadStep DEF SyncTypeOK, youtube, catalogue
    <2>3. RowsCovered'
        BY <2>1, RowsStay DEF catalogue
    <2>4. \A c \in Channels : Covered(Gone', c, refresh'[r].markers[c])
        BY <1>3, <2>1, <2>3, LoadStep DEF RowsCovered, catalogue
    <2>5. CallsCovered'
        BY <1>3, <2>4, LoadStep, CallMoves
    <2>. QED  BY <2>5, <2>3, <2>2, <2>1, FeedStays, NothingMoves DEF youtube
<1>4. ASSUME NEW r \in Refreshes, Cancel(r) PROVE SyncInv'
    <2>1. UNCHANGED <<youtube, catalogue, worker, lost>>
        BY <1>4 DEF Cancel
    <2>2. SyncTypeOK'
        BY <1>4, <2>1, CancelStep DEF SyncTypeOK, youtube, catalogue
    <2>3. refresh[r].at = "syncing" /\ refresh'[r].markers = refresh[r].markers
        BY <1>4, CancelStep DEF Cancelled, Syncing
    <2>4. CallsCovered'
        BY <1>4, <2>3, CancelStep, CallMoves
    <2>. QED  BY <2>4, <2>2, <2>1, FeedStays, NothingMoves, RowsStay DEF youtube, catalogue
<1>5. ASSUME NEW r \in Refreshes, ReturnRefresh(r) PROVE SyncInv'
    <2>1. UNCHANGED <<youtube, catalogue, lost>>
        BY <1>5 DEF ReturnRefresh
    <2>2. SyncTypeOK'
        BY <1>5, <2>1, ReturnStep DEF SyncTypeOK, youtube, catalogue
    <2>3. refresh'[r].at # "syncing"
        BY <1>5, ReturnStep
    <2>4. CallsCovered'
        BY <1>5, <2>3, ReturnStep, CallMoves
    <2>5. WorkersCovered'
        <3>1. SUFFICES ASSUME NEW s \in Refreshes, NEW c \in Channels
                       PROVE  WorkerCovered(Gone', c, worker'[s][c])
            BY DEF WorkersCovered
        <3>2. CASE s = r
            BY <1>5, <3>2, ReturnStep, RestCovered
        <3>3. CASE s # r
            BY <1>5, <3>3, ReturnStep, WorkerStays
        <3>. QED  BY <3>2, <3>3
    <2>. QED  BY <2>5, <2>4, <2>2, <2>1, FeedStays, RowsStay DEF youtube, catalogue
<1>. QED  BY <1>1, <1>2, <1>3, <1>4, <1>5

\* The steps of one worker.
LEMMA WorkerStep ==
    ASSUME SyncAssumption, SyncInv, Gone \subseteq Gone', NEW r \in Refreshes, NEW c \in Channels,
           \/ FetchFeed(r, c) \/ FeedFails(r, c) \/ StoreVideos(r, c)
           \/ MoveMarker(r, c) \/ StorageFails(r, c) \/ Abandon(r, c)
    PROVE  SyncInv'
<1>. USE DEF SyncInv
<1>1. CASE FetchFeed(r, c)
    <2>1. UNCHANGED <<youtube, catalogue, lost>>
        BY <1>1 DEF FetchFeed
    <2>2. SyncTypeOK'
        BY <1>1, <2>1, FetchStep DEF SyncTypeOK, youtube, catalogue
    <2>3. refresh[r].at = "syncing" /\ refresh'[r].markers = refresh[r].markers
        BY <1>1, FetchStep DEF Syncing
    <2>4. CallsCovered'
        BY <1>1, <2>3, FetchStep, CallMoves
    <2>5. WorkersCovered'
        BY <1>1, FetchStep, FetchCovered, WorkerMoves
    <2>. QED  BY <2>5, <2>4, <2>2, <2>1, FeedStays, RowsStay DEF youtube, catalogue
<1>2. CASE FeedFails(r, c)
    <2>1. UNCHANGED <<youtube, catalogue, lost>>
        BY <1>2 DEF FeedFails
    <2>2. SyncTypeOK'
        BY <1>2, <2>1, FeedFailsStep DEF SyncTypeOK, youtube, catalogue
    <2>3. refresh[r].at = "syncing" /\ refresh'[r].markers = refresh[r].markers
        BY <1>2, FeedFailsStep DEF Syncing, Reported
    <2>4. CallsCovered'
        BY <1>2, <2>3, FeedFailsStep, CallMoves
    <2>5. WorkersCovered'
        BY <1>2, FeedFailsStep, FeedFailsCovered, WorkerMoves
    <2>. QED  BY <2>5, <2>4, <2>2, <2>1, FeedStays, RowsStay DEF youtube, catalogue
<1>3. CASE StoreVideos(r, c)
    <2>1. UNCHANGED <<youtube, row, refresh, lost>>
        BY <1>3 DEF StoreVideos
    <2>2. worker[r][c].new # {}
        BY <1>3 DEF StoreVideos, WorkersCovered, WorkerCovered
    <2>3. videos' \subseteq Ids /\ index' \in [Ids -> Nat]
        BY <1>3, <2>2, StoreStep, UpsertType
    <2>4. SyncTypeOK'
        BY <1>3, <2>3, <2>2, <2>1, StoreStep DEF SyncTypeOK, youtube
    <2>5. WorkersCovered'
        BY <1>3, <2>2, StoreStep, StoreCovered, WorkerMoves
    <2>. QED  BY <2>5, <2>4, <2>1, FeedStays, NothingMoves, RowsStay DEF youtube
<1>4. CASE MoveMarker(r, c)
    <2>1. UNCHANGED <<youtube, videos, index, refresh, lost>>
        BY <1>4 DEF MoveMarker
    <2>2. SyncTypeOK'
        BY <1>4, <2>1, MoveStep DEF SyncTypeOK, youtube, Rows
    <2>3. Covered(Gone, c, worker[r][c].marker)
        BY <1>4 DEF MoveMarker, WorkersCovered, WorkerCovered
    <2>4. ASSUME NEW d \in Channels PROVE Covered(Gone', d, row'[d].marker)
        BY <1>4, <2>3, MoveStep DEF RowsCovered, Covered
    <2>5. RowsCovered'
        BY <2>4 DEF RowsCovered
    <2>6. WorkersCovered'
        BY <1>4, MoveStep, RestCovered, WorkerMoves
    <2>. QED  BY <2>6, <2>5, <2>2, <2>1, FeedStays, NothingMoves DEF youtube
<1>5. CASE StorageFails(r, c)
    <2>1. UNCHANGED <<youtube, catalogue, lost>>
        BY <1>5 DEF StorageFails
    <2>2. SyncTypeOK'
        BY <1>5, <2>1, CancelStep, DropStep DEF SyncTypeOK, youtube, catalogue
    <2>3. refresh[r].at = "syncing" /\ refresh'[r].markers = refresh[r].markers
        BY <1>5, CancelStep DEF Cancelled, Syncing
    <2>4. CallsCovered'
        BY <1>5, <2>3, CancelStep, CallMoves
    <2>5. WorkersCovered'
        BY <1>5, DropStep, RestCovered, WorkerMoves
    <2>. QED  BY <2>5, <2>4, <2>2, <2>1, FeedStays, RowsStay DEF youtube, catalogue
<1>6. CASE Abandon(r, c)
    <2>1. UNCHANGED <<youtube, catalogue, refresh, lost>>
        BY <1>6 DEF Abandon
    <2>2. SyncTypeOK'
        BY <1>6, <2>1, DropStep DEF SyncTypeOK, youtube, catalogue
    <2>3. WorkersCovered'
        BY <1>6, DropStep, RestCovered, WorkerMoves
    <2>. QED  BY <2>3, <2>2, <2>1, FeedStays, NothingMoves, RowsStay DEF youtube, catalogue
<1>. QED  BY <1>1, <1>2, <1>3, <1>4, <1>5, <1>6

LEMMA SyncStep ==
    ASSUME SyncAssumption, SyncInv, [SyncNext]_syncVars
    PROVE  SyncInv'
<1>1. Gone \subseteq Gone'
    BY GoneGrows DEF SyncInv
<1>. QED  BY <1>1, OutsideStep, CallStep, WorkerStep DEF SyncNext

LEMMA InitInv ==
    ASSUME SyncAssumption, SyncInit
    PROVE  SyncInv
<1>1. SyncTypeOK
    BY SyncInitType
<1>2. FeedIsWhole
    BY DEF SyncInit, FeedIsWhole, Feed, SyncAssumption, Gone
<1>3. CallsCovered /\ WorkersCovered
    BY RestCovered DEF SyncInit, CallsCovered, WorkersCovered, Rest
<1>4. RowsCovered
    BY DEF SyncInit, RowsCovered, Row, Covered
<1>. QED  BY <1>1, <1>2, <1>3, <1>4 DEF SyncInv

\* The marker of a channel never passes a video that is not stored, whatever
\* crashed, failed or overlapped, for any number of refreshes.
THEOREM NoVideoIsSkipped ==
    ASSUME SyncAssumption
    PROVE  SyncSpec => []NoVideoSkipped
<1>1. SyncInv => NoVideoSkipped
    BY DEF SyncInv, RowsCovered, Covered, Gone, NoVideoSkipped
<1>. QED  BY <1>1, InitInv, SyncStep, PTL DEF SyncSpec

\* The variables of the subscriptions and of their refreshes keep their types.
THEOREM SyncTyped ==
    ASSUME SyncAssumption
    PROVE  SyncSpec => []SyncTypeOK
<1>1. SyncInv => SyncTypeOK
    BY DEF SyncInv
<1>. QED  BY <1>1, InitInv, SyncStep, PTL DEF SyncSpec

------------------------------------------------------------
(* The failures *)

\* A video a refresh has fetched is stored, or its goroutine still carries it.
FetchedKept(stored, task, w, v) ==
    /\ v[1] \in task.channels \ task.errors
    /\ w[v[1]].at # "waiting"
    /\ \/ task.cancelled
       \/ v \in stored
       \/ w[v[1]].at = "fetched" /\ v[2] \in w[v[1]].new

CallLocal(stored, task, w) ==
    /\ task.at = "syncing" =>
        /\ task.cancelled => task.broken
        /\ \A v \in task.fetched : FetchedKept(stored, task, w, v)
        /\ \A c \in task.errors : w[c].at # "waiting"
    /\ task.at = "returned" =>
        /\ ~task.ok => task.broken
        /\ task.ok => \A v \in task.fetched : v \in stored /\ v[1] \in task.channels \ task.errors

CallsLocal == \A r \in Refreshes : CallLocal(videos, refresh[r], worker[r])

\* A refresh that stays, and the goroutines it has.
LEMMA LocalStays ==
    ASSUME SyncTypeOK, CallsLocal, videos \subseteq videos', NEW r \in Refreshes,
           refresh'[r] = refresh[r], \A c \in Channels : worker'[r][c] = worker[r][c]
    PROVE  CallLocal(videos', refresh'[r], worker'[r])
<1>. DEFINE task == refresh[r]
<1>1. CallLocal(videos, task, worker[r])
    BY DEF CallsLocal
<1>2. CASE task.at = "syncing"
    <2>1. task \in Syncing
        BY <1>2, SyncCallFields
    <2>2. \A v \in task.fetched : v[1] \in Channels
        BY <2>1 DEF Syncing, Ids
    <2>3. \A c \in task.errors : c \in Channels
        BY <2>1 DEF Syncing
    <2>4. ASSUME NEW v \in task.fetched PROVE FetchedKept(videos', task, worker'[r], v)
        BY <1>1, <1>2, <2>2 DEF CallLocal, FetchedKept
    <2>. QED  BY <1>1, <1>2, <2>3, <2>4 DEF CallLocal
<1>3. CASE task.at # "syncing"
    BY <1>1, <1>3 DEF CallLocal
<1>. QED  BY <1>2, <1>3

LEMMA LocalMoves ==
    ASSUME SyncTypeOK, CallsLocal, videos \subseteq videos', NEW r \in Refreshes,
           \A s \in Refreshes : s # r => refresh'[s] = refresh[s],
           \A s \in Refreshes, c \in Channels : s # r => worker'[s][c] = worker[s][c],
           CallLocal(videos', refresh'[r], worker'[r])
    PROVE  CallsLocal'
BY LocalStays DEF CallsLocal

LEMMA FetchLocal ==
    ASSUME SyncAssumption, SyncTypeOK, CallsLocal, NEW r \in Refreshes, NEW c \in Channels,
           FetchFeed(r, c)
    PROVE  CallsLocal'
<1>. DEFINE task == refresh[r]
            new == NewVideos(Feed(c), task.markers[c])
<1>1. /\ Running(r) /\ c \in task.channels /\ worker[r][c].at = "waiting"
      /\ videos' = videos
    BY DEF FetchFeed, MayFetch, catalogue
<1>2. task \in Syncing /\ CallLocal(videos, task, worker[r]) /\ new \subseteq 1..MaxVideos
    BY FetchStep DEF CallsLocal
<1>3. c \notin task.errors
    BY <1>1, <1>2 DEF CallLocal, Running
<1>4. /\ refresh'[r] = [task EXCEPT !.fetched = @ \cup {<<c, n>> : n \in new}]
      /\ \/ new = {} /\ worker'[r][c].at = "done"
         \/ new # {} /\ worker'[r][c].at = "fetched" /\ worker'[r][c].new = new
      /\ \A d \in Channels : d # c => worker'[r][d] = worker[r][d]
    <2>1. refresh'[r] = [task EXCEPT !.fetched = @ \cup {<<c, n>> : n \in new}]
        BY FetchStep
    <2>2. \/ new = {} /\ worker'[r][c] = [at |-> "done"]
          \/ new # {} /\ worker'[r][c] = [at |-> "fetched", new |-> new]
        BY FetchStep
    <2>3. \A s \in Refreshes, d \in Channels : s # r \/ d # c => worker'[s][d] = worker[s][d]
        BY FetchStep
    <2>. HIDE DEF new
    <2>. QED  BY <2>3, <2>2, <2>1
<1>. HIDE DEF new
<1>5. /\ refresh'[r].at = "syncing" /\ refresh'[r].channels = task.channels
      /\ refresh'[r].errors = task.errors
      /\ refresh'[r].cancelled = task.cancelled /\ refresh'[r].broken = task.broken
      /\ refresh'[r].fetched = task.fetched \cup {<<c, n>> : n \in new}
    BY <1>2, <1>4 DEF Syncing
<1>6. ASSUME NEW v \in task.fetched PROVE FetchedKept(videos', refresh'[r], worker'[r], v)
    <2>1. FetchedKept(videos, task, worker[r], v)
        BY <1>1, <1>2 DEF CallLocal, Running
    <2>2. v[1] \in Channels /\ v[1] # c
        BY <1>1, <1>2, <2>1 DEF FetchedKept, Syncing, Ids
    <2>. QED  BY <1>1, <1>4, <1>5, <2>1, <2>2 DEF FetchedKept
<1>7. ASSUME NEW n \in new PROVE FetchedKept(videos', refresh'[r], worker'[r], <<c, n>>)
    BY <1>1, <1>3, <1>4, <1>5 DEF FetchedKept
<1>8. ASSUME NEW d \in task.errors PROVE worker'[r][d].at # "waiting"
    <2>1. d \in Channels /\ d # c
        BY <1>2, <1>3 DEF Syncing
    <2>. QED  BY <1>1, <1>2, <1>4, <2>1 DEF CallLocal, Running
<1>9. task.cancelled => task.broken
    BY <1>1 DEF Running
<1>10. CallLocal(videos', refresh'[r], worker'[r])
    BY <1>5, <1>6, <1>7, <1>8, <1>9 DEF CallLocal
<1>11. /\ \A s \in Refreshes : s # r => refresh'[s] = refresh[s]
       /\ \A s \in Refreshes, d \in Channels : s # r => worker'[s][d] = worker[s][d]
    <2>1. \A s \in Refreshes, d \in Channels : s # r \/ d # c => worker'[s][d] = worker[s][d]
        BY FetchStep
    <2>2. \A s \in Refreshes : s # r => refresh'[s] = refresh[s]
        BY FetchStep
    <2>. QED  BY <2>1, <2>2
<1>. QED  BY <1>1, <1>10, <1>11, LocalMoves

LEMMA FeedFailsLocal ==
    ASSUME SyncTypeOK, CallsLocal, NEW r \in Refreshes, NEW c \in Channels, FeedFails(r, c)
    PROVE  CallsLocal'
<1>. DEFINE task == refresh[r]
<1>1. /\ Running(r) /\ worker[r][c].at = "waiting"
      /\ videos' = videos
    BY DEF FeedFails, MayFetch, catalogue
<1>2. task \in Syncing /\ CallLocal(videos, task, worker[r])
    BY FeedFailsStep DEF CallsLocal
<1>3. /\ refresh'[r].at = "syncing" /\ refresh'[r].channels = task.channels
      /\ refresh'[r].errors = task.errors \cup {c}
      /\ refresh'[r].cancelled = task.cancelled /\ refresh'[r].broken = task.broken
      /\ refresh'[r].fetched = task.fetched
    <2>1. refresh'[r] = Reported(task, c)
        BY FeedFailsStep
    <2>. QED  BY <1>1, <1>2, <2>1 DEF Syncing, Reported, Running
<1>4. /\ worker'[r][c].at = "stored"
      /\ \A d \in Channels : d # c => worker'[r][d] = worker[r][d]
    <2>1. worker'[r][c] = [at |-> "stored", marker |-> task.markers[c], error |-> TRUE]
        BY FeedFailsStep
    <2>2. \A d \in Channels : d # c => worker'[r][d] = worker[r][d]
        BY FeedFailsStep
    <2>. QED  BY <2>1, <2>2
<1>5. ASSUME NEW v \in task.fetched PROVE FetchedKept(videos', refresh'[r], worker'[r], v)
    <2>1. FetchedKept(videos, task, worker[r], v)
        BY <1>1, <1>2 DEF CallLocal, Running
    <2>2. v[1] \in Channels /\ v[1] # c
        BY <1>1, <1>2, <2>1 DEF FetchedKept, Syncing, Ids
    <2>. QED  BY <1>1, <1>3, <1>4, <2>1, <2>2 DEF FetchedKept
<1>6. ASSUME NEW d \in task.errors \cup {c} PROVE worker'[r][d].at # "waiting"
    <2>1. d \in Channels
        BY <1>2 DEF Syncing
    <2>. QED  BY <1>1, <1>2, <1>4, <2>1 DEF CallLocal, Running
<1>7. CallLocal(videos', refresh'[r], worker'[r])
    BY <1>1, <1>3, <1>5, <1>6 DEF CallLocal, Running
<1>. QED  BY <1>1, <1>7, FeedFailsStep, LocalMoves, ZenonT(60)

LEMMA StoreLocal ==
    ASSUME SyncAssumption, SyncInv, CallsLocal, NEW r \in Refreshes, NEW c \in Channels,
           StoreVideos(r, c)
    PROVE  CallsLocal'
<1>. DEFINE task == refresh[r]
            new == worker[r][c].new
<1>1. /\ Running(r) /\ worker[r][c].at = "fetched" /\ UNCHANGED refresh
      /\ UpsertVideos({<<c, n>> : n \in new})
    BY DEF StoreVideos
<1>2. new # {}
    BY <1>1 DEF SyncInv, WorkersCovered, WorkerCovered
<1>3. task \in Syncing /\ CallLocal(videos, task, worker[r])
    BY <1>1, SyncCallFields DEF SyncInv, CallsLocal, Running
<1>4. videos' = videos \cup {<<c, n>> : n \in new}
    BY <1>1 DEF UpsertVideos
<1>5. /\ worker'[r][c].at = "stored"
      /\ \A s \in Refreshes, d \in Channels : s # r \/ d # c => worker'[s][d] = worker[s][d]
    <2>1. worker'[r][c] = [at |-> "stored", marker |-> Newest(new), error |-> FALSE]
        BY <1>2, StoreStep DEF SyncInv
    <2>2. \A s \in Refreshes, d \in Channels : s # r \/ d # c => worker'[s][d] = worker[s][d]
        BY <1>2, StoreStep DEF SyncInv
    <2>. QED  BY <2>1, <2>2
<1>. HIDE DEF new
<1>6. ASSUME NEW v \in task.fetched PROVE FetchedKept(videos', task, worker'[r], v)
    <2>1. FetchedKept(videos, task, worker[r], v)
        BY <1>1, <1>3 DEF CallLocal, Running
    <2>2. v[1] \in Channels /\ v = <<v[1], v[2]>>
        BY <1>3 DEF Syncing, Ids
    <2>3. CASE v[1] # c
        BY <1>4, <1>5, <2>3, <2>2, <2>1 DEF FetchedKept
    <2>4. CASE v[1] = c
        <3>1. v \in videos'
            BY <1>1, <1>4, <2>4, <2>2, <2>1 DEF FetchedKept, Running, new
        <3>. QED  BY <1>5, <2>1, <2>4, <3>1 DEF FetchedKept
    <2>. QED  BY <2>3, <2>4
<1>7. ASSUME NEW d \in task.errors PROVE worker'[r][d].at # "waiting"
    <2>1. d \in Channels
        BY <1>3 DEF Syncing
    <2>. QED  BY <1>1, <1>3, <1>5, <2>1 DEF CallLocal, Running
<1>8. CallLocal(videos', refresh'[r], worker'[r])
    BY <1>1, <1>6, <1>7 DEF CallLocal, Running
<1>. QED  BY <1>1, <1>4, <1>5, <1>8, LocalMoves DEF SyncInv

\* A goroutine that ends after it stored its videos, or in a refresh that is
\* cancelled.
LEMMA EndLocal ==
    ASSUME SyncTypeOK, CallsLocal, NEW r \in Refreshes, NEW c \in Channels, videos' = videos,
           refresh[r].at = "syncing", worker[r][c].at = "stored" \/ refresh'[r].cancelled,
           \/ refresh'[r] = refresh[r]
           \/ refresh'[r] = Cancelled(refresh[r]),
           \A s \in Refreshes : s # r => refresh'[s] = refresh[s],
           worker'[r][c].at = "done",
           \A s \in Refreshes, d \in Channels : s # r \/ d # c => worker'[s][d] = worker[s][d]
    PROVE  CallsLocal'
<1>. DEFINE task == refresh[r]
<1>1. task \in Syncing /\ CallLocal(videos, task, worker[r])
    BY SyncCallFields DEF CallsLocal
<1>2. /\ refresh'[r].at = "syncing" /\ refresh'[r].channels = task.channels
      /\ refresh'[r].errors = task.errors /\ refresh'[r].fetched = task.fetched
      /\ task.cancelled => refresh'[r].cancelled
      /\ refresh'[r].cancelled => refresh'[r].broken
    BY <1>1 DEF Syncing, Cancelled, CallLocal
<1>3. ASSUME NEW v \in task.fetched PROVE FetchedKept(videos', refresh'[r], worker'[r], v)
    <2>1. FetchedKept(videos, task, worker[r], v) /\ v[1] \in Channels
        BY <1>1 DEF CallLocal, Syncing, Ids
    <2>2. CASE v[1] # c
        BY <1>2, <2>1, <2>2 DEF FetchedKept
    <2>3. CASE v[1] = c
        BY <1>2, <2>1, <2>3 DEF FetchedKept
    <2>. QED  BY <2>2, <2>3
<1>4. ASSUME NEW d \in task.errors PROVE worker'[r][d].at # "waiting"
    <2>1. d \in Channels
        BY <1>1 DEF Syncing
    <2>. QED  BY <1>1, <2>1 DEF CallLocal
<1>5. CallLocal(videos', refresh'[r], worker'[r])
    BY <1>2, <1>3, <1>4 DEF CallLocal
<1>. QED  BY <1>5, LocalMoves

LEMMA ReturnLocal ==
    ASSUME SyncTypeOK, CallsLocal, NEW r \in Refreshes, ReturnRefresh(r)
    PROVE  CallsLocal'
<1>. DEFINE task == refresh[r]
<1>1. /\ task \in Syncing /\ task.at = "syncing" /\ CallLocal(videos, task, worker[r])
      /\ task.cancelled \/ \A c \in task.channels : worker[r][c].at = "done"
      /\ videos' = videos
    BY ReturnStep DEF CallsLocal, ReturnRefresh, catalogue
<1>2. ASSUME ~task.cancelled, NEW v \in task.fetched
      PROVE  v \in videos /\ v[1] \in task.channels \ task.errors
    BY <1>1, <1>2 DEF CallLocal, FetchedKept
<1>3. CallLocal(videos', refresh'[r], worker'[r])
    BY <1>1, <1>2, ReturnStep DEF CallLocal
<1>. QED  BY <1>1, <1>3, ReturnStep, LocalMoves

LEMMA LocalStep ==
    ASSUME SyncAssumption, SyncInv, CallsLocal, [SyncNext]_syncVars
    PROVE  CallsLocal'
<1>. USE DEF SyncInv
<1>1. ASSUME UNCHANGED <<refresh, worker>>, videos \subseteq videos' PROVE CallsLocal'
    BY <1>1, LocalStays DEF CallsLocal
<1>2. CASE \/ \E c \in Channels : PublishVideo(c) \/ SubscribeChannel(c) \/ UnsubscribeChannel(c)
           \/ Withdraw \/ ImportSubscriptions \/ BulkUnsubscribeChannels \/ UNCHANGED syncVars
    BY <1>1, <1>2 DEF PublishVideo, SubscribeChannel, UnsubscribeChannel, Withdraw, ImportSubscriptions,
                      BulkUnsubscribeChannels, Edit, syncVars
<1>3. CASE RememberVideo
    <2>1. UNCHANGED <<refresh, worker>>
        BY <1>3 DEF RememberVideo
    <2>2. PICK S : UpsertVideos(S)
        BY <1>3 DEF RememberVideo
    <2>. QED  BY <1>1, <2>1, <2>2 DEF UpsertVideos
<1>4. CASE Crash
    BY <1>4, CrashStep DEF CallsLocal, CallLocal, Rest
<1>5. ASSUME NEW r \in Refreshes, RefreshLocal(r) \/ Refresh(r) PROVE CallsLocal'
    <2>1. CallLocal(videos', refresh'[r], worker'[r])
        BY <1>5, BeginStep DEF CallLocal
    <2>. QED  BY <1>5, <2>1, BeginStep, LocalMoves
<1>6. ASSUME NEW r \in Refreshes, LoadMarkers(r) PROVE CallsLocal'
    <2>1. CallLocal(videos', refresh'[r], worker'[r])
        BY <1>6, LoadStep DEF CallLocal
    <2>2. UNCHANGED <<videos, worker>>
        BY <1>6 DEF LoadMarkers, catalogue
    <2>. QED  BY <1>6, <2>1, <2>2, LoadStep, LocalMoves
<1>7. ASSUME NEW r \in Refreshes, Cancel(r) PROVE CallsLocal'
    <2>1. UNCHANGED <<videos, worker>>
        BY <1>7 DEF Cancel, catalogue
    <2>2. /\ refresh'[r].at = "syncing"
          /\ refresh'[r].channels = refresh[r].channels
          /\ refresh'[r].errors = refresh[r].errors
          /\ refresh'[r].fetched = refresh[r].fetched
          /\ refresh'[r].cancelled /\ refresh'[r].broken
          /\ refresh[r].at = "syncing"
        BY <1>7, CancelStep, ZenonT(60) DEF Cancelled, Syncing
    <2>3. CallLocal(videos, refresh[r], worker[r])
        BY DEF CallsLocal
    <2>4. CallLocal(videos', refresh'[r], worker'[r])
        BY <2>3, <2>2, <2>1 DEF CallLocal, FetchedKept
    <2>. QED  BY <1>7, <2>1, <2>4, CancelStep, LocalMoves
<1>8. ASSUME NEW r \in Refreshes, NEW c \in Channels, MoveMarker(r, c) PROVE CallsLocal'
    <2>1. /\ refresh[r].at = "syncing" /\ worker[r][c].at = "stored"
          /\ UNCHANGED <<videos, refresh>>
        BY <1>8 DEF MoveMarker, Running
    <2>. QED  BY <1>8, <2>1, MoveStep, EndLocal
<1>9. ASSUME NEW r \in Refreshes, NEW c \in Channels, StorageFails(r, c) PROVE CallsLocal'
    <2>1. refresh[r].at = "syncing" /\ videos' = videos
        BY <1>9 DEF StorageFails, Running, catalogue
    <2>2. refresh'[r].cancelled
        BY <1>9, CancelStep DEF Cancelled, Syncing
    <2>3. /\ refresh'[r] = Cancelled(refresh[r])
          /\ \A s \in Refreshes : s # r => refresh'[s] = refresh[s]
          /\ worker'[r][c].at = "done"
        BY <1>9, CancelStep, DropStep
    <2>. QED  BY <1>9, <2>3, <2>2, <2>1, DropStep, EndLocal
<1>10. ASSUME NEW r \in Refreshes, NEW c \in Channels, Abandon(r, c) PROVE CallsLocal'
    <2>1. /\ refresh[r].at = "syncing" /\ refresh[r].cancelled
          /\ UNCHANGED <<videos, refresh>>
        BY <1>10 DEF Abandon, catalogue
    <2>. QED  BY <1>10, <2>1, DropStep, EndLocal
<1>. QED  BY <1>2, <1>3, <1>4, <1>5, <1>6, <1>7, <1>8, <1>9, <1>10,
             FetchLocal, FeedFailsLocal, StoreLocal, ReturnLocal DEF SyncNext

\* A channel that fails is reported and takes no other with it: a refresh fails
\* only when a write failed or its caller gave up, for any number of workers.
THEOREM FailuresAreLocal ==
    ASSUME SyncAssumption
    PROVE  SyncSpec => []FailuresStayLocal
<1>1. ASSUME SyncInit PROVE SyncInv /\ CallsLocal
    BY <1>1, InitInv DEF SyncInit, CallsLocal, CallLocal, Rest
<1>2. SyncInv /\ CallsLocal /\ [SyncNext]_syncVars => SyncInv' /\ CallsLocal'
    BY SyncStep, LocalStep
<1>3. CallsLocal => FailuresStayLocal
    BY DEF CallsLocal, CallLocal, FailuresStayLocal
<1>. QED  BY <1>1, <1>2, <1>3, PTL DEF SyncSpec

------------------------------------------------------------
(* The search index *)

LEMMA IndexStays ==
    ASSUME IndexFollowsCatalogue, NEW S \in SUBSET Ids, UpsertVideos(S)
    PROVE  IndexFollowsCatalogue'
BY DEF IndexFollowsCatalogue, UpsertVideos, Indexed

LEMMA IndexStep ==
    ASSUME SyncAssumption, SyncInv, IndexFollowsCatalogue, [SyncNext]_syncVars
    PROVE  IndexFollowsCatalogue'
<1>1. ASSUME NEW r \in Refreshes, NEW c \in Channels, StoreVideos(r, c)
      PROVE  IndexFollowsCatalogue'
    <2>1. worker[r][c].new # {}
        BY <1>1 DEF SyncInv, StoreVideos, WorkersCovered, WorkerCovered
    <2>2. PICK S \in SUBSET Ids : UpsertVideos(S)
        BY <1>1, <2>1, StoreStep DEF SyncInv
    <2>. QED  BY <2>2, IndexStays
<1>2. CASE RememberVideo
    <2>1. PICK S \in SUBSET Ids : UpsertVideos(S)
        BY <1>2, RememberStep DEF SyncInv
    <2>. QED  BY <2>1, IndexStays
<1>3. ASSUME UNCHANGED <<videos, index>> PROVE IndexFollowsCatalogue'
    BY <1>3 DEF IndexFollowsCatalogue
<1>4. ASSUME ~RememberVideo, \A r \in Refreshes, c \in Channels : ~StoreVideos(r, c)
      PROVE  UNCHANGED <<videos, index>>
    BY <1>4, ZenonT(60) DEF SyncNext, syncVars, youtube, catalogue, PublishVideo, Withdraw, SubscribeChannel, UnsubscribeChannel,
                ImportSubscriptions, BulkUnsubscribeChannels, Edit, Crash,
                RefreshLocal, Refresh, LoadMarkers, Cancel, ReturnRefresh, FetchFeed, FeedFails,
                MoveMarker, StorageFails, Abandon
<1>. QED  BY <1>1, <1>2, <1>3, <1>4

\* The search index has one row for each stored video and no other.
THEOREM IndexFollows ==
    ASSUME SyncAssumption
    PROVE  SyncSpec => []IndexFollowsCatalogue
<1>1. ASSUME SyncInit PROVE SyncInv /\ IndexFollowsCatalogue
    BY <1>1, InitInv DEF SyncInit, IndexFollowsCatalogue
<1>2. SyncInv /\ IndexFollowsCatalogue /\ [SyncNext]_syncVars => SyncInv' /\ IndexFollowsCatalogue'
    BY SyncStep, IndexStep
<1>. QED  BY <1>1, <1>2, PTL DEF SyncSpec

------------------------------------------------------------
(* What the playlists guarantee, while edits run in between the steps of an     *)
(* import, an export or a restore.  All of it rests on one fact about the rows  *)
(* of a playlist: each position from 0 on belongs to one video.  The operators  *)
(* that change rows keep it; the moves do since both are one shift.             *)

\* A set of numbers that is not empty has a least one.
LEMMA LeastExists ==
  ASSUME NEW S \in SUBSET Nat, S # {}
  PROVE  \E n \in S : \A m \in S : n <= m
<1>1. IsWellFoundedOn(OpToRel(<, Nat), Nat)
  BY NatLessThanWellFounded
<1>2. PICK n \in S : \A m \in S : ~(<<m, n>> \in OpToRel(<, Nat))
  BY <1>1, WFMin
<1>3. ASSUME NEW m \in S PROVE n <= m
  <2>1. m \in Nat /\ n \in Nat
    OBVIOUS
  <2>2. ~(m < n)
    BY <1>2, <2>1 DEF OpToRel
  <2>. QED  BY <2>1, <2>2
<1>. QED  BY <1>3

------------------------------------------------------------
(* The rows of one playlist. *)

Size(items) == Cardinality(DOMAIN items)

\* Each position from 0 on is taken by one video.
Arranged(items) ==
  /\ DOMAIN items \subseteq Videos
  /\ items \in [DOMAIN items -> Nat]
  /\ \A v \in DOMAIN items : items[v] < Size(items)
  /\ \A n \in Nat : n < Size(items) => \E v \in DOMAIN items : items[v] = n
  /\ \A v, w \in DOMAIN items : items[v] = items[w] => v = w

\* A playlist holds finitely many videos.
LEMMA SizeType ==
  ASSUME NEW items, DOMAIN items \subseteq Videos
  PROVE  IsFiniteSet(DOMAIN items) /\ Size(items) \in Nat
<1>1. IsFiniteSet(DOMAIN items)
  BY PlaylistAssumption, FS_Subset
<1>. QED  BY <1>1, FS_CardinalityType DEF Size

\* A playlist without rows is arranged.
LEMMA EmptyArranged == Arranged(NoRows)
<1>1. DOMAIN NoRows = {} /\ NoRows \in [DOMAIN NoRows -> Nat]
  BY DEF NoRows
<1>2. Size(NoRows) = 0
  BY <1>1, FS_EmptySet DEF Size
<1>. QED  BY <1>1, <1>2 DEF Arranged

\* The next position is the number of rows: nothing below it is free.
LEMMA NextIsSize ==
  ASSUME NEW items, Arranged(items)
  PROVE  NextPosition(items) = Size(items)
<1>. DEFINE D == DOMAIN items
            N == Size(items)
            Ns == {0} \cup {items[v] + 1 : v \in D}
            Above(n) == \A v \in D : items[v] < n
<1>1. N \in Nat /\ IsFiniteSet(D) /\ items \in [D -> Nat]
  BY SizeType DEF Arranged
<1>2. N \in Ns
  <2>1. CASE N = 0
    BY <2>1
  <2>2. CASE N # 0
    <3>1. N - 1 \in Nat /\ N - 1 < N
      BY <1>1, <2>2
    <3>2. PICK v \in D : items[v] = N - 1
      BY <3>1 DEF Arranged
    <3>3. items[v] + 1 = N
      BY <1>1, <3>2
    <3>. QED  BY <3>3
  <2>. QED  BY <2>1, <2>2
<1>3. Above(N)
  BY DEF Arranged
<1>4. ASSUME NEW n \in Ns, Above(n) PROVE n = N
  <2>0. n \in Nat
    BY <1>1
  <2>1. n <= N
    <3>1. CASE n = 0
      BY <1>1, <3>1
    <3>2. CASE \E v \in D : n = items[v] + 1
      <4>1. PICK v \in D : n = items[v] + 1
        BY <3>2
      <4>2. items[v] \in Nat /\ items[v] < N
        BY <1>1, <1>3
      <4>. QED  BY <1>1, <4>1, <4>2
    <3>. QED  BY <3>1, <3>2
  <2>2. N <= n
    <3>1. CASE N = 0
      BY <2>0, <3>1
    <3>2. CASE N # 0
      <4>1. N - 1 \in Nat /\ N - 1 < N
        BY <1>1, <3>2
      <4>2. PICK v \in D : items[v] = N - 1
        BY <4>1 DEF Arranged
      <4>3. N - 1 < n
        BY <1>4, <4>2
      <4>. QED  BY <1>1, <2>0, <4>3
    <3>. QED  BY <3>1, <3>2
  <2>. QED  BY <1>1, <2>2, <2>1, <2>0
<1>. HIDE DEF N, Ns
<1>5. NextPosition(items) = CHOOSE n \in Ns : Above(n)
  BY DEF NextPosition, Ns
<1>. QED  BY <1>2, <1>3, <1>4, <1>5 DEF N

\* addPlaylistItemsTx keeps the rows arranged.
LEMMA AppendedArranged ==
  ASSUME NEW items, Arranged(items), NEW v \in Videos
  PROVE  Arranged(Appended(items, v))
<1>1. CASE v \in DOMAIN items
  BY <1>1 DEF Appended
<1>2. CASE v \notin DOMAIN items
  <2>. DEFINE new == With(items, v, NextPosition(items))
              N == Size(items)
  <2>1. N \in Nat /\ IsFiniteSet(DOMAIN items) /\ NextPosition(items) = N /\ items \in [DOMAIN items -> Nat]
    BY SizeType, NextIsSize DEF Arranged
  <2>2. /\ DOMAIN new = DOMAIN items \cup {v} /\ new[v] = N
        /\ \A w \in DOMAIN items : new[w] = items[w]
        /\ new \in [DOMAIN new -> Nat]
    BY <1>2, <2>1 DEF With
  <2>3. Size(new) = N + 1
    BY <1>2, <2>1, <2>2, FS_AddElement DEF Size
  <2>4. Appended(items, v) = new
    BY <1>2 DEF Appended
  <2>. HIDE DEF new, N
  <2>5. \A w \in DOMAIN items : items[w] < N /\ items[w] \in Nat
    BY <2>1 DEF Arranged, N
  <2>6. ASSUME NEW n \in Nat, n < N + 1 PROVE \E w \in DOMAIN new : new[w] = n
    <3>1. CASE n = N
      BY <2>2, <3>1
    <3>2. CASE n < N
      <4>1. PICK w \in DOMAIN items : items[w] = n
        BY <3>2 DEF Arranged, N
      <4>. QED  BY <2>2, <4>1
    <3>. QED  BY <2>1, <2>6, <3>1, <3>2
  <2>7. ASSUME NEW w \in DOMAIN new, NEW u \in DOMAIN new, new[w] = new[u] PROVE w = u
    BY <2>7, <2>5, <2>2, <2>1 DEF Arranged
  <2>8. \A w \in DOMAIN new : new[w] < N + 1
    BY <2>5, <2>2, <2>1
  <2>9. DOMAIN new \subseteq Videos
    BY <2>2 DEF Arranged
  <2>. QED  BY <2>9, <2>8, <2>7, <2>6, <2>4, <2>3, <2>2 DEF Arranged
<1>. QED  BY <1>1, <1>2

\* removePlaylistItemTx closes the gap it makes.
LEMMA RemovedArranged ==
  ASSUME NEW items, Arranged(items), NEW v \in Videos
  PROVE  Arranged(Removed(items, v))
<1>1. CASE v \notin DOMAIN items
  BY <1>1 DEF Removed
<1>2. CASE v \in DOMAIN items
  <2>. DEFINE D == DOMAIN items
              new == [w \in D \ {v} |-> IF items[w] > items[v] THEN items[w] - 1 ELSE items[w]]
              N == Size(items)
  <2>1. N \in Nat /\ IsFiniteSet(D) /\ items \in [D -> Nat]
    BY SizeType DEF Arranged
  <2>2. Size(new) = N - 1
    BY <1>2, <2>1, FS_RemoveElement DEF Size
  <2>3. Removed(items, v) = new
    BY <1>2 DEF Removed
  <2>4. \A w \in D : items[w] \in Nat /\ items[w] < N
    BY <2>1 DEF Arranged
  <2>5. \A w \in D, u \in D : items[w] = items[u] => w = u
    BY DEF Arranged
  <2>6. \A n \in Nat : n < N => \E w \in D : items[w] = n
    BY DEF Arranged
  <2>7. DOMAIN new = D \ {v}
    OBVIOUS
  <2>. HIDE DEF N
  <2>8. ASSUME NEW w \in D \ {v} PROVE new[w] \in Nat /\ new[w] < N - 1
    <3>1. items[w] # items[v]
      BY <1>2, <2>5
    <3>. QED  BY <1>2, <2>1, <2>4, <3>1
  <2>9. ASSUME NEW w \in D \ {v}, NEW u \in D \ {v}, new[w] = new[u] PROVE w = u
    <3>1. items[w] # items[v] /\ items[u] # items[v]
      BY <1>2, <2>5
    <3>2. items[w] = items[u]
      BY <1>2, <2>4, <2>9, <3>1
    <3>. QED  BY <2>5, <3>2
  <2>10. ASSUME NEW n \in Nat, n < N - 1 PROVE \E w \in D \ {v} : new[w] = n
    <3>1. CASE n < items[v]
      <4>1. PICK w \in D : items[w] = n
        BY <2>10, <2>6, <2>1
      <4>. QED  BY <1>2, <2>4, <3>1, <4>1
    <3>2. CASE n >= items[v]
      <4>1. PICK w \in D : items[w] = n + 1
        <5>1. n + 1 \in Nat /\ n + 1 < N
          BY <2>1, <2>10
        <5>. QED  BY <2>6, <5>1
      <4>. QED  BY <1>2, <2>4, <3>2, <4>1
    <3>. QED  BY <1>2, <2>4, <3>1, <3>2
  <2>11. new = [w \in DOMAIN new |-> new[w]] /\ DOMAIN new \subseteq Videos
    BY <2>7 DEF Arranged
  <2>. HIDE DEF new
  <2>. QED  BY <2>11, <2>10, <2>9, <2>8, <2>7, <2>3, <2>2, <2>1 DEF Arranged
<1>. QED  BY <1>1, <1>2

\* The states of a call that names several videos exist, by their number.
LEMMA ChangesEach ==
  ASSUME NEW change, NEW items, NEW batch \in Seq(Videos)
  PROVE  LET g == ChangeStates(change, items, batch) IN
         g = [n \in 0..Len(batch) |-> IF n = 0 THEN items ELSE Changed(change, g[n - 1], batch[n])]
<1>. DEFINE Next1(g, n) == IF n = 0 THEN items ELSE Changed(change, g[n - 1], batch[n])
            Some(m) == \E g : g = [n \in 0..m |-> Next1(g, n)]
            Missing == {m \in Nat : ~Some(m)}
<1>1. Some(0)
  <2>. DEFINE g == [n \in 0..0 |-> items]
  <2>1. g = [n \in 0..0 |-> Next1(g, n)]
    OBVIOUS
  <2>. QED  BY <2>1
<1>2. ASSUME NEW m \in Nat, m # 0, Some(m - 1) PROVE Some(m)
  <2>1. PICK g : g = [n \in 0..m - 1 |-> Next1(g, n)]
    BY <1>2
  <2>. DEFINE last == Changed(change, g[m - 1], batch[m])
              h == [n \in 0..m |-> IF n = m THEN last ELSE g[n]]
  <2>2. ASSUME NEW n \in 0..m PROVE h[n] = Next1(h, n)
    <3>1. CASE n = m
      <4>1. h[m - 1] = g[m - 1] /\ h[m] = last
        BY <1>2
      <4>. HIDE DEF h
      <4>. QED  BY <1>2, <3>1, <4>1
    <3>2. CASE n # m
      <4>1. n \in 0..m - 1 /\ h[n] = g[n] /\ (n # 0 => h[n - 1] = g[n - 1])
        BY <1>2, <3>2
      <4>. HIDE DEF h
      <4>2. g[n] = Next1(g, n)
        BY <2>1, <4>1
      <4>. QED  BY <4>1, <4>2
    <3>. QED  BY <3>1, <3>2
  <2>3. h = [n \in 0..m |-> h[n]]
    OBVIOUS
  <2>. HIDE DEF h, Next1
  <2>4. h = [n \in 0..m |-> Next1(h, n)]
    BY <2>2, <2>3
  <2>. QED  BY <2>4
<1>. HIDE DEF Some, Next1
<1>3. Missing = {}
  <2>. SUFFICES ASSUME Missing # {} PROVE FALSE
    OBVIOUS
  <2>1. PICK m \in Missing : \A n \in Missing : m <= n
    BY LeastExists
  <2>2. m # 0 /\ m - 1 \in Nat /\ ~(m - 1 \in Missing)
    BY <1>1, <2>1
  <2>. QED  BY <1>2, <2>1, <2>2
<1>4. Len(batch) \in Nat
  BY LenProperties
<1>5. Some(Len(batch))
  BY <1>3, <1>4
<1>6. PICK g : g = [n \in 0..Len(batch) |-> Next1(g, n)]
  BY <1>5 DEF Some
<1>. QED  BY <1>6 DEF ChangeStates, Next1

\* What each change keeps is kept by all of them.
LEMMA ChangesArranged ==
  ASSUME NEW change, NEW items, Arranged(items), NEW batch \in Seq(Videos)
  PROVE  Arranged(ChangeStates(change, items, batch)[Len(batch)])
<1>. DEFINE N == Len(batch)
            g == ChangeStates(change, items, batch)
            Bad == {n \in 0..N : ~Arranged(g[n])}
<1>1. N \in Nat /\ \A n \in 1..N : batch[n] \in Videos
  BY LenProperties, ElementOfSeq
<1>2. g = [n \in 0..N |-> IF n = 0 THEN items ELSE Changed(change, g[n - 1], batch[n])]
  BY ChangesEach
<1>. HIDE DEF g, N
<1>4. ASSUME Bad # {} PROVE FALSE
  <2>0. Bad \subseteq Nat
    BY <1>1
  <2>1. PICK n \in Bad : \A m \in Bad : n <= m
    BY <1>4, <2>0, LeastExists
  <2>2. n # 0
    <3>1. g[0] = items
      BY <1>1, <1>2
    <3>. QED  BY <2>1, <3>1
  <2>3. n \in 1..N /\ n - 1 \in 0..N /\ n - 1 \notin Bad
    BY <1>1, <2>2, <2>1, <2>0
  <2>4. Arranged(g[n - 1]) /\ batch[n] \in Videos
    BY <1>1, <2>3
  <2>5. g[n] = Changed(change, g[n - 1], batch[n])
    BY <1>2, <2>2, <2>3
  <2>. HIDE DEF Bad
  <2>6. Arranged(g[n])
    BY <2>4, <2>5, AppendedArranged, RemovedArranged DEF Changed
  <2>. QED  BY <2>1, <2>6 DEF Bad
<1>. QED  BY <1>1, <1>4 DEF g, N

\* The rows by position.
LEMMA OrderedOf ==
  ASSUME NEW items, Arranged(items)
  PROVE  /\ Ordered(items) \in Seq(DOMAIN items) /\ Len(Ordered(items)) = Size(items)
         /\ DOMAIN Ordered(items) = 1..Size(items)
         /\ \A n \in 1..Size(items) : Ordered(items)[n] \in DOMAIN items /\ items[Ordered(items)[n]] = n - 1
         /\ \A v \in DOMAIN items : items[v] + 1 \in 1..Size(items) /\ Ordered(items)[items[v] + 1] = v
<1>. DEFINE D == DOMAIN items
            N == Size(items)
            order == Ordered(items)
<1>1. N \in Nat /\ IsFiniteSet(D) /\ items \in [D -> Nat]
  BY SizeType DEF Arranged
<1>2. ASSUME NEW v \in D PROVE Cardinality(Before(items, v)) = items[v]
  <2>. DEFINE B == Before(items, v)
              k == items[v]
              f == [w \in B |-> items[w]]
  <2>1. k \in Nat /\ k < N
    BY <1>1 DEF Arranged
  <2>2. B \subseteq D /\ IsFiniteSet(B)
    BY <1>1, FS_Subset DEF Before
  <2>3. \A w \in B : items[w] \in 0..(k - 1)
    BY <1>1, <2>1 DEF Before
  <2>4. \A n \in 0..(k - 1) : \E w \in B : items[w] = n
    <3>. SUFFICES ASSUME NEW n \in 0..(k - 1) PROVE \E w \in B : items[w] = n
      OBVIOUS
    <3>1. n \in Nat /\ n < N /\ n < k
      BY <1>1, <2>1
    <3>2. PICK w \in D : items[w] = n
      BY <3>1 DEF Arranged
    <3>. QED  BY <3>1, <3>2 DEF Before
  <2>5. \A w, u \in B : items[w] = items[u] => w = u
    BY <2>2 DEF Arranged
  <2>. HIDE DEF B, k
  <2>6. f \in Bijection(B, 0..(k - 1))
    BY <2>5, <2>4, <2>3 DEF Bijection, Injection, Surjection, IsInjective
  <2>7. Cardinality(B) = Cardinality(0..(k - 1))
    <3>. HIDE DEF f
    <3>. QED  BY <2>2, <2>6, FS_Bijection DEF ExistsBijection
  <2>8. Cardinality(0..(k - 1)) = k
    BY <2>1, FS_Interval
  <2>. QED  BY <2>7, <2>8 DEF B, k
<1>3. ASSUME NEW n \in 1..N PROVE order[n] \in D /\ items[order[n]] = n - 1
  <2>1. n - 1 \in Nat /\ n - 1 < N
    BY <1>1
  <2>2. PICK v \in D : items[v] = n - 1
    BY <2>1 DEF Arranged
  <2>3. Cardinality(Before(items, v)) = n - 1
    BY <1>2, <2>2
  <2>4. order[n] = CHOOSE w \in D : Cardinality(Before(items, w)) = n - 1
    BY DEF Ordered, Size
  <2>5. order[n] \in D /\ Cardinality(Before(items, order[n])) = n - 1
    BY <2>3, <2>4
  <2>. QED  BY <1>2, <2>5
<1>4. order = [n \in 1..N |-> order[n]]
  BY DEF Ordered, Size
<1>. HIDE DEF order, N
<1>5. order \in [1..N -> D]
  BY <1>3, <1>4
<1>6. order \in Seq(D) /\ Len(order) = N
  BY <1>1, <1>5, IsASeq, LenProperties
<1>7. ASSUME NEW v \in D PROVE items[v] + 1 \in 1..N /\ order[items[v] + 1] = v
  <2>1. items[v] \in Nat /\ items[v] < N
    BY <1>1 DEF Arranged, N
  <2>2. items[v] + 1 \in 1..N
    BY <1>1, <2>1
  <2>3. order[items[v] + 1] \in D /\ items[order[items[v] + 1]] = items[v]
    BY <1>3, <2>1, <2>2
  <2>. QED  BY <2>2, <2>3 DEF Arranged
<1>. QED  BY <1>3, <1>5, <1>6, <1>7 DEF order, N

\* Rows numbered in the order of a sequence are arranged, and read back as it.
LEMMA PositionsArranged ==
  ASSUME NEW order \in Seq(Videos), IsInjective(order)
  PROVE  /\ Arranged(Positions(order)) /\ Size(Positions(order)) = Len(order)
         /\ DOMAIN Positions(order) = Range(order)
         /\ \A n \in 1..Len(order) : Positions(order)[order[n]] = n - 1
         /\ Ordered(Positions(order)) = order
<1>. DEFINE N == Len(order)
            R == Range(order)
            items == Positions(order)
<1>1. N \in Nat /\ DOMAIN order = 1..N /\ order \in [1..N -> Videos]
  BY LenProperties
<1>2. DOMAIN items = R /\ items = [v \in R |-> items[v]] /\ R \subseteq Videos
  BY <1>1 DEF Positions, Range
<1>3. ASSUME NEW n \in 1..N PROVE order[n] \in R /\ items[order[n]] = n - 1
  <2>1. order[n] \in R
    BY <1>1 DEF Range
  <2>2. \A m \in 1..N : order[m] = order[n] => m = n
    BY <1>1 DEF IsInjective
  <2>3. (CHOOSE m \in DOMAIN order : order[m] = order[n]) = n
    BY <1>1, <2>2
  <2>. QED  BY <2>1, <2>3 DEF Positions
<1>4. \A v \in R : \E n \in 1..N : order[n] = v
  BY <1>1 DEF Range
<1>5. Size(items) = N
  <2>1. order \in Bijection(1..N, R)
    BY <1>1 DEF Bijection, Injection, Surjection, Range
  <2>. QED  BY <1>1, <1>2, <2>1, FS_CountingElements DEF ExistsBijection, Size
<1>. HIDE DEF items, N, R
<1>6. ASSUME NEW v \in R PROVE items[v] \in Nat /\ items[v] < N
  <2>1. PICK n \in 1..N : order[n] = v
    BY <1>4
  <2>. QED  BY <1>1, <1>3, <2>1
<1>7. ASSUME NEW n \in Nat, n < N PROVE \E v \in R : items[v] = n
  <2>1. n + 1 \in 1..N
    BY <1>1, <1>7
  <2>. QED  BY <1>3, <2>1
<1>8. ASSUME NEW v \in R, NEW w \in R, items[v] = items[w] PROVE v = w
  <2>1. PICK n \in 1..N, m \in 1..N : order[n] = v /\ order[m] = w
    BY <1>4
  <2>. QED  BY <1>1, <1>3, <1>8, <2>1
<1>9. Arranged(items)
  BY <1>2, <1>5, <1>6, <1>7, <1>8 DEF Arranged
<1>10. Ordered(items) = order
  <2>1. /\ Ordered(items) \in Seq(R) /\ Len(Ordered(items)) = N
        /\ \A v \in R : Ordered(items)[items[v] + 1] = v
    BY <1>2, <1>5, <1>9, OrderedOf
  <2>2. ASSUME NEW n \in 1..N PROVE Ordered(items)[n] = order[n]
    <3>1. order[n] \in R /\ items[order[n]] + 1 = n
      BY <1>1, <1>3
    <3>. QED  BY <2>1, <3>1
  <2>3. Ordered(items) \in [1..N -> R]
    BY <2>1, LenProperties
  <2>. QED  BY <1>1, <2>2, <2>3
<1>. QED  BY <1>2, <1>3, <1>5, <1>9, <1>10 DEF items, N, R

\* The rows with v at target, and those between shifted by one.
Shifted(items, v, target) ==
  [w \in DOMAIN items |->
     IF w = v THEN target
     ELSE IF items[v] < items[w] /\ items[w] <= target THEN items[w] - 1
     ELSE IF target <= items[w] /\ items[w] < items[v] THEN items[w] + 1
     ELSE items[w]]

\* Shifting the rows between two positions leaves each position to one row.
LEMMA ShiftedArranged ==
  ASSUME NEW items, Arranged(items), NEW v \in DOMAIN items, NEW t \in Nat, t < Size(items)
  PROVE  /\ Arranged(Shifted(items, v, t)) /\ Size(Shifted(items, v, t)) = Size(items)
         /\ DOMAIN Shifted(items, v, t) = DOMAIN items
<1>. DEFINE D == DOMAIN items
            N == Size(items)
            new == Shifted(items, v, t)
            from == items[v]
<1>1. N \in Nat /\ items \in [D -> Nat] /\ from \in Nat /\ from < N /\ t < N
  BY SizeType DEF Arranged
<1>2. DOMAIN new = D /\ Size(new) = N /\ new = [w \in D |-> new[w]]
  BY DEF Shifted, Size
<1>3. \A w \in D : items[w] \in Nat /\ items[w] < N /\ (w # v => items[w] # from)
  BY <1>1 DEF Arranged
<1>4. \A w \in D : new[w] = IF w = v THEN t
                            ELSE IF from < items[w] /\ items[w] <= t THEN items[w] - 1
                            ELSE IF t <= items[w] /\ items[w] < from THEN items[w] + 1
                            ELSE items[w]
  BY DEF Shifted
<1>5. \A w, u \in D : items[w] = items[u] => w = u
  BY DEF Arranged
<1>6. \A n \in Nat : n < N => \E w \in D : items[w] = n
  BY DEF Arranged
<1>7. D \subseteq Videos
  BY DEF Arranged
<1>. HIDE DEF new, N, from
<1>8. ASSUME NEW w \in D PROVE new[w] \in Nat /\ new[w] < N
  <2>1. items[w] \in Nat /\ items[w] < N
    BY <1>3
  <2>. QED  BY <1>1, <1>4, <2>1
<1>9. ASSUME NEW w \in D, NEW u \in D, new[w] = new[u] PROVE w = u
  <2>1. CASE w = v
    BY <1>1, <1>3, <1>4, <1>9, <2>1
  <2>2. CASE u = v
    BY <1>1, <1>3, <1>4, <1>9, <2>2
  <2>3. CASE w # v /\ u # v
    <3>1. items[w] = items[u]
      BY <1>1, <1>3, <1>4, <1>9, <2>3
    <3>. QED  BY <1>5, <3>1
  <2>. QED  BY <2>3, <2>2, <2>1
<1>10. ASSUME NEW n \in Nat, n < N PROVE \E w \in D : new[w] = n
  <2>1. CASE n = t
    BY <1>4, <2>1
  <2>2. CASE from <= n /\ n < t
    <3>1. n + 1 \in Nat /\ n + 1 < N
      BY <1>1, <2>2
    <3>2. PICK w \in D : items[w] = n + 1
      BY <1>6, <3>1
    <3>3. w # v
      BY <1>1, <2>2, <3>2 DEF from
    <3>. QED  BY <1>1, <1>4, <2>2, <3>2, <3>3
  <2>3. CASE t < n /\ n <= from
    <3>1. n - 1 \in Nat /\ n - 1 < N
      BY <1>1, <2>3
    <3>2. PICK w \in D : items[w] = n - 1
      BY <1>6, <3>1
    <3>3. w # v
      BY <1>1, <2>3, <3>2 DEF from
    <3>. QED  BY <1>1, <1>4, <2>3, <3>2, <3>3
  <2>4. CASE n # t /\ ~(from <= n /\ n < t) /\ ~(t < n /\ n <= from)
    <3>1. PICK w \in D : items[w] = n
      BY <1>6, <1>10
    <3>2. w # v
      BY <1>1, <2>4, <3>1 DEF from
    <3>. QED  BY <1>1, <1>4, <2>4, <3>1, <3>2
  <2>. QED  BY <1>1, <2>4, <2>3, <2>2, <2>1
<1>11. new \in [D -> Nat]
  BY <1>2, <1>8
<1>. QED  BY <1>2, <1>7, <1>8, <1>9, <1>10, <1>11 DEF Arranged, new, N

\* A move is clamped to the rows there are.
LEMMA ClampedType ==
  ASSUME NEW n \in Int, NEW high \in Nat
  PROVE  Clamped(n, 0, high) \in Nat /\ Clamped(n, 0, high) <= high
BY DEF Clamped

\* What a playlist with a row has: a last position, and one for each video.
LEMMA NotEmpty ==
  ASSUME NEW items, Arranged(items), NEW v \in DOMAIN items
  PROVE  Size(items) - 1 \in Nat /\ LastPosition(items) = Size(items) - 1 /\ items[v] \in Nat
<1>1. items[v] \in Nat /\ items[v] < Size(items) /\ Size(items) \in Nat
  BY SizeType DEF Arranged
<1>. QED  BY <1>1, NextIsSize DEF LastPosition

\* MovePlaylistItem shifts the rows between the two positions.
LEMMA MovedByShifts ==
  ASSUME NEW items, Arranged(items), NEW v \in DOMAIN items, NEW delta \in Int
  PROVE  MovedBy(items, v, delta) = Shifted(items, v, Clamped(items[v] + delta, 0, Size(items) - 1))
BY NotEmpty DEF MovedBy, Shifted

\* An order read off the rows gives the rows back.
LEMMA PositionsAre ==
  ASSUME NEW m, Arranged(m), NEW r \in Seq(DOMAIN m), Len(r) = Size(m),
         \A w \in DOMAIN m : r[m[w] + 1] = w
  PROVE  Positions(r) = m
<1>. DEFINE D == DOMAIN m
            N == Size(m)
<1>1. N \in Nat /\ m = [w \in D |-> m[w]] /\ \A w \in D : m[w] \in Nat /\ m[w] < N
  BY SizeType DEF Arranged
<1>2. DOMAIN r = 1..N /\ r \in [1..N -> D]
  BY LenProperties
<1>3. ASSUME NEW w \in D PROVE m[w] + 1 \in 1..N /\ r[m[w] + 1] = w
  BY <1>1
<1>4. ASSUME NEW n \in 1..N PROVE m[r[n]] = n - 1
  <2>1. n - 1 \in Nat /\ n - 1 < N /\ (n - 1) + 1 = n
    BY <1>1
  <2>2. PICK w \in D : m[w] = n - 1
    BY <2>1 DEF Arranged
  <2>3. r[n] = w
    BY <2>1, <2>2, <1>3
  <2>. QED  BY <2>2, <2>3
<1>. HIDE DEF N
<1>5. Range(r) = D
  BY <1>2, <1>3 DEF Range
<1>6. ASSUME NEW w \in D PROVE (CHOOSE n \in DOMAIN r : r[n] = w) - 1 = m[w]
  <2>1. \A n \in 1..N : r[n] = w => n = m[w] + 1
    <3>. SUFFICES ASSUME NEW n \in 1..N, r[n] = w PROVE n = m[w] + 1
      OBVIOUS
    <3>1. m[w] = n - 1
      BY <1>4
    <3>. QED  BY <1>1, <3>1
  <2>. DEFINE c == CHOOSE n \in DOMAIN r : r[n] = w
  <2>2. c = m[w] + 1
    BY <1>2, <1>3, <2>1
  <2>3. m[w] \in Nat
    BY <1>1
  <2>. HIDE DEF c
  <2>4. c - 1 = m[w]
    BY <2>2, <2>3
  <2>. QED  BY <2>4 DEF c
<1>. QED  BY <1>1, <1>5, <1>6 DEF Positions

\* The order with the element at f taken out and put at t.
Reinserted(s, f, t, v) == InsertAt(RemoveAt(s, f), t, v)
IsReinserted(r, s, f, t, v) ==
  /\ Len(r) = Len(s) /\ r[t] = v
  /\ \A k \in 1..Len(s) : k < t /\ k < f => r[k] = s[k]
  /\ \A k \in 1..Len(s) : k < t /\ f <= k => r[k] = s[k + 1]
  /\ \A k \in 1..Len(s) : t < k /\ k <= f => r[k] = s[k - 1]
  /\ \A k \in 1..Len(s) : t < k /\ f < k => r[k] = s[k]

\* The entries of two sequences, the one after the other.
LEMMA Joined ==
  ASSUME NEW S, NEW s1 \in Seq(S), NEW s2 \in Seq(S), NEW s3, s3 = s1 \o s2
  PROVE  \A k \in 1..(Len(s1) + Len(s2)) : s3[k] = IF k <= Len(s1) THEN s1[k] ELSE s2[k - Len(s1)]
BY ConcatProperties, Zenon

\* A sequence of which one entry is taken out and put back elsewhere.
LEMMA ReinsertedOrder ==
  ASSUME NEW S, NEW s \in Seq(S), NEW f \in 1..Len(s), NEW t \in 1..Len(s), NEW v \in S
  PROVE  Reinserted(s, f, t, v) \in Seq(S) /\ IsReinserted(Reinserted(s, f, t, v), s, f, t, v)
<1>. DEFINE N == Len(s)
            u == RemoveAt(s, f)
            a1 == SubSeq(s, 1, f - 1)
            a2 == SubSeq(s, f + 1, N)
            b1 == SubSeq(u, 1, t - 1)
            b2 == SubSeq(u, t, Len(u))
            r == Reinserted(s, f, t, v)
<1>1. N \in Nat /\ f \in Nat /\ t \in Nat /\ f - 1 \in Nat /\ t - 1 \in Nat
  BY LenProperties
<1>2. /\ a1 \in Seq(S) /\ Len(a1) = f - 1 /\ \A k \in 1..(f - 1) : a1[k] = s[k]
      /\ a2 \in Seq(S) /\ Len(a2) = N - f /\ \A k \in 1..(N - f) : a2[k] = s[k + f]
  BY <1>1, SubSeqProperties
<1>3. u = a1 \o a2
  BY DEF RemoveAt
<1>. HIDE DEF a1, a2, u
<1>4. /\ u \in Seq(S) /\ Len(u) = N - 1
      /\ \A k \in 1..(N - 1) : u[k] = IF k < f THEN s[k] ELSE s[k + 1]
  <2>1. u \in Seq(S) /\ Len(u) = Len(a1) + Len(a2)
    BY <1>2, <1>3, ConcatProperties
  <2>2. Len(u) = N - 1
    BY <1>1, <1>2, <2>1
  <2>3. \A k \in 1..(N - 1) : u[k] = IF k <= f - 1 THEN a1[k] ELSE a2[k - (f - 1)]
    <3>. DEFINE m == f - 1
                n == N - f
    <3>1. m \in Nat /\ n \in Nat /\ m + n = N - 1
      BY <1>1, <1>2, LenProperties
    <3>2. a1 \in Seq(S) /\ a2 \in Seq(S) /\ Len(a1) = m /\ Len(a2) = n
      BY <1>2
    <3>. HIDE DEF m, n
    <3>3. \A k \in 1..(m + n) : u[k] = IF k <= m THEN a1[k] ELSE a2[k - m]
      <4>1. \A k \in 1..(Len(a1) + Len(a2)) : u[k] = IF k <= Len(a1) THEN a1[k] ELSE a2[k - Len(a1)]
        BY <1>3, <3>2, Joined
      <4>. QED  BY <3>2, <4>1, Zenon
    <3>4. \A k \in 1..(N - 1) : u[k] = IF k <= m THEN a1[k] ELSE a2[k - m]
      BY <3>1, <3>3
    <3>. QED  BY <3>4 DEF m
  <2>4. ASSUME NEW k \in 1..(N - 1) PROVE u[k] = IF k < f THEN s[k] ELSE s[k + 1]
    <3>1. CASE k < f
      BY <1>1, <1>2, <2>3, <3>1
    <3>2. CASE ~(k < f)
      <4>1. k - (f - 1) \in 1..(N - f) /\ (k - (f - 1)) + f = k + 1 /\ ~(k <= f - 1)
        BY <1>1, <3>2
      <4>. QED  BY <1>2, <2>3, <3>2, <4>1
    <3>. QED  BY <3>1, <3>2
  <2>. QED  BY <2>4, <2>2, <2>1
<1>5. /\ b1 \in Seq(S) /\ Len(b1) = t - 1 /\ \A k \in 1..(t - 1) : b1[k] = u[k]
      /\ b2 \in Seq(S) /\ Len(b2) = N - t /\ \A k \in 1..(N - t) : b2[k] = u[k + t - 1]
  BY <1>1, <1>4, SubSeqProperties
<1>6. r = b1 \o <<v>> \o b2
  BY DEF InsertAt, u, Reinserted
<1>. HIDE DEF b1, b2, r
<1>7. /\ b1 \o <<v>> \in Seq(S) /\ Len(b1 \o <<v>>) = t /\ (b1 \o <<v>>)[t] = v
      /\ \A k \in 1..(t - 1) : (b1 \o <<v>>)[k] = u[k]
  <2>1. <<v>> \in Seq(S) /\ Len(<<v>>) = 1 /\ <<v>>[1] = v
    OBVIOUS
  <2>2. /\ b1 \o <<v>> \in Seq(S) /\ Len(b1 \o <<v>>) = (t - 1) + 1
        /\ \A k \in 1..((t - 1) + 1) : (b1 \o <<v>>)[k] = IF k <= t - 1 THEN b1[k] ELSE <<v>>[k - (t - 1)]
    BY <1>5, <2>1, ConcatProperties
  <2>3. t \in 1..((t - 1) + 1) /\ ~(t <= t - 1) /\ t - (t - 1) = 1 /\ (t - 1) + 1 = t
    BY <1>1
  <2>4. \A k \in 1..(t - 1) : k \in 1..((t - 1) + 1) /\ k <= t - 1
    BY <1>1
  <2>5. (b1 \o <<v>>)[t] = v
    BY <2>3, <2>2, <2>1
  <2>6. \A k \in 1..(t - 1) : (b1 \o <<v>>)[k] = u[k]
    BY <1>5, <2>2, <2>4
  <2>. QED  BY <2>6, <2>5, <2>3, <2>2
<1>. DEFINE b0 == b1 \o <<v>>
<1>. HIDE DEF b0
<1>8. /\ r \in Seq(S) /\ Len(r) = N
      /\ \A k \in 1..N : r[k] = IF k <= t THEN b0[k] ELSE b2[k - t]
  <2>1. b0 \in Seq(S) /\ Len(b0) = t /\ b2 \in Seq(S) /\ Len(b2) = N - t /\ r = b0 \o b2
    BY <1>5, <1>6, <1>7 DEF b0
  <2>2. r \in Seq(S) /\ Len(r) = t + (N - t) /\ t + (N - t) = N
    <3>1. r \in Seq(S) /\ Len(r) = Len(b0) + Len(b2)
      BY <2>1, ConcatProperties
    <3>2. t + (N - t) = N
      BY <1>1
    <3>. QED  BY <2>1, <3>1, <3>2
  <2>3. \A k \in 1..(t + (N - t)) : r[k] = IF k <= t THEN b0[k] ELSE b2[k - t]
    <3>. DEFINE n == N - t
    <3>1. n \in Nat /\ t \in Nat
      BY <1>1, <2>1, LenProperties
    <3>2. b0 \in Seq(S) /\ b2 \in Seq(S) /\ Len(b0) = t /\ Len(b2) = n /\ r = b0 \o b2
      BY <2>1
    <3>. HIDE DEF n
    <3>3. \A k \in 1..(t + n) : r[k] = IF k <= t THEN b0[k] ELSE b2[k - t]
      <4>1. \A k \in 1..(Len(b0) + Len(b2)) : r[k] = IF k <= Len(b0) THEN b0[k] ELSE b2[k - Len(b0)]
        BY <3>2, Joined
      <4>. QED  BY <3>2, <4>1, Zenon
    <3>. QED  BY <3>3 DEF n
  <2>. QED  BY <2>2, <2>3
<1>9. r[t] = v /\ \A k \in 1..N : k < t => r[k] = u[k]
  BY <1>1, <1>7, <1>8 DEF b0
<1>10. ASSUME NEW k \in 1..N, t < k PROVE r[k] = u[k - 1]
  <2>1. k - t \in 1..(N - t) /\ (k - t) + t - 1 = k - 1 /\ ~(k <= t)
    BY <1>1, <1>10
  <2>. QED  BY <1>5, <1>8, <2>1
<1>11. ASSUME NEW k \in 1..N, k < t PROVE u[k] = IF k < f THEN s[k] ELSE s[k + 1]
  <2>1. k \in 1..(N - 1)
    BY <1>1, <1>11
  <2>. QED  BY <1>4, <2>1
<1>12. ASSUME NEW k \in 1..N, t < k PROVE u[k - 1] = IF k <= f THEN s[k - 1] ELSE s[k]
  <2>1. k - 1 \in 1..(N - 1) /\ (k - 1) + 1 = k /\ (k - 1 < f <=> k <= f)
    BY <1>1, <1>12
  <2>. QED  BY <1>4, <2>1
<1>. QED  BY <1>1, <1>8, <1>9, <1>10, <1>11, <1>12 DEF IsReinserted, u, r

\* MovePlaylistItemToIndex, which rewrites the order, shifts the same rows.
LEMMA MovedToShifts ==
  ASSUME NEW items, Arranged(items), NEW v \in DOMAIN items, NEW goal \in Int
  PROVE  MovedTo(items, v, goal) = Shifted(items, v, Clamped(goal, 0, Size(items) - 1))
<1>. DEFINE D == DOMAIN items
            N == Size(items)
            order == Ordered(items)
            from == CHOOSE n \in DOMAIN order : order[n] = v
            t == Clamped(goal, 0, N - 1)
            r == InsertAt(RemoveAt(order, from), t + 1, v)
            new == Shifted(items, v, t)
<1>1. /\ order \in Seq(D) /\ Len(order) = N /\ DOMAIN order = 1..N
      /\ \A n \in 1..N : order[n] \in D /\ items[order[n]] = n - 1
      /\ \A w \in D : items[w] + 1 \in 1..N /\ order[items[w] + 1] = w
  BY OrderedOf
<1>2. N \in Nat /\ N - 1 \in Nat /\ t \in Nat /\ t < N /\ \A w \in D : items[w] \in Nat /\ items[w] < N
  BY NotEmpty, ClampedType, SizeType DEF Arranged
<1>3. from = items[v] + 1
  <2>1. \A n \in 1..N : order[n] = v => n = items[v] + 1
    BY <1>1, <1>2
  <2>. QED  BY <1>1, <2>1
<1>4. MovedTo(items, v, goal) = IF t = from - 1 THEN items ELSE Positions(r)
  <2>1. Clamped(goal, 0, Len(order) - 1) = t
    BY <1>1
  <2>. QED  BY <2>1 DEF MovedTo
<1>5. Arranged(new) /\ Size(new) = N /\ DOMAIN new = D
  <2>. HIDE DEF t
  <2>. QED  BY <1>2, ShiftedArranged
<1>6. \A w \in D : new[w] = IF w = v THEN t
                            ELSE IF items[v] < items[w] /\ items[w] <= t THEN items[w] - 1
                            ELSE IF t <= items[w] /\ items[w] < items[v] THEN items[w] + 1
                            ELSE items[w]
  BY DEF Shifted
<1>7. \A w \in D : w # v => items[w] # items[v]
  BY DEF Arranged
<1>8. items = [w \in D |-> items[w]] /\ new = [w \in D |-> new[w]]
  BY DEF Arranged, Shifted
<1>. HIDE DEF order, N, t, new, from
<1>9. CASE t = from - 1
  <2>1. t = items[v]
    BY <1>2, <1>3, <1>9
  <2>2. ASSUME NEW w \in D PROVE new[w] = items[w]
    BY <1>2, <1>6, <1>7, <2>1
  <2>3. new = items
    BY <1>8, <2>2
  <2>. QED  BY <1>4, <1>9, <2>3 DEF new, N, t
<1>10. CASE t # from - 1
  <2>1. from \in 1..Len(order) /\ t + 1 \in 1..Len(order)
    BY <1>1, <1>2, <1>3
  <2>2. /\ r \in Seq(D) /\ Len(r) = N /\ r[t + 1] = v
        /\ \A k \in 1..N : k < t + 1 /\ k < from => r[k] = order[k]
        /\ \A k \in 1..N : k < t + 1 /\ from <= k => r[k] = order[k + 1]
        /\ \A k \in 1..N : t + 1 < k /\ k <= from => r[k] = order[k - 1]
        /\ \A k \in 1..N : t + 1 < k /\ from < k => r[k] = order[k]
    <3>. DEFINE e == t + 1
    <3>1. r = Reinserted(order, from, e, v)
      BY DEF Reinserted
    <3>2. e \in 1..Len(order) /\ v \in D /\ order \in Seq(D)
      BY <1>1, <2>1
    <3>. HIDE DEF r, e
    <3>3. r \in Seq(D) /\ IsReinserted(r, order, from, e, v)
      BY <2>1, <3>1, <3>2, ReinsertedOrder
    <3>4. Len(order) = N
      BY <1>1
    <3>. QED  BY <3>3, <3>4 DEF e, IsReinserted
  <2>. HIDE DEF r
  <2>3. ASSUME NEW w \in D PROVE r[new[w] + 1] = w
    <3>1. CASE w = v
      BY <1>6, <2>2, <3>1
    <3>2. CASE w # v
      <4>. DEFINE p == items[w]
      <4>1. p \in Nat /\ p < N /\ p # items[v] /\ order[p + 1] = w /\ items[v] \in Nat /\ items[v] < N /\ p + 1 # from
        BY <1>1, <1>2, <1>3, <1>7, <3>2
      <4>. HIDE DEF p
      <4>2. new[w] = IF items[v] < p /\ p <= t THEN p - 1
                     ELSE IF t <= p /\ p < items[v] THEN p + 1 ELSE p
        BY <1>6, <3>2 DEF p
      <4>3. CASE items[v] < p /\ p <= t
        <5>1. new[w] + 1 = p /\ p \in 1..N /\ p < t + 1 /\ from <= p
          BY <1>2, <1>3, <4>1, <4>2, <4>3
        <5>. QED  BY <2>2, <4>1, <5>1
      <4>4. CASE t <= p /\ p < items[v]
        <5>1. new[w] + 1 = p + 2 /\ p + 2 \in 1..N /\ t + 1 < p + 2 /\ p + 2 <= from /\ (p + 2) - 1 = p + 1
          <6>1. t \in Nat /\ N \in Nat /\ from = items[v] + 1 /\ new[w] = p + 1
            BY <1>2, <1>3, <4>1, <4>2, <4>4
          <6>. QED  BY <4>1, <4>4, <6>1
        <5>. QED  BY <2>2, <4>1, <5>1
      <4>5. CASE ~(items[v] < p /\ p <= t) /\ ~(t <= p /\ p < items[v])
        <5>1. new[w] + 1 = p + 1 /\ p + 1 \in 1..N
          BY <1>2, <4>1, <4>2, <4>5
        <5>2. (p + 1 < t + 1 /\ p + 1 < from) \/ (t + 1 < p + 1 /\ from < p + 1)
          BY <1>2, <1>3, <1>10, <4>1, <4>5
        <5>. QED  BY <2>2, <4>1, <5>1, <5>2
      <4>. QED  BY <4>3, <4>4, <4>5
    <3>. QED  BY <3>1, <3>2
  <2>4. Positions(r) = new
    BY <1>5, <2>2, <2>3, PositionsAre
  <2>. QED  BY <1>4, <1>10, <2>4 DEF new, N, t, r
<1>. QED  BY <1>9, <1>10

------------------------------------------------------------
(* The invariant: the tables, the copy a restore works on and every file   *)
(* are whole, name playlists that were created, and a restore is on its    *)
(* way to what its file holds.                                             *)

GoodList(list) ==
  /\ list = [items |-> list.items, tags |-> list.tags, smart |-> list.smart]
  /\ Arranged(list.items) /\ list.tags \subseteq Tags /\ list.smart \in BOOLEAN

GoodLists(table, n) ==
  /\ table = [p \in DOMAIN table |-> table[p]] /\ DOMAIN table \subseteq 1..n
  /\ \A p \in DOMAIN table : GoodList(table[p])

GoodRules(rows, table) ==
  /\ rows \in [DOMAIN rows -> Rule] /\ DOMAIN rows \subseteq DOMAIN table
  /\ \A p \in DOMAIN rows : Upgradable(rows[p]) /\ table[p].smart

GoodState(state, n) ==
  /\ state = [lists |-> state.lists, rules |-> state.rules, favorites |-> state.favorites]
  /\ GoodLists(state.lists, n) /\ GoodRules(state.rules, state.lists) /\ state.favorites \subseteq Videos

GoodFile(file, n) ==
  /\ file = [lists |-> file.lists, rules |-> file.rules, favorites |-> file.favorites,
             personal |-> file.personal, smart |-> file.smart]
  /\ file.lists \in [DOMAIN file.lists -> Seq(Videos)] /\ DOMAIN file.lists \subseteq 1..n
  /\ file.rules \in [DOMAIN file.rules -> Rule] /\ DOMAIN file.rules \subseteq PlaylistIds
  /\ file.favorites \subseteq Videos /\ file.personal \in BOOLEAN /\ file.smart \in BOOLEAN

\* The copy holds the personal data of the file, and its rules when they are done.
HoldsPersonal(state, file) ==
  /\ state.favorites = file.favorites /\ DOMAIN state.lists = DOMAIN file.lists
  /\ \A p \in DOMAIN state.lists : Ordered(state.lists[p].items) = file.lists[p]
HoldsRules(state, file) ==
  /\ DOMAIN state.rules = DOMAIN file.rules \cap DOMAIN file.lists
  /\ \A p \in DOMAIN state.rules : state.rules[p] = file.rules[p]

Restoring(work) ==
  work.kind = "restore" /\ work.file.personal =>
    /\ work.pc \in {"rules", "swap"} => HoldsPersonal(work.staging, work.file)
    /\ work.pc = "swap" /\ work.file.smart => HoldsRules(work.staging, work.file)

IsWork(work) ==
  work = [kind |-> work.kind, pc |-> work.pc, id |-> work.id, todo |-> work.todo, left |-> work.left,
          file |-> work.file, staging |-> work.staging]

GoodJob(work, n) ==
  /\ IsWork(work)
  /\ work.kind \in {"none", "remote", "merge", "export", "import", "restore"}
  /\ work.id \in 0..MaxPlaylists /\ work.todo \in Seq(Videos) /\ work.left \subseteq 1..n
  /\ work.kind = "import" => work.left \subseteq DOMAIN work.file.lists
  /\ GoodFile(work.file, n) /\ GoodState(work.staging, n) /\ Restoring(work)

Tables == GoodLists(lists, issued) /\ GoodRules(rules, lists) /\ favorites \subseteq Videos

PlaylistInv ==
  /\ issued \in 0..MaxPlaylists /\ ops \in 0..MaxOps
  /\ Tables /\ GoodFile(backup, issued) /\ GoodJob(job, issued)

\* What is good for the playlists created so far is good for more.
LEMMA MoreIssued ==
  ASSUME NEW n \in Nat, NEW m \in Nat, n <= m
  PROVE  /\ \A table : GoodLists(table, n) => GoodLists(table, m)
         /\ \A file : GoodFile(file, n) => GoodFile(file, m)
         /\ \A work : GoodJob(work, n) => GoodJob(work, m)
<1>1. 1..n \subseteq 1..m
  OBVIOUS
<1>2. ASSUME NEW table, GoodLists(table, n) PROVE GoodLists(table, m)
  BY <1>1, <1>2 DEF GoodLists
<1>3. ASSUME NEW file, GoodFile(file, n) PROVE GoodFile(file, m)
  BY <1>1, <1>3 DEF GoodFile
<1>4. ASSUME NEW work, GoodJob(work, n) PROVE GoodJob(work, m)
  <2>1. work.left \subseteq 1..m
    BY <1>1, <1>4 DEF GoodJob
  <2>2. GoodFile(work.file, m)
    BY <1>3, <1>4 DEF GoodJob
  <2>3. GoodState(work.staging, m)
    BY <1>2, <1>4 DEF GoodJob, GoodState
  <2>. QED  BY <1>4, <2>3, <2>2, <2>1 DEF GoodJob
<1>. QED  BY <1>2, <1>3, <1>4

\* What there is before anything was created.
LEMMA NothingIsGood ==
  ASSUME NEW n \in Nat
  PROVE  /\ GoodLists(NoRows, n) /\ GoodRules(NoRows, NoRows) /\ GoodFile(NoBackup, n) /\ GoodJob(NoJob, n)
         /\ GoodList(NewList) /\ NewList.smart = FALSE
<1>1. NoRows = [p \in DOMAIN NoRows |-> NoRows[p]] /\ DOMAIN NoRows = {}
  BY DEF NoRows
<1>2. GoodLists(NoRows, n) /\ GoodRules(NoRows, NoRows)
  BY <1>1 DEF GoodLists, GoodRules
<1>3. GoodFile(NoBackup, n)
  BY <1>1 DEF GoodFile, NoBackup
<1>4. GoodState(NoDatabase, n)
  BY <1>2 DEF GoodState, NoDatabase
<1>5. GoodJob(NoJob, n)
  <2>1. <<>> \in Seq(Videos) /\ 0 \in 0..MaxPlaylists
    BY PlaylistAssumption, EmptySeq
  <2>. QED  BY <1>3, <1>4, <2>1 DEF GoodJob, IsWork, NoJob, Restoring
<1>6. GoodList(NewList) /\ NewList.smart = FALSE
  BY EmptyArranged DEF GoodList, NewList
<1>. QED  BY <1>2, <1>3, <1>5, <1>6

\* A new playlist filled with arranged rows.
LEMMA NewListGood ==
  ASSUME NEW items, Arranged(items)
  PROVE  GoodList([NewList EXCEPT !.items = items])
<1>. DEFINE list == [NewList EXCEPT !.items = items]
<1>1. GoodList(NewList)
  BY EmptyArranged DEF GoodList, NewList
<1>. QED  BY <1>1 DEF GoodList

\* A playlist that is marked smart, or not.
LEMMA SmartGood ==
  ASSUME NEW list, GoodList(list), NEW b \in BOOLEAN
  PROVE  /\ GoodList([list EXCEPT !.smart = b]) /\ [list EXCEPT !.smart = b].smart = b
         /\ [list EXCEPT !.smart = b].items = list.items
<1>. DEFINE new == [list EXCEPT !.smart = b]
<1>1. /\ new.smart = b /\ new.items = list.items /\ new.tags = list.tags
      /\ new = [items |-> new.items, tags |-> new.tags, smart |-> new.smart]
  BY DEF GoodList
<1>. HIDE DEF new
<1>2. GoodList(new)
  BY <1>1 DEF GoodList
<1>. QED  BY <1>1, <1>2 DEF new

\* A playlist is created under a new id.
LEMMA InsertGood ==
  ASSUME PlaylistInv, issued < MaxPlaylists, NEW list, GoodList(list)
  PROVE  /\ GoodLists(Inserted(issued + 1, list), issued + 1)
         /\ GoodRules(rules, Inserted(issued + 1, list))
         /\ issued + 1 \in 0..MaxPlaylists
<1>. DEFINE new == Inserted(issued + 1, list)
<1>1. issued \in Nat /\ MaxPlaylists \in Nat
  BY PlaylistAssumption DEF PlaylistInv
<1>2. /\ DOMAIN new = DOMAIN lists \cup {issued + 1} /\ new[issued + 1] = list
      /\ \A k \in DOMAIN lists : k # issued + 1 => new[k] = lists[k]
      /\ new = [k \in DOMAIN new |-> new[k]]
  <2>. DEFINE key == issued + 1
  <2>1. new = With(lists, key, list)
    BY DEF Inserted
  <2>. HIDE DEF new, key
  <2>2. /\ DOMAIN new = DOMAIN lists \cup {key} /\ new[key] = list
        /\ \A k \in DOMAIN lists : k # key => new[k] = lists[k]
        /\ new = [k \in DOMAIN new |-> new[k]]
    BY <2>1 DEF With
  <2>. QED  BY <2>2 DEF key
<1>. HIDE DEF new
<1>3. DOMAIN lists \subseteq 1..issued /\ \A p \in DOMAIN lists : GoodList(lists[p])
  BY DEF PlaylistInv, Tables, GoodLists
<1>4. issued + 1 \notin DOMAIN lists
  BY <1>1, <1>3
<1>5. GoodLists(new, issued + 1)
  <2>1. DOMAIN new \subseteq 1..(issued + 1)
    BY <1>1, <1>2, <1>3
  <2>. QED  BY <1>2, <1>3, <1>4, <2>1 DEF GoodLists
<1>6. GoodRules(rules, new)
  BY <1>2, <1>4 DEF PlaylistInv, Tables, GoodRules
<1>. QED  BY <1>1, <1>5, <1>6 DEF new

\* A playlist is changed in place and stays smart.
LEMMA ReplaceGood ==
  ASSUME PlaylistInv, NEW p \in DOMAIN lists, NEW list, GoodList(list), lists[p].smart => list.smart
  PROVE  /\ GoodLists([lists EXCEPT ![p] = list], issued)
         /\ GoodRules(rules, [lists EXCEPT ![p] = list])
<1>. DEFINE new == [lists EXCEPT ![p] = list]
<1>1. lists = [q \in DOMAIN lists |-> lists[q]]
  BY DEF PlaylistInv, Tables, GoodLists
<1>2. /\ DOMAIN new = DOMAIN lists /\ new[p] = list /\ \A q \in DOMAIN lists : q # p => new[q] = lists[q]
      /\ new = [q \in DOMAIN lists |-> new[q]]
  BY <1>1
<1>. HIDE DEF new
<1>3. GoodLists(new, issued)
  BY <1>2 DEF PlaylistInv, Tables, GoodLists
<1>4. GoodRules(rules, new)
  BY <1>2 DEF PlaylistInv, Tables, GoodRules
<1>. QED  BY <1>3, <1>4 DEF new

\* What the invariant says of one playlist.
LEMMA ListsOf ==
  ASSUME PlaylistInv, NEW p \in DOMAIN lists
  PROVE  GoodList(lists[p]) /\ Arranged(lists[p].items) /\ lists[p].smart \in BOOLEAN /\ p \in 1..issued
BY DEF PlaylistInv, Tables, GoodLists, GoodList

\* The rows of one playlist are replaced by arranged ones.
LEMMA SetItemsGood ==
  ASSUME PlaylistInv, NEW p \in DOMAIN lists, NEW items, Arranged(items), SetItems(p, items)
  PROVE  GoodLists(lists', issued) /\ GoodRules(rules, lists')
<1>. DEFINE list == [lists[p] EXCEPT !.items = items]
<1>1. GoodList(lists[p]) /\ lists = [q \in DOMAIN lists |-> lists[q]]
  BY ListsOf DEF PlaylistInv, Tables, GoodLists
<1>2. GoodList(list) /\ list.smart = lists[p].smart
  BY <1>1 DEF GoodList
<1>3. lists' = [lists EXCEPT ![p] = list]
  BY <1>1 DEF SetItems
<1>. HIDE DEF list
<1>. QED  BY <1>2, <1>3, ReplaceGood

\* A playlist goes with its rule.
LEMMA DeleteGood ==
  ASSUME PlaylistInv, NEW p
  PROVE  GoodLists(Deleted(p, lists), issued) /\ GoodRules(Deleted(p, rules), Deleted(p, lists))
<1>. DEFINE l == Deleted(p, lists)
            r == Deleted(p, rules)
<1>1. /\ DOMAIN l = DOMAIN lists \ {p} /\ l = [q \in DOMAIN l |-> l[q]] /\ \A q \in DOMAIN l : l[q] = lists[q]
      /\ DOMAIN r = DOMAIN rules \ {p} /\ r = [q \in DOMAIN r |-> r[q]] /\ \A q \in DOMAIN r : r[q] = rules[q]
  BY DEF Deleted
<1>. HIDE DEF l, r
<1>2. GoodLists(l, issued)
  BY <1>1 DEF PlaylistInv, Tables, GoodLists
<1>3. GoodRules(r, l)
  BY <1>1 DEF PlaylistInv, Tables, GoodRules
<1>. QED  BY <1>2, <1>3 DEF l, r

\* A step that leaves backup and job alone.
LEMMA TablesStep ==
  ASSUME PlaylistInv, UNCHANGED <<issued, backup, job>>, ops' \in 0..MaxOps,
         GoodLists(lists', issued), GoodRules(rules', lists'), favorites' \subseteq Videos
  PROVE  PlaylistInv'
BY DEF PlaylistInv, Tables

\* An operation is counted within the bound.
LEMMA OpType ==
  ASSUME PlaylistInv, Op
  PROVE  ops' \in 0..MaxOps
BY PlaylistAssumption DEF PlaylistInv, Op

\* A playlist more: the files and the job know less than all of them.
LEMMA IssueStep ==
  ASSUME PlaylistInv, Free, issued' = issued + 1, ops' \in 0..MaxOps,
         GoodLists(lists', issued + 1), GoodRules(rules, lists'), UNCHANGED <<rules, favorites>>,
         backup' = backup \/ GoodFile(backup', issued + 1), job' = job \/ GoodJob(job', issued + 1)
  PROVE  PlaylistInv'
<1>1. issued \in Nat /\ issued + 1 \in 0..MaxPlaylists /\ issued + 1 \in Nat /\ issued <= issued + 1
  BY PlaylistAssumption DEF PlaylistInv, Free
<1>2. GoodFile(backup, issued + 1) /\ GoodJob(job, issued + 1)
  BY <1>1, MoreIssued DEF PlaylistInv
<1>3. GoodFile(backup', issued + 1) /\ GoodJob(job', issued + 1)
  <2>1. CASE backup' = backup /\ job' = job
    BY <1>2, <2>1
  <2>. QED  BY <1>2
<1>. QED  BY <1>1, <1>3 DEF PlaylistInv, Tables

------------------------------------------------------------
(* Edits *)

\* A call names videos.
LEMMA BatchType == ASSUME NEW batch \in Batches PROVE batch \in Seq(Videos)
BY PlaylistAssumption

\* A created playlist is empty.
LEMMA CreateStep == ASSUME PlaylistInv, CreatePlaylist PROVE PlaylistInv'
<1>1. GoodLists(lists', issued + 1) /\ GoodRules(rules, lists')
  <2>1. GoodList(NewList) /\ issued < MaxPlaylists
    BY NothingIsGood DEF CreatePlaylist, Free
  <2>. QED  BY <2>1, InsertGood DEF CreatePlaylist
<1>2. ops' \in 0..MaxOps
  BY OpType DEF CreatePlaylist
<1>. QED  BY <1>1, <1>2, IssueStep DEF CreatePlaylist

\* A duplicate has the rows of its original.
LEMMA DuplicateStep == ASSUME PlaylistInv, NEW p \in DOMAIN lists, DuplicatePlaylist(p) PROVE PlaylistInv'
<1>. DEFINE list == [NewList EXCEPT !.items = lists[p].items]
<1>1. GoodList(list)
  BY ListsOf, NewListGood
<1>2. lists' = Inserted(issued + 1, list)
  BY DEF DuplicatePlaylist
<1>. HIDE DEF list
<1>3. GoodLists(lists', issued + 1) /\ GoodRules(rules, lists')
  BY <1>1, <1>2, InsertGood DEF DuplicatePlaylist, Free
<1>4. ops' \in 0..MaxOps
  BY OpType DEF DuplicatePlaylist
<1>. QED  BY <1>3, <1>4, IssueStep DEF DuplicatePlaylist

\* A playlist made of the queue is filled at once.
LEMMA SaveQueueStep ==
  ASSUME PlaylistInv, NEW batch \in Batches, SaveQueueAsPlaylist(batch) PROVE PlaylistInv'
<1>. DEFINE items == AppendedAll(NoRows, batch)
            list == [NewList EXCEPT !.items = items]
<1>1. Arranged(items)
  BY BatchType, EmptyArranged, ChangesArranged DEF AppendedAll
<1>2. lists' = Inserted(issued + 1, list)
  BY DEF SaveQueueAsPlaylist
<1>. HIDE DEF items
<1>3. GoodList(list)
  BY <1>1, NewListGood
<1>. HIDE DEF list
<1>4. GoodLists(lists', issued + 1) /\ GoodRules(rules, lists')
  BY <1>2, <1>3, InsertGood DEF SaveQueueAsPlaylist, Free
<1>5. ops' \in 0..MaxOps
  BY OpType DEF SaveQueueAsPlaylist
<1>. QED  BY <1>4, <1>5, IssueStep DEF SaveQueueAsPlaylist

\* A deleted playlist takes its rule along.
LEMMA DeleteStep == ASSUME PlaylistInv, NEW p, DeletePlaylist(p) PROVE PlaylistInv'
<1>1. GoodLists(lists', issued) /\ GoodRules(rules', lists')
  BY DeleteGood DEF DeletePlaylist
<1>2. ops' \in 0..MaxOps /\ favorites' \subseteq Videos
  BY OpType DEF DeletePlaylist, PlaylistInv, Tables
<1>. QED  BY <1>1, <1>2, TablesStep DEF DeletePlaylist

\* The rows of one playlist change.
LEMMA ItemsStep ==
  ASSUME PlaylistInv, Op, NEW p \in DOMAIN lists, NEW items, Arranged(items), SetItems(p, items),
         UNCHANGED <<rules, favorites, issued, backup, job>>
  PROVE  PlaylistInv'
<1>1. GoodLists(lists', issued) /\ GoodRules(rules, lists')
  BY SetItemsGood
<1>2. ops' \in 0..MaxOps /\ favorites' \subseteq Videos /\ rules' = rules
  BY OpType DEF PlaylistInv, Tables
<1>. QED  BY <1>1, <1>2, TablesStep

\* Adding and removing videos, one after the other.
LEMMA AddStep ==
  ASSUME PlaylistInv, NEW p \in DOMAIN lists, NEW batch \in Batches, AddItems(p, batch) \/ RemoveItems(p, batch)
  PROVE  PlaylistInv'
<1>1. Arranged(AppendedAll(lists[p].items, batch)) /\ Arranged(RemovedAll(lists[p].items, batch))
  BY BatchType, ListsOf, ChangesArranged DEF AppendedAll, RemovedAll
<1>. QED  BY <1>1, ItemsStep DEF AddItems, RemoveItems

\* The rows of a playlist after a move, whichever the call.
LEMMA MovedGood ==
  ASSUME NEW items, Arranged(items), NEW v \in DOMAIN items, NEW n \in Int
  PROVE  Arranged(MovedBy(items, v, n)) /\ Arranged(MovedTo(items, v, n))
<1>1. items[v] + n \in Int /\ Size(items) - 1 \in Nat
  BY NotEmpty
<1>2. ASSUME NEW k \in Int PROVE Arranged(Shifted(items, v, Clamped(k, 0, Size(items) - 1)))
  <2>. DEFINE t == Clamped(k, 0, Size(items) - 1)
  <2>1. t \in Nat /\ t <= Size(items) - 1
    BY <1>1, ClampedType
  <2>2. t < Size(items)
    <3>. HIDE DEF t
    <3>. QED  BY <1>1, <2>1, SizeType DEF Arranged
  <2>. HIDE DEF t
  <2>3. Arranged(Shifted(items, v, t))
    BY <2>1, <2>2, ShiftedArranged
  <2>. QED  BY <2>3 DEF t
<1>. QED  BY <1>1, <1>2, MovedByShifts, MovedToShifts

\* The two ways to move a video.
LEMMA MoveItemStep ==
  ASSUME PlaylistInv, NEW p \in DOMAIN lists, NEW v \in DOMAIN lists[p].items, NEW n \in Int,
         MovePlaylistItem(p, v, n) \/ MovePlaylistItemToIndex(p, v, n)
  PROVE  PlaylistInv'
<1>1. Arranged(MovedBy(lists[p].items, v, n)) /\ Arranged(MovedTo(lists[p].items, v, n))
  BY ListsOf, MovedGood
<1>. QED  BY <1>1, ItemsStep DEF MovePlaylistItem, MovePlaylistItemToIndex

\* Moving videos between two playlists, which may be the same one.
LEMMA MoveItemsStep ==
  ASSUME PlaylistInv, NEW p \in DOMAIN lists, NEW q \in DOMAIN lists, NEW batch \in Batches,
         MovePlaylistItems(p, q, batch)
  PROVE  PlaylistInv'
<1>. DEFINE less == RemovedAll(lists[p].items, batch)
            without == [lists EXCEPT ![p].items = less]
            more == AppendedAll(without[q].items, batch)
<1>1. lists = [r \in DOMAIN lists |-> lists[r]] /\ DOMAIN lists \subseteq 1..issued
  BY DEF PlaylistInv, Tables, GoodLists
<1>2. Arranged(less)
  BY BatchType, ListsOf, ChangesArranged DEF RemovedAll
<1>3. lists' = [without EXCEPT ![q].items = more]
  BY DEF MovePlaylistItems
<1>. HIDE DEF less
<1>4. \A r \in DOMAIN lists : GoodList(without[r]) /\ without[r].smart = lists[r].smart
  <2>. SUFFICES ASSUME NEW r \in DOMAIN lists
                PROVE  GoodList(without[r]) /\ without[r].smart = lists[r].smart
    OBVIOUS
  <2>1. without[r] = IF r = p THEN [lists[r] EXCEPT !.items = less] ELSE lists[r]
    BY <1>1
  <2>2. GoodList(lists[r])
    BY ListsOf
  <2>. QED  BY <1>2, <2>1, <2>2 DEF GoodList
<1>5. without = [r \in DOMAIN lists |-> without[r]]
  BY <1>1
<1>. HIDE DEF without
<1>6. Arranged(more)
  BY <1>4, BatchType, ChangesArranged DEF GoodList, AppendedAll
<1>. HIDE DEF more
<1>7. \A r \in DOMAIN lists : GoodList(lists'[r]) /\ lists'[r].smart = lists[r].smart
  <2>. SUFFICES ASSUME NEW r \in DOMAIN lists
                PROVE  GoodList(lists'[r]) /\ lists'[r].smart = lists[r].smart
    OBVIOUS
  <2>1. lists'[r] = IF r = q THEN [without[r] EXCEPT !.items = more] ELSE without[r]
    BY <1>3, <1>5
  <2>2. GoodList(without[r]) /\ without[r].smart = lists[r].smart
    BY <1>4
  <2>. QED  BY <1>6, <2>1, <2>2 DEF GoodList
<1>8. lists' = [r \in DOMAIN lists |-> lists'[r]]
  BY <1>3, <1>5
<1>9. GoodLists(lists', issued) /\ GoodRules(rules, lists')
  BY <1>1, <1>7, <1>8 DEF GoodLists, GoodRules, PlaylistInv, Tables
<1>10. ops' \in 0..MaxOps /\ favorites' \subseteq Videos
  BY OpType DEF MovePlaylistItems, PlaylistInv, Tables
<1>. QED  BY <1>9, <1>10, TablesStep DEF MovePlaylistItems

\* New tags leave the rows alone.
LEMMA TagsStep ==
  ASSUME PlaylistInv, NEW p \in DOMAIN lists, NEW tags \in SUBSET Tags, SetPlaylistTags(p, tags)
  PROVE  PlaylistInv'
<1>. DEFINE list == [lists[p] EXCEPT !.tags = tags]
<1>1. GoodList(lists[p]) /\ lists = [q \in DOMAIN lists |-> lists[q]]
  BY ListsOf DEF PlaylistInv, Tables, GoodLists
<1>2. GoodList(list) /\ list.smart = lists[p].smart
  BY <1>1 DEF GoodList
<1>3. lists' = [lists EXCEPT ![p] = list]
  BY <1>1 DEF SetPlaylistTags
<1>. HIDE DEF list
<1>4. GoodLists(lists', issued) /\ GoodRules(rules, lists')
  BY <1>2, <1>3, ReplaceGood
<1>5. ops' \in 0..MaxOps /\ favorites' \subseteq Videos
  BY OpType DEF SetPlaylistTags, PlaylistInv, Tables
<1>. QED  BY <1>4, <1>5, TablesStep DEF SetPlaylistTags

\* A saved rule is of the current version, and its playlist is marked.
LEMMA SaveRuleStep ==
  ASSUME PlaylistInv, NEW p \in DOMAIN lists, SaveSmartRule(p)
  PROVE  PlaylistInv'
<1>. DEFINE list == [lists[p] EXCEPT !.smart = TRUE]
<1>1. GoodList(lists[p]) /\ lists = [q \in DOMAIN lists |-> lists[q]]
  BY ListsOf DEF PlaylistInv, Tables, GoodLists
<1>2. GoodList(list) /\ list.smart = TRUE
  BY <1>1, SmartGood
<1>3. lists' = [lists EXCEPT ![p] = list]
  BY <1>1 DEF SaveSmartRule
<1>. HIDE DEF list
<1>4. GoodLists(lists', issued) /\ GoodRules(rules, lists')
  BY <1>2, <1>3, ReplaceGood
<1>5. /\ DOMAIN rules' = DOMAIN rules \cup {p} /\ rules'[p] = Current /\ rules' = [q \in DOMAIN rules' |-> rules'[q]]
      /\ \A q \in DOMAIN rules : q # p => rules'[q] = rules[q]
  BY DEF SaveSmartRule, With
<1>6. Current \in Rule /\ Upgradable(Current)
  BY DEF Current, Rule, Upgradable
<1>7. lists'[p].smart /\ DOMAIN lists' = DOMAIN lists
  BY <1>2, <1>3
<1>8. GoodRules(rules', lists')
  BY <1>4, <1>5, <1>6, <1>7 DEF GoodRules
<1>9. ops' \in 0..MaxOps /\ favorites' \subseteq Videos
  BY OpType DEF SaveSmartRule, PlaylistInv, Tables
<1>. QED  BY <1>4, <1>8, <1>9, TablesStep DEF SaveSmartRule

\* A favorite more or less.
LEMMA FavoriteStep ==
  ASSUME PlaylistInv, NEW v \in Videos, SetFavorite(v) PROVE PlaylistInv'
<1>1. ops' \in 0..MaxOps /\ favorites' \subseteq Videos /\ lists' = lists /\ rules' = rules
  BY OpType DEF SetFavorite, PlaylistInv, Tables
<1>. QED  BY <1>1, TablesStep DEF SetFavorite, PlaylistInv, Tables

\* ClearPersonalData leaves nothing.
LEMMA ClearStep ==
  ASSUME PlaylistInv, ClearPersonalData PROVE PlaylistInv'
<1>1. ops' \in 0..MaxOps /\ issued \in Nat
  BY OpType DEF ClearPersonalData, PlaylistInv
<1>. QED  BY <1>1, NothingIsGood, TablesStep DEF ClearPersonalData

\* Every edit keeps the invariant.
LEMMA PlaylistEditStep ==
  ASSUME PlaylistInv, EditPlaylists PROVE PlaylistInv'
<1>1. CASE CreatePlaylist \/ ClearPersonalData \/ \E v \in Videos : SetFavorite(v)
  BY <1>1, CreateStep, ClearStep, FavoriteStep
<1>2. ASSUME NEW p \in DOMAIN lists, DuplicatePlaylist(p) \/ DeletePlaylist(p) \/ SaveSmartRule(p)
      PROVE  PlaylistInv'
  BY <1>2, DuplicateStep, DeleteStep, SaveRuleStep
<1>3. ASSUME NEW p \in DOMAIN lists, \E tags \in SUBSET Tags : SetPlaylistTags(p, tags)
      PROVE  PlaylistInv'
  BY <1>3, TagsStep
<1>4. ASSUME NEW p \in DOMAIN lists, \E batch \in Batches : AddItems(p, batch) \/ RemoveItems(p, batch)
      PROVE  PlaylistInv'
  BY <1>4, AddStep
<1>5. ASSUME NEW p \in DOMAIN lists, \E q \in DOMAIN lists, batch \in Batches : MovePlaylistItems(p, q, batch)
      PROVE  PlaylistInv'
  BY <1>5, MoveItemsStep
<1>6. ASSUME NEW p \in DOMAIN lists,
             \E v \in DOMAIN lists[p].items, n \in -2..2 :
               MovePlaylistItem(p, v, n) \/ MovePlaylistItemToIndex(p, v, n)
      PROVE  PlaylistInv'
  <2>1. -2..2 \subseteq Int
    OBVIOUS
  <2>. QED  BY <1>6, <2>1, MoveItemStep
<1>. QED  BY <1>1, <1>2, <1>3, <1>4, <1>5, <1>6 DEF EditPlaylists

------------------------------------------------------------
(* Jobs *)

\* A step that leaves the number of playlists created alone.
LEMMA JobStep ==
  ASSUME PlaylistInv, UNCHANGED issued, ops' \in 0..MaxOps,
         GoodLists(lists', issued), GoodRules(rules', lists'), favorites' \subseteq Videos,
         GoodFile(backup', issued), GoodJob(job', issued)
  PROVE  PlaylistInv'
BY DEF PlaylistInv, Tables

\* The invariant, taken apart.
LEMMA InvParts ==
  ASSUME PlaylistInv
  PROVE  /\ issued \in Nat /\ MaxPlaylists \in Nat /\ issued <= MaxPlaylists /\ ops \in 0..MaxOps
         /\ 1..issued \subseteq PlaylistIds
         /\ GoodLists(lists, issued) /\ GoodRules(rules, lists) /\ favorites \subseteq Videos
         /\ GoodFile(backup, issued) /\ GoodJob(job, issued) /\ GoodJob(NoJob, issued)
<1>1. issued \in Nat /\ MaxPlaylists \in Nat /\ issued <= MaxPlaylists
  BY PlaylistAssumption DEF PlaylistInv
<1>2. GoodJob(NoJob, issued)
  BY <1>1, NothingIsGood
<1>3. 1..issued \subseteq PlaylistIds
  BY <1>1 DEF PlaylistIds
<1>. QED  BY <1>1, <1>2, <1>3 DEF PlaylistInv, Tables

\* The job starts, ends or goes on; the tables stay.
LEMMA OnlyJob ==
  ASSUME PlaylistInv, UNCHANGED <<db, issued, backup>>, ops' \in 0..MaxOps, GoodJob(job', issued)
  PROVE  PlaylistInv'
<1>1. lists' = lists /\ rules' = rules /\ favorites' = favorites
  BY DEF db
<1>. QED  BY <1>1, InvParts, JobStep

\* What the invariant says of the job.
LEMMA JobFields ==
  ASSUME NEW work, NEW n \in Nat, GoodJob(work, n)
  PROVE  /\ IsWork(work)
         /\ GoodFile(work.file, n) /\ GoodState(work.staging, n) /\ Restoring(work)
         /\ work.id \in 0..MaxPlaylists /\ work.todo \in Seq(Videos) /\ work.left \subseteq 1..n
BY DEF GoodJob

\* A job of which one field is another is still a job.
LEMMA WorkWith ==
  ASSUME NEW work, IsWork(work), NEW x
  PROVE  /\ IsWork([work EXCEPT !.kind = x]) /\ IsWork([work EXCEPT !.pc = x]) /\ IsWork([work EXCEPT !.id = x])
         /\ IsWork([work EXCEPT !.todo = x]) /\ IsWork([work EXCEPT !.left = x])
         /\ IsWork([work EXCEPT !.file = x]) /\ IsWork([work EXCEPT !.staging = x])
<1>1. IsWork([work EXCEPT !.kind = x])
  BY DEF IsWork
<1>2. IsWork([work EXCEPT !.pc = x])
  BY DEF IsWork
<1>3. IsWork([work EXCEPT !.id = x])
  BY DEF IsWork
<1>4. IsWork([work EXCEPT !.todo = x])
  BY DEF IsWork
<1>5. IsWork([work EXCEPT !.left = x])
  BY DEF IsWork
<1>6. IsWork([work EXCEPT !.file = x])
  BY DEF IsWork
<1>7. IsWork([work EXCEPT !.staging = x])
  BY DEF IsWork
<1>. QED  BY <1>1, <1>2, <1>3, <1>4, <1>5, <1>6, <1>7

\* The fields of no job.
LEMMA NoJobFields ==
  /\ IsWork(NoJob)
  /\ NoJob.id = 0 /\ NoJob.todo = <<>> /\ NoJob.left = {} /\ NoJob.file = NoBackup /\ NoJob.staging = NoDatabase
BY DEF NoJob, IsWork

Started(k, i, t) == [NoJob EXCEPT !.kind = k, !.id = i, !.todo = t]

\* The fields of a job that has just started.
LEMMA StartedFields ==
  ASSUME NEW k, NEW i, NEW t
  PROVE  LET w == Started(k, i, t)
         IN  /\ IsWork(w) /\ w.kind = k /\ w.id = i /\ w.todo = t
             /\ w.left = NoJob.left /\ w.file = NoJob.file /\ w.staging = NoJob.staging
<1>. DEFINE a == [NoJob EXCEPT !.kind = k]
            b == [a EXCEPT !.id = i]
            c == [b EXCEPT !.todo = t]
<1>0. IsWork(NoJob)
  BY NoJobFields
<1>1. IsWork(a)
  BY <1>0, WorkWith
<1>2. IsWork(b)
  <2>. HIDE DEF a
  <2>. QED  BY <1>1, WorkWith
<1>3. IsWork(c)
  <2>. HIDE DEF b
  <2>. QED  BY <1>2, WorkWith
<1>4. c = Started(k, i, t)
  BY DEF Started
<1>5. /\ c.kind = k /\ c.id = i /\ c.todo = t
      /\ c.left = NoJob.left /\ c.file = NoJob.file /\ c.staging = NoJob.staging
  BY <1>0 DEF IsWork
<1>. HIDE DEF c
<1>. QED  BY <1>3, <1>4, <1>5


\* The order of a playlist is one of videos.
LEMMA OrderType ==
  ASSUME NEW items, Arranged(items)
  PROVE  Ordered(items) \in Seq(Videos)
<1>. DEFINE order == Ordered(items)
            N == Size(items)
<1>1. order \in Seq(DOMAIN items) /\ Len(order) = N /\ \A n \in 1..N : order[n] \in DOMAIN items
  BY OrderedOf
<1>2. DOMAIN items \subseteq Videos
  BY DEF Arranged
<1>. HIDE DEF order, N
<1>3. order \in [1..Len(order) -> Videos] /\ Len(order) \in Nat
  BY <1>1, <1>2
<1>4. order \in Seq(Videos)
  BY <1>3, <1>1, <1>2
<1>. QED  BY <1>4 DEF order

\* MergePlaylist takes the order of the source with it.
LEMMA MergeBeginStep ==
  ASSUME PlaylistInv, NEW p \in DOMAIN lists, NEW q \in DOMAIN lists, MergeBegin(p, q)
  PROVE  PlaylistInv'
<1>. DEFINE todo == Ordered(lists[p].items)
            work == [NoJob EXCEPT !.kind = "merge", !.id = q, !.todo = todo]
<1>1. todo \in Seq(Videos)
  BY ListsOf, OrderType
<1>2. q \in 0..MaxPlaylists
  BY ListsOf, InvParts
<1>3. job' = work /\ ops' \in 0..MaxOps
  BY OpType DEF MergeBegin, BeginJob
<1>. HIDE DEF todo
<1>4. /\ IsWork(work)
      /\ work.kind = "merge" /\ work.id = q /\ work.todo = todo /\ work.left = NoJob.left
      /\ work.file = NoJob.file /\ work.staging = NoJob.staging
  <2>1. /\ IsWork(work) /\ work.kind = "merge" /\ work.id = q /\ work.todo = todo
        /\ work.left = NoJob.left /\ work.file = NoJob.file /\ work.staging = NoJob.staging
    <3>1. work = Started("merge", q, todo)
      BY DEF Started
    <3>. HIDE DEF work
    <3>. QED  BY <3>1, StartedFields
  <2>. QED  BY <2>1
<1>. HIDE DEF work
<1>5. GoodJob(work, issued)
  BY <1>1, <1>2, <1>4, InvParts DEF GoodJob, Restoring
<1>. QED  BY <1>3, <1>5, OnlyJob DEF MergeBegin

\* The target is filled, if it is still there.
LEMMA MergeCopyStep == ASSUME PlaylistInv, MergeCopy PROVE PlaylistInv'
<1>1. ops' \in 0..MaxOps /\ job' = NoJob /\ rules' = rules /\ favorites' = favorites /\ issued' = issued /\ backup' = backup
  BY InvParts DEF MergeCopy, End
<1>2. GoodLists(lists', issued) /\ GoodRules(rules, lists')
  <2>1. CASE job.id \in DOMAIN lists
    <3>. DEFINE items == AppendedAll(lists[job.id].items, job.todo)
    <3>1. job.todo \in Seq(Videos)
      BY InvParts, JobFields
    <3>2. Arranged(items)
      BY <2>1, <3>1, ListsOf, ChangesArranged DEF AppendedAll
    <3>3. SetItems(job.id, items)
      BY <2>1 DEF MergeCopy
    <3>. HIDE DEF items
    <3>. QED  BY <2>1, <3>2, <3>3, SetItemsGood
  <2>2. CASE job.id \notin DOMAIN lists
    BY <2>2, InvParts DEF MergeCopy
  <2>. QED  BY <2>1, <2>2
<1>. QED  BY <1>1, <1>2, InvParts, JobStep

\* ImportRemotePlaylist creates an empty playlist.
LEMMA RemoteBeginStep == ASSUME PlaylistInv, NEW batch \in Batches, RemoteBegin(batch) PROVE PlaylistInv'
<1>. DEFINE work == [NoJob EXCEPT !.kind = "remote", !.id = issued + 1, !.todo = batch]
<1>1. issued + 1 \in 0..MaxPlaylists /\ issued + 1 \in Nat /\ issued < MaxPlaylists
  BY InvParts DEF RemoteBegin, Free
<1>2. job' = work /\ ops' \in 0..MaxOps
  BY OpType DEF RemoteBegin, BeginJob
<1>3. /\ IsWork(work)
      /\ work.kind = "remote" /\ work.id = issued + 1 /\ work.todo = batch /\ work.left = NoJob.left
      /\ work.file = NoJob.file /\ work.staging = NoJob.staging
  <2>1. /\ IsWork(work) /\ work.kind = "remote" /\ work.id = issued + 1 /\ work.todo = batch
        /\ work.left = NoJob.left /\ work.file = NoJob.file /\ work.staging = NoJob.staging
    <3>1. work = Started("remote", issued + 1, batch)
      BY DEF Started
    <3>. HIDE DEF work
    <3>. QED  BY <3>1, StartedFields
  <2>. QED  BY <2>1
<1>. HIDE DEF work
<1>4. GoodJob(NoJob, issued + 1)
  BY <1>1, NothingIsGood
<1>5. GoodJob(work, issued + 1)
  BY <1>1, <1>3, <1>4, BatchType DEF GoodJob, Restoring
<1>6. GoodLists(lists', issued + 1) /\ GoodRules(rules, lists')
  <2>1. GoodList(NewList)
    BY <1>1, NothingIsGood
  <2>. QED  BY <1>1, <2>1, InsertGood DEF RemoteBegin
<1>. QED  BY <1>2, <1>5, <1>6, IssueStep DEF RemoteBegin

\* The rest of what is to be added.
LEMMA RestGood ==
  ASSUME PlaylistInv, job.todo # <<>>, job.kind \in {"remote", "import"}
  PROVE  GoodJob([job EXCEPT !.todo = Tail(@)], issued) /\ Head(job.todo) \in Videos
<1>. DEFINE work == [job EXCEPT !.todo = Tail(@)]
<1>1. job.todo \in Seq(Videos) /\ GoodJob(job, issued)
  BY InvParts, JobFields
<1>2. Head(job.todo) \in Videos /\ Tail(job.todo) \in Seq(Videos)
  BY <1>1, HeadTailProperties
<1>3. /\ IsWork(work)
      /\ work.kind = job.kind /\ work.id = job.id /\ work.todo = Tail(job.todo) /\ work.left = job.left
      /\ work.file = job.file /\ work.staging = job.staging
  <2>1. IsWork(job)
    BY InvParts, JobFields
  <2>2. IsWork(work)
    BY <2>1, WorkWith
  <2>. QED  BY <2>1, <2>2 DEF IsWork
<1>. HIDE DEF work
<1>4. GoodJob(work, issued)
  BY <1>1, <1>2, <1>3 DEF GoodJob, Restoring
<1>. QED  BY <1>2, <1>4 DEF work

\* One video of the job is added to its playlist.
LEMMA AddedGood ==
  ASSUME PlaylistInv, job.todo # <<>>, job.kind \in {"remote", "import"}, job.id \in DOMAIN lists,
         SetItems(job.id, Appended(lists[job.id].items, Head(job.todo)))
  PROVE  GoodLists(lists', issued) /\ GoodRules(rules, lists')
<1>1. Arranged(Appended(lists[job.id].items, Head(job.todo)))
  BY RestGood, ListsOf, AppendedArranged
<1>. QED  BY <1>1, SetItemsGood

\* It adds one video, or the last one.
LEMMA RemoteAddStep == ASSUME PlaylistInv, RemoteAdd PROVE PlaylistInv'
<1>1. GoodLists(lists', issued) /\ GoodRules(rules, lists')
  BY AddedGood DEF RemoteAdd
<1>2. GoodJob(job', issued)
  BY RestGood, InvParts DEF RemoteAdd
<1>. QED  BY <1>1, <1>2, InvParts, JobStep DEF RemoteAdd

\* It deletes what it has created.
LEMMA RemoteFailsStep == ASSUME PlaylistInv, RemoteFails PROVE PlaylistInv'
<1>1. GoodLists(lists', issued) /\ GoodRules(rules', lists')
  BY DeleteGood DEF RemoteFails
<1>. QED  BY <1>1, InvParts, JobStep DEF RemoteFails, End

\* A file of which one part is another.
LEMMA FileWith ==
  ASSUME NEW n \in Nat, NEW file, GoodFile(file, n)
  PROVE  /\ \A x : /\ [file EXCEPT !.favorites = x].favorites = x /\ [file EXCEPT !.lists = x].lists = x
                   /\ [file EXCEPT !.rules = x].rules = x
         /\ \A x \in SUBSET Videos : GoodFile([file EXCEPT !.favorites = x], n)
         /\ \A b \in BOOLEAN : GoodFile([file EXCEPT !.personal = b], n) /\ GoodFile([file EXCEPT !.smart = b], n)
         /\ \A rows : rows \in [DOMAIN rows -> Seq(Videos)] /\ DOMAIN rows \subseteq 1..n
                        => GoodFile([file EXCEPT !.lists = rows], n)
         /\ \A rows : rows \in [DOMAIN rows -> Rule] /\ DOMAIN rows \subseteq PlaylistIds
                        => GoodFile([file EXCEPT !.rules = rows], n)
<1>1. ASSUME NEW x
      PROVE  /\ [file EXCEPT !.favorites = x].favorites = x /\ [file EXCEPT !.lists = x].lists = x
             /\ [file EXCEPT !.rules = x].rules = x
  BY DEF GoodFile
<1>2. ASSUME NEW x \in SUBSET Videos PROVE GoodFile([file EXCEPT !.favorites = x], n)
  BY DEF GoodFile
<1>3. ASSUME NEW b \in BOOLEAN PROVE GoodFile([file EXCEPT !.personal = b], n)
  BY DEF GoodFile
<1>4. ASSUME NEW b \in BOOLEAN PROVE GoodFile([file EXCEPT !.smart = b], n)
  BY DEF GoodFile
<1>5. ASSUME NEW rows, rows \in [DOMAIN rows -> Seq(Videos)], DOMAIN rows \subseteq 1..n
      PROVE  GoodFile([file EXCEPT !.lists = rows], n)
  BY <1>5 DEF GoodFile
<1>6. ASSUME NEW rows, rows \in [DOMAIN rows -> Rule], DOMAIN rows \subseteq PlaylistIds
      PROVE  GoodFile([file EXCEPT !.rules = rows], n)
  BY <1>6 DEF GoodFile
<1>. QED  BY <1>1, <1>2, <1>3, <1>4, <1>5, <1>6

\* A job of which nothing but the kind, the place and the file changes.
LEMMA FileJob ==
  ASSUME NEW n \in Nat, NEW work, GoodJob(work, n), NEW w, IsWork(w),
         w.kind \in {"export", "import", "restore"}, w.pc \notin {"rules", "swap"} \/ w.kind # "restore",
         w.id = work.id, w.todo = work.todo, w.left \subseteq 1..n, GoodFile(w.file, n),
         w.kind = "import" => w.left \subseteq DOMAIN w.file.lists, GoodState(w.staging, n)
  PROVE  GoodJob(w, n)
<1>1. Restoring(w)
  BY DEF Restoring
<1>. QED  BY <1>1 DEF GoodJob

\* An export starts with the favorites.
LEMMA ExportBeginStep == ASSUME PlaylistInv, NEW smart \in BOOLEAN, ExportBegin(smart) PROVE PlaylistInv'
<1>. DEFINE f1 == [NoBackup EXCEPT !.favorites = favorites]
            f2 == [f1 EXCEPT !.personal = TRUE]
            f3 == [f2 EXCEPT !.smart = smart]
            a == [NoJob EXCEPT !.kind = "export"]
            b == [a EXCEPT !.pc = "playlists"]
            c == [b EXCEPT !.file = f3]
<1>0. issued \in Nat /\ favorites \subseteq Videos /\ GoodFile(NoBackup, issued) /\ GoodJob(NoJob, issued) /\ IsWork(NoJob)
  BY InvParts, NothingIsGood, NoJobFields
<1>1. GoodFile(f1, issued)
  BY <1>0, FileWith
<1>2. GoodFile(f2, issued)
  <2>. HIDE DEF f1
  <2>. QED  BY <1>0, <1>1, FileWith
<1>3. GoodFile(f3, issued)
  <2>. HIDE DEF f2
  <2>. QED  BY <1>0, <1>2, FileWith
<1>4. job' = c /\ ops' \in 0..MaxOps
  BY OpType DEF ExportBegin, BeginJob
<1>. HIDE DEF f3
<1>5. IsWork(a)
  BY <1>0, WorkWith
<1>6. IsWork(b)
  <2>. HIDE DEF a
  <2>. QED  BY <1>5, WorkWith
<1>7. IsWork(c)
  <2>. HIDE DEF b
  <2>. QED  BY <1>6, WorkWith
<1>8. /\ c.kind = "export" /\ c.pc = "playlists" /\ c.file = f3 /\ c.id = NoJob.id /\ c.todo = NoJob.todo
      /\ c.left = NoJob.left /\ c.staging = NoJob.staging
  BY <1>0 DEF IsWork
<1>. HIDE DEF c
<1>9. GoodJob(c, issued)
  <2>1. NoJob.left \subseteq 1..issued /\ GoodState(NoJob.staging, issued)
    BY <1>0, JobFields
  <2>. QED  BY <1>0, <1>3, <1>7, <1>8, <2>1, FileJob
<1>. QED  BY <1>4, <1>9, OnlyJob DEF ExportBegin

\* It notes the playlists there are.
LEMMA ExportPlaylistsStep == ASSUME PlaylistInv, ExportPlaylists PROVE PlaylistInv'
<1>. DEFINE a == [job EXCEPT !.pc = "items"]
            b == [a EXCEPT !.left = DOMAIN lists]
<1>0. issued \in Nat /\ GoodJob(job, issued) /\ IsWork(job) /\ job.kind = "export" /\ DOMAIN lists \subseteq 1..issued
  BY InvParts, JobFields DEF ExportPlaylists, GoodLists
<1>1. job' = b /\ ops' \in 0..MaxOps
  BY InvParts DEF ExportPlaylists
<1>2. IsWork(a)
  BY <1>0, WorkWith
<1>3. IsWork(b)
  <2>. HIDE DEF a
  <2>. QED  BY <1>2, WorkWith
<1>4. /\ b.kind = job.kind /\ b.pc = "items" /\ b.file = job.file /\ b.id = job.id /\ b.todo = job.todo
      /\ b.left = DOMAIN lists /\ b.staging = job.staging
  BY <1>0 DEF IsWork
<1>. HIDE DEF b
<1>5. GoodJob(b, issued)
  <2>1. GoodFile(job.file, issued) /\ GoodState(job.staging, issued)
    BY <1>0, JobFields
  <2>. QED  BY <1>0, <1>3, <1>4, <2>1, FileJob
<1>. QED  BY <1>1, <1>5, OnlyJob DEF ExportPlaylists

\* It reads their rows, of those that are left.
LEMMA ExportItemsStep == ASSUME PlaylistInv, ExportItems PROVE PlaylistInv'
<1>. DEFINE orders == [p \in job.left |-> IF p \in DOMAIN lists THEN Ordered(lists[p].items) ELSE <<>>]
            file == [job.file EXCEPT !.lists = orders]
            a == [job EXCEPT !.pc = "rules"]
            b == [a EXCEPT !.file = file]
<1>0. issued \in Nat /\ GoodJob(job, issued) /\ IsWork(job) /\ job.kind = "export"
      /\ GoodFile(job.file, issued) /\ GoodState(job.staging, issued) /\ job.left \subseteq 1..issued
  BY InvParts, JobFields DEF ExportItems
<1>1. orders \in [DOMAIN orders -> Seq(Videos)] /\ DOMAIN orders \subseteq 1..issued
  <2>1. ASSUME NEW p \in job.left PROVE orders[p] \in Seq(Videos)
    <3>1. CASE p \in DOMAIN lists
      BY <3>1, ListsOf, OrderType
    <3>2. CASE p \notin DOMAIN lists
      BY <3>2, EmptySeq
    <3>. QED  BY <3>1, <3>2
  <2>. QED  BY <1>0, <2>1
<1>2. job' = b /\ ops' \in 0..MaxOps
  <2>1. b = [job EXCEPT !.pc = "rules", !.file.lists = orders]
    BY <1>0 DEF IsWork
  <2>. QED  BY <2>1, InvParts DEF ExportItems
<1>. HIDE DEF orders
<1>3. GoodFile(file, issued)
  BY <1>0, <1>1, FileWith
<1>. HIDE DEF file
<1>4. IsWork(a)
  BY <1>0, WorkWith
<1>5. IsWork(b)
  <2>. HIDE DEF a
  <2>. QED  BY <1>4, WorkWith
<1>6. /\ b.kind = job.kind /\ b.pc = "rules" /\ b.file = file /\ b.id = job.id /\ b.todo = job.todo
      /\ b.left = job.left /\ b.staging = job.staging
  BY <1>0 DEF IsWork
<1>. HIDE DEF b
<1>7. GoodJob(b, issued)
  BY <1>0, <1>3, <1>5, <1>6, FileJob
<1>. QED  BY <1>2, <1>7, OnlyJob DEF ExportItems

\* It reads the rules and writes the file.
LEMMA ExportWriteStep == ASSUME PlaylistInv, ExportWrite PROVE PlaylistInv'
<1>. DEFINE kept == IF job.file.smart THEN rules ELSE NoRows
            file == [job.file EXCEPT !.rules = kept]
<1>1. issued \in Nat /\ GoodFile(job.file, issued)
  BY InvParts, JobFields
<1>2. kept \in [DOMAIN kept -> Rule] /\ DOMAIN kept \subseteq PlaylistIds
  <2>1. rules \in [DOMAIN rules -> Rule] /\ DOMAIN rules \subseteq PlaylistIds
    BY InvParts DEF GoodRules, GoodLists
  <2>2. NoRows \in [DOMAIN NoRows -> Rule] /\ DOMAIN NoRows = {}
    BY DEF NoRows
  <2>. QED  BY <2>1, <2>2
<1>3. backup' = file /\ job' = NoJob /\ ops' = ops /\ issued' = issued
  BY DEF ExportWrite, End
<1>. HIDE DEF kept
<1>4. GoodFile(file, issued)
  BY <1>1, <1>2, FileWith
<1>. HIDE DEF file
<1>5. lists' = lists /\ rules' = rules /\ favorites' = favorites
  BY DEF ExportWrite, db
<1>. QED  BY <1>3, <1>4, <1>5, InvParts, JobStep

\* A file of another machine names a playlist that is not here, and any rule.
LEMMA ReceiveStep ==
  ASSUME PlaylistInv, NEW batch \in Batches, NEW rule \in Rule, NEW personal \in BOOLEAN,
         ReceiveBackup(batch, rule, personal)
  PROVE  PlaylistInv'
<1>. DEFINE m == issued + 1
            l == With(NoRows, m, batch)
            r == With(NoRows, m, rule)
<1>1. issued \in Nat /\ m \in Nat /\ m \in 1..m /\ m \in PlaylistIds /\ issued <= m
  BY InvParts DEF ReceiveBackup, Free, PlaylistIds
<1>2. backup' = [lists |-> l, rules |-> r, favorites |-> {}, personal |-> personal, smart |-> TRUE]
  BY DEF ReceiveBackup
<1>3. ops' \in 0..MaxOps
  BY OpType DEF ReceiveBackup
<1>4. DOMAIN l = {m} /\ l \in [DOMAIN l -> Seq(Videos)] /\ DOMAIN r = {m} /\ r \in [DOMAIN r -> Rule]
  BY BatchType DEF With, NoRows
<1>. HIDE DEF l, r
<1>5. /\ backup'.lists = l /\ backup'.rules = r /\ backup'.favorites = {}
      /\ backup'.personal \in BOOLEAN /\ backup'.smart \in BOOLEAN
      /\ backup' = [lists |-> backup'.lists, rules |-> backup'.rules, favorites |-> backup'.favorites,
                    personal |-> backup'.personal, smart |-> backup'.smart]
  BY <1>2
<1>. HIDE DEF m
<1>6. GoodFile(backup', m)
  BY <1>1, <1>4, <1>5 DEF GoodFile
<1>7. GoodLists(lists, m)
  BY <1>1, InvParts, MoreIssued
<1>8. lists' = lists /\ rules' = rules /\ favorites' = favorites /\ job' = job
  BY DEF ReceiveBackup, db
<1>. QED  BY <1>3, <1>6, <1>7, <1>8, InvParts, IssueStep DEF ReceiveBackup, m

\* What replaces the tables: the playlists of the file in their order.
LEMMA ReplacedGood ==
  ASSUME NEW n \in Nat, NEW file, GoodFile(file, n), Importable(file)
  PROVE  GoodState(Replaced(file), n) /\ HoldsPersonal(Replaced(file), file)
<1>. DEFINE L == [p \in DOMAIN file.lists |-> [NewList EXCEPT !.items = Positions(file.lists[p])]]
            state == Replaced(file)
<1>1. \A p \in DOMAIN file.lists : /\ Arranged(Positions(file.lists[p]))
                                   /\ Ordered(Positions(file.lists[p])) = file.lists[p]
  <2>. SUFFICES ASSUME NEW p \in DOMAIN file.lists
                PROVE  /\ Arranged(Positions(file.lists[p]))
                       /\ Ordered(Positions(file.lists[p])) = file.lists[p]
    OBVIOUS
  <2>. DEFINE order == file.lists[p]
  <2>1. order \in Seq(Videos) /\ IsInjective(order)
    BY DEF GoodFile, Importable
  <2>. HIDE DEF order
  <2>2. Arranged(Positions(order)) /\ Ordered(Positions(order)) = order
    BY <2>1, PositionsArranged
  <2>. QED  BY <2>2 DEF order
<1>2. DOMAIN L = DOMAIN file.lists /\ L = [p \in DOMAIN L |-> L[p]]
  OBVIOUS
<1>3. \A p \in DOMAIN L : GoodList(L[p]) /\ Ordered(L[p].items) = file.lists[p]
  <2>. SUFFICES ASSUME NEW p \in DOMAIN L PROVE GoodList(L[p]) /\ Ordered(L[p].items) = file.lists[p]
    OBVIOUS
  <2>. DEFINE items == Positions(file.lists[p])
              list == [NewList EXCEPT !.items = items]
  <2>1. Arranged(items) /\ Ordered(items) = file.lists[p] /\ L[p] = list
    BY <1>1
  <2>. HIDE DEF items, L
  <2>2. GoodList(list)
    BY <2>1, NewListGood
  <2>3. list.items = items
    BY DEF NewList
  <2>. QED  BY <2>3, <2>2, <2>1
<1>4. state = [lists |-> L, rules |-> NoRows, favorites |-> file.favorites]
  BY DEF Replaced
<1>. HIDE DEF L, state
<1>5. /\ state.lists = L /\ state.rules = NoRows /\ state.favorites = file.favorites
      /\ state = [lists |-> state.lists, rules |-> state.rules, favorites |-> state.favorites]
  BY <1>4
<1>6. GoodLists(L, n)
  BY <1>2, <1>3 DEF GoodLists, GoodFile
<1>7. GoodRules(NoRows, L)
  BY DEF GoodRules, NoRows
<1>8. GoodState(state, n)
  BY <1>5, <1>6, <1>7 DEF GoodState, GoodFile
<1>9. HoldsPersonal(state, file)
  BY <1>2, <1>3, <1>5 DEF HoldsPersonal
<1>. QED  BY <1>8, <1>9 DEF state

\* An import that replaces everything, or nothing when the file breaks the key.
LEMMA ImportReplaceStep == ASSUME PlaylistInv, ImportReplace PROVE PlaylistInv'
<1>. DEFINE new == Replaced(backup)
<1>1. ops' \in 0..MaxOps /\ issued' = issued /\ backup' = backup /\ job' = job
  BY OpType DEF ImportReplace
<1>2. GoodLists(lists', issued) /\ GoodRules(rules', lists') /\ favorites' \subseteq Videos
  <2>1. CASE Importable(backup)
    <3>1. lists' = new.lists /\ rules' = new.rules /\ favorites' = new.favorites
      BY <2>1 DEF ImportReplace
    <3>2. GoodState(new, issued)
      BY <2>1, InvParts, ReplacedGood
    <3>. HIDE DEF new
    <3>. QED  BY <3>1, <3>2 DEF GoodState
  <2>2. CASE ~Importable(backup)
    <3>1. lists' = lists /\ rules' = rules /\ favorites' = favorites
      BY <2>2 DEF ImportReplace, db
    <3>. QED  BY <3>1, InvParts
  <2>. QED  BY <2>1, <2>2
<1>. QED  BY <1>1, <1>2, InvParts, JobStep

\* An import that goes through the playlists of a file.
LEMMA ImportBeginStep ==
  ASSUME PlaylistInv, NEW strategy, ImportBegin(strategy) PROVE PlaylistInv'
<1>. DEFINE a == [NoJob EXCEPT !.kind = "import"]
            b == [a EXCEPT !.pc = strategy]
            c == [b EXCEPT !.left = DOMAIN backup.lists]
            d == [c EXCEPT !.file = backup]
<1>0. issued \in Nat /\ GoodFile(backup, issued) /\ GoodJob(NoJob, issued) /\ IsWork(NoJob)
  BY InvParts, NoJobFields
<1>1. job' = d /\ ops' \in 0..MaxOps
  BY OpType DEF ImportBegin, BeginJob
<1>2. IsWork(a)
  BY <1>0, WorkWith
<1>3. IsWork(b)
  <2>. HIDE DEF a
  <2>. QED  BY <1>2, WorkWith
<1>4. IsWork(c)
  <2>. HIDE DEF b
  <2>. QED  BY <1>3, WorkWith
<1>5. IsWork(d)
  <2>. HIDE DEF c
  <2>. QED  BY <1>4, WorkWith
<1>6. /\ d.kind = "import" /\ d.file = backup /\ d.id = NoJob.id /\ d.todo = NoJob.todo
      /\ d.left = DOMAIN backup.lists /\ d.staging = NoJob.staging
  BY <1>0 DEF IsWork
<1>. HIDE DEF d
<1>7. GoodJob(d, issued)
  <2>1. DOMAIN backup.lists \subseteq 1..issued /\ GoodState(NoJob.staging, issued)
    BY <1>0, JobFields DEF GoodFile
  <2>. QED  BY <1>0, <1>5, <1>6, <2>1, FileJob
<1>. QED  BY <1>1, <1>7, OnlyJob DEF ImportBegin

\* It creates a playlist, and fills that one or the one of the file.
LEMMA ImportPlaylistStep == ASSUME PlaylistInv, ImportPlaylist PROVE PlaylistInv'
<1>. DEFINE m == issued + 1
            p == CHOOSE p \in job.left : \A q \in job.left : p <= q
            id == IF job.pc = "duplicate" THEN m ELSE p
            a == [job EXCEPT !.left = @ \ {p}]
            b == [a EXCEPT !.todo = job.file.lists[p]]
            c == [b EXCEPT !.id = id]
<1>0. /\ issued \in Nat /\ m \in Nat /\ issued < MaxPlaylists /\ MaxPlaylists \in Nat /\ issued <= m
      /\ GoodJob(job, issued) /\ IsWork(job) /\ job.kind = "import" /\ job.left # {}
  BY InvParts, JobFields DEF ImportPlaylist, Free
<1>1. job' = c
  <2>1. c = [job EXCEPT !.left = @ \ {p}, !.todo = job.file.lists[p], !.id = id]
    OBVIOUS
  <2>. QED  BY <2>1 DEF ImportPlaylist
<1>2. /\ job.left \subseteq 1..issued /\ job.left \subseteq DOMAIN job.file.lists
      /\ GoodFile(job.file, m) /\ GoodState(job.staging, m) /\ GoodJob(job, m)
  <2>1. GoodJob(job, m)
    BY <1>0, MoreIssued
  <2>. QED  BY <1>0, <2>1 DEF GoodJob
<1>3. p \in job.left
  <2>1. job.left \in SUBSET Nat
    BY <1>2
  <2>2. \E n \in job.left : \A q \in job.left : n <= q
    BY <1>0, <2>1, LeastExists
  <2>. QED  BY <2>2
<1>. HIDE DEF p
<1>4. id \in 0..MaxPlaylists /\ job.file.lists[p] \in Seq(Videos)
  BY <1>0, <1>2, <1>3 DEF GoodFile
<1>. HIDE DEF id
<1>5. IsWork(a)
  BY <1>0, WorkWith
<1>6. IsWork(b)
  <2>. HIDE DEF a
  <2>. QED  BY <1>5, WorkWith
<1>7. IsWork(c)
  <2>. HIDE DEF b
  <2>. QED  BY <1>6, WorkWith
<1>8. /\ c.kind = job.kind /\ c.file = job.file /\ c.id = id /\ c.todo = job.file.lists[p]
      /\ c.left = job.left \ {p} /\ c.staging = job.staging
  BY <1>0 DEF IsWork
<1>. HIDE DEF c
<1>9. GoodJob(c, m)
  <2>1. c.left \subseteq 1..m /\ c.left \subseteq DOMAIN c.file.lists
    BY <1>0, <1>2, <1>8
  <2>2. Restoring(c)
    BY <1>0, <1>8 DEF Restoring
  <2>. HIDE DEF m
  <2>. QED  BY <1>0, <1>2, <1>4, <1>7, <1>8, <2>1, <2>2 DEF GoodJob
<1>10. GoodLists(lists', m) /\ GoodRules(rules, lists')
  <2>1. GoodList(NewList)
    BY <1>0, NothingIsGood
  <2>. QED  BY <1>0, <2>1, InsertGood DEF ImportPlaylist
<1>. QED  BY <1>1, <1>9, <1>10, InvParts, IssueStep DEF ImportPlaylist

\* It adds one video, or ends where the playlist is gone.
LEMMA ImportItemStep == ASSUME PlaylistInv, ImportItem PROVE PlaylistInv'
<1>1. CASE job.id \in DOMAIN lists
  <2>1. GoodLists(lists', issued) /\ GoodRules(rules, lists') /\ GoodJob(job', issued)
    BY <1>1, AddedGood, RestGood DEF ImportItem
  <2>. QED  BY <2>1, InvParts, JobStep DEF ImportItem
<1>2. CASE job.id \notin DOMAIN lists
  <2>1. lists' = lists /\ job' = NoJob
    BY <1>2 DEF ImportItem, End
  <2>. QED  BY <2>1, InvParts, JobStep DEF ImportItem
<1>. QED  BY <1>1, <1>2

\* It adds the favorites and ends.
LEMMA ImportFavoritesStep == ASSUME PlaylistInv, ImportFavorites PROVE PlaylistInv'
<1>1. favorites' \subseteq Videos
  BY InvParts, JobFields DEF ImportFavorites, GoodFile
<1>. QED  BY <1>1, InvParts, JobStep DEF ImportFavorites, End

\* A restore copies the database.
LEMMA RestoreBeginStep == ASSUME PlaylistInv, RestoreBegin PROVE PlaylistInv'
<1>. DEFINE state == [lists |-> lists, rules |-> rules, favorites |-> favorites]
            a == [NoJob EXCEPT !.kind = "restore"]
            b == [a EXCEPT !.pc = "personal"]
            c == [b EXCEPT !.file = backup]
            d == [c EXCEPT !.staging = state]
<1>0. issued \in Nat /\ GoodFile(backup, issued) /\ GoodJob(NoJob, issued) /\ IsWork(NoJob)
  BY InvParts, NoJobFields
<1>1. job' = d /\ ops' \in 0..MaxOps
  BY OpType DEF RestoreBegin, BeginJob
<1>2. GoodState(state, issued)
  <2>1. /\ state.lists = lists /\ state.rules = rules /\ state.favorites = favorites
        /\ state = [lists |-> state.lists, rules |-> state.rules, favorites |-> state.favorites]
    OBVIOUS
  <2>. HIDE DEF state
  <2>. QED  BY <2>1, InvParts DEF GoodState
<1>. HIDE DEF state
<1>3. IsWork(a)
  BY <1>0, WorkWith
<1>4. IsWork(b)
  <2>. HIDE DEF a
  <2>. QED  BY <1>3, WorkWith
<1>5. IsWork(c)
  <2>. HIDE DEF b
  <2>. QED  BY <1>4, WorkWith
<1>6. IsWork(d)
  <2>. HIDE DEF c
  <2>. QED  BY <1>5, WorkWith
<1>7. /\ d.kind = "restore" /\ d.pc = "personal" /\ d.file = backup /\ d.id = NoJob.id /\ d.todo = NoJob.todo
      /\ d.left = NoJob.left /\ d.staging = state
  BY <1>0 DEF IsWork
<1>. HIDE DEF d
<1>8. GoodJob(d, issued)
  <2>1. NoJob.left \subseteq 1..issued
    BY <1>0, JobFields
  <2>. QED  BY <1>0, <1>2, <1>6, <1>7, <2>1, FileJob
<1>. QED  BY <1>1, <1>8, OnlyJob DEF RestoreBegin

\* A restore that goes on with another copy.
LEMMA StagedGood ==
  ASSUME PlaylistInv, job.kind = "restore", NEW pc, NEW state, GoodState(state, issued),
         job.file.personal => (pc \in {"rules", "swap"} => HoldsPersonal(state, job.file)),
         job.file.personal /\ pc = "swap" /\ job.file.smart => HoldsRules(state, job.file)
  PROVE  GoodJob([job EXCEPT !.pc = pc, !.staging = state], issued)
<1>. DEFINE a == [job EXCEPT !.pc = pc]
            b == [a EXCEPT !.staging = state]
<1>0. issued \in Nat /\ GoodJob(job, issued) /\ IsWork(job)
  BY InvParts, JobFields
<1>1. IsWork(a)
  BY <1>0, WorkWith
<1>2. IsWork(b)
  <2>. HIDE DEF a
  <2>. QED  BY <1>1, WorkWith
<1>3. /\ b.kind = job.kind /\ b.pc = pc /\ b.file = job.file /\ b.id = job.id /\ b.todo = job.todo
      /\ b.left = job.left /\ b.staging = state
  BY <1>0 DEF IsWork
<1>4. b = [job EXCEPT !.pc = pc, !.staging = state]
  OBVIOUS
<1>. HIDE DEF b
<1>5. Restoring(b)
  BY <1>3 DEF Restoring
<1>6. GoodJob(b, issued)
  BY <1>0, <1>2, <1>3, <1>5 DEF GoodJob
<1>. QED  BY <1>4, <1>6

\* It replaces the copy by the file, or ends.
LEMMA RestorePersonalStep == ASSUME PlaylistInv, RestorePersonal PROVE PlaylistInv'
<1>. DEFINE state == IF job.file.personal THEN Replaced(job.file) ELSE job.staging
<1>1. CASE job.file.personal /\ ~Importable(job.file)
  <2>1. job' = NoJob
    BY <1>1 DEF RestorePersonal, End
  <2>. QED  BY <2>1, InvParts, OnlyJob DEF RestorePersonal
<1>2. CASE ~(job.file.personal /\ ~Importable(job.file))
  <2>1. issued \in Nat /\ GoodFile(job.file, issued) /\ GoodState(job.staging, issued)
    BY InvParts, JobFields
  <2>2. GoodState(state, issued) /\ (job.file.personal => HoldsPersonal(state, job.file))
    BY <1>2, <2>1, ReplacedGood
  <2>3. job' = [job EXCEPT !.pc = "rules", !.staging = state]
    BY <1>2 DEF RestorePersonal
  <2>. HIDE DEF state
  <2>4. GoodJob(job', issued)
    BY <2>2, <2>3, StagedGood DEF RestorePersonal
  <2>. QED  BY <2>4, InvParts, OnlyJob DEF RestorePersonal
<1>. QED  BY <1>1, <1>2

\* The rules of the file go to playlists that are there, and mark them.
LEMMA WithRulesGood ==
  ASSUME NEW n \in Nat, NEW state, GoodState(state, n), NEW file, GoodFile(file, n),
         \A p \in DOMAIN file.rules : Upgradable(file.rules[p])
  PROVE  LET new == WithRules(state, file)
         IN  /\ GoodState(new, n) /\ new.favorites = state.favorites
             /\ DOMAIN new.lists = DOMAIN state.lists
             /\ \A p \in DOMAIN state.lists : new.lists[p].items = state.lists[p].items
             /\ DOMAIN new.rules = DOMAIN file.rules \cap DOMAIN state.lists
             /\ \A p \in DOMAIN new.rules : new.rules[p] = file.rules[p]
<1>. DEFINE new == WithRules(state, file)
            kept == DOMAIN file.rules \cap DOMAIN state.lists
            R == [p \in kept |-> file.rules[p]]
            mark(p) == state.lists[p].smart \/ p \in kept
            L == [p \in DOMAIN state.lists |-> [state.lists[p] EXCEPT !.smart = mark(p)]]
<1>1. \A p \in DOMAIN state.lists : GoodList(state.lists[p])
  BY DEF GoodState, GoodLists
<1>2. \A p \in DOMAIN state.lists : GoodList(L[p]) /\ L[p].items = state.lists[p].items /\ (p \in kept => L[p].smart)
  <2>. SUFFICES ASSUME NEW p \in DOMAIN state.lists
                PROVE  GoodList(L[p]) /\ L[p].items = state.lists[p].items /\ (p \in kept => L[p].smart)
    OBVIOUS
  <2>. DEFINE b == mark(p)
  <2>1. b \in BOOLEAN /\ (p \in kept => b)
    OBVIOUS
  <2>2. L[p] = [state.lists[p] EXCEPT !.smart = b]
    OBVIOUS
  <2>. HIDE DEF b, L
  <2>. QED  BY <1>1, <2>1, <2>2, SmartGood
<1>3. new = [state EXCEPT !.rules = R, !.lists = L]
  BY DEF WithRules
<1>4. DOMAIN L = DOMAIN state.lists /\ L = [p \in DOMAIN L |-> L[p]]
  OBVIOUS
<1>5. DOMAIN R = kept /\ R = [p \in DOMAIN R |-> R[p]] /\ \A p \in kept : R[p] = file.rules[p]
  OBVIOUS
<1>. HIDE DEF L, R, new
<1>6. /\ new.lists = L /\ new.rules = R /\ new.favorites = state.favorites
      /\ new = [lists |-> new.lists, rules |-> new.rules, favorites |-> new.favorites]
  BY <1>3 DEF GoodState
<1>7. GoodLists(L, n)
  BY <1>2, <1>4 DEF GoodLists, GoodState
<1>8. GoodRules(R, L)
  <2>1. \A p \in kept : R[p] \in Rule /\ Upgradable(R[p]) /\ L[p].smart
    BY <1>2, <1>5 DEF GoodFile
  <2>. QED  BY <1>4, <1>5, <2>1 DEF GoodRules
<1>9. GoodState(new, n)
  BY <1>6, <1>7, <1>8 DEF GoodState
<1>. HIDE DEF kept
<1>10. DOMAIN new.rules = kept /\ \A p \in DOMAIN new.rules : new.rules[p] = file.rules[p]
  BY <1>5, <1>6
<1>11. DOMAIN new.lists = DOMAIN state.lists /\ \A p \in DOMAIN state.lists : new.lists[p].items = state.lists[p].items
  BY <1>2, <1>4, <1>6
<1>. QED  BY <1>6, <1>9, <1>10, <1>11 DEF new, kept

\* It puts the rules of the file in the copy, or ends when it cannot read one.
LEMMA RestoreRulesStep == ASSUME PlaylistInv, RestoreRules PROVE PlaylistInv'
<1>. DEFINE file == job.file
            state == IF file.smart THEN WithRules(job.staging, file) ELSE job.staging
            unread == \E p \in DOMAIN file.rules : ~Upgradable(file.rules[p])
<1>1. CASE file.smart /\ unread
  <2>1. job' = NoJob
    BY <1>1 DEF RestoreRules, End
  <2>. QED  BY <2>1, InvParts, OnlyJob DEF RestoreRules
<1>2. CASE ~(file.smart /\ unread)
  <2>1. issued \in Nat /\ GoodFile(file, issued) /\ GoodState(job.staging, issued) /\ Restoring(job)
    BY InvParts, JobFields
  <2>2. job.kind = "restore" /\ (file.personal => HoldsPersonal(job.staging, file))
    BY <2>1 DEF RestoreRules, Restoring
  <2>3. job' = [job EXCEPT !.pc = "swap", !.staging = state]
    BY <1>2 DEF RestoreRules
  <2>4. GoodState(state, issued) /\ (file.personal => HoldsPersonal(state, file))
        /\ (file.personal /\ file.smart => HoldsRules(state, file))
    <3>1. CASE file.smart
      <4>. DEFINE new == WithRules(job.staging, file)
      <4>1. \A p \in DOMAIN file.rules : Upgradable(file.rules[p])
        BY <1>2, <3>1
      <4>2. /\ GoodState(new, issued) /\ new.favorites = job.staging.favorites
            /\ DOMAIN new.lists = DOMAIN job.staging.lists
            /\ \A p \in DOMAIN job.staging.lists : new.lists[p].items = job.staging.lists[p].items
            /\ DOMAIN new.rules = DOMAIN file.rules \cap DOMAIN job.staging.lists
            /\ \A p \in DOMAIN new.rules : new.rules[p] = file.rules[p]
        BY <2>1, <4>1, WithRulesGood
      <4>3. state = new
        BY <3>1
      <4>. HIDE DEF new, state
      <4>4. file.personal => HoldsPersonal(new, file) /\ HoldsRules(new, file)
        BY <2>2, <4>2 DEF HoldsPersonal, HoldsRules
      <4>. QED  BY <4>2, <4>3, <4>4
    <3>2. CASE ~file.smart
      BY <2>1, <2>2, <3>2
    <3>. QED  BY <3>1, <3>2
  <2>. HIDE DEF state
  <2>5. GoodJob(job', issued)
    BY <2>4, <2>3, <2>2, StagedGood
  <2>. QED  BY <2>5, InvParts, OnlyJob DEF RestoreRules
<1>. QED  BY <1>1, <1>2

\* The copy takes the place of the database.
LEMMA RestoreSwapStep == ASSUME PlaylistInv, RestoreSwap PROVE PlaylistInv'
<1>1. GoodState(job.staging, issued)
  BY InvParts, JobFields
<1>2. GoodLists(lists', issued) /\ GoodRules(rules', lists') /\ favorites' \subseteq Videos
  BY <1>1 DEF GoodState, RestoreSwap
<1>. QED  BY <1>2, InvParts, JobStep DEF RestoreSwap, End

\* The job is forgotten.
LEMMA RestartStep == ASSUME PlaylistInv, Restart PROVE PlaylistInv'
BY InvParts, OnlyJob DEF Restart, End

\* Every start of a job, and every import in one transaction, keeps the invariant.
LEMMA StartJobStep == ASSUME PlaylistInv, StartJob PROVE PlaylistInv'
<1>1. ASSUME NEW p \in DOMAIN lists, NEW q \in DOMAIN lists, MergeBegin(p, q) PROVE PlaylistInv'
  BY <1>1, MergeBeginStep
<1>2. ASSUME NEW batch \in Batches, RemoteBegin(batch) \/ SaveQueueAsPlaylist(batch) PROVE PlaylistInv'
  BY <1>2, RemoteBeginStep, SaveQueueStep
<1>3. ASSUME NEW b \in BOOLEAN, ExportBegin(b) PROVE PlaylistInv'
  BY <1>3, ExportBeginStep
<1>4. ASSUME NEW s \in {"merge", "duplicate"}, ImportBegin(s) PROVE PlaylistInv'
  BY <1>4, ImportBeginStep
<1>5. ASSUME NEW batch \in Batches, NEW rule \in Rule, NEW b \in BOOLEAN, ReceiveBackup(batch, rule, b)
      PROVE  PlaylistInv'
  BY <1>5, ReceiveStep
<1>6. CASE RestoreBegin \/ ImportReplace
  BY <1>6, RestoreBeginStep, ImportReplaceStep
<1>. QED  BY <1>1, <1>2, <1>3, <1>4, <1>5, <1>6 DEF StartJob

\* Every step of a job keeps the invariant.
LEMMA ContinueJobStep == ASSUME PlaylistInv, ContinueJob PROVE PlaylistInv'
<1>1. CASE MergeCopy \/ RemoteAdd \/ RemoteFails
  BY <1>1, MergeCopyStep, RemoteAddStep, RemoteFailsStep
<1>2. CASE ExportPlaylists \/ ExportItems \/ ExportWrite
  BY <1>2, ExportPlaylistsStep, ExportItemsStep, ExportWriteStep
<1>3. CASE ImportPlaylist \/ ImportItem \/ ImportFavorites
  BY <1>3, ImportPlaylistStep, ImportItemStep, ImportFavoritesStep
<1>4. CASE RestorePersonal \/ RestoreRules \/ RestoreSwap \/ Restart
  BY <1>4, RestorePersonalStep, RestoreRulesStep, RestoreSwapStep, RestartStep
<1>. QED  BY <1>1, <1>2, <1>3, <1>4 DEF ContinueJob

\* Nothing happens.
LEMMA StillStep == ASSUME PlaylistInv, UNCHANGED playlistVars PROVE PlaylistInv'
<1>1. UNCHANGED <<lists, rules, favorites, issued, backup, job, ops>>
  BY DEF playlistVars
<1>. QED  BY <1>1, InvParts, JobStep

------------------------------------------------------------
(* The first state. *)

\* The videos of an earlier run are different ones.
LEMMA FirstList ==
  ASSUME NEW n \in 1..Cardinality(Videos)
  PROVE  SubSeq(Titles, 1, n) \in Seq(Videos) /\ IsInjective(SubSeq(Titles, 1, n))
<1>. DEFINE N == Cardinality(Videos)
            first == SubSeq(Titles, 1, n)
<1>1. N \in Nat /\ Bijection(1..N, Videos) # {}
  BY PlaylistAssumption, FS_CardinalityType DEF ExistsBijection
<1>2. \E t \in [1..N -> Videos] : IsInjective(t)
  BY <1>1 DEF Bijection, Injection
<1>3. Titles \in [1..N -> Videos] /\ IsInjective(Titles)
  BY <1>2 DEF Titles
<1>4. Titles \in Seq(Videos) /\ Len(Titles) = N
  BY <1>1, <1>3
<1>. HIDE DEF N
<1>5. /\ first \in Seq(Videos) /\ Len(first) = n /\ \A k \in 1..n : first[k] = Titles[k]
  <2>1. n \in Nat /\ n <= N
    BY <1>1 DEF N
  <2>2. 1 \in 1..(N + 1) /\ n \in 0..N
    BY <1>1, <2>1
  <2>. QED  BY <1>1, <1>4, <2>1, <2>2, SubSeqProperties
<1>6. DOMAIN first = 1..n /\ 1..n \subseteq 1..N /\ DOMAIN Titles = 1..N
  BY <1>1, <1>3, <1>5 DEF N
<1>7. IsInjective(first)
  BY <1>3, <1>5, <1>6 DEF IsInjective
<1>. QED  BY <1>5, <1>7

\* The invariant holds of what an earlier run has left.
LEMMA InitHolds == ASSUME PlaylistInit PROVE PlaylistInv
<1>1. ops = 0 /\ rules = NoRows /\ favorites = {} /\ backup = NoBackup /\ job = NoJob /\ ops \in 0..MaxOps
  BY PlaylistAssumption DEF PlaylistInit
<1>2. MaxPlaylists \in Nat /\ MaxPlaylists # 0 /\ Cardinality(Videos) \in Nat
  BY PlaylistAssumption, FS_CardinalityType
<1>3. PICK n \in 0..Cardinality(Videos) :
        lists = IF n = 0 THEN NoRows
                ELSE With(NoRows, 1, [NewList EXCEPT !.items = Positions(SubSeq(Titles, 1, n))])
  BY DEF PlaylistInit
<1>4. CASE n = 0
  <2>1. lists = NoRows /\ issued = 0
    <3>1. DOMAIN NoRows = {}
      BY DEF NoRows
    <3>. QED  BY <1>3, <1>4, <3>1, FS_EmptySet DEF PlaylistInit
  <2>2. 0 \in Nat /\ 0 \in 0..MaxPlaylists
    BY <1>2
  <2>. QED  BY <1>1, <2>1, <2>2, NothingIsGood DEF PlaylistInv, Tables
<1>5. CASE n # 0
  <2>. DEFINE order == SubSeq(Titles, 1, n)
              list == [NewList EXCEPT !.items = Positions(order)]
  <2>1. n \in 1..Cardinality(Videos)
    BY <1>2, <1>5
  <2>2. order \in Seq(Videos) /\ IsInjective(order)
    BY <2>1, FirstList
  <2>. HIDE DEF order
  <2>3. GoodList(list)
    BY <2>2, PositionsArranged, NewListGood
  <2>4. lists = With(NoRows, 1, list)
    BY <1>3, <1>5 DEF order
  <2>. HIDE DEF list
  <2>5. DOMAIN lists = {1} /\ lists[1] = list /\ lists = [p \in DOMAIN lists |-> lists[p]]
    BY <2>4 DEF With, NoRows
  <2>6. issued = 1
    BY <2>5, FS_Singleton DEF PlaylistInit
  <2>7. GoodLists(lists, 1)
    BY <2>3, <2>5 DEF GoodLists
  <2>8. GoodRules(NoRows, lists)
    BY DEF GoodRules, NoRows
  <2>9. 1 \in Nat /\ 1 \in 0..MaxPlaylists
    BY <1>2
  <2>. QED  BY <1>1, <2>9, <2>8, <2>7, <2>6, NothingIsGood DEF PlaylistInv, Tables
<1>. QED  BY <1>4, <1>5

\* The invariant holds however edits, jobs and the end of the program interleave.
THEOREM PlaylistInvariant == PlaylistSpec => []PlaylistInv
<1>1. ASSUME PlaylistInv, [PlaylistNext]_playlistVars PROVE PlaylistInv'
  BY <1>1, PlaylistEditStep, StartJobStep, ContinueJobStep, StillStep DEF PlaylistNext
<1>. QED  BY <1>1, InitHolds, PTL DEF PlaylistSpec

\* A good database has its type.
LEMMA StateTyped ==
  ASSUME NEW n \in Nat, n <= MaxPlaylists, NEW state, GoodState(state, n)
  PROVE  IsDatabase(state)
<1>. DEFINE L == state.lists
            R == state.rules
<1>1. 1..n \subseteq PlaylistIds
  BY PlaylistAssumption DEF PlaylistIds
<1>2. GoodLists(L, n) /\ GoodRules(R, L)
  BY DEF GoodState
<1>. HIDE DEF L, R
<1>3. IsTable(L, PlaylistIds, Range(L))
  BY <1>1, <1>2 DEF IsTable, GoodLists, Range
<1>4. ASSUME NEW p \in DOMAIN L PROVE IsList(L[p])
  <2>1. GoodList(L[p])
    BY <1>2 DEF GoodLists
  <2>. QED  BY <2>1 DEF GoodList, Arranged, IsList, IsTable
<1>5. IsTable(R, PlaylistIds, Rule)
  BY <1>1, <1>2 DEF GoodRules, GoodLists, IsTable
<1>. QED  BY <1>3, <1>4, <1>5 DEF GoodState, IsDatabase, L, R

\* A good file has its type.
LEMMA FileTyped ==
  ASSUME NEW n \in Nat, n <= MaxPlaylists, NEW file, GoodFile(file, n)
  PROVE  IsBackup(file)
<1>1. 1..n \subseteq PlaylistIds
  BY PlaylistAssumption DEF PlaylistIds
<1>. QED  BY <1>1 DEF GoodFile, IsBackup, IsTable

\* The tables, the files and the job always have their types.
THEOREM PlaylistsTyped == PlaylistSpec => []PlaylistTypeOK
<1>1. ASSUME PlaylistInv PROVE PlaylistTypeOK
  <2>. DEFINE state == [lists |-> lists, rules |-> rules, favorites |-> favorites]
  <2>0. PlaylistInv
    BY <1>1
  <2>1. GoodState(state, issued)
    <3>1. /\ state.lists = lists /\ state.rules = rules /\ state.favorites = favorites
          /\ state = [lists |-> state.lists, rules |-> state.rules, favorites |-> state.favorites]
      OBVIOUS
    <3>. HIDE DEF state
    <3>. QED  BY <2>0, <3>1, InvParts DEF GoodState
  <2>. HIDE DEF state
  <2>2. IsDatabase(state) /\ IsBackup(backup)
    BY <2>0, <2>1, InvParts, StateTyped, FileTyped
  <2>3. IsBackup(job.file) /\ IsDatabase(job.staging)
    BY <2>0, InvParts, JobFields, StateTyped, FileTyped
  <2>4. job.left \subseteq PlaylistIds
    BY <2>0, InvParts, JobFields
  <2>5. IsJob(job)
    BY <2>4, <2>3, <2>0, InvParts DEF GoodJob, IsWork, IsJob
  <2>. QED  BY <2>5, <2>2, <2>0 DEF PlaylistTypeOK, PlaylistInv, state
<1>. QED  BY <1>1, PlaylistInvariant, PTL

\* Arranged rows leave DeduplicatePlaylist nothing to do.
LEMMA ArrangedIsContiguous ==
  ASSUME NEW items, Arranged(items)
  PROVE  /\ {items[v] : v \in DOMAIN items} = 0..(Cardinality(DOMAIN items) - 1)
         /\ ~NeedsCompaction(items)
<1>. DEFINE N == Size(items)
<1>1. N \in Nat /\ N = Cardinality(DOMAIN items)
  BY SizeType DEF Arranged, Size
<1>. HIDE DEF N
<1>2. /\ \A v \in DOMAIN items : items[v] \in Nat /\ items[v] < N
      /\ \A n \in Nat : n < N => \E v \in DOMAIN items : items[v] = n
  BY DEF Arranged, N
<1>3. {items[v] : v \in DOMAIN items} = 0..(N - 1)
  BY <1>1, <1>2
<1>4. \A n \in 1..N : items[Ordered(items)[n]] = n - 1
  BY OrderedOf DEF N
<1>. QED  BY <1>1, <1>3, <1>4 DEF NeedsCompaction

\* The items of every playlist sit at 0, 1, 2, ... after every operation of the
\* repository and between any two steps of an import or a restore.
THEOREM PlaylistsStayContiguous == PlaylistSpec => []PlaylistsContiguous
<1>1. PlaylistInv => PlaylistsContiguous
  BY ListsOf, ArrangedIsContiguous DEF PlaylistsContiguous
<1>. QED  BY <1>1, PlaylistInvariant, PTL

\* MovePlaylistItem and MovePlaylistItemToIndex leave the same rows on every
\* playlist that can arise.
THEOREM MovesAlwaysAgree == PlaylistSpec => []MovesAgree
<1>1. ASSUME NEW items, Arranged(items), NEW v \in DOMAIN items, NEW n \in Int
      PROVE  MovedBy(items, v, n) = MovedTo(items, v, items[v] + n)
  <2>1. items[v] + n \in Int
    BY <1>1, NotEmpty
  <2>. QED  BY <1>1, <2>1, MovedByShifts, MovedToShifts
<1>2. PlaylistInv => MovesAgree
  <2>1. -3..3 \subseteq Int
    OBVIOUS
  <2>. QED  BY <1>1, <2>1, ListsOf DEF MovesAgree
<1>. QED  BY <1>2, PlaylistInvariant, PTL

\* GetSmartRule can read every rule stored, and its playlist exists and is marked
\* smart, whatever file was restored.
THEOREM RulesStayReadable == PlaylistSpec => []RulesAreReadable
<1>1. PlaylistInv => RulesAreReadable
  BY InvParts DEF GoodRules, RulesAreReadable
<1>. QED  BY <1>1, PlaylistInvariant, PTL

\* RestoreSnapshot of a file with personal data puts back its playlists in their
\* order, its favorites and its rules of the playlists it holds, and nothing else.
THEOREM RestoresAreFaithful == PlaylistSpec => RestoredAsSaved
<1>. DEFINE Saved ==
       RestoreSwap /\ job.file.personal =>
         /\ favorites' = job.file.favorites
         /\ DOMAIN lists' = DOMAIN job.file.lists
         /\ \A p \in DOMAIN lists' : Ordered(lists'[p].items) = job.file.lists[p]
         /\ job.file.smart =>
              /\ DOMAIN rules' = DOMAIN job.file.rules \cap DOMAIN job.file.lists
              /\ \A p \in DOMAIN rules' : rules'[p] = job.file.rules[p]
<1>1. ASSUME PlaylistInv PROVE Saved
  <2>. SUFFICES ASSUME RestoreSwap, job.file.personal
                PROVE  /\ favorites' = job.file.favorites
                       /\ DOMAIN lists' = DOMAIN job.file.lists
                       /\ \A p \in DOMAIN lists' : Ordered(lists'[p].items) = job.file.lists[p]
                       /\ job.file.smart =>
                            /\ DOMAIN rules' = DOMAIN job.file.rules \cap DOMAIN job.file.lists
                            /\ \A p \in DOMAIN rules' : rules'[p] = job.file.rules[p]
    OBVIOUS
  <2>1. HoldsPersonal(job.staging, job.file) /\ (job.file.smart => HoldsRules(job.staging, job.file))
    BY <1>1, InvParts, JobFields DEF Restoring, RestoreSwap
  <2>2. lists' = job.staging.lists /\ rules' = job.staging.rules /\ favorites' = job.staging.favorites
    BY DEF RestoreSwap
  <2>. QED  BY <2>1, <2>2 DEF HoldsPersonal, HoldsRules
<1>2. PlaylistInv => [Saved]_playlistVars
  BY <1>1
<1>. QED  BY <1>2, PlaylistInvariant, PTL DEF RestoredAsSaved

=============================================================================
