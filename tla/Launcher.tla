------------------------------- MODULE Launcher -------------------------------
(* The start of a product of the suite (internal/launcher/launcher.go): its     *)
(* database is cloned from a legacy one when it does not exist, migrated, and   *)
(* pruned of what the other products own; the credentials of a clone are copied *)
(* from the legacy keyrings; then the services run.  Nothing keeps two starts   *)
(* of one product apart, and any of them may crash anywhere.                    *)
(*                                                                              *)
(* A database keeps, of each kind of data, the store its rows come from: the    *)
(* legacy database they were cloned from, or the product itself once the user   *)
(* saved some there.  A keyring keeps, of the credential the rows of a kind     *)
(* refer to, the store it belongs to.                                           *)
EXTENDS Naturals, Sequences

CONSTANTS
    Starts,     \* processes of the product
    Absent,
    MaxStarts, MaxSaves     \* bounds

Products == {"hummtube", "hummiptv", "hummmusic"}
Legacy == {"nanotube-web", "nanoiptv", "nanomusic"}
Kinds == {"youtube", "iptv"}
Own == "own"
Origins == Legacy \cup {Own, Absent}

\* Databases a product may be cloned from, best first.
CandidateLegacyPaths ==
    [hummtube |-> <<"nanotube-web">>,
     hummiptv |-> <<"nanoiptv", "nanotube-web">>,
     hummmusic |-> <<"nanomusic", "nanotube-web">>]

\* What pruneLegacyData deletes; HummTube keeps everything.
Foreign == [hummtube |-> {}, hummiptv |-> {"youtube"}, hummmusic |-> {"iptv"}]

\* The rows whose credentials legacySecretKeys lists.
Credential == [hummtube |-> "youtube", hummiptv |-> "iptv", hummmusic |-> "youtube"]

\* The first product served everything; the two that left it pruned their copy.
LegacyKinds == [k \in Legacy |->
    CASE k = "nanotube-web" -> Kinds [] k = "nanoiptv" -> {"iptv"} [] k = "nanomusic" -> {"youtube"}]

LegacyKeyrings == <<"nanotube-web", "nanoiptv", "nanomusic">>

\* What the constants must be.
LaunchAssumption == Absent \notin [Kinds -> Origins] \cup {Own}

VARIABLES
    product,    \* product.Spec
    legacy,     \* legacy databases that exist
    held,       \* legacy keyrings that hold the credential
    database,   \* kind -> origin of its rows; None when there is no file
    secret,     \* origin of the credential in the keyring of the product
    start,      \* process -> how far its start is
    saved,      \* kinds the user saved in the product
    launches    \* starts and saves so far

launchVars == <<product, legacy, held, database, secret, start, saved, launches>>
fixed == <<product, legacy, held>>

Down == [at |-> "down"]
EmptyDatabase == [k \in Kinds |-> Absent]

LaunchInit ==
    /\ product \in Products
    /\ legacy \in SUBSET Legacy
    /\ held \in SUBSET {k \in Legacy : Credential[product] \in LegacyKinds[k]}
    /\ database = Absent
    /\ secret = Absent
    /\ start = [s \in Starts |-> Down]
    /\ saved = {}
    /\ launches = [starts |-> 0, saves |-> 0]

Proceed(s, state) == start' = [start EXCEPT ![s] = state]

\* Any step of a start may fail, and any process may be killed.
Stop(s) ==
    /\ start[s].at # "down"
    /\ Proceed(s, Down)
    /\ UNCHANGED <<fixed, database, secret, saved, launches>>

-------------------------------------------------------------------------------
(* prepareProductDatabase. *)

Run(s) ==
    /\ start[s].at = "down" /\ launches.starts < MaxStarts
    /\ Proceed(s, [at |-> "preparing"])
    /\ launches' = [launches EXCEPT !.starts = @ + 1]
    /\ UNCHANGED <<fixed, database, secret, saved>>

Candidates ==
    {i \in DOMAIN CandidateLegacyPaths[product] : CandidateLegacyPaths[product][i] \in legacy}

\* The first of them that exists.
Best == CandidateLegacyPaths[product][CHOOSE i \in Candidates : \A j \in Candidates : i <= j]

\* A database that exists is kept; without a legacy one, the open that follows
\* creates an empty file.
PrepareProductDatabase(s) ==
    /\ start[s].at = "preparing"
    /\ Proceed(s, IF database = Absent /\ Candidates # {}
               THEN [at |-> "chosen", source |-> Best]
               ELSE [at |-> "opening", cloned |-> FALSE])
    /\ UNCHANGED <<fixed, database, secret, saved, launches>>

\* VACUUM INTO refuses a file that exists, and writes the target under its lock:
\* until it ends, the file is there but cannot be read.
CloneBegin(s) ==
    /\ start[s].at = "chosen" /\ database = Absent
    /\ database' = EmptyDatabase
    /\ Proceed(s, [start[s] EXCEPT !.at = "cloning"])
    /\ UNCHANGED <<fixed, secret, saved, launches>>

CloneEnd(s) ==
    /\ start[s].at = "cloning"
    /\ database' = [k \in Kinds |->
            IF k \in LegacyKinds[start[s].source] THEN start[s].source ELSE Absent]
    /\ Proceed(s, [at |-> "opening", cloned |-> TRUE])
    /\ UNCHANGED <<fixed, secret, saved, launches>>

-------------------------------------------------------------------------------
(* Open, Migrate, pruneLegacyData, migrateLegacySecrets. *)

Cloning == \E s \in Starts : start[s].at = "cloning"

\* The schema is migrated; what a crash left of a clone may pass for an empty
\* database, or not open at all (Stop).
OpenAndMigrate(s) ==
    /\ start[s].at = "opening" /\ ~Cloning
    /\ database' = IF database = Absent THEN EmptyDatabase ELSE database
    /\ Proceed(s, [start[s] EXCEPT !.at = "pruning"])
    /\ UNCHANGED <<fixed, secret, saved, launches>>

\* Mutant: every product is pruned as HummIPTV.
PrunedAsIPTV(s) == Foreign["hummiptv"]

\* Mutant: only the start that cloned prunes.
PrunedWhenCloned(s) == IF start[s].cloned THEN Foreign[product] ELSE {}

\* Every start prunes, in one transaction.
Pruned(s) == Foreign[product]

PruneLegacyData(s) ==
    /\ start[s].at = "pruning"
    /\ database' = [k \in Kinds |-> IF k \in Pruned(s) THEN Absent ELSE database[k]]
    /\ Proceed(s, IF start[s].cloned THEN [at |-> "copying", keyrings |-> LegacyKeyrings]
                                  ELSE [at |-> "serving"])
    /\ UNCHANGED <<fixed, secret, saved, launches>>

\* The start that cloned reads each legacy keyring for the credentials of the
\* rows there are, and copies what it finds.
CopySecrets(s) ==
    LET keyring == Head(start[s].keyrings) IN
    /\ start[s].at = "copying" /\ start[s].keyrings # <<>>
    /\ Proceed(s, [start[s] EXCEPT !.keyrings = Tail(@)])
    /\ IF database[Credential[product]] # Absent /\ keyring \in held
       THEN secret' = keyring \/ UNCHANGED secret     \* an error of the keyring is ignored
       ELSE UNCHANGED secret
    /\ UNCHANGED <<fixed, database, saved, launches>>

Serve(s) ==
    /\ start[s].at = "copying" /\ start[s].keyrings = <<>>
    /\ Proceed(s, [at |-> "serving"])
    /\ UNCHANGED <<fixed, database, secret, saved, launches>>

\* The user saves data of the product, with its credential.
Save(s) ==
    /\ start[s].at = "serving" /\ launches.saves < MaxSaves
    /\ \E k \in Kinds \ Foreign[product] :
        /\ database' = [database EXCEPT ![k] = Own]
        /\ secret' = IF k = Credential[product] THEN Own ELSE secret
        /\ saved' = saved \cup {k}
    /\ launches' = [launches EXCEPT !.saves = @ + 1]
    /\ UNCHANGED <<fixed, start>>

LaunchNext ==
    \E s \in Starts :
        \/ Run(s) \/ PrepareProductDatabase(s) \/ CloneBegin(s) \/ CloneEnd(s)
        \/ OpenAndMigrate(s) \/ PruneLegacyData(s) \/ CopySecrets(s) \/ Serve(s)
        \/ Save(s) \/ Stop(s)

LaunchSpec == LaunchInit /\ [][LaunchNext]_launchVars

-------------------------------------------------------------------------------
LaunchStates ==
    {Down, [at |-> "preparing"], [at |-> "serving"]}
    \cup [at : {"chosen", "cloning"}, source : Legacy]
    \cup [at : {"opening", "pruning"}, cloned : BOOLEAN]
    \cup [at : {"copying"}, keyrings : {SubSeq(LegacyKeyrings, i, 3) : i \in 1..4}]

\* Every variable stays within its type.
LaunchTypeOK ==
    /\ product \in Products
    /\ legacy \subseteq Legacy /\ held \subseteq Legacy
    /\ database \in {Absent} \cup [Kinds -> Origins]
    /\ secret \in Origins
    /\ start \in [Starts -> LaunchStates]
    /\ saved \subseteq Kinds

\* No product serves data of another one, even when an earlier start crashed
\* between the clone and the pruning, or another start is at it (launcher.go
\* Run; ADR-022, "linhas fora do domínio do produto são removidas da cópia").
ServedIsPruned ==
    \A s \in Starts : start[s].at = "serving" =>
        \A k \in Foreign[product] : database[k] = Absent

\* What the user saved in the product outlives every later start: none clones
\* over it nor prunes it (launcher.go prepareProductDatabase, pruneLegacyData).
SavedDataStands ==
    \A k \in saved : database # Absent /\ database[k] = Own
===============================================================================
