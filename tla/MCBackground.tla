----------------------------- MODULE MCBackground -----------------------------
(* Small instances of the three services of a process that crash and are        *)
(* started again in the middle of their work on disk: the start itself, the     *)
(* refresh of the subscriptions and the store of runtimes.  They share no       *)
(* state, so each is explored by itself: the others keep their initial state.   *)
EXTENDS Launcher, FeedSync, RuntimeStore, TLC

VARIABLE service

\* Two builds of one version, another version, and a package that is corrupt.
Built(v, ytdlp, js) ==
    [manifest |-> [version |-> v, path |-> {"ytdlp", "js"},
                   sha256 |-> [ytdlp |-> ytdlp, js |-> js]],
     files |-> [ytdlp |-> ytdlp, js |-> js]]
MCPackages ==
    {Built("v1", "a", "b"), Built("v1", "b", "b"), Built("v2", "b", "b"),
     [Built("v2", "b", "b") EXCEPT !.files.js = "a"]}

ASSUME BackgroundAssumption == LaunchAssumption /\ SyncAssumption /\ StoreAssumption

Init ==
    /\ service \in {"start", "sync", "store"}
    /\ LaunchInit /\ SyncInit /\ StoreInit
    /\ service # "start" => product = "hummtube" /\ legacy = {} /\ held = {}
    /\ account = Channels
    /\ service # "sync" => \A c \in Channels : ~row[c].subscribed

Next ==
    \/ service = "start" /\ LaunchNext /\ UNCHANGED <<service, syncVars, storeVars>>
    \/ service = "sync" /\ SyncNext /\ UNCHANGED <<service, launchVars, storeVars>>
    \/ service = "store" /\ StoreNext /\ UNCHANGED <<service, launchVars, syncVars>>

Spec == Init /\ [][Next]_<<service, launchVars, syncVars, storeVars>>

\* Nothing distinguishes one channel or one refresh from another.
Symmetry == Permutations(Channels) \cup Permutations(Refreshes)
===============================================================================
