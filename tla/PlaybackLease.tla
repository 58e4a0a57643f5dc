----------------------------- MODULE PlaybackLease -----------------------------
(***************************************************************************)
(* What the local media proxy promises to the rest of the program          *)
(* (src/internal/playback/media_proxy.go): at any moment at most one       *)
(* published plan holds the lease on the proxy; an upstream transfer can   *)
(* only start on behalf of the holder; publishing another plan, revoking,  *)
(* or reaching the deadline ends the holder's lifetime for good.  How the  *)
(* token table, the lock, and the contexts achieve this is the business of *)
(* MediaProxy, which implements this specification.                        *)
(***************************************************************************)
CONSTANTS
  Plans,      \* calls of WrapPlan, each with the plan it was given
  Requests,   \* HTTP requests for a media token
  None        \* "no plan"

VARIABLES
  holder,     \* the plan whose cancel function the proxy holds, or None
  ended,      \* plans whose lifetime context is done
  serving     \* serving[r]: the plan on whose behalf r transfers, or None

leaseVars == <<holder, ended, serving>>

LeaseTypeOK ==
  /\ holder \in Plans \cup {None}
  /\ ended \subseteq Plans
  /\ serving \in [Requests -> Plans \cup {None}]

LeaseInit ==
  /\ holder = None
  /\ ended = {}
  /\ serving = [r \in Requests |-> None]

\* The plans ended when the proxy's cancelPlan function is called.
Retired == {holder} \ {None}

\* The lease passes from its holder, whose lifetime ends, to a new plan.
Grant(p) ==
  /\ p # holder
  /\ holder' = p
  /\ ended' = ended \cup Retired
  /\ UNCHANGED serving

\* Revoke, or the publication of a direct plan, leaves the proxy unleased.
Release ==
  /\ holder' = None
  /\ ended' = ended \cup Retired
  /\ UNCHANGED serving

\* A plan that was rejected, or one that reached its deadline, is over.
EndLifetime(p) ==
  /\ ended' = ended \cup {p}
  /\ UNCHANGED <<holder, serving>>

\* Only a plan that holds the lease and is alive gets a transfer started.
StartTransfer(r) ==
  /\ serving[r] = None
  /\ holder # None
  /\ holder \notin ended
  /\ serving' = [serving EXCEPT ![r] = holder]
  /\ UNCHANGED <<holder, ended>>

StopTransfer(r) ==
  /\ serving[r] # None
  /\ serving' = [serving EXCEPT ![r] = None]
  /\ UNCHANGED <<holder, ended>>

LeaseNext ==
  \/ \E p \in Plans : Grant(p) \/ EndLifetime(p)
  \/ Release
  \/ \E r \in Requests : StartTransfer(r) \/ StopTransfer(r)

LeaseSpec == LeaseInit /\ [][LeaseNext]_leaseVars
================================================================================
