------------------------------- MODULE MCAccounts -------------------------------
(* Small instances of Accounts: two logins, and RPCs of chosen methods. *)
EXTENDS Accounts, TLC
CONSTANTS c1, c2
MCAttempts == 1..2
AnyAndCreate == c1 :> Methods @@ c2 :> {"create"}
Search       == c1 :> {"search"}
Switches     == [c \in {c1, c2} |-> {"activate"}]
================================================================================
