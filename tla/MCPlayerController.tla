-------------------------- MODULE MCPlayerController --------------------------
(* A small instance of PlayerController: two goroutines of the interface. *)
EXTENDS PlayerController
===============================================================================
