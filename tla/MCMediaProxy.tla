----------------------------- MODULE MCMediaProxy -----------------------------
(* A small instance of MediaProxy: a proxy with room for two sessions. *)
EXTENDS MediaProxy
MCExpiries == {1, 9}
================================================================================
