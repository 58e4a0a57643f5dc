------------------------- MODULE MCCascadingResolver -------------------------
(* A small instance of CascadingResolver: a cache with room for one plan. *)
EXTENDS CascadingResolver
MCLifetimes == {1, 4}
================================================================================
