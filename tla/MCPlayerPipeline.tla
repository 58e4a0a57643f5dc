--------------------------- MODULE MCPlayerPipeline ---------------------------
(* Small instances of PlayerPipeline: a plan cache with room for one entry. *)
EXTENDS PlayerPipeline, TLC

\* Nothing distinguishes one video from another.
VideoSymmetry == Permutations(Videos)
================================================================================
