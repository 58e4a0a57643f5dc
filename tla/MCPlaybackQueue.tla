---------------------------- MODULE MCPlaybackQueue ----------------------------
(* Small instances of PlaybackQueue: two profiles, commands that overlap. *)
EXTENDS PlaybackQueue
================================================================================
