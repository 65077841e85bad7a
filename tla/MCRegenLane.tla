---------------------------- MODULE MCRegenLane ----------------------------
(* Instance of NarrativeRegen in which ticks do not overlap. *)
EXTENDS NarrativeRegen, TLC
=============================================================================
