---------------------------- MODULE MCRegenBurst ----------------------------
(* Instance of NarrativeRegen in which two handlers enqueue at the same time and *)
(* ticks overlap: a cron tick that starts while another drains, and the CLI       *)
(* beside the cron.  It lasts long enough that the cap window of a finished job    *)
(* decides a schedule.                                                           *)
EXTENDS NarrativeRegen, TLC

\* No property of the run is a liveness property.
Interchangeable ==
    Permutations(Ingesters) \cup Permutations(Workers) \cup Permutations(JobIds)
=============================================================================
