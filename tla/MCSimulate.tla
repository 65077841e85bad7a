----------------------------- MODULE MCSimulate -----------------------------
(***************************************************************************)
(* A workspace of an at-risk account and a deleted one; one command after  *)
(* another, one fault.                                                     *)
(***************************************************************************)
EXTENDS Simulator

CONSTANTS a1, a2, s1

MCProfile == [a \in {a1, a2} |->
    [deleted |-> a = a2, system |-> FALSE, status |-> "customer", health |-> 28, divergence |-> 0]]
MCJitter == [s \in {s1} |-> TRUE]
MCHigh == [s \in {s1} |-> FALSE]

MCShapes ==
    {[primitive |-> "cliff",
      params |-> [cliff_date |-> 103, pre_band |-> <<40, 60>>, post_band |-> <<0, 10>>]]}
MCTypedStarts == {}
MCSpans == {6}
MCOverrides ==
    {[dates |-> <<91, 101>>,
      shape |-> [primitive |-> "declining", params |-> [start_health |-> 35, end_health |-> 20]]],
     [dates |-> <<101, 91>>,
      shape |-> [primitive |-> "declining", params |-> [start_health |-> 35, end_health |-> 20]]]}
MCBootWeeks == {0, 1}
MCRevertDates == {100, 107}
MCRunOptions ==
    {[DefaultOptions EXCEPT !.limit = 1, !.audit = "none", !.retries = 0],
     [DefaultOptions EXCEPT !.force = TRUE, !.audit = "all", !.retries = 0],
     [DefaultOptions EXCEPT !.dry = TRUE, !.audit = "none", !.retries = 0, !.only = {a1}]}
MCCriteria == <<"faithfulness", "tone_fit">>
MCVerdicts == {{"tone_fit"}, {"faithfulness"}}
=============================================================================
