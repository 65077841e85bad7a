------------------------------ MODULE MCHealth ------------------------------
(* One account scored by workers and managers under the seeded weights; the  *)
(* readings make one plan of a single row and one of two.                    *)
EXTENDS HealthScoring, TLC

MCDims == {"email", "product_usage", "csm_score"}
MCWeight == [d \in Dims |-> CASE d = "email" -> 35 [] d = "product_usage" -> 35
                              [] d = "sentiment" -> 20 [] OTHER -> 10]
MCReadings == {[engagement |-> 20, sentiment |-> None, usage |-> None],
               [engagement |-> 85, sentiment |-> 60, usage |-> 15]}
MCUserScores == {40}
MCSymmetry == Permutations(Workers)
=============================================================================
