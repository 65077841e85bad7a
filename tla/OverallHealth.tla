--------------------------- MODULE OverallHealth ---------------------------
(***************************************************************************)
(* The overall health formula 'weighted_average_v1', which the code holds  *)
(* twice: compute_overall_health (src/pipeline/health.py) runs after a     *)
(* narrative, the set_csm_score function of the database after a manual    *)
(* score.  They differ in how they round a half.                           *)
(*                                                                         *)
(* Ratings are the rows that count, as a function from row identities to   *)
(* [weight, score]; weights are integers on one scale (hundredths), so the *)
(* average is an exact fraction and not a float.                           *)
(***************************************************************************)
EXTENDS Integers, FiniteSetsExt

CONSTANT None       \* SQL NULL

ClampScore(n) == IF n < 1 THEN 1 ELSE IF n > 100 THEN 100 ELSE n

\* Python's round(n / d): to the nearest integer, a half to the even one.
RoundHalfEven(n, d) ==
    LET q == n \div d
        twice == 2 * (n % d)
    IN  IF twice < d \/ (twice = d /\ q % 2 = 0) THEN q ELSE q + 1

\* SQL's ROUND(n / d): to the nearest integer, a half away from zero.
RoundHalfUp(n, d) == (2 * n + d) \div (2 * d)

TotalWeight(ratings) ==
    MapThenSumSet(LAMBDA x : ratings[x].weight, DOMAIN ratings)

WeightedSum(ratings) ==
    MapThenSumSet(LAMBDA x : ratings[x].weight * ratings[x].score, DOMAIN ratings)

\* compute_overall_health
ComputeOverallHealth(ratings) ==
    IF TotalWeight(ratings) = 0 THEN None
    ELSE ClampScore(RoundHalfEven(WeightedSum(ratings), TotalWeight(ratings)))

\* The SELECT of set_csm_score.
CsmOverall(ratings) ==
    IF TotalWeight(ratings) = 0 THEN None
    ELSE ClampScore(RoundHalfUp(WeightedSum(ratings), TotalWeight(ratings)))
=============================================================================
