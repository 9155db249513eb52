---------------------------- MODULE OperatorScore ----------------------------
(***************************************************************************)
(* What the operator metrics of an anchor add to the score of a route, and *)
(* when they keep the anchor out of it (buildDynamicScoreAdjustments).     *)
(* Absent is a metric that has no sample.                                  *)
(***************************************************************************)
EXTENDS Integers

CONSTANTS
  MinPct,            \* OPERATOR_SUCCESS_RATE_MIN_PCT
  LatencyThreshold,  \* OPERATOR_LATENCY_P95_THRESHOLD_MS
  Absent

ScoreAssumption ==
  /\ MinPct \in 0..100
  /\ LatencyThreshold \in Nat \ {0}
  /\ Absent \notin Int

BlockPct == 80
UnsettledHighWater == 20

\* Math.round of n / d for n >= 0, d > 0
Rounded(n, d) == (2 * n + d) \div (2 * d)
AtMost(cap, n) == IF n <= cap THEN n ELSE cap

Blocks(rate) == rate # Absent /\ rate < BlockPct

RateAdjustment(rate) ==
  IF rate = Absent \/ Blocks(rate) \/ rate >= MinPct THEN 0
  ELSE -Rounded(15 * (MinPct - rate), MinPct - BlockPct)

LatencyAdjustment(p95) ==
  IF p95 = Absent \/ p95 <= LatencyThreshold THEN 0
  ELSE -AtMost(8, Rounded(4 * (p95 - LatencyThreshold), LatencyThreshold))

\* Mutant of CapacityAdjustment: load counts in favour of the anchor.
CapacityBonus(unsettled) ==
  IF unsettled = Absent \/ unsettled <= UnsettledHighWater THEN 0
  ELSE AtMost(6, Rounded(unsettled - UnsettledHighWater, 5))

CapacityAdjustment(unsettled) ==
  IF unsettled = Absent \/ unsettled <= UnsettledHighWater THEN 0
  ELSE -AtMost(6, Rounded(unsettled - UnsettledHighWater, 5))

BondAdjustment(verified, age) ==
  IF verified = Absent \/ age = Absent THEN 0
  ELSE IF verified # 1 THEN -5
  ELSE IF age < 30 THEN 3
  ELSE IF age > 80 THEN -2
  ELSE 0

ScoreAdjustment(m) ==
  RateAdjustment(m.successRate) + LatencyAdjustment(m.p95)
    + CapacityAdjustment(m.unsettled) + BondAdjustment(m.bondVerified, m.bondAge)
=============================================================================
