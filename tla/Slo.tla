-------------------------------- MODULE Slo --------------------------------
(***************************************************************************)
(* The service level arithmetic of the core package.  Ratios are compared  *)
(* as whole numbers: a target is in hundredths of a percent, and every     *)
(* share of an evaluation is over total * 10000.                           *)
(***************************************************************************)
EXTENDS Integers, Sequences, FiniteSetsExt, Functions

EvaluateSloEmptyIsDown(ok, total, target) ==                                \* mutant
    LET whole == IF total = 0 THEN 1 ELSE total
        error == (whole - ok) * 10000
        budget == whole * (10000 - target)
    IN  [compliant |-> ok * 10000 >= target * whole, remainingBudget |-> Max({0, budget - error}),
         burnsBudget |-> error > budget, pagingSeverity |-> error > 2 * budget]

\* An evaluation of a window, for counts and targets the code does not throw at.
EvaluateSlo(ok, total, target) ==
    LET whole == IF total = 0 THEN 1 ELSE total
        good  == IF total = 0 THEN 1 ELSE ok
        error == (whole - good) * 10000
        budget == whole * (10000 - target)
    IN  [compliant |-> good * 10000 >= target * whole,
         remainingBudget |-> Max({0, budget - error}),
         burnsBudget |-> error > budget,
         pagingSeverity |-> error > 2 * budget]

PercentileOfRankTooHigh(values, pct, maxMs) ==                              \* mutant
    LET rank == (pct * Len(values)) \div 100
    IN  IF values = <<>> THEN 0
        ELSE Min({v \in {Min({maxMs, Max({0, values[n]})}) : n \in DOMAIN values} :
                    Cardinality({n \in DOMAIN values : Min({maxMs, values[n]}) <= v})
                        > Min({rank, Len(values) - 1})})

\* The percentile of a sequence of latencies, pct in hundredths; the sorted
\* copy is told by how many values lie at or below each.
PercentileOf(values, pct, maxMs) ==
    LET clipped == [n \in DOMAIN values |-> Min({maxMs, Max({0, values[n]})})]
        rank == Max({0, ((pct * Len(values) + 99) \div 100) - 1})
        AtOrBelow(v) == Cardinality({n \in DOMAIN clipped : clipped[n] <= v})
    IN  IF values = <<>> THEN 0
        ELSE Min({v \in Range(clipped) : AtOrBelow(v) > rank})

SummarizeLatencies(values) ==
    [p50 |-> PercentileOf(values, 50, 60000), p95 |-> PercentileOf(values, 95, 60000),
     p99 |-> PercentileOf(values, 99, 60000)]
============================================================================
