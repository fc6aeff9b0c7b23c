------------------------------ MODULE Metrics ------------------------------
(***************************************************************************)
(* GET /metrics/{summary,latency-series,heatmap,regional}: four answers    *)
(* computed from the samples the ingestor stored and the configured checks.*)
(* Each is an operator of a query, the table of samples and the clock; the *)
(* SQL of the service is written as the sets it selects and groups.        *)
(*                                                                         *)
(* Times are minutes.  A sample stands for all results of its check, region*)
(* and minute: `total` results, `ok` of them good, all as slow.  Shares are*)
(* hundredths of a percent, as toFixed(2) leaves them, and percentiles are *)
(* hundredths of a millisecond until they are rounded.  The `rank` of a    *)
(* check is the place of its name among the names.                         *)
(***************************************************************************)
EXTENDS Scopes, Integers, SequencesExt

CONSTANTS
    Arrivals,       \* samples that may be stored: check, region, at, total, ok, latency
    Instants,       \* readings of the clock
    Queries,        \* what clients ask for, as a request says it
    MaxSamples,     \* bound of the model
    Null

ASSUME MetricsAssumption ==
    /\ Instants \subseteq Nat /\ Instants # {} /\ MaxSamples \in Nat
    /\ \A s \in Arrivals : /\ s.total \in Nat /\ s.ok \in 0..s.total
                          /\ s.at \in Nat /\ s.latency \in Nat /\ s.check.rank \in Nat
    /\ Null \notin Int /\ \A r \in Queries : r.points \in Int \union {Null}

VARIABLES samples, now

vars == <<samples, now>>

Init == samples = {} /\ now = Min(Instants)

\* The ingestor stores one row per check, region and time.
Store(s) ==
    /\ Cardinality(samples) < MaxSamples
    /\ \A r \in samples : <<r.check, r.region, r.at>> # <<s.check, s.region, s.at>>
    /\ samples' = samples \union {s}
    /\ UNCHANGED now

Tick ==
    /\ \E t \in Instants : t > now /\ now' = t
    /\ UNCHANGED samples

Rest == now = Max(Instants) /\ Cardinality(samples) = MaxSamples /\ UNCHANGED vars

Next == (\E s \in Arrivals : Store(s)) \/ Tick \/ Rest

Spec == Init /\ [][Next]_vars

----------------------------------------------------------------------------
(* What a request may say, and how it is read.                             *)

Ranges == {"1h", "24h", "7d", "30d"}

ServiceGroups == {"payments", "auth", "search", "cart", "other", "github",
                  "openai", "stripe", "cloudflare", "baseline"}

Environments == {"production", "staging", "development"}

NormalizeRegionFilter(region) == IF region = "" THEN "all" ELSE NormalizeRegion(region, region)

ParsePoints(input) == IF input = Null THEN 24 ELSE Min({240, Max({6, input})})

\* A request as the service sees it: what it does not know has a default.
Parse(r) ==
    [range  |-> IF r.range \in Ranges THEN r.range ELSE "24h",
     region |-> NormalizeRegionFilter(r.region),
     group  |-> IF r.group \in ServiceGroups THEN r.group ELSE "all",
     env    |-> IF r.env \in Environments THEN r.env ELSE "production",
     points |-> ParsePoints(r.points)]

RangeMinutes(q) ==
    CASE q.range = "1h" -> 60 [] q.range = "24h" -> 1440
      [] q.range = "7d" -> 10080 [] q.range = "30d" -> 43200

BucketMinutes(q) == Max({1, RangeMinutes(q) \div q.points})

TimeBucket(width, t) == (t \div width) * width

InScope(c, q) == Shown(c) /\ ServiceGroupSql(c, q.group) /\ EnvironmentSql(c, q.env)

\* The samples a query reads, from a time on.  Nothing bounds them above,
\* though the clock of a probe may be ahead.
Selected(q, from) ==
    {s \in samples : s.at >= from /\ q.region \in {"all", s.region} /\ InScope(s.check, q)}

----------------------------------------------------------------------------
(* Aggregates.                                                             *)

Total(S) == MapThenSumSet(LAMBDA s : s.total, S)
OkTotal(S) == MapThenSumSet(LAMBDA s : s.ok, S)

\* percentile_cont is linear between the two nearest ranks; a latency counts
\* as a minute at most.
Clipped(s) == Min({s.latency, 60000})
AtRank(S, n) ==
    Min({Clipped(s) : s \in {t \in S : Total({u \in S : Clipped(u) <= Clipped(t)}) > n}})

PercentileCont(S, pct) ==
    LET place == (Total(S) - 1) * pct
        rank == place \div 100
        part == place % 100
    IN  AtRank(S, rank) * (100 - part)
            + (IF part = 0 THEN 0 ELSE AtRank(S, rank + 1) * part)

Rounded(sum, count) == (2 * sum + 100 * count) \div (200 * count)

\* No samples, no errors.
UptimePct(ok, total) ==
    IF total > 0 THEN (20000 * ok + total) \div (2 * total) ELSE 10000

Latency(S, pct, none) == IF Total(S) = 0 THEN none ELSE Rounded(PercentileCont(S, pct), 1)

Aggregate(S) ==
    LET uptime == UptimePct(OkTotal(S), Total(S))
    IN  [sampleCount |-> Total(S), uptimePct |-> uptime, errorRatePct |-> 10000 - uptime,
         p95 |-> Latency(S, 95, 0)]

----------------------------------------------------------------------------
(* The answers.                                                            *)

HistoricalSummary(q) ==
    LET S == Selected(q, now - RangeMinutes(q))
    IN  [all |-> Aggregate(S), p50 |-> Latency(S, 50, 0), p99 |-> Latency(S, 99, 0)]

\* One row per region the demo knows, with or without samples.
known == <<"us-east", "eu-west", "ap-south">>

RegionalSummary(q) ==
    [n \in DOMAIN known |->
        LET S == Selected([q EXCEPT !.region = known[n]], now - RangeMinutes(q))
        IN  [all |-> Aggregate(S), region |-> known[n],
             checks |-> Cardinality({s.check : s \in S})]]

Leading(rows, points) == SubSeq(rows, 1, Min({points, Len(rows)}))          \* mutant
Trailing(rows, points) == SubSeq(rows, Max({1, Len(rows) - points + 1}), Len(rows))

\* What the buckets add up to; those without results add nothing.
Counted(buckets) ==
    MapThenSumSet(LAMBDA n : buckets[n].total, {n \in DOMAIN buckets : buckets[n].total > 0})

\* The last `points` of the buckets from the start of the window to now, an
\* empty one for each that has no sample, and padding in front.
LatencySeries(q) ==
    LET width == BucketMinutes(q)
        from == now - RangeMinutes(q)
        S == Selected(q, from)
        steps == (TimeBucket(width, now) - TimeBucket(width, from)) \div width
        Bucket(b) == LET B == {s \in S : TimeBucket(width, s.at) = b}
                     IN  [at |-> b, total |-> Total(B), p50 |-> Latency(B, 50, Null),
                          p95 |-> Latency(B, 95, Null), p99 |-> Latency(B, 99, Null)]
        rows == [n \in 1..steps + 1 |-> Bucket(TimeBucket(width, from) + (n - 1) * width)]
        shown == Trailing(rows, q.points)
        padding == [n \in 1..q.points - Len(shown) |->
                        [at |-> Null, total |-> 0, p50 |-> Null, p95 |-> Null, p99 |-> Null]]
    IN  [sampleCount |-> Counted(shown), buckets |-> padding \o shown]

HealthState(S) ==
    LET Beyond(okPerMille, p95) ==
            OkTotal(S) * 1000 < okPerMille * Total(S) \/ PercentileCont(S, 95) >= p95
    IN  CASE Total(S) = 0 -> "no-data"
          [] Total(S) > 0 /\ Beyond(990, 90000) -> "down"
          [] OTHER -> IF Beyond(999, 45000) THEN "degraded" ELSE "healthy"

StateWeightWithoutDown(state) ==                                            \* mutant
    CASE state = "degraded" -> 3 [] state = "no-data" -> 1 [] OTHER -> 0

StateWeight(state) ==
    CASE state = "down" -> 4 [] state = "degraded" -> 3
      [] state = "maintenance" -> 2 [] state = "no-data" -> 1 [] OTHER -> 0

WorstWeight(row) == Max({StateWeight(state) : state \in Range(row.statuses)})

HeatBucketsTooEarly(q) ==                                                   \* mutant
    LET width == BucketMinutes(q)
    IN  [n \in 1..q.points |-> TimeBucket(width, now) - (q.points - n + 1) * width]

HeatBuckets(q) ==
    LET width == BucketMinutes(q)
    IN  [n \in 1..q.points |-> TimeBucket(width, now) - (q.points - n) * width]

\* The elements of S in an order, given as the pairs whose first comes first.
Sorted(S, before) ==
    LET Place(n) == CHOOSE x \in S : Cardinality({y \in S : <<y, x>> \in before}) = n - 1
    IN  SubSeq([n \in 1..Cardinality(S) |-> Place(n)], 1, Cardinality(S))

\* The row of a check in one of its regions, from the samples S of the two.  A
\* region listed twice gives every bucket twice: both add to the mean of the
\* latencies, and one is kept under the bucket's time.
HeatRow(q, c, region, S) ==
    LET Cell(b) == {s \in S : TimeBucket(BucketMinutes(q), s.at) = b}
        cells == [n \in 1..q.points |-> Cell(HeatBuckets(q)[n])]
        seen == UNION Range(cells)
        copies == {k \in DOMAIN c.regions : c.regions[k] = region}
        full == {p \in (1..q.points) \X copies : Total(cells[p[1]]) > 0}
        sum == MapThenSumSet(LAMBDA p : PercentileCont(cells[p[1]], 95), full)
        uptime == UptimePct(OkTotal(seen), Total(seen))
    IN  [check |-> c, region |-> region,
         statuses |-> [n \in DOMAIN cells |-> HealthState(cells[n])],
         totals |-> [n \in DOMAIN cells |-> Total(cells[n])],
         p95 |-> IF full = {} THEN 0 ELSE Rounded(sum, Cardinality(full)),
         uptimePct |-> uptime, errorRate |-> 10000 - uptime, sampleCount |-> Total(seen)]

\* The worst state first, then by name and region; rows equal in all three stay
\* as the database returned them.
Worse(rows, m, n) ==
    LET a == rows[m] b == rows[n]
        Place(row) == CHOOSE k \in DOMAIN known : known[k] = row.region
    IN  \/ WorstWeight(a) > WorstWeight(b)
        \/ /\ WorstWeight(a) = WorstWeight(b)
           /\ \/ a.check.rank < b.check.rank
              \/ /\ a.check.rank = b.check.rank
                 /\ Place(a) > Place(b) \/ (Place(a) = Place(b) /\ m < n)

\* The rows of checks in their configured regions that have samples.
HeatRows(q) ==
    LET S == Selected(q, HeatBuckets(q)[1])
        pairs == {<<s.check, s.region>> : s \in {s \in S : s.region \in Range(s.check.regions)}}
        rows == {HeatRow(q, p[1], p[2], {s \in S : <<s.check, s.region>> = p}) : p \in pairs}
    IN  {row \in rows : row.sampleCount > 0}

\* Rows in the order Worse gives.
InOrder(rows) ==
    LET places == DOMAIN rows
        order == Sorted(places, {p \in places \X places : Worse(rows, p[1], p[2])})
    IN  [n \in places |-> rows[order[n]]]

Heatmap(q) == InOrder(SetToSeq(HeatRows(q)))
============================================================================
