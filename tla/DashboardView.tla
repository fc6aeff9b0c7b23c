---------------------------- MODULE DashboardView ----------------------------
(***************************************************************************)
(* What the dashboard makes of the answers of the metrics service, of the  *)
(* listed checks and of the streamed probe events: the scope of its filters*)
(* and the rows of its table.  A stored sample is also the event that was  *)
(* streamed when it was received.  The properties hold the two sides, and  *)
(* the two levels of the arithmetic, against each other.                   *)
(***************************************************************************)
EXTENDS Metrics, Slo

CONSTANTS
    liveChecks,     \* the rows of checks, as the API lists them
    Created,        \* checks as the API creates them, for the scopes
    Filters,        \* settings of the dashboard: range, region, group, env
    Windows,        \* counts of good and of all probes, for the arithmetic
    Latencies       \* sequences of latencies

\* The vendors, in the order in which the rules ask for them.
asked == <<"github", "openai", "stripe", "cloudflare">>
vendors == {"github", "openai", "stripe", "cloudflare"}

ASSUME ViewAssumption ==
    /\ \A w \in Windows : w.total \in Nat /\ w.ok \in 0..w.total
    /\ \A values \in Latencies : values \in Seq(Nat)

\* The regions of the contracts, and words as they occur in names.
ASSUME ChecksAssumption ==
    /\ Null \notin Range(known)
    /\ \A s \in Arrivals :
            /\ s.region \in Range(known) /\ Range(s.check.regions) \subseteq Range(known)
            /\ "pulse demo health" \in s.check.words => "pulse demo" \in s.check.words
    /\ liveChecks \in Seq(Range(liveChecks))
    /\ \A c \in Range(liveChecks) : c.regions \in Seq(Range(known))

\* A tag the browser looks for is found in the joined tags.
ASSUME TagsAssumption ==
    \A c \in Created \union Range(liveChecks) : \A v \in vendors :
        VendorTag(v) \in c.tags => VendorTag(v) \in c.tagWords

\* What the controls of the dashboard offer.
ASSUME FiltersAssumption ==
    \A f \in Filters : /\ f.range \in {"1h", "24h", "7d", "30d", "custom"}
                       /\ f.region \in Range(known) \union {"all"} /\ f.env \in Environments

\* The query the dashboard sends for its filters.
Request(f) ==
    Parse([range |-> IF f.range = "custom" THEN "24h" ELSE f.range, region |-> f.region,
           group |-> f.group, env |-> f.env, points |-> columnCountForRange[f.range]])

----------------------------------------------------------------------------
(* Scope.                                                                  *)

\* Nothing is scoped before the checks are known.
ScopedCheckIds(f) ==
    {c \in Range(liveChecks) :
        /\ MatchesEnvironment(c.tags, f.env)
        /\ f.region = "all" \/ NormalizeRegion(f.region, Null)
                                \in {NormalizeRegion(r, Null) : r \in Range(c.regions)}
        /\ f.group \in {"all", InferServiceGroup(c.words, c.tagWords)}}

RecentProbeEventsUnscoped(f) ==                                             \* mutant
    {e \in samples : /\ now - e.at <= RangeMinutes(Request(f))
                     /\ f.region \in {"all", e.region}}

RecentProbeEvents(f) ==
    {e \in samples :
        /\ now - e.at <= RangeMinutes(Request(f))
        /\ \/ f.region = "all"
           \/ /\ NormalizeRegion(e.region, Null) = NormalizeRegion(f.region, Null)
              /\ NormalizeRegion(f.region, Null) # Null
        /\ liveChecks # <<>> => e.check \in ScopedCheckIds(f)}

----------------------------------------------------------------------------
(* The table of checks.                                                    *)

\* Without any row of the heatmap, a silent one for each check and region; a
\* check without regions stands for all.
SilentRow(f, c, region) ==
    [group |-> InferServiceGroup(c.words, c.tagWords),
     row |-> [check |-> c, region |-> region, sampleCount |-> 0, uptimePct |-> 10000,
              errorRate |-> 0,
              statuses |-> [n \in 1..columnCountForRange[f.range] |-> "no-data"]]]

SilentRows(f) ==
    LET RegionsOf(c) == IF c.regions = <<>> THEN known ELSE c.regions
        RowsOf(c) == [k \in DOMAIN RegionsOf(c) |-> SilentRow(f, c, RegionsOf(c)[k])]
    IN  FlattenSeq([n \in DOMAIN liveChecks |-> RowsOf(liveChecks[n])])

\* The rows of the heatmap, with the group their name alone gives.
CheckRows(f, rows) ==
    IF rows = <<>> THEN SilentRows(f)
    ELSE [n \in DOMAIN rows |->
            [group |-> InferServiceGroup(rows[n].check.words, {}), row |-> rows[n]]]

\* What is drawn: rows with data, in the region and group of the filters.
Drawn(f, group, row) ==
    /\ ~IsNoiseCheckName(row.check.words)
    /\ row.sampleCount > 0 \/ \E state \in Range(row.statuses) : state # "no-data"
    /\ f.region \in {"all", row.region} /\ f.group \in {"all", group}

\* The worst first, then by errors and by samples; equal rows stay in order.
DrawnFirst(rows, m, n) ==
    LET a == rows[m].row b == rows[n].row
    IN  \/ WorstWeight(a) > WorstWeight(b)
        \/ /\ WorstWeight(a) = WorstWeight(b)
           /\ \/ a.errorRate > b.errorRate
              \/ /\ a.errorRate = b.errorRate
                 /\ \/ a.sampleCount > b.sampleCount
                    \/ a.sampleCount = b.sampleCount /\ m < n

FilteredRows(f, rows) ==
    LET drawn == {n \in DOMAIN rows : Drawn(f, rows[n].group, rows[n].row)}
        order == Sorted(drawn, {p \in drawn \X drawn : DrawnFirst(rows, p[1], p[2])})
    IN  [n \in DOMAIN order |-> rows[order[n]].row]

Table(f) == FilteredRows(f, CheckRows(f, Heatmap(Request(f))))

----------------------------------------------------------------------------
(* The row of a service level objective, from the rows of its group.       *)

SampleCount(rows) == MapThenSumSet(LAMBDA row : row.sampleCount, rows)
RowErrors(row) == (10000 - row.uptimePct) * row.sampleCount
ErrorCount(rows) == MapThenSumSet(RowErrors, rows)

SloRow(rows, target) ==
    LET total == SampleCount(rows)
        error == IF total = 0 THEN 0 ELSE ErrorCount(rows)
        budget == Max({1, 10000 - target}) * Max({1, total})
        share == (200 * (budget - error) + budget) \div (2 * budget)
    IN  [remaining |-> Max({0, Min({100, share})}),
         burnTenths |-> (20 * error + budget) \div (2 * budget)]

sloTargets == {9950, 9990, 9900}

----------------------------------------------------------------------------
(* Properties.                                                             *)

(* Of the series of one query: its last place, its places that are not     *)
(* padding, and its count.                                                 *)
EndsNow(q) ==
    LET width == BucketMinutes(q)
        series == LatencySeries(q)
        real == {n \in 1..q.points : series.buckets[n].at # Null}
        first == series.buckets[Min(real)].at
    IN  /\ Len(series.buckets) = q.points /\ q.points \in real
        /\ series.buckets[q.points].at = TimeBucket(width, now)
        /\ \A n \in real \ {q.points} :
                n + 1 \in real /\ series.buckets[n + 1].at = series.buckets[n].at + width
        /\ series.sampleCount = Total({s \in Selected(q, Max({first, now - RangeMinutes(q)})) :
                                            TimeBucket(width, s.at) <= TimeBucket(width, now)})

\* The latency series ends with the bucket of now, has one bucket after the
\* other without a gap, is padded in front only, and counts every sample of its
\* scope from its first bucket up to now.
SeriesEndsNow == \A r \in Queries : EndsNow(Parse(r))

\* The results of the rows of a heatmap in one of its buckets.
Column(rows, n) == MapThenSumSet(LAMBDA k : rows[k].totals[n], DOMAIN rows)

\* The heatmap and the series of one query tell the same story: where they
\* share a bucket, the rows of the heatmap and the samples of regions a check
\* is not configured for (any more) add up to what the series counts, although
\* one is computed from the end of the window and the other from its start.
HeatmapAgreesWithSeries ==
    \A r \in Queries :
        LET q == Parse(r)
            rows == Heatmap(q)
            series == LatencySeries(q)
            stray == {s \in Selected(q, 0) : s.region \notin Range(s.check.regions)}
        IN  q.points <= RangeMinutes(q) =>
            \A n \in 1..q.points :
                LET b == series.buckets[n].at
                IN  /\ b = HeatBuckets(q)[n]
                    /\ series.buckets[n].total =
                        Column(rows, n) + Total({s \in stray : TimeBucket(BucketMinutes(q), s.at) = b})

\* The table of a vendor, or of everything, draws every row the service
\* answered, and none below 99% uptime comes after one that was never down:
\* the worst state of a bucket, by which both sort, does not hide behind it.
WorstRowsFirst ==
    \A f \in Filters : f.group \in vendors \union {"all"} =>
        LET rows == Table(f)
            answered == Heatmap(Request(f))
        IN  /\ Len(rows) = Len(answered)
            /\ \A n \in DOMAIN answered : answered[n].totals \in {row.totals : row \in Range(rows)}
            /\ \A i, j \in DOMAIN rows :
                    i < j /\ rows[j].uptimePct < 9900 => "down" \in Range(rows[i].statuses)

\* A tile shows the summary of the service or, without one, what was streamed.
\* For a vendor, or everything, both stand for the same samples: those of its
\* checks, environment and window, in a region their check is configured for.
StreamAgreesWithSummary ==
    \A f \in Filters : f.group \in vendors \union {"all"} =>
        LET q == Request(f)
            streamed == {e \in RecentProbeEvents(f) : Shown(e.check)}
            stray == {s \in Selected(q, now - RangeMinutes(q)) :
                        f.region # "all" /\ f.region \notin Range(s.check.regions)}
        IN  /\ HistoricalSummary(q).all.sampleCount = Total(streamed) + Total(stray)
            /\ \A n \in DOMAIN known : f.region = known[n] =>
                    RegionalSummary(q)[n].all.sampleCount = HistoricalSummary(q).all.sampleCount

\* An objective of a group shows budget left only when the exact counts
\* comply with the target, and none when they burn at the rate that pages:
\* rounding the uptime on the way never turns a verdict in its favour.
BudgetsAgree ==
    \A w \in Windows \union {[ok |-> OkTotal(S), total |-> Total(S)] : S \in SUBSET samples},
       target \in sloTargets :
        LET exact == EvaluateSlo(w.ok, w.total, target)
            shown == SloRow({[uptimePct |-> UptimePct(w.ok, w.total), sampleCount |-> w.total]},
                            target)
        IN  /\ shown.remaining > 0 => exact.compliant
            /\ exact.compliant <=> ~exact.burnsBudget
            /\ exact.pagingSeverity =>
                    exact.remainingBudget = 0 /\ shown.remaining = 0 /\ shown.burnTenths >= 20

(* What the rules need of a check to agree on its vendor: no tag of a vendor*)
(* but the one of its name, none found in the joined tags that the browser *)
(* asks for before it, and a name that speaks of payments says the vendor  *)
(* itself or comes with the tag of Stripe.                                 *)
VendorIsPlain(c) ==
    LET named == InferServiceGroup(c.words, {})
        tagged == {v \in vendors : {VendorTag(v), v} \intersect c.tags # {}}
        said == {"github", "openai", "stripe"} \intersect c.words
        pays == {"payment", "checkout", "billing"} \intersect c.words
    IN  /\ tagged \subseteq {named}
        /\ \A n \in DOMAIN asked :
                VendorTag(asked[n]) \in c.tagWords => \E m \in 1..n : asked[m] = named
        /\ pays # {} /\ said = {} => "cloudflare" \notin c.words /\ "stripe" \in tagged

\* The same vendor for the service, for the events in the browser (by name and
\* tags) and for its table (by the name alone).
IsOfOneVendor(c) ==
    \A vendor \in vendors :
        /\ ServiceGroupSql(c, vendor) <=> InferServiceGroup(c.words, c.tagWords) = vendor
        /\ ServiceGroupSql(c, vendor) <=> InferServiceGroup(c.words, {}) = vendor

ScopedAlike(c) ==
    /\ \A env \in Environments : EnvironmentSql(c, env) <=> MatchesEnvironment(c.tags, env)
    /\ IsOfOneVendor(c) <=> VendorIsPlain(c)

CreatedAlike == \A c \in Created : ScopedAlike(c)

(* Of all checks the API creates, and of those with samples, the service   *)
(* and the browser put each in the same environments, and just the plain   *)
(* ones with the same vendor: for the others a tile, its fallback and the  *)
(* table speak of different checks, and nothing but what VendorIsPlain     *)
(* names makes them differ.                                                *)
ScopesAgree == CreatedAlike /\ \A s \in samples : ScopedAlike(s.check)

Clip(latency) == Min({60000, latency})
AtOrBelow(latencies, v) == {n \in DOMAIN latencies : Clip(latencies[n]) <= v}

(* `shown` is one of the clipped latencies, the least of them with the share*)
(* of pct hundredths at or below it.                                        *)
IsNearestRank(shown, latencies, pct) ==
    LET share == pct * Cardinality(DOMAIN latencies)
    IN  /\ \E n \in DOMAIN latencies : shown = Clip(latencies[n])
        /\ 100 * Cardinality(AtOrBelow(latencies, shown)) >= share
        /\ \A n \in DOMAIN latencies : latencies[n] < shown =>
                100 * Cardinality(AtOrBelow(latencies, latencies[n])) < share

(* A percentile is one of the clipped latencies, the least that leaves no   *)
(* more than its share above, also at the ends and for a single latency.    *)
PercentileIsNearestRank ==
    LET stored == SetToSeq(samples)
    IN  \A values \in Latencies \union {[n \in DOMAIN stored |-> stored[n].latency]},
           pct \in {0, 50, 95, 99, 100} :
            values # <<>> => IsNearestRank(PercentileOf(values, pct, 60000), values, pct)
==============================================================================
