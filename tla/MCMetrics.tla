------------------------------ MODULE MCMetrics ------------------------------
(***************************************************************************)
(* The instance of DashboardView: the seeded checks and one of a vendor    *)
(* with a region given twice.  Samples lie at the start of the shortest    *)
(* window, inside it, in the minute of the clock and ahead of it, in       *)
(* configured regions and in one that is not; a batch of 200 can lose one  *)
(* result without being down.                                              *)
(***************************************************************************)
EXTENDS DashboardView, ProbeTargets

githubTwice == Target("github-twice", {"github"}, <<"us-east", "us-east">>, {"vendor:github"})

ranked == Append(Seeded, githubTwice)

MCChecks == [n \in DOMAIN ranked |-> ranked[n] @@ [rank |-> n]]

Named(name) == CHOOSE c \in Range(MCChecks) : c.name = name

start == 50000

Batch(total, ok, latency) == [total |-> total, ok |-> ok, latency |-> latency]

places ==
    {<<"github-twice", "us-east">>, <<"github-twice", "eu-west">>,
     <<"httpbin", "us-east">>, <<"staging-httpbin", "us-east">>}

MCArrivals ==
    {[check |-> Named(p[1]), region |-> p[2], at |-> at] @@ batch :
        p \in places, at \in {start - 60, start - 23, start + 1},
        batch \in {Batch(1, 1, 100), Batch(1, 0, 70000)}}
      \union
    {[check |-> Named("github-twice"), region |-> region, at |-> at] @@ Batch(200, 199, 500) :
        region \in {"us-east", "eu-west"}, at \in {start - 60, start - 23, start + 1}}

MCInstants == {start, start + 7}

Query(range, region, group, env, points) ==
    [range |-> range, region |-> region, group |-> group, env |-> env, points |-> points]

MCQueries ==
    { Query("1h", "all", "all", "production", 7), Query("1h", "us-east-1", "github", "", 70),
      Query("1h", "eu-west", "payroll", "production", 3), Query("24h", "", "baseline", "staging", 500),
      Query("week", "us-east", "", "qa", Null), Query("7d", "all", "stripe", "development", 42) }

MCFilters ==
    [range : {"1h", "custom"}, region : {"all", "us-east"}, group : {"all", "github"},
     env : {"production", "staging"}]

\* Checks of any name and two tags, two of them tags that only have a word of
\* the browser's rules in them.
createdTags ==
    {"vendor:github", "github", "vendor:openai", "vendor:stripe", "stripe", "vendor:cloudflare",
     "baseline", "vendor:github-x", "my-baseline", "env:staging", "env:development",
     "env:production"}

Joined(tags) ==
    (tags \intersect TagWords)
      \union {word \in {"vendor:github"} : "vendor:github-x" \in tags}
      \union {word \in {"baseline"} : "my-baseline" \in tags}

MCCreated ==
    {[words |-> words, tags |-> tags, tagWords |-> Joined(tags)] :
        words \in SUBSET {"github", "openai", "stripe", "cloudflare", "payment", "npm"},
        tags \in {{a, b} : a, b \in createdTags} \union {{}}}

MCWindows ==
    UNION {{[ok |-> total - bad, total |-> total] : bad \in {0, 1, 2, 10, 11, 21} \intersect 0..total} :
            total \in {0, 1, 2, 199, 1000, 1001, 20000}}

MCLatencies ==
    UNION {[1..n -> {0, 450, 70000}] : n \in 0..2}
      \union {[k \in 1..n |-> IF k <= high THEN 70000 ELSE 20] : n \in 19..21, high \in 0..2}

\* The seeded checks meet what StreamHolds and WorstRowsHold suppose.
ASSUME PlainAndListed ==
    /\ \A c \in Range(MCChecks) : VendorIsPlain(c)
    /\ \A s \in MCArrivals : s.check \in Range(MCChecks)
=============================================================================
