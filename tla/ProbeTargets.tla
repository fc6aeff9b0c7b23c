---------------------------- MODULE ProbeTargets ----------------------------
(***************************************************************************)
(* The checks the scheduler seeds the demo tenant with: fifteen targets    *)
(* probed from every region and three of other environments.  A check is   *)
(* what queries tell apart: the words of its name they look for, its tags, *)
(* its regions.  Where it points to is left out.  No seeded tag has a word *)
(* of the browser's rules in it without being that word.                   *)
(***************************************************************************)
EXTENDS Naturals, Sequences

allRegions == <<"us-east", "eu-west", "ap-south">>

\* What the browser looks for in tags.
TagWords == {"vendor:github", "vendor:openai", "vendor:stripe", "vendor:cloudflare", "baseline"}

Target(name, words, regions, tags) ==
    [name |-> name, words |-> words, regions |-> regions, tags |-> tags,
     tagWords |-> tags \intersect TagWords, enabled |-> TRUE]

PROBE_TARGETS ==
    << Target("github-api", {"github"}, allRegions, {"vendor:github", "public", "demo"}),
       Target("github-status", {"github"}, allRegions, {"vendor:github", "statuspage", "demo"}),
       Target("openai-api", {"openai"}, allRegions, {"vendor:openai", "auth-expected", "demo"}),
       Target("stripe-api", {"stripe"}, allRegions, {"vendor:stripe", "auth-expected", "demo"}),
       Target("cloudflare-api", {"cloudflare"}, allRegions,
              {"vendor:cloudflare", "auth-expected", "demo"}),
       Target("httpbin", {"httpbin"}, allRegions, {"baseline", "public", "demo"}),
       Target("httpbin-slow", {"httpbin"}, allRegions, {"baseline", "slow-path", "demo"}),
       Target("jsonplaceholder", {"jsonplaceholder"}, allRegions,
              {"vendor:jsonplaceholder", "public", "demo"}),
       Target("npm-registry", {"npm"}, allRegions, {"vendor:npm", "public", "demo"}),
       Target("pypi", {"pypi"}, allRegions, {"vendor:pypi", "public", "demo"}),
       Target("docker-hub", {"docker"}, allRegions, {"vendor:docker", "public", "demo"}),
       Target("google-dns", {"dns"}, allRegions, {"dns", "public", "demo"}),
       Target("cloudflare-dns", {"cloudflare", "dns"}, allRegions, {"dns", "public", "demo"}),
       Target("github-dns", {"github", "dns"}, allRegions, {"vendor:github", "dns", "demo"}),
       Target("stripe-checkout-synthetic", {"stripe", "checkout"}, allRegions,
              {"vendor:stripe", "synthetic", "demo"}) >>

extraTargets ==
    << Target("staging-httpbin", {"httpbin"}, <<"us-east">>, {"env:staging", "baseline", "demo"}),
       Target("staging-jsonplaceholder", {"jsonplaceholder"}, <<"us-east">>,
              {"env:staging", "public", "demo"}),
       Target("dev-httpbin-delay", {"httpbin"}, <<"us-east">>,
              {"env:development", "baseline", "demo"}) >>

\* The rows of checks once the scheduler has started: the targets are
\* production, whatever else their tags say.
Seeded ==
    [n \in DOMAIN PROBE_TARGETS |->
        [PROBE_TARGETS[n] EXCEPT !.tags = @ \union {"env:production"}]] \o extraTargets
=============================================================================
