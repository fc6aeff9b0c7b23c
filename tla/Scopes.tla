------------------------------- MODULE Scopes -------------------------------
(***************************************************************************)
(* Which checks a service group and an environment stand for.  The rules   *)
(* are written twice, in the SQL of the metrics service and in the browser.*)
(*                                                                         *)
(* A check has the `words` of these rules that occur in its name, `tags`   *)
(* in lower case, the `tagWords` of these rules that occur anywhere in its *)
(* joined tags, `regions` and `enabled`.                                   *)
(***************************************************************************)
EXTENDS Naturals, Sequences, FiniteSetsExt

Rule(group, words, tags) == [group |-> group, words |-> words, tags |-> tags]

\* The first rule that fits gives the group.
FirstRule(rules, words, tags) ==
    LET fits == {n \in DOMAIN rules :
                    rules[n].words \intersect words # {} \/ rules[n].tags \intersect tags # {}}
    IN  IF fits = {} THEN "other" ELSE rules[Min(fits)].group

VendorTag(group) == "vendor:" \o group

baselineWords == {"httpbin", "jsonplaceholder", "npm", "pypi", "docker", "dns"}

----------------------------------------------------------------------------
(* The metrics service.                                                    *)

sqlRulesBaselineFirst ==                                                    \* mutant
    << Rule("baseline", baselineWords \union {"pulse demo"}, {}), Rule("github", {"github"}, {}),
       Rule("openai", {"openai"}, {}), Rule("stripe", {"stripe"}, {}),
       Rule("cloudflare", {"cloudflare"}, {}) >>

sqlRules ==
    << Rule("github", {"github"}, {}), Rule("openai", {"openai"}, {}),
       Rule("stripe", {"stripe"}, {}), Rule("cloudflare", {"cloudflare"}, {}),
       Rule("payments", {"payment", "checkout", "billing"}, {}), Rule("auth", {"auth"}, {}),
       Rule("search", {"search"}, {}), Rule("cart", {"cart"}, {}),
       Rule("baseline", baselineWords \union {"pulse demo"}, {}) >>

\* A check belongs to the group of its name and to those its tags say.
ServiceGroupSql(c, group) ==
    \/ group = "all"
    \/ FirstRule(sqlRules, c.words, c.tags) = group
    \/ {VendorTag(group), group} \intersect c.tags # {}
    \/ group = "baseline" /\ {"baseline", "public", "demo"} \intersect c.tags # {}

EnvironmentSql(c, env) ==
    \/ "env:" \o env \in c.tags
    \/ env = "production" /\ {"env:staging", "env:development"} \intersect c.tags = {}

\* Disabled checks, and smoke tests and demos by their names, are left out.
Shown(c) == c.enabled /\ {"smoke", "failing check", "pulse demo"} \intersect c.words = {}

----------------------------------------------------------------------------
(* The browser.                                                            *)

\* The browser looks for words in the joined tags, not for a tag: "baseline" is
\* found in "my-baseline" as well.
clientRules ==
    << Rule("github", {"github"}, {VendorTag("github")}),
       Rule("openai", {"openai"}, {VendorTag("openai")}),
       Rule("stripe", {"stripe", "payment", "checkout", "billing"}, {VendorTag("stripe")}),
       Rule("cloudflare", {"cloudflare"}, {VendorTag("cloudflare")}),
       Rule("baseline", baselineWords, {"baseline"}) >>

InferServiceGroup(words, tagWords) == FirstRule(clientRules, words, tagWords)

MatchesEnvironment(tags, env) ==
    \/ "env:" \o env \in tags
    \/ env = "production" /\ "env:staging" \notin tags /\ "env:development" \notin tags

IsNoiseCheckName(words) == {"smoke", "failing check", "pulse demo health"} \intersect words # {}

\* The short name of a region, and what an unknown one is read as.
NormalizeRegion(region, unknown) ==
    CASE region \in {"us-east", "us-east-1"} -> "us-east"
      [] region \in {"eu-west", "eu-west-1"} -> "eu-west"
      [] region \in {"ap-south", "ap-south-1"} -> "ap-south"
      [] OTHER -> unknown

\* The columns of the charts; a range of one's own is a day.
columnCountForRange == [key \in {"1h", "24h", "7d", "30d", "custom"} |->
    CASE key = "1h" -> 12 [] key = "7d" -> 42 [] key = "30d" -> 30 [] OTHER -> 24]
=============================================================================
