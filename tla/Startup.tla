------------------------------ MODULE Startup -------------------------------
(***************************************************************************)
(* From the environment to the profiles (LoadConfig, buildProfiles).  A    *)
(* setting is unset, garbage that does not parse, or a value; a blank value*)
(* counts as unset.  Dollar amounts are given in tenths of the unit they   *)
(* are stored in (cents for Apify, micro-dollars for Exa), so that rounding*)
(* shows.  A route prefix is the sequence of its segments.                 *)
(***************************************************************************)
EXTENDS ProfilePolicy, Sequences

CONSTANTS Unset, Garbage

ASSUME StartupAssumption ==
  Unset \notin Int /\ Garbage \notin Int /\ Unset # Garbage

Finance == {p \in Profiles : isDailyCappedFinance(p)}

Settings ==
  ({"firecrawl"} \X
     {"MAX_PASSES", "MAX_BODY_BYTES", "CREDIT_RESET_DAY",
      "CREDIT_REFRESH_INTERVAL", "403_RETRIES", "MAX_CONCURRENT_PER_KEY",
      "CONCURRENCY_SATURATION", "CONCURRENCY_QUEUE_MS", "LEGACY_FALLBACK",
      "UPSTREAM_PROXY", "PROXY_BASE_URL"})
  \cup (Profiles \X {"API_KEYS", "UPSTREAM", "ROUTE_PREFIX", "LOW", "STOP"})
  \cup ((Finance \cup {"exa"}) \X {"BUDGET"})
  \cup {<<"apify", "TIMEOUT_SEC">>, <<"apify", "FREE_CREDIT_USD">>}

-----------------------------------------------------------------------------
(* Reading one setting.                                                     *)

isSet(env, x) == env[x] # Unset

(* envInt, envInt64, parseOptInt64 and the bound the caller checks.         *)
parses(env, x, least) == isSet(env, x) => env[x] # Garbage /\ env[x] >= least
number(env, x, default) == IF isSet(env, x) THEN env[x] ELSE default

(* envUsdCents and envUsdMicro round to the nearest unit.                   *)
dollars(env, x, default) ==
  IF isSet(env, x) THEN (env[x] + 5) \div 10 ELSE default

(* A URL that does not parse, or has no host or another scheme.             *)
urlOK(env, x) == env[x] # Garbage

(* How many non-empty keys the comma-separated list has.                    *)
keyCount(env, p) == number(env, <<p, "API_KEYS">>, 0)

prefix(env, p) == number(env, <<p, "ROUTE_PREFIX">>, <<p>>)

(* Garbage: no leading slash, a trailing slash, or the root.                *)
checkRoutePrefix(env, p) ==
  /\ env[<<p, "ROUTE_PREFIX">>] # Garbage
  /\ prefix(env, p) \notin {<<"healthz">>, <<"status">>}

-----------------------------------------------------------------------------
(* LoadConfig.                                                              *)

DefaultLow ==
  [firecrawl |-> 10, tavily |-> 10, apify |-> 10, exa |-> 500000,
   fmp |-> 10, alphavantage |-> 5, marketaux |-> 10]
DefaultStop ==
  [firecrawl |-> 2, tavily |-> 2, apify |-> 5, exa |-> 100000,
   fmp |-> 1, alphavantage |-> 1, marketaux |-> 1]
DefaultBudget ==
  [exa |-> 10000000, fmp |-> 250, alphavantage |-> 25, marketaux |-> 100]

(* Tavily's thresholds default to the shared ones.                          *)
threshold(env, p, name, default) ==
  CASE p = "tavily" ->
         number(env, <<p, name>>, number(env, <<"firecrawl", name>>, default[p]))
    [] p \in {"apify", "exa"} -> dollars(env, <<p, name>>, default[p])
    [] OTHER -> number(env, <<p, name>>, default[p])

low(env, p) == threshold(env, p, "LOW", DefaultLow)
stop(env, p) == threshold(env, p, "STOP", DefaultStop)
budgetOf(env, p) ==
  IF p = "exa" THEN dollars(env, <<p, "BUDGET">>, DefaultBudget[p])
  ELSE number(env, <<p, "BUDGET">>, DefaultBudget[p])

(* Fault: the order of the two thresholds is not checked.                   *)
thresholdsUnordered(env, p) ==
  parses(env, <<p, "LOW">>, 0) /\ parses(env, <<p, "STOP">>, 0)

thresholdsOK(env, p) ==
  /\ parses(env, <<p, "LOW">>, 0) /\ parses(env, <<p, "STOP">>, 0)
  /\ stop(env, p) <= low(env, p)

exaBudgetOK(env) ==
  parses(env, <<"exa", "BUDGET">>, 0) /\ budgetOf(env, "exa") > 0

(* financeDailyThresholds: the comparison is made only with a budget that   *)
(* was set, not with the default one.                                       *)
financeBudgetOK(env, p) ==
  /\ parses(env, <<p, "BUDGET">>, 1)
  /\ isSet(env, <<p, "BUDGET">>) => stop(env, p) <= env[<<p, "BUDGET">>]

(* What every profile's settings are checked for, whether it has keys or    *)
(* not.                                                                     *)
loads(env, p) ==
  urlOK(env, <<p, "UPSTREAM">>) /\ checkRoutePrefix(env, p) /\ thresholdsOK(env, p)

loadTavilyConfig(env) == loads(env, "tavily")
loadApifyConfig(env) ==
  /\ loads(env, "apify")
  /\ parses(env, <<"apify", "TIMEOUT_SEC">>, 1)
  /\ parses(env, <<"apify", "FREE_CREDIT_USD">>, 0)
loadExaConfig(env) == loads(env, "exa") /\ exaBudgetOK(env)
loadFMPConfig(env) == loads(env, "fmp") /\ financeBudgetOK(env, "fmp")
loadAlphaVantageConfig(env) ==
  loads(env, "alphavantage") /\ financeBudgetOK(env, "alphavantage")
loadMarketauxConfig(env) ==
  loads(env, "marketaux") /\ financeBudgetOK(env, "marketaux")

LoadConfig(env) ==
  LET of(name) == <<"firecrawl", name>> IN
  /\ keyCount(env, "firecrawl") > 0
  /\ loads(env, "firecrawl")
  /\ loadTavilyConfig(env) /\ loadApifyConfig(env) /\ loadExaConfig(env)
  /\ loadFMPConfig(env) /\ loadAlphaVantageConfig(env) /\ loadMarketauxConfig(env)
  /\ parses(env, of("MAX_PASSES"), 1)
  /\ parses(env, of("MAX_BODY_BYTES"), 0)
  /\ parses(env, of("CREDIT_RESET_DAY"), 1)
  /\ number(env, of("CREDIT_RESET_DAY"), 1) <= 31
  /\ parses(env, of("CREDIT_REFRESH_INTERVAL"), 10)
  /\ urlOK(env, of("UPSTREAM_PROXY"))
  /\ parses(env, of("403_RETRIES"), 0)
  /\ parses(env, of("MAX_CONCURRENT_PER_KEY"), 0)
  /\ number(env, of("CONCURRENCY_SATURATION"), "queue") \in {"queue", "reject"}
  /\ parses(env, of("CONCURRENCY_QUEUE_MS"), 0)

resetDay(env) == number(env, <<"firecrawl", "CREDIT_RESET_DAY">>, 1)
legacyFallback(env) == number(env, <<"firecrawl", "LEGACY_FALLBACK">>, "true") # "false"

(* Where the client finds the proxy: PROXY_BASE_URL, which nothing checks,  *)
(* or the Host the client named.  Garbage is neither an URL nor a host.     *)
proxyBase(env, host) == number(env, <<"firecrawl", "PROXY_BASE_URL">>, host)

-----------------------------------------------------------------------------
(* buildProfiles.                                                           *)

BuildOrder ==
  [firecrawl |-> 1, tavily |-> 2, exa |-> 3, apify |-> 4,
   fmp |-> 5, alphavantage |-> 6, marketaux |-> 7]

(* Credits of a key nobody has measured; see KeyPool.                       *)
Plenty == 100000000

retries403(env, p) ==
  IF p \in {"firecrawl", "tavily"}
  THEN number(env, <<"firecrawl", "403_RETRIES">>, 1) ELSE 0

(* A profile is there when it has keys, and without a balance endpoint every*)
(* key starts with the budget.                                              *)
buildProfiles(env) ==
  [p \in {q \in Profiles : keyCount(env, q) > 0} |->
     [prefix        |-> prefix(env, p),
      keys          |-> keyCount(env, p),
      low           |-> low(env, p),
      stop          |-> stop(env, p),
      seed          |-> IF hasUsage(p) THEN Plenty ELSE budgetOf(env, p),
      max403        |-> retries403(env, p),
      maxConcurrent |-> IF p # "firecrawl" THEN 0
                        ELSE number(env, <<p, "MAX_CONCURRENT_PER_KEY">>, 1)]]
=============================================================================
