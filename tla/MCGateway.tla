------------------------------ MODULE MCGateway ------------------------------
(***************************************************************************)
(* The instance of Gateway that is checked: every profile has keys, and at *)
(* most two settings deviate from that, each to the values at which it is  *)
(* accepted or refused; a leap year and the year after it.                 *)
(***************************************************************************)
EXTENDS Gateway, TLC

Days == <<31, 29, 31, 30, 31, 30, 31, 31, 30, 31, 30, 31,
          31, 28, 31, 30, 31, 30, 31, 31, 30, 31, 30, 31, 31, 28>>
Calendar ==
  LET first[m \in 1..27] == IF m = 1 THEN 0 ELSE first[m - 1] + Days[m - 1]
  IN first

(* Midnight and noon of the last day of a long month, of both Februaries    *)
(* and of the year, and of the day after.                                   *)
Turns ==
  {midnight(Calendar[m] + d) + h : m \in {2, 3, 13, 15}, d \in {-1, 0},
                                   h \in {0, 1}}

(* Past, next week, just inside and beyond a year.                   *)
Ahead == {-2, 14, 730, 800}

-----------------------------------------------------------------------------

Global ==
  [MAX_PASSES |-> {Garbage, 0, 1}, MAX_BODY_BYTES |-> {-1, 0},
   CREDIT_RESET_DAY |-> {Garbage, 0, 28, 31, 32},
   CREDIT_REFRESH_INTERVAL |-> {9, 10}, MAX_CONCURRENT_PER_KEY |-> {-1, 0},
   CONCURRENCY_SATURATION |-> {"reject", "drop"},
   CONCURRENCY_QUEUE_MS |-> {-1, 0}, LEGACY_FALLBACK |-> {"false", "no"},
   UPSTREAM_PROXY |-> {Garbage, "socks5h"}, PROXY_BASE_URL |-> {Garbage, "public"}]
   @@ ("403_RETRIES" :> {Garbage, -1, 0, 2})

Choices(x) ==
  CASE x[2] \in DOMAIN Global -> Global[x[2]]
    [] x[2] = "API_KEYS"      -> {Unset}
    [] x[2] = "UPSTREAM"      -> {Garbage}
    [] x[2] = "ROUTE_PREFIX"  ->
         {Garbage, <<"status">>, <<"v2">>, <<"v2", "acts">>}
    [] x[2] = "LOW"           -> {Garbage, -1, 0, 4}
    [] x[2] = "STOP"          -> {Garbage, -1, 0, 4, 15, 104}
    [] x[2] = "BUDGET"        -> {Garbage, 0, 4, 5}
    [] x[2] = "TIMEOUT_SEC"   -> {0, 1}
    [] x[2] = "FREE_CREDIT_USD" -> {-1, 5}

Default ==
  [x \in Settings |-> IF x[2] = "API_KEYS" THEN 2 ELSE Unset]
Single == UNION {{x} \X Choices(x) : x \in Settings}
Environments ==
  {Default} \cup
  {[Default EXCEPT ![s[1]] = s[2], ![t[1]] = t[2]] : s, t \in Single}

Names == Profiles \cup {"v2", "scrape", "acts", "crawl", "1", "status", ""}

Ways == {<<p, "v2">> : p \in Profiles} \cup
        {<<"v2", "scrape">>, <<"v2", "acts", "">>, <<"fmp">>, <<"">>}

Of(name, v) == [Default EXCEPT ![<<"firecrawl", name>>] = v]
Bases ==
  {Default, Of("PROXY_BASE_URL", Garbage), Of("PROXY_BASE_URL", "public"),
   Of("LEGACY_FALLBACK", "false")}
Heard == Bases \X {<<"firecrawl", "v2">>} \X {200, 429}
Watched ==
  ({Default} \X ({<<p, "v2">> : p \in Profiles} \cup {<<"">>}))
  \cup ({Of("403_RETRIES", n) : n \in {0, 2}}
          \X {<<"v2", "scrape">>, <<"tavily", "v2">>})
  \cup ({Of("CREDIT_RESET_DAY", d) : d \in {28, 31}} \X {<<"tavily", "v2">>})
  \cup (Bases \X {<<"firecrawl", "v2">>})

Alone(p, name, v) == [Default EXCEPT ![<<p, name>>] = v]
Measured ==
  {<<Alone("apify", "FREE_CREDIT_USD", 5), "apify">>}
  \cup ({Alone("apify", "TIMEOUT_SEC", 1)} \X {"apify", "exa", "firecrawl", "tavily"})

Strings ==
  {[name |-> x[1], host |-> x[2], path |-> <<"v2", "crawl", "1">>] :
     x \in ({"next"} \X {"upstream", "elsewhere", "none"}) \cup {<<"url", "upstream">>}}
Named == {"proxy", Garbage}

Plain == {Default}
Scrape == {<<"v2", "scrape">>}
Scraped == Plain \X Scrape
None == {}

(* "429 (rate limit) and 401 (auth) rotate but do NOT disable" (README.md:  *)
(* 193); a key is disabled "never for 429/401/403" (keys.go:409).  The      *)
(* exhaustion words are looked for in any 4xx of Firecrawl but a 429        *)
(* (profile.go:387-391).                                                    *)
AuthNeverDisables == disables => outcome.status # 401
=============================================================================
