---------------------------- MODULE ProfilePolicy ----------------------------
(***************************************************************************)
(* What one upstream response means to each provider profile: retry the    *)
(* same key, rotate to another one, disable the key, or hand the response  *)
(* to the client.  A body is reduced to the one thing the code looks for   *)
(* in it; a status is the HTTP status code, and 0 is "no response at all". *)
(***************************************************************************)
EXTENDS Integers

Profiles ==
  {"firecrawl", "tavily", "apify", "exa", "fmp", "alphavantage", "marketaux"}

(* 520 stands for the 5xx codes that shouldRetry does not list, 404 for the *)
(* 4xx codes nothing lists.                                                 *)
NoStatus == 0
Statuses == {200, 401, 402, 403, 404, 408, 429, 432, 433, 500, 520}

(* "plain"      no success flag and none of the words below                 *)
(* "quoting"    success:true around scraped text that quotes the denylist   *)
(* "failQuiet"  success:false without a word of the denylist                *)
(* "failAuth"   success:false, "unauthorized", "forbidden" or "rate limit"  *)
(* "failCredit" success:false, "insufficient credits", "payment required"   *)
(*              or "exceeded" ("rate limit exceeded" is one of these)       *)
(* "note"       Alpha Vantage's {"Note": ...} or {"Information": ...}       *)
(* "restricted" FMP's "Restricted Endpoint: ..." refusal                    *)
Bodies == {"plain", "quoting", "failQuiet", "failAuth", "failCredit",
           "note", "restricted"}

rejectDenylist == {"quoting", "failAuth", "failCredit"}
creditExhaustedPattern == {"quoting", "failCredit"}

(* Any 4xx is a failure envelope; otherwise the success flag decides.       *)
firecrawlFailure(status, body) ==
  \/ status \in 400..499
  \/ body \in {"failQuiet", "failAuth", "failCredit"}

alphaVantageIsExhausted(body) == body = "note"
fmpIsRestrictedEndpoint(body) == body = "restricted"
isDailyCappedFinance(p) == p \in {"fmp", "alphavantage", "marketaux"}

(* Worth another attempt on the same key: a network error, or one of these. *)
shouldRetry(status) ==
  status = NoStatus \/ status \in {403, 408, 500, 502, 503, 504}

(* Fault: the exhausted Alpha Vantage note arrives with status 200 and is   *)
(* taken for data, as every other profile takes a 200.                      *)
shouldRotateByStatusOnly(p, status, body) ==
  CASE p = "tavily" -> status \in {401, 429, 432, 433}
    [] OTHER        -> status \in {401, 402, 429}

(* Fault: the denylist is matched against every body, not only against a    *)
(* failure envelope.                                                        *)
shouldRotateOnAnyText(p, status, body) ==
  \/ shouldRotateByStatusOnly(p, status, body)
  \/ body \in rejectDenylist \cup {"note"}

shouldRotate(p, status, body) ==
  CASE p = "tavily" -> status \in {401, 429, 432, 433}
    [] p \in {"apify", "exa", "marketaux"} -> status \in {401, 402, 429}
    [] p = "fmp" ->
         /\ status \in {401, 402, 429}
         /\ ~(status = 402 /\ fmpIsRestrictedEndpoint(body))
    [] p = "alphavantage" ->
         \/ status = 200 /\ alphaVantageIsExhausted(body)
         \/ status = 401
    [] p = "firecrawl" ->
         \/ status \in {401, 402, 429}
         \/ firecrawlFailure(status, body) /\ body \in rejectDenylist

(* Fault: every profile treats its 429 as the end of the key's credits.     *)
isCreditExhaustedOn429(p, status, body) == status \in {402, 429, 432, 433}

isCreditExhausted(p, status, body) ==
  \/ p = "tavily" /\ status \in {432, 433}
  \/ p \in {"apify", "exa", "marketaux", "firecrawl"} /\ status = 402
  \/ p = "fmp" /\ status = 429
  \/ p = "alphavantage" /\ status = 200 /\ alphaVantageIsExhausted(body)
  \/ /\ p = "firecrawl" /\ status # 429
     /\ firecrawlFailure(status, body)
     /\ body \in creditExhaustedPattern

(* Does the profile have a balance endpoint?                                *)
hasUsage(p) == p \in {"firecrawl", "tavily", "apify"}

(* The verdict of one rotation attempt, in the order serveOnce decides it:  *)
(* an over-cap body first (tryKey looks at its size before its status), a   *)
(* transient status (retried until the budget is spent), a rejection, and   *)
(* otherwise success.                                                       *)
classify(p, status, body, overCap) ==
  IF overCap THEN "capped"
  ELSE IF shouldRetry(status) THEN "netErr"
  ELSE IF shouldRotate(p, status, body) THEN "rotate"
  ELSE "ok"

(* Is the answer free of charge?  FMP refuses a restricted endpoint before  *)
(* it consumes quota.                                                       *)
planBlocked(p, status, body) ==
  p = "fmp" /\ status = 402 /\ fmpIsRestrictedEndpoint(body)
=============================================================================
