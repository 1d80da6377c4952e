------------------------------- MODULE Gateway -------------------------------
(***************************************************************************)
(* A process from its environment to the fate of one request: start-up,    *)
(* routing, one attempt on a key, and what follows from its verdict: the   *)
(* key is disabled until its reset, or the answer, its pagination links    *)
(* rewritten, goes to the client.  Which key is tried, and the attempts on *)
(* other keys, are Rotator's.                                              *)
(***************************************************************************)
EXTENDS TryKey, UsageFetch, Routing, ResetDate

CONSTANTS
  Envs,       \* environments the process may be started with
  Segments,   \* what a path or a route prefix may consist of
  Paths,      \* paths a client may ask for
  Followed,   \* bound: the <<environment, path>> whose attempt is followed
  Answered,   \* bound: the <<environment, path, status>> handed on
  Warmed,     \* bound: the <<environment, profile>> whose warm-up is followed
  Instants,   \* when the answer may arrive
  PeriodEnds, \* how far away the provider may say the billing period ends
  Links,      \* strings a Firecrawl response may contain
  Hosts       \* Host headers a client may send; Garbage when it sends none

(* What strconv makes of a setting that is meant to be a number.            *)
Numbers == Int \cup {Unset, Garbage}

ASSUME GatewayAssumption ==
  \A e \in Envs :
    /\ \A p \in Profiles, name \in {"API_KEYS", "LOW", "STOP"} :
         e[<<p, name>>] \in Numbers
    /\ \A p \in Finance \cup {"exa"} : e[<<p, "BUDGET">>] \in Numbers
    /\ \A name \in {"MAX_PASSES", "403_RETRIES", "MAX_CONCURRENT_PER_KEY",
                    "CREDIT_RESET_DAY"} :
         e[<<"firecrawl", name>>] \in Numbers
    /\ e[<<"apify", "FREE_CREDIT_USD">>] \in Numbers
    /\ \A p \in Profiles :
         \/ e[<<p, "ROUTE_PREFIX">>] \in {Unset, Garbage}
         \/ e[<<p, "ROUTE_PREFIX">>] \in Seq(Segments)
ASSUME PathsAssumption == Profiles \subseteq Segments /\ Paths \subseteq Seq(Segments)
ASSUME InstantsAssumption ==
  /\ Instants \subseteq Nat /\ PeriodEnds \subseteq Int
  /\ \A t \in Instants : covered(t)

(* Upstream's own paths begin with the version of its API, never with the   *)
(* name of a profile (README "Run", "Endpoints").                           *)
ASSUME LinksAssumption ==
  /\ Links \subseteq [name : STRING, host : STRING, path : Seq(Segments)]
  /\ \A link \in Links : link.host = "upstream" =>
       link.path # <<>> /\ Head(link.path) \notin Profiles

VARIABLES
  env,           \* the environment
  server,        \* "starting", "up" or "refused"
  path,          \* what the client asked for
  route,         \* the profile it was routed to, and the path upstream gets
  judged,        \* has the verdict been acted on?
  now,           \* when, if it disabled the key
  named,         \* the end of the billing period a fetch named then
  disabledUntil, \* until when
  page           \* a string of the response: as upstream gave it, as handed on,
                 \* in JSON or not, and the base its rewriting had

requestVars == <<path, route, judged, now, named, disabledUntil, page>>
vars == <<env, server, requestVars, tryVars, fetchVars>>

NoPath == <<>>
NoTime == -1
NoLink == [name |-> "none", host |-> "none", path |-> NoPath]
NoPage == [given |-> NoLink, handed |-> NoLink, json |-> FALSE, base |-> Garbage]

profiles == buildProfiles(env)

Init ==
  /\ env \in Envs
  /\ server = "starting"
  /\ path = NoPath /\ route = NoRoute
  /\ judged = FALSE
  /\ now = NoTime /\ named = NoEnd /\ disabledUntil = NoTime
  /\ page = NoPage
  /\ TryInit /\ FetchInit

(* buildServer; an error ends the process.                                  *)
Boot ==
  /\ server = "starting"
  /\ server' = IF LoadConfig(env) THEN "up" ELSE "refused"
  /\ UNCHANGED <<env, requestVars, tryVars, fetchVars>>

(* The first lines of ServeHTTP; a request without a profile gets a 404.    *)
Route ==
  /\ server = "up" /\ path = NoPath
  /\ \E asked \in Paths :
       /\ path' = asked
       /\ route' = matchProfile(profiles, asked, legacyFallback(env))
  /\ UNCHANGED <<env, server, judged, now, named, disabledUntil, page, tryVars,
                 fetchVars>>

Attempt ==
  /\ route # NoRoute /\ <<env, path>> \in Followed
  /\ Begin(route.profile, profiles[route.profile].max403)
  /\ UNCHANGED <<env, server, requestVars, fetchVars>>

TryOn == TryStep /\ UNCHANGED <<env, server, requestVars, fetchVars>>
ClientLeaves == Leave /\ UNCHANGED <<env, server, requestVars, fetchVars>>

(* The warm-up asks for the balance of a key of each profile; Apify's       *)
(* answer is read with the free credit of the configuration.                *)
WarmUp ==
  /\ server = "up"
  /\ \E p \in DOMAIN profiles :
       /\ <<env, p>> \in Warmed
       /\ BeginFetch(p, number(env, <<"apify", "FREE_CREDIT_USD">>, 0))
  /\ UNCHANGED <<env, server, requestVars, tryVars>>

FetchOn == FetchOnce /\ UNCHANGED <<env, server, requestVars, tryVars>>

exhausted ==
  /\ outcome.kind = "rotate"
  /\ isCreditExhausted(profile, outcome.status, outcome.body)

(* A rejection that says the credits are gone disables the key, until the   *)
(* period end that a fetch may name, where there is one to ask for, or the  *)
(* fallback.                                                                *)
DisableUntilReset ==
  /\ stage = "done" /\ ~judged /\ exhausted
  /\ judged' = TRUE
  /\ \E t \in Instants :
       \E ahead \in IF hasPeriodEnd(profile) THEN PeriodEnds \cup {NoEnd} ELSE {NoEnd} :
         /\ now' = t
         /\ named' = IF ahead = NoEnd THEN NoEnd ELSE t + ahead
         /\ disabledUntil' = resetOf(profile, named', t, resetDay(env))
  /\ UNCHANGED <<env, server, path, route, page, tryVars, fetchVars>>

(* Any other verdict leaves the key in service.                             *)
KeepInService ==
  /\ stage = "done" /\ ~judged /\ ~exhausted
  /\ judged' = TRUE
  /\ UNCHANGED <<env, server, path, route, now, named, disabledUntil, page,
                 tryVars, fetchVars>>

(* A response within the cap, a success or the last of the request, goes to *)
(* the client, Firecrawl's with its links rewritten when it says it is JSON.*)
HandOn ==
  /\ judged /\ page = NoPage
  /\ profile = "firecrawl" /\ <<env, path, outcome.status>> \in Answered
  /\ outcome.kind # "capped" /\ outcome.status # NoStatus
  /\ \E link \in Links, host \in Hosts, json \in BOOLEAN :
       LET base == proxyBase(env, host) IN
         page' = [given |-> link,
                  handed |-> IF json THEN rewriteNext(link, base) ELSE link,
                  json |-> json, base |-> base]
  /\ UNCHANGED <<env, server, path, route, judged, now, named, disabledUntil,
                 tryVars, fetchVars>>

Next ==
  \/ Boot \/ Route \/ Attempt \/ TryOn \/ ClientLeaves
  \/ WarmUp \/ FetchOn
  \/ DisableUntilReset \/ KeepInService \/ HandOn

Spec == Init /\ [][Next]_vars

(* Every HTTP client has a Timeout and every pause a timer.                 *)
FairSpec == Spec /\ WF_vars(TryOn)

-----------------------------------------------------------------------------
(* Start-up.                                                                *)

(* A configuration that is accepted keeps what the pools and the handler    *)
(* are modelled under, for every profile, present or not: a key to select,  *)
(* a pass to make, a stop threshold of at least zero and at most the low    *)
(* one; and a daily budget that was set explicitly lets a key serve at all  *)
(* (config.go:198-373, 521-554, profile.go:61-222).                         *)
AcceptedConfigServes ==
  server = "up" =>
    /\ \A p \in Profiles : 0 <= stop(env, p) /\ stop(env, p) <= low(env, p)
    /\ \A p \in DOMAIN profiles :
         /\ profiles[p].keys > 0 /\ profiles[p].max403 >= 0
         /\ profiles[p].maxConcurrent >= 0 /\ profiles[p].seed > 0
         /\ p \in Finance /\ isSet(env, <<p, "BUDGET">>)
              => profiles[p].stop <= profiles[p].seed
    /\ "firecrawl" \in DOMAIN profiles
    /\ number(env, <<"firecrawl", "MAX_PASSES">>, 2) > 0

-----------------------------------------------------------------------------
(* Routing.                                                                 *)

begins(pre, full) ==
  /\ Len(pre) <= Len(full)
  /\ \A i \in 1..Len(pre) : pre[i] = full[i]

(* A path under the prefix of one profile alone goes to that profile and    *)
(* upstream gets exactly the rest of it; a path under nobody's prefix       *)
(* reaches Firecrawl whole, or nobody once the legacy fallback is off       *)
(* ("segment boundary", profile.go:395-437, README "Run").                  *)
OwnPrefixReachesProfile ==
  path # NoPath =>
    LET owners == {p \in DOMAIN profiles : begins(profiles[p].prefix, path)} IN
      /\ owners = {} =>
           route = IF legacyFallback(env)
                   THEN [profile |-> "firecrawl", path |-> path] ELSE NoRoute
      /\ \A p \in Profiles :
           owners = {p} =>
             /\ route.profile = p
             /\ \/ profiles[p].prefix \o route.path = path
                \/ profiles[p].prefix = path /\ route.path = <<"">>

(* Pagination stays with the proxy: the link to the next page of a JSON     *)
(* answer points to the host the proxy is known by, if it is known by any,  *)
(* and every other link is handed on as it was.  Under the default prefixes *)
(* the client that follows it gets to Firecrawl and to the path upstream    *)
(* meant, but nowhere once the legacy fallback is off (README "Rotation &   *)
(* retry behavior", rewrite.go:9-79, proxy.go:305-316).                     *)
NextComesBack ==
  page # NoPage =>
    IF /\ page.given.name = "next" /\ page.given.host = "upstream"
       /\ page.json /\ page.base # Garbage
    THEN /\ page.handed.host = page.base
         /\ (\A p \in Profiles : ~isSet(env, <<p, "ROUTE_PREFIX">>)) =>
              matchProfile(profiles, page.handed.path, legacyFallback(env))
                = IF legacyFallback(env)
                  THEN [profile |-> "firecrawl", path |-> page.given.path]
                  ELSE NoRoute
    ELSE page.handed = page.given

-----------------------------------------------------------------------------
(* The verdict.                                                             *)

disables == now # NoTime

(* The two tables, which key responses rotate (shouldRotate) and which      *)
(* disable (isCreditExhausted), are kept apart in the code and only a       *)
(* rotation consults the second: whatever the retries before it, an         *)
(* exhaustion that is neither transient nor over the cap disables the key   *)
(* (profile.go:236-315, 354-394, proxy.go:246-254).                         *)
ExhaustionIsActedOn ==
  (judged /\ isCreditExhausted(profile, outcome.status, outcome.body))
  => (disables \/ outcome.kind \in {"netErr", "capped"})

(* A response below 400 that is not a success:false envelope is served,     *)
(* whatever words its body quotes; Alpha Vantage's rate-limit note is the   *)
(* one exception (profile.go:225-227, README "Rotation & retry").           *)
SuccessNeverRotates ==
  (/\ stage = "done" /\ outcome.status \in 1..399
   /\ ~firecrawlFailure(outcome.status, outcome.body)
   /\ ~(profile = "alphavantage" /\ alphaVantageIsExhausted(outcome.body)))
  => outcome.kind \in {"ok", "capped"}

(* A rate limit, an invalid key, an edge block, a server error or no answer *)
(* at all costs a key its turn and nothing more, however often it was       *)
(* retried (keys.go:41-43, 409, profile.go:347-353, 367-372).  Two          *)
(* exceptions: FMP's 429 is its daily cap; and a Firecrawl 401 whose body   *)
(* has the words of an exhaustion disables the key, against those comments  *)
(* (profile.go:390-391; see AuthNeverDisables).                             *)
TransientNeverDisables ==
  (/\ outcome.status \in {NoStatus, 401, 403, 408, 429, 500}
   /\ ~(profile = "fmp" /\ outcome.status = 429)
   /\ ~(profile = "firecrawl" /\ outcome.status = 401
         /\ outcome.body \in creditExhaustedPattern))
  => ~disables

-----------------------------------------------------------------------------
(* The reset.                                                               *)

(* A disabled key is never disabled for longer than a year, nor until a     *)
(* time already past, whatever period end a provider claims                 *)
(* (creditusage.go:433-443).                                                *)
ResetWithinAYear ==
  disables =>
    now <= disabledUntil /\ disabledUntil <= now + midnight(366)

(* Where no plausible period end is named, because the profile has none or  *)
(* its fetch failed, the key comes back at a midnight to come: on the       *)
(* configured day of the month, or, where a month is too short for it, on   *)
(* one of the first days of the next month; and no such day passes before   *)
(* that, across short months and the turn of the year (config.go:746-757).  *)
FallbackMeetsTheDay ==
  disables /\ ~(hasPeriodEnd(profile) /\ plausible(named, now)) =>
    LET until == dayAt(disabledUntil) IN
      /\ now < disabledUntil /\ disabledUntil = midnight(until)
      /\ \/ dayOfMonth(until) = resetDay(env)
         \/ dayOfMonth(until) <= resetDay(env) - 28
      /\ \A day \in (dayAt(now) + 1)..(until - 1) : dayOfMonth(day) # resetDay(env)
=============================================================================
