---------------------------- MODULE GatewayProofs ----------------------------
(***************************************************************************)
(* From the environment to a verdict, for every environment, every path    *)
(* and every reply: what an accepted configuration guarantees, and what    *)
(* the tables of verdicts may and may not do to a key.                     *)
(***************************************************************************)
EXTENDS Gateway, TryKeyProofs, UsageFetchProofs, CalendarProofs

(* An up server has an accepted configuration, and only a routed request is *)
(* tried, on a profile that is there.                                       *)
ServerInv ==
  /\ env \in Envs
  /\ server = "up" => LoadConfig(env)
  /\ route # NoRoute => server = "up" /\ route.profile \in DOMAIN profiles

-----------------------------------------------------------------------------
(* Between them the loaders check every profile.                            *)
LEMMA AcceptedProfiles ==
  ASSUME NEW e, LoadConfig(e)
  PROVE  /\ \A p \in Profiles : loads(e, p)
         /\ exaBudgetOK(e)
         /\ \A p \in Finance : financeBudgetOK(e, p)
BY DEF LoadConfig, loadTavilyConfig, loadApifyConfig, loadExaConfig,
       loadFMPConfig, loadAlphaVantageConfig, loadMarketauxConfig,
       Profiles, Finance, isDailyCappedFinance

(* What an accepted configuration says of the numbers it uses.              *)
LEMMA AcceptedNumbers ==
  ASSUME NEW e \in Envs, LoadConfig(e)
  PROVE  /\ \A p \in Profiles : retries403(e, p) \in Nat
         /\ number(e, <<"firecrawl", "MAX_CONCURRENT_PER_KEY">>, 1) \in Nat
         /\ number(e, <<"firecrawl", "MAX_PASSES">>, 2) \in Nat \ {0}
<1>1. \A name \in {"MAX_PASSES", "403_RETRIES", "MAX_CONCURRENT_PER_KEY"} :
        e[<<"firecrawl", name>>] \in Int \cup {Unset, Garbage}
  BY GatewayAssumption DEF GatewayAssumption, Numbers
<1>2. /\ parses(e, <<"firecrawl", "MAX_PASSES">>, 1)
      /\ parses(e, <<"firecrawl", "403_RETRIES">>, 0)
      /\ parses(e, <<"firecrawl", "MAX_CONCURRENT_PER_KEY">>, 0)
  BY DEF LoadConfig
<1>3. QED
  BY <1>1, <1>2 DEF parses, number, isSet, retries403

(* The thresholds of an accepted configuration, of every profile, present   *)
(* or not.                                                                  *)
LEMMA AcceptedThresholds ==
  ASSUME NEW e \in Envs, LoadConfig(e), NEW p \in Profiles
  PROVE  0 <= stop(e, p) /\ stop(e, p) <= low(e, p)
<1>1. thresholdsOK(e, p) /\ thresholdsOK(e, "firecrawl")
  BY AcceptedProfiles DEF loads, Profiles
<1>2. stop(e, p) <= low(e, p)
  BY <1>1 DEF thresholdsOK
<1>3. \A q \in {p, "firecrawl"} :
        /\ e[<<q, "STOP">>] \in Int \cup {Unset, Garbage}
        /\ e[<<q, "STOP">>] # Unset => e[<<q, "STOP">>] # Garbage /\ e[<<q, "STOP">>] >= 0
  BY <1>1, GatewayAssumption
     DEF GatewayAssumption, Numbers, thresholdsOK, parses, isSet, Profiles
<1>4. \A q \in Profiles : DefaultStop[q] \in Nat
  BY DEF DefaultStop, Profiles
<1>5. \A q \in {p, "firecrawl"}, d \in Nat : number(e, <<q, "STOP">>, d) \in Nat
  BY <1>3 DEF number, isSet
<1>6. \A d \in Nat : dollars(e, <<p, "STOP">>, d) \in Nat
  <2>1. \A x \in Nat : (x + 5) \div 10 \in Nat
    OBVIOUS
  <2>2. QED
    BY <1>3, <2>1 DEF dollars, isSet
<1>7. stop(e, p) \in Nat
  <2>1. CASE p = "tavily"
    BY <1>4, <1>5, <2>1 DEF stop, threshold, Profiles
  <2>2. CASE p \in {"apify", "exa"}
    BY <1>4, <1>6, <2>2 DEF stop, threshold
  <2>3. CASE p \notin {"tavily", "apify", "exa"}
    BY <1>4, <1>5, <2>3 DEF stop, threshold
  <2>4. QED
    BY <2>1, <2>2, <2>3
<1>8. QED
  BY <1>2, <1>7

(* ... and what its pools are seeded with.                                  *)
LEMMA AcceptedSeeds ==
  ASSUME NEW e \in Envs, LoadConfig(e), NEW p \in Profiles, ~hasUsage(p)
  PROVE  /\ budgetOf(e, p) > 0
         /\ p \in Finance /\ isSet(e, <<p, "BUDGET">>) => stop(e, p) <= budgetOf(e, p)
<1>1. p = "exa" \/ p \in Finance
  BY DEF hasUsage, Profiles, Finance, isDailyCappedFinance
<1>2. CASE p = "exa"
  <2>1. budgetOf(e, p) > 0
    BY <1>2, AcceptedProfiles DEF exaBudgetOK
  <2>2. p \notin Finance
    BY <1>2 DEF Finance, isDailyCappedFinance
  <2>3. QED
    BY <2>1, <2>2
<1>3. CASE p \in Finance
  <2>1. financeBudgetOK(e, p) /\ p # "exa"
    BY <1>3, AcceptedProfiles DEF Finance, isDailyCappedFinance
  <2>2. e[<<p, "BUDGET">>] \in Int \cup {Unset, Garbage}
    BY <1>3, GatewayAssumption DEF GatewayAssumption, Numbers
  <2>3. DefaultBudget[p] \in Nat \ {0}
    BY <1>3 DEF DefaultBudget, Finance, isDailyCappedFinance
  <2>4. budgetOf(e, p) = number(e, <<p, "BUDGET">>, DefaultBudget[p])
    BY <2>1 DEF budgetOf
  <2>5. QED
    BY <2>1, <2>2, <2>3, <2>4 DEF financeBudgetOK, parses, number, isSet
<1>4. QED
  BY <1>1, <1>2, <1>3

-----------------------------------------------------------------------------
(* A route leads to a profile that is there.                                *)
LEMMA RouteIsBuilt ==
  ASSUME NEW e \in Envs, LoadConfig(e), NEW asked, NEW legacy \in BOOLEAN
  PROVE  LET r == matchProfile(buildProfiles(e), asked, legacy) IN
           r = NoRoute \/ r.profile \in DOMAIN buildProfiles(e)
<1> DEFINE built == buildProfiles(e)
           claimants == {p \in DOMAIN built : claims(built[p].prefix, asked)}
           first == CHOOSE p \in claimants :
                      \A q \in claimants : BuildOrder[p] <= BuildOrder[q]
<1>1. DOMAIN built \subseteq Profiles /\ "firecrawl" \in DOMAIN built
  BY DEF buildProfiles, LoadConfig, Profiles
<1>2. CASE claimants # {}
  <2> DEFINE ranks == {BuildOrder[p] : p \in claimants}
  <2>1. \A p \in Profiles : BuildOrder[p] \in Nat
    BY DEF BuildOrder, Profiles
  <2>2. ranks \in SUBSET Nat /\ ranks # {}
    BY <1>1, <1>2, <2>1
  <2> HIDE DEF ranks
  <2>3. PICK least \in ranks : \A n \in ranks : least <= n
    BY <2>2, LeastRank
  <2>4. \E p \in claimants : \A q \in claimants : BuildOrder[p] <= BuildOrder[q]
    <3>1. PICK p \in claimants : least = BuildOrder[p]
      BY <2>3 DEF ranks
    <3>2. \A q \in claimants : BuildOrder[q] \in ranks
      BY DEF ranks
    <3>3. QED
      BY <2>3, <3>1, <3>2
  <2>5. first \in claimants
    BY <2>4
  <2>6. matchProfile(built, asked, legacy).profile = first
    BY <1>2 DEF matchProfile
  <2>7. QED
    BY <2>5, <2>6
<1>3. CASE claimants = {}
  BY <1>1, <1>3 DEF matchProfile
<1>4. QED
  BY <1>2, <1>3

LEMMA ServerInvKept == Init /\ [][Next]_vars => []ServerInv
<1>1. Init => ServerInv
  BY DEF Init, ServerInv
<1>2. ServerInv /\ [Next]_vars => ServerInv'
  <2> SUFFICES ASSUME ServerInv, [Next]_vars
               PROVE  ServerInv'
    OBVIOUS
  <2>1. env' = env /\ profiles' = profiles
    BY DEF Next, Boot, Route, Attempt, TryOn, ClientLeaves, WarmUp, FetchOn,
           DisableUntilReset, KeepInService, HandOn, vars, profiles
  <2>2. CASE Boot
    BY <2>1, <2>2 DEF Boot, requestVars, ServerInv
  <2>3. CASE Route
    <3>1. legacyFallback(env) \in BOOLEAN
      BY DEF legacyFallback
    <3>2. PICK asked : route' = matchProfile(profiles, asked, legacyFallback(env))
      BY <2>3 DEF Route
    <3>3. route' = NoRoute \/ route'.profile \in DOMAIN profiles
      BY <2>3, <3>1, <3>2, RouteIsBuilt DEF Route, ServerInv, profiles
    <3>4. QED
      BY <2>1, <2>3, <3>3 DEF Route, ServerInv
  <2>4. CASE UNCHANGED <<env, server, route>>
    BY <2>1, <2>4 DEF ServerInv
  <2>5. QED
    BY <2>2, <2>3, <2>4
       DEF Next, Attempt, TryOn, ClientLeaves, WarmUp, FetchOn,
           DisableUntilReset, KeepInService, HandOn, requestVars, vars
<1>3. QED
  BY <1>1, <1>2, PTL

(* Whatever the environment, a process that starts has, for every profile,  *)
(* what the pools and the handler are modelled under (config.go:198-373,    *)
(* 521-554, profile.go:61-222).                                             *)
THEOREM ConfigurationServes == Spec => []AcceptedConfigServes
<1>1. ServerInv => AcceptedConfigServes
  <2> SUFFICES ASSUME ServerInv, server = "up" PROVE AcceptedConfigServes
    BY DEF AcceptedConfigServes
  <2>1. env \in Envs /\ LoadConfig(env)
    BY DEF ServerInv
  <2>2. \A p \in Profiles : 0 <= stop(env, p) /\ stop(env, p) <= low(env, p)
    BY <2>1, AcceptedThresholds
  <2>3. ASSUME NEW p \in DOMAIN profiles
        PROVE  /\ profiles[p].keys > 0 /\ profiles[p].max403 >= 0
               /\ profiles[p].maxConcurrent >= 0 /\ profiles[p].seed > 0
               /\ p \in Finance /\ isSet(env, <<p, "BUDGET">>)
                    => profiles[p].stop <= profiles[p].seed
    <3>1. p \in Profiles /\ keyCount(env, p) > 0
      BY <2>3 DEF profiles, buildProfiles
    <3>2. /\ profiles[p].keys = keyCount(env, p)
          /\ profiles[p].stop = stop(env, p)
          /\ profiles[p].seed = IF hasUsage(p) THEN Plenty ELSE budgetOf(env, p)
          /\ profiles[p].max403 = retries403(env, p)
          /\ profiles[p].maxConcurrent =
               IF p # "firecrawl" THEN 0
               ELSE number(env, <<p, "MAX_CONCURRENT_PER_KEY">>, 1)
      BY <3>1 DEF profiles, buildProfiles
    <3>3. p \in Finance => ~hasUsage(p)
      BY DEF Finance, isDailyCappedFinance, hasUsage
    <3>4. QED
      BY <2>1, <3>1, <3>2, <3>3, AcceptedNumbers, AcceptedSeeds DEF Plenty
  <2>4. "firecrawl" \in DOMAIN profiles
    BY <2>1 DEF LoadConfig, profiles, buildProfiles, Profiles
  <2>5. QED
    BY <2>1, <2>2, <2>3, <2>4, AcceptedNumbers DEF AcceptedConfigServes
<1>2. QED
  BY <1>1, ServerInvKept, PTL DEF Spec

-----------------------------------------------------------------------------
(* The warm-up's fetch is a fetch of UsageFetch: on a profile that was      *)
(* built, with a free credit that is a number, and undisturbed by whatever  *)
(* else the process does (refresh.go:133-151, creditusage.go:150-176).      *)
THEOREM GatewayImplementsFetch == Spec => FetchSpec
<1>1. Init => FetchInit
  BY DEF Init
<1>2. ServerInv /\ [Next]_vars => [FetchNext]_fetchVars
  <2> SUFFICES ASSUME ServerInv, [Next]_vars
               PROVE  [FetchNext]_fetchVars
    OBVIOUS
  <2>1. CASE WarmUp
    <3>1. PICK p \in DOMAIN profiles :
            BeginFetch(p, number(env, <<"apify", "FREE_CREDIT_USD">>, 0))
      BY <2>1 DEF WarmUp
    <3>2. p \in Profiles
      BY DEF profiles, buildProfiles
    <3>3. env \in Envs /\ loadApifyConfig(env)
      BY <2>1 DEF WarmUp, ServerInv, LoadConfig
    <3>4. number(env, <<"apify", "FREE_CREDIT_USD">>, 0) \in Nat
      BY <3>3, GatewayAssumption
         DEF GatewayAssumption, Numbers, loadApifyConfig, parses, number, isSet
    <3>5. QED
      BY <3>1, <3>2, <3>4 DEF FetchNext
  <2>2. CASE FetchOn
    BY <2>2 DEF FetchOn, FetchNext
  <2>3. CASE \/ Boot \/ Route \/ Attempt \/ TryOn \/ ClientLeaves
             \/ DisableUntilReset \/ KeepInService \/ HandOn \/ UNCHANGED vars
    BY <2>3 DEF Boot, Route, Attempt, TryOn, ClientLeaves, DisableUntilReset,
                KeepInService, HandOn, vars
  <2>4. QED
    BY <2>1, <2>2, <2>3 DEF Next
<1>3. QED
  BY <1>1, <1>2, ServerInvKept, PTL DEF Spec, FetchSpec

(* A fetch of the running process gives up on a refusal, and what it records*)
(* fits the account's limits (creditusage.go:26-30, 91-106, 371-400).       *)
THEOREM GatewayFetchesBehave ==
  Spec => []RefusedFetchIsNotRepeated /\ []BalanceFitsEveryLimit
BY GatewayImplementsFetch, FetchGivesUp, BalanceFits, PTL

(* The attempt of a routed request is an attempt of TryKey, disconnects     *)
(* included, with the 403 budget its configuration gives it                 *)
(* (profile.go:61-110, proxy.go:392-399).                                   *)
THEOREM GatewayImplementsAttempt == Spec => TrySpec
<1>1. Init => TryInit
  BY DEF Init
<1>2. ServerInv /\ [Next]_vars => [TryNext]_tryVars
  <2> SUFFICES ASSUME ServerInv, [Next]_vars
               PROVE  [TryNext]_tryVars
    OBVIOUS
  <2>1. CASE Attempt
    <3>1. route.profile \in DOMAIN profiles /\ LoadConfig(env) /\ env \in Envs
      BY <2>1 DEF Attempt, ServerInv
    <3>2. /\ route.profile \in Profiles
          /\ profiles[route.profile].max403 = retries403(env, route.profile)
      BY <3>1 DEF profiles, buildProfiles
    <3>3. profiles[route.profile].max403 \in Nat
      BY <3>1, <3>2, AcceptedNumbers
    <3>4. QED
      BY <2>1, <3>2, <3>3 DEF Attempt, TryNext
  <2>2. CASE TryOn \/ ClientLeaves
    BY <2>2 DEF TryOn, ClientLeaves, TryNext
  <2>3. CASE \/ Boot \/ Route \/ WarmUp \/ FetchOn
             \/ DisableUntilReset \/ KeepInService \/ HandOn \/ UNCHANGED vars
    BY <2>3 DEF Boot, Route, WarmUp, FetchOn, DisableUntilReset, KeepInService, HandOn, vars
  <2>4. QED
    BY <2>1, <2>2, <2>3 DEF Next
<1>3. QED
  BY <1>1, <1>2, ServerInvKept, PTL DEF Spec, TrySpec

(* What holds of an attempt holds of the gateway's: its 403 budget, silence *)
(* once the client has left, and a single verdict (proxy.go:331-432).       *)
THEOREM GatewayAttemptsBehave ==
  Spec => []EdgeBlockIsNotHammered /\ NobodyCallsForTheGone /\ EndsAsOneVerdict
BY GatewayImplementsAttempt, EdgeBlockBounded, GoneIsNotCalledFor,
   AttemptImplementsOne, PTL

-----------------------------------------------------------------------------
(* The verdict of an attempt, and what was made of it.                      *)

VerdictInv ==
  stage = "done" =>
    \/ outcome.kind = "capped"
    \/ outcome.kind = classify(profile, outcome.status, outcome.body, FALSE)

JudgedInv ==
  /\ judged => stage = "done"
  /\ disables <=> judged /\ exhausted

LEMMA VerdictsKept == Spec => [](TryInv /\ VerdictInv /\ JudgedInv)
<1>1. Init => VerdictInv /\ JudgedInv
  <2> SUFFICES ASSUME Init PROVE VerdictInv /\ JudgedInv
    OBVIOUS
  <2>1. stage = "idle" /\ judged = FALSE /\ now = NoTime
    BY DEF Init, TryInit
  <2>2. QED
    BY <2>1 DEF VerdictInv, JudgedInv, disables, exhausted
<1>2. TryInv /\ VerdictInv /\ JudgedInv /\ [TryNext]_tryVars /\ [Next]_vars
        => VerdictInv' /\ JudgedInv'
  <2> SUFFICES ASSUME TryInv, VerdictInv, JudgedInv, [TryNext]_tryVars, [Next]_vars
               PROVE  VerdictInv' /\ JudgedInv'
    OBVIOUS
  <2> DEFINE Fields == <<outcome, stage, profile>>
  <2>1. ASSUME UNCHANGED tryVars
        PROVE  VerdictInv'
    BY <2>1 DEF tryVars, VerdictInv
  <2>2. ASSUME UNCHANGED <<judged, now>>, ~judged
        PROVE  JudgedInv'
    BY <2>2 DEF JudgedInv, disables, exhausted
  <2>3. CASE TryOn
    <3>1. stage # "done"
      BY <2>3 DEF TryOn, TryStep, Send, Receive, Wake, Abandon
    <3>2. UNCHANGED <<judged, now>> /\ ~judged
      BY <2>3, <3>1 DEF TryOn, requestVars, JudgedInv
    <3>3. ASSUME NEW m \in Replies, UNCHANGED profile, stage' = "done",
                 outcome' = [status |-> m.status, body |-> m.body,
                             kind |-> classify(profile, m.status, m.body, m.over)]
          PROVE  VerdictInv'
      <4>1. m.over \in BOOLEAN
        BY ReplyFields
      <4>2. m.over => outcome'.kind = "capped"
        BY <3>3 DEF classify
      <4>3. ~m.over => outcome'.kind = classify(profile, m.status, m.body, FALSE)
        BY <3>3 DEF classify
      <4>4. QED
        BY <3>3, <4>1, <4>2, <4>3 DEF VerdictInv
    <3>4. CASE Send \/ Receive
      <4>1. UNCHANGED profile
        BY <3>4 DEF Send, Receive
      <4>2. stage' = "flight" \/ \E m \in Replies : settle(m)
        BY <3>4, ReplyFields DEF Send, Receive
      <4>3. VerdictInv'
        <5>1. CASE stage' = "flight"
          BY <5>1 DEF VerdictInv
        <5>2. ASSUME NEW m \in Replies, settle(m)
              PROVE  VerdictInv'
          BY <3>3, <4>1, <5>2, SettleCases DEF VerdictInv
        <5>3. QED
          BY <4>2, <5>1, <5>2
      <4>4. QED
        BY <2>2, <3>2, <4>3
    <3>5. CASE Abandon
      <4>1. last \in Replies /\ UNCHANGED profile /\ stage' = "done"
        BY <3>5 DEF Abandon, end, TryInv, TryTypeOK
      <4>2. outcome' = [status |-> last.status, body |-> last.body,
                        kind |-> classify(profile, last.status, last.body, last.over)]
        BY <3>5 DEF Abandon, end, classify, TryInv, PauseInv
      <4>3. QED
        BY <2>2, <3>2, <3>3, <4>1, <4>2
    <3>6. CASE Wake
      BY <2>2, <3>2, <3>6 DEF Wake, VerdictInv
    <3>7. QED
      BY <2>3, <3>4, <3>5, <3>6 DEF TryOn, TryStep
  <2>4. CASE Attempt \/ ClientLeaves
    <3>1. UNCHANGED <<judged, now>> /\ stage # "done" /\ stage' # "done"
      BY <2>4 DEF Attempt, ClientLeaves, Begin, Leave, requestVars
    <3>2. ~judged
      BY <3>1 DEF JudgedInv
    <3>3. QED
      BY <2>2, <3>1, <3>2 DEF VerdictInv
  <2>5. CASE DisableUntilReset
    <3>1. UNCHANGED tryVars /\ judged' = TRUE /\ stage = "done" /\ exhausted
      BY <2>5 DEF DisableUntilReset
    <3>2. now' # NoTime
      BY <2>5, InstantsAssumption DEF DisableUntilReset, InstantsAssumption, NoTime
    <3>3. JudgedInv'
      BY <3>1, <3>2 DEF tryVars, JudgedInv, disables, exhausted
    <3>4. QED
      BY <2>1, <3>1, <3>3
  <2>6. CASE KeepInService
    <3>1. UNCHANGED <<tryVars, now>> /\ judged' = TRUE /\ stage = "done"
          /\ ~exhausted /\ ~judged
      BY <2>6 DEF KeepInService
    <3>2. JudgedInv'
      BY <3>1 DEF tryVars, JudgedInv, disables, exhausted
    <3>3. QED
      BY <2>1, <3>1, <3>2
  <2>7. CASE Boot \/ Route \/ WarmUp \/ FetchOn \/ HandOn \/ UNCHANGED vars
    <3>1. UNCHANGED <<tryVars, judged, now>>
      BY <2>7 DEF Boot, Route, WarmUp, FetchOn, HandOn, vars, requestVars
    <3>2. JudgedInv'
      BY <3>1 DEF tryVars, JudgedInv, disables, exhausted
    <3>3. QED
      BY <2>1, <3>1, <3>2
  <2>8. QED
    BY <2>3, <2>4, <2>5, <2>6, <2>7 DEF Next
<1>3. QED
  BY <1>1, <1>2, AttemptInv, GatewayImplementsAttempt, PTL DEF Spec, TrySpec

-----------------------------------------------------------------------------
(* The tables of verdicts, for every status, whether listed or not.         *)

LEMMA ExhaustionRotates ==
  ASSUME NEW p \in Profiles, NEW status, NEW body, isCreditExhausted(p, status, body)
  PROVE  shouldRotate(p, status, body)
<1>1. creditExhaustedPattern \subseteq rejectDenylist
  BY DEF creditExhaustedPattern, rejectDenylist
<1>2. CASE p = "firecrawl"
  BY <1>1, <1>2 DEF isCreditExhausted, shouldRotate
<1>3. CASE p = "fmp"
  <2>1. status = 429
    BY <1>3 DEF isCreditExhausted
  <2>2. QED
    BY <1>3, <2>1 DEF shouldRotate
<1>4. CASE p = "tavily"
  <2>1. status \in {432, 433}
    BY <1>4 DEF isCreditExhausted
  <2>2. shouldRotate(p, status, body) <=> status \in {401, 429, 432, 433}
    BY <1>4 DEF shouldRotate
  <2>3. QED
    BY <2>1, <2>2
<1>5. CASE p = "alphavantage"
  <2>1. status = 200 /\ alphaVantageIsExhausted(body)
    BY <1>5 DEF isCreditExhausted
  <2>2. QED
    BY <1>5, <2>1 DEF shouldRotate
<1>6. CASE p \in {"apify", "exa", "marketaux"}
  <2>1. status = 402
    BY <1>6 DEF isCreditExhausted
  <2>2. p # "tavily"
    BY <1>6
  <2>3. QED
    BY <1>6, <2>1, <2>2 DEF shouldRotate
<1>7. QED
  BY <1>2, <1>3, <1>4, <1>5, <1>6 DEF Profiles

LEMMA RotationNeedsCause ==
  ASSUME NEW p \in Profiles, NEW status \in 1..399, NEW body,
         ~firecrawlFailure(status, body),
         ~(p = "alphavantage" /\ alphaVantageIsExhausted(body))
  PROVE  ~shouldRotate(p, status, body) /\ ~shouldRetry(status)
<1>1. /\ status \notin {401, 402, 429} /\ status \notin {401, 429, 432, 433}
      /\ status # 401 /\ ~shouldRetry(status)
  BY DEF shouldRetry, NoStatus
<1>2. CASE p = "firecrawl"
  BY <1>1, <1>2 DEF shouldRotate
<1>3. CASE p = "tavily"
  BY <1>1, <1>3 DEF shouldRotate
<1>4. CASE p = "alphavantage"
  BY <1>1, <1>4 DEF shouldRotate
<1>5. CASE p \in {"apify", "exa", "marketaux"}
  BY <1>1, <1>5 DEF shouldRotate
<1>6. CASE p = "fmp"
  BY <1>1, <1>6 DEF shouldRotate
<1>7. QED
  BY <1>1, <1>2, <1>3, <1>4, <1>5, <1>6 DEF Profiles

(* Neither a rate limit nor an invalid key is an exhaustion, but for FMP's  *)
(* daily cap and Firecrawl's words.                                         *)
LEMMA RefusalIsNoExhaustion ==
  ASSUME NEW p, NEW status \in {401, 429}, NEW body,
         ~(p = "fmp" /\ status = 429),
         ~(p = "firecrawl" /\ status = 401 /\ body \in creditExhaustedPattern)
  PROVE  ~isCreditExhausted(p, status, body)
BY DEF isCreditExhausted

(* No exhaustion falls between the two tables (profile.go:236-315, 354-394, *)
(* proxy.go:246-254).                                                       *)
THEOREM ExhaustionActedOn == Spec => []ExhaustionIsActedOn
<1>1. TryInv /\ VerdictInv /\ JudgedInv => ExhaustionIsActedOn
  <2> SUFFICES ASSUME TryInv, VerdictInv, JudgedInv, judged,
                      isCreditExhausted(profile, outcome.status, outcome.body),
                      outcome.kind \notin {"netErr", "capped"}
               PROVE  disables
    BY DEF ExhaustionIsActedOn
  <2>1. stage = "done" /\ profile \in Profiles
    BY DEF JudgedInv, TryInv, TryTypeOK, PhaseInv
  <2>2. shouldRotate(profile, outcome.status, outcome.body)
    BY <2>1, ExhaustionRotates
  <2>3. outcome.kind = classify(profile, outcome.status, outcome.body, FALSE)
    BY <2>1 DEF VerdictInv
  <2>4. QED
    BY <2>2, <2>3 DEF classify, JudgedInv, exhausted
<1>2. QED
  BY <1>1, VerdictsKept, PTL

(* A success is served, whatever words it quotes (profile.go:225-227).      *)
THEOREM SuccessServed == Spec => []SuccessNeverRotates
<1>1. TryInv /\ VerdictInv /\ JudgedInv => SuccessNeverRotates
  <2> SUFFICES ASSUME TryInv, VerdictInv, stage = "done", outcome.status \in 1..399,
                      ~firecrawlFailure(outcome.status, outcome.body),
                      ~(profile = "alphavantage" /\ alphaVantageIsExhausted(outcome.body))
               PROVE  outcome.kind \in {"ok", "capped"}
    BY DEF SuccessNeverRotates
  <2>1. profile \in Profiles
    BY DEF TryInv, TryTypeOK, PhaseInv
  <2>2. /\ ~shouldRotate(profile, outcome.status, outcome.body)
        /\ ~shouldRetry(outcome.status)
    BY <2>1, RotationNeedsCause
  <2>3. QED
    BY <2>2 DEF VerdictInv, classify
<1>2. QED
  BY <1>1, VerdictsKept, PTL

(* A transient refusal never disables a key, however often it was retried,  *)
(* and neither does an invalid key, with two exceptions: FMP's 429, and a   *)
(* Firecrawl 401 whose body has the words of an exhaustion (keys.go:41-43,  *)
(* profile.go:347-353, 367-372, 389-390).                                   *)
THEOREM TransientsSpareKeys == Spec => []TransientNeverDisables
<1>1. TryInv /\ VerdictInv /\ JudgedInv => TransientNeverDisables
  <2> SUFFICES ASSUME TryInv, VerdictInv, JudgedInv, disables,
                      outcome.status \in {NoStatus, 401, 403, 408, 429, 500},
                      ~(profile = "fmp" /\ outcome.status = 429),
                      ~(profile = "firecrawl" /\ outcome.status = 401
                         /\ outcome.body \in creditExhaustedPattern)
               PROVE  FALSE
    BY DEF TransientNeverDisables
  <2>1. /\ stage = "done" /\ outcome.kind = "rotate"
        /\ isCreditExhausted(profile, outcome.status, outcome.body)
    BY DEF JudgedInv, exhausted
  <2>2. ~shouldRetry(outcome.status)
    BY <2>1 DEF VerdictInv, classify
  <2>3. outcome.status \in {401, 429}
    BY <2>2 DEF shouldRetry
  <2>4. QED
    BY <2>1, <2>3, RefusalIsNoExhaustion
<1>2. QED
  BY <1>1, VerdictsKept, PTL

-----------------------------------------------------------------------------
(* Until when a key is disabled.                                            *)

LEMMA AcceptedResetDay ==
  ASSUME NEW e \in Envs, LoadConfig(e)
  PROVE  resetDay(e) \in 1..31
<1>1. e[<<"firecrawl", "CREDIT_RESET_DAY">>] \in Int \cup {Unset, Garbage}
  BY GatewayAssumption DEF GatewayAssumption, Numbers
<1>2. /\ parses(e, <<"firecrawl", "CREDIT_RESET_DAY">>, 1)
      /\ number(e, <<"firecrawl", "CREDIT_RESET_DAY">>, 1) <= 31
  BY DEF LoadConfig
<1>3. QED
  BY <1>1, <1>2 DEF parses, number, isSet, resetDay

(* Only a server that is up tries a key, and what it disables it disables   *)
(* until the reset of that attempt's profile.                               *)
ResetInv ==
  /\ stage # "idle" => server = "up"
  /\ disables =>
       /\ now \in Instants
       /\ named \in Int
       /\ disabledUntil = resetOf(profile, named, now, resetDay(env))

LEMMA ResetKept == Spec => []ResetInv
<1>1. Init => ResetInv
  <2> SUFFICES ASSUME Init PROVE ResetInv
    OBVIOUS
  <2>1. stage = "idle" /\ now = NoTime
    BY DEF Init, TryInit
  <2>2. QED
    BY <2>1 DEF ResetInv, disables
<1>2. ResetInv /\ ServerInv /\ JudgedInv /\ [Next]_vars => ResetInv'
  <2> SUFFICES ASSUME ResetInv, ServerInv, JudgedInv, [Next]_vars
               PROVE  ResetInv'
    OBVIOUS
  <2>1. env' = env
    BY DEF Next, Boot, Route, Attempt, TryOn, ClientLeaves, WarmUp, FetchOn,
           DisableUntilReset, KeepInService, HandOn, vars
  <2>2. disables => stage = "done"
    BY DEF JudgedInv
  <2>3. CASE DisableUntilReset
    <3>1. UNCHANGED <<stage, profile, server>>
      BY <2>3 DEF DisableUntilReset, tryVars
    <3>2. PICK t \in Instants, ahead \in PeriodEnds \cup {NoEnd} :
            /\ now' = t
            /\ named' = IF ahead = NoEnd THEN NoEnd ELSE t + ahead
            /\ disabledUntil' = resetOf(profile, named', t, resetDay(env))
      BY <2>3 DEF DisableUntilReset
    <3>3. named' \in Int
      BY <3>2, InstantsAssumption DEF InstantsAssumption, NoEnd
    <3>4. disabledUntil' = resetOf(profile', named', now', resetDay(env'))
      BY <2>1, <3>1, <3>2
    <3>5. QED
      BY <3>1, <3>2, <3>3, <3>4 DEF ResetInv
  <2>4. CASE Attempt \/ TryOn \/ ClientLeaves
    <3>1. stage # "done" /\ UNCHANGED <<server, now>>
      BY <2>4 DEF Attempt, TryOn, ClientLeaves, TryStep, Begin, Send, Receive, Wake,
                  Abandon, Leave, requestVars
    <3>2. server = "up"
      <4>1. CASE Attempt
        BY <4>1 DEF Attempt, ServerInv
      <4>2. CASE TryOn \/ ClientLeaves
        <5>1. stage # "idle"
          BY <4>2 DEF TryOn, ClientLeaves, TryStep, Send, Receive, Wake, Abandon, Leave
        <5>2. QED
          BY <5>1 DEF ResetInv
      <4>3. QED
        BY <2>4, <4>1, <4>2
    <3>3. ~disables /\ ~disables'
      BY <2>2, <3>1 DEF disables
    <3>4. QED
      BY <3>1, <3>2, <3>3 DEF ResetInv
  <2>5. CASE Boot
    <3>1. UNCHANGED <<stage, profile, now, named, disabledUntil>> /\ server # "up"
      BY <2>5 DEF Boot, requestVars, tryVars
    <3>2. QED
      BY <2>1, <3>1 DEF ResetInv, disables
  <2>6. CASE Route \/ WarmUp \/ FetchOn \/ KeepInService \/ HandOn \/ UNCHANGED vars
    <3>1. UNCHANGED <<stage, profile, server, now, named, disabledUntil>>
      BY <2>6 DEF Route, WarmUp, FetchOn, KeepInService, HandOn, requestVars,
                  tryVars, vars
    <3>2. QED
      BY <2>1, <3>1 DEF ResetInv, disables
  <2>7. QED
    BY <2>3, <2>4, <2>5, <2>6 DEF Next
<1>3. QED
  BY <1>1, <1>2, ServerInvKept, VerdictsKept, PTL DEF Spec

(* What the two theorems about a disabled key start from.                   *)
LEMMA DisabledFacts ==
  ASSUME ServerInv, JudgedInv, ResetInv, disables
  PROVE  /\ now \in Nat /\ covered(now) /\ resetDay(env) \in 1..31
         /\ named \in Int
         /\ disabledUntil = resetOf(profile, named, now, resetDay(env))
<1>1. server = "up"
  BY DEF JudgedInv, ResetInv
<1>2. resetDay(env) \in 1..31
  BY <1>1, AcceptedResetDay DEF ServerInv
<1>3. QED
  BY <1>2, InstantsAssumption DEF InstantsAssumption, ResetInv

(* A disabled key is due within a year and not before it was disabled,      *)
(* whatever period end the provider claims (creditusage.go:430-443).        *)
THEOREM ResetsAreNear == Spec => []ResetWithinAYear
<1>1. ServerInv /\ JudgedInv /\ ResetInv => ResetWithinAYear
  BY DisabledFacts, ResetIsNear DEF ResetWithinAYear
<1>2. QED
  BY <1>1, ServerInvKept, VerdictsKept, ResetKept, PTL DEF Spec

(* Without a plausible period end, because the profile has none or its      *)
(* fetch failed, the key comes back at a midnight of the configured day, or,*)
(* where a month is too short for it, of one of the first days of the next  *)
(* month, and no configured day passes before that (config.go:746-757,      *)
(* creditusage.go:433-443).                                                 *)
THEOREM ResetDayIsMet == Spec => []FallbackMeetsTheDay
<1>1. ServerInv /\ JudgedInv /\ ResetInv => FallbackMeetsTheDay
  <2> SUFFICES ASSUME ServerInv, JudgedInv, ResetInv, disables,
                      ~(hasPeriodEnd(profile) /\ plausible(named, now))
               PROVE  /\ now < disabledUntil
                      /\ disabledUntil = midnight(dayAt(disabledUntil))
                      /\ \/ dayOfMonth(dayAt(disabledUntil)) = resetDay(env)
                         \/ dayOfMonth(dayAt(disabledUntil)) <= resetDay(env) - 28
                      /\ \A day \in (dayAt(now) + 1)..(dayAt(disabledUntil) - 1) :
                           dayOfMonth(day) # resetDay(env)
    BY DEF FallbackMeetsTheDay
  <2>1. now \in Nat /\ covered(now) /\ resetDay(env) \in 1..31
    BY DisabledFacts
  <2>2. disabledUntil = fallbackReset(now, resetDay(env))
    BY DisabledFacts DEF resetOf
  <2>3. QED
    BY <2>1, <2>2, FallbackMeetsNextDay
<1>2. QED
  BY <1>1, ServerInvKept, VerdictsKept, ResetKept, PTL DEF Spec

-----------------------------------------------------------------------------
(* Routing.                                                                 *)

LEMMA AcceptedPrefixes ==
  ASSUME NEW e \in Envs, LoadConfig(e), NEW p \in Profiles
  PROVE  prefix(e, p) \in Seq(Segments)
<1>1. e[<<p, "ROUTE_PREFIX">>] # Garbage
  BY AcceptedProfiles DEF loads, checkRoutePrefix
<1>2. p \in Segments
  BY PathsAssumption DEF PathsAssumption
<1>3. <<p>> \in Seq(Segments)
  BY <1>2
<1>4. e[<<p, "ROUTE_PREFIX">>] = Unset \/ e[<<p, "ROUTE_PREFIX">>] \in Seq(Segments)
  BY <1>1, GatewayAssumption DEF GatewayAssumption
<1>5. QED
  BY <1>3, <1>4 DEF prefix, number, isSet

(* A prefix claims the paths that begin with its segments, and what is      *)
(* stripped is exactly the prefix.                                          *)
LEMMA ClaimedPaths ==
  ASSUME NEW pre \in Seq(Segments), NEW asked \in Seq(Segments)
  PROVE  /\ claims(pre, asked) <=> begins(pre, asked)
         /\ claims(pre, asked) =>
              \/ pre \o stripped(pre, asked) = asked
              \/ pre = asked /\ stripped(pre, asked) = <<"">>
<1>1. claims(pre, asked) <=> begins(pre, asked)
  <2>1. ASSUME Len(pre) <= Len(asked)
        PROVE  SubSeq(asked, 1, Len(pre)) = pre
               <=> \A i \in 1..Len(pre) : pre[i] = asked[i]
    <3>1. SubSeq(asked, 1, Len(pre)) = [i \in 1..Len(pre) |-> asked[i]]
      BY <2>1
    <3>2. pre = [i \in 1..Len(pre) |-> pre[i]]
      OBVIOUS
    <3>3. QED
      BY <3>1, <3>2
  <2>2. QED
    BY <2>1 DEF claims, begins
<1>2. ASSUME claims(pre, asked)
      PROVE  \/ pre \o stripped(pre, asked) = asked
             \/ pre = asked /\ stripped(pre, asked) = <<"">>
  <2>1. Len(pre) <= Len(asked) /\ SubSeq(asked, 1, Len(pre)) = pre
    BY <1>2 DEF claims
  <2>2. CASE Len(pre) = Len(asked)
    <3>1. pre = asked
      BY <2>1, <2>2
    <3>2. QED
      BY <2>2, <3>1 DEF stripped
  <2>3. CASE Len(pre) # Len(asked)
    <3>1. stripped(pre, asked) = SubSeq(asked, Len(pre) + 1, Len(asked))
      BY <2>3 DEF stripped
    <3>2. pre \o SubSeq(asked, Len(pre) + 1, Len(asked)) = asked
      BY <2>1, <2>3
    <3>3. QED
      BY <3>1, <3>2
  <2>4. QED
    BY <2>2, <2>3
<1>3. QED
  BY <1>1, <1>2

(* The route of the current request is the one its path asks for.           *)
RouteInv ==
  path # NoPath =>
    /\ server = "up" /\ path \in Paths
    /\ route = matchProfile(profiles, path, legacyFallback(env))

(* A string that was handed on is one upstream sent, in JSON rewritten for  *)
(* its base.                                                                *)
PageInv ==
  page # NoPage =>
    /\ server = "up" /\ page.given \in Links
    /\ page.handed = IF page.json THEN rewriteNext(page.given, page.base)
                     ELSE page.given

LEMMA RoutesKept == Spec => [](RouteInv /\ PageInv)
<1>1. Init => RouteInv /\ PageInv
  BY DEF Init, RouteInv, PageInv
<1>2. RouteInv /\ PageInv /\ JudgedInv /\ ResetInv /\ [Next]_vars => RouteInv' /\ PageInv'
  <2> SUFFICES ASSUME RouteInv, PageInv, JudgedInv, ResetInv, [Next]_vars
               PROVE  RouteInv' /\ PageInv'
    OBVIOUS
  <2>1. env' = env /\ profiles' = profiles
    BY DEF Next, Boot, Route, Attempt, TryOn, ClientLeaves, WarmUp, FetchOn,
           DisableUntilReset, KeepInService, HandOn, vars, profiles
  <2>2. CASE Boot
    <3>1. server # "up" /\ UNCHANGED <<path, page>>
      BY <2>2 DEF Boot, requestVars
    <3>2. QED
      BY <3>1 DEF RouteInv, PageInv
  <2>3. CASE Route
    <3>1. UNCHANGED <<server, page>> /\ server = "up"
      BY <2>3 DEF Route
    <3>2. PICK asked \in Paths :
            path' = asked /\ route' = matchProfile(profiles, asked, legacyFallback(env))
      BY <2>3 DEF Route
    <3>3. QED
      BY <2>1, <3>1, <3>2 DEF RouteInv, PageInv
  <2>4. CASE HandOn
    <3>1. UNCHANGED <<server, path, route>> /\ judged
      BY <2>4 DEF HandOn
    <3>2. PICK link \in Links, host \in Hosts, json \in BOOLEAN :
            LET base == proxyBase(env, host) IN
              page' = [given |-> link,
                       handed |-> IF json THEN rewriteNext(link, base) ELSE link,
                       json |-> json, base |-> base]
      BY <2>4 DEF HandOn
    <3>3. server = "up"
      BY <3>1 DEF JudgedInv, ResetInv
    <3>4. RouteInv'
      BY <2>1, <3>1 DEF RouteInv
    <3>5. PageInv'
      BY <3>1, <3>2, <3>3 DEF PageInv
    <3>6. QED
      BY <3>4, <3>5
  <2>5. CASE UNCHANGED <<server, path, route, page>>
    BY <2>1, <2>5 DEF RouteInv, PageInv
  <2>6. QED
    BY <2>2, <2>3, <2>4, <2>5
       DEF Next, Attempt, TryOn, ClientLeaves, WarmUp, FetchOn,
           DisableUntilReset, KeepInService, requestVars, vars
<1>3. QED
  BY <1>1, <1>2, VerdictsKept, ResetKept, PTL DEF Spec

(* Every path goes where its prefix says, and upstream gets exactly the     *)
(* rest of it, whatever the prefixes and the profiles (profile.go:395-437). *)
THEOREM PrefixesRoute == Spec => []OwnPrefixReachesProfile
<1>1. ServerInv /\ RouteInv => OwnPrefixReachesProfile
  <2> DEFINE owners == {p \in DOMAIN profiles : begins(profiles[p].prefix, path)}
             claimants == {p \in DOMAIN profiles : claims(profiles[p].prefix, path)}
             first == CHOOSE p \in claimants :
                        \A q \in claimants : BuildOrder[p] <= BuildOrder[q]
  <2> SUFFICES ASSUME ServerInv, RouteInv, path # NoPath
               PROVE  /\ owners = {} =>
                           route = IF legacyFallback(env)
                                   THEN [profile |-> "firecrawl", path |-> path]
                                   ELSE NoRoute
                      /\ \A p \in Profiles :
                           owners = {p} =>
                             /\ route.profile = p
                             /\ \/ profiles[p].prefix \o route.path = path
                                \/ profiles[p].prefix = path /\ route.path = <<"">>
    BY DEF OwnPrefixReachesProfile
  <2>1. /\ env \in Envs /\ LoadConfig(env) /\ path \in Seq(Segments)
        /\ route = matchProfile(profiles, path, legacyFallback(env))
    BY PathsAssumption DEF PathsAssumption, ServerInv, RouteInv
  <2>2. ASSUME NEW p \in DOMAIN profiles
        PROVE  p \in Profiles /\ profiles[p].prefix \in Seq(Segments)
    <3>1. p \in Profiles /\ profiles[p].prefix = prefix(env, p)
      BY DEF profiles, buildProfiles
    <3>2. QED
      BY <2>1, <3>1, AcceptedPrefixes
  <2>3. owners = claimants
    BY <2>1, <2>2, ClaimedPaths
  <2>4. route = IF claimants # {}
                THEN [profile |-> first, path |-> stripped(profiles[first].prefix, path)]
                ELSE IF legacyFallback(env) THEN [profile |-> "firecrawl", path |-> path]
                ELSE NoRoute
    BY <2>1, Zenon DEF matchProfile
  <2>5. ASSUME NEW p \in Profiles, owners = {p}
        PROVE  /\ route.profile = p
               /\ \/ profiles[p].prefix \o route.path = path
                  \/ profiles[p].prefix = path /\ route.path = <<"">>
    <3>1. claimants = {p} /\ p \in DOMAIN profiles /\ claims(profiles[p].prefix, path)
      BY <2>3, <2>5
    <3>2. BuildOrder[p] <= BuildOrder[p]
      BY DEF BuildOrder, Profiles
    <3>3. first = p
      <4> HIDE DEF claimants
      <4>1. QED
        BY <3>1, <3>2
    <3> HIDE DEF owners, claimants, first
    <3>4. route = [profile |-> p, path |-> stripped(profiles[p].prefix, path)]
      BY <2>4, <3>1, <3>3
    <3>5. route.profile = p /\ route.path = stripped(profiles[p].prefix, path)
      BY <3>4
    <3>6. profiles[p].prefix \in Seq(Segments)
      BY <2>2, <3>1
    <3>7. \/ profiles[p].prefix \o stripped(profiles[p].prefix, path) = path
          \/ profiles[p].prefix = path /\ stripped(profiles[p].prefix, path) = <<"">>
      BY <2>1, <3>1, <3>6, ClaimedPaths
    <3>8. QED
      BY <3>5, <3>7
  <2>6. QED
    BY <2>3, <2>4, <2>5
<1>2. QED
  BY <1>1, ServerInvKept, RoutesKept, PTL DEF Spec

(* A path of upstream's own is under nobody's default prefix.               *)
LEMMA UpstreamPathsAreFree ==
  ASSUME NEW e, NEW to \in Seq(Segments), to # <<>>, Head(to) \notin Profiles,
         \A p \in Profiles : ~isSet(e, <<p, "ROUTE_PREFIX">>), NEW legacy
  PROVE  matchProfile(buildProfiles(e), to, legacy)
           = IF legacy THEN [profile |-> "firecrawl", path |-> to] ELSE NoRoute
<1>1. ASSUME NEW p \in DOMAIN buildProfiles(e)
      PROVE  ~claims(buildProfiles(e)[p].prefix, to)
  <2>1. p \in Profiles /\ buildProfiles(e)[p].prefix = prefix(e, p)
    BY DEF buildProfiles
  <2>2. buildProfiles(e)[p].prefix = <<p>>
    BY <2>1 DEF prefix, number
  <2>3. ASSUME claims(<<p>>, to) PROVE FALSE
    <3>1. Len(to) >= 1 /\ SubSeq(to, 1, 1) = <<p>>
      BY <2>3 DEF claims
    <3>2. to[1] = p
      <4>1. <<p>>[1] = p
        OBVIOUS
      <4>2. SubSeq(to, 1, 1)[1] = to[1]
        BY <3>1
      <4>3. QED
        BY <3>1, <4>1, <4>2
    <3>3. QED
      BY <2>1, <3>2
  <2>4. QED
    BY <2>2, <2>3
<1>2. QED
  BY <1>1 DEF matchProfile

(* On every page, a link to the next one that is rewritten, which takes     *)
(* JSON and a base with a host, leads the client back: to Firecrawl at the  *)
(* path upstream meant, or to a 404 once the legacy fallback is off.  No    *)
(* other string is touched (rewrite.go:9-79, proxy.go:305-316).             *)
THEOREM LinksComeBack == Spec => []NextComesBack
<1>1. PageInv => NextComesBack
  <2> SUFFICES ASSUME PageInv, page # NoPage PROVE NextComesBack
    BY DEF NextComesBack
  <2> DEFINE rewritten == /\ page.given.name = "next" /\ page.given.host = "upstream"
                          /\ page.json /\ page.base # Garbage
  <2>1. /\ page.given \in Links
        /\ page.handed = IF page.json THEN rewriteNext(page.given, page.base)
                         ELSE page.given
    BY DEF PageInv
  <2>2. CASE ~rewritten
    BY <2>1, <2>2 DEF rewriteNext, NextComesBack
  <2>3. CASE rewritten
    <3> DEFINE to == page.given.path
    <3>1. page.given \in [name : STRING, host : STRING, path : Seq(Segments)]
      BY <2>1, LinksAssumption DEF LinksAssumption
    <3>2. page.handed.host = page.base /\ page.handed.path = to
      BY <2>1, <2>3, <3>1 DEF rewriteNext
    <3>3. to \in Seq(Segments) /\ to # <<>> /\ Head(to) \notin Profiles
      BY <2>1, <2>3, <3>1, LinksAssumption DEF LinksAssumption
    <3>4. (\A p \in Profiles : ~isSet(env, <<p, "ROUTE_PREFIX">>)) =>
            matchProfile(profiles, to, legacyFallback(env))
              = IF legacyFallback(env) THEN [profile |-> "firecrawl", path |-> to]
                ELSE NoRoute
      <4> HIDE DEF to
      <4>1. QED
        BY <3>3, UpstreamPathsAreFree DEF profiles
    <3>5. QED
      BY <2>3, <3>2, <3>4 DEF NextComesBack
  <2>4. QED
    BY <2>2, <2>3
<1>2. QED
  BY <1>1, RoutesKept, PTL DEF Spec
=============================================================================
