--------------------------- MODULE UsageFetchProofs ---------------------------
(***************************************************************************)
(* One fetch of a balance, for every retry schedule, every order of answers*)
(* and whatever numbers a provider names.                                  *)
(***************************************************************************)
EXTENDS UsageFetch, TLAPS

-----------------------------------------------------------------------------
(* The balance a fetch brings.                                              *)

NumberOrNull == Int \cup {Null}
Layer == [used : NumberOrNull, limit : NumberOrNull]

LEMMA TighterFits ==
  ASSUME NEW best \in Nat \cup {-1}, NEW layer \in Layer
  PROVE  LET rem == tighter(best, layer) IN
           /\ rem \in Nat \cup {-1}
           /\ rem = -1 <=> best = -1 /\ ~complete(layer)
           /\ best # -1 => rem <= best
           /\ complete(layer) => rem <= leftUnder(layer)
           /\ rem = best \/ (complete(layer) /\ rem = leftUnder(layer))
<1>1. CASE complete(layer)
  <2>1. layer.used \in Int /\ layer.limit \in Int
    BY <1>1 DEF complete, Layer, NumberOrNull
  <2>2. leftUnder(layer) \in Nat
    BY <2>1 DEF leftUnder, atLeast0
  <2>3. QED
    BY <1>1, <2>2 DEF tighter
<1>2. CASE ~complete(layer)
  BY <1>2 DEF tighter
<1>3. QED
  BY <1>1, <1>2

(* Whatever numbers the three limit layers of a Tavily account hold or lack,*)
(* the remaining credits are the least that any measured layer leaves; only *)
(* an account without a measured layer stays unmeasured                     *)
(* (creditusage.go:366-400).                                                *)
THEOREM TavilyTakesTheLeast ==
  ASSUME NEW key \in Layer, NEW plan \in Layer, NEW paygo \in Layer
  PROVE  LET known == {l \in {key, plan, paygo} : complete(l)}
             rem   == tavilyRemaining(key, plan, paygo)
         IN  /\ rem = -1 <=> known = {}
             /\ \A l \in known : rem <= leftUnder(l)
             /\ known # {} => \E l \in known : rem = leftUnder(l)
<1> DEFINE one == tighter(-1, key)
           two == tighter(one, plan)
           three == tighter(two, paygo)
           known == {l \in {key, plan, paygo} : complete(l)}
<1>1. /\ one \in Nat \cup {-1} /\ (one = -1 <=> ~complete(key))
      /\ complete(key) => one <= leftUnder(key)
      /\ one = -1 \/ (complete(key) /\ one = leftUnder(key))
  BY TighterFits
<1> HIDE DEF one
<1>2. /\ two \in Nat \cup {-1} /\ (two = -1 <=> one = -1 /\ ~complete(plan))
      /\ one # -1 => two <= one
      /\ complete(plan) => two <= leftUnder(plan)
      /\ two = one \/ (complete(plan) /\ two = leftUnder(plan))
  BY <1>1, TighterFits
<1> HIDE DEF two
<1>3. /\ three \in Nat \cup {-1} /\ (three = -1 <=> two = -1 /\ ~complete(paygo))
      /\ two # -1 => three <= two
      /\ complete(paygo) => three <= leftUnder(paygo)
      /\ three = two \/ (complete(paygo) /\ three = leftUnder(paygo))
  BY <1>2, TighterFits
<1> HIDE DEF three
<1>4. three = -1 <=> ~complete(key) /\ ~complete(plan) /\ ~complete(paygo)
  BY <1>1, <1>2, <1>3
<1>5. /\ complete(key) => three <= one /\ one <= leftUnder(key)
      /\ complete(plan) => three <= two /\ two <= leftUnder(plan)
      /\ complete(paygo) => three <= leftUnder(paygo)
  <2>1. complete(key) => one # -1 /\ two # -1
    BY <1>1, <1>2
  <2>2. complete(plan) => two # -1
    BY <1>2
  <2>3. two # -1 /\ one # -1 => three <= one
    BY <1>1, <1>2, <1>3
  <2>4. QED
    BY <1>1, <1>2, <1>3, <2>1, <2>2, <2>3
<1>6. three = tavilyRemaining(key, plan, paygo)
  BY DEF tavilyRemaining, one, two, three
<1> DEFINE rem == tavilyRemaining(key, plan, paygo)
<1>7. rem = -1 <=> known = {}
  BY <1>4, <1>6
<1>8. \A l \in known : rem <= leftUnder(l)
  <2>1. leftUnder(key) \in Int \/ ~complete(key)
    BY DEF complete, Layer, NumberOrNull, leftUnder, atLeast0
  <2>2. leftUnder(plan) \in Int \/ ~complete(plan)
    BY DEF complete, Layer, NumberOrNull, leftUnder, atLeast0
  <2>3. QED
    BY <1>1, <1>2, <1>3, <1>5, <1>6, <2>1, <2>2
<1>9. ASSUME known # {}
      PROVE  \E l \in known : rem = leftUnder(l)
  <2>1. rem # -1
    BY <1>7, <1>9
  <2>2. CASE complete(paygo) /\ three = leftUnder(paygo)
    BY <1>6, <2>2
  <2>3. CASE three = two /\ complete(plan) /\ two = leftUnder(plan)
    BY <1>6, <2>3
  <2>4. CASE three = two /\ two = one /\ complete(key) /\ one = leftUnder(key)
    BY <1>6, <2>4
  <2>5. QED
    BY <1>1, <1>2, <1>3, <1>6, <2>1, <2>2, <2>3, <2>4
<1>10. QED
  BY <1>7, <1>8, <1>9

-----------------------------------------------------------------------------
(* The course of a fetch.                                                   *)

answered(m) == m.body # Null /\ remainingOf(m.body) >= 0

(* Every answer but the last was worth another call, and a fetch is over    *)
(* with what its last answer says.                                          *)
FetchInv ==
  /\ fetchFor \in Profiles \cup {"none"}
  /\ said \in Seq(UsageAnswers)
  /\ fetchFor = "none" => said = <<>> /\ ~usage.over
  /\ \A i \in 1..(Len(said) - 1) : usageRetryable(said[i].status)
  /\ Len(said) <= UsagePauses + 1
  /\ ~usage.over => /\ Len(said) <= UsagePauses
                    /\ \A i \in 1..Len(said) : usageRetryable(said[i].status)
  /\ usage.over /\ hasUsage(fetchFor) =>
       /\ said # <<>>
       /\ usage.ok <=> answered(said[Len(said)])
       /\ usage.ok => usage.remaining = remainingOf(said[Len(said)].body)

LEMMA FetchInvKept == FetchSpec => []FetchInv
<1>1. FetchInit => FetchInv
  BY UsageFetchAssumption DEF FetchInit, FetchInv, UsageFetchAssumption, NotYet
<1>2. FetchInv /\ [FetchNext]_fetchVars => FetchInv'
  <2> SUFFICES ASSUME FetchInv, [FetchNext]_fetchVars
               PROVE  FetchInv'
    OBVIOUS
  <2>1. ASSUME NEW p \in Profiles, NEW credit, BeginFetch(p, credit)
        PROVE  FetchInv'
    <3>1. said = <<>> /\ said' = <<>> /\ fetchFor' = p /\ p # "none"
      BY <2>1 DEF BeginFetch, FetchInv, Profiles
    <3>2. usage' = IF hasUsage(p) THEN NotYet ELSE Failed
      BY <2>1 DEF BeginFetch
    <3>3. said' \in Seq(UsageAnswers')
      BY <3>1
    <3>4. ~usage'.over \/ ~hasUsage(p)
      BY <3>2 DEF NotYet, Failed
    <3>5. QED
      BY <3>1, <3>3, <3>4, UsageFetchAssumption DEF FetchInv, UsageFetchAssumption
  <2>2. CASE FetchOnce
    <3>1. PICK m \in UsageAnswers :
            /\ said' = Append(said, m)
            /\ usage' = IF answered(m) THEN Found(remainingOf(m.body))
                        ELSE IF usageRetryable(m.status) /\ Len(said) < UsagePauses
                        THEN NotYet ELSE Failed
      BY <2>2 DEF FetchOnce, answered
    <3>2. /\ ~usage.over /\ fetchFor # "none" /\ fetchFor' = fetchFor
          /\ UsageAnswers' = UsageAnswers /\ override' = override
      BY <2>2 DEF FetchOnce, UsageAnswers, UsageBodies
    <3>3. /\ said \in Seq(UsageAnswers) /\ Len(said) \in Nat
          /\ Len(said) <= UsagePauses
          /\ \A i \in 1..Len(said) : usageRetryable(said[i].status)
      BY <3>2 DEF FetchInv
    <3>4. /\ said' \in Seq(UsageAnswers) /\ Len(said') = Len(said) + 1
          /\ said'[Len(said')] = m
          /\ \A i \in 1..Len(said) : said'[i] = said[i]
      BY <3>1, <3>3
    <3>5. \A i \in 1..(Len(said') - 1) : usageRetryable(said'[i].status)
      BY <3>3, <3>4
    <3>6. ~usage'.over => usageRetryable(m.status) /\ Len(said) < UsagePauses
      BY <3>1 DEF Found, Failed
    <3>7. ~usage'.over =>
            /\ Len(said') <= UsagePauses
            /\ \A i \in 1..Len(said') : usageRetryable(said'[i].status)
      BY <3>3, <3>4, <3>6, UsageFetchAssumption DEF UsageFetchAssumption
    <3>8. /\ usage'.ok <=> answered(m)
          /\ usage'.ok => usage'.remaining = remainingOf(m.body)
      BY <3>1 DEF Found, NotYet, Failed
    <3>9. (/\ usage.ok <=> answered(said[Len(said)])
           /\ usage.ok => usage.remaining = remainingOf(said[Len(said)].body))'
      BY <3>2, <3>4, <3>8 DEF answered, remainingOf, apifyRemaining
    <3>10. said' # <<>> /\ Len(said') <= UsagePauses + 1
      BY <3>3, <3>4, UsageFetchAssumption DEF UsageFetchAssumption
    <3>11. QED
      BY <3>2, <3>4, <3>5, <3>7, <3>9, <3>10 DEF FetchInv
  <2>3. CASE UNCHANGED fetchVars
    <3>1. UNCHANGED <<fetchFor, override, said, usage>>
      BY <2>3 DEF fetchVars
    <3>2. UsageAnswers' = UsageAnswers
      BY <3>1 DEF UsageAnswers, UsageBodies
    <3>3. (/\ usage.ok <=> answered(said[Len(said)])
           /\ usage.ok => usage.remaining = remainingOf(said[Len(said)].body))'
            <=> /\ usage.ok <=> answered(said[Len(said)])
                /\ usage.ok => usage.remaining = remainingOf(said[Len(said)].body)
      BY <3>1 DEF answered, remainingOf, apifyRemaining
    <3>4. QED
      BY <3>1, <3>2, <3>3 DEF FetchInv
  <2>4. QED
    BY <2>1, <2>2, <2>3 DEF FetchNext
<1>3. QED
  BY <1>1, <1>2, PTL DEF FetchSpec

(* A fetch calls the endpoint a bounded number of times, and again only     *)
(* after a failure that passes by itself (creditusage.go:26-30, 91-106).    *)
THEOREM FetchGivesUp == FetchSpec => []RefusedFetchIsNotRepeated
<1>1. FetchInv => RefusedFetchIsNotRepeated
  BY DEF FetchInv, RefusedFetchIsNotRepeated, usageRetryable, NoStatus
<1>2. QED
  BY <1>1, FetchInvKept, PTL

(* The balance recorded for a Tavily key can be spent under every limit of  *)
(* its account (creditusage.go:371-400).                                    *)
THEOREM BalanceFits == FetchSpec => []BalanceFitsEveryLimit
<1>1. FetchInv => BalanceFitsEveryLimit
  <2> DEFINE m == said[Len(said)]
             known == {l \in LayersOf(m.body) : complete(l)}
  <2> SUFFICES ASSUME FetchInv, usage.over, fetchFor = "tavily", m.body # Null
               PROVE  /\ usage.ok <=> known # {}
                      /\ usage.ok =>
                           /\ \A l \in known : \/ usage.remaining = 0
                                               \/ l.used + usage.remaining <= l.limit
                           /\ \E l \in known : l.used + usage.remaining >= l.limit
    BY DEF BalanceFitsEveryLimit
  <2>1. /\ said \in Seq(UsageAnswers) /\ said # <<>>
        /\ usage.ok <=> answered(m)
        /\ usage.ok => usage.remaining = remainingOf(m.body)
    BY DEF FetchInv, hasUsage
  <2>2. m \in UsageAnswers
    BY <2>1
  <2> HIDE DEF m
  <2>3. m.body \in Layers \X Layers \X Layers
    BY <2>2 DEF UsageAnswers, UsageBodies
  <2>4. PICK key \in Layers, plan \in Layers, paygo \in Layers :
          m.body = <<key, plan, paygo>>
    BY <2>3
  <2>5. LayersOf(m.body) = {key, plan, paygo}
    BY <2>4 DEF LayersOf
  <2>6. remainingOf(m.body) = tavilyRemaining(key, plan, paygo)
    BY <2>4 DEF remainingOf
  <2>7. Layers \subseteq Layer
    <3>1. Amounts \subseteq Int
      BY UsageFetchAssumption DEF UsageFetchAssumption
    <3>2. Amounts \cup {Null} \subseteq NumberOrNull
      BY <3>1, Zenon DEF NumberOrNull
    <3>3. QED
      BY <3>2 DEF Layers, Layer
  <2> DEFINE rem == tavilyRemaining(key, plan, paygo)
  <2>8. /\ rem = -1 <=> known = {}
        /\ \A l \in known : rem <= leftUnder(l)
        /\ known # {} => \E l \in known : rem = leftUnder(l)
    BY <2>5, <2>7, TavilyTakesTheLeast
  <2> HIDE DEF rem
  <2>9. \A l \in known : l.used \in Nat /\ l.limit \in Nat
    BY <2>5, UsageFetchAssumption DEF UsageFetchAssumption, Layers, complete
  <2> HIDE DEF known
  <2>10. \A l \in known : /\ leftUnder(l) \in Nat
                          /\ leftUnder(l) = 0 \/ l.used + leftUnder(l) = l.limit
                          /\ l.used + leftUnder(l) >= l.limit
    BY <2>9 DEF leftUnder, atLeast0
  <2>11. rem \in Nat \/ known = {}
    BY <2>8, <2>10
  <2>12. usage.ok <=> known # {}
    BY <2>1, <2>6, <2>8, <2>11 DEF answered, rem
  <2>13. ASSUME usage.ok
         PROVE  /\ \A l \in known : \/ usage.remaining = 0
                                    \/ l.used + usage.remaining <= l.limit
                /\ \E l \in known : l.used + usage.remaining >= l.limit
    <3>1. usage.remaining = rem /\ rem \in Nat
      BY <2>1, <2>6, <2>11, <2>12, <2>13 DEF rem
    <3>2. ASSUME NEW l \in known
          PROVE  usage.remaining = 0 \/ l.used + usage.remaining <= l.limit
      BY <2>8, <2>9, <2>10, <3>1
    <3>3. \E l \in known : l.used + usage.remaining >= l.limit
      BY <2>8, <2>10, <2>12, <2>13, <3>1
    <3>4. QED
      BY <3>2, <3>3
  <2>14. QED
    BY <2>12, <2>13
<1>2. QED
  BY <1>1, FetchInvKept, PTL
=============================================================================
