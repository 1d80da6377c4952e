----------------------------- MODULE UsageFetch -----------------------------
(***************************************************************************)
(* One fetch of a key's balance (creditusage.go): the provider's usage     *)
(* endpoint is called, and called again after a pause while the failure    *)
(* looks transient and the schedule lasts; what the answer says is left is *)
(* what the pool records.  Null is a number the JSON does not have.        *)
(***************************************************************************)
EXTENDS ProfilePolicy, Sequences

CONSTANTS
  Null,
  Amounts,     \* credits used or allowed, in a profile's own unit
  UsagePauses  \* len(usageBackoff)

ASSUME UsageFetchAssumption ==
  Null \notin Int /\ Amounts \subseteq Nat /\ UsagePauses \in Nat

VARIABLES
  fetchFor,  \* the profile whose key is fetched, "none" before
  override,  \* ApifyFreeCreditUsd in tenths of a cent, 0 = none
  said,      \* the answers so far
  usage      \* the result, once there is one

fetchVars == <<fetchFor, override, said, usage>>

NotYet == [ok |-> FALSE, over |-> FALSE, remaining |-> 0]
Failed == [NotYet EXCEPT !.over = TRUE]
Found(n) == [ok |-> TRUE, over |-> TRUE, remaining |-> n]

FetchInit ==
  /\ fetchFor = "none" /\ override = 0
  /\ said = <<>> /\ usage = NotYet

-----------------------------------------------------------------------------
(* What an answer says is left.                                             *)

atLeast0(n) == IF n < 0 THEN 0 ELSE n

complete(layer) == layer.used # Null /\ layer.limit # Null
leftUnder(layer) == atLeast0(layer.limit - layer.used)

(* Fault: an overdrawn layer's remainder is not cut off at zero, so it is   *)
(* taken for "no layer yet" by the next one.                                *)
tighterUnclamped(best, layer) ==
  IF complete(layer) /\ (best < 0 \/ layer.limit - layer.used < best)
  THEN layer.limit - layer.used ELSE best

(* The loop body of tavilyRemaining; -1 before the first measured layer.    *)
tighter(best, layer) ==
  IF complete(layer) /\ (best < 0 \/ leftUnder(layer) < best)
  THEN leftUnder(layer) ELSE best

tavilyRemaining(key, plan, paygo) == tighter(tighter(tighter(-1, key), plan), paygo)

(* Dollars, here in tenths of a cent, become whole cents.                   *)
apifyRemaining(used, limit) ==
  LET credit == IF override > 0 THEN override ELSE limit IN
    (atLeast0(credit - used) + 5) \div 10

(* The bodies of the three endpoints; Firecrawl's number may be negative,   *)
(* and a number Firecrawl or Apify leave out counts as zero.                *)
Layers == [used : Amounts \cup {Null}, limit : Amounts \cup {Null}]
LayersOf(body) == {body[i] : i \in 1..3}
UsageBodies ==
  CASE fetchFor = "tavily"    -> Layers \X Layers \X Layers
    [] fetchFor = "apify"     -> Amounts \X Amounts
    [] fetchFor = "firecrawl" -> {<<n>> : n \in Amounts \cup {-1}}

UsageAnswers ==
  [status : {NoStatus, 401, 429, 500}, body : {Null}]
  \cup [status : {200}, body : {Null} \cup UsageBodies]

remainingOf(body) ==
  CASE fetchFor = "tavily"    -> tavilyRemaining(body[1], body[2], body[3])
    [] fetchFor = "apify"     -> apifyRemaining(body[1], body[2])
    [] fetchFor = "firecrawl" -> atLeast0(body[1])

-----------------------------------------------------------------------------

(* Exa and the finance profiles have no endpoint to call.                   *)
BeginFetch(p, credit) ==
  /\ fetchFor = "none"
  /\ fetchFor' = p /\ override' = credit
  /\ usage' = IF hasUsage(p) THEN NotYet ELSE Failed
  /\ UNCHANGED said

(* Fault: a rate limit is waited out.                                       *)
usageRetryableOn429(status) == status \in {NoStatus, 408, 429, 500, 502, 503, 504}

(* A network error, or one of these.                                        *)
usageRetryable(status) == status \in {NoStatus, 408, 500, 502, 503, 504}

(* An answer with a balance ends the fetch, and so does a failure that will *)
(* not go away or is the last one of the schedule.                          *)
FetchOnce ==
  /\ fetchFor # "none" /\ ~usage.over
  /\ \E m \in UsageAnswers :
       /\ said' = Append(said, m)
       /\ usage' = IF m.body # Null /\ remainingOf(m.body) >= 0
                   THEN Found(remainingOf(m.body))
                   ELSE IF usageRetryable(m.status) /\ Len(said) < UsagePauses
                   THEN NotYet ELSE Failed
  /\ UNCHANGED <<fetchFor, override>>

FetchNext ==
  \/ \E p \in Profiles, credit \in Nat : BeginFetch(p, credit)
  \/ FetchOnce

FetchSpec == FetchInit /\ [][FetchNext]_fetchVars

-----------------------------------------------------------------------------

(* The balance recorded for a Tavily key can be spent under every limit the *)
(* account was said to have, and under one of them nothing more; a key is   *)
(* left unmeasured by a readable answer only when that names no limit       *)
(* together with its use.  A limit of zero is a limit, as creditusage.go:   *)
(* 366-370 says; README.md:237-240 says the opposite, that a layer with a   *)
(* limit of zero or less is skipped, which the code does not do             *)
(* (creditusage.go:366-400).                                                *)
BalanceFitsEveryLimit ==
  usage.over /\ fetchFor = "tavily" /\ said[Len(said)].body # Null =>
    LET known == {l \in LayersOf(said[Len(said)].body) : complete(l)} IN
      /\ usage.ok <=> known # {}
      /\ usage.ok =>
           /\ \A l \in known : usage.remaining = 0 \/ l.used + usage.remaining <= l.limit
           /\ \E l \in known : l.used + usage.remaining >= l.limit

(* The usage endpoint, itself rate-limited, is called again only after      *)
(* failures that pass by themselves, and never once it has refused the key  *)
(* or asked to slow down; all pauses together are bounded (creditusage.go:  *)
(* 26-30, 91-106, refresh.go:207-211).                                      *)
RefusedFetchIsNotRepeated ==
  /\ Len(said) <= UsagePauses + 1
  /\ \A i \in 1..(Len(said) - 1) : said[i].status \notin {200, 401, 429}
=============================================================================
