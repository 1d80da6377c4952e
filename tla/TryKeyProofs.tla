----------------------------- MODULE TryKeyProofs -----------------------------
(***************************************************************************)
(* One attempt on a key, for every retry schedule, every 403 budget and    *)
(* every disconnect: it is the single step the handler's model makes of it.*)
(***************************************************************************)
EXTENDS TryKey, TLAPS

(* A pause follows a transient failure, and always leaves a try.            *)
PauseInv ==
  stage = "sleep" => shouldRetry(last.status) /\ ~last.over /\ attempt < Backoffs

(* Every 403 that is paused after has used up a try, and only as many tries *)
(* as the budget holds are paused after.                                    *)
ForbiddenInv ==
  0 < max403 /\ max403 < Backoffs =>
    /\ stage = "idle" => forbidden = 0
    /\ stage \in {"send", "flight"} => forbidden <= attempt /\ forbidden <= max403
    /\ stage = "sleep" => forbidden <= attempt + 1 /\ forbidden <= max403
    /\ forbidden <= max403 + 1

(* Before the attempt there is no profile, before its end no outcome.       *)
PhaseInv ==
  /\ stage = "idle" <=> profile = "none"
  /\ stage = "idle" => forbidden = 0 /\ attempt = 0
  /\ stage # "done" => outcome = Pending

TryInv == TryTypeOK /\ PauseInv /\ PhaseInv

-----------------------------------------------------------------------------
(* Facts about the policy's tables.                                         *)

LEMMA ReplyFields ==
  /\ NoReply \in Replies /\ NoReply.status = NoStatus /\ ~NoReply.over
  /\ \A m \in Replies : /\ m.status \in Statuses \cup {NoStatus}
                        /\ m.body \in Bodies /\ m.over \in BOOLEAN
                        /\ m.status = NoStatus => ~m.over /\ m.body = "plain"
<1>1. /\ NoReply \in Replies /\ NoReply.status = NoStatus /\ ~NoReply.over
      /\ NoReply.body = "plain" /\ "plain" \in Bodies /\ NoReply.over \in BOOLEAN
  BY DEF Replies, NoReply, Bodies
<1>2. ASSUME NEW m \in [status : Statuses, body : Bodies, over : BOOLEAN]
      PROVE  /\ m.status \in Statuses /\ m.body \in Bodies /\ m.over \in BOOLEAN
             /\ m.status # NoStatus
  <2>1. NoStatus \notin Statuses
    BY DEF NoStatus, Statuses
  <2>2. QED
    BY <2>1
<1>3. QED
  BY <1>1, <1>2 DEF Replies

(* The tables are the same wherever they are looked up.                     *)
LEMMA OneUsesTheSameTables ==
  /\ One!NoStatus = NoStatus /\ One!Statuses = Statuses /\ One!Bodies = Bodies
  /\ One!Profiles = Profiles /\ One!Pending = Pending
  /\ \A p, s, b, o : One!classify(p, s, b, o) = classify(p, s, b, o)
<1>1. /\ One!NoStatus = NoStatus /\ One!Statuses = Statuses
      /\ One!Bodies = Bodies /\ One!Profiles = Profiles
  BY DEF One!NoStatus, NoStatus, One!Statuses, Statuses, One!Bodies, Bodies,
         One!Profiles, Profiles
<1>2. One!Pending = Pending
  BY <1>1 DEF One!Pending, Pending
<1>3. /\ One!rejectDenylist = rejectDenylist
      /\ \A s : One!shouldRetry(s) <=> shouldRetry(s)
      /\ \A s, b : One!firecrawlFailure(s, b) <=> firecrawlFailure(s, b)
      /\ \A b : One!alphaVantageIsExhausted(b) <=> alphaVantageIsExhausted(b)
      /\ \A b : One!fmpIsRestrictedEndpoint(b) <=> fmpIsRestrictedEndpoint(b)
  BY <1>1 DEF One!rejectDenylist, rejectDenylist, One!shouldRetry, shouldRetry,
       One!firecrawlFailure, firecrawlFailure, One!alphaVantageIsExhausted,
       alphaVantageIsExhausted, One!fmpIsRestrictedEndpoint, fmpIsRestrictedEndpoint
<1>4. \A p, s, b : One!shouldRotate(p, s, b) = shouldRotate(p, s, b)
  BY <1>3 DEF One!shouldRotate, shouldRotate
<1>5. \A p, s, b, o : One!classify(p, s, b, o) = classify(p, s, b, o)
  BY <1>3, <1>4 DEF One!classify, classify
<1>6. QED
  BY <1>1, <1>2, <1>5

(* The budget of no failure exceeds the schedule, and a 403 has its own.    *)
LEMMA BudgetBounds ==
  ASSUME TryTypeOK, NEW status
  PROVE  /\ budget(status) \in Nat /\ budget(status) <= Backoffs
         /\ 0 < max403 /\ max403 < Backoffs /\ status = 403 => budget(status) = max403
BY TryKeyAssumption DEF TryKeyAssumption, TryTypeOK, budget

(* settle pauses, or ends with the profile's verdict of the reply.          *)
LEMMA SettleCases ==
  ASSUME NEW m \in Replies, settle(m)
  PROVE  \/ /\ stage' = "sleep" /\ last' = m
            /\ UNCHANGED <<attempt, outcome>>
            /\ shouldRetry(m.status) /\ ~m.over /\ attempt < budget(m.status)
         \/ /\ stage' = "done" /\ last' = NoReply /\ UNCHANGED attempt
            /\ outcome' = [status |-> m.status, body |-> m.body,
                           kind |-> classify(profile, m.status, m.body, m.over)]
            /\ m.over \/ ~shouldRetry(m.status) \/ ~(attempt < budget(m.status))
BY DEF settle, end, pause, classify

(* The verdict of a reply is an outcome.                                    *)
LEMMA VerdictTyped ==
  ASSUME NEW m \in Replies, NEW p
  PROVE  [status |-> m.status, body |-> m.body,
          kind |-> classify(p, m.status, m.body, m.over)] \in Outcomes
<1>1. classify(p, m.status, m.body, m.over) \in {"ok", "capped", "netErr", "rotate"}
  BY DEF classify
<1>2. QED
  BY <1>1, ReplyFields DEF Outcomes

-----------------------------------------------------------------------------
(* The invariant of the attempt.                                            *)

LEMMA SettleKeepsInv ==
  ASSUME TryInv, NEW m \in Replies, settle(m), stage \in {"send", "flight"},
         UNCHANGED <<profile, max403, left>>,
         forbidden' \in 0..(Backoffs + 1)
  PROVE  TryInv'
<1> USE DEF TryInv, TryTypeOK, PauseInv, PhaseInv, Stages
<1>1. CASE /\ stage' = "sleep" /\ last' = m
           /\ UNCHANGED <<attempt, outcome>>
           /\ shouldRetry(m.status) /\ ~m.over /\ attempt < budget(m.status)
  <2>1. attempt < Backoffs
    BY <1>1, BudgetBounds, TryKeyAssumption DEF TryKeyAssumption
  <2>2. QED
    BY <1>1, <2>1
<1>2. CASE /\ stage' = "done" /\ last' = NoReply /\ UNCHANGED attempt
           /\ outcome' = [status |-> m.status, body |-> m.body,
                          kind |-> classify(profile, m.status, m.body, m.over)]
  BY <1>2, ReplyFields, VerdictTyped
<1>3. QED
  BY <1>1, <1>2, SettleCases

LEMMA StepKeepsInv ==
  ASSUME TryInv, [TryNext]_tryVars
  PROVE  TryInv'
<1> USE TryKeyAssumption DEF TryKeyAssumption, Stages
<1>1. ASSUME NEW p \in Profiles, NEW retries \in Nat, Begin(p, retries)
      PROVE  TryInv'
  <2>1. p # "none"
    BY DEF Profiles
  <2>2. QED
    BY <1>1, <2>1 DEF Begin, TryInv, TryTypeOK, PauseInv, PhaseInv
<1>2. CASE Send
  <2>1. CASE left
    BY <1>2, <2>1, ReplyFields, SettleKeepsInv DEF Send, TryInv, TryTypeOK
  <2>2. CASE ~left
    BY <1>2, <2>2 DEF Send, TryInv, TryTypeOK, PauseInv, PhaseInv
  <2>3. QED
    BY <2>1, <2>2
<1>3. CASE Receive
  <2>1. PICK m \in Replies : /\ forbidden' = IF m.status = 403 /\ forbidden <= Backoffs
                                             THEN forbidden + 1 ELSE forbidden
                             /\ settle(m)
    BY <1>3 DEF Receive
  <2>2. forbidden' \in 0..(Backoffs + 1)
    BY <2>1 DEF TryInv, TryTypeOK
  <2>3. QED
    BY <1>3, <2>1, <2>2, SettleKeepsInv DEF Receive
<1>4. CASE Wake
  BY <1>4, ReplyFields DEF Wake, TryInv, TryTypeOK, PauseInv, PhaseInv
<1>5. CASE Abandon
  <2>1. outcome' = [status |-> last.status, body |-> last.body,
                    kind |-> classify(profile, last.status, last.body, last.over)]
    BY <1>5 DEF Abandon, end, classify, TryInv, PauseInv
  <2>2. outcome' \in Outcomes
    BY <2>1, VerdictTyped DEF TryInv, TryTypeOK
  <2>3. QED
    BY <1>5, <2>2, ReplyFields DEF Abandon, end, TryInv, TryTypeOK, PauseInv, PhaseInv
<1>6. CASE Leave
  BY <1>6 DEF Leave, TryInv, TryTypeOK, PauseInv, PhaseInv
<1>7. CASE UNCHANGED tryVars
  BY <1>7 DEF tryVars, TryInv, TryTypeOK, PauseInv, PhaseInv
<1>8. QED
  BY <1>1, <1>2, <1>3, <1>4, <1>5, <1>6, <1>7 DEF TryNext, TryStep

LEMMA InitHasInv == TryInit => TryInv
<1>1. Pending \in Outcomes
  BY DEF Pending, Outcomes, Bodies
<1>2. "none" \notin Profiles
  BY DEF Profiles
<1>3. ASSUME TryInit
      PROVE  TryTypeOK
  <2>1. 0 \in Nat /\ 0 \in 0..Backoffs /\ 0 \in 0..(Backoffs + 1)
    BY TryKeyAssumption DEF TryKeyAssumption
  <2>2. NoReply \in Replies
    BY ReplyFields
  <2>3. QED
    BY <1>1, <1>3, <2>1, <2>2 DEF TryInit, TryTypeOK, Stages
<1>4. QED
  BY <1>3 DEF TryInit, TryInv, PauseInv, PhaseInv

(* Every variable keeps its range: the loop never runs past its schedule    *)
(* (proxy.go:337, 391-412).                                                 *)
THEOREM AttemptTyped == TrySpec => []TryTypeOK
<1>1. TryInv /\ [TryNext]_tryVars => TryInv'
  BY StepKeepsInv
<1>2. TryInv => TryTypeOK
  BY DEF TryInv
<1>3. QED
  BY <1>1, <1>2, InitHasInv, PTL DEF TrySpec

LEMMA AttemptInv == TrySpec => []TryInv
<1>1. TryInv /\ [TryNext]_tryVars => TryInv'
  BY StepKeepsInv
<1>2. QED
  BY <1>1, InitHasInv, PTL DEF TrySpec

-----------------------------------------------------------------------------
(* For every schedule and every budget below its length, at most            *)
(* Max403Retries + 1 calls of an attempt are answered 403; the calls that   *)
(* are answered otherwise are not counted (proxy.go:392-412).               *)
THEOREM EdgeBlockBounded == TrySpec => []EdgeBlockIsNotHammered
<1>1. TryInit => ForbiddenInv
  BY DEF TryInit, ForbiddenInv
<1>2. TryInv /\ ForbiddenInv /\ [TryNext]_tryVars => ForbiddenInv'
  <2> SUFFICES ASSUME TryInv, ForbiddenInv, [TryNext]_tryVars,
                      0 < max403', max403' < Backoffs
               PROVE  /\ stage' = "idle" => forbidden' = 0
                      /\ stage' \in {"send", "flight"} =>
                           forbidden' <= attempt' /\ forbidden' <= max403'
                      /\ stage' = "sleep" =>
                           forbidden' <= attempt' + 1 /\ forbidden' <= max403'
                      /\ forbidden' <= max403' + 1
    BY DEF ForbiddenInv
  <2>1. /\ attempt \in Nat /\ forbidden \in Nat /\ max403 \in Nat
        /\ Backoffs \in Nat /\ TryTypeOK
    BY TryKeyAssumption DEF TryKeyAssumption, TryInv, TryTypeOK
  <2>2. ASSUME NEW p \in Profiles, NEW retries \in Nat, Begin(p, retries)
        PROVE  /\ stage' = "send" /\ forbidden' = 0 /\ attempt' = 0
               /\ max403' \in Nat
    BY <2>2 DEF Begin, TryInv, PhaseInv
  <2>3. ASSUME UNCHANGED max403
        PROVE  /\ stage = "idle" => forbidden = 0
               /\ stage \in {"send", "flight"} =>
                    forbidden <= attempt /\ forbidden <= max403
               /\ stage = "sleep" =>
                    forbidden <= attempt + 1 /\ forbidden <= max403
               /\ forbidden <= max403 + 1
    BY <2>3 DEF ForbiddenInv
  <2>4. CASE Send
    <3>1. stage' \in {"flight", "sleep", "done"}
      BY <2>4, ReplyFields, SettleCases DEF Send
    <3>2. UNCHANGED <<attempt, forbidden, max403>>
      BY <2>4, ReplyFields, SettleCases DEF Send
    <3>3. QED
      BY <2>1, <2>3, <2>4, <3>1, <3>2 DEF Send
  <2>5. CASE Receive
    <3>1. PICK m \in Replies : /\ forbidden' = IF m.status = 403 /\ forbidden <= Backoffs
                                               THEN forbidden + 1 ELSE forbidden
                               /\ settle(m)
      BY <2>5 DEF Receive
    <3>2. UNCHANGED <<attempt, max403>> /\ stage' \in {"sleep", "done"}
      BY <2>5, <3>1, SettleCases DEF Receive
    <3>3. stage' = "sleep" /\ m.status = 403 => attempt < max403
      BY <2>1, <3>1, <3>2, SettleCases, BudgetBounds
    <3>4. QED
      BY <2>1, <2>3, <2>5, <3>1, <3>2, <3>3 DEF Receive
  <2>6. CASE Wake
    BY <2>1, <2>3, <2>6 DEF Wake
  <2>7. CASE Abandon \/ Leave \/ UNCHANGED tryVars
    BY <2>1, <2>3, <2>7 DEF Abandon, end, Leave, tryVars
  <2>8. QED
    BY <2>1, <2>2, <2>4, <2>5, <2>6, <2>7 DEF TryNext, TryStep
<1>3. ForbiddenInv => EdgeBlockIsNotHammered
  BY DEF ForbiddenInv, EdgeBlockIsNotHammered
<1>4. QED
  BY <1>1, <1>2, <1>3, AttemptInv, PTL DEF TrySpec

(* Once the client has left, no call goes out (proxy.go:342, 371-382).      *)
THEOREM GoneIsNotCalledFor == TrySpec => NobodyCallsForTheGone
<1>1. [TryNext]_tryVars => [left /\ stage # "flight" => stage' # "flight"]_tryVars
  <2> SUFFICES ASSUME TryNext, left, stage # "flight"
               PROVE  stage' # "flight"
    OBVIOUS
  <2>1. CASE Send
    BY <2>1, ReplyFields, SettleCases DEF Send
  <2>2. QED
    BY <2>1 DEF TryNext, TryStep, Begin, Receive, Wake, Abandon, end, Leave
<1>2. QED
  BY <1>1, PTL DEF TrySpec, NobodyCallsForTheGone

(* The attempt implements the single step that ends with one verdict: the   *)
(* step Upstream of the handler's model (proxy.go:59-94, 331-432).          *)
THEOREM AttemptImplementsOne == TrySpec => EndsAsOneVerdict
<1>1. TryInit => One!Init
  BY OneUsesTheSameTables DEF TryInit, One!Init
<1>2. TryInv /\ [TryNext]_tryVars
        => [One!Begin \/ One!End]_<<profile, outcome>>
  <2> SUFFICES ASSUME TryInv, [TryNext]_tryVars
               PROVE  \/ One!Begin \/ One!End
                      \/ UNCHANGED <<profile, outcome>>
    OBVIOUS
  <2>1. Pending = One!Pending
    BY OneUsesTheSameTables
  <2>2. ASSUME NEW p \in Profiles, NEW retries \in Nat, Begin(p, retries)
        PROVE  One!Begin
    BY <2>2, OneUsesTheSameTables DEF Begin, One!Begin, TryInv, PhaseInv
  <2>3. ASSUME NEW m \in Replies, stage \in {"send", "flight", "sleep"}, UNCHANGED profile,
               outcome' = [status |-> m.status, body |-> m.body,
                           kind |-> classify(profile, m.status, m.body, m.over)]
        PROVE  One!End
    <3>1. profile # "none" /\ outcome = One!Pending
      BY <2>1, <2>3 DEF TryInv, PhaseInv
    <3>2. outcome' = One!Verdict(m.status, m.body, m.over)
      BY <2>3, OneUsesTheSameTables DEF One!Verdict
    <3>3. QED
      BY <2>3, <3>1, <3>2, ReplyFields, OneUsesTheSameTables DEF One!End
  <2>4. CASE Send \/ Receive
    <3>1. UNCHANGED profile /\ stage \in {"send", "flight"}
      BY <2>4 DEF Send, Receive
    <3>2. UNCHANGED outcome \/ \E m \in Replies : settle(m)
      BY <2>4, ReplyFields DEF Send, Receive
    <3>3. QED
      BY <2>3, <3>1, <3>2, SettleCases
  <2>5. CASE Abandon
    <3>1. last \in Replies /\ UNCHANGED profile /\ stage = "sleep"
      BY <2>5 DEF Abandon, TryInv, TryTypeOK
    <3>2. outcome' = [status |-> last.status, body |-> last.body,
                      kind |-> classify(profile, last.status, last.body, last.over)]
      BY <2>5 DEF Abandon, end, classify, TryInv, PauseInv
    <3>3. QED
      BY <2>3, <3>1, <3>2
  <2>6. CASE Wake \/ Leave \/ UNCHANGED tryVars
    BY <2>6 DEF Wake, Leave, tryVars
  <2>7. QED
    BY <2>2, <2>4, <2>5, <2>6 DEF TryNext, TryStep
<1>3. QED
  BY <1>1, <1>2, AttemptInv, PTL DEF TrySpec, EndsAsOneVerdict, One!Spec
=============================================================================
