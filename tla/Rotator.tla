------------------------------- MODULE Rotator -------------------------------
(***************************************************************************)
(* The request handler of one profile (proxy.go): every element of         *)
(* Requests is a client connection whose goroutine runs ServeHTTP, one     *)
(* request after another, against the shared pool.  A step of a request is *)
(* what it does under one hold of the pool's mutex, at one channel         *)
(* operation, or while it waits for the network; between two steps any     *)
(* other request, the reset loop, a balance fetch or the clock may move.   *)
(***************************************************************************)
EXTENDS KeyPool, ProfilePolicy

CONSTANTS
  Requests,    \* client connections
  Profile,     \* the profile's name
  MaxPasses,   \* MAX_PASSES
  Saturation,  \* "queue" or "reject"
  QueueWait,   \* is FIRECRAWL_CONCURRENCY_QUEUE_MS above zero?
  Replies,     \* what an attempt may end with: [status, body, over]
  Costs,       \* what a response may say it cost, 0 = not reported
  RetryAfters, \* what a Retry-After header may ask for, 0 = absent
  Balances,    \* what a balance fetch may return
  Resets,      \* how far away a disabled key's reset may be
  Cancels      \* requests whose client may disconnect

ASSUME RotatorAssumption ==
  /\ IsFiniteSet(Requests)
  /\ Profile \in Profiles
  /\ MaxPasses \in Nat \ {0}
  /\ Saturation \in {"queue", "reject"}
  /\ QueueWait \in BOOLEAN
  /\ Replies \subseteq [status : Statuses \cup {NoStatus}, body : Bodies,
                       over : BOOLEAN]
  /\ \A m \in Replies : m.status = NoStatus => ~m.over
  /\ Costs \subseteq Nat
  /\ RetryAfters \subseteq Nat
  /\ Balances \subseteq 0..MaxCredits
  /\ Resets \subseteq 0..MaxReset
  /\ Cancels \subseteq Requests

VARIABLES
  pc,      \* where the request's goroutine is
  idx,     \* the key of the current attempt (rotResult.idx)
  tries,   \* attempts that counted
  res,     \* the last attempt that counted: lastStatus, lastBody, its kind
  answer,  \* what the client got
  expired, \* has the queue deadline passed?
  gone     \* has the client disconnected?

reqVars == <<pc, idx, tries, res, answer, expired, gone>>
vars == <<poolVars, reqVars>>

maxRotations == MaxPasses * KeyCount

(* What is left of an attempt: the zero rotResult of an exhausted pool, the *)
(* error of an attempt whose client left, and what upstream may bring about.*)
NoReply == [status |-> NoStatus, body |-> "plain", kind |-> "none"]
NetErr == [NoReply EXCEPT !.kind = "netErr"]
outcomeOf(m) ==
  [status |-> m.status, body |-> m.body,
   kind |-> classify(Profile, m.status, m.body, m.over)]

Kinds == {"none", "ok", "capped", "netErr", "rotate"}
Answers == {"none", "upstream", "abandoned", "busy429", "busy503",
            "exhausted503", "unreachable502"}

(* The places between a select that found a key and its return.             *)
Holding == {"measure", "fetch", "launch", "upstream", "release"}
Stages == {"idle", "select", "acquire", "saturated", "check", "park",
           "blocked", "wake", "success", "charge", "clamp", "hold", "drain",
           "advance", "switch", "finish"} \cup Holding

RotatorInit ==
  /\ PoolInit
  /\ pc = [r \in Requests |-> "idle"]
  /\ idx = [r \in Requests |-> NoKey]
  /\ tries = [r \in Requests |-> 0]
  /\ res = [r \in Requests |-> NoReply]
  /\ answer = [r \in Requests |-> "none"]
  /\ expired = [r \in Requests |-> FALSE]
  /\ gone = [r \in Requests |-> FALSE]

-----------------------------------------------------------------------------
(* Locals of the handler.                                                   *)

goto(r, stage) == pc' = [pc EXCEPT ![r] = stage]

(* tries++ and last* = res.*, for every attempt that was not saturated.     *)
count(r, outcome) ==
  /\ res' = [res EXCEPT ![r] = outcome]
  /\ tries' = [tries EXCEPT ![r] = @ + 1]

(* The handler returns, and its locals with it.                             *)
return(r, reply) ==
  /\ goto(r, "idle")
  /\ answer' = [answer EXCEPT ![r] = reply]
  /\ idx' = [idx EXCEPT ![r] = NoKey]
  /\ tries' = [tries EXCEPT ![r] = 0]
  /\ expired' = [expired EXCEPT ![r] = FALSE]
  /\ gone' = [gone EXCEPT ![r] = FALSE]
  /\ res' = [res EXCEPT ![r] = NoReply]

(* A client whose connection is gone gets nothing.                          *)
returnBusy503(r) == return(r, IF gone[r] THEN "abandoned" ELSE "busy503")

Arrive(r) ==
  /\ pc[r] = "idle"
  /\ goto(r, "select")
  /\ answer' = [answer EXCEPT ![r] = "none"]
  /\ UNCHANGED <<poolVars, idx, tries, res, expired, gone>>

-----------------------------------------------------------------------------
(* serveOnce: one attempt.                                                  *)

Select(r) ==
  /\ pc[r] = "select"
  /\ Current
  /\ LET k == current(coolFor) IN
       IF k = NoKey
       THEN goto(r, "finish") /\ count(r, NoReply) /\ UNCHANGED idx
       ELSE /\ goto(r, "acquire")
            /\ idx' = [idx EXCEPT ![r] = k]
            /\ UNCHANGED <<tries, res>>
  /\ UNCHANGED <<answer, expired, gone>>

(* Fault: the Release is deferred before TryAcquire has answered, so an     *)
(* attempt that got no slot gives one back.                                 *)
AcquireReleasingFirst(r) ==
  /\ pc[r] = "acquire"
  /\ \/ TryAcquire(idx[r]) /\ goto(r, "measure")
     \/ ~hasSlot(idx[r]) /\ goto(r, "saturated") /\ Release(idx[r])
  /\ UNCHANGED <<idx, tries, res, answer, expired, gone>>

(* The slot is taken under another hold of the mutex than the selection.    *)
Acquire(r) ==
  /\ pc[r] = "acquire"
  /\ \/ TryAcquire(idx[r]) /\ goto(r, "measure")
     \/ ~hasSlot(idx[r]) /\ goto(r, "saturated") /\ UNCHANGED poolVars
  /\ UNCHANGED <<idx, tries, res, answer, expired, gone>>

(* EnsureMeasured looks at the balance first...                             *)
Measure(r) ==
  /\ pc[r] = "measure"
  /\ goto(r, IF hasUsage(Profile) /\ credits[idx[r]] = Unmeasured
             THEN "fetch" ELSE "launch")
  /\ UNCHANGED <<poolVars, idx, tries, res, answer, expired, gone>>

(* ... and fetches it, slot in hand; a failed fetch leaves it unmeasured.   *)
Fetch(r) ==
  /\ pc[r] = "fetch"
  /\ goto(r, "launch")
  /\ (\E b \in Balances : SetCredits(idx[r], b)) \/ UNCHANGED poolVars
  /\ UNCHANGED <<idx, tries, res, answer, expired, gone>>

(* tryKey sends the request, with the client's context: once that is        *)
(* canceled the attempt ends as a network error before it begins.           *)
Launch(r) ==
  /\ pc[r] = "launch"
  /\ IF gone[r] THEN goto(r, "release") /\ count(r, NetErr)
     ELSE goto(r, "upstream") /\ UNCHANGED <<res, tries>>
  /\ UNCHANGED <<poolVars, idx, answer, expired, gone>>

(* tryKey returns, its backoff retries on the same key behind it.           *)
Upstream(r) ==
  /\ pc[r] = "upstream"
  /\ goto(r, "release")
  /\ \E m \in Replies : count(r, outcomeOf(m))
  /\ UNCHANGED <<poolVars, idx, answer, expired, gone>>

(* Where ServeHTTP goes with the result.                                    *)
verdictStage(r) ==
  CASE res[r].kind = "ok"     -> "success"
    [] res[r].kind = "capped" -> "finish"
    [] res[r].kind = "rotate"
       /\ isCreditExhausted(Profile, res[r].status, res[r].body) -> "drain"
    [] OTHER -> "advance"

(* Fault: the slot is given back once the token has room in the channel.    *)
GiveBackWaitingForRoom(r) ==
  /\ pc[r] = "release" /\ ~slotFree
  /\ Release(idx[r])
  /\ goto(r, IF MaxConcurrent = 0 THEN verdictStage(r) ELSE "wake")
  /\ UNCHANGED <<idx, tries, res, answer, expired, gone>>

(* The deferred Release, under the mutex ...                                *)
GiveBack(r) ==
  /\ pc[r] = "release"
  /\ Release(idx[r])
  /\ goto(r, IF MaxConcurrent = 0 THEN verdictStage(r) ELSE "wake")
  /\ UNCHANGED <<idx, tries, res, answer, expired, gone>>

(* Fault: slotFree has no buffer, so a send that finds nobody blocked is    *)
(* dropped.                                                                 *)
WakeUnbuffered(r) ==
  /\ pc[r] = "wake"
  /\ LET waiting == {q \in Requests : pc[q] = "blocked"} IN
       IF waiting # {}
       THEN \E q \in waiting :
              pc' = [pc EXCEPT ![r] = verdictStage(r), ![q] = "check"]
       ELSE goto(r, verdictStage(r))
  /\ UNCHANGED <<poolVars, idx, tries, res, answer, expired, gone>>

(* ... and, after the unlock, its send on slotFree: straight to a waiter    *)
(* blocked in its select when there is one, else into the size-1 buffer,    *)
(* else dropped.                                                            *)
Wake(r) ==
  /\ pc[r] = "wake"
  /\ LET waiting == {q \in Requests : pc[q] = "blocked"} IN
       IF waiting # {}
       THEN /\ \E q \in waiting :
                 pc' = [pc EXCEPT ![r] = verdictStage(r), ![q] = "check"]
            /\ UNCHANGED poolVars
       ELSE goto(r, verdictStage(r)) /\ SendToken
  /\ UNCHANGED <<idx, tries, res, answer, expired, gone>>

-----------------------------------------------------------------------------
(* The selected key had no slot: reject, or queue for one.                  *)

(* Fault: the deadline is looked at inside WaitForSlot only.                *)
SaturatedIgnoringDeadline(r) ==
  /\ pc[r] = "saturated"
  /\ goto(r, "check")
  /\ UNCHANGED <<poolVars, idx, tries, res, answer, expired, gone>>

Saturated(r) ==
  /\ pc[r] = "saturated"
  /\ CASE Saturation = "reject"        -> return(r, "busy429")
       [] Saturation = "queue"
          /\ (~QueueWait \/ expired[r]) -> returnBusy503(r)
       [] OTHER -> /\ goto(r, "check")
                   /\ UNCHANGED <<idx, tries, res, answer, expired, gone>>
  /\ UNCHANGED poolVars

(* WaitForSlot, under the mutex: a free slot on any key ends the wait, and  *)
(* the loop of ServeHTTP selects again without counting a try.              *)
Check(r) ==
  /\ pc[r] = "check"
  /\ goto(r, IF anySlotFree THEN "select" ELSE "park")
  /\ UNCHANGED <<poolVars, idx, tries, res, answer, expired, gone>>

(* The select on slotFree, entered after the unlock: it takes the token     *)
(* that is there, or blocks until a send hands it one.                      *)
Park(r) ==
  /\ pc[r] = "park"
  /\ IF slotFree THEN TakeToken /\ goto(r, "check")
     ELSE goto(r, "blocked") /\ UNCHANGED poolVars
  /\ UNCHANGED <<idx, tries, res, answer, expired, gone>>

(* The same select ends at the deadline or when the client leaves, also     *)
(* when a token is there to be taken.                                       *)
GiveUp(r) ==
  /\ pc[r] \in {"park", "blocked"}
  /\ expired[r] \/ gone[r]
  /\ returnBusy503(r)
  /\ UNCHANGED poolVars

-----------------------------------------------------------------------------
(* The result is handled, the slot already given back.                      *)

Success(r) ==
  /\ pc[r] = "success"
  /\ RecordSuccess(idx[r])
  /\ goto(r, "charge")
  /\ UNCHANGED <<idx, tries, res, answer, expired, gone>>

(* A plan-blocked FMP answer is free, and so is an Exa answer without a     *)
(* cost.  The low-balance refresh behind it only starts a fetch in the      *)
(* background, which BalanceLands ends.                                     *)
Charge(r) ==
  /\ pc[r] = "charge"
  /\ \E cost \in Costs :
       IF \/ planBlocked(Profile, res[r].status, res[r].body)
          \/ Profile = "exa" /\ cost = 0
       THEN UNCHANGED poolVars
       ELSE Decrement(idx[r], cost)
  /\ goto(r, IF isDailyCappedFinance(Profile) THEN "clamp" ELSE "finish")
  /\ UNCHANGED <<idx, tries, res, answer, expired, gone>>

(* Fault: a key exactly at its stop threshold is not held back.             *)
ClampBelow(r) ==
  /\ pc[r] = "clamp"
  /\ goto(r, IF credits[idx[r]] < StopThreshold THEN "hold" ELSE "finish")
  /\ UNCHANGED <<poolVars, idx, tries, res, answer, expired, gone>>

(* PredictedRemaining is read, and the key held back under another lock.    *)
Clamp(r) ==
  /\ pc[r] = "clamp"
  /\ goto(r, IF credits[idx[r]] <= StopThreshold THEN "hold" ELSE "finish")
  /\ UNCHANGED <<poolVars, idx, tries, res, answer, expired, gone>>

Hold(r) ==
  /\ pc[r] = "hold"
  /\ Disable(idx[r], RotateCooldown)
  /\ goto(r, "finish")
  /\ UNCHANGED <<idx, tries, res, answer, expired, gone>>

(* disableUntilReset: the reset instant is fetched or computed, then set.   *)
Drain(r) ==
  /\ pc[r] = "drain"
  /\ \E reset \in Resets : Disable(idx[r], reset)
  /\ goto(r, "advance")
  /\ UNCHANGED <<idx, tries, res, answer, expired, gone>>

(* A reply may carry Retry-After, no reply carries none.                    *)
Advance(r) ==
  /\ pc[r] = "advance"
  /\ \E after \in IF res[r].status = NoStatus THEN {0} ELSE RetryAfters :
       AdvanceAfter(after)
  /\ goto(r, "switch")
  /\ UNCHANGED <<idx, tries, res, answer, expired, gone>>

(* Fault: the bound of the rotation loop is off by one.                     *)
SwitchOneMore(r) ==
  /\ pc[r] = "switch"
  /\ Current
  /\ goto(r, IF tries[r] <= maxRotations THEN "select" ELSE "finish")
  /\ UNCHANGED <<idx, tries, res, answer, expired, gone>>

(* Current once more, to name the next key; the refresh OnSwitchReason may  *)
(* start runs in the background and ends in BalanceLands.  Then the loop.   *)
Switch(r) ==
  /\ pc[r] = "switch"
  /\ Current
  /\ goto(r, IF tries[r] < maxRotations THEN "select" ELSE "finish")
  /\ UNCHANGED <<idx, tries, res, answer, expired, gone>>

(* Fault: nobody looks at the zero status of an attempt without a response. *)
finalAnswerUnchecked(r) ==
  IF current(coolFor) = NoKey THEN "exhausted503" ELSE "upstream"

(* What the client gets, when it is not an over-cap body.                   *)
finalAnswer(r) ==
  IF current(coolFor) = NoKey THEN "exhausted503"
  ELSE IF res[r].kind # "ok" /\ res[r].status = NoStatus THEN "unreachable502"
  ELSE "upstream"

Finish(r) ==
  /\ pc[r] = "finish"
  /\ IF res[r].kind = "capped"
     THEN return(r, "upstream") /\ UNCHANGED poolVars
     ELSE return(r, finalAnswer(r)) /\ Current

-----------------------------------------------------------------------------
(* Everything else that moves.                                              *)

(* The queue deadline, set when the request arrived, passes; nobody looks   *)
(* at the deadline where the keys are unlimited.                            *)
Expire(r) ==
  /\ Saturation = "queue" /\ QueueWait /\ MaxConcurrent > 0
  /\ pc[r] # "idle" /\ ~expired[r]
  /\ expired' = [expired EXCEPT ![r] = TRUE]
  /\ UNCHANGED <<poolVars, pc, idx, tries, res, answer, gone>>

Cancel(r) ==
  /\ r \in Cancels
  /\ pc[r] # "idle" /\ ~gone[r]
  /\ gone' = [gone EXCEPT ![r] = TRUE]
  /\ UNCHANGED <<poolVars, pc, idx, tries, res, answer, expired>>

(* A background fetch (warm-up, daily, low-balance or on-switch) reports a  *)
(* balance.  It may have been started long before.                          *)
BalanceLands ==
  /\ hasUsage(Profile)
  /\ \E k \in Keys, b \in Balances : SetCredits(k, b)
  /\ UNCHANGED reqVars

ResetLoop == ReenableDue /\ UNCHANGED reqVars
Clock == Tick /\ UNCHANGED reqVars

Step(r) ==
  \/ Select(r) \/ Acquire(r) \/ Measure(r) \/ Fetch(r) \/ Launch(r)
  \/ Upstream(r) \/ GiveBack(r) \/ Wake(r)
  \/ Saturated(r) \/ Check(r) \/ Park(r) \/ GiveUp(r)
  \/ Success(r) \/ Charge(r) \/ Clamp(r) \/ Hold(r)
  \/ Drain(r) \/ Advance(r) \/ Switch(r) \/ Finish(r)

Next ==
  \/ \E r \in Requests : Arrive(r) \/ Step(r) \/ Expire(r) \/ Cancel(r)
  \/ BalanceLands \/ ResetLoop \/ Clock

Spec == RotatorInit /\ [][Next]_vars

(* Goroutines are scheduled, upstream calls end (every client has a         *)
(* Timeout), timers fire, the clock advances and resetLoop wakes.  A select *)
(* with several ready cases picks one at random, so a deadline that stays   *)
(* ready is not passed over for ever (strong fairness of GiveUp).  Nothing  *)
(* obliges a client to come, to leave, or a balance fetch to succeed.       *)
Fairness ==
  /\ \A r \in Requests :
       WF_vars(Step(r)) /\ WF_vars(Expire(r)) /\ SF_vars(GiveUp(r))
  /\ WF_vars(ResetLoop) /\ WF_vars(Clock)

FairSpec == Spec /\ Fairness

-----------------------------------------------------------------------------
(* Invariants.                                                              *)

TypeOK ==
  /\ PoolTypeOK
  /\ pc \in [Requests -> Stages]
  /\ idx \in [Requests -> Keys \cup {NoKey}]
  /\ tries \in [Requests -> 0..maxRotations]
  /\ res \in [Requests -> [status : Statuses \cup {NoStatus},
                          body : Bodies, kind : Kinds]]
  /\ answer \in [Requests -> Answers]
  /\ expired \in [Requests -> BOOLEAN]
  /\ gone \in [Requests -> BOOLEAN]

(* Who has taken a slot of k and not given it back.                         *)
holders(k) == {r \in Requests : pc[r] \in Holding /\ idx[r] = k}

(* A key's in-flight count is the number of requests between their          *)
(* TryAcquire and their Release on that key, whatever they went through in  *)
(* between: no slot leaks, none is given back twice (proxy.go:68-71,        *)
(* keys.go:120-149).                                                        *)
SlotsMatchHolders ==
  MaxConcurrent > 0 =>
    \A k \in Keys : inFlight[k] = Cardinality(holders(k))

(* No key ever serves more requests at once than its cap, although the key  *)
(* is selected under one lock and its slot taken under another              *)
(* (proxy.go:64-70).                                                        *)
CapRespected ==
  MaxConcurrent > 0 =>
    \A k \in Keys : Cardinality(holders(k)) <= MaxConcurrent

(* A queued request that no token waits for has somebody to wake it: a      *)
(* request that has a slot, is about to send the token, or was woken and is *)
(* on its way to a slot.  Without one it would sleep to its deadline        *)
(* (keys.go:144-148, 167-183).                                              *)
Waking == Holding \cup {"wake", "check", "select", "acquire", "saturated"}
WaiterHasWaker ==
  \A r \in Requests :
    pc[r] = "blocked" => slotFree \/ \E q \in Requests : pc[q] \in Waking

(* What the client is handed as an upstream response is one: never the zero *)
(* status of an attempt that got none (proxy.go:265-321).                   *)
VerbatimAnswer ==
  [][\A r \in Requests :
       answer[r] = "none" /\ answer'[r] = "upstream"
         => res[r].status # NoStatus]_vars

(* A daily-capped key that was charged down to its stop threshold is        *)
(* disabled, or a request that just charged it is about to disable it:      *)
(* concurrent charges do not leave it behind in service (proxy.go:213-223). *)
(* Nothing is said before the first charge: start-up accepts a budget equal *)
(* to the threshold (config.go:547).                                        *)
Settling(k) ==
  \E r \in Requests : pc[r] \in {"clamp", "hold"} /\ idx[r] = k
StopKeyHeldBack ==
  isDailyCappedFinance(Profile) =>
    \A k \in Keys :
      credits[k] < Seed /\ credits[k] <= StopThreshold
        => disabled[k] \/ Settling(k)

-----------------------------------------------------------------------------
(* The slots the requests hold are leases.                                  *)

Leases == INSTANCE SlotLease WITH
            Clients <- Requests, Slots <- Keys, Cap <- MaxConcurrent,
            lease <- [k \in Keys |-> holders(k)]

(* TryAcquire and Release, spread over the steps of concurrent requests,    *)
(* implement the lease: at most one key per request, at most the cap per    *)
(* key (keys.go:117-149).                                                   *)
ImplementsLeases == Leases!Spec

-----------------------------------------------------------------------------
(* Liveness, under FairSpec.                                                *)

(* Every slot taken is given back in the end (proxy.go:71).                 *)
LeasesReturned == Leases!FairSpec

(* Every request gets an answer or is abandoned: neither the rotation loop  *)
(* nor the queue behind it goes on for ever, although saturated attempts do *)
(* not count as tries (proxy.go:161-182).                                   *)
EveryRequestAnswered ==
  \A r \in Requests : pc[r] = "select" ~> pc[r] = "idle"

(* A key disabled for exhaustion comes back once its reset is due, however  *)
(* often it is disabled again meanwhile (keys.go:440-455, main.go:89-97).   *)
DisabledKeyComesBack ==
  \A k \in Keys : disabled[k] ~> ~disabled[k]
=============================================================================
