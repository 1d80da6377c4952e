------------------------------ MODULE Refresher ------------------------------
(***************************************************************************)
(* How the balance of one key is kept true (refresh.go, the loops of       *)
(* main.go, refreshKey): requests charge the estimate and start refreshes, *)
(* a warm-up and a daily loop start others, and every refresh is a fetch   *)
(* that reads the provider's account at one moment and lands in the pool   *)
(* at a later one.  Nothing here touches two keys at once but the loops    *)
(* over all keys, so the pool has one key; what happens on others shows as *)
(* a choice (Switch, SwitchedOnto, WarmedUp).  Rotator has the rest of the *)
(* handler.                                                                *)
(***************************************************************************)
EXTENDS KeyPool

CONSTANTS
  Requests,      \* requests being served on the key
  Fetchers,      \* bound: background refreshes under way at once
  Warmer,        \* the warm-up's refresh of the key
  MaxCost,       \* bound: the most one request costs upstream
  LowMark,       \* lowMark
  LowInterval,   \* CREDIT_REFRESH_INTERVAL, in units of Tock
  DailyInterval  \* dailyRefresh, in units of Tock

ASSUME RefresherAssumption ==
  /\ KeyCount = 1
  /\ Seed = Unmeasured
  /\ IsFiniteSet(Requests)
  /\ Requests \cap Fetchers = {} /\ Warmer \notin Requests \cup Fetchers
  /\ MaxCost \in Nat \ {0}
  /\ LowMark \in Nat
  /\ LowInterval \in Nat \ {0} /\ DailyInterval \in Nat \ {0}

Key == 0

VARIABLES
  account,   \* what the provider would say is left of the key
  at,        \* where a request is
  owes,      \* what it was billed and the pool will be charged
  job,       \* the refresh a worker is making; see below
  lowFor,    \* time left of the low-refresh throttle (lastLow)
  dailyFor,  \* time left until the next daily refresh (lastDaily)
  warm,      \* the warm-up loop: "due", "waiting", "over"
  lost,      \* credits billed that the estimate has missed
  lowStarts  \* low refreshes started since the throttle last ran out

accountVars == <<account, owes, lost>>
timerVars == <<lowFor, dailyFor, lowStarts>>
vars == <<poolVars, accountVars, at, job, timerVars, warm>>

(* Refreshes run in the background, in the requests that need a balance,    *)
(* and in the warm-up.  One holds what the provider answered, and the       *)
(* credits that answer does not know are gone.                              *)
Workers == Requests \cup Fetchers \cup {Warmer}
Unread == -1
Idle == [seen |-> -2, overlap |-> 0]
Asking == [seen |-> Unread, overlap |-> 0]
answered(w) == job[w].seen >= 0

RefresherInit ==
  /\ PoolInit
  /\ account \in 0..MaxCredits
  /\ at = [r \in Requests |-> "idle"]
  /\ owes = [r \in Requests |-> 0]
  /\ job = [w \in Workers |-> Idle]
  /\ lowFor = 0 /\ dailyFor = 0
  /\ warm = "due"
  /\ lost = 0 /\ lowStarts = 0

-----------------------------------------------------------------------------
(* refreshOne: fetchUsageFor, SetCredits, lastDaily.                        *)

become(w, state) == job' = [job EXCEPT ![w] = state]
begin(w) == become(w, Asking)

(* The provider answers; the answer is still on its way.                    *)
Read(w) ==
  /\ job[w].seen = Unread
  /\ become(w, [job[w] EXCEPT !.seen = account])
  /\ UNCHANGED <<poolVars, accountVars, timerVars, at, warm>>

(* A failure that may pass by itself is followed by another call, any other *)
(* leaves the balance as it was; UsageFetch has the schedule that bounds    *)
(* the calls.                                                               *)
Fail(w) ==
  /\ job[w] # Idle
  /\ become(w, Asking) \/ become(w, Idle)
  /\ UNCHANGED <<poolVars, accountVars, timerVars, at, warm>>

(* Fault: a fetched balance only ever raises the estimate.                  *)
LandTheHigher(w) ==
  /\ answered(w)
  /\ SetCredits(Key, IF credits[Key] = Unmeasured THEN job[w].seen
                     ELSE Larger(credits[Key], job[w].seen))
  /\ lost' = job[w].overlap
  /\ dailyFor' = DailyInterval
  /\ become(w, Idle)
  /\ UNCHANGED <<account, owes, lowFor, lowStarts, at, warm>>

Land(w) ==
  /\ answered(w)
  /\ SetCredits(Key, job[w].seen)
  /\ lost' = job[w].overlap
  /\ dailyFor' = DailyInterval
  /\ become(w, Idle)
  /\ UNCHANGED <<account, owes, lowFor, lowStarts, at, warm>>

-----------------------------------------------------------------------------
(* A request.                                                               *)

goto(r, stage) == at' = [at EXCEPT ![r] = stage]

Select(r) ==
  /\ at[r] = "idle" /\ usable(Key)
  /\ goto(r, "measure")
  /\ UNCHANGED <<poolVars, accountVars, timerVars, job, warm>>

(* EnsureMeasured: the request itself fetches a balance nobody has, as does *)
(* every other request that finds none.                                     *)
Measure(r) ==
  /\ at[r] = "measure"
  /\ goto(r, "send")
  /\ IF credits[Key] = Unmeasured THEN begin(r) ELSE UNCHANGED job
  /\ UNCHANGED <<poolVars, accountVars, timerVars, warm>>

(* Every refresh that has its answer misses n credits more.                 *)
missing(n) ==
  [w \in Workers |-> IF answered(w) THEN [job[w] EXCEPT !.overlap = @ + n]
                     ELSE job[w]]

(* Nobody will charge the pool for these.                                   *)
lose(n) == lost' = lost + n /\ job' = missing(n)

(* The response reports what it cost, or says nothing and the pool will be  *)
(* charged a guess of one credit, as it is for a free one.                  *)
Answered(r, cost) ==
  \E known \in {cost, Smaller(1, cost)} :
    /\ goto(r, "charge")
    /\ owes' = [owes EXCEPT ![r] = known]
    /\ lose(cost - known)

(* Nothing is charged for a body over the cap, nor for a call that is billed*)
(* and then times out or breaks off, which tryKey repeats or gives up.      *)
Unanswered(r, cost) ==
  /\ goto(r, "idle") \/ goto(r, "send")
  /\ lose(cost)
  /\ UNCHANGED owes

(* Upstream refuses a request, or it bills the request to the account that  *)
(* covers it; a request the account does not cover is refused for that.     *)
Upstream(r) ==
  /\ at[r] = "send" /\ job[r] = Idle
  /\ \/ goto(r, "idle") /\ UNCHANGED <<accountVars, job>>
     \/ account < MaxCost /\ goto(r, "drain") /\ UNCHANGED <<accountVars, job>>
     \/ \E cost \in 0..Smaller(account, MaxCost) :
          /\ account' = account - cost
          /\ Answered(r, cost) \/ Unanswered(r, cost)
  /\ UNCHANGED <<poolVars, timerVars, warm>>

(* Decrement.                                                               *)
Charge(r) ==
  /\ at[r] = "charge"
  /\ Decrement(Key, owes[r])
  /\ owes' = [owes EXCEPT ![r] = 0]
  /\ job' = missing(owes[r])
  /\ goto(r, "snapshot")
  /\ UNCHANGED <<account, lost, timerVars, warm>>

(* MaybeRefreshLow looks at the estimate under the pool's lock ...          *)
Snapshot(r) ==
  /\ at[r] = "snapshot"
  /\ goto(r, IF credits[Key] < LowMark /\ credits[Key] # Unmeasured
             THEN "claim" ELSE "idle")
  /\ UNCHANGED <<poolVars, accountVars, timerVars, job, warm>>

(* Fault: looked at before the lock is taken, as the estimate is: whoever   *)
(* got this far has seen no throttle.                                       *)
throttledBefore == FALSE

(* lastLow is younger than lowInterval.                                     *)
throttled == lowFor > 0

(* ... and claims the throttle under the refresher's, before the fetch has  *)
(* succeeded or failed.                                                     *)
Claim(r) ==
  /\ at[r] = "claim"
  /\ goto(r, "idle")
  /\ IF throttled THEN UNCHANGED <<job, lowFor, lowStarts>>
     ELSE /\ \E f \in Fetchers : job[f] = Idle /\ begin(f)
          /\ lowFor' = LowInterval
          /\ lowStarts' = lowStarts + 1
  /\ UNCHANGED <<poolVars, accountVars, dailyFor, warm>>

(* disableUntilReset.                                                       *)
Drain(r) ==
  /\ at[r] = "drain"
  /\ \E until \in 1..MaxReset : Disable(Key, until)
  /\ goto(r, "switch")
  /\ UNCHANGED <<accountVars, timerVars, job, warm>>

(* OnSwitchReason: the key left is refreshed when another one is usable and *)
(* the rejection said its credits are gone.  After any other nothing starts *)
(* (balanceMayHaveChanged).                                                 *)
Switch(r) ==
  /\ at[r] = "switch"
  /\ goto(r, "idle")
  /\ \/ UNCHANGED job
     \/ \E f \in Fetchers : job[f] = Idle /\ begin(f)
  /\ UNCHANGED <<poolVars, accountVars, timerVars, warm>>

(* ... and so is the key selected instead: this one, when a request has     *)
(* just drained another.                                                    *)
SwitchedOnto ==
  /\ usable(Key)
  /\ \E f \in Fetchers : job[f] = Idle /\ begin(f)
  /\ UNCHANGED <<poolVars, accountVars, timerVars, at, warm>>

-----------------------------------------------------------------------------
(* The loops.                                                               *)

(* RefreshAll counts as a daily refresh, whether its fetch succeeds or not. *)
WarmUp ==
  /\ warm = "due"
  /\ warm' = "waiting"
  /\ begin(Warmer)
  /\ dailyFor' = DailyInterval
  /\ UNCHANGED <<poolVars, accountVars, lowFor, lowStarts, at>>

(* warmupLoop goes on while a pass leaves any key unmeasured, this one or   *)
(* another.                                                                 *)
WarmedUp ==
  /\ warm = "waiting" /\ job[Warmer] = Idle
  /\ \/ warm' = "due"
     \/ credits[Key] # Unmeasured /\ warm' = "over"
  /\ UNCHANGED <<poolVars, accountVars, timerVars, at, job>>

(* Fault: a key that is out of service is not worth a fetch.                *)
DailyRefreshIfUsable ==
  /\ dailyFor = 0
  /\ dailyFor' = DailyInterval
  /\ \/ ~usable(Key) /\ UNCHANGED job
     \/ usable(Key) /\ \E f \in Fetchers : job[f] = Idle /\ begin(f)
  /\ UNCHANGED <<poolVars, accountVars, lowFor, lowStarts, at, warm>>

(* The hourly turn; the next refresh is a day away even when this one fails.*)
DailyRefresh ==
  /\ dailyFor = 0
  /\ dailyFor' = DailyInterval
  /\ \E f \in Fetchers : job[f] = Idle /\ begin(f)
  /\ UNCHANGED <<poolVars, accountVars, lowFor, lowStarts, at, warm>>

ResetLoop ==
  /\ ReenableDue
  /\ UNCHANGED <<accountVars, timerVars, at, job, warm>>

Tock ==
  /\ dueIn[Key] > 0 \/ lowFor > 0 \/ dailyFor > 0
  /\ dueIn' = [k \in Keys |-> Larger(0, dueIn[k] - 1)]
  /\ lowFor' = Larger(0, lowFor - 1)
  /\ dailyFor' = Larger(0, dailyFor - 1)
  /\ lowStarts' = IF lowFor' = 0 THEN 0 ELSE lowStarts
  /\ UNCHANGED <<cursor, disabled, credits, coolFor, inFlight, slotFree,
                 accountVars, at, job, warm>>

(* The provider credits the account.  That is once a month and a fetch      *)
(* takes seconds.  Bounds: no fetch misses credits and then a refill, and   *)
(* less than MaxCredits are missing when one comes.                         *)
Refill ==
  /\ account < MaxCredits /\ lost < MaxCredits
  /\ \A w \in Workers : job[w].overlap = 0
  /\ account' = MaxCredits
  /\ UNCHANGED <<poolVars, owes, lost, timerVars, at, job, warm>>

RequestStep(r) ==
  \/ Measure(r) \/ Upstream(r) \/ Charge(r) \/ Snapshot(r) \/ Claim(r)
  \/ Drain(r) \/ Switch(r)

Next ==
  \/ \E r \in Requests : Select(r) \/ RequestStep(r)
  \/ \E w \in Workers : Read(w) \/ Fail(w) \/ Land(w)
  \/ SwitchedOnto \/ WarmUp \/ WarmedUp \/ DailyRefresh
  \/ ResetLoop \/ Tock \/ Refill

Spec == RefresherInit /\ [][Next]_vars

(* The tickers tick, and of the provider it is assumed that not every fetch *)
(* of a key fails for ever.  Nothing is asked of requests, nor of the       *)
(* warm-up.                                                                 *)
Fairness ==
  /\ SF_vars(\E w \in Workers : Read(w)) /\ SF_vars(\E w \in Workers : Land(w))
  /\ SF_vars(DailyRefresh)
  /\ WF_vars(ResetLoop) /\ WF_vars(Tock)

FairSpec == Spec /\ Fairness

-----------------------------------------------------------------------------

RefresherTypeOK ==
  /\ PoolTypeOK
  /\ account \in 0..MaxCredits
  /\ at \in [Requests -> {"idle", "measure", "send", "charge", "snapshot",
                          "claim", "drain", "switch"}]
  /\ owes \in [Requests -> 0..MaxCost]
  /\ job \in [Workers -> [seen : -2..MaxCredits, overlap : Nat]]
  /\ lowFor \in 0..LowInterval /\ dailyFor \in 0..DailyInterval
  /\ warm \in {"due", "waiting", "over"}
  /\ lost \in Nat /\ lowStarts \in Nat

(* However many requests find the key low at once, one interval sees one    *)
(* low-balance refresh of it (refresh.go:24-25, 92-111).                    *)
LowRefreshThrottled == lowStarts <= 1

(* What the pool will still be charged, credit by credit.                   *)
Debt == {unit \in Requests \X (1..MaxCost) : unit[2] <= owes[unit[1]]}

(* An estimate promises no more than the account holds, but for charges on  *)
(* their way to the pool, and for what was billed since the fetch that      *)
(* landed last was answered and no charge has undone: charges that landing  *)
(* overwrote, costs nobody reported beyond the guess of 1, bodies over the  *)
(* cap, calls that timed out after they were billed.  No older reading, no  *)
(* second fetch and no disable or re-enable adds to the error               *)
(* (creditusage.go:405-412, keys.go:353-406, proxy.go:204-209, 371-390).    *)
EstimateErrsByWhatItMissed ==
  credits[Key] # Unmeasured => credits[Key] <= account + Cardinality(Debt) + lost

(* A key whose estimate took it out of service does not stay out of it      *)
(* while its account has credits: nothing selects it, so only the loops can *)
(* bring it back (refresh.go:26, 113-131, main.go:99-126).                  *)
StrandedKeyReturns == []<>(usable(Key) \/ account < StopThreshold)
=============================================================================
