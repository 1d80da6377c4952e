--------------------------- MODULE RefresherProofs ---------------------------
(***************************************************************************)
(* The balance of a key, for every number of requests and of concurrent    *)
(* refreshes, every cost, balance and interval.                            *)
(***************************************************************************)
EXTENDS Refresher, KeyPoolProofs, FiniteSetTheorems

(* The throttle has a start to show for itself, and no more.                *)
ThrottleInv == lowStarts <= 1 /\ (lowFor = 0 => lowStarts = 0)

(* An answer on its way errs by what it does not know is gone; the estimate *)
(* errs by no more once it is applied.  Only a request about to charge the  *)
(* pool owes it anything.                                                   *)
AnswersErrByOverlap ==
  \A w \in Workers :
    answered(w) => job[w].seen <= account + Cardinality(Debt) + job[w].overlap
OwesToCharge == \A r \in Requests : at[r] # "charge" => owes[r] = 0
BalanceInv == EstimateErrsByWhatItMissed /\ AnswersErrByOverlap /\ OwesToCharge

-----------------------------------------------------------------------------
(* The assumptions on the constants, in the form the leaves use.            *)
LEMMA RefresherConstants ==
  /\ Key \in Keys /\ \A k \in Keys : k = Key
  /\ MaxCredits \in Nat /\ Unmeasured = MaxCredits + 1
  /\ StopThreshold \in 0..MaxCredits
  /\ MaxReset \in Nat
  /\ IsFiniteSet(Requests)
  /\ Requests \subseteq Workers /\ Fetchers \subseteq Workers /\ Warmer \in Workers
  /\ MaxCost \in Nat \ {0}
  /\ LowInterval \in Nat \ {0} /\ DailyInterval \in Nat \ {0}
<1>1. Keys = {Key}
  BY RefresherAssumption DEF RefresherAssumption, Keys, Key
<1>2. QED
  BY <1>1, PoolConstants, RefresherAssumption DEF RefresherAssumption, Workers

Jobs == [seen : -2..MaxCredits, overlap : Nat]

(* What a worker may turn into.                                             *)
LEMMA JobStates == Idle \in Jobs /\ Asking \in Jobs
BY RefresherConstants DEF Idle, Asking, Unread, Jobs

(* A fetch that missed a charge is still a fetch.                           *)
LEMMA MissedTyped ==
  ASSUME job \in [Workers -> Jobs], NEW n \in Nat
  PROVE  missing(n) \in [Workers -> Jobs]
BY DEF missing, Jobs

(* Nothing that concerns a balance cools a key down, so time passes for     *)
(* dueIn alone, as in Tick.                                                 *)
NoCooldown == coolFor = [k \in Keys |-> 0]

(* Every step changes the pool through one of its methods, or not at all.   *)
LEMMA RefresherCallsPool ==
  ASSUME RefresherTypeOK, NoCooldown, Next
  PROVE  PoolCall \/ UNCHANGED poolVars
<1> USE RefresherConstants
<1>1. ASSUME NEW r \in Requests, Charge(r)
      PROVE  PoolCall
  <2>1. owes[r] \in Nat
    BY DEF RefresherTypeOK
  <2>2. QED
    BY <1>1, <2>1 DEF Charge, PoolCall
<1>2. ASSUME NEW r \in Requests, Drain(r)
      PROVE  PoolCall
  <2>1. PICK until \in 1..MaxReset : Disable(Key, until)
    BY <1>2 DEF Drain
  <2>2. QED
    BY <2>1 DEF PoolCall
<1>3. ASSUME NEW w \in Workers, Land(w)
      PROVE  PoolCall
  <2>1. job[w].seen \in 0..MaxCredits
    BY <1>3 DEF Land, answered, RefresherTypeOK
  <2>2. QED
    BY <1>3, <2>1 DEF Land, PoolCall
<1>4. CASE ResetLoop
  BY <1>4 DEF ResetLoop, PoolCall
<1>5. CASE Tock
  <2>1. dueIn \in [Keys -> 0..MaxReset] /\ \A k \in Keys : coolFor[k] = 0
    BY DEF RefresherTypeOK, PoolTypeOK, NoCooldown
  <2>2. coolFor' = [k \in Keys |-> Larger(0, coolFor[k] - 1)]
    BY <1>5, <2>1 DEF Tock, NoCooldown, Larger
  <2>3. CASE dueIn[Key] > 0
    BY <1>5, <2>2, <2>3 DEF Tock, Tick, PoolCall
  <2>4. CASE ~ dueIn[Key] > 0
    <3>1. \A k \in Keys : dueIn[k] = 0
      BY <2>1, <2>4
    <3>2. dueIn' = dueIn
      BY <1>5, <2>1, <3>1 DEF Tock, Larger
    <3>3. QED
      BY <1>5, <3>2 DEF Tock, poolVars
  <2>5. QED
    BY <2>3, <2>4
<1>6. QED
  BY <1>1, <1>2, <1>3, <1>4, <1>5
     DEF Next, RequestStep, Select, Measure, Upstream, Snapshot, Claim, Switch,
         Read, Fail, SwitchedOnto, WarmUp, WarmedUp, DailyRefresh, Refill

LEMMA NeverCooled == Spec => []NoCooldown
<1>1. RefresherInit => NoCooldown
  BY DEF RefresherInit, PoolInit, NoCooldown
<1>2. [Next]_vars => UNCHANGED coolFor
  BY DEF Next, RequestStep, Select, Measure, Upstream, Charge, Snapshot, Claim, Drain,
         Switch, Read, Fail, Land, SwitchedOnto, WarmUp, WarmedUp, DailyRefresh,
         ResetLoop, Tock, Refill, Decrement, Disable, SetCredits, ReenableDue,
         vars, poolVars
<1>3. NoCooldown /\ [Next]_vars => NoCooldown'
  BY <1>2 DEF NoCooldown
<1>4. QED
  BY <1>1, <1>3, PTL DEF Spec

Stages == {"idle", "measure", "send", "charge", "snapshot", "claim", "drain",
           "switch"}
(* What a call costs is billed to the account, and is owed to the pool in   *)
(* part and lost for the rest.                                              *)
LEMMA UpstreamBills ==
  ASSUME RefresherTypeOK, NEW r \in Requests, Upstream(r)
  PROVE  \/ UNCHANGED <<accountVars, job>> /\ (goto(r, "idle") \/ goto(r, "drain"))
         \/ \E cost \in 0..account, known \in 0..MaxCost :
              /\ known <= cost
              /\ account' = account - cost
              /\ lose(cost - known)
              /\ \/ goto(r, "charge") /\ owes' = [owes EXCEPT ![r] = known]
                 \/ /\ known = 0 /\ UNCHANGED owes
                    /\ goto(r, "idle") \/ goto(r, "send")
<1> USE RefresherConstants
<1>1. account \in Nat
  BY DEF RefresherTypeOK
<1>2. CASE UNCHANGED <<accountVars, job>> /\ (goto(r, "idle") \/ goto(r, "drain"))
  BY <1>2
<1>3. ASSUME NEW cost \in 0..Smaller(account, MaxCost), account' = account - cost,
             Answered(r, cost) \/ Unanswered(r, cost)
      PROVE  \E known \in 0..MaxCost :
               /\ known <= cost
               /\ lose(cost - known)
               /\ \/ goto(r, "charge") /\ owes' = [owes EXCEPT ![r] = known]
                  \/ /\ known = 0 /\ UNCHANGED owes
                     /\ goto(r, "idle") \/ goto(r, "send")
  <2>1. cost \in 0..MaxCost
    BY <1>1 DEF Smaller
  <2>2. Smaller(1, cost) \in 0..MaxCost /\ Smaller(1, cost) <= cost
    BY <2>1 DEF Smaller
  <2>3. CASE Answered(r, cost)
    <3>1. PICK known \in {cost, Smaller(1, cost)} :
            /\ goto(r, "charge") /\ owes' = [owes EXCEPT ![r] = known]
            /\ lose(cost - known)
      BY <2>3 DEF Answered
    <3>2. known \in 0..MaxCost /\ known <= cost
      BY <2>1, <2>2
    <3>3. QED
      BY <3>1, <3>2
  <2>4. CASE Unanswered(r, cost)
    <3>1. cost - 0 = cost /\ 0 \in 0..MaxCost /\ 0 <= cost
      BY <2>1
    <3>2. lose(cost - 0) /\ UNCHANGED owes /\ (goto(r, "idle") \/ goto(r, "send"))
      BY <2>4, <3>1 DEF Unanswered
    <3>3. QED
      BY <3>1, <3>2
  <2>5. QED
    BY <1>3, <2>3, <2>4
<1>4. \A cost \in 0..Smaller(account, MaxCost) : cost \in 0..account
  BY <1>1 DEF Smaller
<1>5. QED
  BY <1>2, <1>3, <1>4 DEF Upstream, accountVars

(* Requests and refreshes stay in theirs.                                   *)
LEMMA ActorTypes ==
  ASSUME RefresherTypeOK, Next
  PROVE  /\ at' \in [Requests -> Stages] /\ job' \in [Workers -> Jobs]
         /\ owes' \in [Requests -> 0..MaxCost]
<1> USE RefresherConstants, JobStates
<1>1. /\ at \in [Requests -> Stages] /\ job \in [Workers -> Jobs]
      /\ owes \in [Requests -> 0..MaxCost]
  BY DEF RefresherTypeOK, Stages, Jobs
<1>2. \A w \in Workers : begin(w) => job' \in [Workers -> Jobs]
  BY <1>1 DEF begin, become
<1>3. account \in 0..MaxCredits
  BY DEF RefresherTypeOK
<1>4. ASSUME NEW r \in Requests, Select(r) \/ RequestStep(r)
      PROVE  at' \in [Requests -> Stages]
  BY <1>1, <1>4 DEF Select, RequestStep, Measure, Upstream, Answered, Unanswered,
         Charge, Snapshot, Claim, Drain, Switch, goto, Stages
<1>5. ASSUME NEW r \in Requests, Select(r) \/ RequestStep(r)
      PROVE  job' \in [Workers -> Jobs]
  <2>1. CASE Measure(r) \/ Claim(r) \/ Switch(r)
    BY <1>1, <1>2, <2>1 DEF Measure, Claim, Switch
  <2>2. CASE Charge(r)
    BY <1>1, <2>2, MissedTyped DEF Charge
  <2>3. CASE Select(r) \/ Snapshot(r) \/ Drain(r)
    BY <1>1, <2>3 DEF Select, Snapshot, Drain
  <2>4. CASE Upstream(r)
    <3>1. \A cost \in 0..account, known \in 0..MaxCost :
            known <= cost /\ lose(cost - known) => job' \in [Workers -> Jobs]
      BY <1>1, <1>3, MissedTyped DEF lose
    <3>2. QED
      BY <1>1, <2>4, <3>1, UpstreamBills
  <2>5. QED
    BY <1>5, <2>1, <2>2, <2>3, <2>4 DEF RequestStep
<1>6. ASSUME NEW w \in Workers, Read(w)
      PROVE  job' \in [Workers -> Jobs]
  <2>1. [job[w] EXCEPT !.seen = account] \in Jobs
    BY <1>1, <1>3 DEF Jobs
  <2>2. QED
    BY <1>1, <1>6, <2>1 DEF Read, become
<1>7. ASSUME NEW w \in Workers, Fail(w)
      PROVE  job' \in [Workers -> Jobs]
  BY <1>1, <1>7 DEF Fail, become
<1>8. ASSUME NEW w \in Workers, Land(w)
      PROVE  job' \in [Workers -> Jobs]
  BY <1>1, <1>8 DEF Land, become
<1>9. CASE SwitchedOnto \/ WarmUp \/ DailyRefresh
  BY <1>1, <1>2, <1>9 DEF SwitchedOnto, WarmUp, DailyRefresh, accountVars
<1>10. CASE WarmedUp \/ ResetLoop \/ Tock \/ Refill
  BY <1>1, <1>10 DEF WarmedUp, ResetLoop, Tock, Refill, accountVars
<1>11. \A w \in Workers : Read(w) \/ Fail(w) \/ Land(w) => UNCHANGED at
  BY DEF Read, Fail, Land
<1>12. SwitchedOnto \/ WarmUp \/ DailyRefresh => UNCHANGED at
  BY DEF SwitchedOnto, WarmUp, DailyRefresh
<1>13. owes' \in [Requests -> 0..MaxCost]
  <2>1. ASSUME NEW r \in Requests, Charge(r)
        PROVE  owes' \in [Requests -> 0..MaxCost]
    BY <1>1, <2>1 DEF Charge
  <2>2. ASSUME NEW r \in Requests, Upstream(r)
        PROVE  owes' \in [Requests -> 0..MaxCost]
    BY <1>1, <2>2, UpstreamBills DEF accountVars
  <2>3. QED
    BY <1>1, <2>1, <2>2
       DEF Next, RequestStep, Select, Measure, Snapshot, Claim, Drain, Switch, Read,
           Fail, Land, SwitchedOnto, WarmUp, WarmedUp, DailyRefresh, ResetLoop, Tock,
           Refill, accountVars
<1>14. QED
  BY <1>1, <1>4, <1>5, <1>6, <1>7, <1>8, <1>9, <1>10, <1>11, <1>12, <1>13 DEF Next
     , WarmedUp, ResetLoop, Tock, Refill

(* So do the timers and the counts.                                         *)
LEMMA CountTypes ==
  ASSUME RefresherTypeOK, Next
  PROVE  /\ account' \in 0..MaxCredits
         /\ lowFor' \in 0..LowInterval /\ dailyFor' \in 0..DailyInterval
         /\ warm' \in {"due", "waiting", "over"}
         /\ lost' \in Nat /\ lowStarts' \in Nat
<1> USE RefresherConstants DEF RefresherTypeOK, accountVars, timerVars
<1>1. ASSUME NEW r \in Requests, Upstream(r)
      PROVE  account' \in 0..MaxCredits /\ lost' \in Nat /\ UNCHANGED <<timerVars, warm>>
  <2>1. UNCHANGED <<timerVars, warm>>
    BY <1>1 DEF Upstream
  <2>2. \A cost \in 0..account, known \in 0..MaxCost :
          /\ account - cost \in 0..MaxCredits
          /\ known <= cost /\ lose(cost - known) => lost' \in Nat
    BY DEF lose
  <2>3. QED
    BY <1>1, <2>1, <2>2, UpstreamBills
<1>2. ASSUME NEW r \in Requests,
             \/ Select(r) \/ Measure(r) \/ Charge(r) \/ Snapshot(r)
             \/ Drain(r) \/ Switch(r)
      PROVE  UNCHANGED <<account, lost, timerVars, warm>>
  BY <1>2 DEF Select, Measure, Charge, Snapshot, Drain, Switch
<1>3. ASSUME NEW r \in Requests, Claim(r)
      PROVE  /\ lowFor' \in 0..LowInterval /\ lowStarts' \in Nat
             /\ UNCHANGED <<accountVars, dailyFor, warm>>
  BY <1>3 DEF Claim
<1>4. ASSUME NEW w \in Workers, Read(w) \/ Fail(w)
      PROVE  UNCHANGED <<accountVars, timerVars, warm>>
  BY <1>4 DEF Read, Fail
<1>5. ASSUME NEW w \in Workers, Land(w)
      PROVE  /\ lost' \in Nat /\ dailyFor' \in 0..DailyInterval
             /\ UNCHANGED <<account, lowFor, lowStarts, warm>>
  BY <1>5 DEF Land
<1>6. CASE SwitchedOnto \/ WarmUp \/ WarmedUp \/ DailyRefresh \/ ResetLoop
  BY <1>6 DEF SwitchedOnto, WarmUp, WarmedUp, DailyRefresh, ResetLoop
<1>7. CASE Tock
  BY <1>7 DEF Tock, Larger
<1>8. CASE Refill
  BY <1>8 DEF Refill
<1>9. QED
  BY <1>1, <1>2, <1>3, <1>4, <1>5, <1>6, <1>7, <1>8 DEF Next, RequestStep

(* Every variable keeps its range: no balance leaves it, whatever is billed *)
(* and lost (keys.go:353-406).                                              *)
THEOREM RefresherTyped == Spec => []RefresherTypeOK
<1>1. RefresherInit => RefresherTypeOK
  <2> SUFFICES ASSUME RefresherInit PROVE RefresherTypeOK
    OBVIOUS
  <2>1. PoolTypeOK
    BY PoolInitTypes DEF RefresherInit
  <2>2. job \in [Workers -> Jobs]
    BY JobStates DEF RefresherInit
  <2>3. QED
    BY <2>1, <2>2, RefresherConstants DEF RefresherInit, RefresherTypeOK, Jobs
<1>2. RefresherTypeOK /\ NoCooldown /\ [Next]_vars => RefresherTypeOK'
  <2>1. ASSUME RefresherTypeOK, NoCooldown, Next
        PROVE  RefresherTypeOK'
    <3>1. PoolTypeOK
      BY <2>1 DEF RefresherTypeOK
    <3>2. PoolTypeOK'
      <4>1. CASE PoolCall
        BY <3>1, <4>1, PoolCallTypes
      <4>2. CASE UNCHANGED poolVars
        BY <3>1, <4>2 DEF PoolTypeOK, poolVars
      <4>3. QED
        BY <2>1, <4>1, <4>2, RefresherCallsPool
    <3>3. QED
      BY <2>1, <3>2, ActorTypes, CountTypes DEF RefresherTypeOK, Stages, Jobs
  <2>2. ASSUME RefresherTypeOK, UNCHANGED vars
        PROVE  RefresherTypeOK'
    BY <2>2 DEF RefresherTypeOK, PoolTypeOK, vars, poolVars, accountVars, timerVars
  <2>3. QED
    BY <2>1, <2>2
<1>3. QED
  BY <1>1, <1>2, NeverCooled, PTL DEF Spec

(* Requests, refreshes and loops use the key's pool through its methods     *)
(* only, one method in a step (refresh.go, creditusage.go:402-443).         *)
THEOREM RefresherUsesPool == Spec => PoolCalled
<1>1. RefresherInit => PoolInit
  BY DEF RefresherInit
<1>2. RefresherTypeOK /\ NoCooldown /\ [Next]_vars => [PoolCall]_poolVars
  <2>1. UNCHANGED vars => UNCHANGED poolVars
    BY DEF vars
  <2>2. QED
    BY <2>1, RefresherCallsPool
<1>3. QED
  BY <1>1, <1>2, RefresherTyped, NeverCooled, PTL DEF Spec, PoolCalled

(* However many refreshes are under way, the pool refuses the key only when *)
(* it is not usable, and a key brought back serves, whatever landed while   *)
(* it was disabled (keys.go:436-455).                                       *)
THEOREM RefreshedPoolBehaves ==
  Spec => []CooldownNeverRefuses /\ ReenabledKeyServes
BY RefresherUsesPool, CalledSelects, CalledBringsBack, PTL

-----------------------------------------------------------------------------
(* However many requests find the key low at once, one interval sees one    *)
(* low-balance refresh (refresh.go:92-111).                                 *)
THEOREM LowRefreshesThrottled == Spec => []LowRefreshThrottled
<1>1. RefresherInit => ThrottleInv
  BY DEF RefresherInit, ThrottleInv
<1>2. RefresherTypeOK /\ ThrottleInv /\ [Next]_vars => ThrottleInv'
  <2> SUFFICES ASSUME RefresherTypeOK, ThrottleInv, [Next]_vars
               PROVE  ThrottleInv'
    OBVIOUS
  <2> USE RefresherConstants DEF RefresherTypeOK, ThrottleInv
  <2>1. CASE UNCHANGED <<lowFor, lowStarts>>
    BY <2>1
  <2>2. ASSUME NEW r \in Requests, Claim(r)
        PROVE  ThrottleInv'
    BY <2>2 DEF Claim, throttled
  <2>3. CASE Tock
    BY <2>3 DEF Tock, Larger
  <2>4. QED
    BY <2>1, <2>2, <2>3
       DEF Next, RequestStep, Select, Measure, Upstream, Charge, Snapshot, Drain,
           Switch, Read, Fail, Land, SwitchedOnto, WarmUp, WarmedUp, DailyRefresh,
           ResetLoop, Refill, vars, timerVars
<1>3. ThrottleInv => LowRefreshThrottled
  BY DEF ThrottleInv, LowRefreshThrottled
<1>4. QED
  BY <1>1, <1>2, <1>3, RefresherTyped, PTL DEF Spec

-----------------------------------------------------------------------------
(* What is owed when requests owe f, credit by credit, and the part of it   *)
(* that is not r's.                                                         *)
DebtUnder(f) == {unit \in Requests \X (1..MaxCost) : unit[2] <= f[unit[1]]}
DebtBut(f, r) ==
  {unit \in (Requests \ {r}) \X (1..MaxCost) : unit[2] <= f[unit[1]]}

(* There are only so many credits to owe.                                   *)
LEMMA UnitsFinite == IsFiniteSet(Requests \X (1..MaxCost))
<1>1. IsFiniteSet(1..MaxCost)
  BY RefresherConstants, FS_Interval
<1>2. QED
  BY <1>1, RefresherConstants, FS_Product

(* The debt is r's part and the rest.                                       *)
LEMMA DebtSplits ==
  ASSUME NEW f \in [Requests -> 0..MaxCost], NEW r \in Requests
  PROVE  /\ Cardinality(DebtBut(f, r)) \in Nat
         /\ Cardinality(DebtUnder(f)) = Cardinality(DebtBut(f, r)) + f[r]
<1> USE RefresherConstants
<1> DEFINE own == {r} \X (1..f[r])
<1>1. f[r] \in 0..MaxCost
  OBVIOUS
<1>2. IsFiniteSet(DebtBut(f, r))
  <2>1. DebtBut(f, r) \in SUBSET (Requests \X (1..MaxCost))
    BY DEF DebtBut
  <2>2. QED
    BY <2>1, UnitsFinite, FS_Subset
<1>3. IsFiniteSet(own) /\ Cardinality(own) = f[r]
  <2>1. IsFiniteSet(1..f[r]) /\ Cardinality(1..f[r]) = f[r]
    BY <1>1, FS_Interval
  <2>2. IsFiniteSet({r}) /\ Cardinality({r}) = 1
    BY FS_Singleton
  <2>3. /\ IsFiniteSet(own)
        /\ Cardinality(own) = Cardinality({r}) * Cardinality(1..f[r])
    BY <2>1, <2>2, FS_Product, Zenon
  <2>4. Cardinality(own) = 1 * f[r]
    BY <2>1, <2>2, <2>3, Zenon
  <2>5. QED
    BY <1>1, <2>3, <2>4
<1>4. DebtUnder(f) = DebtBut(f, r) \cup own
  BY <1>1 DEF DebtUnder, DebtBut
<1>5. DebtBut(f, r) \cap own = {}
  BY DEF DebtBut
<1>6. Cardinality(DebtUnder(f)) = Cardinality(DebtBut(f, r)) + f[r] - Cardinality({})
  <2> HIDE DEF own
  <2> QED
    BY <1>2, <1>3, <1>4, <1>5, FS_Union
<1>7. QED
  BY <1>1, <1>2, <1>6, FS_CardinalityType, FS_EmptySet

(* The debt changes by what one request owes.                               *)
LEMMA DebtCounts ==
  ASSUME RefresherTypeOK, NEW r \in Requests, NEW n \in 0..MaxCost,
         owes' = [owes EXCEPT ![r] = n]
  PROVE  /\ owes[r] \in 0..Cardinality(Debt)
         /\ Cardinality(Debt') = Cardinality(Debt) - owes[r] + n
<1>1. /\ owes \in [Requests -> 0..MaxCost] /\ owes' \in [Requests -> 0..MaxCost]
      /\ owes'[r] = n
  BY DEF RefresherTypeOK
<1>2. Debt = DebtUnder(owes) /\ Debt' = DebtUnder(owes')
  BY DEF Debt, DebtUnder
<1>3. DebtBut(owes', r) = DebtBut(owes, r)
  BY <1>1 DEF DebtBut
<1>4. /\ Cardinality(DebtBut(owes, r)) \in Nat
      /\ Cardinality(DebtUnder(owes)) = Cardinality(DebtBut(owes, r)) + owes[r]
      /\ Cardinality(DebtUnder(owes')) = Cardinality(DebtBut(owes', r)) + n
  BY <1>1, DebtSplits
<1>5. QED
  BY <1>1, <1>2, <1>3, <1>4, RefresherConstants

(* It is finite.                                                            *)
LEMMA DebtIsNat ==
  ASSUME RefresherTypeOK
  PROVE  Cardinality(Debt) \in Nat
<1>1. Debt \in SUBSET (Requests \X (1..MaxCost))
  BY DEF Debt
<1>2. QED
  BY <1>1, UnitsFinite, FS_Subset, FS_CardinalityType

(* An actor that turns to a fetch, to a later try or to rest brings no      *)
(* answer with it.                                                          *)
LEMMA NewFetchKnowsNothing ==
  ASSUME RefresherTypeOK, AnswersErrByOverlap, UNCHANGED account,
         NEW bill, bill = Cardinality(Debt'), bill = Cardinality(Debt),
         NEW w \in Workers, NEW state, become(w, state), ~(state.seen >= 0)
  PROVE  AnswersErrByOverlap'
<1>1. job' = [job EXCEPT ![w] = state] /\ job \in [Workers -> Jobs]
  BY DEF become, RefresherTypeOK, Jobs
<1>2. ASSUME NEW v \in Workers, job'[v].seen >= 0
      PROVE  /\ job[v].seen >= 0 /\ job'[v].seen = job[v].seen
             /\ job'[v].overlap = job[v].overlap
  BY <1>1, <1>2
<1>3. \A v \in Workers : job[v].seen >= 0 => job[v].seen <= account + bill + job[v].overlap
  BY DEF AnswersErrByOverlap, answered
<1>4. \A v \in Workers :
        job'[v].seen >= 0 => job'[v].seen <= account' + bill + job'[v].overlap
  BY <1>2, <1>3
<1>5. QED
  BY <1>4 DEF AnswersErrByOverlap, answered

(* Credits that every answer misses are in every answer's overlap.          *)
LEMMA MissedByAll ==
  ASSUME RefresherTypeOK, AnswersErrByOverlap, NEW n \in Nat, job' = missing(n),
         NEW sum \in Int, sum = account + Cardinality(Debt),
         account' + Cardinality(Debt') = sum - n
  PROVE  AnswersErrByOverlap'
<1>1. job \in [Workers -> Jobs]
  BY DEF RefresherTypeOK, Jobs
<1>2. ASSUME NEW v \in Workers, job'[v].seen >= 0
      PROVE  /\ job[v].seen >= 0 /\ job'[v].seen = job[v].seen
             /\ job'[v].overlap = job[v].overlap + n
  BY <1>1, <1>2 DEF missing, answered, Jobs
<1>3. \A v \in Workers : /\ job[v].seen \in Int /\ job[v].overlap \in Nat
  BY <1>1 DEF Jobs
<1>4. ASSUME NEW v \in Workers, job'[v].seen >= 0
      PROVE  job'[v].seen <= account' + Cardinality(Debt') + job'[v].overlap
  <2>1. job[v].seen <= sum + job[v].overlap
    BY <1>2, <1>4 DEF AnswersErrByOverlap, answered
  <2>2. QED
    BY <1>2, <1>3, <1>4, <2>1
<1>5. QED
  BY <1>4 DEF AnswersErrByOverlap, answered

(* A step of a request.                                                     *)
LEMMA RequestKeepsBalance ==
  ASSUME RefresherTypeOK, BalanceInv, NEW r \in Requests,
         Select(r) \/ RequestStep(r)
  PROVE  BalanceInv'
<1> USE RefresherConstants
<1> DEFINE c == credits[Key]
           sum == account + Cardinality(Debt)
<1>1. /\ account \in Nat /\ lost \in Nat /\ c \in Nat /\ Cardinality(Debt) \in Nat
      /\ credits \in [Keys -> 0..Unmeasured] /\ job \in [Workers -> Jobs]
      /\ at \in [Requests -> Stages] /\ owes \in [Requests -> 0..MaxCost]
  BY DebtIsNat DEF RefresherTypeOK, PoolTypeOK, Jobs, Stages
<1>2. c # Unmeasured => c <= sum + lost
  BY DEF BalanceInv, EstimateErrsByWhatItMissed
<1>3. AnswersErrByOverlap /\ OwesToCharge
  BY DEF BalanceInv
<1>4. ~(Asking.seen >= 0)
  BY DEF Asking, Unread
<1>5. ASSUME NEW stage, goto(r, stage), stage = "charge" \/ owes'[r] = 0,
             \A q \in Requests \ {r} : owes'[q] = owes[q]
      PROVE  OwesToCharge'
  BY <1>1, <1>3, <1>5 DEF OwesToCharge, goto
<1>6. ASSUME NEW stage, goto(r, stage), at[r] # "charge",
             UNCHANGED accountVars,
             c' = c \/ c' = Unmeasured \/ c' = 0,
             UNCHANGED job \/ \E w \in Workers : begin(w)
      PROVE  BalanceInv'
  <2>1. Debt' = Debt /\ UNCHANGED <<account, owes, lost>>
    BY <1>6 DEF Debt, accountVars
  <2>2. EstimateErrsByWhatItMissed'
    BY <1>1, <1>2, <1>6, <2>1 DEF EstimateErrsByWhatItMissed
  <2>3. ASSUME NEW w \in Workers, begin(w)
        PROVE  AnswersErrByOverlap'
    BY <1>3, <1>4, <2>1, <2>3, NewFetchKnowsNothing DEF begin
  <2>4. ASSUME UNCHANGED job
        PROVE  AnswersErrByOverlap'
    BY <1>3, <2>1, <2>4 DEF AnswersErrByOverlap, answered
  <2>5. OwesToCharge'
    BY <1>3, <1>5, <1>6, <2>1 DEF OwesToCharge
  <2>6. QED
    BY <1>6, <2>2, <2>3, <2>4, <2>5 DEF BalanceInv
<1>7. CASE Select(r) \/ Snapshot(r)
  BY <1>6, <1>7 DEF Select, Snapshot, poolVars
<1>8. CASE Measure(r) \/ Switch(r)
  BY <1>6, <1>8 DEF Measure, Switch, poolVars
<1>9. CASE Claim(r)
  BY <1>6, <1>9 DEF Claim, poolVars
<1>10. CASE Drain(r)
  <2>1. c' = c \/ c' = 0
    BY <1>1, <1>10 DEF Drain, Disable
  <2>2. QED
    BY <1>6, <1>10, <2>1 DEF Drain
<1>11. CASE Upstream(r)
  <2>1. UNCHANGED credits /\ at[r] = "send" /\ owes[r] = 0
    BY <1>3, <1>11 DEF Upstream, OwesToCharge, poolVars
  <2>2. CASE UNCHANGED <<accountVars, job>> /\ (goto(r, "idle") \/ goto(r, "drain"))
    BY <1>6, <2>1, <2>2
  <2>3. ASSUME NEW cost \in 0..account, NEW known \in 0..MaxCost, known <= cost,
               account' = account - cost, lose(cost - known),
               \/ goto(r, "charge") /\ owes' = [owes EXCEPT ![r] = known]
               \/ /\ known = 0 /\ UNCHANGED owes
                  /\ goto(r, "idle") \/ goto(r, "send")
        PROVE  BalanceInv'
    <3>1. owes' = [owes EXCEPT ![r] = known]
      BY <1>1, <2>1, <2>3
    <3>2. Cardinality(Debt') = Cardinality(Debt) + known
      <4>1. Cardinality(Debt') = Cardinality(Debt) - owes[r] + known
        BY <3>1, DebtCounts
      <4>2. QED
        BY <1>1, <2>1, <4>1
    <3>3. PICK missed \in Nat : missed = cost - known
      BY <1>1, <2>3
    <3>4. lost' = lost + missed /\ job' = missing(missed)
      BY <2>3, <3>3 DEF lose
    <3>5. account' + Cardinality(Debt') = sum - missed /\ sum \in Int
      BY <1>1, <2>3, <3>2, <3>3
    <3>6. AnswersErrByOverlap'
      BY <1>3, <3>4, <3>5, MissedByAll
    <3>7. EstimateErrsByWhatItMissed'
      BY <1>1, <1>2, <2>1, <3>4, <3>5 DEF EstimateErrsByWhatItMissed
    <3>8. OwesToCharge'
      <4>1. \A q \in Requests \ {r} : owes'[q] = owes[q]
        BY <1>1, <3>1
      <4>2. owes'[r] = known
        BY <1>1, <3>1
      <4>3. QED
        BY <1>5, <2>3, <4>1, <4>2
    <3>9. QED
      BY <3>6, <3>7, <3>8 DEF BalanceInv
  <2>4. QED
    BY <1>11, <2>2, <2>3, UpstreamBills
<1>12. CASE Charge(r)
  <2>1. owes' = [owes EXCEPT ![r] = 0] /\ UNCHANGED <<account, lost>>
    BY <1>12 DEF Charge
  <2>2. /\ owes[r] \in 0..Cardinality(Debt)
        /\ Cardinality(Debt') = Cardinality(Debt) - owes[r]
    <3>1. 0 \in 0..MaxCost
      OBVIOUS
    <3>2. /\ owes[r] \in 0..Cardinality(Debt)
          /\ Cardinality(Debt') = Cardinality(Debt) - owes[r] + 0
      BY <2>1, <3>1, DebtCounts
    <3>3. QED
      BY <1>1, <3>2
  <2>3. c' = afterCost(c, owes[r])
    BY <1>1, <1>12 DEF Charge, Decrement
  <2>4. account' + Cardinality(Debt') = sum - owes[r] /\ sum \in Int /\ owes[r] \in Nat
    BY <1>1, <2>1, <2>2
  <2>5. c' = Unmeasured \/ c' <= account + Cardinality(Debt') + lost
    BY <1>1, <1>2, <2>2, <2>3 DEF afterCost, Larger
  <2>6. EstimateErrsByWhatItMissed'
    BY <2>1, <2>5 DEF EstimateErrsByWhatItMissed
  <2>7. AnswersErrByOverlap'
    BY <1>3, <1>12, <2>4, MissedByAll DEF Charge
  <2>8. OwesToCharge'
    BY <1>1, <1>5, <1>12, <2>1 DEF Charge
  <2>9. QED
    BY <2>6, <2>7, <2>8 DEF BalanceInv
<1>13. QED
  BY <1>7, <1>8, <1>9, <1>10, <1>11, <1>12 DEF RequestStep

(* A step of a refresh.                                                     *)
LEMMA RefreshKeepsBalance ==
  ASSUME RefresherTypeOK, BalanceInv, NEW w \in Workers,
         Read(w) \/ Fail(w) \/ Land(w)
  PROVE  BalanceInv'
<1> USE RefresherConstants
<1>1. /\ account \in 0..MaxCredits /\ job \in [Workers -> Jobs]
      /\ credits \in [Keys -> 0..Unmeasured]
  BY DEF RefresherTypeOK, PoolTypeOK, Jobs
<1>2. /\ Cardinality(Debt) \in Nat /\ Debt' = Debt /\ account' = account
      /\ OwesToCharge'
  <2>1. Cardinality(Debt) \in Nat
    BY DebtIsNat
  <2>2. UNCHANGED <<owes, at, account>>
    BY DEF Read, Fail, Land, accountVars
  <2>3. QED
    BY <2>1, <2>2 DEF Debt, BalanceInv, OwesToCharge
<1>3. AnswersErrByOverlap /\ EstimateErrsByWhatItMissed
  BY DEF BalanceInv
<1>4. CASE Read(w)
  <2>1. /\ job' = [job EXCEPT ![w] = [job[w] EXCEPT !.seen = account]]
        /\ UNCHANGED <<credits, lost>>
    BY <1>4 DEF Read, become, poolVars, accountVars
  <2>2. job'[w].seen = account /\ job'[w].overlap \in Nat
    BY <1>1, <2>1 DEF Jobs
  <2>3. \A v \in Workers \ {w} : job'[v] = job[v]
    BY <1>1, <2>1
  <2>4. AnswersErrByOverlap'
    BY <1>1, <1>2, <1>3, <2>2, <2>3 DEF AnswersErrByOverlap, answered
  <2>5. QED
    BY <1>2, <1>3, <2>1, <2>4 DEF BalanceInv, EstimateErrsByWhatItMissed
<1>5. CASE Fail(w)
  <2>1. PICK state : become(w, state) /\ ~(state.seen >= 0)
    BY <1>5 DEF Fail, Asking, Idle, Unread
  <2>2. AnswersErrByOverlap'
    BY <1>2, <1>3, <2>1, NewFetchKnowsNothing
  <2>3. UNCHANGED <<credits, lost>>
    BY <1>5 DEF Fail, poolVars, accountVars
  <2>4. QED
    BY <1>2, <1>3, <2>2, <2>3 DEF BalanceInv, EstimateErrsByWhatItMissed
<1>6. CASE Land(w)
  <2>1. ~(Idle.seen >= 0)
    BY DEF Idle
  <2>2. AnswersErrByOverlap'
    BY <1>2, <1>3, <1>6, <2>1, NewFetchKnowsNothing DEF Land
  <2>3. credits'[Key] = job[w].seen /\ lost' = job[w].overlap
    BY <1>1, <1>6 DEF Land, SetCredits, Larger, answered, Jobs
  <2>4. job[w].seen <= account + Cardinality(Debt) + job[w].overlap
    BY <1>3, <1>6 DEF Land, AnswersErrByOverlap
  <2>5. QED
    BY <1>2, <2>2, <2>3, <2>4 DEF BalanceInv, EstimateErrsByWhatItMissed
<1>7. QED
  BY <1>4, <1>5, <1>6

(* A step of a loop, of the clock or of the provider.                       *)
LEMMA LoopsKeepBalance ==
  ASSUME RefresherTypeOK, BalanceInv,
         \/ SwitchedOnto \/ WarmUp \/ WarmedUp \/ DailyRefresh
         \/ ResetLoop \/ Tock \/ Refill
  PROVE  BalanceInv'
<1> USE RefresherConstants
<1>1. /\ account \in 0..MaxCredits /\ job \in [Workers -> Jobs] /\ lost \in Nat
      /\ credits \in [Keys -> 0..Unmeasured]
  BY DEF RefresherTypeOK, PoolTypeOK, Jobs
<1>2. /\ Cardinality(Debt) \in Nat /\ Debt' = Debt /\ lost' = lost
      /\ OwesToCharge'
  <2>1. Cardinality(Debt) \in Nat
    BY DebtIsNat
  <2>2. UNCHANGED <<owes, at, lost>>
    BY DEF SwitchedOnto, WarmUp, WarmedUp, DailyRefresh, ResetLoop, Tock,
           Refill, accountVars
  <2>3. QED
    BY <2>1, <2>2 DEF Debt, BalanceInv, OwesToCharge
<1>3. AnswersErrByOverlap /\ EstimateErrsByWhatItMissed
  BY DEF BalanceInv
<1>4. CASE SwitchedOnto \/ WarmUp \/ DailyRefresh
  <2>1. PICK w \in Workers : become(w, Asking)
    BY <1>4 DEF SwitchedOnto, WarmUp, DailyRefresh, begin
  <2>2. UNCHANGED <<account, credits>>
    BY <1>4 DEF SwitchedOnto, WarmUp, DailyRefresh, poolVars, accountVars
  <2>3. AnswersErrByOverlap'
    BY <1>2, <1>3, <2>1, <2>2, NewFetchKnowsNothing DEF Asking, Unread
  <2>4. QED
    BY <1>2, <1>3, <2>2, <2>3 DEF BalanceInv, EstimateErrsByWhatItMissed
<1>5. CASE WarmedUp \/ Tock
  <2>1. UNCHANGED <<account, credits, job>>
    BY <1>5 DEF WarmedUp, Tock, poolVars, accountVars
  <2>2. QED
    BY <1>2, <1>3, <2>1
       DEF BalanceInv, EstimateErrsByWhatItMissed, AnswersErrByOverlap, answered
<1>6. CASE ResetLoop
  <2>1. UNCHANGED <<account, job>> /\ credits'[Key] \in {Unmeasured, credits[Key]}
    BY <1>6 DEF ResetLoop, ReenableDue, accountVars
  <2>2. QED
    BY <1>2, <1>3, <2>1
       DEF BalanceInv, EstimateErrsByWhatItMissed, AnswersErrByOverlap, answered
<1>7. CASE Refill
  <2>1. UNCHANGED <<credits, job>> /\ account' = MaxCredits
    BY <1>7 DEF Refill, poolVars
  <2>2. EstimateErrsByWhatItMissed'
    BY <1>1, <1>2, <1>3, <2>1 DEF EstimateErrsByWhatItMissed
  <2>3. AnswersErrByOverlap'
    BY <1>1, <1>2, <1>3, <2>1 DEF AnswersErrByOverlap, answered, Jobs
  <2>4. QED
    BY <1>2, <2>2, <2>3 DEF BalanceInv
<1>8. QED
  BY <1>4, <1>5, <1>6, <1>7

(* An estimate promises no more than the account holds, but for charges on  *)
(* their way and for what was billed unseen since the last fetch was        *)
(* answered, whatever calls cost and report: concurrent fetches, disables   *)
(* and re-enables add nothing (creditusage.go:405-412, keys.go:353-406).    *)
THEOREM EstimateBounded == Spec => []EstimateErrsByWhatItMissed
<1>1. RefresherInit => BalanceInv
  <2> SUFFICES ASSUME RefresherInit PROVE BalanceInv
    OBVIOUS
  <2>1. credits[Key] = Seed /\ \A w \in Workers : ~answered(w)
    BY RefresherConstants DEF RefresherInit, PoolInit, answered, Idle
  <2>2. QED
    BY <2>1, RefresherAssumption 
       DEF RefresherAssumption, RefresherInit, BalanceInv, EstimateErrsByWhatItMissed,
           AnswersErrByOverlap, OwesToCharge
<1>2. RefresherTypeOK /\ BalanceInv /\ [Next]_vars => BalanceInv'
  <2>1. ASSUME RefresherTypeOK, BalanceInv, UNCHANGED vars
        PROVE  BalanceInv'
    BY <2>1 DEF BalanceInv, EstimateErrsByWhatItMissed, AnswersErrByOverlap, answered,
                OwesToCharge, Debt, vars, accountVars, poolVars
  <2>2. QED
    BY <2>1, RequestKeepsBalance, RefreshKeepsBalance, LoopsKeepBalance DEF Next
<1>3. BalanceInv => EstimateErrsByWhatItMissed
  BY DEF BalanceInv
<1>4. QED
  BY <1>1, <1>2, <1>3, RefresherTyped, PTL DEF Spec
=============================================================================
