-------------------------- MODULE ContentionProofs --------------------------
(***************************************************************************)
(* What concurrent requests of one pool owe each other: somebody wakes a   *)
(* queued request (proxy.go:161-182, keys.go:130-186), and no charge is    *)
(* overlooked by the stop threshold (proxy.go:196-223); and what the code's*)
(* comments promise that holds only of a request alone, or of a single slot.*)
(***************************************************************************)
EXTENDS Claims, RotatorProofs

(* Somebody who will free, take or pass on a slot.                          *)
Wakers == Holding \cup {"wake", "check", "select", "acquire"}
WakerExists == slotFree \/ \E q \in Requests : pc[q] \in Wakers

(* WaiterHasWaker is inductive when the requests about to wait are looked   *)
(* after too, and a refused request is not counted on.                      *)
WaiterServed ==
  \A r \in Requests : pc[r] \in {"park", "blocked"} => WakerExists

(* A key without a free slot is in the hands of a request that will give    *)
(* the slot back.                                                           *)
LEMMA FullKeyHasHolder ==
  ASSUME HandlerInv, NEW k \in Keys, ~hasSlot(k)
  PROVE  \E q \in Requests : pc[q] \in Holding
<1>1. MaxConcurrent > 0 /\ inFlight[k] >= MaxConcurrent /\ inFlight[k] \in Nat
  BY PoolConstants DEF HandlerInv, TypeOK, PoolTypeOK, hasSlot
<1>2. Cardinality(holders(k)) > 0
  BY <1>1, PoolConstants DEF HandlerInv, SlotsMatchHolders
<1>3. holders(k) # {}
  BY <1>2, FS_EmptySet
<1>4. QED
  BY <1>3 DEF holders

(* A request that stays out of the wakers' way leaves the others' waker be. *)
LEMMA BystanderKeepsWaker ==
  ASSUME TypeOK, WaiterServed, NEW r \in Requests, NEW stage \in Stages,
         pc[r] \notin Wakers, stage \notin {"park", "blocked"},
         pc' = [pc EXCEPT ![r] = stage], UNCHANGED slotFree
  PROVE  WaiterServed'
<1>1. SUFFICES ASSUME NEW q \in Requests, pc'[q] \in {"park", "blocked"}
               PROVE  WakerExists'
  BY DEF WaiterServed
<1>2. pc[q] \in {"park", "blocked"}
  BY <1>1 DEF TypeOK
<1>3. WakerExists
  BY <1>2 DEF WaiterServed
<1>4. QED
  BY <1>3 DEF WakerExists, TypeOK

(* While some key is usable, no step of a request leaves a waiter alone.    *)
LEMMA StepKeepsWaker ==
  ASSUME HandlerInv, WaiterServed, AnyUsable, NEW r \in Requests, Step(r)
  PROVE  WaiterServed'
<1> DEFINE Awake == \E q \in Requests : pc'[q] \in Wakers
<1> USE DEF HandlerInv, TypeOK, goto
<1>1. ASSUME Awake \/ slotFree'
      PROVE  WaiterServed'
  BY <1>1 DEF WaiterServed, WakerExists
<1>2. CASE Select(r)
  <2>1. current(coolFor) # NoKey
    BY SelectionComplete DEF PoolTypeOK
  <2>2. pc'[r] \in Wakers
    BY <1>2, <2>1 DEF Select, Wakers
  <2>3. QED
    BY <1>1, <2>2
<1>3. CASE Acquire(r)
  <2>1. CASE goto(r, "measure")
    BY <1>1, <2>1 DEF Wakers, Holding
  <2>2. CASE ~hasSlot(idx[r]) /\ goto(r, "saturated")
    <3>1. pc[r] = "acquire" /\ idx[r] \in Keys
      BY <1>3 DEF Acquire, LocalsOK, KeyInHand
    <3>2. PICK q \in Requests : pc[q] \in Holding
      BY <2>2, <3>1, FullKeyHasHolder
    <3>3. pc'[q] \in Wakers
      BY <2>2, <3>1, <3>2 DEF Holding, Wakers
    <3>4. QED
      BY <1>1, <3>3
  <2>3. QED
    BY <1>3, <2>1, <2>2 DEF Acquire
<1>4. CASE Measure(r) \/ Fetch(r) \/ Launch(r) \/ Upstream(r)
  <2>1. pc'[r] \in Wakers
    BY <1>4 DEF Measure, Fetch, Launch, Upstream, Wakers, Holding
  <2>2. QED
    BY <1>1, <2>1
<1>5. CASE GiveBack(r)
  <2>1. CASE MaxConcurrent = 0
    <3>1. \A q \in Requests : pc'[q] \notin {"park", "blocked"}
      BY <1>5, <2>1 DEF GiveBack, verdictStage, LocalsOK
    <3>2. QED
      BY <3>1 DEF WaiterServed
  <2>2. CASE MaxConcurrent # 0
    BY <1>1, <1>5, <2>2 DEF GiveBack, Wakers
  <2>3. QED
    BY <2>1, <2>2
<1>6. CASE Wake(r)
  <2>1. CASE \E q \in Requests :
               pc[q] = "blocked"
               /\ pc' = [pc EXCEPT ![r] = verdictStage(r), ![q] = "check"]
    BY <1>1, <2>1 DEF Wakers
  <2>2. CASE SendToken
    BY <1>1, <2>2 DEF SendToken
  <2>3. QED
    BY <1>6, <2>1, <2>2 DEF Wake
<1>7. CASE Check(r)
  <2>1. CASE anySlotFree
    BY <1>1, <1>7, <2>1 DEF Check, Wakers
  <2>2. CASE ~anySlotFree
    <3>1. PICK q \in Requests : pc[q] \in Holding
      BY <2>2, FullKeyHasHolder, PoolConstants DEF anySlotFree
    <3>2. pc'[q] \in Wakers
      BY <1>7, <3>1 DEF Check, Holding, Wakers
    <3>3. QED
      BY <1>1, <3>2
  <2>3. QED
    BY <2>1, <2>2
<1>8. CASE Park(r)
  <2>1. CASE slotFree
    BY <1>1, <1>8, <2>1 DEF Park, Wakers
  <2>2. CASE ~slotFree
    <3>1. PICK q \in Requests : pc[q] \in Wakers
      BY <1>8, <2>2 DEF Park, WaiterServed, WakerExists
    <3>2. pc'[q] \in Wakers
      BY <1>8, <2>2, <3>1 DEF Park, Wakers, Holding
    <3>3. QED
      BY <1>1, <3>2
  <2>3. QED
    BY <2>1, <2>2
<1>9. CASE Saturated(r)
  <2>1. CASE \E reply : return(r, reply)
    <3>1. pc[r] \notin Wakers /\ UNCHANGED slotFree
      BY <1>9 DEF Saturated, Wakers, Holding, poolVars
    <3>2. QED
      BY <2>1, <3>1, BystanderKeepsWaker DEF return, Stages
  <2>2. CASE goto(r, "check")
    BY <1>1, <2>2 DEF Wakers
  <2>3. QED
    BY <1>9, <2>1, <2>2 DEF Saturated, returnBusy503
<1>10. CASE GiveUp(r) \/ Finish(r)
  <2>1. pc[r] \notin Wakers /\ UNCHANGED slotFree
    BY <1>10 DEF GiveUp, Finish, Current, Wakers, Holding, poolVars
  <2>2. pc' = [pc EXCEPT ![r] = "idle"]
    BY <1>10 DEF GiveUp, Finish, returnBusy503, return
  <2>3. QED
    BY <2>1, <2>2, BystanderKeepsWaker DEF Stages
<1>11. CASE \/ Success(r) \/ Charge(r) \/ Clamp(r) \/ Hold(r)
            \/ Drain(r) \/ Advance(r) \/ Switch(r)
  <2>1. pc[r] \notin Wakers /\ UNCHANGED slotFree
    BY <1>11
       DEF Success, Charge, Clamp, Hold, Drain, Advance, Switch, Wakers, Holding,
           RecordSuccess, Decrement, Disable, AdvanceAfter, Current, poolVars
  <2>2. \E stage \in Stages \ {"park", "blocked"} : pc' = [pc EXCEPT ![r] = stage]
    BY <1>11
       DEF Success, Charge, Clamp, Hold, Drain, Advance, Switch, Stages
  <2>3. QED
    BY <2>1, <2>2, BystanderKeepsWaker
<1>12. QED
  BY <1>2, <1>3, <1>4, <1>5, <1>6, <1>7, <1>8, <1>9, <1>10, <1>11 DEF Step

(* So does everything else that moves.                                      *)
LEMMA NextKeepsWaker ==
  ASSUME HandlerInv, WaiterServed, AnyUsable, [Next]_vars
  PROVE  WaiterServed'
<1>1. ASSUME NEW r \in Requests, Arrive(r)
      PROVE  WaiterServed'
  <2>1. pc'[r] \in Wakers
    BY <1>1 DEF Arrive, goto, Wakers, HandlerInv, TypeOK
  <2>2. QED
    BY <2>1 DEF WaiterServed, WakerExists
<1>2. ASSUME UNCHANGED <<pc, slotFree>>
      PROVE  WaiterServed'
  BY <1>2 DEF WaiterServed, WakerExists
<1>3. ASSUME NEW r \in Requests, Expire(r) \/ Cancel(r)
      PROVE  WaiterServed'
  BY <1>2, <1>3 DEF Expire, Cancel, poolVars
<1>4. CASE BalanceLands \/ ResetLoop \/ Clock \/ UNCHANGED vars
  BY <1>2, <1>4
     DEF BalanceLands, SetCredits, ResetLoop, ReenableDue, Clock, Tick, vars,
         reqVars, poolVars
<1>5. ASSUME NEW r \in Requests, Step(r)
      PROVE  WaiterServed'
  BY <1>5, StepKeepsWaker
<1>6. QED
  BY <1>1, <1>3, <1>4, <1>5, Zenon DEF Next

(* While the pool always has a usable key, a queued request always has      *)
(* somebody to wake it: a token, a request with a slot, or one on its way   *)
(* to a slot (keys.go:144-148, 167-183).  The assumption is needed: a woken *)
(* waiter that finds no usable key leaves with a 503 and the token with it. *)
THEOREM WaitersHaveWakers == Spec /\ []AnyUsable => []WaiterHasWaker
<1>1. RotatorInit => WaiterServed
  BY DEF RotatorInit, WaiterServed
<1>2. HandlerInv /\ WaiterServed /\ AnyUsable /\ [Next]_vars => WaiterServed'
  BY NextKeepsWaker
<1>3. WaiterServed => WaiterHasWaker
  BY DEF WaiterServed, WakerExists, Wakers, WaiterHasWaker, Waking
<1>4. QED
  BY <1>1, <1>2, <1>3, HandlerInvariant, PTL DEF Spec

-----------------------------------------------------------------------------
(* The stop threshold of the daily-capped finance keys.                     *)

(* The key k is settled: above its stop threshold, never charged, disabled, *)
(* or about to be.                                                          *)
Settled(k) ==
  credits[k] < Seed /\ credits[k] <= StopThreshold => disabled[k] \/ Settling(k)

LEMMA FinanceHasNoUsage == isDailyCappedFinance(Profile) => ~hasUsage(Profile)
BY DEF isDailyCappedFinance, hasUsage

(* A request that is not settling k cannot undo what another one does: it   *)
(* leaves k's settler, its balance and its flag alone.                      *)
LEMMA BystanderKeepsSettled ==
  ASSUME TypeOK, NEW k \in Keys, Settled(k),
         UNCHANGED <<credits, disabled>>,
         \A q \in Requests :
           pc[q] \in {"clamp", "hold"} /\ idx[q] = k
             => pc'[q] \in {"clamp", "hold"} /\ idx'[q] = k
  PROVE  Settled(k)'
BY DEF Settled, Settling

(* No step of a request leaves a key behind in service.                     *)
LEMMA StepKeepsSettled ==
  ASSUME TypeOK, LocalsOK, isDailyCappedFinance(Profile),
         NEW k \in Keys, Settled(k), NEW r \in Requests, Step(r)
  PROVE  Settled(k)'
<1> USE DEF TypeOK, goto
<1>1. pc[r] \in KeyInHand => idx[r] \in Keys
  BY DEF LocalsOK
<1>2. CASE Charge(r)
  <2>1. pc'[r] = "clamp" /\ idx' = idx
    BY <1>2 DEF Charge
  <2>2. CASE idx[r] = k
    BY <2>1, <2>2 DEF Settled, Settling
  <2>3. CASE idx[r] # k
    <3>1. credits'[k] = credits[k] /\ disabled' = disabled
      BY <1>1, <1>2, <2>3
         DEF Charge, Decrement, KeyInHand, PoolTypeOK, poolVars
    <3>2. \A q \in Requests : pc[q] \in {"clamp", "hold"} => pc'[q] = pc[q]
      BY <1>2 DEF Charge
    <3>3. QED
      BY <2>1, <3>1, <3>2 DEF Settled, Settling
  <2>4. QED
    BY <2>2, <2>3
<1>3. CASE Clamp(r)
  <2>1. idx' = idx /\ UNCHANGED <<credits, disabled>>
    BY <1>3 DEF Clamp, poolVars
  <2>2. CASE idx[r] = k /\ credits[k] > StopThreshold
    BY <2>1, <2>2, PoolConstants DEF Settled, PoolTypeOK
  <2>3. CASE idx[r] = k /\ credits[k] <= StopThreshold
    <3>1. pc'[r] = "hold"
      BY <1>3, <2>3 DEF Clamp
    <3>2. QED
      BY <2>1, <2>3, <3>1 DEF Settled, Settling
  <2>4. CASE idx[r] # k
    <3>1. \A q \in Requests : q # r => pc'[q] = pc[q]
      BY <1>3 DEF Clamp
    <3>2. QED
      BY <2>1, <2>4, <3>1, BystanderKeepsSettled
  <2>5. QED
    BY <2>2, <2>3, <2>4, PoolConstants DEF PoolTypeOK
<1>4. ASSUME NEW until, Disable(idx[r], until), idx[r] \in Keys,
             \A q \in Requests : q # r => pc'[q] = pc[q],
             UNCHANGED idx
      PROVE  Settled(k)'
  <2>1. CASE idx[r] = k
    <3>1. disabled'[k]
      BY <1>4, <2>1, Zenon DEF Disable, PoolTypeOK
    <3>2. QED
      BY <3>1 DEF Settled
  <2>2. CASE idx[r] # k
    <3>1. credits'[k] = credits[k] /\ disabled'[k] = disabled[k]
      BY <1>4, <2>2, Zenon DEF Disable, PoolTypeOK
    <3>2. \A q \in Requests :
            pc[q] \in {"clamp", "hold"} /\ idx[q] = k => pc'[q] = pc[q] /\ idx'[q] = k
      BY <1>4, <2>2
    <3>3. QED
      BY <3>1, <3>2 DEF Settled, Settling
  <2>3. QED
    BY <2>1, <2>2
<1>5. CASE Hold(r)
  BY <1>1, <1>4, <1>5 DEF Hold, KeyInHand
<1>6. CASE Drain(r)
  <2>1. PICK reset \in Resets : Disable(idx[r], reset)
    BY <1>6 DEF Drain
  <2>2. QED
    BY <1>1, <1>4, <1>6, <2>1 DEF Drain, KeyInHand
<1>7. CASE Fetch(r)
  BY <1>7, FinanceHasNoUsage DEF Fetch, LocalsOK
<1>8. ASSUME NEW reply, return(r, reply), pc[r] \notin {"clamp", "hold"},
             UNCHANGED <<credits, disabled>>
      PROVE  Settled(k)'
  BY <1>8, BystanderKeepsSettled DEF return
<1>9. CASE Saturated(r)
  <2>1. pc[r] = "saturated" /\ UNCHANGED <<credits, disabled>>
    BY <1>9 DEF Saturated, poolVars
  <2>2. CASE \E reply : return(r, reply)
    BY <1>8, <2>1, <2>2
  <2>3. CASE goto(r, "check") /\ UNCHANGED idx
    BY <2>1, <2>3, BystanderKeepsSettled
  <2>4. QED
    BY <1>9, <2>2, <2>3 DEF Saturated, returnBusy503
<1>10. CASE GiveUp(r) \/ Finish(r)
  BY <1>8, <1>10 DEF GiveUp, Finish, returnBusy503, Current, poolVars
<1>11. CASE Select(r)
  BY <1>11, BystanderKeepsSettled DEF Select, Current
<1>12. CASE Wake(r)
  BY <1>12, BystanderKeepsSettled DEF Wake, SendToken, poolVars
<1>13. CASE \/ Acquire(r) \/ Measure(r) \/ Launch(r) \/ Upstream(r) \/ GiveBack(r)
            \/ Check(r) \/ Park(r) \/ Success(r) \/ Advance(r) \/ Switch(r)
  <2>1. UNCHANGED <<credits, disabled, idx>> /\ pc[r] \notin {"clamp", "hold"}
    BY <1>13
       DEF Acquire, Measure, Launch, Upstream, GiveBack, Check, Park, Success,
           Advance, Switch, TryAcquire, Release, TakeToken, RecordSuccess,
           AdvanceAfter, Current, poolVars
  <2>2. \A q \in Requests : q # r => pc'[q] = pc[q]
    BY <1>13
       DEF Acquire, Measure, Launch, Upstream, GiveBack, Check, Park, Success,
           Advance, Switch
  <2>3. QED
    BY <2>1, <2>2, BystanderKeepsSettled
<1>14. QED
  BY <1>2, <1>3, <1>5, <1>6, <1>7, <1>9, <1>10, <1>11, <1>12, <1>13 DEF Step

(* Neither does anything else: a key that the reset loop brings back is     *)
(* unmeasured, far above the threshold.                                     *)
LEMMA NextKeepsSettled ==
  ASSUME TypeOK, LocalsOK, isDailyCappedFinance(Profile),
         NEW k \in Keys, Settled(k), [Next]_vars
  PROVE  Settled(k)'
<1>1. ASSUME NEW r \in Requests, Step(r)
      PROVE  Settled(k)'
  BY <1>1, StepKeepsSettled
<1>2. ASSUME NEW r \in Requests, Arrive(r) \/ Expire(r) \/ Cancel(r)
      PROVE  Settled(k)'
  BY <1>2, BystanderKeepsSettled DEF Arrive, Expire, Cancel, goto, poolVars, TypeOK
<1>3. CASE BalanceLands
  BY <1>3, FinanceHasNoUsage DEF BalanceLands
<1>4. CASE ResetLoop
  <2>1. CASE k \in DueKeys
    BY <1>4, <2>1, PoolConstants DEF ResetLoop, ReenableDue, Settled
  <2>2. CASE k \notin DueKeys
    <3>1. credits'[k] = credits[k] /\ disabled'[k] = disabled[k]
      BY <1>4, <2>2 DEF ResetLoop, ReenableDue, TypeOK, PoolTypeOK
    <3>2. UNCHANGED <<pc, idx>>
      BY <1>4 DEF ResetLoop, reqVars
    <3>3. QED
      BY <3>1, <3>2 DEF Settled, Settling
  <2>3. QED
    BY <2>1, <2>2
<1>5. CASE Clock \/ UNCHANGED vars
  BY <1>5, BystanderKeepsSettled DEF Clock, Tick, vars, reqVars, poolVars
<1>6. QED
  BY <1>1, <1>2, <1>3, <1>4, <1>5, Zenon DEF Next

(* Concurrent charges leave no daily-capped key in service that they have   *)
(* taken to its stop threshold, whatever the budget it began with           *)
(* (proxy.go:213-223).                                                      *)
THEOREM StopKeysHeldBack == Spec => []StopKeyHeldBack
<1>1. RotatorInit => StopKeyHeldBack
  BY PoolConstants DEF RotatorInit, PoolInit, StopKeyHeldBack
<1>2. TypeOK /\ LocalsOK /\ StopKeyHeldBack /\ [Next]_vars => StopKeyHeldBack'
  BY NextKeepsSettled DEF StopKeyHeldBack, Settled
<1>3. QED
  BY <1>1, <1>2, TypedLocals, PTL DEF Spec

-----------------------------------------------------------------------------
(* A pool with a single slot: the comment of slotFree is right there.       *)

OneSlot == KeyCount = 1 /\ MaxConcurrent = 1

(* Somebody about to pass the free slot on, or on the way to take it.       *)
Movers == {"wake", "check", "select", "acquire"}
MoverExists == slotFree \/ \E q \in Requests : pc[q] \in Movers
NobodyOverlooked ==
  anySlotFree => \A r \in Requests : pc[r] \in {"park", "blocked"} => MoverExists

LEMMA OneSlotCounts ==
  ASSUME OneSlot
  PROVE  /\ Keys = {0}
         /\ anySlotFree <=> inFlight[0] < 1
         /\ hasSlot(0) <=> inFlight[0] < 1
BY DEF OneSlot, Keys, anySlotFree, hasSlot

(* While the key is usable, whoever leaves the wait or the loop leaves      *)
(* somebody behind who moves, or the slot taken.                            *)
LEMMA StepKeepsMover ==
  ASSUME OneSlot, HandlerInv, NobodyOverlooked, AnyUsable, NEW r \in Requests, Step(r)
  PROVE  NobodyOverlooked'
<1> USE DEF HandlerInv, TypeOK, goto
<1>0. /\ anySlotFree <=> inFlight[0] < 1
      /\ anySlotFree' <=> inFlight'[0] < 1
      /\ Keys = {0} /\ inFlight \in [Keys -> Nat]
  <2>1. Keys = {0} /\ MaxConcurrent = 1
    BY OneSlotCounts DEF OneSlot
  <2>2. anySlotFree <=> inFlight[0] < 1
    BY OneSlotCounts
  <2>3. anySlotFree' <=> inFlight'[0] < 1
    <3>1. anySlotFree' <=> \E k \in {0} : MaxConcurrent = 0 \/ inFlight'[k] < MaxConcurrent
      BY <2>1, Zenon DEF anySlotFree, hasSlot
    <3>2. QED
      BY <2>1, <3>1
  <2>4. QED
    BY <2>1, <2>2, <2>3 DEF PoolTypeOK
<1>1. ASSUME slotFree' \/ \E q \in Requests : pc'[q] \in Movers
      PROVE  NobodyOverlooked'
  BY <1>1 DEF NobodyOverlooked, MoverExists
<1>2. ASSUME UNCHANGED <<inFlight, slotFree>>, pc[r] \notin Movers,
             NEW stage \in Stages, stage \notin {"park", "blocked"},
             pc' = [pc EXCEPT ![r] = stage]
      PROVE  NobodyOverlooked'
  <2> SUFFICES ASSUME anySlotFree', NEW q \in Requests, pc'[q] \in {"park", "blocked"}
               PROVE  MoverExists'
    BY DEF NobodyOverlooked
  <2>1. anySlotFree /\ pc[q] \in {"park", "blocked"}
    BY <1>0, <1>2
  <2>2. MoverExists
    BY <2>1 DEF NobodyOverlooked
  <2>3. QED
    BY <1>2, <2>2 DEF MoverExists
<1>3. CASE Select(r)
  <2>1. current(coolFor) # NoKey
    BY SelectionComplete DEF PoolTypeOK
  <2>2. pc'[r] \in Movers
    BY <1>3, <2>1 DEF Select, Movers
  <2>3. QED
    BY <1>1, <2>2
<1>4. CASE Acquire(r)
  <2>1. pc[r] = "acquire" /\ idx[r] = 0
    BY <1>0, <1>4 DEF Acquire, LocalsOK, KeyInHand
  <2>2. CASE TryAcquire(idx[r])
    <3>1. inFlight'[0] = inFlight[0] + 1
      BY <1>0, <2>1, <2>2 DEF TryAcquire, OneSlot
    <3>2. ~anySlotFree'
      BY <1>0, <3>1
    <3>3. QED
      BY <3>2 DEF NobodyOverlooked
  <2>3. CASE ~hasSlot(idx[r]) /\ UNCHANGED poolVars
    <3>1. ~anySlotFree'
      BY <1>0, <2>1, <2>3, OneSlotCounts DEF poolVars
    <3>2. QED
      BY <3>1 DEF NobodyOverlooked
  <2>4. QED
    BY <1>4, <2>2, <2>3 DEF Acquire
<1>5. CASE GiveBack(r)
  <2>1. pc'[r] = "wake"
    BY <1>5 DEF GiveBack, OneSlot
  <2>2. QED
    BY <1>1, <2>1 DEF Movers
<1>6. CASE Wake(r)
  <2>1. CASE \E q \in Requests :
               pc[q] = "blocked"
               /\ pc' = [pc EXCEPT ![r] = verdictStage(r), ![q] = "check"]
    BY <1>1, <2>1 DEF Movers
  <2>2. CASE SendToken
    BY <1>1, <2>2 DEF SendToken
  <2>3. QED
    BY <1>6, <2>1, <2>2 DEF Wake
<1>7. CASE Check(r)
  <2>1. CASE anySlotFree
    BY <1>1, <1>7, <2>1 DEF Check, Movers
  <2>2. CASE ~anySlotFree
    <3>1. ~anySlotFree'
      BY <1>0, <1>7, <2>2 DEF Check, poolVars
    <3>2. QED
      BY <3>1 DEF NobodyOverlooked
  <2>3. QED
    BY <2>1, <2>2
<1>8. CASE Park(r)
  <2>1. CASE slotFree
    BY <1>1, <1>8, <2>1 DEF Park, Movers
  <2>2. CASE ~slotFree
    <3>1. pc[r] = "park" /\ UNCHANGED poolVars /\ pc' = [pc EXCEPT ![r] = "blocked"]
      BY <1>8, <2>2 DEF Park
    <3>2. CASE anySlotFree
      <4>1. PICK q \in Requests : pc[q] \in Movers
        BY <2>2, <3>1, <3>2 DEF NobodyOverlooked, MoverExists
      <4>2. pc'[q] \in Movers
        BY <3>1, <4>1 DEF Movers
      <4>3. QED
        BY <1>1, <4>2
    <3>3. CASE ~anySlotFree
      BY <1>0, <3>1, <3>3 DEF NobodyOverlooked, poolVars
    <3>4. QED
      BY <3>2, <3>3
  <2>3. QED
    BY <2>1, <2>2
<1>9. CASE Saturated(r)
  <2>1. CASE \E reply : return(r, reply)
    <3>1. pc[r] \notin Movers /\ UNCHANGED <<inFlight, slotFree>>
      BY <1>9 DEF Saturated, Movers, poolVars
    <3>2. pc' = [pc EXCEPT ![r] = "idle"] /\ "idle" \in Stages
      BY <2>1 DEF return, Stages
    <3>3. QED
      BY <1>2, <3>1, <3>2
  <2>2. CASE goto(r, "check")
    BY <1>1, <2>2 DEF Movers
  <2>3. QED
    BY <1>9, <2>1, <2>2 DEF Saturated, returnBusy503
<1>10. CASE GiveUp(r) \/ Finish(r)
  <2>1. pc[r] \notin Movers /\ UNCHANGED <<inFlight, slotFree>>
    BY <1>10 DEF GiveUp, Finish, Current, Movers, poolVars
  <2>2. pc' = [pc EXCEPT ![r] = "idle"] /\ "idle" \in Stages
    BY <1>10 DEF GiveUp, Finish, returnBusy503, return, Stages
  <2>3. QED
    BY <1>2, <2>1, <2>2
<1>11. CASE \/ Measure(r) \/ Fetch(r) \/ Launch(r) \/ Upstream(r)
            \/ Success(r) \/ Charge(r) \/ Clamp(r) \/ Hold(r)
            \/ Drain(r) \/ Advance(r) \/ Switch(r)
  <2>1. pc[r] \notin Movers /\ UNCHANGED <<inFlight, slotFree>>
    BY <1>11
       DEF Measure, Fetch, Launch, Upstream, Success, Charge, Clamp, Hold, Drain,
           Advance, Switch, Movers, RecordSuccess, Decrement, SetCredits, Disable,
           AdvanceAfter, Current, poolVars
  <2>2. \E stage \in Stages \ {"park", "blocked"} : pc' = [pc EXCEPT ![r] = stage]
    BY <1>11
       DEF Measure, Fetch, Launch, Upstream, Success, Charge, Clamp, Hold, Drain,
           Advance, Switch, Stages, Holding
  <2>3. QED
    BY <1>2, <2>1, <2>2
<1>12. QED
  BY <1>3, <1>4, <1>5, <1>6, <1>7, <1>8, <1>9, <1>10, <1>11 DEF Step

LEMMA NextKeepsMover ==
  ASSUME OneSlot, HandlerInv, NobodyOverlooked, AnyUsable, [Next]_vars
  PROVE  NobodyOverlooked'
<1>1. ASSUME NEW r \in Requests, Arrive(r)
      PROVE  NobodyOverlooked'
  <2>1. pc'[r] \in Movers
    BY <1>1 DEF Arrive, goto, Movers, HandlerInv, TypeOK
  <2>2. QED
    BY <2>1 DEF NobodyOverlooked, MoverExists
<1>2. ASSUME UNCHANGED <<pc, slotFree, inFlight>>
      PROVE  NobodyOverlooked'
  BY <1>2 DEF NobodyOverlooked, MoverExists, anySlotFree, hasSlot
<1>3. ASSUME NEW r \in Requests, Expire(r) \/ Cancel(r)
      PROVE  NobodyOverlooked'
  BY <1>2, <1>3 DEF Expire, Cancel, poolVars
<1>4. CASE BalanceLands \/ ResetLoop \/ Clock \/ UNCHANGED vars
  BY <1>2, <1>4
     DEF BalanceLands, SetCredits, ResetLoop, ReenableDue, Clock, Tick, vars,
         reqVars, poolVars
<1>5. ASSUME NEW r \in Requests, Step(r)
      PROVE  NobodyOverlooked'
  BY <1>5, StepKeepsMover
<1>6. QED
  BY <1>1, <1>3, <1>4, <1>5, Zenon DEF Next

(* With one key and one slot, and that key usable, no waiter sleeps beside  *)
(* the free slot: a lost wakeup takes two slots that are released between   *)
(* a waiter's check and its select (keys.go:144-186).                       *)
THEOREM OneSlotLosesNoWakeup ==
  ASSUME OneSlot
  PROVE  Spec /\ []AnyUsable => []NoWakeupLost
<1>1. RotatorInit => NobodyOverlooked
  BY DEF RotatorInit, NobodyOverlooked
<1>2. HandlerInv /\ NobodyOverlooked /\ AnyUsable /\ [Next]_vars => NobodyOverlooked'
  BY NextKeepsMover
<1>3. NobodyOverlooked => NoWakeupLost
  BY DEF NobodyOverlooked, MoverExists, Movers, NoWakeupLost
<1>4. QED
  BY <1>1, <1>2, <1>3, HandlerInvariant, PTL DEF Spec

-----------------------------------------------------------------------------
(* One request at a time: the claims about the key in hand are right there. *)

Lone == \A q, r \in Requests : q = r

(* The cursor stays on the key of the attempt until the key has cooled down.*)
CursorInHand ==
  \A r \in Requests : pc[r] \in KeyInHand \cup {"advance"} => cursor = idx[r]

LEMMA StepKeepsCursor ==
  ASSUME Lone, TypeOK, CursorInHand, NEW r \in Requests, Step(r)
  PROVE  CursorInHand'
<1> USE DEF TypeOK, goto
<1>1. ASSUME pc'[r] \notin KeyInHand \cup {"advance"}
      PROVE  CursorInHand'
  BY <1>1 DEF Lone, CursorInHand
<1>2. ASSUME UNCHANGED <<cursor, idx>>, pc[r] \in KeyInHand
      PROVE  CursorInHand'
  BY <1>2 DEF Lone, CursorInHand
<1>3. ASSUME NEW reply, return(r, reply)
      PROVE  CursorInHand'
  BY <1>1, <1>3 DEF return, KeyInHand, Holding
<1>4. CASE Select(r)
  <2>1. CASE current(coolFor) = NoKey
    BY <1>1, <1>4, <2>1 DEF Select, KeyInHand, Holding
  <2>2. CASE current(coolFor) # NoKey
    <3>1. cursor' = current(coolFor) /\ idx'[r] = current(coolFor)
      BY <1>4, <2>2 DEF Select, Current, moveCursor
    <3>2. QED
      BY <3>1 DEF Lone, CursorInHand
  <2>3. QED
    BY <2>1, <2>2
<1>5. CASE Acquire(r) \/ Measure(r) \/ Fetch(r) \/ Launch(r) \/ Upstream(r) \/ GiveBack(r)
  BY <1>2, <1>5
     DEF Acquire, Measure, Fetch, Launch, Upstream, GiveBack, TryAcquire, Release,
         SetCredits, KeyInHand, Holding, poolVars
<1>6. CASE Wake(r)
  BY <1>2, <1>6 DEF Wake, SendToken, KeyInHand, poolVars
<1>7. CASE Success(r) \/ Charge(r) \/ Clamp(r) \/ Hold(r) \/ Drain(r)
  BY <1>2, <1>7
     DEF Success, Charge, Clamp, Hold, Drain, RecordSuccess, Decrement, Disable,
         KeyInHand, poolVars
<1>8. CASE Saturated(r)
  BY <1>1, <1>3, <1>8 DEF Saturated, returnBusy503, KeyInHand, Holding
<1>9. CASE GiveUp(r) \/ Finish(r)
  BY <1>3, <1>9 DEF GiveUp, Finish, returnBusy503
<1>10. CASE Check(r) \/ Park(r) \/ Advance(r) \/ Switch(r)
  BY <1>1, <1>10 DEF Check, Park, Advance, Switch, KeyInHand, Holding
<1>11. QED
  BY <1>4, <1>5, <1>6, <1>7, <1>8, <1>9, <1>10 DEF Step

(* The handler leaves "advance" through AdvanceAfter only.                  *)
LEMMA OnlyAdvanceSwitches ==
  ASSUME Lone, TypeOK, [Next]_vars, NEW r \in Requests,
         pc[r] = "advance", pc'[r] = "switch"
  PROVE  Advance(r)
<1> USE DEF TypeOK, goto, return
<1>1. ASSUME NEW q \in Requests, Step(q)
      PROVE  Advance(q)
  <2>1. q = r /\ pc[q] = "advance"
    BY DEF Lone
  <2>2. QED
    BY <1>1, <2>1
       DEF Step, Select, Acquire, Measure, Fetch, Launch, Upstream, GiveBack, Wake,
           Saturated, Check, Park, GiveUp, Success, Charge, Clamp, Hold, Drain,
           Switch, Finish
<1>2. ASSUME NEW q \in Requests, Arrive(q) \/ Expire(q) \/ Cancel(q)
      PROVE  FALSE
  <2>1. q = r
    BY DEF Lone
  <2>2. QED
    BY <1>2, <2>1 DEF Arrive, Expire, Cancel
<1>3. CASE BalanceLands \/ ResetLoop \/ Clock \/ UNCHANGED vars
  BY <1>3 DEF BalanceLands, ResetLoop, Clock, vars, reqVars
<1>4. ASSUME NEW q \in Requests, Step(q)
      PROVE  Advance(r)
  <2>1. Advance(q) /\ q = r
    BY <1>1, <1>4 DEF Lone
  <2>2. QED
    BY <2>1, Zenon
<1>5. QED
  BY <1>2, <1>3, <1>4, Zenon DEF Next

(* Without a second request the key that is cooled down is the one that was *)
(* rejected, for at least rotateCooldown (keys.go:287-294).                 *)
THEOREM LoneRejectionCoolsDown ==
  ASSUME Lone
  PROVE  Spec => RejectedKeyCoolsDown
<1>1. RotatorInit => CursorInHand
  BY DEF RotatorInit, CursorInHand, KeyInHand, Holding
<1>2. ASSUME TypeOK, CursorInHand, [Next]_vars
      PROVE  CursorInHand'
  <2>1. ASSUME NEW r \in Requests, Arrive(r)
        PROVE  CursorInHand'
    BY <1>2, <2>1 DEF Arrive, goto, Lone, CursorInHand, KeyInHand, Holding, TypeOK
  <2>2. ASSUME NEW r \in Requests, Expire(r) \/ Cancel(r)
        PROVE  CursorInHand'
    BY <1>2, <2>2 DEF Expire, Cancel, CursorInHand, poolVars
  <2>3. CASE BalanceLands \/ ResetLoop \/ Clock \/ UNCHANGED vars
    BY <1>2, <2>3
       DEF BalanceLands, SetCredits, ResetLoop, ReenableDue, Clock, Tick, vars,
           reqVars, poolVars, CursorInHand
  <2>4. QED
    BY <1>2, <2>1, <2>2, <2>3, StepKeepsCursor, Zenon DEF Next
<1>3. ASSUME TypeOK, CursorInHand, [Next]_vars, NEW r \in Requests,
             pc[r] = "advance", pc'[r] = "switch"
      PROVE  coolFor'[idx[r]] >= RotateCooldown
  <2>1. Advance(r)
    BY <1>3, OnlyAdvanceSwitches
  <2>2. PICK after \in Nat : AdvanceAfter(after)
    BY <2>1, HandlerConstants DEF Advance
  <2>3. cursor = idx[r] /\ cursor \in Keys /\ coolFor \in [Keys -> 0..RetryCap]
    BY <1>3 DEF CursorInHand, TypeOK, PoolTypeOK
  <2>4. coolFor'[idx[r]] = cooldownFor(after)
    BY <2>2, <2>3 DEF AdvanceAfter
  <2>5. QED
    BY <2>4, PoolConstants DEF cooldownFor, Larger, Smaller
<1>4. TypeOK /\ CursorInHand /\ [Next]_vars
      => [\A r \in Requests :
            pc[r] = "advance" /\ pc'[r] = "switch" /\ res[r].kind = "rotate"
              => coolFor'[idx[r]] >= RotateCooldown]_vars
  BY <1>3
<1>5. QED
  BY <1>1, <1>2, <1>4, TypedLocals, PTL DEF Spec, RejectedKeyCoolsDown

(* Between its selection and its call the key of a lone request stays       *)
(* usable, when no balance is fetched behind it.                            *)
UsableInHand ==
  \A r \in Requests : pc[r] \in {"acquire", "measure", "launch"} => usable(idx[r])

LEMMA StepKeepsUsable ==
  ASSUME Lone, TypeOK, LocalsOK, UsableInHand, ~hasUsage(Profile),
         NEW r \in Requests, Step(r)
  PROVE  UsableInHand'
<1> USE DEF TypeOK, goto
<1>1. ASSUME pc'[r] \notin {"acquire", "measure", "launch"}
      PROVE  UsableInHand'
  BY <1>1 DEF Lone, UsableInHand
<1>2. ASSUME NEW reply, return(r, reply)
      PROVE  UsableInHand'
  BY <1>1, <1>2 DEF return
<1>3. ASSUME UNCHANGED <<idx, credits, disabled>>, pc[r] \in {"acquire", "measure"}
      PROVE  UsableInHand'
  BY <1>3 DEF Lone, UsableInHand, usable
<1>4. CASE Select(r)
  <2>1. CASE current(coolFor) = NoKey
    BY <1>1, <1>4, <2>1 DEF Select
  <2>2. CASE current(coolFor) # NoKey
    <3>1. usable(current(coolFor))
      BY <2>2, SelectionComplete DEF UsableKeys, PoolTypeOK
    <3>2. idx'[r] = current(coolFor) /\ UNCHANGED <<credits, disabled>>
      BY <1>4, <2>2 DEF Select, Current
    <3>3. QED
      BY <3>1, <3>2 DEF Lone, UsableInHand, usable
  <2>3. QED
    BY <2>1, <2>2
<1>5. CASE Acquire(r) \/ Measure(r)
  BY <1>3, <1>5 DEF Acquire, Measure, TryAcquire, poolVars
<1>6. CASE Fetch(r)
  BY <1>6 DEF Fetch, LocalsOK
<1>7. CASE Launch(r) \/ Upstream(r) \/ Success(r) \/ Charge(r) \/ Clamp(r) \/ Hold(r)
  BY <1>1, <1>7 DEF Launch, Upstream, Success, Charge, Clamp, Hold
<1>8. CASE GiveBack(r) \/ Wake(r)
  BY <1>1, <1>8 DEF GiveBack, Wake, verdictStage, Lone
<1>9. CASE Saturated(r)
  BY <1>1, <1>2, <1>9 DEF Saturated, returnBusy503
<1>10. CASE GiveUp(r) \/ Finish(r)
  BY <1>2, <1>10 DEF GiveUp, Finish, returnBusy503
<1>11. CASE Check(r) \/ Park(r) \/ Drain(r) \/ Advance(r) \/ Switch(r)
  BY <1>1, <1>11 DEF Check, Park, Drain, Advance, Switch
<1>12. QED
  BY <1>4, <1>5, <1>6, <1>7, <1>8, <1>9, <1>10, <1>11 DEF Step

(* Without a second request, and without balance fetches, a key below the   *)
(* stop threshold never serves (keys.go:392, proxy.go:61-75).               *)
THEOREM LoneNeverServesBelowStop ==
  ASSUME Lone, ~hasUsage(Profile)
  PROVE  Spec => BelowStopNeverServes
<1>1. RotatorInit => UsableInHand
  BY DEF RotatorInit, UsableInHand
<1>2. ASSUME TypeOK, LocalsOK, UsableInHand, [Next]_vars
      PROVE  UsableInHand'
  <2>1. ASSUME NEW r \in Requests, Arrive(r)
        PROVE  UsableInHand'
    BY <1>2, <2>1 DEF Arrive, goto, Lone, UsableInHand, TypeOK
  <2>2. ASSUME NEW r \in Requests, Expire(r) \/ Cancel(r)
        PROVE  UsableInHand'
    BY <1>2, <2>2 DEF Expire, Cancel, UsableInHand, usable, poolVars
  <2>3. CASE ResetLoop
    <3>1. UNCHANGED <<pc, idx>>
      BY <2>3 DEF ResetLoop, reqVars
    <3>2. \A k \in Keys : usable(k) => usable(k)'
      BY <1>2, <2>3, PoolConstants
         DEF ResetLoop, ReenableDue, usable, TypeOK, PoolTypeOK
    <3>3. \A r \in Requests :
            pc[r] \in {"acquire", "measure", "launch"} => idx[r] \in Keys
      BY <1>2 DEF LocalsOK, KeyInHand, Holding
    <3>4. QED
      BY <1>2, <3>1, <3>2, <3>3 DEF UsableInHand, usable
  <2>4. CASE BalanceLands \/ Clock \/ UNCHANGED vars
    BY <1>2, <2>4
       DEF BalanceLands, Clock, Tick, vars, reqVars, poolVars, UsableInHand, usable
  <2>5. QED
    BY <1>2, <2>1, <2>2, <2>3, <2>4, StepKeepsUsable, Zenon DEF Next
<1>3. UsableInHand
      => [\A r \in Requests :
            pc[r] = "launch" /\ pc'[r] = "upstream"
              => credits[idx[r]] >= StopThreshold]_vars
  BY DEF UsableInHand, usable
<1>4. QED
  BY <1>1, <1>2, <1>3, TypedLocals, PTL DEF Spec, BelowStopNeverServes
=============================================================================
