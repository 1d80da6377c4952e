---------------------------- MODULE RotatorProofs ----------------------------
(***************************************************************************)
(* The handler's invariants, for every number of requests, keys and        *)
(* rotations, every cap, every reply and every interleaving.               *)
(***************************************************************************)
EXTENDS Rotator, KeyPoolProofs, FiniteSetTheorems

(* Where a request still needs the key it selected.                         *)
KeyInHand ==
  Holding \cup {"acquire", "wake", "success", "charge", "clamp", "hold", "drain"}

(* Where the attempt under way has not counted yet.                         *)
Uncounted ==
  {"idle", "select", "acquire", "saturated", "check", "park", "blocked",
   "measure", "fetch", "launch", "upstream"}

(* The locals of ServeHTTP: a request that needs a key has one, an attempt  *)
(* only starts while the rotation budget lasts, what counts as an upstream  *)
(* response has a status, only a profile with a balance endpoint fetches,   *)
(* and nobody queues for an unlimited key.                                  *)
LocalsOK ==
  \A r \in Requests :
    /\ pc[r] \in KeyInHand => idx[r] \in Keys
    /\ pc[r] \in Uncounted => tries[r] < maxRotations
    /\ res[r].kind \in {"ok", "capped"} => res[r].status # NoStatus
    /\ pc[r] = "fetch" => hasUsage(Profile)
    /\ pc[r] \in {"saturated", "check", "park", "blocked"} => MaxConcurrent > 0

(* SlotsMatchHolders is inductive together with these.                      *)
HandlerInv == TypeOK /\ LocalsOK /\ SlotsMatchHolders

-----------------------------------------------------------------------------
(* The assumptions on the constants, in the form the leaves use.            *)
LEMMA HandlerConstants ==
  /\ maxRotations \in Nat \ {0}
  /\ IsFiniteSet(Requests)
  /\ Profile \in Profiles
  /\ \A m \in Replies : /\ m.status \in Statuses \cup {NoStatus}
                        /\ m.body \in Bodies
                        /\ m.over \in BOOLEAN
                        /\ m.status = NoStatus => ~m.over
  /\ Costs \subseteq Nat
  /\ RetryAfters \subseteq Nat
  /\ Balances \subseteq 0..MaxCredits
  /\ Resets \subseteq 0..MaxReset
<1>1. MaxPasses * KeyCount \in Nat \ {0}
  <2>1. MaxPasses \in Nat \ {0} /\ KeyCount \in Nat \ {0}
    BY RotatorAssumption, PoolAssumption DEF RotatorAssumption, PoolAssumption
  <2>2. QED
    BY <2>1
<1>2. QED
  BY <1>1, RotatorAssumption DEF RotatorAssumption, maxRotations

Outcomes == [status : Statuses \cup {NoStatus}, body : Bodies, kind : Kinds]

(* An attempt without a response is a network error, whatever the profile:  *)
(* it is never handed on as a success or as an over-cap body                *)
(* (proxy.go:104-131).                                                      *)
LEMMA OutcomeHasStatus ==
  ASSUME NEW m \in Replies
  PROVE  /\ outcomeOf(m) \in Outcomes
         /\ outcomeOf(m).kind \in {"ok", "capped"}
              => outcomeOf(m).status # NoStatus
<1>1. /\ m.status \in Statuses \cup {NoStatus} /\ m.body \in Bodies
      /\ m.over \in BOOLEAN /\ m.status = NoStatus => ~m.over
  BY HandlerConstants
<1>2. classify(Profile, m.status, m.body, m.over) \in Kinds
  BY DEF classify, Kinds
<1>3. ASSUME m.status = NoStatus
      PROVE  classify(Profile, m.status, m.body, m.over) = "netErr"
  <2>1. shouldRetry(m.status)
    BY <1>3 DEF shouldRetry
  <2>2. ~m.over
    BY <1>1, <1>3
  <2>3. QED
    BY <2>1, <2>2 DEF classify
<1>4. QED
  BY <1>1, <1>2, <1>3 DEF outcomeOf, Outcomes

(* Every step of the handler, the reset loop, the clock and the balance     *)
(* fetches changes the pool through one of its methods, or not at all.      *)
LEMMA HandlerCallsPool ==
  ASSUME TypeOK, LocalsOK, Next
  PROVE  PoolCall \/ UNCHANGED poolVars
<1> USE HandlerConstants, PoolConstants DEF PoolCall
<1>1. ASSUME NEW r \in Requests, Step(r)
      PROVE  PoolCall \/ UNCHANGED poolVars
  <2>1. pc[r] \in KeyInHand => idx[r] \in Keys
    BY DEF LocalsOK
  <2>2. CASE Select(r)
    BY <2>2 DEF Select
  <2>3. CASE Acquire(r)
    BY <2>1, <2>3 DEF Acquire, KeyInHand
  <2>4. CASE Measure(r)
    BY <2>4 DEF Measure
  <2>5. CASE Fetch(r)
    BY <2>1, <2>5 DEF Fetch, KeyInHand, Holding
  <2>6. CASE Launch(r)
    BY <2>6 DEF Launch
  <2>7. CASE Upstream(r)
    BY <2>7 DEF Upstream
  <2>8. CASE GiveBack(r)
    BY <2>1, <2>8 DEF GiveBack, KeyInHand, Holding
  <2>9. CASE Wake(r)
    BY <2>9 DEF Wake
  <2>10. CASE Saturated(r)
    BY <2>10 DEF Saturated
  <2>11. CASE Check(r)
    BY <2>11 DEF Check
  <2>12. CASE Park(r)
    BY <2>12 DEF Park
  <2>13. CASE GiveUp(r)
    BY <2>13 DEF GiveUp
  <2>14. CASE Success(r)
    BY <2>1, <2>14 DEF Success, KeyInHand
  <2>15. CASE Charge(r)
    BY <2>1, <2>15 DEF Charge, KeyInHand
  <2>16. CASE Clamp(r)
    BY <2>16 DEF Clamp
  <2>17. CASE Hold(r)
    BY <2>1, <2>17 DEF Hold, KeyInHand
  <2>18. CASE Drain(r)
    BY <2>1, <2>18 DEF Drain, KeyInHand
  <2>19. CASE Advance(r)
    BY <2>19 DEF Advance
  <2>20. CASE Switch(r)
    BY <2>20 DEF Switch
  <2>21. CASE Finish(r)
    BY <2>21 DEF Finish
  <2>22. QED
    BY <1>1, <2>2, <2>3, <2>4, <2>5, <2>6, <2>7, <2>8, <2>9, <2>10, <2>11,
       <2>12, <2>13, <2>14, <2>15, <2>16, <2>17, <2>18, <2>19, <2>20, <2>21
       DEF Step
<1>2. ASSUME NEW r \in Requests, Arrive(r) \/ Expire(r) \/ Cancel(r)
      PROVE  UNCHANGED poolVars
  BY <1>2 DEF Arrive, Expire, Cancel
<1>3. CASE BalanceLands \/ ResetLoop \/ Clock
  BY <1>3 DEF BalanceLands, ResetLoop, Clock
<1>4. QED
  BY <1>1, <1>2, <1>3, Zenon DEF Next

-----------------------------------------------------------------------------
(* The locals of the requests, without the pool.                            *)
LocalsTypeOK ==
  /\ pc \in [Requests -> Stages]
  /\ idx \in [Requests -> Keys \cup {NoKey}]
  /\ tries \in [Requests -> 0..maxRotations]
  /\ res \in [Requests -> Outcomes]
  /\ answer \in [Requests -> Answers]
  /\ expired \in [Requests -> BOOLEAN]
  /\ gone \in [Requests -> BOOLEAN]

LocalsInv == LocalsTypeOK /\ LocalsOK

LEMMA TypeParts == TypeOK <=> PoolTypeOK /\ LocalsTypeOK
BY DEF TypeOK, LocalsTypeOK, Outcomes

(* A handler that returns leaves its locals as it found them.               *)
LEMMA ReturnLocals ==
  ASSUME LocalsInv, NEW r \in Requests, NEW reply \in Answers, return(r, reply)
  PROVE  LocalsInv'
<1> USE HandlerConstants DEF LocalsInv
<1>1. LocalsTypeOK'
  BY DEF LocalsTypeOK, return, goto, Stages, NoReply, Outcomes, Kinds, Bodies
<1>2. LocalsOK'
  BY DEF LocalsOK, LocalsTypeOK, return, goto, KeyInHand, Holding, Uncounted, NoReply
<1>3. QED
  BY <1>1, <1>2


(* Every step of a request keeps the locals in their ranges, a key in hand  *)
(* where one is needed, and the attempts within the rotation budget.        *)
LEMMA StepLocals ==
  ASSUME PoolTypeOK, LocalsInv, NEW r \in Requests, Step(r)
  PROVE  LocalsInv'
<1> USE HandlerConstants, PoolConstants
    DEF LocalsInv, LocalsTypeOK, LocalsOK, goto, Stages, Holding, KeyInHand,
        Uncounted
<1>1. CASE Select(r)
  <2>1. current(coolFor) \in Keys \cup {NoKey}
    BY SelectionComplete DEF PoolTypeOK, UsableKeys
  <2>2. CASE current(coolFor) = NoKey
    <3>1. NoReply \in Outcomes /\ NoReply.kind = "none"
      BY DEF NoReply, Outcomes, Bodies, Kinds
    <3>2. QED
      BY <1>1, <2>2, <3>1 DEF Select, count
  <2>3. CASE current(coolFor) # NoKey
    BY <1>1, <2>1, <2>3 DEF Select
  <2>4. QED
    BY <2>2, <2>3
<1>2. CASE Acquire(r)
  BY <1>2 DEF Acquire, hasSlot
<1>3. CASE Measure(r)
  BY <1>3 DEF Measure
<1>4. CASE Fetch(r)
  BY <1>4 DEF Fetch
<1>5. CASE Launch(r)
  <2>1. NetErr \in Outcomes /\ NetErr.kind = "netErr"
    BY DEF NetErr, NoReply, Outcomes, Bodies, Kinds
  <2>2. QED
    BY <1>5, <2>1 DEF Launch, count
<1>6. CASE Upstream(r)
  <2>1. PICK m \in Replies : count(r, outcomeOf(m))
    BY <1>6 DEF Upstream
  <2>2. QED
    BY <1>6, <2>1, OutcomeHasStatus DEF Upstream, count
<1>7. CASE GiveBack(r)
  BY <1>7 DEF GiveBack, verdictStage
<1>8. CASE Wake(r)
  BY <1>8 DEF Wake, verdictStage
<1>9. CASE Saturated(r)
  <2>1. CASE \E reply \in Answers : return(r, reply)
    BY <2>1, ReturnLocals
  <2>2. CASE /\ pc[r] = "saturated" /\ goto(r, "check")
             /\ UNCHANGED <<idx, tries, res, answer, expired, gone>>
    BY <2>2
  <2>3. QED
    BY <1>9, <2>1, <2>2 DEF Saturated, returnBusy503, Answers
<1>10. CASE Check(r)
  BY <1>10 DEF Check
<1>11. CASE Park(r)
  BY <1>11 DEF Park
<1>12. CASE GiveUp(r)
  BY <1>12, ReturnLocals DEF GiveUp, returnBusy503, Answers
<1>13. CASE Success(r)
  BY <1>13 DEF Success
<1>14. CASE Charge(r)
  BY <1>14 DEF Charge
<1>15. CASE Clamp(r)
  BY <1>15 DEF Clamp
<1>16. CASE Hold(r)
  BY <1>16 DEF Hold
<1>17. CASE Drain(r)
  BY <1>17 DEF Drain
<1>18. CASE Advance(r)
  BY <1>18 DEF Advance
<1>19. CASE Switch(r)
  BY <1>19 DEF Switch
<1>20. CASE Finish(r)
  BY <1>20, ReturnLocals DEF Finish, finalAnswer, Answers
<1>21. QED
  BY <1>1, <1>2, <1>3, <1>4, <1>5, <1>6, <1>7, <1>8, <1>9, <1>10, <1>11,
     <1>12, <1>13, <1>14, <1>15, <1>16, <1>17, <1>18, <1>19, <1>20
     DEF Step

(* The initial handler is well-formed, and holds no slot.                   *)
LEMMA HandlerInitOK == RotatorInit => TypeOK /\ LocalsOK /\ \A k \in Keys : holders(k) = {}
<1> SUFFICES ASSUME RotatorInit
             PROVE  TypeOK /\ LocalsOK /\ \A k \in Keys : holders(k) = {}
  OBVIOUS
<1> USE HandlerConstants, PoolConstants DEF RotatorInit
<1>1. PoolTypeOK
  BY PoolInitTypes
<1>2. LocalsTypeOK
  BY DEF LocalsTypeOK, Stages, NoReply, Outcomes, Bodies, Kinds, Answers
<1>3. LocalsOK
  BY DEF LocalsOK, KeyInHand, Holding, NoReply
<1>4. \A k \in Keys : holders(k) = {}
  BY DEF holders, Holding
<1>5. QED
  BY <1>1, <1>2, <1>3, <1>4, TypeParts

(* Types and locals through every step of the specification.                *)
LEMMA HandlerStepOK ==
  ASSUME TypeOK, LocalsOK, [Next]_vars
  PROVE  TypeOK' /\ LocalsOK'
<1>1. PoolTypeOK /\ LocalsInv
  BY TypeParts DEF LocalsInv
<1>2. PoolTypeOK'
  <2>1. CASE UNCHANGED poolVars
    BY <1>1, <2>1 DEF PoolTypeOK, poolVars
  <2>2. CASE PoolCall
    BY <1>1, <2>2, PoolCallTypes
  <2>3. QED
    BY <2>1, <2>2, HandlerCallsPool DEF vars
<1>3. LocalsInv'
  <2>1. ASSUME UNCHANGED reqVars
        PROVE  LocalsInv'
    BY <1>1, <2>1 DEF reqVars, LocalsInv, LocalsTypeOK, LocalsOK
  <2>2. ASSUME NEW r \in Requests, Arrive(r)
        PROVE  LocalsInv'
    BY <1>1, <2>2 DEF Arrive, goto, LocalsInv, LocalsTypeOK, LocalsOK, Stages,
                      Holding, KeyInHand, Uncounted, Answers
  <2>3. ASSUME NEW r \in Requests, Expire(r)
        PROVE  LocalsInv'
    BY <1>1, <2>3 DEF Expire, LocalsInv, LocalsTypeOK, LocalsOK
  <2>4. ASSUME NEW r \in Requests, Cancel(r)
        PROVE  LocalsInv'
    BY <1>1, <2>4 DEF Cancel, LocalsInv, LocalsTypeOK, LocalsOK
  <2>5. ASSUME NEW r \in Requests, Step(r)
        PROVE  LocalsInv'
    BY <1>1, <2>5, StepLocals
  <2>6. CASE BalanceLands \/ ResetLoop \/ Clock
    BY <2>1, <2>6 DEF BalanceLands, ResetLoop, Clock
  <2>7. CASE UNCHANGED vars
    BY <2>1, <2>7 DEF vars
  <2>8. QED
    BY <2>2, <2>3, <2>4, <2>5, <2>6, <2>7, Zenon DEF Next
<1>4. QED
  BY <1>2, <1>3 DEF LocalsInv, TypeOK, LocalsTypeOK, Outcomes

(* Every variable of the pool and of the requests stays in its range: in    *)
(* particular the cursor stays on a key and the attempts of a request       *)
(* within MAX_PASSES times the number of keys (proxy.go:156-262).           *)
THEOREM Typed == Spec => []TypeOK
<1>1. RotatorInit => TypeOK /\ LocalsOK
  BY HandlerInitOK
<1>2. TypeOK /\ LocalsOK /\ [Next]_vars => TypeOK' /\ LocalsOK'
  BY HandlerStepOK
<1>3. QED
  BY <1>1, <1>2, PTL DEF Spec

(* The same invariant, with the locals it needs.                            *)
LEMMA TypedLocals == Spec => [](TypeOK /\ LocalsOK)
<1>1. RotatorInit => TypeOK /\ LocalsOK
  BY HandlerInitOK
<1>2. TypeOK /\ LocalsOK /\ [Next]_vars => (TypeOK /\ LocalsOK)'
  BY HandlerStepOK
<1>3. QED
  BY <1>1, <1>2, PTL DEF Spec

-----------------------------------------------------------------------------
(* Slots.                                                                   *)

(* Nobody takes or returns a slot.                                          *)
SameLeases ==
  /\ UNCHANGED inFlight
  /\ \A q \in Requests :
       /\ pc'[q] \in Holding <=> pc[q] \in Holding
       /\ pc[q] \in Holding => idx'[q] = idx[q]

(* r takes a slot of k, or gives it back.                                   *)
Takes(r, k) ==
  /\ pc[r] \notin Holding /\ hasSlot(k)
  /\ TryAcquire(k)
  /\ pc' = [pc EXCEPT ![r] = "measure"] /\ idx[r] = k /\ UNCHANGED idx

Returns(r, k) ==
  /\ pc[r] = "release" /\ idx[r] = k
  /\ Release(k)
  /\ \E stage \in Stages \ Holding : pc' = [pc EXCEPT ![r] = stage]
  /\ UNCHANGED idx

(* Only Acquire and GiveBack move slots, whatever else a request does       *)
(* between them.                                                            *)
LEMMA SlotSteps ==
  ASSUME TypeOK, LocalsOK, [Next]_vars
  PROVE  \/ SameLeases
         \/ \E r \in Requests, k \in Keys : Takes(r, k) \/ Returns(r, k)
<1> USE DEF TypeOK, SameLeases, Holding, goto
<1>1. ASSUME NEW r \in Requests, Step(r)
      PROVE  SameLeases \/ \E k \in Keys : Takes(r, k) \/ Returns(r, k)
  <2>1. pc[r] \in {"acquire", "release"} => idx[r] \in Keys
    BY DEF LocalsOK, KeyInHand
  <2>2. CASE Acquire(r)
    <3>1. CASE TryAcquire(idx[r]) /\ goto(r, "measure")
      BY <2>1, <2>2, <3>1 DEF Acquire, Takes, TryAcquire
    <3>2. CASE goto(r, "saturated") /\ UNCHANGED poolVars
      BY <2>2, <3>2 DEF Acquire, poolVars
    <3>3. QED
      BY <2>2, <3>1, <3>2 DEF Acquire
  <2>3. CASE GiveBack(r)
    <3>1. "wake" \in Stages \ Holding /\ verdictStage(r) \in Stages \ Holding
      BY DEF Stages, verdictStage
    <3>2. \E stage \in Stages \ Holding : pc' = [pc EXCEPT ![r] = stage]
      BY <2>3, <3>1 DEF GiveBack
    <3>3. QED
      BY <2>1, <2>3, <3>2 DEF GiveBack, Returns
  <2>4. ASSUME NEW reply, return(r, reply), pc[r] \notin Holding,
               UNCHANGED poolVars \/ Current
        PROVE  SameLeases
    BY <2>4 DEF return, poolVars, Current
  <2>5. CASE Select(r)
    BY <2>5 DEF Select, Current, count
  <2>6. CASE Measure(r)
    BY <2>6 DEF Measure, poolVars
  <2>7. CASE Fetch(r)
    BY <2>7 DEF Fetch, SetCredits, poolVars
  <2>8. CASE Launch(r)
    BY <2>8 DEF Launch, poolVars
  <2>9. CASE Upstream(r)
    BY <2>9 DEF Upstream, poolVars
  <2>10. CASE Wake(r)
    BY <2>10 DEF Wake, verdictStage, SendToken, poolVars
  <2>11. CASE Saturated(r)
    <3>1. CASE \E reply : return(r, reply)
      BY <2>4, <2>11, <3>1 DEF Saturated
    <3>2. CASE goto(r, "check") /\ UNCHANGED idx
      BY <2>11, <3>2 DEF Saturated, poolVars
    <3>3. QED
      BY <2>11, <3>1, <3>2 DEF Saturated, returnBusy503
  <2>12. CASE Check(r)
    BY <2>12 DEF Check, poolVars
  <2>13. CASE Park(r)
    BY <2>13 DEF Park, TakeToken, poolVars
  <2>14. CASE GiveUp(r)
    BY <2>4, <2>14 DEF GiveUp, returnBusy503
  <2>15. CASE Success(r)
    BY <2>15 DEF Success, RecordSuccess
  <2>16. CASE Charge(r)
    BY <2>16 DEF Charge, Decrement, poolVars
  <2>17. CASE Clamp(r)
    BY <2>17 DEF Clamp, poolVars
  <2>18. CASE Hold(r)
    BY <2>18 DEF Hold, Disable
  <2>19. CASE Drain(r)
    BY <2>19 DEF Drain, Disable
  <2>20. CASE Advance(r)
    BY <2>20 DEF Advance, AdvanceAfter
  <2>21. CASE Switch(r)
    BY <2>21 DEF Switch, Current
  <2>22. CASE Finish(r)
    BY <2>4, <2>22 DEF Finish
  <2>23. QED
    BY <1>1, <2>2, <2>3, <2>5, <2>6, <2>7, <2>8, <2>9, <2>10, <2>11, <2>12,
       <2>13, <2>14, <2>15, <2>16, <2>17, <2>18, <2>19, <2>20,
       <2>21, <2>22
       DEF Step
<1>2. ASSUME NEW r \in Requests, Arrive(r) \/ Expire(r) \/ Cancel(r)
      PROVE  SameLeases
  BY <1>2 DEF Arrive, Expire, Cancel, poolVars
<1>3. CASE BalanceLands \/ ResetLoop \/ Clock
  BY <1>3 DEF BalanceLands, SetCredits, ResetLoop, ReenableDue, Clock, Tick,
              reqVars
<1>4. CASE UNCHANGED vars
  BY <1>4 DEF vars, poolVars, reqVars
<1>5. QED
  BY <1>1, <1>2, <1>3, <1>4 DEF Next

(* What the two slot steps do to the set of holders.                        *)
LEMMA HoldersChange ==
  ASSUME TypeOK, NEW k \in Keys
  PROVE  /\ IsFiniteSet(holders(k))
         /\ Cardinality(holders(k)) \in Nat
         /\ SameLeases => holders(k)' = holders(k)
         /\ \A r \in Requests, j \in Keys :
              /\ Takes(r, j) =>
                   /\ r \notin holders(k)
                   /\ holders(k)' = IF j = k THEN holders(k) \cup {r} ELSE holders(k)
              /\ Returns(r, j) =>
                   /\ r \in holders(j)
                   /\ holders(k)' = IF j = k THEN holders(k) \ {r} ELSE holders(k)
<1> USE DEF holders
<1>1. IsFiniteSet(holders(k)) /\ Cardinality(holders(k)) \in Nat
  <2>1. holders(k) \in SUBSET Requests
    OBVIOUS
  <2>2. QED
    BY <2>1, HandlerConstants, FS_Subset, FS_CardinalityType
<1>2. ASSUME SameLeases
      PROVE  holders(k)' = holders(k)
  BY <1>2 DEF SameLeases
<1>3. ASSUME NEW r \in Requests, NEW j \in Keys, Takes(r, j)
      PROVE  /\ r \notin holders(k)
             /\ holders(k)' = IF j = k THEN holders(k) \cup {r} ELSE holders(k)
  <2>1. "measure" \in Holding
    BY DEF Holding
  <2>2. QED
    BY <1>3, <2>1 DEF Takes, TypeOK
<1>4. ASSUME NEW r \in Requests, NEW j \in Keys, Returns(r, j)
      PROVE  /\ r \in holders(j)
             /\ holders(k)' = IF j = k THEN holders(k) \ {r} ELSE holders(k)
  <2>1. "release" \in Holding
    BY DEF Holding
  <2>2. QED
    BY <1>4, <2>1 DEF Returns, TypeOK
<1>5. QED
  BY <1>1, <1>2, <1>3, <1>4

(* A step keeps every key's count equal to the number of its holders.       *)
LEMMA SlotAccounting ==
  ASSUME TypeOK, LocalsOK, SlotsMatchHolders, [Next]_vars
  PROVE  SlotsMatchHolders'
<1> SUFFICES ASSUME MaxConcurrent > 0, NEW k \in Keys
             PROVE  inFlight'[k] = Cardinality(holders(k)')
  BY DEF SlotsMatchHolders
<1>1. /\ inFlight[k] = Cardinality(holders(k))
      /\ inFlight \in [Keys -> Nat]
      /\ MaxConcurrent \in Nat
  BY PoolConstants DEF SlotsMatchHolders, TypeOK, PoolTypeOK
<1>2. CASE SameLeases
  <2>1. holders(k)' = holders(k)
    BY <1>2, HoldersChange
  <2>2. QED
    BY <1>1, <1>2, <2>1 DEF SameLeases
<1>3. ASSUME NEW r \in Requests, NEW j \in Keys, Takes(r, j)
      PROVE  inFlight'[k] = Cardinality(holders(k)')
  <2>1. /\ r \notin holders(k)
        /\ holders(k)' = IF j = k THEN holders(k) \cup {r} ELSE holders(k)
    BY <1>3, HoldersChange
  <2>2. inFlight'[k] = IF j = k THEN inFlight[k] + 1 ELSE inFlight[k]
    BY <1>1, <1>3 DEF Takes, TryAcquire
  <2>3. IsFiniteSet(holders(k))
    BY HoldersChange
  <2>4. Cardinality(holders(k) \cup {r}) = Cardinality(holders(k)) + 1
    BY <2>1, <2>3, FS_AddElement
  <2>5. QED
    BY <1>1, <2>1, <2>2, <2>4
<1>4. ASSUME NEW r \in Requests, NEW j \in Keys, Returns(r, j)
      PROVE  inFlight'[k] = Cardinality(holders(k)')
  <2>1. /\ r \in holders(j)
        /\ holders(k)' = IF j = k THEN holders(k) \ {r} ELSE holders(k)
    BY <1>4, HoldersChange
  <2>2. IsFiniteSet(holders(k)) /\ Cardinality(holders(k)) \in Nat
    BY HoldersChange
  <2>3. CASE j # k
    BY <1>1, <1>4, <2>1, <2>3 DEF Returns, Release
  <2>4. CASE j = k
    <3>1. holders(k) # {} /\ Cardinality(holders(k)) > 0
      BY <2>1, <2>2, <2>4, FS_EmptySet
    <3>2. inFlight'[k] = inFlight[k] - 1
      BY <1>1, <1>4, <2>4, <3>1 DEF Returns, Release
    <3>3. Cardinality(holders(k) \ {r}) = Cardinality(holders(k)) - 1
      BY <2>1, <2>2, <2>4, FS_RemoveElement
    <3>4. QED
      BY <1>1, <2>1, <2>4, <3>2, <3>3
  <2>5. QED
    BY <2>3, <2>4
<1>5. QED
  BY <1>2, <1>3, <1>4, SlotSteps

LEMMA HandlerInvariant == Spec => []HandlerInv
<1>1. RotatorInit => SlotsMatchHolders
  <2>1. ASSUME RotatorInit, NEW k \in Keys
        PROVE  inFlight[k] = 0 /\ Cardinality(holders(k)) = 0
    BY <2>1, HandlerInitOK, FS_EmptySet DEF RotatorInit, PoolInit
  <2>2. QED
    BY <2>1 DEF SlotsMatchHolders
<1>2. TypeOK /\ LocalsOK /\ SlotsMatchHolders /\ [Next]_vars => SlotsMatchHolders'
  BY SlotAccounting
<1>3. QED
  BY <1>1, <1>2, TypedLocals, PTL DEF Spec, HandlerInv

(* No slot leaks and none is given back twice, whatever an attempt goes     *)
(* through between its TryAcquire and its Release (proxy.go:68-71).         *)
THEOREM SlotsAccounted == Spec => []SlotsMatchHolders
<1>1. HandlerInv => SlotsMatchHolders
  BY DEF HandlerInv
<1>2. QED
  BY <1>1, HandlerInvariant, PTL

(* The handler, the reset loop, the clock and the balance fetches use the   *)
(* pool through its methods only, one method in a step: what KeyPoolProofs  *)
(* shows for any caller holds of the pool the requests share                *)
(* (proxy.go:61-262).                                                       *)
THEOREM HandlerUsesPool == Spec => PoolCalled
<1>1. RotatorInit => PoolInit
  BY DEF RotatorInit
<1>2. TypeOK /\ LocalsOK /\ [Next]_vars => [PoolCall]_poolVars
  <2>1. UNCHANGED vars => UNCHANGED poolVars
    BY DEF vars
  <2>2. QED
    BY <2>1, HandlerCallsPool
<1>3. QED
  BY <1>1, <1>2, TypedLocals, PTL DEF Spec, PoolCalled

(* Under any number of requests the pool refuses only when no key is        *)
(* usable, selects by its tiers, counts within its cap, and brings keys     *)
(* back ready to serve.                                                     *)
THEOREM SharedPoolBehaves ==
  Spec => /\ []CooldownNeverRefuses /\ []LoopPicksRichestOfTier
          /\ []CountWithinCap /\ ReenabledKeyServes
BY HandlerUsesPool, CalledSelects, CalledKeepsCount, CalledBringsBack, PTL

(* No key serves more requests at once than its cap, although it is         *)
(* selected under one lock and its slot taken under another                 *)
(* (proxy.go:64-70).                                                        *)
THEOREM CapKept == Spec => []CapRespected
<1>1. SlotsMatchHolders /\ CountWithinCap => CapRespected
  BY PoolConstants DEF SlotsMatchHolders, CountWithinCap, CapRespected
<1>2. QED
  BY <1>1, SlotsAccounted, SharedPoolBehaves, PTL

-----------------------------------------------------------------------------
(* The slots as leases.                                                     *)

(* The abstract specification counts as the detailed one does.              *)
LEMMA SameCardinality == \A S : Leases!Cardinality(S) = Cardinality(S)
BY Zenon DEF Leases!Cardinality, Cardinality

(* A step that takes a slot is a lease, one that returns a slot gives the   *)
(* lease back, and every other step leaves the leases alone.                *)
LEMMA LeaseRefinement ==
  ASSUME TypeOK, LocalsOK, SlotsMatchHolders, [Next]_vars
  PROVE  [Leases!Next]_([k \in Keys |-> holders(k)])
<1> DEFINE lease == [k \in Keys |-> holders(k)]
<1>1. CASE SameLeases
  BY <1>1, HoldersChange
<1>2. ASSUME NEW r \in Requests, NEW k \in Keys, Takes(r, k)
      PROVE  Leases!Lease(r, k)
  <2>1. \A j \in Keys : r \notin lease[j]
    BY <1>2, HoldersChange
  <2>2. MaxConcurrent = 0 \/ Cardinality(lease[k]) < MaxConcurrent
    <3>1. MaxConcurrent \in Nat /\ lease[k] = holders(k)
      BY PoolConstants
    <3>2. MaxConcurrent = 0 \/ inFlight[k] < MaxConcurrent
      BY <1>2 DEF Takes, hasSlot
    <3>3. MaxConcurrent > 0 => inFlight[k] = Cardinality(holders(k))
      BY DEF SlotsMatchHolders
    <3>4. Cardinality(holders(k)) \in Nat
      BY HoldersChange
    <3>5. MaxConcurrent = 0 \/ Cardinality(holders(k)) < MaxConcurrent
      BY <3>1, <3>2, <3>3, <3>4
    <3>6. QED
      BY <3>1, <3>5, Zenon
  <2>3. lease' = [lease EXCEPT ![k] = lease[k] \cup {r}]
    BY <1>2, HoldersChange
  <2>4. QED
    BY <2>1, <2>2, <2>3, SameCardinality DEF Leases!Lease
<1>3. ASSUME NEW r \in Requests, NEW k \in Keys, Returns(r, k)
      PROVE  Leases!GiveBack(r, k)
  <2>1. r \in lease[k]
    BY <1>3, HoldersChange
  <2>2. lease' = [lease EXCEPT ![k] = lease[k] \ {r}]
    BY <1>3, HoldersChange
  <2>3. QED
    BY <2>1, <2>2 DEF Leases!GiveBack
<1>4. QED
  BY <1>1, <1>2, <1>3, SlotSteps DEF Leases!Next

(* TryAcquire and Release, spread over the steps of concurrent requests,    *)
(* implement the abstract lease: one key per request, the cap per key       *)
(* (keys.go:117-149).                                                       *)
THEOREM LeasesImplemented == Spec => ImplementsLeases
<1>1. RotatorInit => Leases!Init
  BY HandlerInitOK DEF Leases!Init
<1>2. HandlerInv /\ [Next]_vars => [Leases!Next]_([k \in Keys |-> holders(k)])
  BY LeaseRefinement DEF HandlerInv
<1>3. QED
  BY <1>1, <1>2, HandlerInvariant, PTL DEF Spec, ImplementsLeases, Leases!Spec

-----------------------------------------------------------------------------
(* What the client is told.                                                 *)

(* Only the end of the handler answers with an upstream response or with    *)
(* the refusal of an exhausted pool.                                        *)
LEMMA AnswerSteps ==
  ASSUME TypeOK, [Next]_vars, NEW r \in Requests,
         answer[r] = "none", answer'[r] \in {"upstream", "exhausted503"}
  PROVE  Finish(r) /\ answer'[r] = (IF res[r].kind = "capped" THEN "upstream"
                                     ELSE finalAnswer(r))
<1> USE DEF TypeOK
<1>1. ASSUME NEW q \in Requests, NEW reply, return(q, reply)
      PROVE  /\ answer'[q] = reply
             /\ q # r => answer'[r] = answer[r]
  BY <1>1 DEF return
<1>2. ASSUME UNCHANGED answer
      PROVE  FALSE
  BY <1>2
<1>3. ASSUME NEW q \in Requests, Step(q)
      PROVE  Finish(q) /\ q = r
  <2>1. CASE Saturated(q)
    BY <1>1, <1>2, <2>1 DEF Saturated, returnBusy503
  <2>2. CASE GiveUp(q)
    BY <1>1, <2>2 DEF GiveUp, returnBusy503
  <2>3. CASE Finish(q)
    BY <1>1, <2>3 DEF Finish
  <2>4. QED
    BY <1>2, <1>3, <2>1, <2>2, <2>3
       DEF Step, Select, Acquire, Measure, Fetch, Launch, Upstream, GiveBack,
           Wake, Check, Park, Success, Charge, Clamp, Hold, Drain, Advance, Switch
<1>4. ASSUME NEW q \in Requests, Arrive(q) \/ Expire(q) \/ Cancel(q)
      PROVE  FALSE
  BY <1>2, <1>4 DEF Arrive, Expire, Cancel
<1>5. CASE BalanceLands \/ ResetLoop \/ Clock \/ UNCHANGED vars
  BY <1>2, <1>5 DEF BalanceLands, ResetLoop, Clock, vars, reqVars
<1>6. Finish(r)
  BY <1>3, <1>4, <1>5 DEF Next
<1>7. QED
  BY <1>1, <1>6 DEF Finish

(* What a client gets as an upstream response is one: the zero status of an *)
(* attempt without a response never reaches it (proxy.go:265-321).          *)
THEOREM AnswerHasStatus == Spec => VerbatimAnswer
<1>1. ASSUME TypeOK, LocalsOK, [Next]_vars, NEW r \in Requests,
             answer[r] = "none", answer'[r] = "upstream"
      PROVE  res[r].status # NoStatus
  BY <1>1, AnswerSteps DEF finalAnswer, LocalsOK
<1>2. TypeOK /\ LocalsOK /\ [Next]_vars
      => [\A r \in Requests :
            answer[r] = "none" /\ answer'[r] = "upstream"
              => res[r].status # NoStatus]_vars
  BY <1>1
<1>3. QED
  BY <1>2, TypedLocals, PTL DEF Spec, VerbatimAnswer

=============================================================================
