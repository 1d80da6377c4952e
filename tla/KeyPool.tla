------------------------------- MODULE KeyPool -------------------------------
(***************************************************************************)
(* The key pool of one profile (keys.go).  Every exported method locks the *)
(* pool's mutex for its whole body, so every method is one action here.    *)
(* Time is what remains of a timer: coolFor[k] and dueIn[k] count down in  *)
(* Tick, one unit standing for one rotateCooldown of 30 seconds.           *)
(* A balance that was never fetched (math.MaxInt64 in the code) is the     *)
(* value Unmeasured, above every balance that can be measured.             *)
(***************************************************************************)
EXTENDS Integers, FiniteSets

CONSTANTS
  KeyCount,       \* number of keys of the profile
  MaxConcurrent,  \* in-flight cap per key, 0 = unlimited
  StopThreshold,  \* a key with fewer credits than this is not usable
  MaxCredits,     \* bound: the largest balance considered
  Seed,           \* the balance every key starts with
  RotateCooldown, \* rotateCooldown, in units of Tick
  RetryCap,       \* the 3600-second cap on Retry-After, in units of Tick
  MaxReset        \* bound: the longest time a key stays disabled

ASSUME PoolAssumption ==
  /\ KeyCount \in Nat \ {0}
  /\ MaxConcurrent \in Nat
  /\ MaxCredits \in Nat
  /\ StopThreshold \in 0..MaxCredits
  /\ Seed \in 0..(MaxCredits + 1)
  /\ RotateCooldown \in Nat \ {0}
  /\ RetryCap \in Nat /\ RotateCooldown <= RetryCap
  /\ MaxReset \in Nat /\ RotateCooldown <= MaxReset

Keys == 0 .. (KeyCount - 1)
NoKey == -1
Unmeasured == MaxCredits + 1

VARIABLES
  cursor,    \* the key selected last
  disabled,  \* disabled[k]: out of credits until dueIn[k] has run down
  dueIn,     \* time left before ReenableDue may bring k back
  credits,   \* last known balance, less the local estimates
  coolFor,   \* time left of k's cooldown
  inFlight,  \* slots of k taken
  slotFree   \* is there a token in the size-1 channel slotFree?

poolVars == <<cursor, disabled, dueIn, credits, coolFor, inFlight, slotFree>>

(* NewKeyPool, and what buildProfiles does to it: a profile whose balances  *)
(* are fetched starts Unmeasured, one without a balance endpoint is seeded  *)
(* with its configured budget.                                              *)
PoolInit ==
  /\ cursor = 0
  /\ disabled = [k \in Keys |-> FALSE]
  /\ dueIn = [k \in Keys |-> 0]
  /\ credits = [k \in Keys |-> Seed]
  /\ coolFor = [k \in Keys |-> 0]
  /\ inFlight = [k \in Keys |-> 0]
  /\ slotFree = FALSE

-----------------------------------------------------------------------------
(* Which key serves next.                                                   *)

(* Fault: off by one at the cap.                                            *)
hasSlotOneMore(k) == MaxConcurrent = 0 \/ inFlight[k] <= MaxConcurrent

hasSlot(k) == MaxConcurrent = 0 \/ inFlight[k] < MaxConcurrent

(* Any key's slot counts, a disabled key's too.                             *)
anySlotFree == \E k \in Keys : hasSlot(k)

usable(k) == ~disabled[k] /\ credits[k] >= StopThreshold
AnyUsable == \E k \in Keys : usable(k)

(* The tiers of currentLocked, from the least to the most demanding.        *)
UsableKeys == {k \in Keys : usable(k)}
FreeKeys == {k \in UsableKeys : hasSlot(k)}
ReadyKeys(cool) == {k \in FreeKeys : cool[k] = 0}

(* The loop keeps the first key with strictly more credits than the best so *)
(* far, so the lowest index wins a tie.                                     *)
Richest(S) ==
  CHOOSE k \in S : \A j \in S :
    credits[j] < credits[k] \/ (credits[j] = credits[k] /\ k <= j)

(* Fault: tier 3 honours the cooldown too, so a pool whose keys all cool    *)
(* down answers that it has no key.                                         *)
currentWithoutFallback(cool) ==
  IF ReadyKeys(cool) # {} THEN Richest(ReadyKeys(cool)) ELSE NoKey

(* Fault: the cooldown is not looked at.                                    *)
currentIgnoringCooldown(cool) ==
  IF FreeKeys # {} THEN Richest(FreeKeys)
  ELSE IF UsableKeys # {} THEN Richest(UsableKeys)
  ELSE NoKey

current(cool) ==
  IF ReadyKeys(cool) # {} THEN Richest(ReadyKeys(cool))
  ELSE IF FreeKeys # {} THEN Richest(FreeKeys)
  ELSE IF UsableKeys # {} THEN Richest(UsableKeys)
  ELSE NoKey

(* The loop itself: the best key of each tier after the first n keys.       *)
better(best, k) == IF best = NoKey \/ credits[k] > credits[best] THEN k ELSE best

scan(acc, k, cool) ==
  IF ~usable(k) THEN acc
  ELSE [any   |-> better(acc.any, k),
        slot  |-> IF hasSlot(k) THEN better(acc.slot, k) ELSE acc.slot,
        ready |-> IF hasSlot(k) /\ cool[k] = 0 THEN better(acc.ready, k)
                  ELSE acc.ready]

nothingFound == [any |-> NoKey, slot |-> NoKey, ready |-> NoKey]

scannedUpTo(cool) ==
  LET upTo[n \in 0..KeyCount] ==
        IF n = 0 THEN nothingFound ELSE scan(upTo[n - 1], n - 1, cool)
  IN  upTo

scanned(cool) ==
  LET found == scannedUpTo(cool)[KeyCount]
  IN  IF found.ready # NoKey THEN found.ready
      ELSE IF found.slot # NoKey THEN found.slot
      ELSE found.any

(* currentLocked moves the cursor only when it finds a key.                 *)
moveCursor(k) == cursor' = IF k = NoKey THEN cursor ELSE k

Current ==
  /\ moveCursor(current(coolFor))
  /\ UNCHANGED <<disabled, dueIn, credits, coolFor, inFlight, slotFree>>

-----------------------------------------------------------------------------
(* Cooldowns.                                                               *)

Larger(a, b) == IF a < b THEN b ELSE a
Smaller(a, b) == IF a < b THEN a ELSE b

(* rotateCooldown is a floor under the capped Retry-After; after is 0 when  *)
(* the header is absent, not a number or not positive.                      *)
cooldownFor(after) == Larger(RotateCooldown, Smaller(after, RetryCap))

(* The key the cursor is on cools down, whichever key the caller used, and  *)
(* an earlier, longer cooldown is overwritten.  The next key is selected    *)
(* under the same lock.                                                     *)
AdvanceAfter(after) ==
  /\ coolFor' = [coolFor EXCEPT ![cursor] = cooldownFor(after)]
  /\ moveCursor(current(coolFor'))
  /\ UNCHANGED <<disabled, dueIn, credits, inFlight, slotFree>>

RecordSuccess(k) ==
  /\ coolFor' = [coolFor EXCEPT ![k] = 0]
  /\ UNCHANGED <<cursor, disabled, dueIn, credits, inFlight, slotFree>>

-----------------------------------------------------------------------------
(* In-flight slots.                                                         *)

(* TryAcquire when it returns TRUE; it changes nothing when it returns      *)
(* FALSE.  An unlimited pool does not count.                                *)
TryAcquire(k) ==
  /\ hasSlot(k)
  /\ inFlight' = IF MaxConcurrent = 0 THEN inFlight
                 ELSE [inFlight EXCEPT ![k] = @ + 1]
  /\ UNCHANGED <<cursor, disabled, dueIn, credits, coolFor, slotFree>>

(* Fault: the guard against an over-release is gone.                        *)
ReleaseUnguarded(k) ==
  /\ inFlight' = [inFlight EXCEPT ![k] = @ - 1]
  /\ UNCHANGED <<cursor, disabled, dueIn, credits, coolFor, slotFree>>

(* The locked half of Release; the token is sent after the unlock.          *)
Release(k) ==
  /\ inFlight' = IF MaxConcurrent > 0 /\ inFlight[k] > 0
                 THEN [inFlight EXCEPT ![k] = @ - 1] ELSE inFlight
  /\ UNCHANGED <<cursor, disabled, dueIn, credits, coolFor, slotFree>>

(* The two ends of the channel: a send into a full channel is dropped.      *)
SendToken ==
  /\ slotFree' = TRUE
  /\ UNCHANGED <<cursor, disabled, dueIn, credits, coolFor, inFlight>>

TakeToken ==
  /\ slotFree
  /\ slotFree' = FALSE
  /\ UNCHANGED <<cursor, disabled, dueIn, credits, coolFor, inFlight>>

-----------------------------------------------------------------------------
(* Credits, exhaustion and the way back.                                    *)

(* Fault: an estimate may fall below zero.                                  *)
afterCostUnfloored(c, cost) ==
  IF c = Unmeasured THEN c ELSE c - Larger(1, cost)

(* A reported cost of zero or less counts as one credit; an unmeasured      *)
(* balance is not estimated down, and no balance falls below zero.          *)
afterCost(c, cost) ==
  IF c = Unmeasured THEN c ELSE Larger(0, c - Larger(1, cost))

Decrement(k, cost) ==
  /\ credits' = [credits EXCEPT ![k] = afterCost(@, cost)]
  /\ UNCHANGED <<cursor, disabled, dueIn, coolFor, inFlight, slotFree>>

SetCredits(k, balance) ==
  /\ credits' = [credits EXCEPT ![k] = Larger(0, balance)]
  /\ UNCHANGED <<cursor, disabled, dueIn, coolFor, inFlight, slotFree>>

Disable(k, until) ==
  /\ disabled' = [disabled EXCEPT ![k] = TRUE]
  /\ dueIn' = [dueIn EXCEPT ![k] = until]
  /\ credits' = [credits EXCEPT ![k] = IF @ = Unmeasured THEN @ ELSE 0]
  /\ UNCHANGED <<cursor, coolFor, inFlight, slotFree>>

(* Fault: a reset that is due now is not due yet.                           *)
DueKeysLate == {k \in Keys : disabled[k] /\ dueIn[k] < 0}

DueKeys == {k \in Keys : disabled[k] /\ dueIn[k] = 0}

(* Fault: a key that comes back keeps the zero balance it was disabled with.*)
ReenableDueKeepingCredits ==
  /\ DueKeys # {}
  /\ disabled' = [k \in Keys |-> disabled[k] /\ k \notin DueKeys]
  /\ UNCHANGED <<cursor, dueIn, credits, coolFor, inFlight, slotFree>>

(* One turn of resetLoop that finds something due.                          *)
ReenableDue ==
  /\ DueKeys # {}
  /\ disabled' = [k \in Keys |-> disabled[k] /\ k \notin DueKeys]
  /\ credits' = [k \in Keys |-> IF k \in DueKeys THEN Unmeasured
                                ELSE credits[k]]
  /\ UNCHANGED <<cursor, dueIn, coolFor, inFlight, slotFree>>

(* Time passes.                                                             *)
Tick ==
  /\ \E k \in Keys : coolFor[k] > 0 \/ dueIn[k] > 0
  /\ coolFor' = [k \in Keys |-> Larger(0, coolFor[k] - 1)]
  /\ dueIn' = [k \in Keys |-> Larger(0, dueIn[k] - 1)]
  /\ UNCHANGED <<cursor, disabled, credits, inFlight, slotFree>>

-----------------------------------------------------------------------------
(* The pool under callers that call any method with any argument, in any    *)
(* order, over-releases included.                                           *)

PoolNext ==
  \/ Current
  \/ \E after \in 0..RetryCap : AdvanceAfter(after)
  \/ \E k \in Keys :
       \/ RecordSuccess(k)
       \/ TryAcquire(k)
       \/ Release(k)
       \/ \E cost \in 0..MaxCredits : Decrement(k, cost)
       \/ \E balance \in 0..MaxCredits : SetCredits(k, balance)
       \/ \E until \in 0..MaxReset : Disable(k, until)
  \/ SendToken
  \/ TakeToken
  \/ ReenableDue
  \/ Tick

PoolSpec == PoolInit /\ [][PoolNext]_poolVars

PoolTypeOK ==
  /\ cursor \in Keys
  /\ disabled \in [Keys -> BOOLEAN]
  /\ dueIn \in [Keys -> 0..MaxReset]
  /\ credits \in [Keys -> 0..Unmeasured]
  /\ coolFor \in [Keys -> 0..RetryCap]
  /\ inFlight \in [Keys -> Nat]
  /\ slotFree \in BOOLEAN

(* The one-pass loop of currentLocked (keys.go:207-242) picks the richest   *)
(* key of the first tier that has one, the lowest index on a tie, whatever  *)
(* the mix of disabled, drained, saturated and cooling keys.                *)
LoopPicksRichestOfTier == scanned(coolFor) = current(coolFor)

(* The pool refuses (-1, hence a 503) exactly when no key is usable: a      *)
(* cooldown or a full slot never turns a working pool into a 503            *)
(* (keys.go:280-283), and AnyUsable, of which /healthz takes the OR over    *)
(* all profiles, says the same of one pool (keys.go:423-434, server.go:     *)
(* 45-60).                                                                  *)
CooldownNeverRefuses == current(coolFor) = NoKey <=> ~AnyUsable

(* However TryAcquire and Release are mixed, over-releases included, a      *)
(* limited key's count stays between zero and the cap (keys.go:126,140).    *)
CountWithinCap ==
  MaxConcurrent > 0 => \A k \in Keys : inFlight[k] \in 0..MaxConcurrent

(* A key that ReenableDue brings back can serve at once, although Disable   *)
(* zeroed its balance (keys.go:448-450).                                    *)
ReenabledKeyServes ==
  [][\A k \in Keys : disabled[k] /\ ~disabled'[k] => usable(k)']_poolVars
=============================================================================
