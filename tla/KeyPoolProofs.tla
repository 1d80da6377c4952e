---------------------------- MODULE KeyPoolProofs ----------------------------
(***************************************************************************)
(* What the pool's operators return and preserve, for every number of keys *)
(* and every bound: the facts about KeyPool that the proofs about the pool *)
(* and about the handler rest on.                                          *)
(***************************************************************************)
EXTENDS KeyPool, WellFoundedInduction, TLAPS

(* The assumptions on the constants, in the form the leaves use.            *)
LEMMA PoolConstants ==
  /\ Keys \subseteq Nat /\ 0 \in Keys /\ NoKey \notin Keys
  /\ Keys # {}
  /\ MaxCredits \in Nat /\ Unmeasured = MaxCredits + 1
  /\ StopThreshold \in 0..MaxCredits
  /\ Seed \in 0..Unmeasured
  /\ RetryCap \in Nat /\ RotateCooldown \in 1..RetryCap
  /\ MaxReset \in Nat /\ RotateCooldown \in 0..MaxReset
  /\ MaxConcurrent \in Nat
BY PoolAssumption DEF PoolAssumption, Keys, NoKey, Unmeasured

(* Every nonempty set of naturals has a least member.                       *)
LEMMA LeastNatural ==
  ASSUME NEW T \in SUBSET Nat, T # {}
  PROVE  \E x \in T : \A y \in T : x <= y
<1> DEFINE Less == OpToRel(<, Nat)
<1>1. \A x, y \in Nat : <<x, y>> \in Less <=> x < y
  BY DEF OpToRel
<1>2. IsWellFoundedOn(Less, Nat)
  BY NatLessThanWellFounded
<1> HIDE DEF Less
<1>3. PICK x \in T : \A y \in T : ~ (<<y, x>> \in Less)
  BY <1>2, WFMin
<1>4. \A y \in T : ~ (y < x)
  BY <1>1, <1>3
<1>5. QED
  BY <1>4

(* b is the richest key of S, the lowest of its equals, or S has no key.    *)
BestOf(b, S) ==
  IF S = {} THEN b = NoKey
  ELSE /\ b \in S
       /\ \A j \in S : credits[j] < credits[b] \/ (credits[j] = credits[b] /\ b <= j)

(* A nonempty set of keys has a richest member, the lowest of its equals:   *)
(* the CHOOSE of Richest never picks outside its set (keys.go:207-236).     *)
LEMMA RichestInSet ==
  ASSUME NEW S \in SUBSET Keys, S # {}, credits \in [Keys -> 0..Unmeasured]
  PROVE  BestOf(Richest(S), S)
<1> DEFINE Lack == {Unmeasured - credits[k] : k \in S}
<1>1. \A k \in S : Unmeasured - credits[k] \in Nat /\ credits[k] \in Int
  BY PoolConstants
<1>2. Lack \in SUBSET Nat /\ Lack # {}
  BY <1>1
<1>3. PICK least \in Lack : \A x \in Lack : least <= x
  BY <1>2, LeastNatural
<1>4. least \in Nat
  BY <1>2, <1>3
<1> DEFINE Best == {k \in S : Unmeasured - credits[k] = least}
<1>5. Best \in SUBSET Nat /\ Best # {}
  BY <1>3, PoolConstants
<1>6. PICK b \in Best : \A k \in Best : b <= k
  BY <1>5, LeastNatural
<1>7. b \in S /\ b \in Nat /\ Unmeasured - credits[b] = least
  BY <1>5, <1>6
<1>8. ASSUME NEW j \in S
      PROVE  credits[j] < credits[b] \/ (credits[j] = credits[b] /\ b <= j)
  <2>1. least <= Unmeasured - credits[j]
    BY <1>3
  <2>2. CASE Unmeasured - credits[j] = least
    <3>1. b <= j
      BY <1>6, <2>2
    <3>2. QED
      BY <1>1, <1>7, <2>2, <3>1, PoolConstants
  <2>3. CASE Unmeasured - credits[j] # least
    BY <1>1, <1>4, <1>7, <2>1, <2>3, PoolConstants
  <2>4. QED
    BY <2>2, <2>3
<1>9. QED
  <2> HIDE DEF Lack, Best
  <2>1. \E k \in S : \A j \in S :
          credits[j] < credits[k] \/ (credits[j] = credits[k] /\ k <= j)
    BY <1>7, <1>8
  <2>2. QED
    BY <2>1, Zenon DEF Richest, BestOf

(* current answers -1 exactly when no key is usable, and otherwise a usable *)
(* key: neither a cooldown nor a full slot refuses a request.               *)
THEOREM SelectionComplete ==
  ASSUME NEW cool, credits \in [Keys -> 0..Unmeasured]
  PROVE  /\ current(cool) \in UsableKeys \cup {NoKey}
         /\ current(cool) = NoKey <=> ~AnyUsable
<1>1. /\ ReadyKeys(cool) \in SUBSET Keys /\ ReadyKeys(cool) \subseteq UsableKeys
      /\ FreeKeys \in SUBSET Keys /\ FreeKeys \subseteq UsableKeys
      /\ UsableKeys \in SUBSET Keys
  BY DEF ReadyKeys, FreeKeys, UsableKeys
<1>2. \A S \in SUBSET Keys : S # {} => Richest(S) \in S
  BY RichestInSet DEF BestOf
<1>3. UsableKeys # {} <=> AnyUsable
  BY DEF UsableKeys, AnyUsable
<1>4. NoKey \notin UsableKeys
  BY <1>1, PoolConstants
<1>5. CASE ReadyKeys(cool) # {}
  BY <1>1, <1>2, <1>3, <1>4, <1>5 DEF current
<1>6. CASE ReadyKeys(cool) = {} /\ FreeKeys # {}
  BY <1>1, <1>2, <1>3, <1>4, <1>6 DEF current
<1>7. CASE ReadyKeys(cool) = {} /\ FreeKeys = {} /\ UsableKeys # {}
  BY <1>1, <1>2, <1>3, <1>4, <1>7 DEF current
<1>8. CASE ReadyKeys(cool) = {} /\ FreeKeys = {} /\ UsableKeys = {}
  BY <1>3, <1>8 DEF current
<1>9. QED
  BY <1>5, <1>6, <1>7, <1>8

-----------------------------------------------------------------------------
(* The loop of currentLocked, for every number of keys.                     *)

(* There is only one best key.                                              *)
LEMMA BestIsRichest ==
  ASSUME credits \in [Keys -> 0..Unmeasured],
         NEW S \in SUBSET Keys, S # {}, NEW b, BestOf(b, S)
  PROVE  b = Richest(S)
<1>1. BestOf(Richest(S), S)
  BY RichestInSet
<1>2. /\ b \in S /\ Richest(S) \in S
      /\ b \in Int /\ Richest(S) \in Int
      /\ credits[b] \in Int /\ credits[Richest(S)] \in Int
  <2>1. b \in S /\ Richest(S) \in S
    BY <1>1, Zenon DEF BestOf
  <2>2. \A k \in S : k \in Int /\ credits[k] \in Int
    BY PoolConstants
  <2> HIDE DEF Richest
  <2>3. QED
    BY <2>1, <2>2
<1>3. /\ \/ credits[Richest(S)] < credits[b]
         \/ credits[Richest(S)] = credits[b] /\ b <= Richest(S)
      /\ \/ credits[b] < credits[Richest(S)]
         \/ credits[Richest(S)] = credits[b] /\ Richest(S) <= b
  BY <1>1, <1>2 DEF BestOf
<1>4. QED
  BY <1>2, <1>3

(* One comparison of the loop: a key with a higher index than all those seen*)
(* replaces the best so far only when it has more credits.                  *)
LEMMA BetterIsBest ==
  ASSUME credits \in [Keys -> 0..Unmeasured],
         NEW S \in SUBSET Keys, NEW k \in Keys, \A j \in S : j < k,
         NEW b, BestOf(b, S)
  PROVE  BestOf(better(b, k), S \cup {k})
<1>1. /\ k \in Int /\ credits[k] \in Int
      /\ \A j \in S : j \in Int /\ credits[j] \in Int
  BY PoolConstants
<1>2. CASE S = {}
  BY <1>1, <1>2 DEF BestOf, better
<1>3. CASE S # {}
  <2>1. b \in S /\ b # NoKey
    BY <1>3, PoolConstants DEF BestOf
  <2>2. CASE credits[k] > credits[b]
    <3>1. better(b, k) = k
      BY <2>2 DEF better
    <3>2. \A j \in S : credits[j] < credits[k]
      BY <1>1, <1>3, <2>1, <2>2 DEF BestOf
    <3>3. QED
      BY <1>1, <3>1, <3>2 DEF BestOf
  <2>3. CASE ~(credits[k] > credits[b])
    <3>1. better(b, k) = b
      BY <2>1, <2>3 DEF better
    <3>2. credits[k] < credits[b] \/ (credits[k] = credits[b] /\ b <= k)
      BY <1>1, <2>1, <2>3
    <3>3. QED
      BY <1>3, <2>1, <3>1, <3>2 DEF BestOf
  <2>4. QED
    BY <2>2, <2>3
<1>4. QED
  BY <1>2, <1>3

(* The loop has a next step as long as there are keys: its definition by    *)
(* recursion on the number of keys is one.                                  *)
LEMMA ScanIsLoop ==
  ASSUME NEW cool
  PROVE  scannedUpTo(cool) =
           [n \in 0..KeyCount |->
              IF n = 0 THEN nothingFound
              ELSE scan(scannedUpTo(cool)[n - 1], n - 1, cool)]
<1> DEFINE IsLoop(g, m) ==
             g = [n \in 0..m |-> IF n = 0 THEN nothingFound
                                 ELSE scan(g[n - 1], n - 1, cool)]
           Endless == {m \in Nat : ~ \E g : IsLoop(g, m)}
<1>1. Endless = {}
  <2> SUFFICES ASSUME Endless # {} PROVE FALSE
    OBVIOUS
  <2>1. Endless \in SUBSET Nat
    OBVIOUS
  <2>2. PICK m \in Endless : \A x \in Endless : m <= x
    BY <2>1, LeastNatural
  <2>3. m \in Nat /\ ~ \E g : IsLoop(g, m)
    BY <2>2
  <2>4. CASE m = 0
    <3> DEFINE g == [n \in 0..0 |-> nothingFound]
    <3>1. IsLoop(g, 0)
      OBVIOUS
    <3>2. QED
      BY <2>3, <2>4, <3>1
  <2>5. CASE m # 0
    <3>1. m - 1 \in Nat /\ m - 1 \notin Endless
      <4>1. m - 1 \in Nat /\ ~(m <= m - 1)
        BY <2>3, <2>5
      <4> HIDE DEF Endless
      <4>2. QED
        BY <2>2, <4>1
    <3>2. PICK g : IsLoop(g, m - 1)
      BY <3>1
    <3> DEFINE h == [n \in 0..m |-> IF n = m THEN scan(g[m - 1], m - 1, cool) ELSE g[n]]
               next == [n \in 0..m |-> IF n = 0 THEN nothingFound
                                       ELSE scan(h[n - 1], n - 1, cool)]
    <3>3. ASSUME NEW n \in 0..m PROVE h[n] = next[n]
      <4>1. \A i \in 0..(m - 1) : h[i] = g[i]
        BY <2>3
      <4>2. \A i \in 0..(m - 1) :
              g[i] = IF i = 0 THEN nothingFound ELSE scan(g[i - 1], i - 1, cool)
        BY <3>2
      <4>3. CASE n = m
        <5>1. h[n] = scan(g[m - 1], m - 1, cool) /\ h[m - 1] = g[m - 1]
          BY <2>3, <2>5, <4>1, <4>3
        <5>2. QED
          BY <2>5, <4>3, <5>1
      <4>4. CASE n # m /\ n # 0
        <5>1. n \in 0..(m - 1) /\ n - 1 \in 0..(m - 1)
          BY <2>3, <4>4
        <5>2. h[n] = scan(h[n - 1], n - 1, cool)
          BY <4>1, <4>2, <4>4, <5>1
        <5>3. QED
          BY <4>4, <5>2
      <4>5. CASE n # m /\ n = 0
        <5>1. n \in 0..(m - 1)
          BY <2>3, <4>5
        <5>2. QED
          BY <4>1, <4>2, <4>5, <5>1
      <4>6. QED
        BY <4>3, <4>4, <4>5
    <3>4. IsLoop(h, m)
      <4>1. h = next
        BY <3>3
      <4>2. QED
        BY <4>1
    <3>5. QED
      BY <2>3, <3>4
  <2>6. QED
    BY <2>4, <2>5
<1>2. \E g : IsLoop(g, KeyCount)
  <2>1. KeyCount \in Nat
    BY PoolAssumption DEF PoolAssumption
  <2>2. QED
    BY <1>1, <2>1
<1>3. scannedUpTo(cool) = CHOOSE g : IsLoop(g, KeyCount)
  BY DEF scannedUpTo
<1>4. QED
  BY <1>2, <1>3, Zenon

(* After n keys the loop holds the best key of each tier among them.        *)
TiersAfter(n, cool) ==
  LET found == scannedUpTo(cool)[n]
      seen  == 0..(n - 1)
  IN  /\ BestOf(found.any, UsableKeys \cap seen)
      /\ BestOf(found.slot, FreeKeys \cap seen)
      /\ BestOf(found.ready, ReadyKeys(cool) \cap seen)

LEMMA LoopKeepsTiers ==
  ASSUME credits \in [Keys -> 0..Unmeasured],
         NEW cool, NEW n \in 0..KeyCount
  PROVE  TiersAfter(n, cool)
<1> DEFINE Wrong == {m \in 0..KeyCount : ~TiersAfter(m, cool)}
<1> SUFFICES ASSUME Wrong # {} PROVE FALSE
  OBVIOUS
<1>0. KeyCount \in Nat
  BY PoolAssumption DEF PoolAssumption
<1>1. PICK m \in Wrong : \A x \in Wrong : m <= x
  <2>1. Wrong \in SUBSET Nat
    BY <1>0
  <2>2. QED
    BY <2>1, LeastNatural
<1>2. m \in 0..KeyCount /\ ~TiersAfter(m, cool)
  BY <1>1
<1>3. \A x \in 0..KeyCount : x < m => TiersAfter(x, cool)
  BY <1>0, <1>1
<1> HIDE DEF Wrong
<1>4. scannedUpTo(cool)[m] = IF m = 0 THEN nothingFound
                             ELSE scan(scannedUpTo(cool)[m - 1], m - 1, cool)
  BY <1>2, ScanIsLoop
<1>5. CASE m = 0
  <2>1. \A S : S \cap 0..(m - 1) = {}
    BY <1>5
  <2>2. scannedUpTo(cool)[m] = nothingFound
    BY <1>4, <1>5
  <2>3. QED
    BY <1>2, <2>1, <2>2 DEF TiersAfter, nothingFound, BestOf
<1>6. CASE m # 0
  <2> DEFINE k == m - 1
             was == scannedUpTo(cool)[k]
             is == scannedUpTo(cool)[m]
             seen == 0..(k - 1)
  <2>1. k \in Keys /\ k \in Nat /\ k \in 0..KeyCount /\ k < m
    BY <1>0, <1>2, <1>6 DEF Keys
  <2>2. 0..(m - 1) = seen \cup {k} /\ k \notin seen /\ \A j \in seen : j < k
    BY <2>1
  <2>3. is = scan(was, k, cool)
    BY <1>4, <1>6
  <2>4. /\ BestOf(was.any, UsableKeys \cap seen)
        /\ BestOf(was.slot, FreeKeys \cap seen)
        /\ BestOf(was.ready, ReadyKeys(cool) \cap seen)
    BY <1>3, <2>1 DEF TiersAfter
  <2> HIDE DEF k, was, is, seen
  <2>5. ASSUME NEW S \in SUBSET Keys, NEW b, BestOf(b, S \cap seen)
        PROVE  /\ k \in S => BestOf(better(b, k), S \cap 0..(m - 1))
               /\ k \notin S => BestOf(b, S \cap 0..(m - 1))
    <3>1. CASE k \in S
      <4>1. S \cap 0..(m - 1) = (S \cap seen) \cup {k}
        BY <2>2, <3>1
      <4>2. S \cap seen \in SUBSET Keys /\ \A j \in S \cap seen : j < k
        BY <2>2
      <4>3. BestOf(better(b, k), (S \cap seen) \cup {k})
        BY <2>1, <2>5, <4>2, BetterIsBest
      <4>4. QED
        BY <3>1, <4>1, <4>3
    <3>2. CASE k \notin S
      <4>1. S \cap 0..(m - 1) = S \cap seen
        BY <2>2, <3>2
      <4>2. QED
        BY <2>5, <3>2, <4>1
    <3>3. QED
      BY <3>1, <3>2
  <2>6. /\ UsableKeys \in SUBSET Keys /\ FreeKeys \in SUBSET Keys
        /\ ReadyKeys(cool) \in SUBSET Keys
        /\ k \in UsableKeys <=> usable(k)
        /\ k \in FreeKeys <=> usable(k) /\ hasSlot(k)
        /\ k \in ReadyKeys(cool) <=> usable(k) /\ hasSlot(k) /\ cool[k] = 0
    BY <2>1 DEF UsableKeys, FreeKeys, ReadyKeys
  <2>7. BestOf(is.any, UsableKeys \cap 0..(m - 1))
    <3>1. is.any = IF k \in UsableKeys THEN better(was.any, k) ELSE was.any
      BY <2>3, <2>6 DEF scan
    <3>2. QED
      BY <2>4, <2>5, <2>6, <3>1
  <2>8. BestOf(is.slot, FreeKeys \cap 0..(m - 1))
    <3>1. is.slot = IF k \in FreeKeys THEN better(was.slot, k) ELSE was.slot
      BY <2>3, <2>6 DEF scan
    <3>2. QED
      BY <2>4, <2>5, <2>6, <3>1
  <2>9. BestOf(is.ready, ReadyKeys(cool) \cap 0..(m - 1))
    <3>1. is.ready = IF k \in ReadyKeys(cool) THEN better(was.ready, k) ELSE was.ready
      BY <2>3, <2>6 DEF scan
    <3>2. QED
      BY <2>4, <2>5, <2>6, <3>1
  <2>10. QED
    BY <1>2, <2>7, <2>8, <2>9 DEF TiersAfter, is
<1>7. QED
  BY <1>5, <1>6

(* The one-pass loop and the tiers answer the same key, whatever the        *)
(* cooldowns it is run with and however many keys there are: its strict     *)
(* comparisons are exactly "richest, lowest index first" (keys.go:190-248). *)
THEOREM LoopIsTiers ==
  ASSUME credits \in [Keys -> 0..Unmeasured], NEW cool
  PROVE  scanned(cool) = current(cool)
<1> DEFINE found == scannedUpTo(cool)[KeyCount]
<1>1. KeyCount \in 0..KeyCount /\ 0..(KeyCount - 1) = Keys
  BY PoolAssumption DEF PoolAssumption, Keys
<1>2. /\ UsableKeys \in SUBSET Keys /\ FreeKeys \in SUBSET Keys
      /\ ReadyKeys(cool) \in SUBSET Keys
  BY DEF UsableKeys, FreeKeys, ReadyKeys
<1>3. \A S \in SUBSET Keys : S \cap 0..(KeyCount - 1) = S
  BY <1>1
<1>4. /\ BestOf(found.any, UsableKeys) /\ BestOf(found.slot, FreeKeys)
      /\ BestOf(found.ready, ReadyKeys(cool))
  <2>1. TiersAfter(KeyCount, cool)
    BY <1>1, LoopKeepsTiers
  <2>2. /\ UsableKeys \cap 0..(KeyCount - 1) = UsableKeys
        /\ FreeKeys \cap 0..(KeyCount - 1) = FreeKeys
        /\ ReadyKeys(cool) \cap 0..(KeyCount - 1) = ReadyKeys(cool)
    BY <1>2, <1>3
  <2> HIDE DEF found
  <2>3. QED
    BY <2>1, <2>2, Zenon DEF TiersAfter, found
<1> HIDE DEF found
<1>5. ASSUME NEW S \in SUBSET Keys, NEW b, BestOf(b, S)
      PROVE  b = IF S = {} THEN NoKey ELSE Richest(S)
  BY <1>5, BestIsRichest DEF BestOf
<1>6. ASSUME NEW S \in SUBSET Keys, S # {}
      PROVE  Richest(S) # NoKey
  BY <1>6, RichestInSet, PoolConstants DEF BestOf
<1>7. /\ found.any = IF UsableKeys = {} THEN NoKey ELSE Richest(UsableKeys)
      /\ found.slot = IF FreeKeys = {} THEN NoKey ELSE Richest(FreeKeys)
      /\ found.ready = IF ReadyKeys(cool) = {} THEN NoKey ELSE Richest(ReadyKeys(cool))
  BY <1>2, <1>4, <1>5
<1>8. scanned(cool) = IF found.ready # NoKey THEN found.ready
                      ELSE IF found.slot # NoKey THEN found.slot
                      ELSE found.any
  BY DEF scanned, found
<1>9. QED
  BY <1>2, <1>6, <1>7, <1>8 DEF current

-----------------------------------------------------------------------------
(* What any caller may do to the pool, whatever it asks for.                *)
PoolCall ==
  \/ Current
  \/ \E after \in Nat : AdvanceAfter(after)
  \/ \E k \in Keys : RecordSuccess(k) \/ TryAcquire(k) \/ Release(k)
  \/ \E k \in Keys, cost \in Nat : Decrement(k, cost)
  \/ \E k \in Keys, balance \in 0..MaxCredits : SetCredits(k, balance)
  \/ \E k \in Keys, until \in 0..MaxReset : Disable(k, until)
  \/ SendToken \/ TakeToken \/ ReenableDue \/ Tick

(* Every cooldown is real and at most the cap, whatever Retry-After says    *)
(* (keys.go:289-291, util.go:78-98), and a charge never takes a balance outside  *)
(* its range (keys.go:318-331).                                             *)
LEMMA BoundedAmounts ==
  /\ \A after \in Nat : cooldownFor(after) \in 1..RetryCap
  /\ \A c \in 0..Unmeasured, cost \in Nat : afterCost(c, cost) \in 0..Unmeasured
BY PoolConstants DEF cooldownFor, afterCost, Larger, Smaller

(* The cursor is always on a key: currentLocked moves it to a key only.     *)
LEMMA CursorStaysOnKeys ==
  ASSUME credits \in [Keys -> 0..Unmeasured], cursor \in Keys,
         NEW cool, moveCursor(current(cool))
  PROVE  cursor' \in Keys
<1>1. current(cool) \in Keys \cup {NoKey}
  BY SelectionComplete DEF UsableKeys
<1>2. QED
  BY <1>1 DEF moveCursor

(* Every method of the pool keeps its fields in their ranges.               *)
LEMMA PoolCallTypes ==
  ASSUME PoolTypeOK, PoolCall
  PROVE  PoolTypeOK'
<1> USE PoolConstants DEF PoolTypeOK
<1>1. CASE Current
  BY <1>1, CursorStaysOnKeys DEF Current
<1>2. ASSUME NEW after \in Nat, AdvanceAfter(after)
      PROVE  PoolTypeOK'
  <2>1. cooldownFor(after) \in 1..RetryCap
    BY BoundedAmounts
  <2>2. cursor' \in Keys
    BY <1>2, CursorStaysOnKeys DEF AdvanceAfter
  <2>3. QED
    BY <1>2, <2>1, <2>2 DEF AdvanceAfter
<1>3. ASSUME NEW k \in Keys, RecordSuccess(k) \/ TryAcquire(k) \/ Release(k)
      PROVE  PoolTypeOK'
  BY <1>3 DEF RecordSuccess, TryAcquire, Release
<1>4. ASSUME NEW k \in Keys, NEW cost \in Nat, Decrement(k, cost)
      PROVE  PoolTypeOK'
  <2>1. afterCost(credits[k], cost) \in 0..Unmeasured
    BY BoundedAmounts
  <2>2. QED
    BY <1>4, <2>1 DEF Decrement
<1>5. ASSUME NEW k \in Keys, NEW balance \in 0..MaxCredits, SetCredits(k, balance)
      PROVE  PoolTypeOK'
  BY <1>5 DEF SetCredits, Larger
<1>6. ASSUME NEW k \in Keys, NEW until \in 0..MaxReset, Disable(k, until)
      PROVE  PoolTypeOK'
  BY <1>6 DEF Disable
<1>7. CASE SendToken \/ TakeToken
  BY <1>7 DEF SendToken, TakeToken
<1>8. CASE ReenableDue
  BY <1>8 DEF ReenableDue
<1>9. CASE Tick
  BY <1>9 DEF Tick, Larger
<1>10. QED
  BY <1>1, <1>2, <1>3, <1>4, <1>5, <1>6, <1>7, <1>8, <1>9 DEF PoolCall

(* The initial pool is well-formed.                                         *)
LEMMA PoolInitTypes == PoolInit => PoolTypeOK
<1> SUFFICES ASSUME PoolInit PROVE PoolTypeOK
  OBVIOUS
<1>1. cursor \in Keys /\ slotFree \in BOOLEAN
  BY PoolConstants DEF PoolInit
<1>2. disabled \in [Keys -> BOOLEAN]
  BY DEF PoolInit
<1>3. /\ dueIn \in [Keys -> 0..MaxReset]
      /\ coolFor \in [Keys -> 0..RetryCap]
      /\ inFlight \in [Keys -> Nat]
      /\ credits \in [Keys -> 0..Unmeasured]
  BY PoolConstants DEF PoolInit
<1>4. QED
  BY <1>1, <1>2, <1>3 DEF PoolTypeOK

(* A pool under callers that call any method with any argument: KeyPool's   *)
(* own PoolSpec is one, the handlers that share the pool are another.       *)
PoolCalled == PoolInit /\ [][PoolCall]_poolVars

(* The finite choices of PoolNext are calls like any other.                 *)
LEMMA PoolSpecIsCalled == PoolSpec => PoolCalled
<1>1. PoolNext => PoolCall
  BY PoolConstants DEF PoolNext, PoolCall
<1>2. [PoolNext]_poolVars => [PoolCall]_poolVars
  BY <1>1
<1>3. QED
  BY <1>2, PTL DEF PoolSpec, PoolCalled

LEMMA CalledTyped == PoolCalled => []PoolTypeOK
<1>1. PoolTypeOK /\ [PoolCall]_poolVars => PoolTypeOK'
  <2>1. ASSUME PoolTypeOK, UNCHANGED poolVars
        PROVE  PoolTypeOK'
    BY <2>1 DEF PoolTypeOK, poolVars
  <2>2. QED
    BY <2>1, PoolCallTypes
<1>2. QED
  BY <1>1, PoolInitTypes, PTL DEF PoolCalled

-----------------------------------------------------------------------------
(* The count of a limited key stays within its cap through every call.      *)
LEMMA PoolCallKeepsCount ==
  ASSUME PoolTypeOK, CountWithinCap, PoolCall
  PROVE  CountWithinCap'
<1> SUFFICES ASSUME MaxConcurrent > 0, NEW k \in Keys
             PROVE  inFlight'[k] \in 0..MaxConcurrent
  BY DEF CountWithinCap
<1> USE PoolConstants DEF PoolTypeOK, CountWithinCap
<1>1. ASSUME NEW j \in Keys, TryAcquire(j)
      PROVE  inFlight'[k] \in 0..MaxConcurrent
  BY <1>1 DEF TryAcquire, hasSlot
<1>2. ASSUME NEW j \in Keys, Release(j)
      PROVE  inFlight'[k] \in 0..MaxConcurrent
  BY <1>2 DEF Release
<1>3. CASE UNCHANGED inFlight
  BY <1>3
<1>4. QED
  BY <1>1, <1>2, <1>3
     DEF PoolCall, Current, AdvanceAfter, RecordSuccess, Decrement, SetCredits,
         Disable, SendToken, TakeToken, ReenableDue, Tick

LEMMA CalledKeepsCount == PoolCalled => []CountWithinCap
<1>1. PoolInit => CountWithinCap
  BY PoolConstants DEF PoolInit, CountWithinCap
<1>2. PoolTypeOK /\ CountWithinCap /\ [PoolCall]_poolVars => CountWithinCap'
  <2>1. ASSUME CountWithinCap, UNCHANGED poolVars
        PROVE  CountWithinCap'
    BY <2>1 DEF CountWithinCap, poolVars
  <2>2. QED
    BY <2>1, PoolCallKeepsCount
<1>3. QED
  BY <1>1, <1>2, CalledTyped, PTL DEF PoolCalled

(* Selection, by the tiers or by the loop.                                  *)
LEMMA CalledSelects == PoolCalled => [](CooldownNeverRefuses /\ LoopPicksRichestOfTier)
<1>1. PoolTypeOK => CooldownNeverRefuses
  BY SelectionComplete DEF PoolTypeOK, CooldownNeverRefuses
<1>2. PoolTypeOK => LoopPicksRichestOfTier
  BY LoopIsTiers DEF PoolTypeOK, LoopPicksRichestOfTier
<1>3. QED
  BY <1>1, <1>2, CalledTyped, PTL

(* Only ReenableDue clears a flag, and it clears the balance with it.       *)
LEMMA CalledBringsBack == PoolCalled => ReenabledKeyServes
<1>1. ASSUME PoolTypeOK, PoolCall, NEW k \in Keys, disabled[k], ~disabled'[k]
      PROVE  usable(k)'
  <2>1. DueKeys # {} /\ k \in DueKeys /\ ReenableDue
    <3>1. ~UNCHANGED disabled
      BY <1>1
    <3>2. ASSUME NEW j \in Keys, NEW until \in 0..MaxReset, Disable(j, until)
          PROVE  FALSE
      BY <1>1, <3>2, Zenon DEF Disable, PoolTypeOK
    <3>3. ReenableDue
      BY <1>1, <3>1, <3>2
         DEF PoolCall, Current, AdvanceAfter, RecordSuccess, TryAcquire, Release,
             Decrement, SetCredits, SendToken, TakeToken, Tick
    <3>4. QED
      BY <1>1, <3>3 DEF ReenableDue
  <2>2. credits'[k] = Unmeasured
    BY <1>1, <2>1 DEF ReenableDue, DueKeys
  <2>3. QED
    BY <1>1, <2>2, PoolConstants DEF usable
<1>2. PoolTypeOK /\ [PoolCall]_poolVars
      => [\A k \in Keys : disabled[k] /\ ~disabled'[k] => usable(k)']_poolVars
  BY <1>1
<1>3. QED
  BY <1>2, CalledTyped, PTL DEF PoolCalled, ReenabledKeyServes

-----------------------------------------------------------------------------
(* Whoever calls the pool, in whatever order, its fields stay in range and  *)
(* its cursor on a key.                                                     *)
THEOREM PoolTyped == PoolSpec => []PoolTypeOK
BY PoolSpecIsCalled, CalledTyped, PTL

(* No mix of TryAcquire and Release, over-releases included, takes a        *)
(* limited key's count out of 0..MaxConcurrent (keys.go:117-149).           *)
THEOREM CountBounded == PoolSpec => []CountWithinCap
BY PoolSpecIsCalled, CalledKeepsCount, PTL

(* In every reachable state the pool refuses exactly when no key is usable, *)
(* so a cooldown or a full slot never turns a working pool into a 503       *)
(* (keys.go:237-242, 280-283).                                              *)
THEOREM RefusesOnlyUnusable == PoolSpec => []CooldownNeverRefuses
BY PoolSpecIsCalled, CalledSelects, PTL

(* In every reachable state the loop selects by tiers (keys.go:190-248).    *)
THEOREM LoopSelectsByTier == PoolSpec => []LoopPicksRichestOfTier
BY PoolSpecIsCalled, CalledSelects, PTL

(* A key brought back by the reset loop is usable at once: it does not wait *)
(* for a balance fetch that may never come (keys.go:440-455).               *)
THEOREM BroughtBackServes == PoolSpec => ReenabledKeyServes
BY PoolSpecIsCalled, CalledBringsBack, PTL
=============================================================================
