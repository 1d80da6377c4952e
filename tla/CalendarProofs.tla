--------------------------- MODULE CalendarProofs ---------------------------
(***************************************************************************)
(* The reset date of an exhausted key, for every calendar, every instant   *)
(* it covers and every reset day: in the future, within a year, and on the *)
(* day that was configured.                                                *)
(***************************************************************************)
EXTENDS ResetDate, WellFoundedInduction, TLAPS

(* Every nonempty set of naturals has a least member.                       *)
LEMMA LeastRank ==
  ASSUME NEW T \in SUBSET Nat, T # {}
  PROVE  \E x \in T : \A y \in T : x <= y
<1> DEFINE Less == OpToRel(<, Nat)
<1>1. \A x, y \in Nat : <<x, y>> \in Less <=> x < y
  BY DEF OpToRel
<1>2. IsWellFoundedOn(Less, Nat)
  BY NatLessThanWellFounded
<1> HIDE DEF Less
<1>3. PICK x \in T : \A y \in T : ~ (<<y, x>> \in Less)
  BY <1>2, WFMin
<1>4. \A y \in T : ~ (y < x)
  BY <1>1, <1>3
<1>5. QED
  BY <1>4

Months == 1..LastMonth

(* The days of month m.                                                     *)
inMonth(m, day) == FirstDay[m] <= day /\ day < FirstDay[m + 1]

LEMMA MonthStarts ==
  /\ LastMonth \in Nat /\ LastMonth > 12
  /\ \A m \in Months : FirstDay[m] \in Nat
BY CalendarAssumption DEF CalendarAssumption, Months

LEMMA MonthLengths ==
  ASSUME NEW m \in 1..(LastMonth - 1)
  PROVE  /\ m \in Months /\ m + 1 \in Months
         /\ FirstDay[m] + 28 <= FirstDay[m + 1]
         /\ FirstDay[m + 1] <= FirstDay[m] + 31
<1>1. m \in Months /\ m + 1 \in Months
  BY MonthStarts DEF Months
<1>2. FirstDay[m + 1] - FirstDay[m] \in 28..31
  BY CalendarAssumption DEF CalendarAssumption
<1>3. FirstDay[m] \in Nat /\ FirstDay[m + 1] \in Nat
  BY <1>1, MonthStarts
<1>4. QED
  BY <1>1, <1>2, <1>3

(* A later month begins later.                                              *)
LEMMA MonthsGrow ==
  ASSUME NEW i \in Months, NEW j \in Months, i < j
  PROVE  FirstDay[i] < FirstDay[j]
<1> DEFINE Wrong == {n \in Months : i < n /\ ~(FirstDay[i] < FirstDay[n])}
<1> SUFFICES ASSUME Wrong # {} PROVE FALSE
  OBVIOUS
<1>1. Wrong \in SUBSET Nat
  BY DEF Months
<1>2. PICK n \in Wrong : \A x \in Wrong : n <= x
  BY <1>1, LeastRank
<1>3. n \in Months /\ i < n /\ ~(FirstDay[i] < FirstDay[n])
  BY <1>2
<1>4. n - 1 \in 1..(LastMonth - 1) /\ ~(n <= n - 1) /\ (n - 1) + 1 = n
  BY <1>3, MonthStarts DEF Months
<1>5. n - 1 \notin Wrong
  BY <1>2, <1>4
<1>6. n - 1 \in Months /\ FirstDay[n - 1] + 28 <= FirstDay[n]
  BY <1>4, MonthLengths
<1>7. n - 1 = i \/ FirstDay[i] < FirstDay[n - 1]
  BY <1>3, <1>5, <1>6 DEF Months
<1>8. FirstDay[i] \in Nat /\ FirstDay[n - 1] \in Nat /\ FirstDay[n] \in Nat
  BY <1>3, <1>6, MonthStarts
<1>9. QED
  BY <1>3, <1>6, <1>7, <1>8

(* monthOf picks the month a day is in: there is no other.                  *)
LEMMA OneMonth ==
  ASSUME NEW m \in 1..(LastMonth - 1), NEW day \in Nat, inMonth(m, day)
  PROVE  monthOf(day) = m
<1>1. ASSUME NEW n \in 1..(LastMonth - 1), inMonth(n, day)
      PROVE  n = m
  <2>1. /\ m \in Months /\ m + 1 \in Months /\ n \in Months /\ n + 1 \in Months
    BY MonthLengths
  <2>2. /\ FirstDay[m] \in Nat /\ FirstDay[m + 1] \in Nat
        /\ FirstDay[n] \in Nat /\ FirstDay[n + 1] \in Nat
    BY <2>1, MonthStarts
  <2>3. ~(m < n)
    <3> SUFFICES ASSUME m < n PROVE FALSE
      OBVIOUS
    <3>1. m + 1 = n \/ m + 1 < n
      OBVIOUS
    <3>2. FirstDay[m + 1] <= FirstDay[n]
      BY <2>1, <2>2, <3>1, MonthsGrow
    <3>3. QED
      BY <1>1, <2>2, <3>2 DEF inMonth
  <2>4. ~(n < m)
    <3> SUFFICES ASSUME n < m PROVE FALSE
      OBVIOUS
    <3>1. n + 1 = m \/ n + 1 < m
      OBVIOUS
    <3>2. FirstDay[n + 1] <= FirstDay[m]
      BY <2>1, <2>2, <3>1, MonthsGrow
    <3>3. QED
      BY <1>1, <2>2, <3>2 DEF inMonth
  <2>5. QED
    BY <2>3, <2>4
<1>2. \A n \in 1..(LastMonth - 1) :
        FirstDay[n] <= day /\ day < FirstDay[n + 1] <=> n = m
  BY <1>1 DEF inMonth
<1>3. QED
  BY <1>2 DEF monthOf

(* Every day between the first months of the calendar is in a month.        *)
LEMMA SomeMonth ==
  ASSUME NEW last \in Months, NEW day \in Nat,
         FirstDay[1] <= day, day < FirstDay[last]
  PROVE  \E m \in 1..(last - 1) : inMonth(m, day)
<1> DEFINE After == {n \in 1..last : day < FirstDay[n]}
<1>1. After \in SUBSET Nat /\ last \in After
  BY DEF Months
<1>2. PICK n \in After : \A x \in After : n <= x
  BY <1>1, LeastRank
<1>3. n \in 1..last /\ day < FirstDay[n]
  BY <1>2
<1>4. FirstDay[1] \in Nat
  BY MonthStarts DEF Months
<1>5. n # 1
  BY <1>3, <1>4
<1>6. n - 1 \in 1..last /\ n - 1 \in 1..(last - 1) /\ ~(n <= n - 1) /\ n - 1 \in Months
  <2>1. last \in Nat /\ last <= LastMonth /\ n \in Nat /\ n <= last /\ n > 1
    BY <1>3, <1>5, MonthStarts DEF Months
  <2> HIDE DEF After
  <2>2. QED
    BY <2>1, MonthStarts DEF Months
<1>7. ~(day < FirstDay[n - 1])
  BY <1>2, <1>6
<1>8. FirstDay[n - 1] \in Nat /\ (n - 1) + 1 = n
  BY <1>3, <1>6, MonthStarts
<1>9. inMonth(n - 1, day)
  BY <1>3, <1>7, <1>8 DEF inMonth
<1>10. QED
  BY <1>6, <1>9

(* The month of a covered instant, and a year of months after it.           *)
LEMMA CoveredMonth ==
  ASSUME NEW now \in Nat, covered(now)
  PROVE  /\ dayAt(now) \in Nat
         /\ midnight(dayAt(now)) <= now /\ now <= midnight(dayAt(now)) + 1
         /\ monthOf(dayAt(now)) \in 1..(LastMonth - 12)
         /\ inMonth(monthOf(dayAt(now)), dayAt(now))
<1>1. /\ dayAt(now) \in Nat
      /\ midnight(dayAt(now)) <= now /\ now <= midnight(dayAt(now)) + 1
  BY DEF dayAt, midnight
<1>2. LastMonth - 11 \in Months
  BY MonthStarts DEF Months
<1>3. PICK m \in 1..((LastMonth - 11) - 1) : inMonth(m, dayAt(now))
  BY <1>1, <1>2, SomeMonth DEF covered
<1>4. m \in 1..(LastMonth - 12) /\ m \in 1..(LastMonth - 1)
  BY <1>3, MonthStarts
<1>5. monthOf(dayAt(now)) = m
  BY <1>1, <1>3, <1>4, OneMonth
<1>6. QED
  BY <1>1, <1>3, <1>4, <1>5

-----------------------------------------------------------------------------
(* Where the fallback lands: on day resetDay of this month while that is to *)
(* come, of the next month otherwise; a day the month does not have is one  *)
(* that many days into the month after it.                                  *)
LEMMA FallbackLands ==
  ASSUME NEW now \in Nat, covered(now), NEW resetDay \in 1..31
  PROVE  LET d == dayAt(now)
             m == monthOf(d)
             thisMonth == FirstDay[m] + resetDay - 1
             nextMonth == FirstDay[m + 1] + resetDay - 1
         IN  /\ d < thisMonth => fallbackReset(now, resetDay) = midnight(thisMonth)
             /\ thisMonth <= d => fallbackReset(now, resetDay) = midnight(nextMonth)
<1> DEFINE d == dayAt(now)
           m == monthOf(d)
           thisMonth == FirstDay[m] + resetDay - 1
           nextMonth == FirstDay[m + 1] + resetDay - 1
<1>1. /\ d \in Nat /\ m \in 1..(LastMonth - 12) /\ inMonth(m, d)
      /\ 2 * d <= now /\ now <= 2 * d + 1
  BY CoveredMonth DEF midnight
<1>2. m \in 1..(LastMonth - 1)
  BY <1>1, MonthStarts
<1>3. FirstDay[m] \in Nat /\ FirstDay[m + 1] \in Nat
  BY <1>2, MonthLengths, MonthStarts
<1>4. fallbackReset(now, resetDay) =
        midnight(IF midnight(thisMonth) > now THEN thisMonth ELSE addMonths(thisMonth, 1))
  BY DEF fallbackReset, date
<1> HIDE DEF d, m
<1>5. thisMonth \in Nat /\ (midnight(thisMonth) > now <=> d < thisMonth)
  BY <1>1, <1>3 DEF midnight
<1>6. ASSUME thisMonth <= d
      PROVE  addMonths(thisMonth, 1) = nextMonth
  <2>1. inMonth(m, thisMonth)
    BY <1>1, <1>3, <1>6 DEF inMonth
  <2>2. monthOf(thisMonth) = m
    BY <1>2, <1>5, <2>1, OneMonth
  <2>3. dayOfMonth(thisMonth) = resetDay
    BY <1>3, <2>2 DEF dayOfMonth
  <2>4. QED
    BY <2>2, <2>3 DEF addMonths, date
<1>7. /\ d < thisMonth => fallbackReset(now, resetDay) = midnight(thisMonth)
      /\ thisMonth <= d => fallbackReset(now, resetDay) = midnight(nextMonth)
  <2>1. ASSUME d < thisMonth
        PROVE  fallbackReset(now, resetDay) = midnight(thisMonth)
    BY <1>4, <1>5, <2>1
  <2>2. ASSUME thisMonth <= d
        PROVE  fallbackReset(now, resetDay) = midnight(nextMonth)
    <3>1. ~(midnight(thisMonth) > now)
      BY <1>1, <1>5, <2>2
    <3>2. QED
      BY <1>4, <1>6, <2>2, <3>1
  <2>3. QED
    BY <2>1, <2>2
<1>8. QED
  BY <1>7 DEF d, m

(* The fallback is to come, and at most two months away.                    *)
LEMMA FallbackIsSoon ==
  ASSUME NEW now \in Nat, covered(now), NEW resetDay \in 1..31
  PROVE  /\ fallbackReset(now, resetDay) \in Nat
         /\ now < fallbackReset(now, resetDay)
         /\ fallbackReset(now, resetDay) <= now + midnight(61)
<1> DEFINE d == dayAt(now)
           m == monthOf(d)
           thisMonth == FirstDay[m] + resetDay - 1
           nextMonth == FirstDay[m + 1] + resetDay - 1
<1>1. /\ d \in Nat /\ m \in 1..(LastMonth - 12) /\ inMonth(m, d)
      /\ 2 * d <= now /\ now <= 2 * d + 1
  BY CoveredMonth DEF midnight
<1>2. m \in 1..(LastMonth - 1)
  BY <1>1, MonthStarts
<1>3. FirstDay[m] \in Nat /\ FirstDay[m + 1] \in Nat /\ FirstDay[m + 1] <= FirstDay[m] + 31
  BY <1>2, MonthLengths, MonthStarts
<1>4. /\ d < thisMonth => fallbackReset(now, resetDay) = midnight(thisMonth)
      /\ thisMonth <= d => fallbackReset(now, resetDay) = midnight(nextMonth)
  BY FallbackLands
<1> HIDE DEF d, m
<1>5. CASE d < thisMonth
  <2>1. thisMonth \in Nat /\ thisMonth <= d + 30
    BY <1>1, <1>3, <1>5 DEF inMonth
  <2>2. QED
    BY <1>1, <1>4, <1>5, <2>1 DEF midnight
<1>6. CASE thisMonth <= d
  <2>1. nextMonth \in Nat /\ d < nextMonth /\ nextMonth <= d + 61
    BY <1>1, <1>3, <1>6 DEF inMonth
  <2>2. QED
    BY <1>1, <1>4, <1>6, <2>1 DEF midnight
<1>7. QED
  BY <1>1, <1>3, <1>5, <1>6

(* A period end is believed for at most a year.                             *)
LEMMA YearIsAYear ==
  ASSUME NEW now \in Nat, covered(now), NEW end \in Int, plausible(end, now)
  PROVE  now <= end /\ end <= now + midnight(366)
<1> DEFINE d == dayAt(now)
           m == monthOf(d)
<1>1. d \in Nat /\ m \in 1..(LastMonth - 12) /\ inMonth(m, d)
  BY CoveredMonth
<1>2. m \in Months /\ m + 12 \in Months
  BY <1>1, MonthStarts DEF Months
<1>3. FirstDay[m] \in Nat /\ FirstDay[m + 12] \in Nat
  BY <1>2, MonthStarts
<1>4. FirstDay[m + 12] - FirstDay[m] \in {365, 366}
  BY <1>1, CalendarAssumption DEF CalendarAssumption
<1>5. addMonths(d, 12) = FirstDay[m + 12] + (d - FirstDay[m] + 1) - 1
  BY DEF addMonths, date, dayOfMonth
<1>6. now <= end /\ end <= now + 2 * (addMonths(d, 12) - d)
  BY DEF plausible
<1> HIDE DEF d, m
<1>7. addMonths(d, 12) - d <= 366 /\ addMonths(d, 12) \in Int
  BY <1>1, <1>3, <1>4, <1>5
<1>8. QED
  BY <1>1, <1>6, <1>7 DEF midnight

(* However the reset came about, it is not past and within a year           *)
(* (creditusage.go:430-443).                                                *)
THEOREM ResetIsNear ==
  ASSUME NEW p, NEW end \in Int, NEW now \in Nat, covered(now), NEW resetDay \in 1..31
  PROVE  /\ resetOf(p, end, now, resetDay) \in Int
         /\ now <= resetOf(p, end, now, resetDay)
         /\ resetOf(p, end, now, resetDay) <= now + midnight(366)
<1>1. CASE hasPeriodEnd(p) /\ plausible(end, now)
  BY <1>1, YearIsAYear DEF resetOf
<1>2. CASE ~(hasPeriodEnd(p) /\ plausible(end, now))
  <2>1. resetOf(p, end, now, resetDay) = fallbackReset(now, resetDay)
    BY <1>2 DEF resetOf
  <2>2. /\ fallbackReset(now, resetDay) \in Nat
        /\ now < fallbackReset(now, resetDay)
        /\ fallbackReset(now, resetDay) <= now + midnight(61)
    BY FallbackIsSoon
  <2>3. QED
    BY <2>1, <2>2 DEF midnight
<1>3. QED
  BY <1>1, <1>2

(* The fallback is a midnight of the configured day of the month, or, where *)
(* a month is too short for it, of one of the first days of the next month; *)
(* and no configured day is skipped, whatever the months' lengths           *)
(* (config.go:746-757).                                                     *)
THEOREM FallbackMeetsNextDay ==
  ASSUME NEW now \in Nat, covered(now), NEW resetDay \in 1..31
  PROVE  LET until == fallbackReset(now, resetDay) IN
           /\ now < until /\ until = midnight(dayAt(until))
           /\ \/ dayOfMonth(dayAt(until)) = resetDay
              \/ dayOfMonth(dayAt(until)) <= resetDay - 28
           /\ \A day \in (dayAt(now) + 1)..(dayAt(until) - 1) :
                dayOfMonth(day) # resetDay
<1> DEFINE d == dayAt(now)
           m == monthOf(d)
           thisMonth == FirstDay[m] + resetDay - 1
           nextMonth == FirstDay[m + 1] + resetDay - 1
           until == fallbackReset(now, resetDay)
<1>1. /\ d \in Nat /\ m \in 1..(LastMonth - 12) /\ inMonth(m, d)
  BY CoveredMonth
<1>2. /\ m \in 1..(LastMonth - 1) /\ m + 1 \in 1..(LastMonth - 1)
      /\ m + 2 \in 1..(LastMonth - 1)
      /\ m \in Int /\ (m + 1) + 1 = m + 2 /\ (m + 2) + 1 = m + 3
  BY <1>1, MonthStarts
<1>3. /\ FirstDay[m] \in Nat /\ FirstDay[m + 1] \in Nat
      /\ FirstDay[m + 2] \in Nat /\ FirstDay[m + 3] \in Nat
      /\ FirstDay[m] + 28 <= FirstDay[m + 1]
      /\ FirstDay[m + 1] + 28 <= FirstDay[m + 2]
      /\ FirstDay[m + 2] + 28 <= FirstDay[m + 3]
  BY <1>2, MonthLengths, MonthStarts
<1>4. /\ d < thisMonth => until = midnight(thisMonth)
      /\ thisMonth <= d => until = midnight(nextMonth)
  BY FallbackLands
<1>5. now < until
  BY FallbackIsSoon
<1>6. /\ \A day \in Nat : inMonth(m, day) => dayOfMonth(day) = day - FirstDay[m] + 1
      /\ \A day \in Nat : inMonth(m + 1, day) => dayOfMonth(day) = day - FirstDay[m + 1] + 1
      /\ \A day \in Nat : inMonth(m + 2, day) => dayOfMonth(day) = day - FirstDay[m + 2] + 1
  BY <1>2, OneMonth DEF dayOfMonth
<1>7. \A day \in Nat : dayAt(midnight(day)) = day
  BY DEF dayAt, midnight
<1> HIDE DEF d, m, until
<1>8. CASE d < thisMonth
  <2>1. thisMonth \in Nat /\ thisMonth < FirstDay[m + 2]
    BY <1>1, <1>3
  <2>2. dayAt(until) = thisMonth /\ until = midnight(thisMonth)
    BY <1>4, <1>7, <1>8, <2>1
  <2>3. ASSUME NEW day \in Nat, d <= day, day <= thisMonth
        PROVE  \/ inMonth(m, day) /\ dayOfMonth(day) = day - FirstDay[m] + 1
               \/ inMonth(m + 1, day) /\ dayOfMonth(day) = day - FirstDay[m + 1] + 1
    BY <1>1, <1>2, <1>3, <1>6, <2>1, <2>3 DEF inMonth
  <2>4. dayOfMonth(thisMonth) = resetDay \/ dayOfMonth(thisMonth) <= resetDay - 28
    BY <1>1, <1>3, <1>8, <2>1, <2>3
  <2>5. ASSUME NEW day \in (d + 1)..(thisMonth - 1)
        PROVE  dayOfMonth(day) # resetDay
    BY <1>1, <1>3, <2>1, <2>3, <2>5
  <2>6. QED
    BY <1>5, <2>2, <2>4, <2>5 DEF d, until
<1>9. CASE thisMonth <= d
  <2>1. nextMonth \in Nat /\ nextMonth < FirstDay[m + 3] /\ d < nextMonth
    BY <1>1, <1>3 DEF inMonth
  <2>2. dayAt(until) = nextMonth /\ until = midnight(nextMonth)
    BY <1>4, <1>7, <1>9, <2>1
  <2>3. ASSUME NEW day \in Nat, d <= day, day <= nextMonth
        PROVE  \/ inMonth(m, day) /\ dayOfMonth(day) = day - FirstDay[m] + 1
               \/ inMonth(m + 1, day) /\ dayOfMonth(day) = day - FirstDay[m + 1] + 1
               \/ inMonth(m + 2, day) /\ dayOfMonth(day) = day - FirstDay[m + 2] + 1
    BY <1>1, <1>2, <1>3, <1>6, <2>1, <2>3 DEF inMonth
  <2>4. dayOfMonth(nextMonth) = resetDay \/ dayOfMonth(nextMonth) <= resetDay - 28
    <3>1. ~inMonth(m, nextMonth)
      BY <1>3 DEF inMonth
    <3>2. QED
      BY <1>1, <1>3, <2>1, <2>3, <3>1
  <2>5. ASSUME NEW day \in (d + 1)..(nextMonth - 1)
        PROVE  dayOfMonth(day) # resetDay
    BY <1>1, <1>3, <1>9, <2>1, <2>3, <2>5
  <2>6. QED
    BY <1>5, <2>2, <2>4, <2>5 DEF d, until
<1>10. QED
  BY <1>1, <1>3, <1>8, <1>9
=============================================================================
