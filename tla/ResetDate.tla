----------------------------- MODULE ResetDate ------------------------------
(***************************************************************************)
(* Until when an exhausted key stays disabled (creditusage.go, config.go): *)
(* the end of its billing period when the provider names a plausible one,  *)
(* else the next CREDIT_RESET_DAY.  Instants are counted in half days:     *)
(* 2 * d is midnight at the beginning of day d, 2 * d + 1 some time later  *)
(* that day.                                                               *)
(***************************************************************************)
EXTENDS Integers

CONSTANTS
  LastMonth,  \* bound: the months of the calendar are 1..LastMonth
  FirstDay    \* FirstDay[m]: how many days passed before month m

(* What a calendar is: months of 28 to 31 days, and the same month a year   *)
(* later begins 365 or 366 days later.                                      *)
ASSUME CalendarAssumption ==
  /\ LastMonth \in Nat /\ LastMonth > 12
  /\ FirstDay \in [1..LastMonth -> Nat]
  /\ \A m \in 1..(LastMonth - 1) : FirstDay[m + 1] - FirstDay[m] \in 28..31
  /\ \A m \in 1..(LastMonth - 12) : FirstDay[m + 12] - FirstDay[m] \in {365, 366}

monthOf(day) ==
  CHOOSE m \in 1..(LastMonth - 1) : FirstDay[m] <= day /\ day < FirstDay[m + 1]
dayOfMonth(day) == day - FirstDay[monthOf(day)] + 1

midnight(day) == 2 * day
dayAt(instant) == instant \div 2

(* Does the calendar reach a year beyond the instant?                       *)
covered(instant) ==
  FirstDay[1] <= dayAt(instant) /\ dayAt(instant) < FirstDay[LastMonth - 11]

(* time.Date: a day past the end of the month runs on into the next one.    *)
date(month, day) == FirstDay[month] + day - 1

(* AddDate(0, 1, 0) and AddDate(1, 0, 0) normalise in the same way.         *)
addMonths(day, n) == date(monthOf(day) + n, dayOfMonth(day))

(* Fault: a reset day that is today counts as still to come.                *)
fallbackResetToday(now, resetDay) ==
  LET day == date(monthOf(dayAt(now)), resetDay) IN
    midnight(IF day >= dayAt(now) THEN day ELSE addMonths(day, 1))

fallbackReset(now, resetDay) ==
  LET day == date(monthOf(dayAt(now)), resetDay) IN
    midnight(IF midnight(day) > now THEN day ELSE addMonths(day, 1))

hasPeriodEnd(p) ==
  p \notin {"tavily", "exa", "fmp", "alphavantage", "marketaux"}

(* What the usage endpoint says of the period's end: nothing, or an instant.*)
NoEnd == -1

plausible(end, now) ==
  end # NoEnd /\ now <= end /\ end <= now + 2 * (addMonths(dayAt(now), 12) - dayAt(now))

(* Fault: whatever period end the provider names is taken.                  *)
resetOfAnyEnd(p, end, now, resetDay) ==
  IF hasPeriodEnd(p) /\ end # NoEnd THEN end ELSE fallbackReset(now, resetDay)

(* disableUntilReset; a fetch that fails names no end.                      *)
resetOf(p, end, now, resetDay) ==
  IF hasPeriodEnd(p) /\ plausible(end, now) THEN end
  ELSE fallbackReset(now, resetDay)
=============================================================================
