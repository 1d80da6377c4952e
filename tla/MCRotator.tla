------------------------------ MODULE MCRotator ------------------------------
(***************************************************************************)
(* Constants for the runs of Rotator.                                      *)
(***************************************************************************)
EXTENDS Claims, TLC

CONSTANTS r1, r2, r3, r4
Symmetry == Permutations(Requests \ Cancels)

Reply(s, b) == [status |-> s, body |-> b, over |-> FALSE]

(* Success; a rate limit and no answer at all; a rejection that drains the  *)
(* key; and, for FMP, no answer, an invalid key, a plan-blocked endpoint,   *)
(* the daily cap, a transient status that outlives the same-key retries and *)
(* a body over the size cap.                                                *)
OkReplies == {Reply(200, "plain")}
BusyReplies == OkReplies \cup {Reply(429, "failCredit"), Reply(NoStatus, "plain")}
DrainReplies == OkReplies \cup {Reply(402, "failCredit")}
FinanceReplies ==
  OkReplies \cup {Reply(NoStatus, "plain"), Reply(401, "plain"),
                 Reply(402, "restricted"), Reply(429, "plain"), Reply(500, "plain"),
                 [Reply(200, "plain") EXCEPT !.over = TRUE]}
=============================================================================
