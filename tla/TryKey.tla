------------------------------- MODULE TryKey -------------------------------
(***************************************************************************)
(* One attempt of one request on one key (proxy.go): tryKey calls upstream,*)
(* and calls again on the same key, after a growing pause, while the       *)
(* failure looks transient and the budget lasts; serveOnce classifies what *)
(* it returns.  The client may disconnect at any moment.                   *)
(***************************************************************************)
EXTENDS ProfilePolicy

CONSTANT Backoffs   \* len(backoffSchedule)

ASSUME TryKeyAssumption == Backoffs \in Nat \ {0}

VARIABLES
  profile,    \* the profile the request was routed to, "none" before
  max403,     \* its Max403Retries, 0 = no budget of its own
  stage,      \* where tryKey is
  attempt,    \* its loop variable
  last,       \* the failure it pauses after
  outcome,    \* the rotResult, once there is one
  left,       \* has the client disconnected?
  forbidden   \* how many calls were answered 403

tryVars == <<profile, max403, stage, attempt, last, outcome, left, forbidden>>

Stages == {"idle", "send", "flight", "sleep", "done"}

NoReply == [status |-> NoStatus, body |-> "plain", over |-> FALSE]
Replies ==
  {NoReply} \cup [status : Statuses, body : Bodies, over : BOOLEAN]

Pending == [status |-> NoStatus, body |-> "plain", kind |-> "pending"]
Outcomes ==
  [status : Statuses \cup {NoStatus}, body : Bodies,
   kind : {"pending", "ok", "capped", "netErr", "rotate"}]

TryInit ==
  /\ profile = "none" /\ max403 = 0
  /\ stage = "idle"
  /\ attempt = 0
  /\ last = NoReply
  /\ outcome = Pending
  /\ left = FALSE
  /\ forbidden = 0

Begin(p, retries) ==
  /\ stage = "idle"
  /\ stage' = "send"
  /\ profile' = p /\ max403' = retries
  /\ UNCHANGED <<attempt, last, outcome, left, forbidden>>

-----------------------------------------------------------------------------

(* Fault: a 403 may be retried once more than its budget says.              *)
budgetOneMore(status) ==
  IF status = 403 /\ 0 < max403 /\ max403 < Backoffs THEN max403 + 1
  ELSE Backoffs

(* How many attempts may be followed by another: all the pauses of the      *)
(* schedule, or fewer for a 403.  One counter serves every kind of failure. *)
budget(status) ==
  IF status = 403 /\ 0 < max403 /\ max403 < Backoffs THEN max403 ELSE Backoffs

end(status, body, kind) ==
  /\ stage' = "done"
  /\ outcome' = [status |-> status, body |-> body, kind |-> kind]
  /\ last' = NoReply
  /\ UNCHANGED attempt

pause(m) ==
  /\ stage' = "sleep"
  /\ last' = m
  /\ UNCHANGED <<attempt, outcome>>

(* Fault: a transient status that outlives its budget falls through to the  *)
(* return below the loop body, and serveOnce takes it for a success.        *)
settleFallingThrough(m) ==
  IF m.over THEN end(m.status, m.body, "capped")
  ELSE IF shouldRetry(m.status) /\ attempt < budget(m.status)
  THEN pause(m)
  ELSE end(m.status, m.body,
           IF shouldRotate(profile, m.status, m.body) THEN "rotate" ELSE "ok")

(* What tryKey does with one reply, and serveOnce with what tryKey returns. *)
settle(m) ==
  IF m.over THEN end(m.status, m.body, "capped")
  ELSE IF shouldRetry(m.status) THEN
    IF attempt < budget(m.status) THEN pause(m)
    ELSE end(m.status, m.body, "netErr")
  ELSE end(m.status, m.body,
           IF shouldRotate(profile, m.status, m.body) THEN "rotate" ELSE "ok")

(* Fault: the request is built without the client's context.                *)
SendDetached ==
  /\ stage = "send"
  /\ stage' = "flight"
  /\ UNCHANGED <<profile, max403, attempt, last, outcome, left, forbidden>>

(* client.Do with the client's context, which fails at once when it is      *)
(* canceled.                                                                *)
Send ==
  /\ stage = "send"
  /\ IF left THEN settle(NoReply)
     ELSE stage' = "flight" /\ UNCHANGED <<attempt, last, outcome>>
  /\ UNCHANGED <<profile, max403, left, forbidden>>

(* The response, or an error: the network's, the timeout's, or that of a    *)
(* client which left while the call was in flight.                          *)
Receive ==
  /\ stage = "flight"
  /\ \E m \in Replies :
       /\ forbidden' = IF m.status = 403 /\ forbidden <= Backoffs
                       THEN forbidden + 1 ELSE forbidden
       /\ settle(m)
  /\ UNCHANGED <<profile, max403, left>>

(* Fault: a pause that follows a 403 does not use up an attempt.            *)
WakeForgetting403 ==
  /\ stage = "sleep"
  /\ stage' = "send"
  /\ attempt' = IF last.status = 403 THEN attempt ELSE attempt + 1
  /\ last' = NoReply
  /\ UNCHANGED <<profile, max403, outcome, left, forbidden>>

(* sleepOrCancel: the timer fires.  It may win even if the client has left. *)
Wake ==
  /\ stage = "sleep"
  /\ stage' = "send"
  /\ attempt' = attempt + 1
  /\ last' = NoReply
  /\ UNCHANGED <<profile, max403, outcome, left, forbidden>>

(* sleepOrCancel: the client has left; the last status is what remains.     *)
Abandon ==
  /\ stage = "sleep" /\ left
  /\ end(last.status, last.body, "netErr")
  /\ UNCHANGED <<profile, max403, left, forbidden>>

Leave ==
  /\ ~left /\ stage \notin {"idle", "done"}
  /\ left' = TRUE
  /\ UNCHANGED <<profile, max403, stage, attempt, last, outcome, forbidden>>

TryStep == Send \/ Receive \/ Wake \/ Abandon
TryNext ==
  \/ \E p \in Profiles, retries \in Nat : Begin(p, retries)
  \/ TryStep
  \/ Leave

TrySpec == TryInit /\ [][TryNext]_tryVars

-----------------------------------------------------------------------------

TryTypeOK ==
  /\ profile \in Profiles \cup {"none"}
  /\ max403 \in Nat
  /\ stage \in Stages
  /\ attempt \in 0..Backoffs
  /\ last \in Replies
  /\ outcome \in Outcomes
  /\ left \in BOOLEAN
  /\ forbidden \in 0..(Backoffs + 1)

(* Of the calls of one attempt, at most Max403Retries + 1 are answered 403, *)
(* however they alternate with calls that are answered otherwise.  Those    *)
(* others have the whole schedule: a 403 followed by 500s is called again   *)
(* and again, so the budget bounds the 403s of a key and not, as "2 hits/   *)
(* key" may be read (README.md:70), all its calls (proxy.go:392-412).       *)
EdgeBlockIsNotHammered ==
  0 < max403 /\ max403 < Backoffs => forbidden <= max403 + 1

(* Once the client has left, no further request goes out on this key,       *)
(* whatever the retry budget still allows and whichever of timer and        *)
(* disconnect the pause sees first (proxy.go:342, 371-382, 403, 418-432).   *)
NobodyCallsForTheGone ==
  [][left /\ stage # "flight" => stage' # "flight"]_tryVars

One == INSTANCE OneAttempt

(* However calls, pauses, both budgets and a disconnect interleave, the     *)
(* attempt ends once, with the verdict of a single reply: the one step the  *)
(* handler's model takes it for (proxy.go:59-94, 331-432).                  *)
EndsAsOneVerdict == One!Spec

(* Every attempt ends: the two budgets and the shared counter leave no way  *)
(* to retry for ever (proxy.go:337, 391-412).                               *)
AttemptEnds == stage = "send" ~> stage = "done"
=============================================================================
