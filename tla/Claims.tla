-------------------------------- MODULE Claims --------------------------------
(***************************************************************************)
(* What the repository's comments and README say of the handler, where a   *)
(* run of Rotator shows the code to do otherwise.                          *)
(***************************************************************************)
EXTENDS Rotator

(* README "Rotation & retry behavior": "The key is cooled down ~30s" after  *)
(* a rejection.  AdvanceAfter cools the key the shared cursor is on, which  *)
(* another request may have moved since (keys.go:287-294).                  *)
RejectedKeyCoolsDown ==
  [][\A r \in Requests :
       pc[r] = "advance" /\ pc'[r] = "switch" /\ res[r].kind = "rotate"
         => coolFor'[idx[r]] >= RotateCooldown]_vars

(* keys.go:151-153: "each wake re-checks state under mu so no wakeup is     *)
(* lost".  No request sleeps beside a free slot unless a token waits for    *)
(* it or another request is on its way to send one or to take the slot.     *)
NoWakeupLost ==
  \A r \in Requests :
    pc[r] = "blocked" /\ anySlotFree =>
      \/ slotFree
      \/ \E q \in Requests :
           pc[q] \in {"release", "wake", "check", "select", "acquire", "saturated"}

(* proxy.go:38: "success; stop the loop and serve".  The final check for a  *)
(* usable key runs after a success too, and after its own charge.           *)
SuccessIsServed ==
  [][\A r \in Requests :
       answer[r] = "none" /\ answer'[r] = "exhausted503"
         => res[r].kind # "ok"]_vars

(* keys.go:392: "a key below this never serves".  The balance may be        *)
(* fetched, or charged by another request, after the key was selected.      *)
BelowStopNeverServes ==
  [][\A r \in Requests :
       pc[r] = "launch" /\ pc'[r] = "upstream"
         => credits[idx[r]] >= StopThreshold]_vars
=============================================================================
