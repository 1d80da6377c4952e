----------------------------- MODULE OneAttempt -----------------------------
(***************************************************************************)
(* What the handler may rely on when it tries a key: the attempt belongs to*)
(* one profile and ends once, with the verdict that profile gives of one   *)
(* reply.  How often the key was called for it is nobody's business.       *)
(***************************************************************************)
EXTENDS ProfilePolicy

VARIABLES
  profile,  \* whose key is tried, "none" before
  outcome   \* Pending, or [status, body, kind]

Pending == [status |-> NoStatus, body |-> "plain", kind |-> "pending"]

Verdict(status, body, over) ==
  [status |-> status, body |-> body,
   kind |-> classify(profile, status, body, over)]

Init == profile = "none" /\ outcome = Pending

Begin ==
  /\ profile = "none"
  /\ profile' \in Profiles
  /\ UNCHANGED outcome

(* An over-cap body needs a response.                                       *)
End ==
  /\ profile # "none" /\ outcome = Pending
  /\ \E status \in Statuses \cup {NoStatus}, body \in Bodies, over \in BOOLEAN :
       /\ status = NoStatus => ~over /\ body = "plain"
       /\ outcome' = Verdict(status, body, over)
  /\ UNCHANGED profile

Spec == Init /\ [][Begin \/ End]_<<profile, outcome>>
=============================================================================
