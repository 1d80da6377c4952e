------------------------------- MODULE MCBudget -------------------------------
(***************************************************************************)
(* What the README promises of a finance key's daily budget, counted over  *)
(* the requests its upstream has answered.                                 *)
(***************************************************************************)
EXTENDS MCRotator

VARIABLE served  \* answers of a key's upstream, since the budget was seeded

answeredNow(k) ==
  {r \in Requests : pc[r] = "upstream" /\ pc'[r] = "release" /\ idx[r] = k}

BudgetSpec ==
  /\ RotatorInit /\ served = [k \in Keys |-> 0]
  /\ [][/\ Next
        /\ served' = [k \in Keys |-> served[k] + Cardinality(answeredNow(k))]
       ]_<<vars, served>>

(* README.md:406: "Hard floor; at or below this the key is held back, so    *)
(* the last request of the day is never served to the upstream".  The hold  *)
(* is Disable for 30 seconds (proxy.go:221), and ReenableDue gives the key  *)
(* back with no balance at all (keys.go:450), which nothing measures again. *)
LastRequestNeverServed ==
  \A k \in Keys : served[k] <= Seed - StopThreshold
=============================================================================
