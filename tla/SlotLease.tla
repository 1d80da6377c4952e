------------------------------ MODULE SlotLease ------------------------------
(***************************************************************************)
(* What the per-key concurrency cap promises, and nothing of how: a        *)
(* request leases at most one key at a time, a key is leased to at most    *)
(* Cap requests at once, and every lease is given back.                    *)
(***************************************************************************)
EXTENDS Integers, FiniteSets

CONSTANTS Clients, Slots, Cap  \* Cap = 0: no limit

VARIABLE lease                 \* lease[k]: the clients that use key k

Init == lease = [k \in Slots |-> {}]

Lease(c, k) ==
  /\ \A j \in Slots : c \notin lease[j]
  /\ Cap = 0 \/ Cardinality(lease[k]) < Cap
  /\ lease' = [lease EXCEPT ![k] = @ \cup {c}]

GiveBack(c, k) ==
  /\ c \in lease[k]
  /\ lease' = [lease EXCEPT ![k] = @ \ {c}]

Next == \E c \in Clients, k \in Slots : Lease(c, k) \/ GiveBack(c, k)

Spec == Init /\ [][Next]_lease

FairSpec ==
  Spec /\ \A c \in Clients, k \in Slots : WF_lease(GiveBack(c, k))
=============================================================================
