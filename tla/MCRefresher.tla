----------------------------- MODULE MCRefresher -----------------------------
(***************************************************************************)
(* Constants for the runs of Refresher.                                    *)
(***************************************************************************)
EXTENDS Refresher
CONSTANTS r1, r2, f1, w1
=============================================================================
