----------------------------- MODULE MCDashboard ------------------------------
(* Instances of Dashboard for TLC. *)
EXTENDS Dashboard, TLC

CONSTANTS r1, r2, k1, k2

\* Two payouts.
PairKey == r1 :> k1 @@ r2 :> k2
PairAmount == r1 :> 1 @@ r2 :> 1
PairCharged == r1 :> {1} @@ r2 :> {1}
TwoPayouts == r1 :> "rzp" @@ r2 :> "rzp"

===============================================================================
