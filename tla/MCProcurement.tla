---------------------------- MODULE MCProcurement -----------------------------
(* Instances of Procurement for TLC. *)
EXTENDS Procurement, TLC

CONSTANTS c1, c2, d1

\* The two payments fit into the budget of 5, but not into one day's 4.
Amounts2 == c1 :> 2 @@ c2 :> 3
Catalog2 == <<c1, c2>>
\* Merchant c1 may charge too much; the paise of payout c2 may be cut off.
Charged2 == c1 :> {2, 3} @@ c2 :> {2, 3}

===============================================================================
