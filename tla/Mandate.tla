------------------------------- MODULE Mandate -------------------------------
(***************************************************************************)
(* What the payment side promises about a workflow's mandate, with no      *)
(* handlers, tables or workers in it.  Each payment claims its amount of   *)
(* the limit at most once and only if it fits beside every other claim;    *)
(* a claim then either becomes money spent, no more than was claimed, or   *)
(* is given up; what was spent or given up is never claimed again.         *)
(***************************************************************************)
EXTENDS Integers, FiniteSets, Amounts

CONSTANTS Req, Amount, Limit

VARIABLE claim   \* per payment: its phase and its part of the limit

Claim == [phase : {"idle", "held", "spent", "freed"}, amt : Nat]

Claimed == Total([r \in Req |-> claim[r].amt])

Init == claim = [r \in Req |-> [phase |-> "idle", amt |-> 0]]

Hold(r) ==
    /\ claim[r].phase = "idle"
    /\ Claimed + Amount[r] <= Limit
    /\ claim' = [claim EXCEPT ![r] = [phase |-> "held", amt |-> Amount[r]]]

Spend(r) ==
    /\ claim[r].phase = "held"
    /\ \E a \in 0 .. claim[r].amt :
           claim' = [claim EXCEPT ![r] = [phase |-> "spent", amt |-> a]]

Free(r) ==
    /\ claim[r].phase = "held"
    /\ claim' = [claim EXCEPT ![r] = [phase |-> "freed", amt |-> 0]]

Next == \E r \in Req : Hold(r) \/ Spend(r) \/ Free(r)

Spec == Init /\ [][Next]_claim

===============================================================================
