------------------------------- MODULE MCSaga --------------------------------
(* Instances of Saga for TLC. *)
EXTENDS Saga

CONSTANTS s1, s2, hotel, crm, m1, m2

\* "hotel" has a policy, "crm" refunds whatever is asked of it.
TwoShops == s1 :> hotel @@ s2 :> crm
OneFault == m1 :> "agent_fault"
OneShop == s1 :> crm @@ s2 :> crm
Faults == m1 :> "agent_fault" @@ m2 :> "network_fault"

===============================================================================
