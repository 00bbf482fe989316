-------------------------------- MODULE Rules ---------------------------------
(***************************************************************************)
(* The deterministic rules on what a gateway answered to one payment:      *)
(* engine/reconciliation.py and engine/fault_classifier.py.  An answer is a*)
(* record [code, error, status, amount, payee, ref], as /pay reads it: any *)
(* code but 200 has status "failed" and the amount and payee expected.     *)
(***************************************************************************)
EXTENDS Naturals

\* The checks of reconcile(), in its order, and what a failing one reports.
Checks(expected, g, seen) == <<
    [fails |-> g.error \in {"timeout", "connection_reset", "network_error",
                            "mandate_limit_exceeded"},
     as |-> "hard_error"],
    [fails |-> g.code >= 400,                as |-> "hard_error"],
    [fails |-> expected.amount # g.amount,   as |-> "amount_mismatch"],
    [fails |-> expected.payee # g.payee,     as |-> "payee_mismatch"],
    [fails |-> g.status = "pending",         as |-> "pending_unconfirmed"],
    [fails |-> g.status # "settled",         as |-> "hard_error"],
    [fails |-> g.ref \in seen,               as |-> "duplicate_settlement"]>>

\* The first check that fails, or a match.
Reconcile(expected, g, seen) ==
    LET checks == Checks(expected, g, seen)
        failing == {i \in DOMAIN checks : checks[i].fails}
    IN  IF failing = {} THEN "match"
        ELSE checks[CHOOSE i \in failing : \A j \in failing : i <= j].as

NetworkErrorTypes == {"timeout", "connection_reset", "connection_refused", "network_error"}
NetworkStatusCodes == {500, 501, 502, 503, 504, 507, 508}

\* A bug to catch: what is neither the mandate nor a 4xx is put down to the network.
ClassifyFaultByExclusion(g) ==
    IF g.error = "mandate_limit_exceeded" \/ g.code \in 400 .. 499
    THEN "agent_fault" ELSE "network_fault"

\* classify_fault(): every rule after the second gives the agent the blame.
ClassifyFault(g) ==
    IF g.error \in NetworkErrorTypes \/ g.code \in NetworkStatusCodes
    THEN "network_fault" ELSE "agent_fault"

===============================================================================
