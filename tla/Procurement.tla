----------------------------- MODULE Procurement ------------------------------
(***************************************************************************)
(* One run of the purchasing agent (primary_agent/) against the proxy: the *)
(* planner draws up a list of payments, the agent opens the workflow and   *)
(* sends them to /pay one after another, each through the rate limit, the  *)
(* wallet (module WalletAuth, whose actions are steps of the calls here),  *)
(* the workflow's budget, the merchant and reconciliation; then it reports *)
(* the workflow complete, or stops, or dies.  The dashboard reads the      *)
(* wallet and the recheck worker decides pending payouts all the while,    *)
(* those an earlier run left under the same id included.  Calls do not     *)
(* overlap here, so /pay's statements after the merchant's answer, and the *)
(* worker's about one payout, are one action; modules PayProxy and         *)
(* PendingPayouts have them one by one.                                    *)
(***************************************************************************)
EXTENDS WalletAuth, Sequences, Rules

CONSTANTS
    Driver,    \* "planner": run_procurement_with_plan(); "script": run_procurement()
    Catalog,   \* MERCHANT_CATALOG: one line item, and so one call, per entry
    MaxItems,  \* MAX_LINE_ITEMS
    Bad,       \* an item that does not survive _validate_and_clamp()
    Limit,     \* the workflow's budget_limit
    Charged,   \* [Call -> SUBSET Nat], the amounts an accepted payment may report
    Earlier,   \* amounts of a payout an earlier run may have left unconfirmed
    MaxCalls,  \* calls of /pay per workflow and minute
    Trouble    \* what may go wrong, see Troubles

Troubles == {
    "slow",         \* an answer takes longer than the agent's 30 s
    "proxy_error"}  \* the proxy dies, or an exception leaves its handler

ASSUME ProcurementAssumption ==
    /\ Driver \in {"planner", "script"}
    /\ Catalog \in Seq(Call) /\ Catalog # <<>>
    /\ Driver = "script" => Len(Catalog) >= 3
    /\ MaxItems \in Nat \ {0} /\ Bad \notin Call
    /\ Limit \in Nat /\ MaxCalls \in Nat \ {0}
    /\ Charged \in [Call -> SUBSET Nat] /\ Earlier \subseteq Nat
    /\ Trouble \subseteq Troubles

VARIABLES
    agent,     \* where the agent is
    try,       \* the planner's attempt
    plan,      \* the payments to make
    n,         \* the next one
    clean,     \* all_reconciled
    total,     \* total_paid
    complete,  \* workflow_complete has been published
    row,       \* the workflow has its row in workflows
    used,      \* ... and its budget_used
    count,     \* rate_limit:<wid> in Redis, up to one above MaxCalls
    armed,     \* it has a TTL
    req,       \* where each call is inside /pay
    gate,      \* what its gateway answered, a payout's status brought up to date
    answer,    \* what /pay answered
    left,      \* the amount of the earlier run's open row in pending_payouts, or 0
    slipped    \* what the release of an earlier run's payout took from this budget

agentVars == <<agent, try, plan, n, clean, total, complete>>
leftVars == <<left, slipped>>
proxyVars == <<row, used, count, armed, req, gate, answer, leftVars>>
runVars == <<vars, agentVars, proxyVars>>

AgentLabels == {"reset", "plan", "init", "pay", "wait", "done", "stopped", "crashed"}
ReqLabels == {"idle", "incr", "expire", "authorize", "charge", "answered", "lost"}
AnswerLabels == {"none", "match", "mismatch", "refused", "throttled"}
InPay == {"incr", "expire", "authorize", "charge"}

\* expected.payee is the catalog's; "other" is any payee that is not.
Expected(c) == [amount |-> Amount[c], payee |-> "expected"]
Gate(c, code, error, status, amount, payee) ==
    [code |-> code, error |-> error, status |-> status, amount |-> amount,
     payee |-> payee, ref |-> c]
NoGate(c) == Gate(c, 0, "", "none", 0, "expected")

RunInit ==
    /\ Init
    /\ agent = "reset" /\ try = 1 /\ plan = <<>> /\ n = 1
    /\ clean = TRUE /\ total = 0 /\ complete = FALSE
    \* An earlier run with this id may have left a budget and a count.
    /\ row \in BOOLEAN /\ used \in (IF row THEN 0 .. Limit ELSE {0})
    /\ count \in (IF row THEN {0, MaxCalls} ELSE {0}) /\ armed = (count > 0)
    /\ req = [c \in Call |-> "idle"] /\ gate = [c \in Call |-> NoGate(c)]
    /\ answer = [c \in Call |-> "none"]
    \* ... and a payout that is still to be decided.
    /\ left \in Earlier \cup {0} /\ slipped = 0

-----------------------------------------------------------------------------
(* The planner *)

\* run_procurement()'s three payments.
ScriptPlan == SubSeq(Catalog, 1, 3)

\* A bug to catch: the budget an earlier run left is kept.
ResetKeepsWorkflow ==
    /\ agent = "reset"
    /\ agent' = "plan" /\ UNCHANGED plan
    /\ UNCHANGED <<row, used>>
    /\ UNCHANGED <<vars, try, n, clean, total, complete, count, armed, req, gate, answer, leftVars>>

\* reset_workflow() deletes the row; the rate limit's counter stays, and so do
\* the open rows of pending_payouts.  The script's plan is written into it.
Reset ==
    /\ agent = "reset"
    /\ \/ Driver = "planner" /\ agent' = "plan" /\ UNCHANGED plan
       \/ Driver = "script" /\ agent' = "init" /\ plan' = ScriptPlan
    /\ row' = FALSE /\ used' = 0 /\ slipped' = 0
    /\ UNCHANGED <<vars, try, n, clean, total, complete, count, armed, req, gate, answer, left>>

Least(a, b) == IF a <= b THEN a ELSE b

\* Lists the model may return, no item twice (calls stand for line items), one
\* longer than the planner will use.
RawPlans ==
    {raw \in UNION {[1 .. k -> Call \cup {Bad}] : k \in 0 .. MaxItems + 1} :
        \A i, j \in DOMAIN raw : raw[i] = raw[j] => i = j \/ raw[i] = Bad}

\* A bug to catch: an unknown merchant is not dropped.
ClampOnly(raw) == SubSeq(raw, 1, Least(MaxItems, Len(raw)))

\* _validate_and_clamp(): the list is cut before its bad items are dropped; the
\* k-th item of the plan is the one with k good ones up to it.
ValidateAndClamp(raw) ==
    LET good == {i \in 1 .. Least(MaxItems, Len(raw)) : raw[i] # Bad}
        UpTo(i) == {j \in good : j <= i}
    IN  [k \in 1 .. Cardinality(good) |-> raw[CHOOSE i \in good : Cardinality(UpTo(i)) = k]]

\* _fallback_plan(): the catalog's items until they exceed the budget.
FallbackPlan ==
    LET cap == Least(MaxItems, Len(Catalog))
        Cost(k) == Total([i \in 1 .. k |-> Amount[Catalog[i]]])
        k == CHOOSE k \in 1 .. cap :
                /\ k = cap \/ Cost(k) > Limit
                /\ \A j \in 1 .. k - 1 : Cost(j) <= Limit
    IN  SubSeq(Catalog, 1, k)

\* A bug to catch: the planner asks until it gets a plan.
PlanForEver ==
    /\ agent = "plan"
    /\ \/ \E raw \in RawPlans :
             /\ ValidateAndClamp(raw) # <<>>
             /\ plan' = ValidateAndClamp(raw) /\ agent' = "init" /\ UNCHANGED try
       \/ try' = 3 - try /\ UNCHANGED <<plan, agent>>
    /\ UNCHANGED <<vars, n, clean, total, complete, proxyVars>>

\* plan_procurement(): two attempts, then the fallback.  A list without a valid
\* item, or none at all, is a failed attempt.
Plan ==
    /\ agent = "plan"
    /\ \/ \E raw \in RawPlans :
             /\ ValidateAndClamp(raw) # <<>>
             /\ plan' = ValidateAndClamp(raw) /\ agent' = "init" /\ UNCHANGED try
       \/ try = 1 /\ try' = 2 /\ UNCHANGED <<plan, agent>>
       \/ try = 2 /\ plan' = FallbackPlan /\ agent' = "init" /\ UNCHANGED try
    /\ UNCHANGED <<vars, n, clean, total, complete, proxyVars>>

-----------------------------------------------------------------------------
(* The agent *)

\* create_workflow(): INSERT ... ON CONFLICT DO NOTHING.  The agent does not look
\* at the answer, and goes on when the insert failed.
InitWorkflow ==
    /\ agent = "init" /\ agent' = "pay"
    /\ row' \in {TRUE} \cup (IF "proxy_error" \in Trouble THEN {row} ELSE {})
    /\ UNCHANGED <<vars, try, plan, n, clean, total, complete>>
    /\ UNCHANGED <<used, count, armed, req, gate, answer, leftVars>>

Send ==
    /\ agent = "pay" /\ n <= Len(plan) /\ req[plan[n]] = "idle"
    /\ agent' = "wait" /\ req' = [req EXCEPT ![plan[n]] = "incr"]
    /\ UNCHANGED <<vars, try, plan, n, clean, total, complete>>
    /\ UNCHANGED <<row, used, count, armed, gate, answer, leftVars>>

Counts(c) == total' = total + Amount[c] /\ n' = n + 1 /\ agent' = "pay"

\* A bug to catch: a refusal is one more payment that did not reconcile.
ReadAnswerGoesOn ==
    /\ agent = "wait"
    /\ LET c == plan[n] IN
        /\ req[c] = "answered"
        /\ Counts(c)
        /\ clean' = (clean /\ answer[c] \in {"match", "throttled"})
    /\ UNCHANGED <<vars, try, plan, complete, proxyVars>>

\* Only a 403 stops the agent.  What has no "reconciliation" in it, a 429,
\* counts as a match.  The script looks at its third answer only.
ReadAnswer ==
    /\ agent = "wait"
    /\ LET c == plan[n] IN
        /\ req[c] = "answered"
        /\ \/ /\ answer[c] = "refused" /\ (Driver = "planner" \/ n = 3)
              /\ agent' = "stopped" /\ UNCHANGED <<n, clean, total>>
           \/ /\ answer[c] # "refused" \/ (Driver = "script" /\ n < 3)
              /\ Counts(c)
              /\ clean' = (clean /\ (Driver = "script" \/ answer[c] # "mismatch"))
    /\ UNCHANGED <<vars, try, plan, complete, proxyVars>>

\* A bug to catch: what did not reconcile is reported like the rest.
FinishAnyway ==
    /\ agent = "pay" /\ n > Len(plan)
    /\ agent' = "done" /\ complete' = TRUE
    /\ UNCHANGED <<vars, try, plan, n, clean, total, proxyVars>>

\* workflow_complete, unless something did not reconcile.
Finish ==
    /\ agent = "pay" /\ n > Len(plan)
    /\ agent' = "done" /\ complete' = clean
    /\ UNCHANGED <<vars, try, plan, n, clean, total, proxyVars>>

\* No answer, or none in 30 s: an exception the agent does not catch.
AgentDies ==
    /\ agent = "wait"
    /\ req[plan[n]] = "lost" \/ ("slow" \in Trouble /\ req[plan[n]] \in InPay)
    /\ agent' = "crashed"
    /\ UNCHANGED <<vars, try, plan, n, clean, total, complete, proxyVars>>

-----------------------------------------------------------------------------
(* /pay *)

At(c, label) == req[c] = label
Enter(c, label) == req' = [req EXCEPT ![c] = label]
Reply(c, what) == answer' = [answer EXCEPT ![c] = what] /\ Enter(c, "answered")

\* A bug to catch: INCR is taken to return the value before it.
IncrNeverArms(c) ==
    /\ At(c, "incr")
    /\ count' = Least(count + 1, MaxCalls + 1)
    /\ \/ count < MaxCalls /\ Enter(c, "authorize") /\ UNCHANGED answer
       \/ count >= MaxCalls /\ Reply(c, "throttled")
    /\ UNCHANGED <<vars, agentVars, row, used, armed, gate, leftVars>>

\* INCR: the first call of a window sets its TTL with a second command.
Incr(c) ==
    /\ At(c, "incr")
    /\ count' = Least(count + 1, MaxCalls + 1)
    /\ \/ count = 0 /\ Enter(c, "expire") /\ UNCHANGED answer
       \/ count \in 1 .. MaxCalls - 1 /\ Enter(c, "authorize") /\ UNCHANGED answer
       \/ count >= MaxCalls /\ Reply(c, "throttled")
    /\ UNCHANGED <<vars, agentVars, row, used, armed, gate, leftVars>>

Expire(c) ==
    /\ At(c, "expire")
    /\ armed' = TRUE /\ Enter(c, "authorize")
    /\ UNCHANGED <<vars, agentVars, row, used, count, gate, answer, leftVars>>

\* authorize(): the steps of module WalletAuth.
Authorize(c) ==
    /\ At(c, "authorize")
    /\ GetWallet(c) \/ ResetSpend(c) \/ Check(c) \/ CheckRealBalance(c) \/ RecordSpend(c)
    /\ UNCHANGED <<agentVars, proxyVars>>

\* BLOCK is a 403; after ALLOW the budget is reserved, or refused with a 403.
Reserve(c) ==
    LET fits == row /\ used + Amount[c] <= Limit IN
    /\ At(c, "authorize")
    /\ \/ at[c] = "blocked" /\ Reply(c, "refused") /\ UNCHANGED used
       \/ at[c] = "allowed" /\ ~fits /\ Reply(c, "refused") /\ UNCHANGED used
       \/ /\ at[c] = "allowed" /\ fits
          /\ used' = used + Amount[c] /\ Enter(c, "charge") /\ UNCHANGED answer
    /\ UNCHANGED <<vars, agentVars, row, count, armed, gate, leftVars>>

Failed(c, code, error) == Gate(c, code, error, "failed", Amount[c], "expected")

\* A 200, with what it reports.
Accepted(c, statuses, amounts, payees) ==
    [code : {200}, error : {""}, status : statuses, amount : amounts, payee : payees,
     ref : {c}]

\* A real payout in one of its three states, for what int(amount * 100) paise come
\* to, or an exception; a merchant's 200 with its amount and payee, merchant_c's
\* silent timeout, a timeout, an error.
Answers(c) ==
    IF c \in Real
    THEN Accepted(c, {"settled", "failed", "pending"}, Charged[c], {"expected"})
         \cup {Failed(c, 502, "")}
    ELSE Accepted(c, {"settled"}, Charged[c], {"expected", "other"})
         \cup {Failed(c, 504, "timeout"), Failed(c, 408, "timeout"), Failed(c, 503, "")}

\* get_seen_settlement_refs() reads the ledger with the step just written, whose
\* reference is taken out again.
Seen(ref) == {gate[d].ref : d \in {d \in Call : gate[d].code = 200}} \ {ref}

\* The merchant's answer, the budget's commit or rollback, reconciliation.
Charge(c) ==
    /\ At(c, "charge")
    /\ \E g \in Answers(c) :
        /\ gate' = [gate EXCEPT ![c] = g]
        /\ used' = CASE g.status = "settled" -> used + (g.amount - Amount[c])
                     [] g.status = "pending" -> used
                     [] OTHER                -> used - Amount[c]
        /\ LET verdict == Reconcile(Expected(c), g, Seen(g.ref)) IN
              Reply(c, IF verdict = "match" THEN "match" ELSE "mismatch")
    /\ UNCHANGED <<vars, agentVars, row, count, armed, leftVars>>

\* Nothing is answered; what was reserved or recorded stays.
HandlerFails(c) ==
    /\ "proxy_error" \in Trouble /\ req[c] \in InPay
    /\ Enter(c, "lost")
    /\ UNCHANGED <<vars, agentVars, row, used, count, armed, gate, answer, leftVars>>

-----------------------------------------------------------------------------
(* Around them *)

\* The TTL of 60 s is over.
WindowEnds ==
    /\ armed
    /\ count' = 0 /\ armed' = FALSE
    /\ UNCHANGED <<vars, agentVars, row, used, req, gate, answer, leftVars>>

\* The recheck worker decides a payout of this run: processed, the hold stays;
\* failed, it is given back.  A row it gives up on changes nothing here.
Recheck(c) ==
    /\ gate[c].status = "pending"
    /\ \/ gate' = [gate EXCEPT ![c].status = "settled"] /\ UNCHANGED used
       \/ gate' = [gate EXCEPT ![c].status = "failed"] /\ used' = used - Amount[c]
    /\ UNCHANGED <<vars, agentVars, row, count, armed, req, answer, leftVars>>

\* ... or the earlier run's: a failed one is released from whatever budget the
\* workflow_id has by now, if it has a row.
RecheckEarlier ==
    /\ left # 0 /\ left' = 0
    /\ \/ row /\ used' = used - left /\ slipped' = slipped + left
       \/ UNCHANGED <<used, slipped>>
    /\ UNCHANGED <<vars, agentVars, row, count, armed, req, gate, answer>>

\* The dashboard reads the wallet; days end; the operator resets it.
WalletAround ==
    /\ \/ \E d \in Reader : GetWallet(d) \/ ResetSpend(d) \/ Answer(d)
       \/ Midnight \/ OperatorReset
    /\ UNCHANGED <<agentVars, proxyVars>>

Agent == Reset \/ Plan \/ InitWorkflow \/ Send \/ ReadAnswer \/ Finish
Handle(c) == Incr(c) \/ Expire(c) \/ Authorize(c) \/ Reserve(c) \/ Charge(c)

RunNext ==
    \/ Agent \/ AgentDies
    \/ \E c \in Call : Handle(c) \/ HandlerFails(c) \/ Recheck(c)
    \/ RecheckEarlier \/ WindowEnds \/ WalletAround

RunSpec == RunInit /\ [][RunNext]_runVars

\* The agent runs and gives up on a lost answer, a handler that is alive goes on,
\* and Redis drops what has expired; nothing is owed by readers or the worker.
FairRunSpec ==
    /\ RunSpec
    /\ WF_runVars(Agent \/ AgentDies) /\ WF_runVars(WindowEnds)
    /\ \A c \in Call : WF_runVars(Handle(c))

-----------------------------------------------------------------------------

RunTypeOK ==
    /\ TypeOK
    /\ agent \in AgentLabels /\ try \in 1 .. 2
    /\ plan \in Seq(Call) /\ Len(plan) <= (IF Driver = "script" THEN 3 ELSE MaxItems)
    /\ n \in Nat \ {0} /\ clean \in BOOLEAN /\ total \in Nat /\ complete \in BOOLEAN
    /\ row \in BOOLEAN /\ used \in Int
    /\ count \in 0 .. MaxCalls + 1 /\ armed \in BOOLEAN
    /\ req \in [Call -> ReqLabels]
    /\ \A c \in Call : gate[c] \in Answers(c) \cup {NoGate(c)}
    /\ answer \in [Call -> AnswerLabels]
    /\ left \in Nat /\ slipped \in Nat

PaidInFull(c) ==
    gate[c].status = "settled" /\ gate[c].amount = Amount[c] /\ gate[c].payee = "expected"

\* The planner's agent reports a workflow complete only when every planned payment
\* settled as planned; those the rate limit refused are counted in, and nothing
\* else (procurement_agent.py:241-283, App.jsx:363-365).  The script has no such
\* check.
CompleteMeansPaid ==
    complete => \A i \in DOMAIN plan : PaidInFull(plan[i]) \/ answer[plan[i]] = "throttled"

\* The total it reports is the workflow's own spend, apart from what the rate
\* limit refused: nothing an earlier run with the id spent is in it, but what the
\* budget lost to the release of an earlier run's payout is (db/client.py:209-212,
\* 234-237).
ReportedIsSpent ==
    complete => total = used + slipped + Total([c \in Call |-> IF answer[c] = "throttled"
                                                               THEN Amount[c] ELSE 0])

\* The run's payments that moved money, or may still.
Paying == {c \in Call : gate[c].status \in {"settled", "pending"}}
Refused == {c \in Call : answer[c] = "refused"}

\* Once /pay has refused a payment, and a compensation may be reading the ledger,
\* the workflow sets no more money in motion, whatever becomes of the agent: what
\* the ledger can still gain is the worker's word on a payout made before.
NothingPaidAfterRefusal ==
    [][Refused # {} => Paying' \subseteq Paying]_runVars

\* The two rule modules agree: what the saga would put down to the network never
\* counts as a match, nor as one of the softer mismatches.
NetworkFaultsAreErrors ==
    \A c \in Call : gate[c] # NoGate(c) /\ ClassifyFault(gate[c]) = "network_fault" =>
                       Reconcile(Expected(c), gate[c], Seen(gate[c].ref)) = "hard_error"

\* A workflow over its rate limit is let through again, unless a call died that
\* may have owed the counter its TTL (mcp_proxy.py:147-149).
ThrottleLifts ==
    count > MaxCalls ~> (count <= MaxCalls \/ \E c \in Call : req[c] = "lost")

\* Every run of the agent ends, with a report, at a refusal, or in a crash.
RunEnds == <>(agent \in {"done", "stopped", "crashed"})

===============================================================================
