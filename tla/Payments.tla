------------------------------ MODULE Payments -------------------------------
(***************************************************************************)
(* The payment side of Aegis as a whole: every call of POST /pay for one   *)
(* workflow (PayProxy), the worker that rechecks unconfirmed payouts       *)
(* (PendingPayouts), RazorpayX making up its mind, and the cache losing    *)
(* entries, over the shared state of AegisStore.                           *)
(***************************************************************************)
EXTENDS PayProxy, PendingPayouts

vars == <<storeVars, payVars, workerVars>>

Init == StoreInit /\ PayInit /\ WorkerInit

\* run_procurement() with an explicit workflow_id: reset before its first
\* payment.  A call it gave up on after 30 s may still be under way.
ReuseWorkflow ==
    /\ "reuse" \in Env
    /\ steps # <<>>
    /\ ResetWorkflow
    /\ UNCHANGED <<pg, redis, rows, feed, queue, charged, payout, reversed>>

World == \/ \E r \in Req : GatewayDecides(r)
         \/ \E k \in Keys : RedisExpire(k)
         \/ ReuseWorkflow

Next ==
    \/ PayNext /\ UNCHANGED workerVars
    \/ WorkerNext /\ UNCHANGED payVars
    \/ World /\ UNCHANGED <<payVars, workerVars>>

Spec == Init /\ [][Next]_vars

\* The event loop runs every coroutine that has started and the worker's loop never
\* ends; nobody owes us a request, a decision of RazorpayX, an exception or a restart.
Fairness ==
    /\ \A r \in Req : WF_vars(pc[r] # "start" /\ Handle(r) /\ UNCHANGED workerVars)
    /\ WF_vars(WorkerStep /\ UNCHANGED payVars)

FairSpec == Spec /\ Fairness

TypeOK == StoreTypeOK /\ PayTypeOK /\ WorkerTypeOK

-----------------------------------------------------------------------------
(* What the workflow's budget owes to each call *)

\* The pending payout of r was found failed and its hold given back.
Released(r) == rows[r].status = "resolved_failed" \/ Releasing(r)

\* The part of budget_used that call r accounts for, told from how far r and
\* the worker have come and not from the budget.
Owed(r) ==
    IF pc[r] \in Reserved THEN (IF Released(r) THEN 0 ELSE Amount[r])
    ELSE IF pc[r] \notin Recorded THEN 0
    ELSE CASE outcome[r] = "settled" -> actual[r]
           [] outcome[r] = "pending" -> (IF Released(r) THEN 0 ELSE Amount[r])
           [] OTHER -> 0

OwedTotal == Total([r \in Req |-> Owed(r)])

\* Money that call r has moved, or that a payout of it may still move.
Exposure(r) ==
    charged[r] + (IF payout[r] \in {"nonterminal", "processed"} THEN Sent[r] ELSE 0)

-----------------------------------------------------------------------------
(* Safety *)

\* budget_used never passes the mandate: reserve_budget() checks and adds in
\* one statement, so no interleaving of /pay calls gets two payments through.
WithinLimit == used <= Limit

\* budget_used is exactly what the calls of /pay hold or have spent: each
\* reservation is settled, kept or released once, by /pay or by the worker,
\* whatever died in between.
BudgetAccountsForEveryCall == used = OwedTotal

\* The mandate bounds money and not only a counter: what has been charged or
\* paid out, plus every payout still undecided, fits into the limit.
MandateCoversMoney == Total([r \in Req |-> Exposure(r)]) <= Limit

\* The ₹ of a payout whose row still waits for a decision stays held in
\* budget_used (the comment at mcp_proxy.py:455-466).
OpenPayoutsAreHeld ==
    Total([r \in Req |-> IF r \in OpenRows /\ ~Releasing(r) THEN Amount[r] ELSE 0]) <= used

\* A key moves money at most once, however often the client sends it.
OneChargePerKey ==
    \A q, r \in Req :
        q # r /\ Key[q] = Key[r] => ~(Exposure(q) > 0 /\ Exposure(r) > 0)

\* All calls answered from the idempotency stores with one key get the same
\* stored response, and the call that did the work answered that too.
SameAnswerPerKey ==
    \A q, r \in Req :
        /\ Key[q] = Key[r]
        /\ pc[q] \in {"done", "replayed"} /\ pc[r] \in {"done", "replayed"}
        => served[q] = served[r]

\* No handler and no recheck is under way.
Quiet == /\ \A r \in Req : pc[r] \in Finished \cup {"start"}
         /\ wpc = "cycle"

StepsOf(r, kind) == {i \in DOMAIN steps : steps[i].req = r /\ steps[i].kind = kind}
HasStep(r, kind, status) ==
    \E i \in StepsOf(r, kind) : steps[i].status = status

\* What the ledger alone says call r spent.
LedgerAmount(r) ==
    IF HasStep(r, "payment", "settled") THEN actual[r]
    ELSE IF HasStep(r, "payment", "pending") /\ ~HasStep(r, "payout_resolution", "failed")
    THEN Amount[r]
    ELSE 0

\* When nothing is under way the ledger explains the budget: transaction_steps
\* and workflows.budget_used are written by separate statements, and agree.
LedgerExplainsBudget == Quiet => used = Total([r \in Req |-> LedgerAmount(r)])

\* A payout is resolved in the ledger only once, and never both ways.
ResolvedOnce == \A r \in Req : Cardinality(StepsOf(r, "payout_resolution")) <= 1

\* A compensation request is queued only for a call whose failed step is in
\* the ledger already, so that the saga can tell it from what it must undo.
RequestedAfterStep == \A r \in queue : HasStep(r, "payment", "failed")

\* Rolling back more than was reserved would let later payments past the
\* mandate: the budget never goes below zero.
BudgetNeverNegative == used >= 0

-----------------------------------------------------------------------------
(* The invariants behind the accounting, and what they assume *)

\* None of the misfortunes after which the code releases a hold twice, or
\* forgets one.
NoSlips == Env \cap {"rzp_error", "worker_error", "reuse"} = {}

\* A client that repeats a key only after its first call was answered, and
\* handlers that get to their end.
PatientClients == Env \cap {"duplicates", "handler_error", "restart"} = {}

\* Merchants charge at most what was expected.
HonestMerchants == \A r \in Req : Charged[r] \subseteq 0 .. Amount[r]

\* A call has a row from CreateRow on ...
RowsAfterCreate ==
    \A r \in Req : rows[r].status # "none" => pc[r] \in {"escalate", "budget"} \cup Recorded

\* ... and stays with the conclusion that made it create one.
RowsArePending ==
    \A r \in Req : rows[r].status # "none" => outcome[r] = "pending"

\* Where a call is says what it concluded.
LabelsMatchOutcomes ==
    \A r \in Req :
        /\ pc[r] \in {"row", "escalate"} => outcome[r] = "pending"
        /\ pc[r] \in {"fulfil", "reverse"} => outcome[r] = "settled"
        /\ pc[r] \in {"budget"} \cup Recorded => outcome[r] # "none"

\* What the worker still has to do with its row, the row does not say yet, and
\* the rows it fetched are still open: no one else resolves rows.
WorkerMatchesRows ==
    /\ todo \subseteq OpenRows
    /\ IF wpc = "cycle" THEN cur = None ELSE cur \in Req \ todo
    /\ wpc \in {"settle", "release", "resolve_failed", "touch", "exhaust"} =>
           rows[cur].status = "pending"
    /\ wpc \in {"resolution_step", "announce"} =>
           rows[cur].status \in {"resolved_settled", "resolved_failed"}

\* Handlers, rows and worker agree on how far each payment has come: the
\* inductive invariant of TypeOK, whatever goes wrong.
ControlAgrees == TypeOK /\ LabelsMatchOutcomes /\ RowsAfterCreate /\ WorkerMatchesRows

\* No merchant made a handler conclude more than it reserved.
SettledWithinExpected == \A r \in Req : outcome[r] = "settled" => actual[r] <= Amount[r]

\* The inductive invariant of WithinLimit, given HonestMerchants.
LimitHolds == ControlAgrees /\ SettledWithinExpected /\ WithinLimit

\* The inductive invariant of BudgetAccountsForEveryCall.
Bookkeeping == ControlAgrees /\ RowsArePending /\ BudgetAccountsForEveryCall

\* Money at a mock merchant is money the handler concluded as settled, and no
\* more than it reserved.
ChargesAreSettled ==
    \A r \in Req : charged[r] # 0 =>
        /\ Kind[r] = "mock" /\ pc[r] \in {"budget"} \cup Recorded
        /\ outcome[r] = "settled"
        /\ actual[r] = charged[r] /\ charged[r] <= Amount[r]

\* A payout belongs to a call past CreatePayout, and once that call concluded
\* "failed" it can move no money.
PayoutsAreKnown ==
    \A r \in Req : payout[r] # "none" =>
        /\ Kind[r] \in RzpKinds /\ pc[r] \in (Reserved \ {"forward"}) \cup Recorded
        /\ pc[r] \in {"fulfil", "reverse", "budget"} \cup Recorded =>
               \/ outcome[r] = "settled" /\ actual[r] = Sent[r]
               \/ outcome[r] = "pending"
               \/ outcome[r] = "failed" /\ payout[r] = "failed"

\* Only the hold of a failed payout is released.
ReleasesAreSafe ==
    \A r \in Req :
        Released(r) \/ (cur = r /\ wpc = "release") => payout[r] = "failed"

\* Every unit of money that moved, or still may, is a unit the budget holds:
\* the inductive strengthening of MandateCoversMoney.
MoneyIsOwed == ChargesAreSettled /\ PayoutsAreKnown /\ ReleasesAreSafe

\* The ledger has a payout's resolution once the worker closed the row and wrote
\* it: the inductive strengthening of ResolvedOnce.
ResolutionsFollowRows ==
    \A r \in Req : StepsOf(r, "payout_resolution") # {} =>
        /\ rows[r].status \in {"resolved_settled", "resolved_failed"}
        /\ ~(cur = r /\ wpc = "resolution_step")

\* A handler publishes its request after its failed step: the inductive
\* strengthening of RequestedAfterStep.
RejectedHasStep == \A r \in Req : pc[r] = "reject_publish" => HasStep(r, "payment", "failed")

\* What the ledger says of a call and of its payout is what the handler and the
\* worker have written by now: the strengthening of LedgerExplainsBudget.
Written == Recorded \ {"step"}
LedgerFollowsHandlers ==
    \A r \in Req :
        /\ \A s \in {"settled", "pending", "failed"} : HasStep(r, "payment", s) =>
               pc[r] \in Written \cup {"reject_publish", "reject_notice", "rejected"}
        /\ \A s \in {"settled", "pending"} : HasStep(r, "payment", s) => pc[r] \in Written
        /\ pc[r] \in Written => \A s \in {"settled", "pending", "failed"} :
               HasStep(r, "payment", s) <=> s = outcome[r]
        /\ HasStep(r, "payout_resolution", "failed") <=>
               rows[r].status = "resolved_failed" /\ ~(cur = r /\ wpc = "resolution_step")

\* One call of a key is under way at a time, and Postgres knows of the last one
\* that got to its end: the inductive strengthening of OneChargePerKey and
\* SameAnswerPerKey.
Unanswered == {"authorize", "reserve", "step", "link", "save"} \cup Reserved
KeysAgree ==
    /\ stopped = {}
    /\ \A q, r \in Req : q # r /\ Key[q] = Key[r] => ~(InFlight(q) /\ InFlight(r))
    /\ \A k \in Keys : redis[k] \in {None, pg[k]}
    /\ \A r \in Req :
           /\ pc[r] \in Unanswered => pg[Key[r]] = None
           /\ pc[r] \in {"cache", "done"} => pg[Key[r]] = r
           /\ pc[r] \in {"refill", "replayed"} => served[r] = pg[Key[r]] /\ served[r] # None
           /\ pc[r] = "done" => served[r] = r
           /\ charged[r] # 0 \/ payout[r] # "none" =>
                  pc[r] \in (Reserved \ {"forward"}) \cup Recorded

-----------------------------------------------------------------------------
(* The mandate Payments implements *)

PhaseOf(r) ==
    IF pc[r] = "no_merchant" \/ Released(r) THEN "freed"
    ELSE IF pc[r] \in Reserved THEN
        (IF rows[r].status = "resolved_settled" THEN "spent" ELSE "held")
    ELSE IF pc[r] \notin Recorded THEN "idle"
    ELSE CASE outcome[r] = "settled" -> "spent"
           [] outcome[r] = "pending" ->
                  (IF rows[r].status = "resolved_settled" THEN "spent" ELSE "held")
           [] OTHER -> "freed"

Claims == [r \in Req |-> [phase |-> PhaseOf(r), amt |-> Owed(r)]]

Abstract == INSTANCE Mandate WITH claim <- Claims

\* The payment side implements the abstract mandate: through every handler and
\* the worker, a payment claims once, spends at most its claim, and frees it at
\* most once.
ImplementsMandate == Abstract!Spec

-----------------------------------------------------------------------------
(* Liveness, under FairSpec *)

\* A payout nobody could classify does not stay open: it is resolved or given
\* up on after MaxChecks rechecks.
OpenPayoutDecided == \A r \in Req : rows[r].status = "pending" ~> rows[r].status # "pending"

\* A payment over the mandate leads to a compensation request.
RejectionCompensated == \A r \in Req : pc[r] = "reject_step" ~> r \in queue

===============================================================================
