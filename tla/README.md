# Aegis (RevertX) in TLA+

Aegis sits between a purchasing agent and payment APIs. It keeps a workflow
within a monetary mandate, answers retries from an idempotency store, holds
money whose fate is unknown, and when a payment is rejected undoes the
workflow's settled payments with a saga. This directory models that behaviour in
TLA+, checks it with TLC on small instances, and proves most of it for every
instance with TLAPS. Paths below are relative to `src/`.

Contents: [the system](#the-system) · [modules](#modules-and-the-code) ·
[runs](#runs) · [bounds](#bounds) · [fairness](#fairness) ·
[proofs](#what-is-proved) · [what the models show about the code](#what-the-models-show-about-the-code) ·
[not modelled](#not-modelled) · [plan](#plan)

## The system

| component | state it keeps | operations | modelled by |
|---|---|---|---|
| payment proxy, `proxy/mcp_proxy.py` | `_aegis_enabled` in memory; everything else in the stores | `POST /pay`, `POST /aegis_mode`, `GET /wallet`, `/init_workflow`, the WebSocket relay, `/trigger_run` | `PayProxy`; its rate limit and `/init_workflow` in `Procurement`; the relay in `Dashboard` |
| stores, `db/client.py`, Redis | `workflows.budget_used`, `transaction_steps`, `pending_payouts`, `idempotency_keys`, `agent_wallet`, `circuit_breakers`, `dlq_refunds`; `idem:<key>` and `rate_limit:<wid>` in Redis | one SQL statement or Redis command each | `AegisStore`, `WalletAuth`, `Saga`, `Procurement` |
| pending payout worker, `compensating_agent/pending_payout_worker.py` | the rows fetched for this cycle | `run_once`, `_recheck_one` | `PendingPayouts` |
| authorization, `authorization/`, `reset_wallet.py` | the row of `agent_wallet` | `authorize`, `get_wallet` (may reset), `record_spend`, the operator's reset | `WalletAuth` |
| compensation worker and graph, `compensating_agent/worker.py`, `graph.py` | `CompensationState` in memory, LangGraph checkpoints in Postgres | `process_message`, `run_compensation`, the nodes of the graph | `Saga` |
| merchants, RazorpayX | charges, refunds, payouts | `/charge`, `/policy`, `/refund`; `create_payout`, `poll_payout`, `reverse_payout` | by their outcomes, in `PayProxy`, `PendingPayouts`, `Saga`, `Procurement` |
| rules, `engine/reconciliation.py`, `engine/fault_classifier.py` | none | `reconcile`, `classify_fault` | `Rules` |
| policy extraction, `engine/policy_extractor.py`, `policy_service.py` | one queue per attempt, a shared thread pool | `extract_policy_terms` with and without a listener | `PolicyStream`; its outcome in `Saga` |
| purchasing agent, `primary_agent/` | the plan and what was paid | the planner, both drivers | `Procurement`; its overlapping calls in `Payments` |
| dashboard, `dashboard/src/App.jsx` | what it built from the event feed | the link, the reducer's two payout banners | `Dashboard` |
| anomaly detection, `engine/anomaly_*.py` | none | one LLM call, advisory | not modelled |

How they interact. The agent calls `/pay`. Each call is a coroutine in the
proxy's event loop that gives way at every `await`, so calls interleave between
any two statements on the stores. `/pay` may leave a row in `pending_payouts`,
which the recheck worker, another process, picks up and resolves; both write
`budget_used`, the ledger and the event feed. A call over the mandate writes a
failed step and publishes a request to RabbitMQ. The compensation worker, a third
process, consumes it and runs the graph over the ledger `/pay` wrote, asking the
policy service, a fourth, what a merchant's policy says. The wallet row is shared
by all workflows of the agent and by whoever reads it. The event feed (Redis
pub/sub, relayed over a WebSocket) is fire and forget.

What is hard here, and what makes each component correct:

* **/pay.** Retries of one key, overlapping or after an answer; a handler that
  dies between two statements; an answer that is lost after money moved; two
  calls at the boundary of the mandate. Correct when `budget_used` is exactly what
  the calls hold or spent, the mandate bounds the money and not only the counter,
  a key moves money once, and every retry gets the first answer.
* **Recheck worker.** It works beside `/pay` on the same row and budget, from rows
  it read earlier, and may fail between two writes. Correct when a hold is kept
  while undecided, released or spent once, and not held for ever.
* **Authorization.** A check on a copy, two awaits, then a write; a daily reset
  by whoever reads first, with no lock between readers and calls. Correct when
  `spent_today` never counts what was not granted today, is exact once the day's
  reset is through, and is never above the limit.
* **Saga.** Refunds are calls to the outside that cannot be taken back; the
  worker dies, the broker redelivers, checkpoints lag behind, and two requests may
  run one thread. Correct when every settled step gets one verdict, newest first,
  results are true, no refund that is on record is asked for again, and every
  request is handled or dead-lettered.
* **Policy extraction.** A thread feeds a queue, and reading the queue takes a
  thread of the same pool; an attempt may be abandoned with its thread running.
  Correct when every extraction ends, and terms come from a whole answer.
* **Purchasing agent.** An answer of 200 is not money moved; a reused workflow id
  brings state of an earlier run; the agent may stop waiting for an answer. Correct
  when success is only reported for what was paid and nothing is paid after a
  refusal.
* **Dashboard.** Events before the subscription or during an outage are lost, and
  two processes publish about one payout. Correct when what it shows goes away
  once it is no longer so.

`PROJECT.json` lists the hazards one by one, at the line where they bite, with
the properties that cover them.

## Modules and the code

```
Amounts ── AegisStore ─┬─ PayProxy ────────┬─ Payments ─┬─ MCPayments
                       └─ PendingPayouts ──┘     │      └─ Dashboard ── MCDashboard
Mandate ───────────────(refined by)──────────────┘
WalletAuth ─┬─ MCWallet                          UndoPlan ─(refined by)─ Saga ── MCSaga
Rules ──────┴─ Procurement ── MCProcurement      PolicyStream ── MCPolicy

proofs: AmountsProofs ← PaymentsProofs ← AccountingProofs ← LedgerProofs (with Dashboard)
        WalletProofs ← ProcurementProofs;  SagaProofs;  PolicyProofs
```

**AegisStore** holds the shared state of one workflow: `used` is
`workflows.budget_used`; `pg` and `redis` say, per idempotency key, whose response
is stored; `steps` is `transaction_steps` in order; `rows` is `pending_payouts`;
`feed` and `queue` are the event channel and `compensation_requests`; `charged`,
`payout` and `reversed` are what the outside world did with money. Each operator
that primes a variable is one SQL statement, Redis command or publish.

**PayProxy** is the handler of `POST /pay`. `pc[r]` names the next thing call `r`
does, and one action is one awaited call with the code up to the next one:
`Arrive` (Redis), `CheckPostgres` and after a hit `RefillCache`, `Authorize`, `Reserve`, the three steps of a
rejection, the branches on the merchant (`NoMerchant`, `Charge`, or
`CreatePayout`, `PollPayout`, `CreateRow`, `Escalate`, `Fulfil`, `ReversePayout`),
then `SettleBudget`, `WriteStep`, `LinkRow`, `SaveResponse`, `CacheResponse`.
`RzpException` is the except clause around the RazorpayX branch, `HandlerFails` an
exception nothing catches, `ProxyRestart` the death of the process, which forgets
the mode flag. A response is represented by the call that produced it. A payout is
made in paise: `Sent[r]` is what `int(amount * 100)` of them come to, at most
`Amount[r]` and less where a fraction is cut off, and is what the handler concludes
with and what the payout moves.

**PendingPayouts** is the recheck worker, one database call per action:
`FetchOpen` reads the rows of a cycle, `Recheck` reads one payout, then the three
verdicts. `RecheckFails` is an exception or a restart between any two of them.

**Payments** composes them with RazorpayX deciding payouts, the cache losing
entries, and the agent starting again with a used workflow id, whether or not a
call it gave up on is still under way. It states the
safety and liveness properties, the inductive invariants, and the refinement.

**Mandate** is the abstract promise: each payment claims part of the limit at most
once, if it fits beside the others; a claim becomes money spent, at most the claim,
or is given up; it is never claimed again. `Payments` implements it under the
mapping `Claims`, which reads a payment's phase from how far the handler and
its row have come and never from `budget_used`.

**Dashboard** puts a browser beside `Payments`. `Connect` is `connectWS()` up to the
proxy's `accept()`, `Subscribe` the relay's `pubsub.subscribe`, `Hear` one event
through `handleEvent()`, `Lose` an `onclose`. `feed` is the channel: `heard` is how
much of it the browser has had or missed. The agent sends one payment at a time
(`OneByOne`), so the banners of two payouts still interleave through the worker.

**WalletAuth** is `authorize()` over the shared wallet row: `GetWallet` with the
date comparison, the reset's own UPDATE, `can_spend` and the policy on the copy, the
balance check, `RecordSpend`. Readers of `GET /wallet` run the same `get_wallet`, and
may write: nothing orders them with the calls or with each other, in the code or in
the model. So a reset may come late, from a reader that saw yesterday's row, and erase
what was granted since; "reset once per calendar day" (`db/client.py:153`) is what
happens when nobody overlaps, and is not claimed here. What holds whoever overlaps
is stated instead: `NeverOvercounted`, and `ExactOnceOpen` from the moment the last
such reset is written (`DayIsOpen`). `copy[c]` is the `WalletState`, dropped when
its call or read is over (`Leave`). `Midnight` and `OperatorReset` are the world around.

**Procurement** is one run of the purchasing agent on top of `WalletAuth`, whose
actions are the steps of its `Authorize`. `Reset`, `Plan`, `InitWorkflow`, `Send`,
`ReadAnswer` and `Finish` are the driver: `run_procurement_with_plan()` after the
planner with its validation, second attempt and fallback, or the fixed script
`run_procurement()` (`Driver`). `Incr` and `Expire` are the rate limit's two Redis
commands, `Reserve` and `Charge` the budget and the merchant, with reconciliation by
`Rules`. One run makes its calls one after another, so `Charge` stands for all of
`/pay` from the merchant's answer on; `PayProxy` has the interleavings. `AgentDies`
is the exception of a call that takes over 30 s, whose handler goes on. `Recheck` is
the recheck worker deciding a payout of this run, at any time after `/pay` left it
pending, also after a refusal; `RecheckEarlier` decides one that an earlier run left
under the same id, whose release comes out of this run's budget (`left`, `slipped`).
Readers of the wallet (`WalletAround`) come at any step of a call.

**Rules** are `reconcile()`, a list of checks of which the first that fails counts,
and `classify_fault()`, over gateway answers as `/pay` reads them.

**Saga** is the compensation of one workflow. `at[m]` is where request `m` is: in
the queue, at a node of the graph, or inside `attempt_refund`, whose awaited calls
(`CheckBreaker`, `CallRefund`, `ResetBreaker`, `RecordFailure`, `WriteDlqEntry`) are
actions of their own; what fails after the answer may fail before or after the
breaker was closed (`ResetFails`). `run[m]` is the `CompensationState` in memory; `saved` is the
thread's latest checkpoint, written in the background with any lag (`Save`) and at
the end (`Complete`). `Preflight` resumes a checkpoint if there is one;
`PreflightFails` is the second attempt and the run without a checkpointer;
`RunFails` an exception that leaves a node; `Crash` the death of the worker, with
RabbitMQ's delivery count.

**UndoPlan** is what the checkpoint promises: a plan is drawn up once and is fixed
from then on; verdicts are only ever added, one per step, in the plan's order.

**PolicyStream** is `extract_policy_terms()`. `at[e]` is the coroutine: `Attempt`
starts a producer and a first `q.get`, `Forward` publishes a chunk, `Await` joins the
producer, `Backoff` waits between attempts. `pending` and `running` are the thread
pool, first come first served: a producer's job (`Produce`, `End` with the sentinel)
and a reader's (`Get`) compete for `Workers` threads. An attempt that was abandoned
leaves its producer in the pool.

Two modelling choices run through all modules. `Env` (in `Procurement` also
`Trouble`) is a set of named misfortunes: an action that models one has its name as a
guard, so that a run or a theorem says exactly what it assumes did not happen. And
definitions commented "a bug to catch" are plausible wrong versions of the
definition after them; each property is run against one of them, to show that it
can fail.

## Runs

| run | instance | what it shows |
|---|---|---|
| `PaymentsSequential` | a payment, its retry, a payout; evictions, lost replies | a client that waits for an answer moves money once per key and gets the first answer again, from either store; the ledger explains the budget when nothing is under way; the failed step is in the ledger before the request is published; `Mandate` is implemented; open payouts get decided and rejections lead to a request |
| `PaymentsFaults` | overlapping calls of one key at different prices, a payout, handlers and the proxy dying | `budget_used` equals what the calls hold or spent, the mandate covers the money that moved, every unit of it is owed, an undecided payout stays held and is resolved once |
| `PaymentsMisfortunes` | every misfortune except overlapping retries, both unusual branches | `budget_used` never passes the limit |
| `DashboardBanners` | two payouts, a browser that connects late, loses its link and connects again | a payout's banner goes away by itself unless the link is down or its events were out of order; a payout handed to a human is not resolved afterwards |
| `Procurement` | two planned payments, one at RazorpayX and one at a merchant that over- or undercharges, a payout that may lose a fraction, a wallet reader at any moment, one midnight, operator resets, the recheck worker, slow answers, proxy errors, a count, a budget and an open payout left from an earlier run | the wallet never counts too much, is bounded, and is exact once its day is open; success is only reported for payments that settled as planned or were throttled, with the right total up to what an earlier run's payout took; no money is set in motion after a refusal; network faults never reconcile; a throttled workflow is let in again; every run ends |
| `PolicyStreams` | a live and a plain extraction on two threads, failing model calls and publishes | terms come from whole answers; the panel shows each attempt's stream in order; with a thread more than live extractions somebody can always go on; every extraction ends |
| `SagaMishaps` | one request, a merchant with and one without a refundable policy, late payments, exceptions, outages, lost answers, other workflows' breakers | results are true to the money and the dead letters; no refund against a policy; the run keeps its plan |
| `SagaResumes` | two requests of different faults, crashes, redelivery | the checkpoint is one plan worked off from the front (`UndoPlan`); what it has judged is not asked for again; undisturbed, every refund is asked for once; completion means every step judged; every request is handled or dead-lettered |
| `ConcurrentRetryCharges` | a call and its overlapping retry | violates "only one real charge lands" (`aegis-production-redesign.md:361`) |
| `RecheckReleasesTwice` | a recheck that fails after releasing a hold | the next cycle releases it again; the budget goes below zero, against the comment at `pending_payout_worker.py:141-144` |
| `WalletOverspends` | overlapping calls | the daily limit is passed, which `mcp_proxy.py:176-178` says `authorize()` enforces "independent of any single workflow" |
| `DegradedRefundsAgain` | a connection lost after a refund, then an outage | the run without a checkpointer starts over after a refund, against `worker.py:78-80` |

The first eight pass. The last four end in the counterexample named, each against
one quoted statement; they are the entries of "findings" in `PROJECT.json`. The
deadlock check is off everywhere because the system may stop: when all calls are
answered, rows decided and requests handled, nothing is left to do.

## Bounds

* Amounts count equal parts of a price, limits are 2 or 3 (5 in `Procurement`):
  one payment fits, the second fits or not, so that reservation is exercised on both
  sides of the limit. What a merchant reports is below, at or, where
  `HonestMerchants` is not needed, free; a payout sends its amount, and in
  `PaymentsFaults`, `PaymentsMisfortunes`, `RecheckReleasesTwice` and `Procurement` also
  less. Two or three calls: a payment, its retry and
  an independent one is what a property of two payments and one key can be violated
  with.
* `MaxChecks` is 2 instead of 3 (the first check that does not give up and the last
  one that does), and 1 in `PaymentsFaults` and `DashboardBanners`, whose questions are
  about who writes when and not about counting.
  `checks` saturates one above (`CheckCap`); the code only compares it.
* `FailFloor` stops rechecks from failing once they have released one unit more
  than the limit; without it the violated run would go on below zero for ever.
* `LastDay` is 2, so one midnight, and 3 in `WalletOverspends`: a run of the agent may
  begin before and end after it, and a reader or a call may hold a copy of yesterday's
  row while the other has reset it already. `Earlier` is one amount: one payout left
  by an earlier run, or none. The reader reads once.
* `Threshold` is 1 or 2 instead of 3 failures, `DeliveryLimit` 1 or 2 instead of 5: one
  failure that does not open the breaker and one that does; one redelivery that is
  taken and one that is dead-lettered. Two steps: one judged, one still to do. Two
  requests: one that does the work and one that finds its checkpoint.
* `MaxItems` and the catalog have two entries instead of four, `MaxCalls` is 1 instead of 50
  (a call that passes and one that is throttled); `count` saturates one above.
* `MaxChunks = 2`, one chunk that is followed by another; `Workers = 2` for one live and
  one plain extraction, the smallest pool in which `NobodyIsStuck` says anything.
* Which misfortunes a run allows is its `Env` and `Trouble`; the table above names them.
  Two have no run of their own: `overlap`, two requests of one saga processed at once,
  under which `PlanKept`, `VerdictsAreTrue` and `PolicyIsRespected` are proved, and
  `empty_policy`, which `PolicyIsRespected` excludes.

## Fairness

* `Payments!FairSpec`: weak fairness of each started handler and of the recheck
  worker's step. asyncio runs every ready coroutine, and the worker's loop has no
  exit. Nothing is assumed of clients, operators or RazorpayX: `OpenPayoutDecided` holds
  although RazorpayX may never decide, because the worker gives up after `MaxChecks`.
  Handlers and rechecks that raise are left out of this run by its `Env`: a row
  whose recheck fails in every cycle is never counted, and stays open.
* `Dashboard!FairWatchSpec`: the same, and an open link delivers (`Subscribe \/ Hear`).
  Nobody owes the browser a connection, and the link may be lost at any time.
* `Saga!FairSpec`: weak fairness of `Advance(m)`, the consumer and the nodes; none of
  requests, crashes, exceptions or background checkpoints. `RequestHandled` then holds
  with crashes because the broker counts deliveries.
* `PolicyStream!FairSpec`: coroutines and threads run when they can, a free thread takes
  the next job, and an answer of the model ends (in success or failure).
* `Procurement!FairRunSpec`: the agent runs and gives up on an answer that will not come,
  handlers that are alive go on, and Redis drops what has expired. None for readers, the
  recheck worker, dying handlers, midnights or operators.

## What is proved

TLAPS checks the following for every set of calls, every amount and limit, and
every number of checks, days, steps, merchants, requests, extractions, threads and
chunks. The constants' assumptions are `StoreAssumption`, `WalletAssumption`,
`SagaAssumption`, `PolicyAssumption`, `ProcurementAssumption` and, for the dashboard,
`WatchAssumption`; the others are in the theorem.

| theorem | assumes | says |
|---|---|---|
| `PaymentsProofs!TypesHold` | nothing | `[]TypeOK`, whatever goes wrong |
| `PaymentsProofs!LimitKept` | `HonestMerchants` | `[]WithinLimit`, whatever else goes wrong |
| `AccountingProofs!BudgetAccounts`, `BudgetStaysPositive`, `OpenPayoutsHeld` | `NoSlips` | `[]BudgetAccountsForEveryCall`, `[]BudgetNeverNegative`, `[]OpenPayoutsAreHeld`, through overlapping retries, crashes and restarts |
| `AccountingProofs!MandateCovers`, `MoneyOwed` | `NoSlips`, `HonestMerchants`, no lost reply | `[]MandateCoversMoney`, `[]MoneyIsOwed` |
| `AccountingProofs!MandateImplemented` | `NoSlips`, `HonestMerchants` | `Spec => Mandate!Spec` under `Claims` |
| `LedgerProofs!PayoutResolvedOnce` | nothing | `[]ResolvedOnce` |
| `LedgerProofs!RequestFollowsStep` | no reused workflow id | `[]RequestedAfterStep` |
| `LedgerProofs!LedgerExplains` | `NoSlips` | `[]LedgerExplainsBudget` |
| `LedgerProofs!OneCharge`, `SameAnswer` | `PatientClients` | `[]OneChargePerKey`, `[]SameAnswerPerKey`, through evictions, lost replies and everything the worker does |
| `LedgerProofs!HandOffHolds`, `WatchTypesHold` | nothing | `HandOffIsFinal` and `[]WatchTypeOK`, however often the browser connects |
| `WalletProofs!WalletTypes` | nothing | `[]TypeOK`, with overlapping calls too |
| `WalletProofs!SpendIsCovered`, `OpenDayIsExact` | nothing | `[]NeverOvercounted`, `ExactOnceOpen`, however calls and readers overlap, over any days and operator resets |
| `WalletProofs!DailyLimitKept` | `[]OneCallAtATime`: calls of `/pay` do not overlap; readers may | `[]WithinDaily` |
| `ProcurementProofs!RunUsesWallet` | nothing | `RunSpec => WalletAuth!Spec`: a run of the agent uses the wallet as specified |
| `ProcurementProofs!RunSpendIsCovered`, `RunOpenDayIsExact`, `RunDailyLimitKept` | nothing | the wallet's three theorems, for whole runs: that the calls of a run do not overlap is proved of it |
| `ProcurementProofs!RunTypes`, `NetworkFaultsReported` | nothing | `[]RunTypeOK`, `[]NetworkFaultsAreErrors`, with either driver |
| `ProcurementProofs!RefusalIsTheLast` | the planner's driver | `NothingPaidAfterRefusal` |
| `ProcurementProofs!CompleteIsPaid`, `ReportIsExact` | the planner's driver | `[]CompleteMeansPaid`, `[]ReportedIsSpent`, for every plan the model may propose |
| `SagaProofs!SagaTypesHold` | nothing | `[]TypeOK` and `[]RunsAgree`: no node runs without the step it is about |
| `SagaProofs!PlanKept` | nothing | `[]PlanIsKept`, through overlapping requests, crashes, redeliveries, outages and payments that settle meanwhile |
| `SagaProofs!VerdictsAreTrue` | nothing | `[]ResultsAreTrue` |
| `SagaProofs!PolicyIsRespected` | no empty policy text | `[]PolicyRespected` |
| `SagaProofs!PlanImplemented` | no overlapping requests | `Spec => UndoPlan!Spec` for the checkpoint |
| `SagaProofs!JudgedOnce` | no overlap, no outage | `JudgedStaysJudged` |
| `SagaProofs!OneRefund` | no overlap | `[]RefundedOnce` |
| `SagaProofs!CompleteIsJudged` | no overlap, no late payment | `[]CompleteMeansJudged` |
| `PolicyProofs!PolicyTypes`, `TermsWhole`, `PanelShowsTheStream`, `PoolIsNeverStuck` | nothing | `[]TypeOK`, `[]TermsAreWhole`, `[]ShownIsTheStream`, `[]NobodyIsStuck`, for any number of extractions, threads and chunks |

`NoSlips` excludes the three misfortunes after which the code itself loses
account of a hold (`rzp_error`, `worker_error`, `reuse`, see below).
`HonestMerchants` says a merchant reports at most what was expected; `commit_budget`
does not check it. `PatientClients` excludes overlapping calls of a key and handlers
that do not get to their end, after both of which the code does charge a key twice.

The argument for payments. None of the properties is inductive. `ControlAgrees` ties
the three parties together: a handler's label determines its conclusion, a row exists
only from `CreateRow` on, and the worker's label determines what its row says. With
it, types are inductive. `LimitHolds` adds that a conclusion never exceeds the
reservation, so a commit only ever lowers `used` and only `Reserve`, which checks,
raises it. `Bookkeeping` adds that a call with a row stays concluded as pending, so
that `/pay` and the worker never both settle it, and that `used` is the total of
`Owed`, read off the control state. Each action changes `Owed` for one call and `used`
by as much (`AccountsUpdate`). `MoneyIsOwed` bounds what a call moved by what it owes,
which gives the mandate over money. The refinement maps an action to `Hold`,
`Spend`, `Free` or a stutter, and uses `BudgetAccounts` to turn the guard on `used`
into the guard on the sum of claims.

The argument for the ledger. `ResolutionsFollowRows` says a resolution is in the
ledger once its row is closed and the worker is past writing it, so a second one
would need an open row. `RejectedHasStep` says the same of a rejection's failed step.
`LedgerFollowsHandlers` says for each label which steps the ledger has of a call, so
that when nothing is under way the ledger's own sum is the total of `Owed`. `KeysAgree`
is the protocol of retries: one call of a key is under way, the cache never knows
another answer than Postgres, and Postgres has none while a call may still charge.
`GivenUpMeansExhausted` follows a payout's "exhausted" from the row through the worker
and the feed to the browser, and no action opens such a row again.

The wallet and the agent. Types need `ResetsAreDated`. A recorded spend adds the same to
the row and to what is granted for its day, since the UPDATE is on the row and not on
the copy (`RecordAddsBoth`); every other step lowers the row or leaves both (`OtherSteps`),
a late reset of the same day included, hence `Counting`. In an open day nobody is at a
reset and a new reader finds today's date, so both sides move together
(`OpenDayStep`). The daily limit does not need exactness: with one call at a time, others only
reset the row while it decides, so its copy may be out of date but then shows too much
(`CopiesAreSafe`), and what it adds still fits. Each action of `RunNext` is an action of
`WalletAuth` or leaves the wallet alone, so these theorems carry over; that a run's
calls come one at a time follows from `Turn` and `BusyInPay`: only the agent's current
call is inside `/pay`, and a call that lies dead in the middle of `authorize()` is the
last. `Lone` adds that once `/pay` has refused there is none, so nothing new is charged,
while `Recheck` only decides what was pending; `Paid` that while `clean` holds, every payment before the current
one matched or was throttled. `Spends` says that the calls before the current one are
the ones that were counted (`SentInOrder`), that `total` is the sum of their amounts,
and that `used`, with what `slipped`, is the sum of what the calls hold, as long as no call is lost in `/pay`
or answered otherwise (`NoneAstray`). At the end of a complete run each counted call
either holds its amount or was throttled (`TotalDisjoint`). That a plan is a sequence of
calls is proved of all its sources. `ValidateAndClamp` keeps an item by counting
those before it, since the library's `SelectSeq` is recursive; that the count reaches
every position up to its total is the one place where a proof takes a least element
(`LeastNatural`, from the library's well-foundedness of the naturals).

The argument for the saga. Types are inductive together with `RunsAgree`: a label says
what its run holds (a current step, an outcome) and that deliveries are left, and a
checkpoint holds what the node it names needs. `PlanHolds` adds to these `NothingLeft`,
that a run leaves the loop only with nothing to do, and `PlanIsKept` itself. Taking the
next step moves it from the rest to the current one, and a verdict from there to the
results: what results, current step and rest make up together stays as it was
(`SamePlan`). `Load` sets it to the reversed ledger; a payment that settles later only
lengthens the ledger, and an old prefix stays a prefix. A checkpoint is a copy of a
run, and a resumed run a copy of a checkpoint, so one argument covers both.
`TermsHold` follows terms that allow a refund back to the policy (`TermsAreGrounded`);
`TruthHolds` an answer that is about to be recorded back to the merchant
(`AnswersAreTrue`). `RecordHolds` adds that one run is active, that the ledger has no step
twice, and that a run's results begin with the checkpoint's (`RunExtendsSaved`): then
`Save` adds verdicts at the end, and a step judged on record is behind every run. With
the checkpointer in reach throughout (`Durable`) it is not asked for again.
`OnceHolds` says that undisturbed, every step that was paid is one the active run has
asked for; `WholeHolds` that a plan is the whole ledger and a run at its end has filed.

Policy extraction. `PolicyProofs!IInv` says a job is in one place, a read belongs to a
coroutine that waits for it, and a producer to an attempt that was begun and has not
ended: so a coroutine has at most one read in the pool, which bounds the reads by the
live extractions (`ReadsAreFew`). `StreamInv` says a queue holds what is left of its
attempt's chunks, in order, and then the sentinel (`QueueIsTheRest`); what is shown is
then all that was taken off, but for the chunk in the coroutine's hand (`Reading`). `WaitInv`
says whom a coroutine waits for: a read that is in the pool, and a producer that is on
its way unless its attempt has ended, in which case the sentinel is still to be read. If
nobody could go on, all running jobs would be reads of empty queues; these are fewer
than the threads, so no job would be waiting either, and the producer has to be among the
running ones, a contradiction.

Totals are cardinalities of sets of units (`Amounts`), so that "one summand changes"
follows from the library's theorems on finite sets (`AmountsProofs!TotalUpdate`)
without an induction over the set of calls.

Checked by TLC only: liveness (`OpenPayoutDecided`, `RejectionCompensated`,
`RequestHandled`, `ExtractionEnds`, `ThrottleLifts`, `RunEnds`, `BannerClears`), since the
prover has no `ENABLED`. `NobodyIsStuck` is the part of `ExtractionEnds` that can be said
without it: its disjuncts are the guards of the actions. Every invariant and every action
property of a passing run is a theorem.

## What the models show about the code

Beside the four violated runs, the models contain these behaviours. They are
reachable in the code too; they are described here and no run claims against them.

Payments:

* A merchant that charges and whose answer is lost is concluded as failed and its
  hold released (`mcp_proxy.py:432`): the mandate then no longer covers the money.
  This is why `MandateCovers` excludes `lost_reply`. `create_payout` sends RazorpayX no
  idempotency key, so its lost answer cannot be repeated safely either.
* An exception late in the RazorpayX branch (`mcp_proxy.py:415`) concludes "failed"
  after the pending row exists: the hold is released at once, and again when the worker
  finds the payout failed.
* `reset_workflow` keeps open rows of `pending_payouts` (`db/client.py:234-237`); a later
  release lowers the budget of the new run. `ReportedIsSpent` says by how much the
  report is then wrong (`slipped`). A call the earlier run gave up on after 30 s may also
  still be under way and settle its reservation on the new budget: `ReuseWorkflow` comes
  at any time, and `WithinLimit` holds all the same.
* A handler that dies after a reservation leaves it held for ever, and a payout it
  created without a row. The accounting stays safe: money held and not spent.
* A rejected call stores no response, so its retry is decided anew; and the mode flag
  is read twice around the publish, so a request can be sent and the workflow still be
  announced as stranded.
* The worker may resolve a row before `/pay` has announced the escalation or written
  the payment step; the events and the ledger are then in the opposite order. The
  budget is right either way. The window is narrow (the worker must select, poll and
  write between an INSERT and the next publish), and nothing in the code closes it.
* The budget the browser shows comes from `/pay`'s answers; a pending payout that
  settles later is in `budget_used` and in no event the display adds up.

* `/pay` compares a settlement with `get_seen_settlement_refs(wid) - {settlement_ref}`
  (`mcp_proxy.py:484`): taken out by value, the reference an earlier payment had goes as
  well. So `/pay` never reports `duplicate_settlement`, which `reconciliation.py:20` lists
  and the scenario generator counts on (`generate_scenarios.py:145-146`).

Wallet and agent:

* Several readers of yesterday's wallet row each reset it, erasing what was granted
  in between: a `GET /wallet` of the dashboard just after midnight, beside a `/pay`, is
  enough (`wallet.py:47-50`). The agent may then be granted more in a day than its limit,
  although the row never shows it; this is in every run with a `Reader`, and no property
  denies it (`db/client.py:153` speaks of a reset "once per calendar day"). The wallet is not
  credited when a payment fails, nor adjusted when a merchant charges another amount.
* A payout left pending before a refusal may be written as settled after it
  (`pending_payout_worker.py:87-93`), when the saga may have read the ledger already.
  `NothingPaidAfterRefusal` says that no other money moves then.
* A payout is made in paise, `int(amount * 100)`: a fraction cut off makes it reconcile as
  an amount mismatch, and the budget is committed at what the payout says.
* A death between `INCR` and `EXPIRE` (`mcp_proxy.py:147-149`) leaves a counter without a
  TTL: past 50 calls the workflow is throttled for ever. `ThrottleLifts` lets off that
  case only.
* The agent does not look at `/init_workflow`'s answer, and counts a 429 as a payment
  made (`procurement_agent.py`): `CompleteMeansPaid` and `ReportedIsSpent` say so.
* The fixed script looks at its third answer only and reports `workflow_complete` for
  anything but a 403 (`procurement_agent.py:156`), also when an earlier payment was
  refused or failed; `App.jsx:363-365` shows that event as "every planned payment
  settled". `CompleteMeansPaid` is a property of the planner's driver, and the runs use
  that one; of the script, the wallet's theorems hold (`RunUsesWallet`).
* `reconcile()` does not know `connection_refused`, which `classify_fault()` does; both end as
  errors because the status is then "failed". A payout that was reversed because
  its fulfilment failed still reconciles by its own status.
* `/pay` publishes compensation requests for mandate rejections only, so the saga's
  branch for network faults is not reached through it.
* `_fallback_plan()` says it adds "exactly one more on top" of the budget; with a budget
  above the four items' sum it adds none.

Saga and policy:

* A crash between a merchant's refund and the next checkpoint makes the resumed
  saga ask again. `RefundedOnce` is therefore stated for undisturbed workflows, and
  `JudgedStaysJudged` for what the checkpoint holds.
* An open circuit breaker is only closed by an answered refund, which an open breaker
  prevents (`db/client.py:427`), and nothing reads `dlq_refunds` back. The demo plan
  (`aegis-production-redesign.md:362`) expects the dead letters to drain once a merchant
  is back; no code does that yet, so no run is spent on it.
* A request that arrives after a finished checkpoint undoes nothing, even if payments
  settled since (`graph.py:767`).
* Each waiting `q.get` takes a thread of the pool its producer needs. With as many live
  extractions as threads, all of them can wait for producers that never start:
  with `Live` both extractions and `Workers = 2`, `ExtractionEnds` fails in 24 states.
  `NobodyIsStuck` has the condition under which this cannot happen.
* A publish that fails while a chunk is forwarded counts as a failed model call; the
  abandoned attempt's producer keeps its thread until the answer ends. A missing API
  key counts as an answer that could not be parsed.
* The penalty percentage read from a policy is not checked against 0..100
  (`refund_math.py:30`).

Dashboard:

* A worker cycle between a row's INSERT and the escalation's publish resolves the payout
  first: the banner comes afterwards and stays until somebody dismisses it, although
  `App.jsx:384-388` has it clear itself. `BannerClears` lets off that case (`Overtaken`).
* There is one slot for escalations: the second replaces the first, and the saga's
  policy fail-safe uses the same slot. `BannerClears` is about the one shown.
* Nothing reconnects a lost link, and "LINK STABLE" is shown from `accept()` on, before
  the relay has subscribed, while events are still lost.

Assumptions of the `Saga` model: an answer of the extraction service reads the
policy right or fails safe; "failed" stands for "error" too, since nothing reads the
difference; the verdict of the fault classifier is a parameter per request.

## Not modelled

* `/trigger_run` (it starts the agent as a process) and read-only endpoints of the proxy.
* The amounts of partial refunds and the metrics row a refund writes; the advisory
  anomaly task, which no state depends on; traces and logs.
* A workflow id that is reset, with its checkpoints, while its saga runs.
* What a 200 with a mismatch means to the saga: it undoes settled steps, and
  reconciliation is read by the agent only.
* Provisioning of contacts and fund accounts: one-off set-up of RazorpayX.
* Schema migrations, launch scripts and the evaluation harness; of the dashboard, its
  log, graph, budget and traces, which are views of single events; LLM prompts and
  text sanitizing.

## Plan

Done: everything named under "Modules and the code", with proofs for each state
machine. What would come next, in this order:

1. Reuse of a workflow id, with its checkpoints, composed with a running saga: what
   `reset_workflow()` would have to clear.
2. The same step from liveness to safety for the other machines that `NobodyIsStuck` is
   for the thread pool.
3. `compute_refund` in place of the free `Refundable` in `Saga`, with amounts.

Each question keeps one run. Where a new module asks a question close to one already
asked, its properties join that run, so that the whole set stays quick to repeat.
