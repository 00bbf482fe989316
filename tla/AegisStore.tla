----------------------------- MODULE AegisStore ------------------------------
(***************************************************************************)
(* What the processes of Aegis share, for one workflow: the Postgres tables*)
(* (db/client.py), the Redis idempotency cache and event feed, the         *)
(* RabbitMQ queue of compensation requests, and the two outside worlds that*)
(* move money, the mock merchants and RazorpayX.                           *)
(*                                                                         *)
(* Every operator below that primes a variable is one call the Python code *)
(* makes: one SQL statement, one Redis command, one publish.  Between two  *)
(* such calls any other process may run, so the handlers in PayProxy and   *)
(* PendingPayouts take one action per call.                                *)
(***************************************************************************)
EXTENDS Integers, Sequences, FiniteSets, Amounts

CONSTANTS
    Req,        \* the calls of POST /pay, retries of the same payment included
    Keys,       \* idempotency keys
    Key,        \* [Req -> Keys], the key each call carries
    Amount,     \* [Req -> Nat], the expected amount
    Sent,       \* [Req -> Nat], what its int(amount * 100) paise come to in a payout
    Charged,    \* [Req -> SUBSET Nat], what a mock merchant may report charged
    Kind,       \* [Req -> Kinds], which branch of /pay the merchant_id takes
    Limit,      \* the workflow's budget_limit
    MaxChecks,  \* PENDING_PAYOUT_MAX_CHECKS
    Env,        \* which misfortunes the environment may cause, see Misfortunes
    None        \* no request

\* "mock" is a merchant reached over HTTP, "unknown" one with no URL, "rzp" the
\* real RazorpayX payouts: "rzp_pending" is merchant_rzp_pending with its forced
\* classification, "rzp_downstream" the one whose fulfilment never confirms.
RzpKinds == {"rzp", "rzp_pending", "rzp_downstream"}
Kinds == RzpKinds \cup {"mock", "unknown"}

Misfortunes == {
    "duplicates",    \* a client sends a key again while the first call still runs
    "lost_reply",    \* money moves and the caller sees an error or a timeout
    "rzp_error",     \* an exception inside /pay's RazorpayX branch
    "handler_error", \* an uncaught exception: the handler stops where it is
    "restart",       \* the proxy process dies and is started again
    "worker_error",  \* _recheck_one raises, or its process restarts
    "expiry",        \* a Redis idempotency entry is evicted (TTL 86400 s)
    "toggle",        \* an operator calls POST /aegis_mode
    "unroutable",    \* compensation_requests has not been declared yet
    "reuse"}         \* the agent is started again with this workflow's id

ASSUME StoreAssumption ==
    /\ IsFiniteSet(Req) /\ None \notin Req
    /\ Key \in [Req -> Keys]
    /\ Amount \in [Req -> Nat] /\ Sent \in [Req -> Nat]
    /\ \A r \in Req : Sent[r] <= Amount[r]
    /\ Charged \in [Req -> SUBSET Nat]
    /\ Kind \in [Req -> Kinds]
    /\ Limit \in Nat
    /\ MaxChecks \in Nat \ {0}
    /\ Env \subseteq Misfortunes

VARIABLES
    used,      \* workflows.budget_used
    pg,        \* idempotency_keys: whose response is stored under each key
    redis,     \* idem:<key> in Redis: the same, as a cache
    steps,     \* transaction_steps in the order of created_at
    rows,      \* pending_payouts: at most one row per call of /pay
    feed,      \* the workflow's event channel, the events the model needs
    queue,     \* compensation_requests: calls whose rejection was published
    charged,   \* money each call moved at a mock merchant
    payout,    \* the RazorpayX payout each call created
    reversed   \* calls whose payout was paid back by a second payout

storeVars == <<used, pg, redis, steps, rows, feed, queue, charged, payout, reversed>>

Step == [req: Req, kind: {"payment", "payout_resolution"},
         status: {"settled", "failed", "pending"}]
Event == [event: {"escalation", "payout_resolved", "exhausted", "aegis_disabled"},
          req: Req]
RowStatus == {"none", "pending", "resolved_settled", "resolved_failed", "exhausted"}
\* checks_done is only ever compared with MaxChecks: it saturates one above.
CheckCap == MaxChecks + 1
Row == [status: RowStatus, checks: 0 .. CheckCap, linked: BOOLEAN]
NoRow == [status |-> "none", checks |-> 0, linked |-> FALSE]

StoreTypeOK ==
    /\ used \in Int
    /\ pg \in [Keys -> Req \cup {None}]
    /\ redis \in [Keys -> Req \cup {None}]
    /\ steps \in Seq(Step)
    /\ rows \in [Req -> Row]
    /\ feed \in Seq(Event)
    /\ queue \subseteq Req
    /\ charged \in [Req -> Nat]
    /\ payout \in [Req -> {"none", "nonterminal", "processed", "failed"}]
    /\ reversed \subseteq Req

\* create_workflow: a fresh row; nothing has happened yet.
StoreInit ==
    /\ used = 0
    /\ pg = [k \in Keys |-> None] /\ redis = [k \in Keys |-> None]
    /\ steps = <<>> /\ rows = [r \in Req |-> NoRow]
    /\ feed = <<>> /\ queue = {}
    /\ charged = [r \in Req |-> 0] /\ payout = [r \in Req |-> "none"]
    /\ reversed = {}

-----------------------------------------------------------------------------
(* db/client.py *)

\* Bugs the runs must catch: the amount to reserve is left out of the check, or
\* is allowed to overshoot; a commit keeps the difference between what was expected
\* and what was paid; the open payouts are read without their status.
ReserveFitsAlready(a) == used <= Limit
ReserveFitsOneOver(a) == used + a <= Limit + 1
CommitNothing(expected, actual) == UNCHANGED used
EveryRow == {r \in Req : rows[r].status # "none"}

\* UPDATE ... WHERE budget_used + $1 <= budget_limit: check and update in one.
ReserveFits(a) == used + a <= Limit
ReserveBudget(a) == ReserveFits(a) /\ used' = used + a
RollbackBudget(a) == used' = used - a
CommitBudget(expected, actual) == used' = used + (actual - expected)

\* INSERT ... ON CONFLICT DO NOTHING: the first response wins.
SaveIdempotencyResponse(k, r) ==
    pg' = IF pg[k] = None THEN [pg EXCEPT ![k] = r] ELSE pg

WriteTransactionStep(r, kind, status) ==
    steps' = Append(steps, [req |-> r, kind |-> kind, status |-> status])

CreatePendingPayout(r) ==
    rows' = [rows EXCEPT ![r] = [status |-> "pending", checks |-> 0, linked |-> FALSE]]
SetPendingPayoutStepId(r) == rows' = [rows EXCEPT ![r].linked = TRUE]
OpenRows == {r \in Req : rows[r].status = "pending"}

Bump(n) == IF n < CheckCap THEN n + 1 ELSE n
TouchPendingPayout(r) == rows' = [rows EXCEPT ![r].checks = Bump(rows[r].checks)]
ResolvePendingPayout(r, status) ==
    rows' = [rows EXCEPT ![r] = [status |-> status, checks |-> Bump(rows[r].checks),
                                 linked |-> rows[r].linked]]

\* reset_workflow(): the workflow's own row and ledger (its checkpoints belong
\* to the saga), then create_workflow() again.
ResetWorkflow == used' = 0 /\ steps' = <<>>

-----------------------------------------------------------------------------
(* Redis: the idempotency cache (SETEX overwrites) and the event channel.  *)

SetexIdem(k, r) == redis' = [redis EXCEPT ![k] = r]
PublishEvent(e, r) == feed' = Append(feed, [event |-> e, req |-> r])

\* The cache entry is gone after its TTL, or is evicted earlier.
RedisExpire(k) ==
    /\ "expiry" \in Env
    /\ redis[k] # None
    /\ redis' = [redis EXCEPT ![k] = None]
    /\ UNCHANGED <<used, pg, steps, rows, feed, queue, charged, payout, reversed>>

\* RazorpayX decides a payout in its own time, once.
GatewayDecides(r) ==
    /\ payout[r] = "nonterminal"
    /\ \E s \in {"processed", "failed"} : payout' = [payout EXCEPT ![r] = s]
    /\ UNCHANGED <<used, pg, redis, steps, rows, feed, queue, charged, reversed>>

===============================================================================
