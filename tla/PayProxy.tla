------------------------------ MODULE PayProxy -------------------------------
(***************************************************************************)
(* The POST /pay handler of proxy/mcp_proxy.py.  Each call runs as its own  *)
(* coroutine; it gives way at every await, so each awaited call is one     *)
(* action and calls interleave between them.  The label pc[r] names the    *)
(* next thing call r does.  The handler's rate limit is left out (it keeps *)
(* no state this module reads), and the verdict of authorize() is a free   *)
(* choice: module WalletAuth models how it is reached.                     *)
(***************************************************************************)
EXTENDS AegisStore

VARIABLES
    pc,       \* where each call is
    outcome,  \* actual_status: what the handler concluded about the payment
    actual,   \* actual_amount
    served,   \* a finished call's 200 response: the call that produced it
    stopped,  \* calls whose handler died before it finished
    aegis     \* _aegis_enabled

payVars == <<pc, outcome, actual, served, stopped, aegis>>

\* The handler holds a reservation of its own in these labels ...
Reserved == {"forward", "poll", "row", "escalate", "fulfil", "reverse", "budget"}
\* ... and has dealt with it one way or another in these.
Recorded == {"step", "link", "save", "cache", "done"}
Rejecting == {"reject_step", "reject_publish", "reject_notice"}
Finished == {"done", "replayed", "blocked", "rejected", "no_merchant"}
PayLabels == {"start", "check_pg", "refill", "authorize", "reserve"}
             \cup Reserved \cup Recorded \cup Rejecting \cup Finished

PayTypeOK ==
    /\ pc \in [Req -> PayLabels]
    /\ outcome \in [Req -> {"none", "settled", "failed", "pending"}]
    /\ actual \in [Req -> Nat]
    /\ served \in [Req -> Req \cup {None}]
    /\ stopped \subseteq Req
    /\ aegis \in BOOLEAN

PayInit ==
    /\ pc = [r \in Req |-> "start"] /\ outcome = [r \in Req |-> "none"]
    /\ actual = [r \in Req |-> 0] /\ served = [r \in Req |-> None]
    /\ stopped = {} /\ aegis = TRUE

At(r, label) == pc[r] = label /\ r \notin stopped
Goto(r, label) == pc' = [pc EXCEPT ![r] = label]
\* The handler has fixed status and amount, and goes on at label.
Conclude(r, status, amount, label) ==
    /\ outcome' = [outcome EXCEPT ![r] = status]
    /\ actual' = [actual EXCEPT ![r] = amount]
    /\ Goto(r, label)
\* A step that reads or writes nothing but the control state.
KeepStore == UNCHANGED storeVars
KeepConclusion == UNCHANGED <<outcome, actual, served, stopped, aegis>>

InFlight(r) == pc[r] \notin Finished \cup {"start"} /\ r \notin stopped
SameKey(r) == {q \in Req : Key[q] = Key[r]}

-----------------------------------------------------------------------------
(* Idempotency, authorization, reservation *)

\* Redis fast path.  Without "duplicates" a client repeats a key only after
\* its earlier call has been answered or has died.
Arrive(r) ==
    /\ At(r, "start")
    /\ "duplicates" \in Env \/ \A q \in SameKey(r) : ~InFlight(q)
    /\ \/ redis[Key[r]] # None /\ Goto(r, "replayed")
       \/ redis[Key[r]] = None /\ Goto(r, "check_pg")
    /\ served' = [served EXCEPT ![r] = redis[Key[r]]]
    /\ UNCHANGED <<outcome, actual, stopped, aegis>> /\ KeepStore

\* A bug to catch: the fallback to Postgres finds nothing.
CheckPostgresMisses(r) ==
    /\ At(r, "check_pg") /\ Goto(r, "authorize")
    /\ KeepConclusion /\ KeepStore

\* Postgres fallback ...
CheckPostgres(r) ==
    /\ At(r, "check_pg")
    /\ served' = [served EXCEPT ![r] = pg[Key[r]]]
    /\ \/ pg[Key[r]] # None /\ Goto(r, "refill")
       \/ pg[Key[r]] = None /\ Goto(r, "authorize")
    /\ UNCHANGED <<outcome, actual, stopped, aegis>> /\ KeepStore

\* ... a hit refills Redis, and is the answer.
RefillCache(r) ==
    /\ At(r, "refill")
    /\ SetexIdem(Key[r], served[r])
    /\ Goto(r, "replayed")
    /\ KeepConclusion
    /\ UNCHANGED <<used, pg, steps, rows, feed, queue, charged, payout, reversed>>

\* authorize(): ALLOW goes on, BLOCK answers 403 and caches nothing.
Authorize(r) ==
    /\ At(r, "authorize")
    /\ \E label \in {"reserve", "blocked"} : Goto(r, label)
    /\ KeepConclusion /\ KeepStore

\* A bug to catch: a rejected call skips its failed step.
ReserveSkipsStep(r) ==
    /\ At(r, "reserve")
    /\ \/ ReserveBudget(Amount[r]) /\ Goto(r, "forward")
       \/ ~ReserveFits(Amount[r]) /\ Goto(r, "reject_publish") /\ UNCHANGED used
    /\ KeepConclusion
    /\ UNCHANGED <<pg, redis, steps, rows, feed, queue, charged, payout, reversed>>

Reserve(r) ==
    /\ At(r, "reserve")
    /\ \/ ReserveBudget(Amount[r]) /\ Goto(r, "forward")
       \/ ~ReserveFits(Amount[r]) /\ Goto(r, "reject_step") /\ UNCHANGED used
    /\ KeepConclusion
    /\ UNCHANGED <<pg, redis, steps, rows, feed, queue, charged, payout, reversed>>

-----------------------------------------------------------------------------
(* Over the mandate: a failed step, a compensation request, a 403 that no
   idempotency entry remembers. *)

\* Bugs to catch: the step gets a status no reader of the ledger knows; the
\* request is published only while Aegis is off.
RejectStepBlocked(r) ==
    /\ At(r, "reject_step")
    /\ WriteTransactionStep(r, "payment", "blocked")
    /\ Goto(r, "reject_publish")
    /\ KeepConclusion
    /\ UNCHANGED <<used, pg, redis, rows, feed, queue, charged, payout, reversed>>
RejectPublishInverted(r) ==
    /\ At(r, "reject_publish")
    /\ queue' = IF aegis THEN queue ELSE queue \cup {r}
    /\ Goto(r, "reject_notice")
    /\ KeepConclusion
    /\ UNCHANGED <<used, pg, redis, steps, rows, feed, charged, payout, reversed>>

RejectStep(r) ==
    /\ At(r, "reject_step")
    /\ WriteTransactionStep(r, "payment", "failed")
    /\ Goto(r, "reject_publish")
    /\ KeepConclusion
    /\ UNCHANGED <<used, pg, redis, rows, feed, queue, charged, payout, reversed>>

\* The default exchange drops a message whose queue nobody has declared.
RejectPublish(r) ==
    /\ At(r, "reject_publish")
    /\ \/ aegis /\ queue' = queue \cup {r}
       \/ aegis /\ "unroutable" \in Env /\ UNCHANGED queue
       \/ ~aegis /\ UNCHANGED queue
    /\ Goto(r, "reject_notice")
    /\ KeepConclusion
    /\ UNCHANGED <<used, pg, redis, steps, rows, feed, charged, payout, reversed>>

\* _aegis_enabled is read a second time, after the publish was awaited.
RejectNotice(r) ==
    /\ At(r, "reject_notice")
    /\ \/ ~aegis /\ PublishEvent("aegis_disabled", r)
       \/ aegis /\ UNCHANGED feed
    /\ Goto(r, "rejected")
    /\ KeepConclusion
    /\ UNCHANGED <<used, pg, redis, steps, rows, queue, charged, payout, reversed>>

-----------------------------------------------------------------------------
(* Forwarding to the merchant *)

\* A merchant_id with no URL: release and answer 404, uncached.
NoMerchant(r) ==
    /\ At(r, "forward") /\ Kind[r] = "unknown"
    /\ RollbackBudget(Amount[r])
    /\ Goto(r, "no_merchant")
    /\ KeepConclusion
    /\ UNCHANGED <<pg, redis, steps, rows, feed, queue, charged, payout, reversed>>

\* POST /charge: settled for what the merchant reports, or an error answer or
\* timeout; with "lost_reply" the merchant charged before the call failed.
Charge(r) ==
    /\ At(r, "forward") /\ Kind[r] = "mock"
    /\ \/ \E c \in Charged[r] :
            /\ Conclude(r, "settled", c, "budget")
            /\ charged' = [charged EXCEPT ![r] = c]
       \/ /\ Conclude(r, "failed", Amount[r], "budget")
          /\ UNCHANGED charged
       \/ /\ "lost_reply" \in Env
          /\ Conclude(r, "failed", Amount[r], "budget")
          /\ \E c \in Charged[r] : charged' = [charged EXCEPT ![r] = c]
    /\ UNCHANGED <<served, stopped, aegis>>
    /\ UNCHANGED <<used, pg, redis, steps, rows, feed, queue, payout, reversed>>

\* POST /payouts.  A refusal raises and is concluded as failed; with
\* "lost_reply" the payout exists although the call raised.
CreatePayout(r) ==
    /\ At(r, "forward") /\ Kind[r] \in RzpKinds
    /\ \/ /\ payout' = [payout EXCEPT ![r] = "nonterminal"]
          /\ Goto(r, "poll") /\ UNCHANGED <<outcome, actual>>
       \/ /\ Conclude(r, "failed", Amount[r], "budget")
          /\ UNCHANGED payout
       \/ /\ "lost_reply" \in Env
          /\ Conclude(r, "failed", Amount[r], "budget")
          /\ payout' = [payout EXCEPT ![r] = "nonterminal"]
    /\ UNCHANGED <<served, stopped, aegis>>
    /\ UNCHANGED <<used, pg, redis, steps, rows, feed, queue, charged, reversed>>

\* poll_payout(): only the last GET counts, so one read stands for the loop.  The
\* amount is what the payout says, in whole paise.
\* merchant_rzp_pending is called pending whatever the snapshot says.
PollPayout(r) ==
    /\ At(r, "poll")
    /\ \/ /\ payout[r] = "nonterminal" \/ Kind[r] = "rzp_pending"
          /\ Conclude(r, "pending", Sent[r], "row")
       \/ /\ payout[r] = "processed" /\ Kind[r] # "rzp_pending"
          /\ Conclude(r, "settled", Sent[r], "fulfil")
       \/ /\ payout[r] = "failed" /\ Kind[r] # "rzp_pending"
          /\ Conclude(r, "failed", Sent[r], "budget")
    /\ UNCHANGED <<served, stopped, aegis>> /\ KeepStore

CreateRow(r) ==
    /\ At(r, "row")
    /\ CreatePendingPayout(r)
    /\ Goto(r, "escalate")
    /\ KeepConclusion
    /\ UNCHANGED <<used, pg, redis, steps, feed, queue, charged, payout, reversed>>

Escalate(r) ==
    /\ At(r, "escalate")
    /\ PublishEvent("escalation", r)
    /\ Goto(r, "budget")
    /\ KeepConclusion
    /\ UNCHANGED <<used, pg, redis, steps, rows, queue, charged, payout, reversed>>

\* confirm_fulfillment() is a local answer: no await separates it from the
\* reading of _aegis_enabled.
Fulfil(r) ==
    /\ At(r, "fulfil")
    /\ \/ Kind[r] # "rzp_downstream" /\ Goto(r, "budget") /\ UNCHANGED feed
       \/ /\ Kind[r] = "rzp_downstream"
          /\ \/ aegis /\ Goto(r, "reverse") /\ UNCHANGED feed
             \/ ~aegis /\ Goto(r, "budget") /\ PublishEvent("aegis_disabled", r)
    /\ KeepConclusion
    /\ UNCHANGED <<used, pg, redis, steps, rows, queue, charged, payout, reversed>>

\* The second payout, back to oneself; a failure (or no fund account to pay
\* to) is published as compensation_error and otherwise ignored.
ReversePayout(r) ==
    /\ At(r, "reverse")
    /\ reversed' \in {reversed, reversed \cup {r}}
    /\ Goto(r, "budget")
    /\ KeepConclusion
    /\ UNCHANGED <<used, pg, redis, steps, rows, feed, queue, charged, payout>>

\* Any exception in the RazorpayX branch lands in one except clause: status
\* 502, concluded as failed, whatever the branch had already done.
RzpException(r) ==
    /\ "rzp_error" \in Env
    /\ pc[r] \in {"poll", "row", "escalate", "fulfil"} /\ r \notin stopped
    /\ Conclude(r, "failed", Amount[r], "budget")
    /\ UNCHANGED <<served, stopped, aegis>> /\ KeepStore

-----------------------------------------------------------------------------
(* Settling the reservation, writing the ledger, answering *)

\* Bugs to catch: a pending payout is released like a failed one; the response
\* is cached but never saved.
SettleReleasesPending(r) ==
    /\ At(r, "budget")
    /\ \/ outcome[r] = "settled" /\ CommitBudget(Amount[r], actual[r])
       \/ outcome[r] \in {"pending", "failed"} /\ RollbackBudget(Amount[r])
    /\ Goto(r, "step")
    /\ KeepConclusion
    /\ UNCHANGED <<pg, redis, steps, rows, feed, queue, charged, payout, reversed>>
SaveNothing(r) ==
    /\ At(r, "save") /\ Goto(r, "cache")
    /\ KeepConclusion /\ KeepStore

SettleBudget(r) ==
    /\ At(r, "budget")
    /\ \/ outcome[r] = "settled" /\ CommitBudget(Amount[r], actual[r])
       \/ outcome[r] = "pending" /\ UNCHANGED used
       \/ outcome[r] = "failed" /\ RollbackBudget(Amount[r])
    /\ Goto(r, "step")
    /\ KeepConclusion
    /\ UNCHANGED <<pg, redis, steps, rows, feed, queue, charged, payout, reversed>>

WriteStep(r) ==
    /\ At(r, "step")
    /\ WriteTransactionStep(r, "payment", outcome[r])
    /\ Goto(r, IF rows[r].status = "none" THEN "save" ELSE "link")
    /\ KeepConclusion
    /\ UNCHANGED <<used, pg, redis, rows, feed, queue, charged, payout, reversed>>

LinkRow(r) ==
    /\ At(r, "link")
    /\ SetPendingPayoutStepId(r)
    /\ Goto(r, "save")
    /\ KeepConclusion
    /\ UNCHANGED <<used, pg, redis, steps, feed, queue, charged, payout, reversed>>

SaveResponse(r) ==
    /\ At(r, "save")
    /\ SaveIdempotencyResponse(Key[r], r)
    /\ Goto(r, "cache")
    /\ KeepConclusion
    /\ UNCHANGED <<used, redis, steps, rows, feed, queue, charged, payout, reversed>>

CacheResponse(r) ==
    /\ At(r, "cache")
    /\ SetexIdem(Key[r], r)
    /\ served' = [served EXCEPT ![r] = r]
    /\ Goto(r, "done")
    /\ UNCHANGED <<outcome, actual, stopped, aegis>>
    /\ UNCHANGED <<used, pg, steps, rows, feed, queue, charged, payout, reversed>>

-----------------------------------------------------------------------------
(* Around the handler *)

SetAegisMode ==
    /\ "toggle" \in Env
    /\ aegis' = ~aegis
    /\ UNCHANGED <<pc, outcome, actual, served, stopped>> /\ KeepStore

\* An exception no clause catches: FastAPI answers 500, nothing is undone.
HandlerFails(r) ==
    /\ "handler_error" \in Env
    /\ InFlight(r)
    /\ stopped' = stopped \cup {r}
    /\ UNCHANGED <<pc, outcome, actual, served, aegis>> /\ KeepStore

\* The process dies with every call in it; the mode flag is process memory.
ProxyRestart ==
    /\ "restart" \in Env
    /\ \E r \in Req : InFlight(r)
    /\ stopped' = stopped \cup {r \in Req : InFlight(r)}
    /\ aegis' = TRUE
    /\ UNCHANGED <<pc, outcome, actual, served>> /\ KeepStore

\* What the coroutine of call r does when it is scheduled.
Handle(r) ==
    \/ Arrive(r) \/ CheckPostgres(r) \/ RefillCache(r) \/ Authorize(r) \/ Reserve(r)
    \/ RejectStep(r) \/ RejectPublish(r) \/ RejectNotice(r)
    \/ NoMerchant(r) \/ Charge(r) \/ CreatePayout(r) \/ PollPayout(r)
    \/ CreateRow(r) \/ Escalate(r) \/ Fulfil(r) \/ ReversePayout(r)
    \/ RzpException(r)
    \/ SettleBudget(r) \/ WriteStep(r) \/ LinkRow(r) \/ SaveResponse(r)
    \/ CacheResponse(r)

PayNext ==
    \/ \E r \in Req : Handle(r) \/ HandlerFails(r)
    \/ SetAegisMode \/ ProxyRestart

===============================================================================
