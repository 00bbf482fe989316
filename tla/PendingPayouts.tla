--------------------------- MODULE PendingPayouts ----------------------------
(***************************************************************************)
(* compensating_agent/pending_payout_worker.py: one process that rechecks  *)
(* the payouts /pay could not classify.  run_once() reads the open rows and*)
(* handles them one after another; each database call of _recheck_one() is *)
(* one action, so the process can fail between any two of them, and /pay   *)
(* can run between them too.                                               *)
(***************************************************************************)
EXTENDS AegisStore

VARIABLES
    wpc,   \* where the worker is
    todo,  \* rows run_once() fetched and has not handled yet
    cur    \* the row _recheck_one() is at

workerVars == <<wpc, todo, cur>>

WorkerLabels == {"cycle", "settle", "release", "resolve_failed", "touch",
                 "exhaust", "resolution_step", "announce", "announce_exhausted"}

WorkerTypeOK ==
    /\ wpc \in WorkerLabels
    /\ todo \subseteq Req
    /\ cur \in Req \cup {None}

WorkerInit == wpc = "cycle" /\ todo = {} /\ cur = None

\* The budget was given back for r, and the row does not say so yet.
Releasing(r) == cur = r /\ wpc = "resolve_failed"

\* Back to run_once()'s loop.
NextRow == wpc' = "cycle" /\ cur' = None /\ UNCHANGED todo

\* SELECT ... WHERE status = 'pending' at the start of a cycle.
FetchOpen ==
    /\ wpc = "cycle" /\ todo = {} /\ OpenRows # {}
    /\ todo' = OpenRows
    /\ UNCHANGED <<wpc, cur>> /\ UNCHANGED storeVars

\* A bug to catch: whatever is not processed counts as failed.
RecheckFailsEarly(r) ==
    /\ wpc = "cycle" /\ r \in todo
    /\ cur' = r /\ todo' = todo \ {r}
    /\ wpc' = IF payout[r] = "processed" THEN "settle" ELSE "release"
    /\ UNCHANGED storeVars

\* poll_payout(payout_id, max_attempts=0): a single read of the payout.
Recheck(r) ==
    /\ wpc = "cycle" /\ r \in todo
    /\ cur' = r /\ todo' = todo \ {r}
    /\ \/ payout[r] = "processed" /\ wpc' = "settle"
       \/ payout[r] = "failed" /\ wpc' = "release"
       \/ payout[r] \notin {"processed", "failed"} /\ wpc' = "touch"
    /\ UNCHANGED storeVars

\* processed: commit_budget() with equal amounts returns before any SQL.
ResolveSettled ==
    /\ wpc = "settle"
    /\ ResolvePendingPayout(cur, "resolved_settled")
    /\ wpc' = "resolution_step"
    /\ UNCHANGED <<todo, cur>>
    /\ UNCHANGED <<used, pg, redis, steps, feed, queue, charged, payout, reversed>>

\* failed: the hold is released first, the row closed after it.
ReleaseHold ==
    /\ wpc = "release"
    /\ RollbackBudget(Amount[cur])
    /\ wpc' = "resolve_failed"
    /\ UNCHANGED <<todo, cur>>
    /\ UNCHANGED <<pg, redis, steps, rows, feed, queue, charged, payout, reversed>>

\* Bugs to catch: the row stays open after its hold was released; the worker
\* counts the checks and never gives up.
ResolveFailedTouches ==
    /\ wpc = "resolve_failed"
    /\ TouchPendingPayout(cur)
    /\ NextRow
    /\ UNCHANGED <<used, pg, redis, steps, feed, queue, charged, payout, reversed>>
TouchForever ==
    /\ wpc = "touch"
    /\ TouchPendingPayout(cur)
    /\ NextRow
    /\ UNCHANGED <<used, pg, redis, steps, feed, queue, charged, payout, reversed>>

ResolveFailed ==
    /\ wpc = "resolve_failed"
    /\ ResolvePendingPayout(cur, "resolved_failed")
    /\ wpc' = "resolution_step"
    /\ UNCHANGED <<todo, cur>>
    /\ UNCHANGED <<used, pg, redis, steps, feed, queue, charged, payout, reversed>>

WriteResolutionStep ==
    /\ wpc = "resolution_step"
    /\ WriteTransactionStep(cur, "payout_resolution",
           IF rows[cur].status = "resolved_settled" THEN "settled" ELSE "failed")
    /\ wpc' = "announce"
    /\ UNCHANGED <<todo, cur>>
    /\ UNCHANGED <<used, pg, redis, rows, feed, queue, charged, payout, reversed>>

Announce ==
    /\ wpc = "announce"
    /\ PublishEvent("payout_resolved", cur)
    /\ NextRow
    /\ UNCHANGED <<used, pg, redis, steps, rows, queue, charged, payout, reversed>>

\* still queued or processing: count the check; the last one gives up.
Touch ==
    /\ wpc = "touch"
    /\ TouchPendingPayout(cur)
    /\ \/ rows'[cur].checks >= MaxChecks /\ wpc' = "exhaust" /\ UNCHANGED <<todo, cur>>
       \/ rows'[cur].checks < MaxChecks /\ NextRow
    /\ UNCHANGED <<used, pg, redis, steps, feed, queue, charged, payout, reversed>>

Exhaust ==
    /\ wpc = "exhaust"
    /\ ResolvePendingPayout(cur, "exhausted")
    /\ wpc' = "announce_exhausted"
    /\ UNCHANGED <<todo, cur>>
    /\ UNCHANGED <<used, pg, redis, steps, feed, queue, charged, payout, reversed>>

AnnounceExhausted ==
    /\ wpc = "announce_exhausted"
    /\ PublishEvent("exhausted", cur)
    /\ NextRow
    /\ UNCHANGED <<used, pg, redis, steps, rows, queue, charged, payout, reversed>>

\* Bound: rechecks are not made to fail once they have released this much more
\* than was held (each failure after ReleaseHold lets it happen again).
FailFloor == -(Limit + 1)

\* run_once() logs whatever _recheck_one() raised and goes to the next row; a
\* killed process starts a new cycle.
RecheckFails ==
    /\ "worker_error" \in Env
    /\ cur # None
    /\ used >= FailFloor
    /\ wpc' = "cycle" /\ cur' = None
    /\ todo' \in {todo, {}}
    /\ UNCHANGED storeVars

WorkerStep ==
    \/ FetchOpen \/ \E r \in Req : Recheck(r)
    \/ ResolveSettled \/ ReleaseHold \/ ResolveFailed \/ WriteResolutionStep
    \/ Announce \/ Touch \/ Exhaust \/ AnnounceExhausted

WorkerNext == WorkerStep \/ RecheckFails

===============================================================================
