---------------------------- MODULE LedgerProofs -----------------------------
(***************************************************************************)
(* What transaction_steps, the idempotency stores and the queue say of a   *)
(* call: proofs that the ledger resolves a payout once, names every failed *)
(* payment before its compensation is requested and explains the budget,   *)
(* and that a key moves money at most once and has one answer.             *)
(***************************************************************************)
EXTENDS AccountingProofs, Dashboard

\* An INSERT into transaction_steps adds one step, of one call.
LEMMA LedgerGrows ==
    ASSUME steps \in Seq(Step), NEW r \in Req, NEW k, NEW s, WriteTransactionStep(r, k, s)
    PROVE  /\ StepsOf(r, k)' = StepsOf(r, k) \cup {Len(steps) + 1}
           /\ \A q \in Req : \A l : q # r \/ l # k => StepsOf(q, l)' = StepsOf(q, l)
           /\ \A q \in Req : \A l, t : HasStep(q, l, t)' <=>
                  HasStep(q, l, t) \/ (q = r /\ l = k /\ t = s)
<1> DEFINE n == Len(steps) + 1
           new == [req |-> r, kind |-> k, status |-> s]
<1>1. /\ DOMAIN steps' = DOMAIN steps \cup {n} /\ n \notin DOMAIN steps
      /\ steps'[n] = new /\ \A i \in DOMAIN steps : steps'[i] = steps[i]
  <2>1. steps' = Append(steps, new) /\ DOMAIN steps = 1 .. Len(steps) /\ Len(steps) \in Nat
    BY DEF WriteTransactionStep
  <2>2. Len(steps') = n /\ DOMAIN steps' = 1 .. n
    BY <2>1
  <2>3. steps'[n] = new /\ \A i \in 1 .. Len(steps) : steps'[i] = steps[i]
    BY <2>1
  <2> QED BY <2>1, <2>2, <2>3
<1> HIDE DEF n
<1>2. /\ StepsOf(r, k)' = StepsOf(r, k) \cup {n}
      /\ \A q \in Req : \A l : q # r \/ l # k => StepsOf(q, l)' = StepsOf(q, l)
  BY <1>1 DEF StepsOf
<1>3. \A q \in Req : \A l, t : HasStep(q, l, t)' <=>
          HasStep(q, l, t) \/ (q = r /\ l = k /\ t = s)
  BY <1>1, <1>2 DEF HasStep, StepsOf
<1> QED BY <1>2, <1>3 DEF n

LEMMA LedgerSame ==
    ASSUME steps' = steps
    PROVE  /\ \A q, l : StepsOf(q, l)' = StepsOf(q, l)
           /\ \A q, l, t : HasStep(q, l, t)' <=> HasStep(q, l, t)
BY DEF StepsOf, HasStep

\* Who writes to the ledger.
LEMMA LedgerWriters ==
    ASSUME TypeOK, [Next]_vars, steps' # steps
    PROVE  \/ \E r \in Req : (RejectStep(r) \/ WriteStep(r)) /\ UNCHANGED workerVars
           \/ WriteResolutionStep /\ UNCHANGED payVars
           \/ ReuseWorkflow /\ UNCHANGED <<payVars, workerVars>>
<1>1. ASSUME NEW r \in Req, Handle(r) PROVE RejectStep(r) \/ WriteStep(r)
  BY <1>1 DEF Handle, Arrive, CheckPostgres, RefillCache,
     Authorize, Reserve, RejectPublish, RejectNotice,
     NoMerchant, Charge, CreatePayout, PollPayout, CreateRow, Escalate, Fulfil, ReversePayout,
     RzpException, SettleBudget, LinkRow, SaveResponse, CacheResponse, KeepStore, storeVars
<1>2. ASSUME NEW r \in Req, HandlerFails(r) PROVE FALSE
  BY <1>2 DEF HandlerFails, KeepStore, storeVars
<1>3. ~(SetAegisMode \/ ProxyRestart \/ UNCHANGED vars)
  BY DEF SetAegisMode, ProxyRestart, KeepStore, storeVars, vars
<1>4. WorkerNext => WriteResolutionStep
  BY DEF WorkerNext, WorkerStep, FetchOpen, Recheck, ResolveSettled, ReleaseHold, ResolveFailed,
     Announce, Touch, Exhaust, AnnounceExhausted, RecheckFails, storeVars
<1>5. World => ReuseWorkflow
  BY DEF World, GatewayDecides, RedisExpire
<1> QED BY <1>1, <1>2, <1>3, <1>4, <1>5 DEF Next, PayNext

-----------------------------------------------------------------------------
(* A payout is resolved once *)

\* A closed row stays as it is closed, and the worker does not come back to it.
LEMMA ClosedRowStays ==
    ASSUME ControlAgrees, [Next]_vars, NEW r \in Req,
           rows[r].status \in {"resolved_settled", "resolved_failed"}
    PROVE  /\ rows'[r].status = rows[r].status
           /\ (cur' = r /\ wpc' = "resolution_step") => (cur = r /\ wpc = "resolution_step")
<1>1. TypeOK /\ RowsAfterCreate /\ WorkerMatchesRows
  BY DEF ControlAgrees
<1>2. ASSUME NEW q \in Req, Handle(q) PROVE rows'[r].status = rows[r].status
  BY <1>1, <1>2, HandleFrame, HandleRows
<1>3. ASSUME NEW q \in Req, HandlerFails(q) PROVE rows' = rows
  BY <1>3 DEF HandlerFails, KeepStore, storeVars
<1>4. SetAegisMode \/ ProxyRestart \/ UNCHANGED vars => rows' = rows
  BY DEF SetAegisMode, ProxyRestart, KeepStore, storeVars, vars
<1>5. WorkerNext => rows'[r] = rows[r]
  BY <1>1, WorkerRows
<1>6. World => rows' = rows
  BY DEF World, GatewayDecides, RedisExpire, ReuseWorkflow
<1>7. WorkerNext =>
          ((cur' = r /\ wpc' = "resolution_step") => (cur = r /\ wpc = "resolution_step"))
  BY <1>1 DEF WorkerNext, WorkerStep, FetchOpen, Recheck, ResolveSettled, ReleaseHold,
     ResolveFailed, WriteResolutionStep, Announce, Touch, Exhaust, AnnounceExhausted,
     RecheckFails, NextRow, WorkerMatchesRows
<1>8. ~WorkerNext => UNCHANGED workerVars
  BY DEF Next, vars
<1> QED BY <1>2, <1>3, <1>4, <1>5, <1>6, <1>7, <1>8 DEF Next, PayNext, workerVars

LEMMA ResolutionsNext ==
    ASSUME ControlAgrees, ResolutionsFollowRows, ResolvedOnce, [Next]_vars
    PROVE  ResolutionsFollowRows' /\ ResolvedOnce'
<1>1. TypeOK /\ WorkerMatchesRows /\ steps \in Seq(Step)
  BY DEF ControlAgrees, TypeOK, StoreTypeOK
<1> SUFFICES ASSUME NEW r \in Req
             PROVE  /\ StepsOf(r, "payout_resolution")' # {} =>
                          /\ rows'[r].status \in {"resolved_settled", "resolved_failed"}
                          /\ ~(cur' = r /\ wpc' = "resolution_step")
                    /\ Cardinality(StepsOf(r, "payout_resolution")') <= 1
  BY DEF ResolutionsFollowRows, ResolvedOnce
<1>2. CASE StepsOf(r, "payout_resolution")' = StepsOf(r, "payout_resolution")
  BY <1>2, ClosedRowStays DEF ResolutionsFollowRows, ResolvedOnce
<1>3. CASE StepsOf(r, "payout_resolution")' # StepsOf(r, "payout_resolution")
  <2>1. steps' # steps
    BY <1>3, LedgerSame
  <2>2. ASSUME NEW q \in Req, RejectStep(q) \/ WriteStep(q) PROVE FALSE
    <3>1. PICK s : WriteTransactionStep(q, "payment", s)
      BY <2>2 DEF RejectStep, WriteStep
    <3> QED BY <1>1, <1>3, <3>1, LedgerGrows
  <2>3. CASE WriteResolutionStep /\ UNCHANGED payVars
    <3>1. cur \in Req /\ rows[cur].status \in {"resolved_settled", "resolved_failed"}
          /\ wpc = "resolution_step" /\ wpc' = "announce" /\ rows' = rows
      BY <1>1, <2>3 DEF WriteResolutionStep, WorkerMatchesRows
    <3>2. PICK s : WriteTransactionStep(cur, "payout_resolution", s)
      BY <2>3 DEF WriteResolutionStep
    <3>3. /\ r = cur
          /\ StepsOf(r, "payout_resolution")' =
                StepsOf(r, "payout_resolution") \cup {Len(steps) + 1}
      BY <1>1, <1>3, <3>1, <3>2, LedgerGrows
    <3>4. StepsOf(r, "payout_resolution") = {}
      BY <3>1, <3>3 DEF ResolutionsFollowRows
    <3>5. Cardinality(StepsOf(r, "payout_resolution")') = 1
      <4>1. StepsOf(r, "payout_resolution")' = {Len(steps) + 1}
        BY <3>3, <3>4
      <4> QED BY <4>1, FS_Singleton
    <3> QED BY <3>1, <3>3, <3>5
  <2>4. CASE ReuseWorkflow
    <3>1. StepsOf(r, "payout_resolution")' = {}
      BY <2>4 DEF ReuseWorkflow, ResetWorkflow, StepsOf
    <3> QED BY <3>1, FS_EmptySet
  <2> QED BY <1>1, <2>1, <2>2, <2>3, <2>4, LedgerWriters
<1> QED BY <1>2, <1>3

\* The ledger never resolves a payout twice, or both ways, whatever goes wrong:
\* not when the worker dies between closing the row and writing the step, and
\* not when the same row is fetched in several cycles.
THEOREM PayoutResolvedOnce == Spec => []ResolvedOnce
<1> DEFINE Inv == ControlAgrees /\ ResolutionsFollowRows /\ ResolvedOnce
<1>1. Init => Inv
  <2>1. Init => \A r \in Req : StepsOf(r, "payout_resolution") = {}
    BY DEF Init, StoreInit, StepsOf
  <2> QED BY <2>1, ControlInit, FS_EmptySet DEF ResolutionsFollowRows, ResolvedOnce
<1>2. Inv /\ [Next]_vars => Inv'
  BY ControlNext, ResolutionsNext
<1> QED BY <1>1, <1>2, PTL DEF Spec

-----------------------------------------------------------------------------
(* A compensation request names a failed step *)

\* Handlers queue a request only when they publish, and arrive there from the
\* failed step.
LEMMA RejectionHandle ==
    ASSUME TypeOK, RejectedHasStep, RequestedAfterStep, NEW r \in Req, Handle(r)
    PROVE  RejectedHasStep' /\ RequestedAfterStep'
<1>1. pc \in [Req -> PayLabels] /\ steps \in Seq(Step) /\ queue \subseteq Req
  BY DEF TypeOK, StoreTypeOK, PayTypeOK
<1>2. \A q \in Req : HasStep(q, "payment", "failed") => HasStep(q, "payment", "failed")'
  <2>1. CASE steps' = steps
    BY <2>1, LedgerSame
  <2>2. ASSUME NEW s, WriteTransactionStep(r, "payment", s)
        PROVE  \A q \in Req : HasStep(q, "payment", "failed") => HasStep(q, "payment", "failed")'
    BY <1>1, <2>2, LedgerGrows
  <2>3. CASE steps' # steps
    <3>1. RejectStep(r) \/ WriteStep(r)
      BY <2>3 DEF Handle, Arrive, CheckPostgres, RefillCache,
         Authorize, Reserve, RejectPublish, RejectNotice,
         NoMerchant, Charge, CreatePayout, PollPayout, CreateRow, Escalate, Fulfil, ReversePayout,
         RzpException, SettleBudget, LinkRow, SaveResponse, CacheResponse, KeepStore, storeVars
    <3> QED BY <2>2, <3>1 DEF RejectStep, WriteStep
  <2> QED BY <2>1, <2>3
<1>3. CASE RejectStep(r)
  <2>1. HasStep(r, "payment", "failed")' /\ queue' = queue
    BY <1>1, <1>3, LedgerGrows DEF RejectStep
  <2>2. \A q \in Req \ {r} : pc'[q] = pc[q]
    BY <1>1, <1>3 DEF RejectStep, Goto
  <2> QED BY <1>1, <1>2, <2>1, <2>2 DEF RejectedHasStep, RequestedAfterStep
<1>4. CASE RejectPublish(r)
  <2>1. queue' \subseteq queue \cup {r} /\ HasStep(r, "payment", "failed")
    BY <1>4 DEF RejectPublish, At, RejectedHasStep
  <2>2. \A q \in Req : pc'[q] = "reject_publish" => pc[q] = "reject_publish"
    BY <1>1, <1>4 DEF RejectPublish, Goto, At
  <2> QED BY <1>1, <1>2, <2>1, <2>2 DEF RejectedHasStep, RequestedAfterStep
<1>5. CASE ~RejectStep(r) /\ ~RejectPublish(r)
  <2>1. queue' = queue
    BY <1>5 DEF Handle, Arrive, CheckPostgres, RefillCache, Authorize, Reserve, RejectNotice,
       NoMerchant, Charge, CreatePayout, PollPayout, CreateRow, Escalate, Fulfil, ReversePayout,
       RzpException, SettleBudget, WriteStep, LinkRow, SaveResponse, CacheResponse, KeepStore,
       storeVars
  <2>2. \A q \in Req : pc'[q] = "reject_publish" => pc[q] = "reject_publish"
    BY <1>1, <1>5 DEF Handle, Arrive, CheckPostgres, RefillCache, Authorize, Reserve, RejectNotice,
       NoMerchant, Charge, CreatePayout, PollPayout, CreateRow, Escalate, Fulfil, ReversePayout,
       RzpException, SettleBudget, WriteStep, LinkRow, SaveResponse, CacheResponse, Goto, Conclude
  <2> QED BY <1>1, <1>2, <2>1, <2>2 DEF RejectedHasStep, RequestedAfterStep
<1> QED BY <1>3, <1>4, <1>5

LEMMA RejectionNext ==
    ASSUME TypeOK, RejectedHasStep, RequestedAfterStep, "reuse" \notin Env, [Next]_vars
    PROVE  RejectedHasStep' /\ RequestedAfterStep'
<1> DEFINE Rest == RejectedHasStep' /\ RequestedAfterStep'
<1>1. ASSUME pc' = pc, queue' = queue,
             \A q \in Req : HasStep(q, "payment", "failed") => HasStep(q, "payment", "failed")'
      PROVE  Rest
  <2>1. queue \subseteq Req
    BY DEF TypeOK, StoreTypeOK
  <2> QED BY <1>1, <2>1 DEF RejectedHasStep, RequestedAfterStep
<1>2. ASSUME pc' = pc, queue' = queue, steps' = steps PROVE Rest
  BY <1>1, <1>2, LedgerSame
<1>3. ASSUME NEW r \in Req, HandlerFails(r) PROVE Rest
  BY <1>2, <1>3 DEF HandlerFails, KeepStore, storeVars
<1>4. ASSUME SetAegisMode \/ ProxyRestart \/ UNCHANGED vars PROVE Rest
  BY <1>2, <1>4 DEF SetAegisMode, ProxyRestart, KeepStore, storeVars, vars, payVars
<1>5. ASSUME WorkerNext, UNCHANGED payVars PROVE Rest
  <2>1. pc' = pc /\ queue' = queue
    BY <1>5 DEF payVars, WorkerNext, WorkerStep, FetchOpen, Recheck, ResolveSettled, ReleaseHold,
       ResolveFailed, WriteResolutionStep, Announce, Touch, Exhaust, AnnounceExhausted,
       RecheckFails, storeVars
  <2>2. CASE WriteResolutionStep
    <3>1. PICK s : WriteTransactionStep(cur, "payout_resolution", s)
      BY <2>2 DEF WriteResolutionStep
    <3>2. \A q \in Req : HasStep(q, "payment", "failed") => HasStep(q, "payment", "failed")'
      <4>1. steps \in Seq(Step)
        BY DEF TypeOK, StoreTypeOK
      <4>2. PICK n : n = [req |-> cur, kind |-> "payout_resolution", status |-> s]
        OBVIOUS
      <4>3. steps' = Append(steps, n)
        BY <3>1, <4>2 DEF WriteTransactionStep
      <4>4. DOMAIN steps \subseteq DOMAIN steps' /\ \A i \in DOMAIN steps : steps'[i] = steps[i]
        BY <4>1, <4>3
      <4> QED BY <4>4 DEF HasStep, StepsOf
    <3> QED BY <1>1, <2>1, <3>2
  <2>3. CASE ~WriteResolutionStep
    <3>1. steps' = steps
      BY <1>5, <2>3 DEF WorkerNext, WorkerStep, FetchOpen, Recheck, ResolveSettled, ReleaseHold,
         ResolveFailed, Announce, Touch, Exhaust, AnnounceExhausted, RecheckFails, storeVars
    <3> QED BY <1>2, <2>1, <3>1
  <2> QED BY <2>2, <2>3
<1>6. ASSUME World, UNCHANGED payVars PROVE Rest
  BY <1>2, <1>6 DEF World, GatewayDecides, RedisExpire, ReuseWorkflow, payVars
<1>7. ASSUME NEW r \in Req, Handle(r) PROVE Rest
  BY <1>7, RejectionHandle
<1> HIDE DEF Rest
<1>8. Rest
  BY <1>3, <1>4, <1>5, <1>6, <1>7 DEF Next, PayNext
<1> QED BY <1>8 DEF Rest

\* When a rejected payment's compensation is requested, its failed step is in
\* the ledger, whatever dies in between and however the mode is toggled: the
\* saga that reads the ledger can tell it from the steps it must undo.
THEOREM RequestFollowsStep ==
    ASSUME "reuse" \notin Env
    PROVE  Spec => []RequestedAfterStep
<1> DEFINE Inv == ControlAgrees /\ RejectedHasStep /\ RequestedAfterStep
<1>1. Init => Inv
  <2>1. Init => RejectedHasStep /\ RequestedAfterStep
    BY DEF Init, StoreInit, PayInit, RejectedHasStep, RequestedAfterStep
  <2> QED BY <2>1, ControlInit
<1>2. Inv /\ [Next]_vars => Inv'
  BY ControlNext, RejectionNext DEF ControlAgrees
<1> QED BY <1>1, <1>2, PTL DEF Spec

-----------------------------------------------------------------------------
(* The ledger explains the budget *)

\* What LedgerFollowsHandlers says of one call.
FollowsPayment(r) ==
    /\ \A s \in {"settled", "pending", "failed"} : HasStep(r, "payment", s) =>
           pc[r] \in Written \cup {"reject_publish", "reject_notice", "rejected"}
    /\ \A s \in {"settled", "pending"} : HasStep(r, "payment", s) => pc[r] \in Written
    /\ pc[r] \in Written => \A s \in {"settled", "pending", "failed"} :
           HasStep(r, "payment", s) <=> s = outcome[r]
FollowsRow(r) ==
    HasStep(r, "payout_resolution", "failed") <=>
        rows[r].status = "resolved_failed" /\ ~(cur = r /\ wpc = "resolution_step")

LEMMA FollowsBoth ==
    LedgerFollowsHandlers <=> \A r \in Req : FollowsPayment(r) /\ FollowsRow(r)
BY DEF LedgerFollowsHandlers, FollowsPayment, FollowsRow

\* How a handler that writes no step moves through the labels the ledger knows.
LEMMA HandleUnwritten ==
    ASSUME TypeOK, NoSlips, NEW r \in Req, Handle(r), ~RejectStep(r), ~WriteStep(r)
    PROVE  /\ steps' = steps
           /\ pc[r] \in Written <=> pc'[r] \in Written
           /\ pc[r] \in Written => outcome'[r] = outcome[r]
           /\ pc[r] \in {"reject_publish", "reject_notice", "rejected"} =>
                  pc'[r] \in {"reject_publish", "reject_notice", "rejected"}
<1>1. pc \in [Req -> PayLabels]
  BY DEF TypeOK, PayTypeOK
<1>2. steps' = steps
  BY DEF Handle, Arrive, CheckPostgres, RefillCache,
     Authorize, Reserve, RejectPublish, RejectNotice,
     NoMerchant, Charge, CreatePayout, PollPayout, CreateRow, Escalate, Fulfil, ReversePayout,
     RzpException, SettleBudget, LinkRow, SaveResponse, CacheResponse, KeepStore, storeVars
<1>3. /\ pc[r] \in Written <=> pc'[r] \in Written
      /\ pc[r] \in Written => outcome'[r] = outcome[r]
  BY <1>1 DEF Written, Recorded, At, Goto, Conclude, KeepConclusion, NoSlips, PayLabels,
     Handle, Arrive, CheckPostgres, RefillCache, Authorize, Reserve, RejectPublish, RejectNotice,
     NoMerchant, Charge, CreatePayout, PollPayout, CreateRow, Escalate, Fulfil, ReversePayout,
     RzpException, SettleBudget, LinkRow, SaveResponse, CacheResponse
<1>4. pc[r] \in {"reject_publish", "reject_notice", "rejected"} =>
          pc'[r] \in {"reject_publish", "reject_notice", "rejected"}
  BY <1>1 DEF At, Goto, NoSlips,
     Handle, Arrive, CheckPostgres, RefillCache, Authorize, Reserve, RejectPublish, RejectNotice,
     NoMerchant, Charge, CreatePayout, PollPayout, CreateRow, Escalate, Fulfil, ReversePayout,
     RzpException, SettleBudget, LinkRow, SaveResponse, CacheResponse
<1> QED BY <1>2, <1>3, <1>4

LEMMA LedgerHandle ==
    ASSUME ControlAgrees, LedgerFollowsHandlers, NoSlips, NEW r \in Req, Handle(r),
           UNCHANGED workerVars
    PROVE  LedgerFollowsHandlers'
<1>1. /\ TypeOK /\ RowsAfterCreate /\ LabelsMatchOutcomes /\ steps \in Seq(Step)
      /\ pc \in [Req -> PayLabels]
      /\ outcome[r] \in {"none", "settled", "failed", "pending"}
  BY DEF ControlAgrees, TypeOK, StoreTypeOK, PayTypeOK
<1>2. FollowsPayment(r) /\ FollowsRow(r)
  BY FollowsBoth
<1>3. rows'[r].status = "resolved_failed" <=> rows[r].status = "resolved_failed"
  BY <1>1, HandleRows
<1>4. CASE ~RejectStep(r) /\ ~WriteStep(r)
  <2>1. /\ steps' = steps
        /\ pc[r] \in Written <=> pc'[r] \in Written
        /\ pc[r] \in Written => outcome'[r] = outcome[r]
        /\ pc[r] \in {"reject_publish", "reject_notice", "rejected"} =>
               pc'[r] \in {"reject_publish", "reject_notice", "rejected"}
    BY <1>1, <1>4, HandleUnwritten
  <2>2. \A q \in Req : \A k, s : HasStep(q, k, s)' <=> HasStep(q, k, s)
    BY <2>1, LedgerSame
  <2>3. FollowsPayment(r)'
    BY <1>2, <2>1, <2>2 DEF FollowsPayment, Written
  <2>4. FollowsRow(r)'
    BY <1>2, <1>3, <2>2 DEF FollowsRow, workerVars
  <2>5. \A q \in Req \ {r} : FollowsPayment(q)' /\ FollowsRow(q)'
    BY <1>1, <2>2, HandleFrame, FollowsBoth DEF FollowsPayment, FollowsRow, workerVars
  <2> QED BY <2>3, <2>4, <2>5, FollowsBoth DEF LedgerFollowsHandlers, FollowsPayment, FollowsRow
<1>5. ASSUME NEW s \in {"settled", "pending", "failed"}, WriteTransactionStep(r, "payment", s),
             pc[r] \in {"step", "reject_step"},
             \/ pc'[r] \in {"link", "save"} /\ outcome'[r] = s
             \/ pc'[r] = "reject_publish" /\ s = "failed"
      PROVE  LedgerFollowsHandlers'
  <2>1. \A q \in Req : \A k, t : HasStep(q, k, t)' <=>
            HasStep(q, k, t) \/ (q = r /\ k = "payment" /\ t = s)
    BY <1>1, <1>5, LedgerGrows
  <2>2. \A t \in {"settled", "pending", "failed"} : ~HasStep(r, "payment", t)
    BY <1>2, <1>5 DEF FollowsPayment, Written, Recorded
  <2>3. FollowsPayment(r)'
    BY <1>5, <2>1, <2>2 DEF FollowsPayment, Written, Recorded
  <2>4. FollowsRow(r)'
    BY <1>2, <1>3, <2>1 DEF FollowsRow, workerVars
  <2>5. \A q \in Req \ {r} : FollowsPayment(q)' /\ FollowsRow(q)'
    BY <1>1, <2>1, HandleFrame, FollowsBoth DEF FollowsPayment, FollowsRow, workerVars
  <2> QED BY <2>3, <2>4, <2>5, FollowsBoth DEF LedgerFollowsHandlers, FollowsPayment, FollowsRow
<1>6. CASE RejectStep(r)
  BY <1>1, <1>5, <1>6 DEF RejectStep, At, Goto
<1>7. CASE WriteStep(r)
  <2>1. outcome[r] # "none"
    BY <1>1, <1>7 DEF WriteStep, At, LabelsMatchOutcomes, Recorded
  <2> QED BY <1>1, <1>5, <1>7, <2>1 DEF WriteStep, At, Goto, KeepConclusion
<1> QED BY <1>4, <1>6, <1>7

LEMMA LedgerWorker ==
    ASSUME ControlAgrees, LedgerFollowsHandlers, NoSlips, WorkerNext, UNCHANGED payVars,
           NEW c, c = cur
    PROVE  LedgerFollowsHandlers'
<1>1. /\ TypeOK /\ WorkerMatchesRows /\ steps \in Seq(Step) /\ rows \in [Req -> Row]
      /\ None \notin Req
  BY StoreAssumption DEF ControlAgrees, TypeOK, StoreTypeOK
<1>2. pc' = pc /\ outcome' = outcome
  BY DEF payVars
<1>3. CASE WriteResolutionStep
  <2>1. /\ c \in Req /\ rows[c].status \in {"resolved_settled", "resolved_failed"}
        /\ wpc = "resolution_step" /\ wpc' = "announce" /\ rows' = rows /\ cur' = cur
    BY <1>1, <1>3 DEF WriteResolutionStep, WorkerMatchesRows
  <2>2. PICK s : /\ s = IF rows[c].status = "resolved_settled" THEN "settled" ELSE "failed"
                 /\ WriteTransactionStep(c, "payout_resolution", s)
    BY <1>3 DEF WriteResolutionStep
  <2>3. \A q \in Req : \A k, t : HasStep(q, k, t)' <=>
            HasStep(q, k, t) \/ (q = c /\ k = "payout_resolution" /\ t = s)
    BY <1>1, <2>1, <2>2, LedgerGrows
  <2>4. \A q \in Req : FollowsPayment(q)'
    BY <1>2, <2>3, FollowsBoth DEF FollowsPayment
  <2>5. \A q \in Req \ {c} : FollowsRow(q)'
    BY <2>1, <2>3, FollowsBoth DEF FollowsRow
  <2>6. FollowsRow(c)'
    BY <2>1, <2>2, <2>3, FollowsBoth DEF FollowsRow
  <2> QED BY <2>4, <2>5, <2>6 DEF LedgerFollowsHandlers, FollowsPayment, FollowsRow
<1>4. CASE ~WriteResolutionStep
  <2>1. steps' = steps
    BY <1>4 DEF WorkerNext, WorkerStep, FetchOpen, Recheck, ResolveSettled, ReleaseHold,
       ResolveFailed, Announce, Touch, Exhaust, AnnounceExhausted, RecheckFails, storeVars
  <2>2. \A q, k, s : HasStep(q, k, s)' <=> HasStep(q, k, s)
    BY <2>1, LedgerSame
  <2>3. \A q \in Req : FollowsPayment(q)'
    BY <1>2, <2>2, FollowsBoth DEF FollowsPayment
  <2> DEFINE Closed(q) == /\ rows[q].status = "resolved_failed"
                          /\ ~(cur = q /\ wpc = "resolution_step")
  <2>4. \A q \in Req : Closed(q)' <=> Closed(q)
    <3> USE DEF WorkerMatchesRows, NextRow
    <3>1. CASE FetchOpen \/ (\E r \in Req : Recheck(r)) \/ ReleaseHold \/ Announce
               \/ AnnounceExhausted
      BY <1>1, <3>1 DEF FetchOpen, Recheck, ReleaseHold, Announce, AnnounceExhausted, storeVars
    <3>2. CASE ResolveSettled
      <4>1. rows'[c].status = "resolved_settled" /\ \A q \in Req \ {c} : rows'[q] = rows[q]
        BY <1>1, <3>2, ResolveEffect DEF ResolveSettled, RowStatus
      <4> QED BY <1>1, <3>2, <4>1 DEF ResolveSettled
    <3>3. CASE ResolveFailed
      <4>1. rows'[c].status = "resolved_failed" /\ \A q \in Req \ {c} : rows'[q] = rows[q]
        BY <1>1, <3>3, ResolveEffect DEF ResolveFailed, RowStatus
      <4> QED BY <1>1, <3>3, <4>1 DEF ResolveFailed
    <3>4. CASE Touch
      <4>1. rows'[c].status = rows[c].status /\ \A q \in Req \ {c} : rows'[q] = rows[q]
        BY <1>1, <3>4, TouchEffect DEF Touch
      <4> QED BY <1>1, <3>4, <4>1 DEF Touch
    <3>5. CASE Exhaust
      <4>1. rows'[c].status = "exhausted" /\ \A q \in Req \ {c} : rows'[q] = rows[q]
        BY <1>1, <3>5, ResolveEffect DEF Exhaust, RowStatus
      <4> QED BY <1>1, <3>5, <4>1 DEF Exhaust
    <3>6. ~RecheckFails
      BY DEF RecheckFails, NoSlips
    <3> QED BY <1>4, <3>1, <3>2, <3>3, <3>4, <3>5, <3>6 DEF WorkerNext, WorkerStep
  <2>5. \A q \in Req : FollowsRow(q)'
    BY <2>2, <2>4, FollowsBoth DEF FollowsRow
  <2> QED BY <2>3, <2>5 DEF LedgerFollowsHandlers, FollowsPayment, FollowsRow
<1> QED BY <1>3, <1>4

LEMMA LedgerNext ==
    ASSUME NoSlips, ControlAgrees, LedgerFollowsHandlers, [Next]_vars
    PROVE  LedgerFollowsHandlers'
<1> DEFINE Rest == LedgerFollowsHandlers'
<1>1. ASSUME UNCHANGED <<pc, outcome, rows, steps, workerVars>> PROVE Rest
  BY <1>1, LedgerSame DEF LedgerFollowsHandlers, workerVars
<1>2. ASSUME NEW r \in Req, Handle(r), UNCHANGED workerVars PROVE Rest
  BY <1>2, LedgerHandle
<1>3. ASSUME NEW r \in Req, HandlerFails(r), UNCHANGED workerVars PROVE Rest
  BY <1>1, <1>3 DEF HandlerFails, KeepStore, storeVars
<1>4. ASSUME SetAegisMode \/ ProxyRestart, UNCHANGED workerVars PROVE Rest
  BY <1>1, <1>4 DEF SetAegisMode, ProxyRestart, KeepStore, storeVars
<1>5. ASSUME WorkerNext, UNCHANGED payVars PROVE Rest
  <2>1. PICK c : c = cur
    OBVIOUS
  <2> QED BY <1>5, <2>1, LedgerWorker
<1>6. ASSUME World, UNCHANGED <<payVars, workerVars>> PROVE Rest
  BY <1>1, <1>6 DEF World, GatewayDecides, RedisExpire, ReuseWorkflow, payVars, NoSlips
<1>7. ASSUME UNCHANGED vars PROVE Rest
  BY <1>1, <1>7 DEF vars, storeVars, payVars
<1> HIDE DEF Rest
<1>8. Rest
  BY <1>2, <1>3, <1>4, <1>5, <1>6, <1>7 DEF Next, PayNext
<1> QED BY <1>8 DEF Rest

\* When every handler got to its end and no recheck is under way, a reader who
\* adds up the ledger gets budget_used: for every number of calls, retries in
\* flight and lost replies included, without the three slips of NoSlips.
THEOREM LedgerExplains ==
    ASSUME NoSlips
    PROVE  Spec => []LedgerExplainsBudget
<1> DEFINE Inv == Bookkeeping /\ LedgerFollowsHandlers
<1>1. Init => Inv
  <2>1. Init => LedgerFollowsHandlers
    BY DEF Init, StoreInit, PayInit, WorkerInit, LedgerFollowsHandlers, HasStep, StepsOf, Written,
       Recorded, NoRow
  <2> QED BY <2>1, BookkeepingInit
<1>2. Inv /\ [Next]_vars => Inv'
  BY BookkeepingNext, LedgerNext DEF Bookkeeping
<1>3. Inv => LedgerExplainsBudget
  <2> SUFFICES ASSUME Inv, Quiet PROVE used = Total([r \in Req |-> LedgerAmount(r)])
    BY DEF LedgerExplainsBudget
  <2>1. ASSUME NEW r \in Req PROVE Owed(r) = LedgerAmount(r)
    <3>1. /\ pc[r] \in Finished \cup {"start"} /\ ~Releasing(r)
          /\ FollowsPayment(r) /\ FollowsRow(r)
          /\ outcome[r] \in {"none", "settled", "failed", "pending"}
      BY FollowsBoth DEF Quiet, Releasing, Bookkeeping, ControlAgrees, TypeOK, PayTypeOK
    <3>2. Released(r) <=> HasStep(r, "payout_resolution", "failed")
      BY <3>1 DEF Released, FollowsRow, Quiet
    <3>3. CASE pc[r] = "done"
      <4>1. \A s \in {"settled", "pending", "failed"} : HasStep(r, "payment", s) <=> s = outcome[r]
        BY <3>1, <3>3 DEF FollowsPayment, Written, Recorded
      <4> QED BY <3>1, <3>2, <3>3, <4>1 DEF Owed, LedgerAmount, Reserved, Recorded
    <3>4. CASE pc[r] # "done"
      <4>1. ~HasStep(r, "payment", "settled") /\ ~HasStep(r, "payment", "pending")
        BY <3>1, <3>4 DEF FollowsPayment, Written, Recorded, Finished
      <4> QED BY <3>1, <3>4, <4>1 DEF Owed, LedgerAmount, Reserved, Recorded, Finished
    <3> QED BY <3>3, <3>4
  <2>2. [r \in Req |-> Owed(r)] = [r \in Req |-> LedgerAmount(r)]
    BY <2>1
  <2> QED BY <2>2 DEF Bookkeeping, BudgetAccountsForEveryCall, OwedTotal
<1> QED BY <1>1, <1>2, <1>3, PTL DEF Spec

-----------------------------------------------------------------------------
(* One charge and one answer per key *)

\* What a handler's step does to the idempotency stores and to its own answer.
LEMMA KeysFrame ==
    ASSUME TypeOK, NEW r \in Req, Handle(r)
    PROVE  /\ stopped' = stopped
           /\ \A q \in Req \ {r} : served'[q] = served[q]
           /\ ~SaveResponse(r) => pg' = pg
           /\ ~RefillCache(r) /\ ~CacheResponse(r) => redis' = redis
           /\ ~Arrive(r) /\ ~CheckPostgres(r) /\ ~CacheResponse(r) => served' = served
<1>1. served \in [Req -> Req \cup {None}]
  BY DEF TypeOK, PayTypeOK
<1>2. /\ stopped' = stopped
      /\ \A q \in Req \ {r} : served'[q] = served[q]
      /\ ~Arrive(r) /\ ~CheckPostgres(r) /\ ~CacheResponse(r) => served' = served
  BY <1>1 DEF KeepConclusion, Handle, Arrive, CheckPostgres, RefillCache,
     Authorize, Reserve, RejectStep,
     RejectPublish, RejectNotice, NoMerchant, Charge, CreatePayout, PollPayout, CreateRow,
     Escalate, Fulfil, ReversePayout, RzpException, SettleBudget, WriteStep, LinkRow,
     SaveResponse, CacheResponse
<1>3. /\ ~SaveResponse(r) => pg' = pg
      /\ ~RefillCache(r) /\ ~CacheResponse(r) => redis' = redis
  BY DEF KeepStore, storeVars, Handle, Arrive, CheckPostgres, RefillCache,
     Authorize, Reserve, RejectStep,
     RejectPublish, RejectNotice, NoMerchant, Charge, CreatePayout, PollPayout, CreateRow,
     Escalate, Fulfil, ReversePayout, RzpException, SettleBudget, WriteStep, LinkRow,
     SaveResponse, CacheResponse
<1> QED BY <1>2, <1>3

\* What KeysAgree says of one call.
KeyOf(r) ==
    /\ pc[r] \in Unanswered => pg[Key[r]] = None
    /\ pc[r] \in {"cache", "done"} => pg[Key[r]] = r
    /\ pc[r] \in {"refill", "replayed"} => served[r] = pg[Key[r]] /\ served[r] # None
    /\ pc[r] = "done" => served[r] = r
    /\ charged[r] # 0 \/ payout[r] # "none" => pc[r] \in (Reserved \ {"forward"}) \cup Recorded

LEMMA KeysSplit ==
    KeysAgree <=>
        /\ stopped = {}
        /\ \A q, r \in Req : q # r /\ Key[q] = Key[r] => ~(InFlight(q) /\ InFlight(r))
        /\ \A k \in Keys : redis[k] \in {None, pg[k]}
        /\ \A r \in Req : KeyOf(r)
BY DEF KeysAgree, KeyOf

\* The call whose handler takes the step.
LEMMA KeysMover ==
    ASSUME TypeOK, KeysAgree, NEW r \in Req, Handle(r)
    PROVE  KeyOf(r)'
<1> USE StoreAssumption DEF At, Goto, Conclude, KeepConclusion, KeepStore, storeVars,
        Reserved, Recorded, Unanswered
<1>1. /\ pc \in [Req -> PayLabels] /\ served \in [Req -> Req \cup {None}]
      /\ pg \in [Keys -> Req \cup {None}] /\ redis \in [Keys -> Req \cup {None}]
      /\ charged \in [Req -> Nat] /\ Key[r] \in Keys
      /\ payout \in [Req -> {"none", "nonterminal", "processed", "failed"}]
  BY DEF TypeOK, StoreTypeOK, PayTypeOK
<1>2. KeyOf(r) /\ redis[Key[r]] \in {None, pg[Key[r]]}
  BY <1>1, KeysSplit
<1> USE <1>1, <1>2 DEF KeyOf
<1>3. CASE Arrive(r)
  BY <1>3 DEF Arrive
<1>4. CASE CheckPostgres(r) \/ RefillCache(r)
  BY <1>4 DEF CheckPostgres, RefillCache, SetexIdem
<1>5. CASE Authorize(r)
  BY <1>5 DEF Authorize
<1>6. CASE Reserve(r)
  BY <1>6 DEF Reserve
<1>7. CASE RejectStep(r) \/ RejectPublish(r) \/ RejectNotice(r) \/ NoMerchant(r)
  BY <1>7 DEF RejectStep, RejectPublish, RejectNotice, NoMerchant
<1>8. CASE Charge(r)
  BY <1>8 DEF Charge
<1>9. CASE CreatePayout(r)
  BY <1>9 DEF CreatePayout
<1>10. CASE PollPayout(r) \/ CreateRow(r) \/ Escalate(r)
  BY <1>10 DEF PollPayout, CreateRow, Escalate
<1>11. CASE Fulfil(r) \/ ReversePayout(r) \/ RzpException(r)
  BY <1>11 DEF Fulfil, ReversePayout, RzpException
<1>12. CASE SettleBudget(r) \/ WriteStep(r) \/ LinkRow(r)
  BY <1>12 DEF SettleBudget, WriteStep, LinkRow
<1>13. CASE SaveResponse(r)
  BY <1>13 DEF SaveResponse, SaveIdempotencyResponse
<1>14. CASE CacheResponse(r)
  BY <1>14 DEF CacheResponse
<1> QED BY <1>3, <1>4, <1>5, <1>6, <1>7, <1>8, <1>9, <1>10, <1>11, <1>12, <1>13, <1>14 DEF Handle

\* A handler's step: no other call of its key is under way.
LEMMA KeysHandle ==
    ASSUME TypeOK, KeysAgree, PatientClients, NEW r \in Req, Handle(r)
    PROVE  KeysAgree'
<1>1. /\ pc \in [Req -> PayLabels] /\ pg \in [Keys -> Req \cup {None}]
      /\ redis \in [Keys -> Req \cup {None}] /\ Key \in [Req -> Keys] /\ None \notin Req
  BY StoreAssumption DEF TypeOK, StoreTypeOK, PayTypeOK
<1>2. /\ stopped = {} /\ stopped' = {}
      /\ \A q, s \in Req : q # s /\ Key[q] = Key[s] => ~(InFlight(q) /\ InFlight(s))
      /\ \A k \in Keys : redis[k] \in {None, pg[k]}
      /\ \A q \in Req : KeyOf(q)
  BY KeysSplit, KeysFrame
<1>3. \A q \in Req \ {r} :
          /\ pc'[q] = pc[q] /\ charged'[q] = charged[q] /\ payout'[q] = payout[q]
          /\ served'[q] = served[q]
  BY HandleFrame, KeysFrame
<1>4. /\ \A q \in Req \ {r} : InFlight(q)' <=> InFlight(q)
      /\ InFlight(r)' /\ ~InFlight(r) => Arrive(r)
  <2>1. ~Arrive(r) => InFlight(r)
    BY <1>1, <1>2 DEF InFlight, Finished, At, PatientClients, Handle, CheckPostgres, RefillCache,
       Authorize,
       Reserve, RejectStep, RejectPublish, RejectNotice, NoMerchant, Charge, CreatePayout,
       PollPayout, CreateRow, Escalate, Fulfil, ReversePayout, RzpException, SettleBudget,
       WriteStep, LinkRow, SaveResponse, CacheResponse
  <2> QED BY <1>2, <1>3, <2>1 DEF InFlight
<1>5. \A q, s \in Req : q # s /\ Key[q] = Key[s] => ~(InFlight(q)' /\ InFlight(s)')
  <2>1. Arrive(r) => \A q \in Req \ {r} : Key[q] = Key[r] => ~InFlight(q)
    BY DEF Arrive, PatientClients, SameKey
  <2> QED BY <1>2, <1>4, <2>1
<1>6. CASE SaveResponse(r)
  <2>1. /\ pc[r] = "save" /\ pg[Key[r]] = None /\ redis' = redis
        /\ pg' = [pg EXCEPT ![Key[r]] = r]
    BY <1>2, <1>6 DEF SaveResponse, SaveIdempotencyResponse, At, KeyOf, Unanswered
  <2>2. \A k \in Keys : redis'[k] \in {None, pg'[k]}
    BY <1>1, <1>2, <2>1
  <2>3. ASSUME NEW q \in Req \ {r} PROVE KeyOf(q)'
    <3>1. CASE Key[q] # Key[r]
      <4>1. pg'[Key[q]] = pg[Key[q]]
        BY <1>1, <2>1, <3>1
      <4> QED BY <1>2, <1>3, <4>1 DEF KeyOf
    <3>2. CASE Key[q] = Key[r]
      <4>1. InFlight(r)
        BY <1>2, <2>1 DEF InFlight, Finished
      <4>2. ~InFlight(q)
        BY <1>2, <3>2, <4>1
      <4>3. pc[q] \notin {"cache", "done", "refill", "replayed"} \cup Unanswered
        BY <1>1, <1>2, <2>1, <3>2, <4>2
           DEF KeyOf, InFlight, Finished, Unanswered, Reserved
      <4> QED BY <1>2, <1>3, <4>3 DEF KeyOf
    <3> QED BY <3>1, <3>2
  <2>4. KeyOf(r)'
    BY KeysMover
  <2> QED BY <1>2, <1>5, <2>2, <2>3, <2>4 DEF KeysAgree, KeyOf
<1>7. CASE ~SaveResponse(r)
  <2>1. pg' = pg
    BY <1>7, KeysFrame
  <2>2. \A k \in Keys : redis'[k] \in {None, pg'[k]}
    <3>1. CASE RefillCache(r)
      <4>1. served[r] = pg[Key[r]] /\ redis' = [redis EXCEPT ![Key[r]] = served[r]]
        BY <1>2, <3>1 DEF RefillCache, SetexIdem, At, KeyOf
      <4> QED BY <1>1, <1>2, <2>1, <4>1
    <3>2. CASE CacheResponse(r)
      <4>1. pg[Key[r]] = r /\ redis' = [redis EXCEPT ![Key[r]] = r]
        BY <1>2, <3>2 DEF CacheResponse, SetexIdem, At, KeyOf
      <4> QED BY <1>1, <1>2, <2>1, <4>1
    <3>3. CASE ~RefillCache(r) /\ ~CacheResponse(r)
      BY <1>2, <2>1, <3>3, KeysFrame
    <3> QED BY <3>1, <3>2, <3>3
  <2>3. \A q \in Req \ {r} : KeyOf(q)'
    BY <1>2, <1>3, <2>1 DEF KeyOf
  <2>4. KeyOf(r)'
    BY KeysMover
  <2> QED BY <1>2, <1>5, <2>2, <2>3, <2>4 DEF KeysAgree, KeyOf
<1> QED BY <1>6, <1>7

LEMMA KeysNext ==
    ASSUME TypeOK, KeysAgree, PatientClients, [Next]_vars
    PROVE  KeysAgree'
<1> DEFINE Rest == KeysAgree'
<1>1. ASSUME UNCHANGED <<pc, served, stopped, pg, redis, charged, payout>> PROVE Rest
  BY <1>1 DEF KeysAgree, InFlight
<1>2. ASSUME NEW r \in Req, Handle(r) PROVE Rest
  BY <1>2, KeysHandle
<1>3. ASSUME (\E r \in Req : HandlerFails(r)) \/ ProxyRestart PROVE Rest
  BY <1>3 DEF HandlerFails, ProxyRestart, PatientClients
<1>4. ASSUME SetAegisMode PROVE Rest
  BY <1>1, <1>4 DEF SetAegisMode, KeepStore, storeVars
<1>5. ASSUME WorkerNext, UNCHANGED payVars PROVE Rest
  <2>1. UNCHANGED <<pg, redis, charged, payout>>
    BY <1>5 DEF WorkerNext, WorkerStep, FetchOpen, Recheck, ResolveSettled, ReleaseHold,
       ResolveFailed, WriteResolutionStep, Announce, Touch, Exhaust, AnnounceExhausted,
       RecheckFails, storeVars
  <2> QED BY <1>1, <1>5, <2>1 DEF payVars
<1>6. ASSUME NEW r \in Req, GatewayDecides(r), UNCHANGED payVars PROVE Rest
  <2>1. \A q \in Req : payout'[q] # "none" => payout[q] # "none"
    BY <1>6 DEF GatewayDecides, TypeOK, StoreTypeOK
  <2> QED BY <1>6, <2>1 DEF GatewayDecides, KeysAgree, InFlight, payVars
<1>7. ASSUME NEW k \in Keys, RedisExpire(k), UNCHANGED payVars PROVE Rest
  <2>1. \A l \in Keys : redis'[l] \in {None, redis[l]}
    BY <1>7 DEF RedisExpire, TypeOK, StoreTypeOK
  <2> QED BY <1>7, <2>1 DEF RedisExpire, KeysAgree, InFlight, payVars
<1>8. ASSUME ReuseWorkflow, UNCHANGED payVars PROVE Rest
  BY <1>1, <1>8 DEF ReuseWorkflow, payVars
<1>9. ASSUME UNCHANGED vars PROVE Rest
  BY <1>1, <1>9 DEF vars, storeVars, payVars
<1> HIDE DEF Rest
<1>10. Rest
  BY <1>2, <1>3, <1>4, <1>5, <1>6, <1>7, <1>8, <1>9 DEF Next, PayNext, World
<1> QED BY <1>10 DEF Rest

LEMMA KeysInductive ==
    ASSUME PatientClients
    PROVE  Spec => [](ControlAgrees /\ KeysAgree)
<1> DEFINE Inv == ControlAgrees /\ KeysAgree
<1>1. Init => Inv
  <2>1. Init => KeysAgree
    BY StoreAssumption DEF Init, StoreInit, PayInit, KeysAgree, InFlight, Finished, Unanswered,
       Reserved, Recorded
  <2> QED BY <2>1, ControlInit
<1>2. Inv /\ [Next]_vars => Inv'
  BY ControlNext, KeysNext DEF ControlAgrees
<1> QED BY <1>1, <1>2, PTL DEF Spec

\* A client that retries only after an answer, or after its call was refused,
\* moves money at most once per key, for every number of retries, whatever
\* replies of merchants are lost, whatever Redis evicts and the worker does.
THEOREM OneCharge ==
    ASSUME PatientClients
    PROVE  Spec => []OneChargePerKey
<1>1. ControlAgrees /\ KeysAgree => OneChargePerKey
  <2> SUFFICES ASSUME ControlAgrees, KeysAgree, NEW q \in Req, NEW r \in Req, q # r,
                      Key[q] = Key[r], Exposure(q) > 0, Exposure(r) > 0
               PROVE  FALSE
    BY DEF OneChargePerKey
  <2>1. ASSUME NEW s \in Req, Exposure(s) > 0
        PROVE  pc[s] \in (Reserved \ {"forward"}) \cup Recorded
    <3>1. charged[s] # 0 \/ payout[s] # "none"
      BY <2>1, StoreAssumption DEF Exposure, ControlAgrees, TypeOK, StoreTypeOK
    <3> QED BY <3>1 DEF KeysAgree
  <2>2. /\ pc[q] \in (Reserved \ {"forward"}) \cup Recorded
        /\ pc[r] \in (Reserved \ {"forward"}) \cup Recorded
    BY <2>1
  <2>3. stopped = {} /\ ~(InFlight(q) /\ InFlight(r))
    BY DEF KeysAgree
  <2>4. \A s \in {q, r} : /\ pc[s] \in {"cache", "done"} => pg[Key[s]] = s
                          /\ pc[s] \in Unanswered => pg[Key[s]] = None
    BY DEF KeysAgree
  <2> QED BY <2>2, <2>3, <2>4, StoreAssumption
          DEF InFlight, Finished, Unanswered, Reserved, Recorded
<1> QED BY <1>1, KeysInductive, PTL

\* ... and every call of the key that was answered got the answer of the one
\* that did the work.
THEOREM SameAnswer ==
    ASSUME PatientClients
    PROVE  Spec => []SameAnswerPerKey
<1>1. ControlAgrees /\ KeysAgree => SameAnswerPerKey
  BY DEF KeysAgree, SameAnswerPerKey
<1> QED BY <1>1, KeysInductive, PTL

-----------------------------------------------------------------------------
(* A payout handed to a human stays as it is *)

\* A row that was given up on is never written again.
LEMMA ExhaustedStays ==
    ASSUME ControlAgrees, [Next]_vars, NEW r \in Req, rows[r].status = "exhausted"
    PROVE  rows'[r].status = "exhausted"
<1>1. TypeOK /\ RowsAfterCreate /\ WorkerMatchesRows
  BY DEF ControlAgrees
<1>2. ASSUME NEW q \in Req, Handle(q) PROVE rows'[r].status = rows[r].status
  BY <1>1, <1>2, HandleFrame, HandleRows
<1>3. ASSUME NEW q \in Req, HandlerFails(q) PROVE rows' = rows
  BY <1>3 DEF HandlerFails, KeepStore, storeVars
<1>4. SetAegisMode \/ ProxyRestart \/ UNCHANGED vars => rows' = rows
  BY DEF SetAegisMode, ProxyRestart, KeepStore, storeVars, vars
<1>5. WorkerNext => rows'[r] = rows[r]
  BY <1>1, WorkerRows
<1>6. World => rows' = rows
  BY DEF World, GatewayDecides, RedisExpire, ReuseWorkflow
<1> QED BY <1>2, <1>3, <1>4, <1>5, <1>6 DEF Next, PayNext

\* Where the worker announces that it gave up, it has closed the row.
LEMMA AnnouncedIsExhausted ==
    ASSUME ControlAgrees, GivenUpMeansExhausted, [Next]_vars, wpc' = "announce_exhausted"
    PROVE  cur' \in Req /\ rows'[cur'].status = "exhausted"
<1>1. TypeOK /\ WorkerMatchesRows
  BY DEF ControlAgrees
<1>2. CASE WorkerNext
  <2>1. Exhaust
    BY <1>2 DEF WorkerNext, WorkerStep, FetchOpen, Recheck, ResolveSettled, ReleaseHold,
       ResolveFailed, WriteResolutionStep, Announce, Touch, AnnounceExhausted, RecheckFails,
       NextRow, WorkerMatchesRows
  <2> QED BY <1>1, <2>1 DEF Exhaust, ResolvePendingPayout, WorkerMatchesRows, TypeOK, StoreTypeOK
<1>3. CASE ~WorkerNext
  <2>1. cur' = cur /\ wpc' = wpc
    BY <1>3 DEF Next, vars, workerVars
  <2>2. cur \in Req
    BY <1>1, <2>1 DEF WorkerMatchesRows
  <2> QED BY <2>1, <2>2, ExhaustedStays DEF GivenUpMeansExhausted
<1> QED BY <1>2, <1>3

EventNames == {"escalation", "payout_resolved", "exhausted", "aegis_disabled"}

\* The event that a payout was given up comes from AnnounceExhausted only.
LEMMA FeedGrows ==
    ASSUME TypeOK, [Next]_vars, feed' # feed
    PROVE  \E e \in EventNames, r \in Req \cup {None} :
               /\ feed' = Append(feed, [event |-> e, req |-> r])
               /\ e = "exhausted" => r = cur /\ wpc = "announce_exhausted"
<1> USE DEF PublishEvent
<1>1. ASSUME NEW q \in Req, Handle(q)
      PROVE  \E e \in {"aegis_disabled", "escalation"} :
                 feed' = Append(feed, [event |-> e, req |-> q])
  BY <1>1 DEF Handle, Arrive, CheckPostgres, RefillCache,
     Authorize, Reserve, RejectStep, RejectPublish,
     RejectNotice, NoMerchant, Charge, CreatePayout, PollPayout, CreateRow, Escalate, Fulfil,
     ReversePayout, RzpException, SettleBudget, WriteStep, LinkRow, SaveResponse, CacheResponse,
     KeepStore, storeVars
<1>2. ASSUME NEW q \in Req, HandlerFails(q) PROVE FALSE
  BY <1>2 DEF HandlerFails, KeepStore, storeVars
<1>3. ~(SetAegisMode \/ ProxyRestart \/ UNCHANGED vars)
  BY DEF SetAegisMode, ProxyRestart, KeepStore, storeVars, vars
<1>4. WorkerNext => Announce \/ AnnounceExhausted
  BY DEF WorkerNext, WorkerStep, FetchOpen, Recheck, ResolveSettled, ReleaseHold, ResolveFailed,
     WriteResolutionStep, Touch, Exhaust, RecheckFails, storeVars
<1>5. ~World
  BY DEF World, GatewayDecides, RedisExpire, ReuseWorkflow
<1>6. cur \in Req \cup {None}
  BY DEF TypeOK, WorkerTypeOK
<1>7. CASE \E q \in Req : Handle(q)
  BY <1>1, <1>7 DEF EventNames
<1>8. CASE Announce
  BY <1>6, <1>8 DEF Announce, EventNames
<1>9. CASE AnnounceExhausted
  BY <1>6, <1>9 DEF AnnounceExhausted, EventNames
<1> QED BY <1>2, <1>3, <1>4, <1>5, <1>7, <1>8, <1>9 DEF Next, PayNext

LEMMA GivenUpNext ==
    ASSUME ControlAgrees, GivenUpMeansExhausted, stuck \subseteq Req,
           heard \in Nat, [WatchNext]_<<vars, watchVars>>
    PROVE  GivenUpMeansExhausted' /\ stuck' \subseteq Req /\ heard' \in Nat
<1>1. TypeOK /\ feed \in Seq(Event)
  BY DEF ControlAgrees, TypeOK, StoreTypeOK
<1>2. CASE [Next]_vars /\ UNCHANGED watchVars
  <2>1. wpc' = "announce_exhausted" => rows'[cur'].status = "exhausted"
    BY <1>2, AnnouncedIsExhausted
  <2>2. stuck' = stuck /\ heard' = heard /\ \A r \in stuck : rows'[r].status = "exhausted"
    BY <1>2, ExhaustedStays DEF GivenUpMeansExhausted, watchVars
  <2>3. ASSUME NEW i \in DOMAIN feed, feed[i].event = "exhausted"
        PROVE  feed[i].req \in Req /\ rows'[feed[i].req].status = "exhausted"
    <3>1. feed[i] \in Event
      BY <1>1, <2>3
    <3>2. feed[i].req \in Req /\ rows[feed[i].req].status = "exhausted"
      BY <2>3, <3>1 DEF GivenUpMeansExhausted, Event
    <3> QED BY <1>2, <3>2, ExhaustedStays
  <2>4. CASE feed' = feed
    BY <1>2, <2>1, <2>2, <2>3, <2>4 DEF GivenUpMeansExhausted
  <2>5. CASE feed' # feed
    <3>1. PICK e \in EventNames, r \in Req \cup {None} :
              /\ feed' = Append(feed, [event |-> e, req |-> r])
              /\ e = "exhausted" => r = cur /\ wpc = "announce_exhausted"
      BY <1>1, <1>2, <2>5, FeedGrows
    <3>2. e = "exhausted" => r \in Req /\ rows'[r].status = "exhausted"
      <4>1. wpc = "announce_exhausted" => rows[cur].status = "exhausted"
        BY DEF GivenUpMeansExhausted
      <4>2. wpc = "announce_exhausted" => cur \in Req
        BY DEF ControlAgrees, WorkerMatchesRows
      <4> QED BY <1>2, <3>1, <4>1, <4>2, ExhaustedStays
    <3>3. ASSUME NEW i \in DOMAIN feed', feed'[i].event = "exhausted"
          PROVE  rows'[feed'[i].req].status = "exhausted"
      <4>1. CASE i \in DOMAIN feed
        BY <1>1, <2>3, <3>1, <3>3, <4>1
      <4>2. CASE i \notin DOMAIN feed
        <5>1. feed'[i] = [event |-> e, req |-> r]
          BY <1>1, <3>1, <4>2
        <5> QED BY <3>2, <3>3, <5>1
      <4> QED BY <4>1, <4>2
    <3> QED BY <1>2, <2>1, <2>2, <3>3 DEF GivenUpMeansExhausted
  <2> QED BY <1>2, <2>4, <2>5
<1>3. CASE Browser
  <2>1. UNCHANGED vars
    BY <1>3 DEF Browser, Connect, Subscribe, Lose, Hear, Dismiss
  <2>2. ASSUME NEW r \in stuck' PROVE r \in Req /\ rows[r].status = "exhausted"
    <3>1. CASE r \in stuck
      BY <3>1 DEF GivenUpMeansExhausted
    <3>2. CASE r \notin stuck
      <4>1. Hear
        BY <1>3, <3>2 DEF Browser, Connect, Subscribe, Lose, Dismiss
      <4>2. r = feed[heard + 1].req /\ feed[heard + 1].event = "exhausted"
        BY <3>2, <4>1 DEF Hear, Show
      <4>3. heard + 1 \in DOMAIN feed
        BY <1>1, <4>1 DEF Hear
      <4>4. feed[heard + 1] \in Event
        BY <1>1, <4>3
      <4> QED BY <4>2, <4>3, <4>4 DEF GivenUpMeansExhausted, Event
    <3> QED BY <3>1, <3>2
  <2>3. feed' = feed /\ rows' = rows /\ wpc' = wpc /\ cur' = cur
    BY <2>1 DEF vars, storeVars, workerVars
  <2>4. heard' \in Nat
    BY <1>1, <1>3 DEF Browser, Connect, Subscribe, Lose, Hear, Dismiss
  <2> QED BY <2>2, <2>3, <2>4 DEF GivenUpMeansExhausted
<1> QED BY <1>2, <1>3 DEF WatchNext

\* Nothing resolves a payout behind the back of the human who was called to it,
\* whatever goes wrong and however often the browser connects.
THEOREM HandOffHolds == WatchSpec => HandOffIsFinal
<1> DEFINE Inv == ControlAgrees /\ GivenUpMeansExhausted /\ heard \in Nat /\ stuck \subseteq Req
<1>1. WatchInit => Inv
  BY ControlInit DEF WatchInit, Init, StoreInit, WorkerInit, GivenUpMeansExhausted
<1>2. Inv /\ [WatchNext]_<<vars, watchVars>> => Inv'
  <2> SUFFICES ASSUME Inv, [WatchNext]_<<vars, watchVars>> PROVE Inv'
    OBVIOUS
  <2>1. [Next]_vars
    BY DEF WatchNext, Browser, Connect, Subscribe, Lose, Hear, Dismiss
  <2> QED BY <2>1, ControlNext, GivenUpNext
<1>3. Inv /\ [WatchNext]_<<vars, watchVars>> =>
          [\A r \in stuck : rows'[r].status = rows[r].status]_<<vars, watchVars>>
  <2> SUFFICES ASSUME Inv, [WatchNext]_<<vars, watchVars>>, NEW r \in stuck
               PROVE  rows'[r].status = rows[r].status
    OBVIOUS
  <2>1. [Next]_vars
    BY DEF WatchNext, Browser, Connect, Subscribe, Lose, Hear, Dismiss
  <2> QED BY <2>1, ExhaustedStays DEF GivenUpMeansExhausted
<1> QED BY <1>1, <1>2, <1>3, PTL DEF WatchSpec, HandOffIsFinal

-----------------------------------------------------------------------------
(* Types of the browser *)

\* An event that a browser handles is one of the feed's.
LEMMA HeardIsAnEvent ==
    ASSUME TypeOK, WatchTypeOK, Hear
    PROVE  heard + 1 \in 1 .. Len(feed) /\ feed[heard + 1] \in Event
<1>1. feed \in Seq(Event) /\ heard \in Nat /\ heard < Len(feed)
  BY DEF TypeOK, StoreTypeOK, WatchTypeOK, Hear
<1> QED BY <1>1

\* What the browser shows and how far it has heard stay within their types, for
\* every number of payouts, whatever goes wrong.
THEOREM WatchTypesHold == WatchSpec => []WatchTypeOK
<1> DEFINE Inv == ControlAgrees /\ WatchTypeOK
<1>1. WatchInit => Inv
  BY ControlInit DEF WatchInit, WatchTypeOK, ControlAgrees, Init, StoreInit
<1>2. Inv /\ [WatchNext]_<<vars, watchVars>> => Inv'
  <2> SUFFICES ASSUME Inv, [WatchNext]_<<vars, watchVars>> PROVE Inv'
    OBVIOUS
  <2>1. [Next]_vars
    BY DEF WatchNext, Browser, Connect, Subscribe, Lose, Hear, Dismiss
  <2>2. ControlAgrees' /\ TypeOK' /\ TypeOK /\ feed \in Seq(Event)
    BY <2>1, ControlNext DEF ControlAgrees, TypeOK, StoreTypeOK
  <2>3. CASE UNCHANGED watchVars
    <3>1. feed' = feed \/ \E x : feed' = Append(feed, x)
      BY <2>1, <2>2, FeedGrows
    <3>2. Len(feed) \in Nat /\ Len(feed') \in Nat /\ Len(feed) <= Len(feed')
      BY <2>2, <3>1
    <3> QED BY <2>2, <2>3, <3>2 DEF WatchTypeOK, watchVars
  <2>4. CASE Connect \/ Subscribe \/ Lose \/ Dismiss
    <3>1. feed' = feed /\ Len(feed) \in Nat
      BY <2>2, <2>4 DEF Connect, Subscribe, Lose, Dismiss, vars, storeVars
    <3> QED BY <2>2, <2>4, <3>1 DEF WatchTypeOK, Connect, Subscribe, Lose, Dismiss
  <2>5. CASE Hear
    <3>1. feed' = feed /\ heard' = heard + 1 /\ link' = link /\ Show(feed[heard + 1])
      BY <2>5 DEF Hear, vars, storeVars
    <3>2. heard + 1 \in 1 .. Len(feed) /\ feed[heard + 1] \in Event
      BY <2>2, <2>5, HeardIsAnEvent
    <3>3. feed[heard + 1].req \in Req \cup {None}
      BY <3>2 DEF Event
    <3>4. escalation' \in Req \cup {None}
      BY <3>1, <3>3 DEF Show, ClearedFor, WatchTypeOK
    <3>5. stuck' \subseteq Req
      BY <3>1, <3>2 DEF Show, WatchTypeOK, Event
    <3> QED BY <2>2, <3>1, <3>2, <3>4, <3>5 DEF WatchTypeOK
  <2> QED BY <2>3, <2>4, <2>5 DEF WatchNext, Browser
<1>3. Inv => WatchTypeOK
  OBVIOUS
<1> QED BY <1>1, <1>2, <1>3, PTL DEF WatchSpec

===============================================================================
