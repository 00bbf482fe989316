---------------------------- MODULE PaymentsProofs ----------------------------
(***************************************************************************)
(* Proofs about module Payments, for every set of calls and every limit.   *)
(***************************************************************************)
EXTENDS Payments, AmountsProofs

-----------------------------------------------------------------------------
(* Types *)

LEMMA TypeInit == Init => TypeOK
BY StoreAssumption DEF Init, TypeOK, StoreInit, PayInit, WorkerInit, StoreTypeOK, PayTypeOK,
   WorkerTypeOK, Row, RowStatus, NoRow, PayLabels, WorkerLabels, CheckCap

\* The handler's calls keep the types of what the handler keeps itself.
LEMMA PayTypeHandle ==
    ASSUME StoreTypeOK, PayTypeOK, NEW r \in Req, Handle(r)
    PROVE  PayTypeOK'
<1> USE StoreAssumption DEF PayTypeOK, At, Goto, KeepConclusion, PayLabels, Reserved, Recorded,
        Rejecting, Finished
<1>1. CASE Arrive(r)
  <2>1. Key[r] \in Keys /\ redis[Key[r]] \in Req \cup {None}
    BY DEF StoreTypeOK
  <2> QED BY <1>1, <2>1 DEF Arrive
<1>2. CASE CheckPostgres(r) \/ RefillCache(r)
  <2>1. Key[r] \in Keys /\ pg[Key[r]] \in Req \cup {None}
    BY DEF StoreTypeOK
  <2> QED BY <1>2, <2>1 DEF CheckPostgres, RefillCache, KeepStore, storeVars
<1>3. CASE Authorize(r)
  BY <1>3 DEF Authorize
<1>4. CASE Reserve(r)
  BY <1>4 DEF Reserve
<1>5. CASE RejectStep(r)
  BY <1>5 DEF RejectStep
<1>6. CASE RejectPublish(r)
  BY <1>6 DEF RejectPublish
<1>7. CASE RejectNotice(r)
  BY <1>7 DEF RejectNotice
<1>8. CASE NoMerchant(r)
  BY <1>8 DEF NoMerchant
<1>9. CASE Charge(r)
  BY <1>9 DEF Charge, Conclude
<1>10. CASE CreatePayout(r)
  BY <1>10 DEF CreatePayout, Conclude
<1>11. CASE PollPayout(r)
  BY <1>11 DEF PollPayout, Conclude
<1>12. CASE CreateRow(r)
  BY <1>12 DEF CreateRow
<1>13. CASE Escalate(r)
  BY <1>13 DEF Escalate
<1>14. CASE Fulfil(r)
  BY <1>14 DEF Fulfil
<1>15. CASE ReversePayout(r)
  BY <1>15 DEF ReversePayout
<1>16. CASE RzpException(r)
  BY <1>16 DEF RzpException, Conclude
<1>17. CASE SettleBudget(r)
  BY <1>17 DEF SettleBudget
<1>18. CASE WriteStep(r)
  BY <1>18 DEF WriteStep
<1>19. CASE LinkRow(r)
  BY <1>19 DEF LinkRow
<1>20. CASE SaveResponse(r)
  BY <1>20 DEF SaveResponse
<1>21. CASE CacheResponse(r)
  BY <1>21 DEF CacheResponse
<1> QED BY <1>1, <1>2, <1>3, <1>4, <1>5, <1>6, <1>7, <1>8, <1>9, <1>10, <1>11, <1>12, <1>13,
           <1>14, <1>15, <1>16, <1>17, <1>18, <1>19, <1>20, <1>21 DEF Handle

\* Publishing keeps the feed a sequence of events.
LEMMA PublishType ==
    ASSUME feed \in Seq(Event), NEW r \in Req,
           NEW e \in {"escalation", "payout_resolved", "exhausted", "aegis_disabled"},
           PublishEvent(e, r)
    PROVE  feed' \in Seq(Event)
<1>1. [event |-> e, req |-> r] \in Event
  BY DEF Event
<1> QED BY <1>1 DEF PublishEvent

\* Writing a step keeps the ledger a sequence of steps.
LEMMA WriteType ==
    ASSUME steps \in Seq(Step), NEW r \in Req, NEW k \in {"payment", "payout_resolution"},
           NEW s \in {"settled", "failed", "pending"}, WriteTransactionStep(r, k, s)
    PROVE  steps' \in Seq(Step)
<1>1. [req |-> r, kind |-> k, status |-> s] \in Step
  BY DEF Step
<1> QED BY <1>1 DEF WriteTransactionStep

\* ... and of what they write to the stores.
LEMMA StoreTypeHandle ==
    ASSUME StoreTypeOK, PayTypeOK, LabelsMatchOutcomes, NEW r \in Req, Handle(r)
    PROVE  StoreTypeOK'
<1> USE StoreAssumption DEF StoreTypeOK
<1>1. CASE Arrive(r)
  BY <1>1 DEF Arrive, KeepStore, storeVars
<1>2. CASE CheckPostgres(r) \/ RefillCache(r)
  <2>1. served[r] \in Req \cup {None} /\ Key[r] \in Keys
    BY DEF PayTypeOK
  <2>2. CASE CheckPostgres(r)
    BY <2>2 DEF CheckPostgres, KeepStore, storeVars
  <2>3. CASE RefillCache(r)
    BY <2>1, <2>3 DEF RefillCache, SetexIdem
  <2> QED BY <1>2, <2>2, <2>3
<1>3. CASE Authorize(r)
  BY <1>3 DEF Authorize, KeepStore, storeVars
<1>4. CASE Reserve(r)
  BY <1>4 DEF Reserve, ReserveBudget, ReserveFits
<1>5. CASE RejectStep(r)
  BY <1>5, WriteType DEF RejectStep
<1>6. CASE RejectPublish(r)
  BY <1>6 DEF RejectPublish
<1>7. CASE RejectNotice(r)
  BY <1>7, PublishType DEF RejectNotice
<1>8. CASE NoMerchant(r)
  BY <1>8 DEF NoMerchant, RollbackBudget
<1>9. CASE Charge(r)
  BY <1>9 DEF Charge
<1>10. CASE CreatePayout(r)
  BY <1>10 DEF CreatePayout
<1>11. CASE PollPayout(r)
  BY <1>11 DEF PollPayout, KeepStore, storeVars
<1>12. CASE CreateRow(r)
  BY <1>12 DEF CreateRow, CreatePendingPayout, Row, RowStatus, CheckCap
<1>13. CASE Escalate(r)
  BY <1>13, PublishType DEF Escalate
<1>14. CASE Fulfil(r)
  BY <1>14, PublishType DEF Fulfil
<1>15. CASE ReversePayout(r)
  BY <1>15 DEF ReversePayout
<1>16. CASE RzpException(r)
  BY <1>16 DEF RzpException, KeepStore, storeVars
<1>17. CASE SettleBudget(r)
  BY <1>17 DEF SettleBudget, CommitBudget, RollbackBudget, PayTypeOK, At
<1>18. CASE WriteStep(r)
  <2>1. outcome[r] \in {"settled", "failed", "pending"}
    BY <1>18 DEF WriteStep, PayTypeOK, At, LabelsMatchOutcomes, Recorded
  <2>2. steps' \in Seq(Step)
    BY <1>18, <2>1, WriteType DEF WriteStep
  <2> QED BY <1>18, <2>2 DEF WriteStep
<1>19. CASE LinkRow(r)
  BY <1>19 DEF LinkRow, SetPendingPayoutStepId, Row
<1>20. CASE SaveResponse(r)
  BY <1>20 DEF SaveResponse, SaveIdempotencyResponse
<1>21. CASE CacheResponse(r)
  BY <1>21 DEF CacheResponse, SetexIdem
<1> QED BY <1>1, <1>2, <1>3, <1>4, <1>5, <1>6, <1>7, <1>8, <1>9, <1>10, <1>11, <1>12, <1>13,
           <1>14, <1>15, <1>16, <1>17, <1>18, <1>19, <1>20, <1>21 DEF Handle

\* What resolving a row, or counting a check, does to the table.
LEMMA ResolveEffect ==
    ASSUME rows \in [Req -> Row], NEW r \in Req, NEW s \in RowStatus, ResolvePendingPayout(r, s)
    PROVE  /\ rows' \in [Req -> Row]
           /\ rows'[r].status = s
           /\ \A q \in Req \ {r} : rows'[q] = rows[q]
<1>1. Bump(rows[r].checks) \in 0 .. CheckCap
  BY StoreAssumption DEF Bump, CheckCap, Row
<1> QED BY <1>1 DEF ResolvePendingPayout, Row

LEMMA TouchEffect ==
    ASSUME rows \in [Req -> Row], NEW r \in Req, TouchPendingPayout(r)
    PROVE  /\ rows' \in [Req -> Row]
           /\ rows'[r].status = rows[r].status
           /\ \A q \in Req \ {r} : rows'[q] = rows[q]
<1>1. Bump(rows[r].checks) \in 0 .. CheckCap
  BY StoreAssumption DEF Bump, CheckCap, Row
<1> QED BY <1>1 DEF TouchPendingPayout, Row

\* The worker's steps.
LEMMA WorkerTypes ==
    ASSUME TypeOK, WorkerMatchesRows, WorkerNext
    PROVE  StoreTypeOK' /\ WorkerTypeOK'
<1> USE StoreAssumption DEF TypeOK, StoreTypeOK, WorkerTypeOK, WorkerLabels
<1>1. CASE FetchOpen
  BY <1>1 DEF FetchOpen, OpenRows, storeVars
<1>2. ASSUME NEW r \in Req, Recheck(r) PROVE StoreTypeOK' /\ WorkerTypeOK'
  BY <1>2 DEF Recheck, storeVars
<1> USE DEF WorkerMatchesRows, RowStatus, NextRow
<1>3. CASE ResolveSettled
  BY <1>3, ResolveEffect DEF ResolveSettled
<1>4. CASE ReleaseHold
  BY <1>4 DEF ReleaseHold, RollbackBudget
<1>5. CASE ResolveFailed
  BY <1>5, ResolveEffect DEF ResolveFailed
<1>6. CASE WriteResolutionStep
  BY <1>6, WriteType DEF WriteResolutionStep
<1>7. CASE Announce
  BY <1>7, PublishType DEF Announce
<1>8. CASE Touch
  BY <1>8, TouchEffect DEF Touch
<1>9. CASE Exhaust
  BY <1>9, ResolveEffect DEF Exhaust
<1>10. CASE AnnounceExhausted
  BY <1>10, PublishType DEF AnnounceExhausted
<1>11. CASE RecheckFails
  BY <1>11 DEF RecheckFails, storeVars
<1> QED BY <1>1, <1>2, <1>3, <1>4, <1>5, <1>6, <1>7, <1>8, <1>9, <1>10, <1>11
        DEF WorkerNext, WorkerStep

\* Every step of the whole keeps the types.
LEMMA TypeNext ==
    ASSUME TypeOK, LabelsMatchOutcomes, WorkerMatchesRows, [Next]_vars
    PROVE  TypeOK'
<1> USE DEF TypeOK
<1>1. ASSUME NEW r \in Req, Handle(r), UNCHANGED workerVars PROVE TypeOK'
  BY <1>1, PayTypeHandle, StoreTypeHandle DEF workerVars, WorkerTypeOK
<1>2. ASSUME NEW r \in Req, HandlerFails(r), UNCHANGED workerVars PROVE TypeOK'
  BY <1>2 DEF HandlerFails, KeepStore, storeVars, workerVars, WorkerTypeOK, PayTypeOK, StoreTypeOK
<1>3. ASSUME SetAegisMode \/ ProxyRestart, UNCHANGED workerVars PROVE TypeOK'
  BY <1>3 DEF SetAegisMode, ProxyRestart, KeepStore, storeVars, workerVars, WorkerTypeOK,
     PayTypeOK, StoreTypeOK
<1>4. ASSUME WorkerNext, UNCHANGED payVars PROVE TypeOK'
  BY <1>4, WorkerTypes DEF payVars, PayTypeOK
<1>5. ASSUME World, UNCHANGED <<payVars, workerVars>> PROVE TypeOK'
  <2>1. PayTypeOK' /\ WorkerTypeOK'
    BY <1>5 DEF payVars, workerVars, WorkerTypeOK, PayTypeOK
  <2>2. ASSUME NEW r \in Req, GatewayDecides(r) PROVE StoreTypeOK'
    BY <2>2 DEF GatewayDecides, StoreTypeOK
  <2>3. ASSUME NEW k \in Keys, RedisExpire(k) PROVE StoreTypeOK'
    BY <2>3 DEF RedisExpire, StoreTypeOK
  <2>4. CASE ReuseWorkflow
    <3>1. used' \in Int
      BY <2>4 DEF ReuseWorkflow, ResetWorkflow
    <3>2. steps' \in Seq(Step)
      <4>1. steps' = <<>>
        BY <2>4 DEF ReuseWorkflow, ResetWorkflow
      <4> QED BY <4>1
    <3>3. UNCHANGED <<pg, redis, rows, feed, queue, charged, payout, reversed>>
      BY <2>4 DEF ReuseWorkflow
    <3> QED BY <2>1, <3>1, <3>2, <3>3 DEF StoreTypeOK
  <2> QED BY <1>5, <2>1, <2>2, <2>3, <2>4 DEF World
<1>6. ASSUME UNCHANGED vars PROVE TypeOK'
  BY <1>6 DEF vars, storeVars, payVars, workerVars, WorkerTypeOK, PayTypeOK, StoreTypeOK
<1> QED BY <1>1, <1>2, <1>3, <1>4, <1>5, <1>6 DEF Next, PayNext

-----------------------------------------------------------------------------
(* Control: handlers, rows and worker agree *)

\* A handler's step leaves what belongs to other calls alone.
LEMMA HandleFrame ==
    ASSUME TypeOK, NEW r \in Req, Handle(r)
    PROVE  \A q \in Req \ {r} :
               /\ pc'[q] = pc[q] /\ outcome'[q] = outcome[q] /\ actual'[q] = actual[q]
               /\ rows'[q] = rows[q] /\ charged'[q] = charged[q] /\ payout'[q] = payout[q]
<1> USE DEF TypeOK, PayTypeOK, StoreTypeOK, Goto, KeepConclusion
<1>1. CASE Arrive(r)
  BY <1>1 DEF Arrive, KeepStore, storeVars
<1>2. CASE CheckPostgres(r) \/ RefillCache(r)
  BY <1>2 DEF CheckPostgres, RefillCache, KeepStore, storeVars
<1>3. CASE Authorize(r)
  BY <1>3 DEF Authorize, KeepStore, storeVars
<1>4. CASE Reserve(r)
  BY <1>4 DEF Reserve
<1>5. CASE RejectStep(r)
  BY <1>5 DEF RejectStep
<1>6. CASE RejectPublish(r)
  BY <1>6 DEF RejectPublish
<1>7. CASE RejectNotice(r)
  BY <1>7 DEF RejectNotice
<1>8. CASE NoMerchant(r)
  BY <1>8 DEF NoMerchant
<1>9. CASE Charge(r)
  BY <1>9 DEF Charge, Conclude
<1>10. CASE CreatePayout(r)
  BY <1>10 DEF CreatePayout, Conclude
<1>11. CASE PollPayout(r)
  BY <1>11 DEF PollPayout, KeepStore, storeVars, Conclude
<1>12. CASE CreateRow(r)
  BY <1>12 DEF CreateRow, CreatePendingPayout
<1>13. CASE Escalate(r)
  BY <1>13 DEF Escalate
<1>14. CASE Fulfil(r)
  BY <1>14 DEF Fulfil
<1>15. CASE ReversePayout(r)
  BY <1>15 DEF ReversePayout
<1>16. CASE RzpException(r)
  BY <1>16 DEF RzpException, KeepStore, storeVars, Conclude
<1>17. CASE SettleBudget(r)
  BY <1>17 DEF SettleBudget
<1>18. CASE WriteStep(r)
  BY <1>18 DEF WriteStep
<1>19. CASE LinkRow(r)
  BY <1>19 DEF LinkRow, SetPendingPayoutStepId
<1>20. CASE SaveResponse(r)
  BY <1>20 DEF SaveResponse
<1>21. CASE CacheResponse(r)
  BY <1>21 DEF CacheResponse
<1> QED BY <1>1, <1>2, <1>3, <1>4, <1>5, <1>6, <1>7, <1>8, <1>9, <1>10, <1>11, <1>12, <1>13,
           <1>14, <1>15, <1>16, <1>17, <1>18, <1>19, <1>20, <1>21 DEF Handle

\* The handler creates its row, once, and never resolves it.
LEMMA HandleRows ==
    ASSUME TypeOK, RowsAfterCreate, NEW r \in Req, Handle(r)
    PROVE  \/ rows'[r].status = rows[r].status
           \/ /\ pc[r] = "row" /\ pc'[r] = "escalate"
              /\ rows[r].status = "none" /\ rows'[r].status = "pending"
<1> USE DEF TypeOK, PayTypeOK, StoreTypeOK, At
<1>1. CASE Arrive(r)
  BY <1>1 DEF Arrive, KeepStore, storeVars
<1>2. CASE CheckPostgres(r) \/ RefillCache(r)
  BY <1>2 DEF CheckPostgres, RefillCache, KeepStore, storeVars
<1>3. CASE Authorize(r)
  BY <1>3 DEF Authorize, KeepStore, storeVars
<1>4. CASE Reserve(r)
  BY <1>4 DEF Reserve
<1>5. CASE RejectStep(r)
  BY <1>5 DEF RejectStep
<1>6. CASE RejectPublish(r)
  BY <1>6 DEF RejectPublish
<1>7. CASE RejectNotice(r)
  BY <1>7 DEF RejectNotice
<1>8. CASE NoMerchant(r)
  BY <1>8 DEF NoMerchant
<1>9. CASE Charge(r)
  BY <1>9 DEF Charge, Conclude
<1>10. CASE CreatePayout(r)
  BY <1>10 DEF CreatePayout, Conclude
<1>11. CASE PollPayout(r)
  BY <1>11 DEF PollPayout, KeepStore, storeVars, Conclude
<1>12. CASE CreateRow(r)
  BY <1>12 DEF CreateRow, CreatePendingPayout, RowsAfterCreate, Recorded, Goto
<1>13. CASE Escalate(r)
  BY <1>13 DEF Escalate
<1>14. CASE Fulfil(r)
  BY <1>14 DEF Fulfil
<1>15. CASE ReversePayout(r)
  BY <1>15 DEF ReversePayout
<1>16. CASE RzpException(r)
  BY <1>16 DEF RzpException, KeepStore, storeVars, Conclude
<1>17. CASE SettleBudget(r)
  BY <1>17 DEF SettleBudget
<1>18. CASE WriteStep(r)
  BY <1>18 DEF WriteStep
<1>19. CASE LinkRow(r)
  BY <1>19 DEF LinkRow, SetPendingPayoutStepId, Row
<1>20. CASE SaveResponse(r)
  BY <1>20 DEF SaveResponse
<1>21. CASE CacheResponse(r)
  BY <1>21 DEF CacheResponse
<1> QED BY <1>1, <1>2, <1>3, <1>4, <1>5, <1>6, <1>7, <1>8, <1>9, <1>10, <1>11, <1>12, <1>13,
           <1>14, <1>15, <1>16, <1>17, <1>18, <1>19, <1>20, <1>21 DEF Handle

\* Where the handler goes next, and with which conclusion.
LEMMA HandleLabels ==
    ASSUME TypeOK, LabelsMatchOutcomes, NEW r \in Req, Handle(r)
    PROVE  /\ LabelsMatchOutcomes'
           /\ pc[r] \in {"escalate", "budget"} \cup Recorded =>
                  pc'[r] \in {"escalate", "budget"} \cup Recorded
<1> USE DEF TypeOK, PayTypeOK, At, Goto, KeepConclusion, LabelsMatchOutcomes, Recorded
<1>1. CASE Arrive(r)
  BY <1>1 DEF Arrive, KeepStore, storeVars
<1>2. CASE CheckPostgres(r) \/ RefillCache(r)
  BY <1>2 DEF CheckPostgres, RefillCache, KeepStore, storeVars
<1>3. CASE Authorize(r)
  BY <1>3 DEF Authorize, KeepStore, storeVars
<1>4. CASE Reserve(r)
  BY <1>4 DEF Reserve
<1>5. CASE RejectStep(r)
  BY <1>5 DEF RejectStep
<1>6. CASE RejectPublish(r)
  BY <1>6 DEF RejectPublish
<1>7. CASE RejectNotice(r)
  BY <1>7 DEF RejectNotice
<1>8. CASE NoMerchant(r)
  BY <1>8 DEF NoMerchant
<1>9. CASE Charge(r)
  BY <1>9 DEF Charge, Conclude
<1>10. CASE CreatePayout(r)
  BY <1>10 DEF CreatePayout, Conclude
<1>11. CASE PollPayout(r)
  BY <1>11 DEF PollPayout, KeepStore, storeVars, Conclude
<1>12. CASE CreateRow(r)
  BY <1>12 DEF CreateRow
<1>13. CASE Escalate(r)
  BY <1>13 DEF Escalate
<1>14. CASE Fulfil(r)
  BY <1>14 DEF Fulfil
<1>15. CASE ReversePayout(r)
  BY <1>15 DEF ReversePayout
<1>16. CASE RzpException(r)
  BY <1>16 DEF RzpException, KeepStore, storeVars, Conclude
<1>17. CASE SettleBudget(r)
  BY <1>17 DEF SettleBudget
<1>18. CASE WriteStep(r)
  BY <1>18 DEF WriteStep
<1>19. CASE LinkRow(r)
  BY <1>19 DEF LinkRow
<1>20. CASE SaveResponse(r)
  BY <1>20 DEF SaveResponse
<1>21. CASE CacheResponse(r)
  BY <1>21 DEF CacheResponse
<1> QED BY <1>1, <1>2, <1>3, <1>4, <1>5, <1>6, <1>7, <1>8, <1>9, <1>10, <1>11, <1>12, <1>13,
           <1>14, <1>15, <1>16, <1>17, <1>18, <1>19, <1>20, <1>21 DEF Handle

\* A handler's step keeps the agreement.
LEMMA ControlHandle ==
    ASSUME ControlAgrees, NEW r \in Req, Handle(r), UNCHANGED workerVars
    PROVE  LabelsMatchOutcomes' /\ RowsAfterCreate' /\ WorkerMatchesRows'
<1>1. TypeOK /\ LabelsMatchOutcomes /\ RowsAfterCreate /\ WorkerMatchesRows
  BY DEF ControlAgrees
<1>2. LabelsMatchOutcomes'
  BY <1>1, HandleLabels
<1>3. /\ \A q \in Req \ {r} : pc'[q] = pc[q] /\ rows'[q] = rows[q]
      /\ \/ rows'[r].status = rows[r].status
         \/ /\ pc[r] = "row" /\ pc'[r] = "escalate"
            /\ rows[r].status = "none" /\ rows'[r].status = "pending"
      /\ pc[r] \in {"escalate", "budget"} \cup Recorded =>
             pc'[r] \in {"escalate", "budget"} \cup Recorded
  BY <1>1, HandleFrame, HandleRows, HandleLabels
<1>4. RowsAfterCreate'
  <2>1. ASSUME NEW q \in Req, rows'[q].status # "none"
        PROVE  pc'[q] \in {"escalate", "budget"} \cup Recorded
    <3>1. CASE q # r
      BY <1>1, <1>3, <2>1, <3>1 DEF RowsAfterCreate
    <3>2. CASE q = r
      BY <1>1, <1>3, <2>1, <3>2 DEF RowsAfterCreate
    <3> QED BY <3>1, <3>2
  <2> QED BY <2>1 DEF RowsAfterCreate
<1>5. \A q \in Req : rows[q].status # "none" => rows'[q].status = rows[q].status
  BY <1>3
<1>6. wpc' = wpc /\ todo' = todo /\ cur' = cur
  BY DEF workerVars
<1>7. todo' \subseteq OpenRows'
  BY <1>1, <1>5, <1>6 DEF WorkerMatchesRows, OpenRows
<1>8. wpc # "cycle" => cur \in Req
  BY <1>1 DEF WorkerMatchesRows
<1>9. WorkerMatchesRows'
  BY <1>1, <1>5, <1>6, <1>7, <1>8 DEF WorkerMatchesRows
<1> QED BY <1>2, <1>4, <1>9

\* A worker's step closes or touches one row, one that is pending.
LEMMA WorkerRows ==
    ASSUME TypeOK, WorkerMatchesRows, WorkerNext
    PROVE  \/ rows' = rows
           \/ /\ cur \in Req /\ rows[cur].status = "pending" /\ rows'[cur].status # "none"
              /\ \A q \in Req \ {cur} : rows'[q] = rows[q]
<1> USE DEF TypeOK, StoreTypeOK
<1>1. CASE FetchOpen \/ (\E r \in Req : Recheck(r)) \/ RecheckFails
  BY <1>1 DEF FetchOpen, Recheck, RecheckFails, storeVars
<1>2. CASE ReleaseHold \/ WriteResolutionStep \/ Announce \/ AnnounceExhausted
  BY <1>2 DEF ReleaseHold, WriteResolutionStep, Announce, AnnounceExhausted
<1> USE DEF WorkerMatchesRows, RowStatus
<1>3. CASE ResolveSettled
  BY <1>3, ResolveEffect DEF ResolveSettled
<1>4. CASE ResolveFailed
  BY <1>4, ResolveEffect DEF ResolveFailed
<1>5. CASE Touch
  BY <1>5, TouchEffect DEF Touch
<1>6. CASE Exhaust
  BY <1>6, ResolveEffect DEF Exhaust
<1> QED BY <1>1, <1>2, <1>3, <1>4, <1>5, <1>6 DEF WorkerNext, WorkerStep

\* A worker's step keeps the worker in agreement with the rows.
LEMMA ControlWorker ==
    ASSUME TypeOK, WorkerMatchesRows, WorkerNext
    PROVE  WorkerMatchesRows'
<1> USE DEF TypeOK, StoreTypeOK, WorkerTypeOK, WorkerMatchesRows
<1>1. CASE FetchOpen
  BY <1>1, StoreAssumption DEF FetchOpen, OpenRows, storeVars
<1>2. ASSUME NEW r \in Req, Recheck(r) PROVE WorkerMatchesRows'
  BY <1>2 DEF Recheck, OpenRows, storeVars
<1>3. CASE ResolveSettled
  <2>1. rows[cur].status = "pending" /\ cur \in Req \ todo
    BY <1>3 DEF ResolveSettled
  <2>2. rows'[cur].status = "resolved_settled" /\ \A q \in Req \ {cur} : rows'[q] = rows[q]
    BY <1>3, <2>1, ResolveEffect DEF ResolveSettled, RowStatus
  <2> QED BY <1>3, <2>1, <2>2 DEF ResolveSettled, OpenRows
<1>4. CASE ReleaseHold
  BY <1>4 DEF ReleaseHold, OpenRows
<1>5. CASE ResolveFailed
  <2>1. rows[cur].status = "pending" /\ cur \in Req \ todo
    BY <1>5 DEF ResolveFailed
  <2>2. rows'[cur].status = "resolved_failed" /\ \A q \in Req \ {cur} : rows'[q] = rows[q]
    BY <1>5, <2>1, ResolveEffect DEF ResolveFailed, RowStatus
  <2> QED BY <1>5, <2>1, <2>2 DEF ResolveFailed, OpenRows
<1>6. CASE WriteResolutionStep
  BY <1>6 DEF WriteResolutionStep, OpenRows
<1>7. CASE Announce
  BY <1>7, StoreAssumption DEF Announce, OpenRows, NextRow
<1>8. CASE Touch
  <2>1. rows[cur].status = "pending" /\ cur \in Req \ todo
    BY <1>8 DEF Touch
  <2>2. rows'[cur].status = "pending" /\ \A q \in Req \ {cur} : rows'[q] = rows[q]
    BY <1>8, <2>1, TouchEffect DEF Touch
  <2> QED BY <1>8, <2>1, <2>2 DEF Touch, OpenRows, NextRow
<1>9. CASE Exhaust
  <2>1. rows[cur].status = "pending" /\ cur \in Req \ todo
    BY <1>9 DEF Exhaust
  <2>2. rows'[cur].status = "exhausted" /\ \A q \in Req \ {cur} : rows'[q] = rows[q]
    BY <1>9, <2>1, ResolveEffect DEF Exhaust, RowStatus
  <2> QED BY <1>9, <2>1, <2>2 DEF Exhaust, OpenRows
<1>10. CASE AnnounceExhausted
  BY <1>10 DEF AnnounceExhausted, OpenRows, NextRow
<1>11. CASE RecheckFails
  BY <1>11 DEF RecheckFails, OpenRows, storeVars
<1> QED BY <1>1, <1>2, <1>3, <1>4, <1>5, <1>6, <1>7, <1>8, <1>9, <1>10, <1>11
        DEF WorkerNext, WorkerStep

LEMMA ControlInit == Init => ControlAgrees
<1> SUFFICES ASSUME Init PROVE ControlAgrees
  OBVIOUS
<1>1. TypeOK
  BY TypeInit
<1>2. LabelsMatchOutcomes /\ RowsAfterCreate
  BY DEF Init, PayInit, StoreInit, LabelsMatchOutcomes, RowsAfterCreate, Recorded, NoRow
<1>3. WorkerMatchesRows
  BY DEF Init, WorkerInit, WorkerMatchesRows
<1> QED BY <1>1, <1>2, <1>3 DEF ControlAgrees

LEMMA ControlNext == ControlAgrees /\ [Next]_vars => ControlAgrees'
<1> SUFFICES ASSUME ControlAgrees, [Next]_vars PROVE ControlAgrees'
  OBVIOUS
<1>1. TypeOK /\ LabelsMatchOutcomes /\ RowsAfterCreate /\ WorkerMatchesRows
  BY DEF ControlAgrees
<1>2. TypeOK'
  BY <1>1, TypeNext
<1> DEFINE Rest == LabelsMatchOutcomes' /\ RowsAfterCreate' /\ WorkerMatchesRows'
<1>3. ASSUME UNCHANGED <<pc, outcome, rows, workerVars>> PROVE Rest
  BY <1>1, <1>3 DEF LabelsMatchOutcomes, RowsAfterCreate, WorkerMatchesRows, OpenRows, workerVars
<1>4. ASSUME NEW r \in Req, Handle(r), UNCHANGED workerVars PROVE Rest
  BY <1>4, ControlHandle
<1>5. ASSUME NEW r \in Req, HandlerFails(r), UNCHANGED workerVars PROVE Rest
  BY <1>3, <1>5 DEF HandlerFails, KeepStore, storeVars
<1>6. ASSUME SetAegisMode \/ ProxyRestart, UNCHANGED workerVars PROVE Rest
  BY <1>3, <1>6 DEF SetAegisMode, ProxyRestart, KeepStore, storeVars
<1>7. ASSUME WorkerNext, UNCHANGED payVars PROVE Rest
  <2>1. LabelsMatchOutcomes'
    BY <1>1, <1>7 DEF LabelsMatchOutcomes, payVars
  <2>2. RowsAfterCreate'
    BY <1>1, <1>7, WorkerRows DEF RowsAfterCreate, payVars
  <2>3. WorkerMatchesRows'
    BY <1>1, <1>7, ControlWorker
  <2> QED BY <2>1, <2>2, <2>3
<1>8. ASSUME World, UNCHANGED <<payVars, workerVars>> PROVE Rest
  BY <1>3, <1>8 DEF World, GatewayDecides, RedisExpire, ReuseWorkflow, payVars
<1>9. ASSUME UNCHANGED vars PROVE Rest
  BY <1>3, <1>9 DEF vars, storeVars, payVars
<1>10. Rest
  <2> HIDE DEF Rest
  <2> QED BY <1>4, <1>5, <1>6, <1>7, <1>8, <1>9 DEF Next, PayNext
<1> QED BY <1>2, <1>10 DEF ControlAgrees

\* Whatever goes wrong around them, the handlers and the worker agree with the
\* tables on how far each payment has come: in particular every variable keeps
\* its type (a settled or failed step is never written without a conclusion).
THEOREM TypesHold == Spec => []TypeOK
<1>1. ControlAgrees => TypeOK
  BY DEF ControlAgrees
<1> QED BY <1>1, ControlInit, ControlNext, PTL DEF Spec

-----------------------------------------------------------------------------
(* The limit *)

\* A handler's step keeps the limit.
LEMMA LimitHandle ==
    ASSUME HonestMerchants, ControlAgrees, SettledWithinExpected, WithinLimit,
           NEW r \in Req, Handle(r)
    PROVE  SettledWithinExpected' /\ WithinLimit'
<1> USE StoreAssumption DEF SettledWithinExpected, WithinLimit
<1>0. /\ pc \in [Req -> PayLabels] /\ used \in Int
      /\ outcome \in [Req -> {"none", "settled", "failed", "pending"}]
      /\ actual \in [Req -> Nat]
  BY DEF ControlAgrees, TypeOK, StoreTypeOK, PayTypeOK
<1>1. CASE Arrive(r)
  BY <1>1, <1>0 DEF Arrive, KeepStore, storeVars
<1>2. CASE CheckPostgres(r) \/ RefillCache(r)
  <2>1. CASE CheckPostgres(r)
    BY <2>1, <1>0 DEF CheckPostgres, KeepStore, storeVars
  <2>2. CASE RefillCache(r)
    BY <2>2, <1>0 DEF RefillCache, KeepConclusion
  <2> QED BY <1>2, <2>1, <2>2
<1>3. CASE Authorize(r)
  BY <1>3, <1>0 DEF Authorize, KeepStore, storeVars, KeepConclusion
<1>4. CASE Reserve(r)
  BY <1>4, <1>0 DEF Reserve, KeepConclusion, ReserveBudget, ReserveFits
<1>5. CASE RejectStep(r)
  BY <1>5, <1>0 DEF RejectStep, KeepConclusion
<1>6. CASE RejectPublish(r)
  BY <1>6, <1>0 DEF RejectPublish, KeepConclusion
<1>7. CASE RejectNotice(r)
  BY <1>7, <1>0 DEF RejectNotice, KeepConclusion
<1>8. CASE NoMerchant(r)
  BY <1>8, <1>0 DEF NoMerchant, KeepConclusion, RollbackBudget
<1>9. CASE Charge(r)
  BY <1>9, <1>0 DEF Charge, Conclude, HonestMerchants
<1>10. CASE CreatePayout(r)
  BY <1>10, <1>0 DEF CreatePayout, Conclude
<1>11. CASE PollPayout(r)
  BY <1>11, <1>0 DEF PollPayout, KeepStore, storeVars, Conclude
<1>12. CASE CreateRow(r)
  BY <1>12, <1>0 DEF CreateRow, KeepConclusion
<1>13. CASE Escalate(r)
  BY <1>13, <1>0 DEF Escalate, KeepConclusion
<1>14. CASE Fulfil(r)
  BY <1>14, <1>0 DEF Fulfil, KeepConclusion
<1>15. CASE ReversePayout(r)
  BY <1>15, <1>0 DEF ReversePayout, KeepConclusion
<1>16. CASE RzpException(r)
  BY <1>16, <1>0 DEF RzpException, KeepStore, storeVars, Conclude
<1>17. CASE SettleBudget(r)
  BY <1>17, <1>0 DEF SettleBudget, KeepConclusion, RollbackBudget, CommitBudget, At
<1>18. CASE WriteStep(r)
  BY <1>18, <1>0 DEF WriteStep, KeepConclusion
<1>19. CASE LinkRow(r)
  BY <1>19, <1>0 DEF LinkRow, KeepConclusion
<1>20. CASE SaveResponse(r)
  BY <1>20, <1>0 DEF SaveResponse, KeepConclusion
<1>21. CASE CacheResponse(r)
  BY <1>21, <1>0 DEF CacheResponse
<1> QED BY <1>1, <1>2, <1>3, <1>4, <1>5, <1>6, <1>7, <1>8, <1>9, <1>10, <1>11, <1>12, <1>13,
           <1>14, <1>15, <1>16, <1>17, <1>18, <1>19, <1>20, <1>21 DEF Handle

\* The worker and the world never take anything from the budget.
LEMMA LimitElsewhere ==
    ASSUME ControlAgrees, SettledWithinExpected, WithinLimit,
           \/ WorkerNext /\ UNCHANGED payVars
           \/ World /\ UNCHANGED <<payVars, workerVars>>
    PROVE  SettledWithinExpected' /\ WithinLimit'
<1> USE StoreAssumption DEF WithinLimit
<1>1. used \in Int /\ (wpc = "release" => cur \in Req)
  BY DEF ControlAgrees, TypeOK, StoreTypeOK, WorkerMatchesRows
<1>2. SettledWithinExpected'
  BY DEF SettledWithinExpected, payVars
<1>3. ASSUME WorkerNext PROVE used' <= used
  BY <1>1, <1>3 DEF WorkerNext, WorkerStep, FetchOpen, Recheck, ResolveSettled, ReleaseHold,
     ResolveFailed, WriteResolutionStep, Announce, Touch, Exhaust, AnnounceExhausted, RecheckFails,
     RollbackBudget, storeVars
<1>4. ASSUME World PROVE used' = used \/ used' = 0
  BY <1>4 DEF World, GatewayDecides, RedisExpire, ReuseWorkflow, ResetWorkflow
<1>5. used' \in Int
  BY <1>1, <1>4 DEF WorkerNext, WorkerStep, FetchOpen, Recheck, ResolveSettled, ReleaseHold,
     ResolveFailed, WriteResolutionStep, Announce, Touch, Exhaust, AnnounceExhausted, RecheckFails,
     RollbackBudget, storeVars
<1> QED BY <1>1, <1>2, <1>3, <1>4, <1>5

LEMMA LimitInit == Init => LimitHolds
BY ControlInit, StoreAssumption
   DEF Init, StoreInit, PayInit, LimitHolds, SettledWithinExpected, WithinLimit

LEMMA LimitNext ==
    ASSUME HonestMerchants, LimitHolds, [Next]_vars
    PROVE  LimitHolds'
<1>1. ControlAgrees /\ SettledWithinExpected /\ WithinLimit
  BY DEF LimitHolds
<1>2. ControlAgrees'
  BY <1>1, ControlNext
<1>3. SettledWithinExpected' /\ WithinLimit'
  <2>1. ASSUME UNCHANGED <<used, outcome, actual>> PROVE SettledWithinExpected' /\ WithinLimit'
    BY <1>1, <2>1 DEF SettledWithinExpected, WithinLimit
  <2>2. ASSUME NEW r \in Req, Handle(r) PROVE SettledWithinExpected' /\ WithinLimit'
    BY <1>1, <2>2, LimitHandle
  <2>3. ASSUME NEW r \in Req, HandlerFails(r) PROVE SettledWithinExpected' /\ WithinLimit'
    BY <2>1, <2>3 DEF HandlerFails, KeepStore, storeVars
  <2>4. ASSUME SetAegisMode \/ ProxyRestart PROVE SettledWithinExpected' /\ WithinLimit'
    BY <2>1, <2>4 DEF SetAegisMode, ProxyRestart, KeepStore, storeVars
  <2>5. ASSUME UNCHANGED vars PROVE SettledWithinExpected' /\ WithinLimit'
    BY <2>1, <2>5 DEF vars, storeVars, payVars
  <2> QED BY <1>1, <2>2, <2>3, <2>4, <2>5, LimitElsewhere DEF Next, PayNext
<1> QED BY <1>2, <1>3 DEF LimitHolds

\* The mandate is never exceeded: whatever the interleaving of the calls of
\* /pay, and whichever misfortunes happen (retries in flight, crashes, lost
\* replies, rechecks that fail, a reset of the workflow), budget_used stays
\* within budget_limit, provided merchants charge at most what was expected.
THEOREM LimitKept ==
    ASSUME HonestMerchants
    PROVE  Spec => []WithinLimit
<1>1. LimitHolds /\ [Next]_vars => LimitHolds'
  BY LimitNext
<1>2. LimitHolds => WithinLimit
  BY DEF LimitHolds
<1> QED BY LimitInit, <1>1, <1>2, PTL DEF Spec

===============================================================================
