--------------------------- MODULE AccountingProofs ---------------------------
(***************************************************************************)
(* budget_used is the sum of what the calls of /pay hold or have spent:    *)
(* proofs that the budget of module Payments accounts for every call, that *)
(* the mandate therefore bounds the money that can move, and that Payments *)
(* implements module Mandate.                                              *)
(***************************************************************************)
EXTENDS PaymentsProofs

\* A released hold is the hold of a payment that has a row.
LEMMA ReleasedHasRow ==
    ASSUME ControlAgrees, RowsAfterCreate, NEW r \in Req, Released(r)
    PROVE  rows[r].status # "none" /\ pc[r] \in {"escalate", "budget"} \cup Recorded
BY DEF ControlAgrees, WorkerMatchesRows, Released, Releasing, RowsAfterCreate

LEMMA OwedNat ==
    ASSUME TypeOK
    PROVE  \A r \in Req : Owed(r) \in Nat
BY StoreAssumption DEF TypeOK, PayTypeOK, Owed

\* One call's part changes, and the budget by as much.
LEMMA AccountsUpdate ==
    ASSUME TypeOK, TypeOK', BudgetAccountsForEveryCall, NEW r \in Req,
           \A q \in Req \ {r} : Owed(q)' = Owed(q),
           used' = used - Owed(r) + Owed(r)'
    PROVE  BudgetAccountsForEveryCall'
<1> DEFINE f == [q \in Req |-> Owed(q)]
           g == [q \in Req |-> Owed(q)']
<1>1. f \in [Req -> Nat] /\ g \in [Req -> Nat]
  <2>1. \A q \in Req : Owed(q) \in Nat
    BY OwedNat
  <2>2. \A q \in Req : Owed(q)' \in Nat
    BY StoreAssumption DEF TypeOK, PayTypeOK, Owed
  <2> QED BY <2>1, <2>2
<1>2. f[r] = Owed(r) /\ g[r] = Owed(r)' /\ \A q \in Req \ {r} : g[q] = f[q]
  OBVIOUS
<1>3. used = Total(f)
  BY DEF BudgetAccountsForEveryCall, OwedTotal
<1>4. used' = Total(g) <=> BudgetAccountsForEveryCall'
  BY DEF BudgetAccountsForEveryCall, OwedTotal
<1> HIDE DEF f, g
<1>5. Total(g) = Total(f) - f[r] + g[r]
  BY <1>1, <1>2, TotalUpdate, StoreAssumption
<1> QED BY <1>2, <1>3, <1>4, <1>5

\* No call's part changes, and neither does the budget.
LEMMA AccountsSame ==
    ASSUME BudgetAccountsForEveryCall, \A q \in Req : Owed(q)' = Owed(q), used' = used
    PROVE  BudgetAccountsForEveryCall'
BY DEF BudgetAccountsForEveryCall, OwedTotal

-----------------------------------------------------------------------------
(* Handlers *)

\* What a call holds is untouched by the steps of other calls.
LEMMA OthersOwed ==
    ASSUME TypeOK, NEW r \in Req, Handle(r), UNCHANGED workerVars
    PROVE  \A q \in Req \ {r} : Owed(q)' = Owed(q)
<1>1. \A q \in Req \ {r} :
          pc'[q] = pc[q] /\ outcome'[q] = outcome[q] /\ actual'[q] = actual[q]
          /\ rows'[q] = rows[q]
  BY HandleFrame
<1> QED BY <1>1 DEF Owed, Released, Releasing, workerVars

\* A handler's own step moves its part and the budget together.
LEMMA HandleOwed ==
    ASSUME ControlAgrees, RowsArePending, NoSlips, NEW r \in Req, Handle(r), UNCHANGED workerVars
    PROVE  used' = used - Owed(r) + Owed(r)'
<1> USE StoreAssumption DEF At, Goto, KeepConclusion, Owed, Reserved, Recorded
<1>1. TypeOK /\ RowsAfterCreate
  BY DEF ControlAgrees
<1>2. /\ pc \in [Req -> PayLabels] /\ used \in Int
      /\ outcome \in [Req -> {"none", "settled", "failed", "pending"}]
      /\ actual \in [Req -> Nat] /\ rows \in [Req -> Row]
  BY <1>1 DEF TypeOK, StoreTypeOK, PayTypeOK
<1>3. /\ Released(r) => /\ rows[r].status # "none" /\ outcome[r] = "pending"
                        /\ pc[r] \in {"escalate", "budget"} \cup Recorded
  BY <1>1, ReleasedHasRow DEF RowsArePending
<1>4. Released(r)' = Released(r)
  <2>1. \/ rows'[r].status = rows[r].status
        \/ /\ pc[r] = "row" /\ pc'[r] = "escalate"
           /\ rows[r].status = "none" /\ rows'[r].status = "pending"
    BY <1>1, HandleRows
  <2> QED BY <2>1 DEF Released, Releasing, workerVars
<1> HIDE DEF Released
<1>5. CASE Arrive(r)
  BY <1>5, <1>2, <1>3, <1>4 DEF Arrive, KeepStore, storeVars, PayLabels
<1>6. CASE CheckPostgres(r) \/ RefillCache(r)
  BY <1>6, <1>2, <1>3, <1>4 DEF CheckPostgres, RefillCache, KeepStore, storeVars
<1>7. CASE Authorize(r)
  BY <1>7, <1>2, <1>3, <1>4 DEF Authorize, KeepStore, storeVars
<1>8. CASE Reserve(r)
  BY <1>8, <1>2, <1>3, <1>4 DEF Reserve, ReserveBudget, ReserveFits
<1>9. CASE RejectStep(r)
  BY <1>9, <1>2, <1>3, <1>4 DEF RejectStep
<1>10. CASE RejectPublish(r)
  BY <1>10, <1>2, <1>3, <1>4 DEF RejectPublish
<1>11. CASE RejectNotice(r)
  BY <1>11, <1>2, <1>3, <1>4 DEF RejectNotice
<1>12. CASE NoMerchant(r)
  BY <1>12, <1>2, <1>3, <1>4 DEF NoMerchant, RollbackBudget
<1>13. CASE Charge(r)
  BY <1>13, <1>2, <1>3, <1>4 DEF Charge, Conclude
<1>14. CASE CreatePayout(r)
  BY <1>14, <1>2, <1>3, <1>4 DEF CreatePayout, Conclude
<1>15. CASE PollPayout(r)
  BY <1>15, <1>2, <1>3, <1>4 DEF PollPayout, KeepStore, storeVars, Conclude
<1>16. CASE CreateRow(r)
  BY <1>16, <1>2, <1>3, <1>4 DEF CreateRow, CreatePendingPayout, Row
<1>17. CASE Escalate(r)
  BY <1>17, <1>2, <1>3, <1>4 DEF Escalate
<1>18. CASE Fulfil(r)
  BY <1>18, <1>2, <1>3, <1>4 DEF Fulfil
<1>19. CASE ReversePayout(r)
  BY <1>19, <1>2, <1>3, <1>4 DEF ReversePayout
<1>20. CASE RzpException(r)
  BY <1>20, <1>2, <1>3, <1>4 DEF RzpException, KeepStore, storeVars, Conclude, NoSlips
<1>21. CASE SettleBudget(r)
  BY <1>21, <1>2, <1>3, <1>4 DEF SettleBudget, RollbackBudget, CommitBudget
<1>22. CASE WriteStep(r)
  BY <1>22, <1>2, <1>3, <1>4 DEF WriteStep
<1>23. CASE LinkRow(r)
  BY <1>23, <1>2, <1>3, <1>4 DEF LinkRow
<1>24. CASE SaveResponse(r)
  BY <1>24, <1>2, <1>3, <1>4 DEF SaveResponse
<1>25. CASE CacheResponse(r)
  BY <1>25, <1>2, <1>3, <1>4 DEF CacheResponse
<1> QED BY <1>5, <1>6, <1>7, <1>8, <1>9, <1>10, <1>11, <1>12, <1>13, <1>14, <1>15, <1>16, <1>17,
           <1>18, <1>19, <1>20, <1>21, <1>22, <1>23, <1>24, <1>25 DEF Handle

\* A handler that has a row keeps the conclusion it created the row with.
LEMMA PendingHandle ==
    ASSUME ControlAgrees, RowsArePending, NoSlips, NEW r \in Req, Handle(r)
    PROVE  RowsArePending'
<1> USE DEF At, Goto, KeepConclusion, Recorded
<1>1. TypeOK /\ RowsAfterCreate /\ LabelsMatchOutcomes
  BY DEF ControlAgrees
<1>2. /\ \A q \in Req \ {r} : outcome'[q] = outcome[q] /\ rows'[q] = rows[q]
      /\ \/ rows'[r].status = rows[r].status
         \/ pc[r] = "row" /\ pc'[r] = "escalate"
  BY <1>1, HandleFrame, HandleRows
<1>3. pc[r] \in PayLabels
  BY <1>1 DEF TypeOK, PayTypeOK
<1>4. CASE pc[r] \in {"escalate", "budget"} \cup Recorded
  <2>1. outcome' = outcome
    BY <1>4, <1>3 DEF Handle, Arrive, CheckPostgres, RefillCache,
       Authorize, Reserve, RejectStep, RejectPublish,
       RejectNotice, NoMerchant, Charge, CreatePayout, PollPayout, CreateRow, Escalate, Fulfil,
       ReversePayout, RzpException, NoSlips, SettleBudget, WriteStep, LinkRow, SaveResponse,
       CacheResponse
  <2> QED BY <1>2, <1>4, <2>1 DEF RowsArePending
<1>5. CASE pc[r] = "row"
  <2>1. outcome[r] = "pending" /\ (rows'[r].status # "none" => pc'[r] # "budget")
    BY <1>1, <1>2, <1>5 DEF LabelsMatchOutcomes, RowsAfterCreate
  <2>2. outcome' = outcome
    BY <1>5, <1>3 DEF Handle, Arrive, CheckPostgres, RefillCache,
       Authorize, Reserve, RejectStep, RejectPublish,
       RejectNotice, NoMerchant, Charge, CreatePayout, PollPayout, CreateRow, Escalate, Fulfil,
       ReversePayout, RzpException, NoSlips, SettleBudget, WriteStep, LinkRow, SaveResponse,
       CacheResponse
  <2> QED BY <1>2, <2>1, <2>2 DEF RowsArePending
<1>6. CASE pc[r] \notin {"row", "escalate", "budget"} \cup Recorded
  BY <1>1, <1>2, <1>6 DEF RowsArePending, RowsAfterCreate
<1> QED BY <1>4, <1>5, <1>6

-----------------------------------------------------------------------------
(* The worker *)

\* A recheck releases a hold once, and the budget by as much.
LEMMA WorkerOwed ==
    ASSUME ControlAgrees, RowsArePending, NoSlips, WorkerNext, UNCHANGED payVars,
           NEW c, cur = c
    PROVE  /\ \A q \in Req \ {c} : Owed(q)' = Owed(q)
           /\ IF c \in Req THEN used' = used - Owed(c) + Owed(c)' ELSE used' = used
<1>1. /\ TypeOK /\ RowsAfterCreate /\ WorkerMatchesRows
      /\ used \in Int /\ rows \in [Req -> Row] /\ None \notin Req
      /\ (c \in Req => Owed(c) \in Nat)
  BY OwedNat, StoreAssumption DEF ControlAgrees, TypeOK, StoreTypeOK
<1>2. pc' = pc /\ outcome' = outcome /\ actual' = actual
  BY DEF payVars
<1> DEFINE Same == (\A q \in Req : Released(q)' = Released(q)) /\ used' = used
<1>3. ASSUME Same PROVE (\A q \in Req : Owed(q)' = Owed(q)) /\ used' = used
  BY <1>2, <1>3 DEF Owed
<1> USE DEF WorkerMatchesRows, NextRow
<1>4. CASE FetchOpen
  BY <1>1, <1>3, <1>4 DEF FetchOpen, storeVars, Released, Releasing
<1>5. ASSUME NEW r \in Req, Recheck(r) PROVE Same
  BY <1>1, <1>5 DEF Recheck, storeVars, Released, Releasing
<1>6. CASE ResolveSettled
  <2>1. rows'[c].status = "resolved_settled" /\ \A q \in Req \ {c} : rows'[q] = rows[q]
    BY <1>1, <1>6, ResolveEffect DEF ResolveSettled, RowStatus
  <2>2. Same
    BY <1>1, <1>6, <2>1 DEF ResolveSettled, Released, Releasing
  <2> QED BY <1>1, <1>3, <2>2
<1>7. CASE ReleaseHold
  <2>1. c \in Req /\ rows[c].status = "pending" /\ rows' = rows
    BY <1>1, <1>7 DEF ReleaseHold
  <2>2. /\ ~Released(c) /\ Released(c)'
        /\ \A q \in Req \ {c} : Released(q)' = Released(q)
    BY <1>1, <1>7, <2>1 DEF ReleaseHold, Released, Releasing
  <2>3. outcome[c] = "pending" /\ pc[c] \in {"escalate", "budget"} \cup Recorded
    BY <1>1, <2>1 DEF RowsArePending, RowsAfterCreate
  <2>4. Owed(c) = Amount[c] /\ Owed(c)' = 0
    BY <1>2, <2>2, <2>3 DEF Owed, Reserved, Recorded
  <2>5. \A q \in Req \ {c} : Owed(q)' = Owed(q)
    BY <1>2, <2>2 DEF Owed
  <2> QED BY <1>1, <1>7, <2>1, <2>4, <2>5, StoreAssumption DEF ReleaseHold, RollbackBudget
<1>8. CASE ResolveFailed
  <2>1. rows'[c].status = "resolved_failed" /\ \A q \in Req \ {c} : rows'[q] = rows[q]
    BY <1>1, <1>8, ResolveEffect DEF ResolveFailed, RowStatus
  <2>2. Same
    BY <1>1, <1>8, <2>1 DEF ResolveFailed, Released, Releasing
  <2> QED BY <1>1, <1>3, <2>2
<1>9. CASE WriteResolutionStep \/ Announce \/ AnnounceExhausted
  <2>1. Same
    BY <1>1, <1>9 DEF WriteResolutionStep, Announce, AnnounceExhausted, Released, Releasing
  <2> QED BY <1>1, <1>3, <2>1
<1>10. CASE Touch
  <2>1. rows'[c].status = "pending" /\ \A q \in Req \ {c} : rows'[q] = rows[q]
    BY <1>1, <1>10, TouchEffect DEF Touch
  <2>2. Same
    BY <1>1, <1>10, <2>1 DEF Touch, Released, Releasing
  <2> QED BY <1>1, <1>3, <2>2
<1>11. CASE Exhaust
  <2>1. rows'[c].status = "exhausted" /\ \A q \in Req \ {c} : rows'[q] = rows[q]
    BY <1>1, <1>11, ResolveEffect DEF Exhaust, RowStatus
  <2>2. Same
    BY <1>1, <1>11, <2>1 DEF Exhaust, Released, Releasing
  <2> QED BY <1>1, <1>3, <2>2
<1>12. CASE RecheckFails
  BY <1>12 DEF RecheckFails, NoSlips
<1>13. CASE \E r \in Req : Recheck(r)
  BY <1>1, <1>3, <1>5, <1>13
<1> QED BY <1>4, <1>6, <1>7, <1>8, <1>9, <1>10, <1>11, <1>12, <1>13 DEF WorkerNext, WorkerStep

-----------------------------------------------------------------------------
(* The accounting holds *)

LEMMA BookkeepingNext ==
    ASSUME NoSlips, Bookkeeping, [Next]_vars
    PROVE  Bookkeeping'
<1>1. /\ ControlAgrees /\ RowsArePending /\ BudgetAccountsForEveryCall
      /\ TypeOK /\ WorkerMatchesRows
  BY DEF Bookkeeping, ControlAgrees
<1>2. ControlAgrees' /\ TypeOK'
  BY <1>1, ControlNext DEF ControlAgrees
<1> DEFINE Rest == RowsArePending' /\ BudgetAccountsForEveryCall'
<1>3. ASSUME UNCHANGED <<used, pc, outcome, actual, rows, workerVars>> PROVE Rest
  <2>1. \A q \in Req : Owed(q)' = Owed(q)
    BY <1>3 DEF Owed, Released, Releasing, workerVars
  <2>2. RowsArePending'
    BY <1>1, <1>3 DEF RowsArePending
  <2> QED BY <1>1, <1>3, <2>1, <2>2, AccountsSame
<1>4. ASSUME NEW r \in Req, Handle(r), UNCHANGED workerVars PROVE Rest
  <2>1. \A q \in Req \ {r} : Owed(q)' = Owed(q)
    BY <1>1, <1>4, OthersOwed
  <2>2. used' = used - Owed(r) + Owed(r)'
    BY <1>1, <1>4, HandleOwed
  <2>3. BudgetAccountsForEveryCall'
    BY <1>1, <1>2, <2>1, <2>2, AccountsUpdate
  <2> QED BY <1>1, <1>4, <2>3, PendingHandle
<1>5. ASSUME NEW r \in Req, HandlerFails(r), UNCHANGED workerVars PROVE Rest
  BY <1>3, <1>5 DEF HandlerFails, KeepStore, storeVars
<1>6. ASSUME SetAegisMode \/ ProxyRestart, UNCHANGED workerVars PROVE Rest
  BY <1>3, <1>6 DEF SetAegisMode, ProxyRestart, KeepStore, storeVars
<1>7. ASSUME WorkerNext, UNCHANGED payVars PROVE Rest
  <2>1. RowsArePending'
    BY <1>1, <1>7, WorkerRows DEF RowsArePending, payVars
  <2>2. PICK c : c = cur
    OBVIOUS
  <2>3. /\ \A q \in Req \ {c} : Owed(q)' = Owed(q)
        /\ IF c \in Req THEN used' = used - Owed(c) + Owed(c)' ELSE used' = used
    BY <1>1, <1>7, <2>2, WorkerOwed
  <2>4. CASE c \in Req
    BY <1>1, <1>2, <2>1, <2>3, <2>4, AccountsUpdate
  <2>5. CASE c \notin Req
    BY <1>1, <2>1, <2>3, <2>5, AccountsSame
  <2> QED BY <2>4, <2>5
<1>8. ASSUME World, UNCHANGED <<payVars, workerVars>> PROVE Rest
  <2>1. ~ReuseWorkflow
    BY DEF NoSlips, ReuseWorkflow
  <2> QED BY <1>3, <1>8, <2>1 DEF World, GatewayDecides, RedisExpire, payVars
<1>9. ASSUME UNCHANGED vars PROVE Rest
  BY <1>3, <1>9 DEF vars, storeVars, payVars
<1>10. Rest
  <2> HIDE DEF Rest
  <2> QED BY <1>4, <1>5, <1>6, <1>7, <1>8, <1>9 DEF Next, PayNext
<1> QED BY <1>2, <1>10 DEF Bookkeeping

LEMMA BookkeepingInit == Init => Bookkeeping
<1> SUFFICES ASSUME Init PROVE Bookkeeping
  OBVIOUS
<1>1. ControlAgrees /\ TypeOK
  BY ControlInit, TypeInit
<1>2. RowsArePending /\ \A r \in Req : Owed(r) = 0
  BY DEF Init, PayInit, StoreInit, RowsArePending, NoRow, Owed, Reserved, Recorded
<1> DEFINE f == [r \in Req |-> Owed(r)]
<1>3. f \in [Req -> Nat] /\ \A r \in Req : f[r] = 0
  BY <1>2
<1>4. used = 0 /\ (BudgetAccountsForEveryCall <=> used = Total(f))
  BY DEF Init, StoreInit, BudgetAccountsForEveryCall, OwedTotal
<1> HIDE DEF f
<1> QED BY <1>1, <1>2, <1>3, <1>4, TotalZero DEF Bookkeeping

\* Every rupee of budget_used belongs to exactly one call of /pay that holds it
\* or has spent it, through any interleaving of the calls, the recheck worker,
\* retries in flight, lost replies, cache evictions, crashes of the handlers
\* and restarts of the proxy.  NoSlips excludes what breaks it in the code: an
\* exception in the RazorpayX branch, a failing recheck, a reused workflow id.
THEOREM BudgetAccounts ==
    ASSUME NoSlips
    PROVE  Spec => []BudgetAccountsForEveryCall
<1>1. Bookkeeping /\ [Next]_vars => Bookkeeping'
  BY BookkeepingNext
<1>2. Bookkeeping => BudgetAccountsForEveryCall
  BY DEF Bookkeeping
<1> QED BY BookkeepingInit, <1>1, <1>2, PTL DEF Spec

\* No hold is released twice and nothing is released that was not held, by /pay
\* or by the worker: rollback_budget() subtracts without a check, and NoSlips is
\* what keeps budget_used from going below zero.  Run RecheckReleasesTwice has
\* one of the slips and ends below zero.
THEOREM BudgetStaysPositive ==
    ASSUME NoSlips
    PROVE  Spec => []BudgetNeverNegative
<1>1. Bookkeeping /\ [Next]_vars => Bookkeeping'
  BY BookkeepingNext
<1>2. Bookkeeping => BudgetNeverNegative
  <2> SUFFICES ASSUME Bookkeeping PROVE used >= 0
    BY DEF BudgetNeverNegative
  <2> DEFINE f == [r \in Req |-> Owed(r)]
  <2>1. TypeOK /\ used = Total(f)
    BY DEF Bookkeeping, ControlAgrees, BudgetAccountsForEveryCall, OwedTotal
  <2>2. f \in [Req -> Nat]
    BY <2>1, OwedNat
  <2> HIDE DEF f
  <2> QED BY <2>1, <2>2, TotalNat, StoreAssumption
<1> QED BY BookkeepingInit, <1>1, <1>2, PTL DEF Spec

-----------------------------------------------------------------------------
(* The budget covers the money *)

\* A handler's step: the only one of them that can move money, or commit to.
LEMMA MoneyHandle ==
    ASSUME ControlAgrees, RowsArePending, MoneyIsOwed, NoSlips, HonestMerchants,
           "lost_reply" \notin Env, NEW r \in Req, Handle(r), UNCHANGED workerVars
    PROVE  ChargesAreSettled' /\ PayoutsAreKnown'
<1> USE StoreAssumption DEF At, Goto, KeepConclusion, Reserved, Recorded, RzpKinds
<1>1. TypeOK /\ LabelsMatchOutcomes /\ ChargesAreSettled /\ PayoutsAreKnown
  BY DEF ControlAgrees, MoneyIsOwed
<1>2. /\ pc \in [Req -> PayLabels]
      /\ outcome \in [Req -> {"none", "settled", "failed", "pending"}]
      /\ actual \in [Req -> Nat] /\ charged \in [Req -> Nat]
      /\ payout \in [Req -> {"none", "nonterminal", "processed", "failed"}]
  BY <1>1 DEF TypeOK, StoreTypeOK, PayTypeOK
<1>3. \A q \in Req \ {r} :
          pc'[q] = pc[q] /\ outcome'[q] = outcome[q] /\ actual'[q] = actual[q]
          /\ charged'[q] = charged[q] /\ payout'[q] = payout[q]
  BY <1>1, HandleFrame
<1> DEFINE Settled == charged'[r] # 0 =>
               /\ Kind[r] = "mock" /\ pc'[r] \in {"budget"} \cup Recorded
               /\ outcome'[r] = "settled"
               /\ actual'[r] = charged'[r] /\ charged'[r] <= Amount[r]
           Known == payout'[r] # "none" =>
               /\ Kind[r] \in RzpKinds /\ pc'[r] \in (Reserved \ {"forward"}) \cup Recorded
               /\ pc'[r] \in {"fulfil", "reverse", "budget"} \cup Recorded =>
                      \/ outcome'[r] = "settled" /\ actual'[r] = Sent[r]
                      \/ outcome'[r] = "pending"
                      \/ outcome'[r] = "failed" /\ payout'[r] = "failed"
<1>4. Settled /\ Known => ChargesAreSettled' /\ PayoutsAreKnown'
  BY <1>1, <1>3 DEF ChargesAreSettled, PayoutsAreKnown
<1>5. /\ charged[r] # 0 =>
             /\ Kind[r] = "mock" /\ pc[r] \in {"budget"} \cup Recorded
             /\ outcome[r] = "settled"
             /\ actual[r] = charged[r] /\ charged[r] <= Amount[r]
      /\ payout[r] # "none" =>
             /\ Kind[r] \in RzpKinds /\ pc[r] \in (Reserved \ {"forward"}) \cup Recorded
             /\ pc[r] \in {"fulfil", "reverse", "budget"} \cup Recorded =>
                    \/ outcome[r] = "settled" /\ actual[r] = Sent[r]
                    \/ outcome[r] = "pending"
                    \/ outcome[r] = "failed" /\ payout[r] = "failed"
      /\ pc[r] \in {"row", "escalate"} => outcome[r] = "pending"
      /\ pc[r] \in {"fulfil", "reverse"} => outcome[r] = "settled"
  BY <1>1 DEF ChargesAreSettled, PayoutsAreKnown, LabelsMatchOutcomes
<1>6. CASE Arrive(r)
  BY <1>6, <1>2, <1>4, <1>5 DEF Arrive, KeepStore, storeVars, PayLabels
<1>7. CASE CheckPostgres(r) \/ RefillCache(r)
  BY <1>7, <1>2, <1>4, <1>5 DEF CheckPostgres, RefillCache, KeepStore, storeVars
<1>8. CASE Authorize(r)
  BY <1>8, <1>2, <1>4, <1>5 DEF Authorize, KeepStore, storeVars
<1>9. CASE Reserve(r)
  BY <1>9, <1>2, <1>4, <1>5 DEF Reserve
<1>10. CASE RejectStep(r)
  BY <1>10, <1>2, <1>4, <1>5 DEF RejectStep
<1>11. CASE RejectPublish(r)
  BY <1>11, <1>2, <1>4, <1>5 DEF RejectPublish
<1>12. CASE RejectNotice(r)
  BY <1>12, <1>2, <1>4, <1>5 DEF RejectNotice
<1>13. CASE NoMerchant(r)
  BY <1>13, <1>2, <1>4, <1>5 DEF NoMerchant
<1>14. CASE Charge(r)
  BY <1>14, <1>2, <1>4, <1>5 DEF Charge, Conclude, HonestMerchants
<1>15. CASE CreatePayout(r)
  BY <1>15, <1>2, <1>4, <1>5 DEF CreatePayout, Conclude
<1>16. CASE PollPayout(r)
  BY <1>16, <1>2, <1>4, <1>5 DEF PollPayout, KeepStore, storeVars, Conclude
<1>17. CASE CreateRow(r)
  BY <1>17, <1>2, <1>4, <1>5 DEF CreateRow
<1>18. CASE Escalate(r)
  BY <1>18, <1>2, <1>4, <1>5 DEF Escalate
<1>19. CASE Fulfil(r)
  BY <1>19, <1>2, <1>4, <1>5 DEF Fulfil
<1>20. CASE ReversePayout(r)
  BY <1>20, <1>2, <1>4, <1>5 DEF ReversePayout
<1>21. CASE RzpException(r)
  BY <1>21, <1>2, <1>4, <1>5 DEF RzpException, KeepStore, storeVars, Conclude, NoSlips
<1>22. CASE SettleBudget(r)
  BY <1>22, <1>2, <1>4, <1>5 DEF SettleBudget
<1>23. CASE WriteStep(r)
  BY <1>23, <1>2, <1>4, <1>5 DEF WriteStep
<1>24. CASE LinkRow(r)
  BY <1>24, <1>2, <1>4, <1>5 DEF LinkRow
<1>25. CASE SaveResponse(r)
  BY <1>25, <1>2, <1>4, <1>5 DEF SaveResponse
<1>26. CASE CacheResponse(r)
  BY <1>26, <1>2, <1>4, <1>5 DEF CacheResponse
<1> QED BY <1>6, <1>7, <1>8, <1>9, <1>10, <1>11, <1>12, <1>13, <1>14, <1>15, <1>16, <1>17, <1>18,
           <1>19, <1>20, <1>21, <1>22, <1>23, <1>24, <1>25, <1>26 DEF Handle

\* Only the hold of a payout that failed is given back, and failed is final.
LEMMA ReleasesNext ==
    ASSUME ControlAgrees, ControlAgrees', ReleasesAreSafe, PayoutsAreKnown, [Next]_vars
    PROVE  ReleasesAreSafe'
<1>1. TypeOK /\ RowsAfterCreate /\ WorkerMatchesRows
  BY DEF ControlAgrees
<1> DEFINE Freeing(r) == Released(r) \/ (cur = r /\ wpc = "release")
<1>2. \A r \in Req : payout[r] = "failed" => payout'[r] = "failed"
  <2> SUFFICES ASSUME NEW r \in Req, payout[r] = "failed" PROVE payout'[r] = "failed"
    OBVIOUS
  <2>1. ASSUME NEW q \in Req, Handle(q) PROVE payout'[r] = "failed"
    <3>1. CASE q # r
      BY <1>1, <2>1, <3>1, HandleFrame
    <3>2. CASE q = r
      <4>1. ~CreatePayout(q)
        BY <3>2 DEF PayoutsAreKnown, CreatePayout, At, Reserved, Recorded
      <4> QED BY <2>1, <3>2, <4>1
              DEF Handle, Arrive, CheckPostgres, RefillCache,
                 Authorize, Reserve, RejectStep, RejectPublish,
              RejectNotice, NoMerchant, Charge, PollPayout, CreateRow, Escalate, Fulfil,
              ReversePayout, RzpException, SettleBudget, WriteStep, LinkRow, SaveResponse,
              CacheResponse, KeepStore, storeVars
    <3> QED BY <3>1, <3>2
  <2>2. ASSUME NEW q \in Req, HandlerFails(q) PROVE payout'[r] = "failed"
    BY <2>2 DEF HandlerFails, KeepStore, storeVars
  <2>3. CASE SetAegisMode \/ ProxyRestart \/ UNCHANGED vars
    BY <2>3 DEF SetAegisMode, ProxyRestart, KeepStore, storeVars, vars
  <2>4. CASE WorkerNext
    BY <2>4 DEF WorkerNext, WorkerStep, FetchOpen, Recheck, ResolveSettled, ReleaseHold,
       ResolveFailed, WriteResolutionStep, Announce, Touch, Exhaust, AnnounceExhausted,
       RecheckFails, storeVars
  <2>5. CASE World
    BY <1>1, <2>5 DEF World, GatewayDecides, RedisExpire, ReuseWorkflow, TypeOK, StoreTypeOK
  <2> QED BY <2>1, <2>2, <2>3, <2>4, <2>5 DEF Next, PayNext
<1>3. \A r \in Req : Freeing(r)' => Freeing(r) \/ payout'[r] = "failed"
  <2> SUFFICES ASSUME NEW r \in Req, Freeing(r)' PROVE Freeing(r) \/ payout'[r] = "failed"
    OBVIOUS
  <2>1. ASSUME UNCHANGED <<rows, workerVars>> PROVE Freeing(r)
    BY <2>1 DEF Released, Releasing, workerVars
  <2>2. ASSUME NEW q \in Req, Handle(q), UNCHANGED workerVars PROVE Freeing(r)
    <3>1. rows'[r].status = "resolved_failed" => rows[r].status = "resolved_failed"
      BY <1>1, <2>2, HandleFrame, HandleRows
    <3> QED BY <2>2, <3>1 DEF Released, Releasing, workerVars
  <2>3. ASSUME NEW q \in Req, HandlerFails(q), UNCHANGED workerVars PROVE Freeing(r)
    BY <2>1, <2>3 DEF HandlerFails, KeepStore, storeVars
  <2>4. ASSUME SetAegisMode \/ ProxyRestart, UNCHANGED workerVars PROVE Freeing(r)
    BY <2>1, <2>4 DEF SetAegisMode, ProxyRestart, KeepStore, storeVars
  <2>5. CASE UNCHANGED vars
    BY <2>1, <2>5 DEF vars, storeVars
  <2>6. CASE World /\ UNCHANGED <<payVars, workerVars>>
    BY <2>1, <2>6 DEF World, GatewayDecides, RedisExpire, ReuseWorkflow
  <2>7. CASE WorkerNext
    <3> USE <1>1 DEF TypeOK, StoreTypeOK, WorkerMatchesRows, Released, Releasing, NextRow
    <3>1. ASSUME NEW q \in Req, Recheck(q) PROVE Freeing(r) \/ payout'[r] = "failed"
      BY <3>1 DEF Recheck, storeVars
    <3>2. CASE FetchOpen \/ ReleaseHold \/ WriteResolutionStep \/ Announce
               \/ AnnounceExhausted \/ RecheckFails
      BY <3>2 DEF FetchOpen, ReleaseHold, WriteResolutionStep, Announce, AnnounceExhausted,
         RecheckFails, storeVars
    <3>3. CASE ResolveSettled
      BY <3>3, ResolveEffect DEF ResolveSettled, RowStatus
    <3>4. CASE ResolveFailed
      BY <3>4, ResolveEffect DEF ResolveFailed, RowStatus
    <3>5. CASE Touch
      BY <3>5, TouchEffect DEF Touch
    <3>6. CASE Exhaust
      BY <3>6, ResolveEffect DEF Exhaust, RowStatus
    <3> QED BY <2>7, <3>1, <3>2, <3>3, <3>4, <3>5, <3>6 DEF WorkerNext, WorkerStep
  <2> QED BY <2>2, <2>3, <2>4, <2>5, <2>6, <2>7 DEF Next, PayNext
<1> QED BY <1>2, <1>3 DEF ReleasesAreSafe

LEMMA MoneyNext ==
    ASSUME NoSlips, HonestMerchants, "lost_reply" \notin Env,
           Bookkeeping, MoneyIsOwed, [Next]_vars
    PROVE  MoneyIsOwed'
<1>1. /\ ControlAgrees /\ RowsArePending /\ TypeOK
      /\ ChargesAreSettled /\ PayoutsAreKnown /\ ReleasesAreSafe
  BY DEF Bookkeeping, ControlAgrees, MoneyIsOwed
<1>2. ReleasesAreSafe'
  BY <1>1, ControlNext, ReleasesNext
<1> DEFINE Rest == ChargesAreSettled' /\ PayoutsAreKnown'
<1>3. ASSUME UNCHANGED <<pc, outcome, actual, charged, payout>> PROVE Rest
  BY <1>1, <1>3 DEF ChargesAreSettled, PayoutsAreKnown
<1>4. ASSUME NEW r \in Req, Handle(r), UNCHANGED workerVars PROVE Rest
  BY <1>1, <1>4, MoneyHandle
<1>5. ASSUME NEW r \in Req, HandlerFails(r) PROVE Rest
  BY <1>3, <1>5 DEF HandlerFails, KeepStore, storeVars
<1>6. ASSUME SetAegisMode \/ ProxyRestart PROVE Rest
  BY <1>3, <1>6 DEF SetAegisMode, ProxyRestart, KeepStore, storeVars
<1>7. ASSUME WorkerNext, UNCHANGED payVars PROVE Rest
  <2>1. UNCHANGED <<charged, payout>>
    BY <1>7 DEF WorkerNext, WorkerStep, FetchOpen, Recheck, ResolveSettled, ReleaseHold,
       ResolveFailed, WriteResolutionStep, Announce, Touch, Exhaust, AnnounceExhausted,
       RecheckFails, storeVars
  <2> QED BY <1>3, <1>7, <2>1 DEF payVars
<1>8. ASSUME World, UNCHANGED payVars PROVE Rest
  <2>1. ASSUME NEW r \in Req, GatewayDecides(r) PROVE Rest
    BY <1>1, <1>8, <2>1
       DEF GatewayDecides, payVars, ChargesAreSettled, PayoutsAreKnown, TypeOK, StoreTypeOK
  <2>2. CASE (\E k \in Keys : RedisExpire(k)) \/ ReuseWorkflow
    BY <1>3, <1>8, <2>2 DEF RedisExpire, ReuseWorkflow, payVars
  <2> HIDE DEF Rest
  <2> QED BY <1>8, <2>1, <2>2 DEF World
<1>9. ASSUME UNCHANGED vars PROVE Rest
  BY <1>3, <1>9 DEF vars, storeVars, payVars
<1>10. Rest
  <2> HIDE DEF Rest
  <2> QED BY <1>4, <1>5, <1>6, <1>7, <1>8, <1>9 DEF Next, PayNext
<1> QED BY <1>2, <1>10 DEF MoneyIsOwed

\* What a call has moved, or may still move, it accounts for in the budget.
LEMMA ExposureIsOwed ==
    ASSUME ControlAgrees, MoneyIsOwed
    PROVE  \A r \in Req : Exposure(r) \in Nat /\ Exposure(r) <= Owed(r)
<1> SUFFICES ASSUME NEW r \in Req PROVE Exposure(r) \in Nat /\ Exposure(r) <= Owed(r)
  OBVIOUS
<1> USE StoreAssumption
<1>1. /\ TypeOK /\ ChargesAreSettled /\ PayoutsAreKnown /\ ReleasesAreSafe
      /\ Owed(r) \in Nat /\ charged[r] \in Nat
  BY OwedNat DEF ControlAgrees, MoneyIsOwed, TypeOK, StoreTypeOK
<1>2. Released(r) => payout[r] = "failed"
  BY <1>1 DEF ReleasesAreSafe
<1>3. CASE charged[r] # 0
  <2>1. payout[r] = "none" /\ ~Released(r)
    BY <1>1, <1>2, <1>3 DEF ChargesAreSettled, PayoutsAreKnown, RzpKinds
  <2> QED BY <1>1, <1>3, <2>1 DEF ChargesAreSettled, Exposure, Owed, Reserved, Recorded
<1>4. CASE charged[r] = 0 /\ payout[r] \in {"nonterminal", "processed"}
  <2>1. ~Released(r) /\ Exposure(r) = Sent[r] /\ Sent[r] <= Amount[r]
    BY <1>1, <1>2, <1>4 DEF Exposure
  <2>2. /\ pc[r] \in Reserved \cup Recorded
        /\ pc[r] \in Recorded => \/ outcome[r] = "settled" /\ actual[r] = Sent[r]
                                 \/ outcome[r] = "pending"
    BY <1>1, <1>4 DEF PayoutsAreKnown, Reserved, Recorded
  <2> QED BY <2>1, <2>2 DEF Owed
<1>5. CASE charged[r] = 0 /\ payout[r] \notin {"nonterminal", "processed"}
  BY <1>1, <1>5 DEF Exposure
<1> QED BY <1>3, <1>4, <1>5

LEMMA MoneyInit == Init => MoneyIsOwed
BY DEF Init, StoreInit, WorkerInit, MoneyIsOwed, ChargesAreSettled, PayoutsAreKnown,
   ReleasesAreSafe, Released, Releasing, NoRow

\* Money that moved is money a handler concluded as settled or holds, and only
\* the hold of a payout that failed is given back: for every number of calls,
\* as long as every reply of a merchant or of RazorpayX arrives.
THEOREM MoneyOwed ==
    ASSUME NoSlips, HonestMerchants, "lost_reply" \notin Env
    PROVE  Spec => []MoneyIsOwed
<1>1. Bookkeeping /\ MoneyIsOwed /\ [Next]_vars => Bookkeeping' /\ MoneyIsOwed'
  BY BookkeepingNext, MoneyNext
<1> QED BY BookkeepingInit, MoneyInit, <1>1, PTL DEF Spec

\* A payout whose row waits for a decision is held in full by its call.
LEMMA OpenIsOwed ==
    ASSUME Bookkeeping, NEW r \in OpenRows, ~Releasing(r)
    PROVE  Owed(r) = Amount[r]
<1>1. /\ rows[r].status = "pending" /\ outcome[r] = "pending"
      /\ pc[r] \in {"escalate", "budget"} \cup Recorded
  BY DEF OpenRows, Bookkeeping, ControlAgrees, RowsArePending, RowsAfterCreate
<1>2. ~Released(r)
  BY <1>1 DEF Released
<1> QED BY <1>1, <1>2 DEF Owed, Reserved, Recorded

\* The money of payouts that wait for a decision stays held in budget_used, for
\* every number of payouts, until the worker gives each hold back itself.
THEOREM OpenPayoutsHeld ==
    ASSUME NoSlips
    PROVE  Spec => []OpenPayoutsAreHeld
<1>1. Bookkeeping /\ [Next]_vars => Bookkeeping'
  BY BookkeepingNext
<1>2. Bookkeeping => OpenPayoutsAreHeld
  <2> SUFFICES ASSUME Bookkeeping PROVE OpenPayoutsAreHeld
    OBVIOUS
  <2> DEFINE h == [r \in Req |-> IF r \in OpenRows /\ ~Releasing(r) THEN Amount[r] ELSE 0]
             f == [r \in Req |-> Owed(r)]
  <2>1. TypeOK /\ used = Total(f) /\ (OpenPayoutsAreHeld <=> Total(h) <= used)
    BY DEF Bookkeeping, ControlAgrees, BudgetAccountsForEveryCall, OwedTotal, OpenPayoutsAreHeld
  <2>2. h \in [Req -> Nat] /\ f \in [Req -> Nat] /\ \A r \in Req : h[r] <= f[r]
    BY <2>1, OwedNat, OpenIsOwed, StoreAssumption
  <2> HIDE DEF h, f
  <2> QED BY <2>1, <2>2, TotalMonotone, StoreAssumption
<1> QED BY BookkeepingInit, <1>1, <1>2, PTL DEF Spec

\* The mandate bounds money and not only a counter.  As long as every reply of
\* a merchant or of RazorpayX arrives, what has been charged or paid out plus
\* every payout still undecided fits into budget_limit, through retries in
\* flight, crashes of the handlers and restarts of the proxy.
THEOREM MandateCovers ==
    ASSUME NoSlips, HonestMerchants, "lost_reply" \notin Env
    PROVE  Spec => []MandateCoversMoney
<1> DEFINE Money == Bookkeeping /\ MoneyIsOwed /\ LimitHolds
<1>1. Init => Money
  BY MoneyInit, LimitInit, BookkeepingInit
<1>2. Money /\ [Next]_vars => Money'
  BY BookkeepingNext, MoneyNext, LimitNext
<1>3. Money => MandateCoversMoney
  <2> SUFFICES ASSUME Money PROVE MandateCoversMoney
    OBVIOUS
  <2> DEFINE e == [r \in Req |-> Exposure(r)]
             f == [r \in Req |-> Owed(r)]
  <2>1. ControlAgrees /\ TypeOK /\ BudgetAccountsForEveryCall /\ WithinLimit /\ used \in Int
    BY DEF LimitHolds, Bookkeeping, ControlAgrees, TypeOK, StoreTypeOK
  <2>2. e \in [Req -> Nat] /\ f \in [Req -> Nat] /\ \A r \in Req : e[r] <= f[r]
    BY <2>1, ExposureIsOwed, OwedNat
  <2>3. used = Total(f) /\ used <= Limit /\ (MandateCoversMoney <=> Total(e) <= Limit)
    BY <2>1 DEF BudgetAccountsForEveryCall, OwedTotal, WithinLimit, MandateCoversMoney
  <2> HIDE DEF e, f
  <2>4. Total(e) <= Total(f) /\ Total(e) \in Nat /\ Total(f) \in Nat
    BY <2>2, TotalMonotone, TotalNat, StoreAssumption
  <2> QED BY <2>3, <2>4, StoreAssumption
<1> QED BY <1>1, <1>2, <1>3, PTL DEF Spec

-----------------------------------------------------------------------------
(* The mandate: every step of a handler, of the recheck worker or of the
   world is a claim, a payment, a release or a stutter of module Mandate.  *)

LEMMA ClaimsInit == Init => Abstract!Init
<1> SUFFICES ASSUME Init PROVE Abstract!Init
  OBVIOUS
<1>1. \A r \in Req : PhaseOf(r) = "idle" /\ Owed(r) = 0
  BY DEF Init, PayInit, StoreInit, WorkerInit, NoRow, PhaseOf, Owed, Released, Releasing, Reserved,
     Recorded
<1> QED BY <1>1 DEF Abstract!Init, Claims

\* The limit that the claims leave is the limit that the budget leaves.
LEMMA ClaimedIsUsed ==
    ASSUME BudgetAccountsForEveryCall
    PROVE  Abstract!Claimed = used
<1>1. [r \in Req |-> Claims[r].amt] = [r \in Req |-> Owed(r)]
  BY DEF Claims
<1>2. \A f : Abstract!Total(f) = Total(f)
  BY DEF Total, Units, Abstract!Total, Abstract!Units, Cardinality, Abstract!Cardinality
<1> QED BY <1>1, <1>2 DEF Abstract!Claimed, BudgetAccountsForEveryCall, OwedTotal

\* What becomes of the claim of r in a step.
Stays(r) == PhaseOf(r)' = PhaseOf(r) /\ Owed(r)' = Owed(r)
Holds(r) == /\ PhaseOf(r) = "idle" /\ used + Amount[r] <= Limit
            /\ PhaseOf(r)' = "held" /\ Owed(r)' = Amount[r]
Spends(r) == /\ PhaseOf(r) = "held" /\ Owed(r)' \in 0 .. Owed(r)
             /\ PhaseOf(r)' = "spent"
Frees(r) == PhaseOf(r) = "held" /\ Owed(r)' = 0 /\ PhaseOf(r)' = "freed"

\* A step that changes at most one claim, in one of these ways, is a step of
\* the mandate.
LEMMA ClaimStep ==
    ASSUME BudgetAccountsForEveryCall, NEW r \in Req,
           \A q \in Req \ {r} : Stays(q),
           Stays(r) \/ Holds(r) \/ Spends(r) \/ Frees(r)
    PROVE  [Abstract!Next]_Claims
<1>1. Claims[r].phase = PhaseOf(r) /\ Claims[r].amt = Owed(r)
  BY DEF Claims
<1>2. Claims' = [q \in Req |-> [phase |-> PhaseOf(q)', amt |-> Owed(q)']]
  BY DEF Claims
<1>3. Claims' = [Claims EXCEPT ![r] = [phase |-> PhaseOf(r)', amt |-> Owed(r)']]
  <2>1. \A q \in Req \ {r} : PhaseOf(q)' = PhaseOf(q) /\ Owed(q)' = Owed(q)
    BY DEF Stays
  <2> QED BY <1>2, <2>1 DEF Claims
<1>4. CASE Stays(r)
  <2>1. \A q \in Req : PhaseOf(q)' = PhaseOf(q) /\ Owed(q)' = Owed(q)
    BY <1>4 DEF Stays
  <2>2. Claims' = Claims
    BY <1>2, <2>1 DEF Claims
  <2> QED BY <2>2
<1>5. CASE Holds(r)
  <2>1. Abstract!Hold(r)
    BY <1>1, <1>3, <1>5, ClaimedIsUsed DEF Holds, Abstract!Hold
  <2> QED BY <2>1 DEF Abstract!Next
<1>6. CASE Spends(r)
  <2>1. Abstract!Spend(r)
    BY <1>1, <1>3, <1>6 DEF Spends, Abstract!Spend
  <2> QED BY <2>1 DEF Abstract!Next
<1>7. CASE Frees(r)
  <2>2. Claims[r].phase = "held"
    BY <1>1, <1>7 DEF Frees
  <2>3. Claims' = [Claims EXCEPT ![r] = [phase |-> "freed", amt |-> 0]]
    BY <1>3, <1>7 DEF Frees
  <2>1. Abstract!Free(r)
    BY <2>2, <2>3 DEF Abstract!Free
  <2> QED BY <2>1 DEF Abstract!Next
<1> QED BY <1>4, <1>5, <1>6, <1>7

\* A handler's step.
LEMMA HandleClaim ==
    ASSUME ControlAgrees, RowsArePending, SettledWithinExpected, WithinLimit, NoSlips,
           NEW r \in Req, Handle(r), UNCHANGED workerVars
    PROVE  /\ \A q \in Req \ {r} : Stays(q)
           /\ Stays(r) \/ Holds(r) \/ Spends(r) \/ Frees(r)
<1> USE StoreAssumption DEF At, Goto, KeepConclusion, Owed, PhaseOf, Reserved, Recorded
<1>1. TypeOK /\ RowsAfterCreate /\ LabelsMatchOutcomes
  BY DEF ControlAgrees
<1>2. /\ pc \in [Req -> PayLabels] /\ used \in Int /\ used <= Limit
      /\ outcome \in [Req -> {"none", "settled", "failed", "pending"}]
      /\ actual \in [Req -> Nat] /\ rows \in [Req -> Row]
      /\ (outcome[r] = "settled" => actual[r] <= Amount[r])
  BY <1>1 DEF TypeOK, StoreTypeOK, PayTypeOK, WithinLimit, SettledWithinExpected
<1>3. /\ Released(r) => rows[r].status # "none"
      /\ rows[r].status # "none" => /\ outcome[r] = "pending"
                                    /\ pc[r] \in {"escalate", "budget"} \cup Recorded
  BY <1>1, ReleasedHasRow DEF RowsArePending, RowsAfterCreate
<1>4. /\ Released(r)' = Released(r)
      /\ (rows'[r].status = "resolved_settled") = (rows[r].status = "resolved_settled")
  <2>1. \/ rows'[r].status = rows[r].status
        \/ /\ pc[r] = "row" /\ pc'[r] = "escalate"
           /\ rows[r].status = "none" /\ rows'[r].status = "pending"
    BY <1>1, HandleRows
  <2> QED BY <2>1 DEF Released, Releasing, workerVars
<1>5. \A q \in Req \ {r} : Stays(q)
  <2>1. \A q \in Req \ {r} :
            pc'[q] = pc[q] /\ outcome'[q] = outcome[q] /\ actual'[q] = actual[q]
            /\ rows'[q] = rows[q]
    BY <1>1, HandleFrame
  <2> QED BY <2>1 DEF Stays, Released, Releasing, workerVars
<1> HIDE DEF Released
<1> DEFINE Moves == Stays(r) \/ Holds(r) \/ Spends(r) \/ Frees(r)
<1> USE DEF Stays, Holds, Spends, Frees
<1>6. ASSUME Arrive(r) PROVE Moves
  BY <1>6, <1>2, <1>3, <1>4 DEF Arrive, KeepStore, storeVars, PayLabels
<1>7. ASSUME CheckPostgres(r) \/ RefillCache(r) PROVE Moves
  BY <1>7, <1>2, <1>3, <1>4 DEF CheckPostgres, RefillCache, KeepStore, storeVars
<1>8. ASSUME Authorize(r) PROVE Moves
  BY <1>8, <1>2, <1>3, <1>4 DEF Authorize, KeepStore, storeVars
<1>9. ASSUME Reserve(r) PROVE Moves
  BY <1>9, <1>2, <1>3, <1>4 DEF Reserve, ReserveBudget, ReserveFits
<1>10. ASSUME RejectStep(r) PROVE Moves
  BY <1>10, <1>2, <1>3, <1>4 DEF RejectStep
<1>11. ASSUME RejectPublish(r) PROVE Moves
  BY <1>11, <1>2, <1>3, <1>4 DEF RejectPublish
<1>12. ASSUME RejectNotice(r) PROVE Moves
  BY <1>12, <1>2, <1>3, <1>4 DEF RejectNotice
<1>13. ASSUME NoMerchant(r) PROVE Moves
  BY <1>13, <1>2, <1>3, <1>4 DEF NoMerchant
<1>14. ASSUME Charge(r) PROVE Moves
  BY <1>14, <1>2, <1>3, <1>4 DEF Charge, Conclude
<1>15. ASSUME CreatePayout(r) PROVE Moves
  BY <1>15, <1>2, <1>3, <1>4 DEF CreatePayout, Conclude
<1>16. ASSUME PollPayout(r) PROVE Moves
  BY <1>16, <1>2, <1>3, <1>4 DEF PollPayout, KeepStore, storeVars, Conclude
<1>17. ASSUME CreateRow(r) PROVE Moves
  BY <1>17, <1>2, <1>3, <1>4 DEF CreateRow, CreatePendingPayout, Row
<1>18. ASSUME Escalate(r) PROVE Moves
  BY <1>18, <1>2, <1>3, <1>4 DEF Escalate
<1>19. ASSUME Fulfil(r) PROVE Moves
  BY <1>19, <1>2, <1>3, <1>4 DEF Fulfil
<1>20. ASSUME ReversePayout(r) PROVE Moves
  BY <1>20, <1>2, <1>3, <1>4 DEF ReversePayout
<1>21. ASSUME RzpException(r) PROVE Moves
  BY <1>21, <1>2, <1>3, <1>4 DEF RzpException, KeepStore, storeVars, Conclude, NoSlips
<1>22. ASSUME SettleBudget(r) PROVE Moves
  BY <1>22, <1>2, <1>3, <1>4 DEF SettleBudget
<1>23. ASSUME WriteStep(r) PROVE Moves
  BY <1>23, <1>2, <1>3, <1>4 DEF WriteStep
<1>24. ASSUME LinkRow(r) PROVE Moves
  BY <1>24, <1>2, <1>3, <1>4 DEF LinkRow
<1>25. ASSUME SaveResponse(r) PROVE Moves
  BY <1>25, <1>2, <1>3, <1>4 DEF SaveResponse
<1>26. ASSUME CacheResponse(r) PROVE Moves
  BY <1>26, <1>2, <1>3, <1>4 DEF CacheResponse
<1> HIDE DEF Stays, Holds, Spends, Frees
<1> QED BY <1>5, <1>6, <1>7, <1>8, <1>9, <1>10, <1>11, <1>12, <1>13, <1>14, <1>15, <1>16, <1>17,
           <1>18, <1>19, <1>20, <1>21, <1>22, <1>23, <1>24, <1>25, <1>26 DEF Handle

\* A worker's step.
LEMMA WorkerClaim ==
    ASSUME ControlAgrees, RowsArePending, NoSlips, WorkerNext, UNCHANGED payVars,
           NEW c, c = cur
    PROVE  /\ \A q \in Req \ {c} : Stays(q)
           /\ c \in Req => Stays(c) \/ Spends(c) \/ Frees(c)
<1>1. /\ TypeOK /\ RowsAfterCreate /\ WorkerMatchesRows
      /\ rows \in [Req -> Row] /\ None \notin Req
      /\ \A q \in Req : Owed(q) \in Nat /\ Amount[q] \in Nat
  BY OwedNat, StoreAssumption DEF ControlAgrees, TypeOK, StoreTypeOK
<1>2. pc' = pc /\ outcome' = outcome /\ actual' = actual
  BY DEF payVars
<1>3. \A q \in Req : rows[q].status = "pending" =>
          outcome[q] = "pending" /\ pc[q] \in {"escalate", "budget"} \cup Recorded
  BY <1>1 DEF RowsArePending, RowsAfterCreate
<1> DEFINE Same(q) == /\ Released(q)' = Released(q)
                      /\ (rows'[q].status = "resolved_settled")
                             = (rows[q].status = "resolved_settled")
<1>4. ASSUME NEW q \in Req, Same(q) PROVE Stays(q)
  BY <1>2, <1>4 DEF Stays, PhaseOf, Owed
<1> USE DEF WorkerMatchesRows, NextRow, Released, Releasing
<1>5. CASE \/ FetchOpen \/ (\E r \in Req : Recheck(r)) \/ WriteResolutionStep
           \/ Announce \/ AnnounceExhausted
  <2>1. \A q \in Req : Same(q)
    BY <1>1, <1>5 DEF FetchOpen, Recheck, WriteResolutionStep, Announce, AnnounceExhausted,
       storeVars
  <2> QED BY <1>4, <2>1
<1>6. CASE ResolveSettled
  <2>1. c \in Req /\ rows[c].status = "pending" /\ ~Released(c)
    BY <1>1, <1>6 DEF ResolveSettled
  <2>2. rows'[c].status = "resolved_settled" /\ \A q \in Req \ {c} : rows'[q] = rows[q]
    BY <1>1, <1>6, ResolveEffect DEF ResolveSettled, RowStatus
  <2>3. \A q \in Req \ {c} : Same(q)
    BY <1>1, <1>6, <2>2 DEF ResolveSettled
  <2>4. ~Released(c)'
    BY <1>6, <2>2 DEF ResolveSettled
  <2>5. Spends(c)
    BY <1>1, <1>2, <1>3, <2>1, <2>2, <2>4 DEF Spends, PhaseOf, Owed, Reserved, Recorded
  <2> QED BY <1>4, <2>3, <2>5
<1>7. CASE ReleaseHold
  <2>1. c \in Req /\ rows[c].status = "pending" /\ rows' = rows /\ ~Released(c) /\ Released(c)'
    BY <1>1, <1>7 DEF ReleaseHold
  <2>2. \A q \in Req \ {c} : Same(q)
    BY <1>1, <1>7, <2>1 DEF ReleaseHold
  <2>3. Frees(c)
    BY <1>1, <1>2, <1>3, <2>1 DEF Frees, PhaseOf, Owed, Reserved, Recorded
  <2> QED BY <1>4, <2>2, <2>3
<1>8. CASE ResolveFailed
  <2>1. rows'[c].status = "resolved_failed" /\ \A q \in Req \ {c} : rows'[q] = rows[q]
    BY <1>1, <1>8, ResolveEffect DEF ResolveFailed, RowStatus
  <2>2. \A q \in Req : Same(q)
    BY <1>1, <1>8, <2>1 DEF ResolveFailed
  <2> QED BY <1>4, <2>2
<1>9. CASE Touch
  <2>1. rows'[c].status = "pending" /\ \A q \in Req \ {c} : rows'[q] = rows[q]
    BY <1>1, <1>9, TouchEffect DEF Touch
  <2>2. \A q \in Req : Same(q)
    BY <1>1, <1>9, <2>1 DEF Touch
  <2> QED BY <1>4, <2>2
<1>10. CASE Exhaust
  <2>1. rows'[c].status = "exhausted" /\ \A q \in Req \ {c} : rows'[q] = rows[q]
    BY <1>1, <1>10, ResolveEffect DEF Exhaust, RowStatus
  <2>2. \A q \in Req : Same(q)
    BY <1>1, <1>10, <2>1 DEF Exhaust
  <2> QED BY <1>4, <2>2
<1>11. CASE RecheckFails
  BY <1>11 DEF RecheckFails, NoSlips
<1> QED BY <1>5, <1>6, <1>7, <1>8, <1>9, <1>10, <1>11 DEF WorkerNext, WorkerStep

LEMMA ClaimsNext ==
    ASSUME NoSlips, Bookkeeping, LimitHolds, [Next]_vars
    PROVE  [Abstract!Next]_Claims
<1>1. /\ ControlAgrees /\ RowsArePending /\ BudgetAccountsForEveryCall
      /\ SettledWithinExpected /\ WithinLimit
  BY DEF Bookkeeping, LimitHolds
<1>2. ASSUME \A q \in Req : Stays(q) PROVE [Abstract!Next]_Claims
  <2>1. \A q \in Req : PhaseOf(q)' = PhaseOf(q) /\ Owed(q)' = Owed(q)
    BY <1>2 DEF Stays
  <2>2. Claims' = [q \in Req |-> [phase |-> PhaseOf(q)', amt |-> Owed(q)']]
    BY DEF Claims
  <2> QED BY <2>1, <2>2 DEF Claims
<1>3. ASSUME UNCHANGED <<pc, outcome, actual, rows, workerVars>> PROVE [Abstract!Next]_Claims
  <2>1. \A q \in Req : Stays(q)
    BY <1>3 DEF Stays, PhaseOf, Owed, Released, Releasing, workerVars
  <2> QED BY <1>2, <2>1
<1>4. ASSUME NEW r \in Req, Handle(r), UNCHANGED workerVars PROVE [Abstract!Next]_Claims
  BY <1>1, <1>4, HandleClaim, ClaimStep
<1>5. ASSUME NEW r \in Req, HandlerFails(r), UNCHANGED workerVars PROVE [Abstract!Next]_Claims
  BY <1>3, <1>5 DEF HandlerFails, KeepStore, storeVars
<1>6. ASSUME SetAegisMode \/ ProxyRestart, UNCHANGED workerVars PROVE [Abstract!Next]_Claims
  BY <1>3, <1>6 DEF SetAegisMode, ProxyRestart, KeepStore, storeVars
<1>7. ASSUME WorkerNext, UNCHANGED payVars PROVE [Abstract!Next]_Claims
  <2>1. PICK c : c = cur
    OBVIOUS
  <2>2. /\ \A q \in Req \ {c} : Stays(q)
        /\ c \in Req => Stays(c) \/ Spends(c) \/ Frees(c)
    BY <1>1, <1>7, <2>1, WorkerClaim
  <2> QED BY <1>1, <1>2, <2>2, ClaimStep
<1>8. ASSUME World, UNCHANGED <<payVars, workerVars>> PROVE [Abstract!Next]_Claims
  BY <1>3, <1>8 DEF World, GatewayDecides, RedisExpire, ReuseWorkflow, payVars
<1>9. ASSUME UNCHANGED vars PROVE [Abstract!Next]_Claims
  BY <1>3, <1>9 DEF vars, storeVars, payVars
<1> QED BY <1>4, <1>5, <1>6, <1>7, <1>8, <1>9 DEF Next, PayNext

\* The payment side implements the abstract mandate: seen through what each
\* call holds or has spent, all a handler, the recheck worker, RazorpayX and a
\* crash can do to a payment is to claim its amount if it fits, to spend at
\* most its claim, or to give the claim up, each at most once.
THEOREM MandateImplemented ==
    ASSUME NoSlips, HonestMerchants
    PROVE  Spec => ImplementsMandate
<1> DEFINE Inv == Bookkeeping /\ LimitHolds
<1>1. Init => Inv
  BY LimitInit, BookkeepingInit
<1>2. Inv /\ [Next]_vars => Inv'
  BY BookkeepingNext, LimitNext
<1>3. Inv /\ [Next]_vars => [Abstract!Next]_Claims
  BY ClaimsNext
<1> HIDE DEF Inv
<1> QED BY ClaimsInit, <1>1, <1>2, <1>3, PTL DEF Spec, ImplementsMandate, Abstract!Spec

===============================================================================
