-------------------------------- MODULE Saga ---------------------------------
(***************************************************************************)
(* The compensation of one workflow: worker.py takes a rejected payment's  *)
(* request from RabbitMQ and runs the LangGraph graph of graph.py, which   *)
(* undoes the settled steps one by one, the newest first.                  *)
(*                                                                         *)
(* A run lives in the worker's memory; LangGraph copies it to Postgres     *)
(* after each node, in the background (Save).  A run that finds a copy     *)
(* goes on from there.  Each node is an action, and attempt_refund, which  *)
(* awaits Postgres and the merchant, is one action per awaited call.       *)
(***************************************************************************)
EXTENDS Integers, Sequences, FiniteSets, SequencesExt

CONSTANTS
    Step,           \* the payments the workflow may settle
    Merchant,
    PaidTo,         \* [Step -> Merchant]
    WithPolicy,     \* MERCHANTS_WITH_POLICY
    Refundable,     \* merchants whose policy text allows a refund
    Msg,            \* the compensation requests /pay may publish
    Fault,          \* [Msg -> fault types], what each rejection looks like
    Threshold,      \* failures that open a circuit breaker (3 in the code)
    DeliveryLimit,  \* x-delivery-limit of compensation_requests (5 in the code)
    Env,            \* what may go wrong, see Mishaps
    None

Mishaps == {
    "crash",       \* the worker process dies; the broker redelivers
    "error",       \* an exception leaves a node
    "outage",      \* the checkpointer cannot be reached before the run
    "lost_reply",  \* the merchant refunds and its answer does not arrive
    "overlap",     \* two requests of the workflow are processed at once
    "late",        \* payments settle after a request was published
    "empty_policy",\* a /policy answer without text
    "neighbours"}  \* sagas of other workflows reach the same merchants

ASSUME SagaAssumption ==
    /\ IsFiniteSet(Step) /\ IsFiniteSet(Msg) /\ None \notin Step \cup Msg
    /\ PaidTo \in [Step -> Merchant]
    /\ WithPolicy \subseteq Merchant /\ Refundable \subseteq Merchant
    /\ Fault \in [Msg -> {"network_fault", "agent_fault"}]
    /\ Threshold \in Nat \ {0} /\ DeliveryLimit \in Nat
    /\ Env \subseteq Mishaps

VARIABLES
    ledger,    \* the workflow's settled transaction_steps, oldest first
    at,        \* where each request is: in the queue, at a node, done
    run,       \* CompensationState of each request's run, in memory
    saved,     \* the workflow's latest checkpoint
    attempt,   \* process_message's attempt, 3 for the run without checkpointer
    crashes,   \* x-delivery-count of each request
    got,       \* outcome an attempt_refund is about to conclude
    reported,  \* how process_message ended: its last event
    paid,      \* refunds each step's merchant has made
    failures,  \* circuit_breakers.failures, up to Threshold
    open,      \* merchants whose circuit_breakers.state is 'open'
    dlq,       \* steps with a row in dlq_refunds
    filed      \* the reports of final_output

vars == <<ledger, at, run, saved, attempt, crashes, got, reported, paid, failures,
          open, dlq, filed>>

\* "failed" stands for "error" too: nothing reads the difference.
Outcomes == {"refunded", "failed", "dlq", "non_refundable"}
Terms == {"none", "refund", "keep"}
Nodes == {"load", "select", "policy", "extract", "refund", "classify", "dispute",
          "liability", "end"}
\* What attempt_refund does after it has looked at the circuit breaker.
InRefund == {"call", "reset", "record", "dlq_row"}
Waiting == {"unsent", "queued"}
Gone == {"acked", "dead"}
Running == {"preflight"} \cup Nodes \cup InRefund

Verdict == [step : Step, outcome : Outcomes]
\* refund_amount follows from terms (see Extract), policy_text from the node.
State == [req : Msg \cup {None}, todo : Seq(Step), cur : Step \cup {None},
          terms : Terms, results : Seq(Verdict),
          fault : {"none", "network_fault", "agent_fault"}]
Checkpoint == [node : Nodes \cup {"none"}, st : State]

EmptyState(m) == [req |-> m, todo |-> <<>>, cur |-> None, terms |-> "none",
                  results |-> <<>>, fault |-> "none"]

TypeOK ==
    /\ ledger \in Seq(Step)
    /\ at \in [Msg -> Waiting \cup Running \cup Gone]
    /\ run \in [Msg -> State]
    /\ saved \in Checkpoint
    /\ attempt \in [Msg -> 1 .. 3]
    /\ crashes \in [Msg -> 0 .. DeliveryLimit + 1]
    /\ got \in [Msg -> Outcomes \cup {"none"}]
    /\ reported \in [Msg -> {"none", "complete", "degraded", "error"}]
    /\ paid \in [Step -> Nat]
    /\ failures \in [Merchant -> 0 .. Threshold]
    /\ open \subseteq Merchant
    /\ dlq \subseteq Step
    /\ filed \subseteq {"udir_payload", "liability_report"}

Init ==
    /\ ledger = <<>> /\ at = [m \in Msg |-> "unsent"]
    /\ run = [m \in Msg |-> EmptyState(None)]
    /\ saved = [node |-> "none", st |-> EmptyState(None)]
    /\ attempt = [m \in Msg |-> 1] /\ crashes = [m \in Msg |-> 0]
    /\ got = [m \in Msg |-> "none"] /\ reported = [m \in Msg |-> "none"]
    /\ paid = [s \in Step |-> 0] /\ failures = [c \in Merchant |-> 0]
    /\ open = {} /\ dlq = {} /\ filed = {}

Goto(m, label) == at' = [at EXCEPT ![m] = label]
Set(m, st) == run' = [run EXCEPT ![m] = st]
\* A node that only changes the state: its update, then the next node.
Node(m, here, st, next) ==
    /\ at[m] = here
    /\ Set(m, st) /\ Goto(m, next)
    /\ UNCHANGED <<ledger, saved, attempt, crashes, got, reported, paid, failures,
                   open, dlq>>

\* process_message returns: its last event, and the request is acknowledged.
Ends(m, report) ==
    /\ reported' = [reported EXCEPT ![m] = report]
    /\ Goto(m, "acked")
    /\ run' = [run EXCEPT ![m] = EmptyState(None)]
    /\ got' = [got EXCEPT ![m] = "none"]

-----------------------------------------------------------------------------
(* The workflow, and the queue *)

\* Another payment of the workflow settles (module Payments).
Settle(s) ==
    /\ s \notin ToSet(ledger)
    /\ "late" \in Env \/ \A m \in Msg : at[m] = "unsent"
    /\ ledger' = Append(ledger, s)
    /\ UNCHANGED <<at, run, saved, attempt, crashes, got, reported, paid, failures,
                   open, dlq, filed>>

\* A payment is rejected and /pay publishes the request.
Request(m) ==
    /\ at[m] = "unsent" /\ Goto(m, "queued")
    /\ UNCHANGED <<ledger, run, saved, attempt, crashes, got, reported, paid, failures,
                   open, dlq, filed>>

\* queue.consume() sets no prefetch limit: nothing keeps a second request out.
Deliver(m) ==
    /\ at[m] = "queued"
    /\ "overlap" \in Env \/ \A n \in Msg : at[n] \notin Running
    /\ Goto(m, "preflight") /\ attempt' = [attempt EXCEPT ![m] = 1]
    /\ UNCHANGED <<ledger, run, saved, crashes, got, reported, paid, failures, open,
                   dlq, filed>>

\* Bugs to catch: a redelivery is not counted; the checkpoint is not looked at.
RedeliveredUncounted(m) == 0
PreflightFresh(m) ==
    /\ at[m] = "preflight"
    /\ Set(m, EmptyState(m)) /\ Goto(m, "load")
    /\ UNCHANGED <<ledger, saved, attempt, crashes, got, reported, paid, failures,
                   open, dlq, filed>>

\* The process dies: what was in memory is gone, the broker delivers again, and
\* gives up on a request that was returned too often.
Redelivered(m) == crashes[m] + 1
Crash ==
    /\ "crash" \in Env
    /\ \E m \in Msg : at[m] \in Running
    /\ crashes' = [m \in Msg |-> IF at[m] \in Running THEN Redelivered(m) ELSE crashes[m]]
    /\ at' = [m \in Msg |-> IF at[m] \notin Running THEN at[m]
                            ELSE IF Redelivered(m) > DeliveryLimit THEN "dead" ELSE "queued"]
    /\ run' = [m \in Msg |-> EmptyState(None)]
    /\ got' = [m \in Msg |-> "none"]
    /\ UNCHANGED <<ledger, saved, attempt, reported, paid, failures, open, dlq, filed>>

\* run_compensation(): a checkpoint is resumed at the node it stands at,
\* whichever request asks; without one the graph starts from the beginning.
Preflight(m) ==
    /\ at[m] = "preflight"
    /\ \/ saved.node = "none" /\ Set(m, EmptyState(m)) /\ Goto(m, "load")
       \/ saved.node # "none" /\ Set(m, saved.st) /\ Goto(m, saved.node)
    /\ UNCHANGED <<ledger, saved, attempt, crashes, got, reported, paid, failures,
                   open, dlq, filed>>

\* The checkpointer cannot be reached: once more with a new connection, then
\* one run of a graph that has no checkpointer.  (An error that does not speak
\* of a connection ends the request at once.)
PreflightFails(m) ==
    /\ "outage" \in Env /\ at[m] = "preflight"
    /\ \/ /\ attempt[m] = 1 /\ attempt' = [attempt EXCEPT ![m] = 2]
          /\ UNCHANGED <<at, run, got, reported>>
       \/ /\ attempt[m] = 2 /\ attempt' = [attempt EXCEPT ![m] = 3]
          /\ Set(m, EmptyState(m)) /\ Goto(m, "load") /\ UNCHANGED <<got, reported>>
       \/ Ends(m, "error") /\ UNCHANGED attempt
    /\ UNCHANGED <<ledger, saved, crashes, paid, failures, open, dlq, filed>>

-----------------------------------------------------------------------------
(* Nodes that read and compute *)

\* Bugs to catch: the steps are undone in the order they were made; an answer
\* of /policy that fails is treated like a merchant that has no policy.
UndoOldestFirst == ledger
PolicyFailureIsNone(m) ==
    /\ at[m] = "policy"
    /\ \/ Node(m, "policy", run[m], "refund")
       \/ PaidTo[run[m].cur] \in WithPolicy /\ Node(m, "policy", run[m], "extract")

UndoOrder == Reverse(ledger)

Load(m) == Node(m, "load", [run[m] EXCEPT !.todo = UndoOrder, !.results = <<>>], "select")

Select(m) ==
    LET st == run[m] IN
    \/ st.todo = <<>> /\ Node(m, "select", [st EXCEPT !.cur = None], "classify")
    \/ /\ st.todo # <<>>
       /\ Node(m, "select",
               [st EXCEPT !.cur = Head(st.todo), !.todo = Tail(st.todo),
                          !.terms = "none"], "policy")

\* GET /policy.  A failure is a fail-safe "no refund"; an empty text is taken
\* for a merchant that has no policy.
FetchPolicy(m) ==
    LET c == PaidTo[run[m].cur] IN
    /\ at[m] = "policy"
    /\ \/ /\ c \notin WithPolicy \/ "empty_policy" \in Env
          /\ Node(m, "policy", run[m], "refund")
       \/ c \in WithPolicy /\ Node(m, "policy", run[m], "extract")
       \/ /\ c \in WithPolicy
          /\ Node(m, "policy", [run[m] EXCEPT !.terms = "keep"], "refund")

\* POST /extract, taken to read the text right when it answers.  The pure
\* compute_refund_amount node that follows gives a refund_amount for the terms
\* "refund" and none for "keep".
Extract(m) ==
    LET says == IF PaidTo[run[m].cur] \in Refundable THEN "refund" ELSE "keep"
    IN  /\ at[m] = "extract"
        /\ \E t \in {says, "keep"} :
               Node(m, "extract", [run[m] EXCEPT !.terms = t], "refund")

-----------------------------------------------------------------------------
(* attempt_refund *)

\* The steps still to do decide where the graph goes on.  A bug to catch: the
\* last of them is left out.
LoopTooShort(st) == IF Len(st.todo) > 1 THEN "select" ELSE "classify"
LoopOrEnd(st) == IF st.todo # <<>> THEN "select" ELSE "classify"

\* The node ends: its result is appended.
Conclude(m, outcome) ==
    LET st == run[m] IN
    /\ Set(m, [st EXCEPT !.results = Append(@, [step |-> st.cur, outcome |-> outcome])])
    /\ Goto(m, LoopOrEnd(st))
    /\ got' = [got EXCEPT ![m] = "none"]

\* check_circuit_breaker() comes first, the policy's verdict second.
CheckBreaker(m) ==
    LET st == run[m] IN
    /\ at[m] = "refund"
    /\ \/ PaidTo[st.cur] \in open /\ Goto(m, "dlq_row") /\ UNCHANGED <<run, got>>
       \/ /\ PaidTo[st.cur] \notin open
          /\ \/ st.terms = "keep" /\ Conclude(m, "non_refundable")
             \/ /\ st.terms # "keep"
                /\ Goto(m, "call") /\ UNCHANGED <<run, got>>
    /\ UNCHANGED <<ledger, saved, attempt, crashes, reported, paid, failures, open, dlq,
                   filed>>

\* A bug to catch: a timeout is taken for a refund.
CallTrustsTimeout(m) ==
    /\ at[m] = "call"
    /\ \/ got' = [got EXCEPT ![m] = "refunded"]
       \/ got' = [got EXCEPT ![m] = "failed"]
    /\ Goto(m, "reset")
    /\ UNCHANGED <<ledger, run, saved, attempt, crashes, reported, paid, failures, open,
                   dlq, filed>>

\* POST /refund: an answer of either kind, a timeout or refused connection, or
\* any other exception, which ends the node at once.
CallRefund(m) ==
    LET s == run[m].cur
        Pays == paid' = [paid EXCEPT ![s] = @ + 1]
        KeepsOrLoses == UNCHANGED paid \/ ("lost_reply" \in Env /\ Pays)
    IN
    /\ at[m] = "call"
    /\ \/ Pays /\ got' = [got EXCEPT ![m] = "refunded"] /\ Goto(m, "reset") /\ UNCHANGED run
       \/ /\ UNCHANGED <<paid, run>>
          /\ got' = [got EXCEPT ![m] = "failed"] /\ Goto(m, "reset")
       \/ KeepsOrLoses /\ Goto(m, "record") /\ UNCHANGED <<run, got>>
       \/ KeepsOrLoses /\ Conclude(m, "failed")
    /\ UNCHANGED <<ledger, saved, attempt, crashes, reported, failures, open, dlq, filed>>

CloseBreaker(c) == failures' = [failures EXCEPT ![c] = 0] /\ open' = open \ {c}

\* reset_circuit_breaker(), then the result.
ResetBreaker(m) ==
    /\ at[m] = "reset"
    /\ CloseBreaker(PaidTo[run[m].cur])
    /\ Conclude(m, got[m])
    /\ UNCHANGED <<ledger, saved, attempt, crashes, reported, paid, dlq, filed>>

\* The same except clause catches what fails after the answer, before the breaker
\* is closed or after it: the refund is then recorded as failed.
ResetFails(m) ==
    /\ "error" \in Env /\ at[m] = "reset"
    /\ CloseBreaker(PaidTo[run[m].cur]) \/ UNCHANGED <<failures, open>>
    /\ Conclude(m, "failed")
    /\ UNCHANGED <<ledger, saved, attempt, crashes, reported, paid, dlq, filed>>

\* A bug to catch: the count goes on past the threshold.
CountedPast(c) == failures[c] + 1

\* failures + 1, and from Threshold on the breaker is open.
Counted(c) == IF failures[c] < Threshold THEN failures[c] + 1 ELSE failures[c]
RecordMerchantFailure(c) ==
    /\ failures' = [failures EXCEPT ![c] = Counted(c)]
    /\ open' = IF Counted(c) >= Threshold THEN open \cup {c} ELSE open

RecordFailure(m) ==
    /\ at[m] = "record"
    /\ RecordMerchantFailure(PaidTo[run[m].cur])
    /\ Goto(m, "dlq_row")
    /\ UNCHANGED <<ledger, run, saved, attempt, crashes, got, reported, paid, dlq, filed>>

WriteDlqEntry(m) ==
    /\ at[m] = "dlq_row"
    /\ dlq' = dlq \cup {run[m].cur}
    /\ Conclude(m, "dlq")
    /\ UNCHANGED <<ledger, saved, attempt, crashes, reported, paid, failures, open, filed>>

-----------------------------------------------------------------------------
(* After the last step *)

Classify(m) ==
    LET f == Fault[run[m].req] IN
    /\ at[m] = "classify"
    /\ Node(m, "classify", [run[m] EXCEPT !.fault = f],
            IF f = "network_fault" THEN "dispute" ELSE "liability")

GenerateUdirPayload(m) ==
    Node(m, "dispute", run[m], "end") /\ filed' = filed \cup {"udir_payload"}

GenerateLiabilityReport(m) ==
    Node(m, "liability", run[m], "end") /\ filed' = filed \cup {"liability_report"}

-----------------------------------------------------------------------------
(* Checkpoints, and the end of process_message *)

HasCheckpointer(m) == attempt[m] < 3
\* A node that has not returned has changed nothing: its checkpoint is the one
\* in front of it.
NodeOf(label) == IF label \in InRefund THEN "refund" ELSE label

Save(m) ==
    /\ at[m] \in Running \ {"preflight"} /\ HasCheckpointer(m)
    /\ saved' = [node |-> NodeOf(at[m]), st |-> run[m]]
    /\ saved' # saved
    /\ UNCHANGED <<ledger, at, run, attempt, crashes, got, reported, paid, failures, open,
                   dlq, filed>>

\* ainvoke() returns when the last checkpoint is written.
Complete(m) ==
    /\ at[m] = "end"
    /\ \/ /\ HasCheckpointer(m)
          /\ saved' = [node |-> "end", st |-> run[m]] /\ Ends(m, "complete")
       \/ ~HasCheckpointer(m) /\ UNCHANGED saved /\ Ends(m, "degraded")
    /\ UNCHANGED <<ledger, attempt, crashes, paid, failures, open, dlq, filed>>

\* An exception leaves a node: if it speaks of a connection and it is the first
\* time, the run is tried again; otherwise the request is acknowledged.
RunFails(m) ==
    /\ "error" \in Env
    /\ at[m] \in (Nodes \cup InRefund) \ {"call", "reset"}
    /\ \/ /\ attempt[m] = 1
          /\ attempt' = [attempt EXCEPT ![m] = 2]
          /\ Goto(m, "preflight")
          /\ got' = [got EXCEPT ![m] = "none"]
          /\ UNCHANGED <<run, reported>>
       \/ Ends(m, "error") /\ UNCHANGED attempt
    /\ UNCHANGED <<ledger, saved, crashes, paid, failures, open, dlq, filed>>

\* Other workflows' sagas meet the same merchants.
Neighbour(c) ==
    /\ "neighbours" \in Env
    /\ \/ RecordMerchantFailure(c)
       \/ failures' = [failures EXCEPT ![c] = 0] /\ open' = open \ {c}
    /\ UNCHANGED <<ledger, at, run, saved, attempt, crashes, got, reported, paid, dlq, filed>>

Visit(m) ==
    \/ Load(m) \/ Select(m) \/ FetchPolicy(m) \/ Extract(m) \/ Classify(m)

Advance(m) ==
    \/ Deliver(m) \/ Preflight(m)
    \/ Visit(m) /\ UNCHANGED filed
    \/ CheckBreaker(m) \/ CallRefund(m) \/ ResetBreaker(m) \/ RecordFailure(m)
    \/ WriteDlqEntry(m)
    \/ GenerateUdirPayload(m) \/ GenerateLiabilityReport(m) \/ Complete(m)

Next ==
    \/ \E s \in Step : Settle(s)
    \/ \E m \in Msg : \/ Request(m) \/ Advance(m) \/ Save(m)
                      \/ PreflightFails(m) \/ ResetFails(m) \/ RunFails(m)
    \/ \E c \in Merchant : Neighbour(c)
    \/ Crash

Spec == Init /\ [][Next]_vars

\* The consumer takes what is queued and the event loop runs what has started;
\* nobody owes us a request, a crash, an exception or a checkpoint in time.
FairSpec == Spec /\ \A m \in Msg : WF_vars(Advance(m))

-----------------------------------------------------------------------------
(* Safety *)

Undoing == {"policy", "extract", "refund"}

\* The steps a run has dealt with, is at, and has still to deal with, in order.
PlanOf(node, st) ==
    [i \in 1 .. Len(st.results) |-> st.results[i].step]
    \o (IF node \in Undoing THEN <<st.cur>> ELSE <<>>) \o st.todo

\* The undo order of the ledger as it was at some time.
UndoesLedger(p) == \E n \in 0 .. Len(ledger) : p = Reverse(SubSeq(ledger, 1, n))

Loaded == Nodes \ {"load"}
AfterLoop == {"classify", "dispute", "liability", "end"}

\* Whatever dies, fails, is retried or redelivered, a run and its checkpoint
\* owe every settled step exactly one verdict, the newest step first; and a
\* run that has left the loop owes none.
PlanIsKept ==
    /\ \A m \in Msg :
           NodeOf(at[m]) \in Loaded => UndoesLedger(PlanOf(NodeOf(at[m]), run[m]))
    /\ saved.node \in Loaded => UndoesLedger(PlanOf(saved.node, saved.st))
    /\ saved.node \in AfterLoop => saved.st.todo = <<>>

-----------------------------------------------------------------------------
(* The invariants behind the plan *)

\* Where a request is says what its run holds, and how often it may still be
\* delivered; a checkpoint holds what the node it stands at needs.
RunsAgree ==
    /\ \A m \in Msg :
           /\ at[m] \in Undoing \cup InRefund => run[m].cur \in Step
           /\ at[m] \in Nodes \cup InRefund => run[m].req \in Msg
           /\ at[m] = "reset" => got[m] \in Outcomes
           /\ at[m] \in Waiting \cup Running => crashes[m] <= DeliveryLimit
    /\ saved.node \in Undoing => saved.st.cur \in Step
    /\ saved.node # "none" => saved.st.req \in Msg

\* The inductive invariant of TypeOK, whatever goes wrong.
ControlAgrees == TypeOK /\ RunsAgree

\* A run that has left the loop has nothing left to undo.
NothingLeft == \A m \in Msg : at[m] \in AfterLoop => run[m].todo = <<>>

\* The inductive invariant of PlanIsKept.
PlanHolds == ControlAgrees /\ NothingLeft /\ PlanIsKept

-----------------------------------------------------------------------------
(* The invariants behind the durable record, where no two requests of the
   workflow overlap *)

Active(m) == at[m] \in Nodes \cup InRefund
Extends(p, q) == Len(p) <= Len(q) /\ \A i \in 1 .. Len(p) : q[i] = p[i]

OneRun == \A m, n \in Msg : at[m] \in Running /\ at[n] \in Running => m = n

\* A step settles once.
LedgerDistinct == \A i, j \in 1 .. Len(ledger) : ledger[i] = ledger[j] => i = j

\* A run that may write the checkpoint has come at least as far, on one plan.
RunExtendsSaved ==
    \A m \in Msg : Active(m) /\ HasCheckpointer(m) /\ saved.node \in Loaded =>
        /\ NodeOf(at[m]) \in Loaded
        /\ PlanOf(NodeOf(at[m]), run[m]) = PlanOf(saved.node, saved.st)
        /\ Extends(saved.st.results, run[m].results)
        /\ saved.node = "end" => at[m] = "end"

NoVerdictYet ==
    /\ \A m \in Msg : at[m] = "load" => run[m].results = <<>>
    /\ saved.node \notin Loaded => saved.st.results = <<>>

\* The inductive invariant of ImplementsPlan.
RecordHolds == PlanHolds /\ OneRun /\ LedgerDistinct /\ RunExtendsSaved /\ NoVerdictYet

-----------------------------------------------------------------------------
(* What the results say *)

VerdictsOf(st) == ToSet(st.results)
AllVerdicts == VerdictsOf(saved.st) \cup UNION {VerdictsOf(run[m]) : m \in Msg}

\* What the results say of money is so: a refund that is reported was made, and
\* what went to the dead letters has a row there for someone to pay it from.
ResultsAreTrue ==
    \A v \in AllVerdicts :
        /\ v.outcome = "refunded" => paid[v.step] > 0
        /\ v.outcome = "dlq" => v.step \in dlq

\* No money comes back against a merchant's policy; not knowing the policy
\* counts as "no" (the comment at graph.py:237-256).
PolicyRespected ==
    \A s \in Step : paid[s] > 0 => PaidTo[s] \in Refundable \/ PaidTo[s] \notin WithPolicy

\* Something came between: a redelivery, a second attempt, or a saga given up.
Disturbed == \E m \in Msg : crashes[m] > 0 \/ attempt[m] > 1 \/ reported[m] = "error"

\* Without such a thing every refund is asked for once, however many requests
\* the workflow published.
RefundedOnce == \A s \in Step : paid[s] > 1 => Disturbed

\* A refund whose verdict is in the checkpoint is never asked for again: the
\* resumed saga goes on from the last completed undo step (README.md:250).
Judged == {v.step : v \in VerdictsOf(saved.st)}
JudgedStaysJudged == [][\A s \in Judged : paid'[s] = paid[s]]_vars

\* "compensation_complete" is only said when each settled step has a verdict in
\* the checkpoint and a report has gone out.
CompleteMeansJudged ==
    (\E m \in Msg : reported[m] = "complete") =>
        ToSet(ledger) \subseteq Judged /\ filed # {}

\* What makes ResultsAreTrue inductive: a run that waits for its breaker to be
\* reset was paid if it says so ...
AnswersAreTrue ==
    \A m \in Msg : at[m] = "reset" =>
        got[m] = "failed" \/ (got[m] = "refunded" /\ paid[run[m].cur] > 0)

\* ... and PolicyRespected: terms that allow a refund come from the policy.
MayRefund(s) == PaidTo[s] \in Refundable \/ PaidTo[s] \notin WithPolicy
TermsAreGrounded ==
    /\ \A m \in Msg :
           /\ at[m] \in {"refund"} \cup InRefund /\ run[m].terms # "keep"
                  => MayRefund(run[m].cur)
           /\ at[m] = "call" => run[m].terms # "keep"
    /\ saved.node = "refund" /\ saved.st.terms # "keep" => MayRefund(saved.st.cur)

\* The whole ledger is in every plan, and a saga at its end has filed: the
\* inductive strengthening of CompleteMeansJudged.
PlansAreWhole ==
    /\ \A m \in Msg :
           NodeOf(at[m]) \in Loaded => PlanOf(NodeOf(at[m]), run[m]) = Reverse(ledger)
    /\ saved.node \in Loaded => PlanOf(saved.node, saved.st) = Reverse(ledger)
    /\ saved.node # "none" => \E m \in Msg : at[m] # "unsent"
EndsAreFiled ==
    /\ (\E m \in Msg : reported[m] = "complete") => saved.node = "end"
    /\ (\E m \in Msg : at[m] = "end") \/ saved.node = "end" => filed # {}

\* The steps the run of m has asked the refund of, where nothing came between.
AskedBy(m) == {v.step : v \in VerdictsOf(run[m])}
              \cup (IF at[m] \in {"reset", "record", "dlq_row"} THEN {run[m].cur} ELSE {})
DisturbanceLasts ==
    \A m \in Msg : /\ attempt[m] > 1 => at[m] \in Running \cup Gone \/ crashes[m] > 0
                   /\ reported[m] # "none" => at[m] \in Gone

\* The inductive strengthening of RefundedOnce.
PaidIsAsked ==
    ~Disturbed =>
        /\ \A s \in Step : paid[s] <= 1
        /\ \A m \in Msg : Active(m) => \A s \in Step : paid[s] > 0 => s \in AskedBy(m)
        /\ (\A m \in Msg : ~Active(m)) => \A s \in Step : paid[s] > 0 => s \in Judged

\* No run without checkpointer starts when a refund may have been made: "no
\* refund has been attempted yet" (worker.py:79-80).
DegradedStartsClean ==
    \A m \in Msg : at[m] = "load" /\ ~HasCheckpointer(m) => \A s \in Step : paid[s] = 0

-----------------------------------------------------------------------------
(* The durable record, and liveness *)

Plan == INSTANCE UndoPlan WITH
            Steps <- Step,
            plan <- IF saved.node \in Loaded THEN PlanOf(saved.node, saved.st) ELSE <<>>,
            verdicts <- saved.st.results

\* Across crashes, retries and further requests the checkpoint is one plan that
\* is worked off from the front.
ImplementsPlan == Plan!Spec

\* Every request is dealt with or dead-lettered, however often the worker dies.
RequestHandled == \A m \in Msg : at[m] = "queued" ~> at[m] \in Gone

===============================================================================
