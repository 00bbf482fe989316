----------------------------- MODULE SagaProofs ------------------------------
(***************************************************************************)
(* Proofs about module Saga, for every set of steps, merchants and         *)
(* requests, and for everything that may go wrong.                         *)
(***************************************************************************)
EXTENDS Saga, SequenceTheorems, TLAPS

-----------------------------------------------------------------------------
(* Types *)

LEMMA EmptyIsState ==
    \A m \in Msg \cup {None} : EmptyState(m) \in State /\ EmptyState(m).req = m
BY DEF EmptyState, State, Terms

LEMMA SagaTypeInit == Init => ControlAgrees
<1> SUFFICES ASSUME Init PROVE ControlAgrees
  OBVIOUS
<1> USE SagaAssumption DEF Init, Nodes, Waiting, Running, Gone, InRefund
<1>1. TypeOK
  BY EmptyIsState DEF TypeOK, Checkpoint
<1>2. RunsAgree
  BY DEF RunsAgree, Undoing
<1> QED BY <1>1, <1>2 DEF ControlAgrees

\* What the nodes do to the state of a run keeps it one.
LEMMA StateUpdates ==
    ASSUME NEW st \in State
    PROVE  /\ \A t \in Terms : [st EXCEPT !.terms = t] \in State
           /\ [st EXCEPT !.cur = None] \in State
           /\ \A q \in Seq(Step) : [st EXCEPT !.todo = q, !.results = <<>>] \in State
           /\ st.todo # <<>> =>
                  [st EXCEPT !.cur = Head(st.todo), !.todo = Tail(st.todo),
                             !.terms = "none"] \in State
           /\ \A f \in {"network_fault", "agent_fault"} : [st EXCEPT !.fault = f] \in State
           /\ st.cur \in Step => \A o \in Outcomes :
                  [st EXCEPT !.results = Append(@, [step |-> st.cur, outcome |-> o])]
                      \in State
<1>1. \A t \in Terms : [st EXCEPT !.terms = t] \in State
  BY DEF State
<1>2. [st EXCEPT !.cur = None] \in State
  BY DEF State
<1>3. \A q \in Seq(Step) : [st EXCEPT !.todo = q, !.results = <<>>] \in State
  <2>1. <<>> \in Seq(Verdict)
    OBVIOUS
  <2> QED BY <2>1 DEF State
<1>4. st.todo # <<>> =>
          [st EXCEPT !.cur = Head(st.todo), !.todo = Tail(st.todo), !.terms = "none"]
              \in State
  <2> SUFFICES ASSUME st.todo # <<>>
               PROVE  [st EXCEPT !.cur = Head(st.todo), !.todo = Tail(st.todo),
                                 !.terms = "none"] \in State
    OBVIOUS
  <2>1. st.todo \in Seq(Step)
    BY DEF State
  <2>2. Head(st.todo) \in Step /\ Tail(st.todo) \in Seq(Step)
    BY <2>1
  <2> QED BY <2>2 DEF State, Terms
<1>5. \A f \in {"network_fault", "agent_fault"} : [st EXCEPT !.fault = f] \in State
  BY DEF State
<1>6. ASSUME st.cur \in Step, NEW o \in Outcomes
      PROVE  [st EXCEPT !.results = Append(@, [step |-> st.cur, outcome |-> o])] \in State
  <2>1. [step |-> st.cur, outcome |-> o] \in Verdict
    BY <1>6 DEF Verdict
  <2>2. Append(st.results, [step |-> st.cur, outcome |-> o]) \in Seq(Verdict)
    BY <2>1 DEF State
  <2> QED BY <2>2 DEF State
<1> QED BY <1>1, <1>2, <1>3, <1>4, <1>5, <1>6

\* What one request's step has to show: the types of what it writes, and that
\* its new label agrees with its run.
Local(m) ==
    /\ at' \in [Msg -> Waiting \cup Running \cup Gone]
    /\ run' \in [Msg -> State]
    /\ got' \in [Msg -> Outcomes \cup {"none"}]
    /\ \A n \in Msg \ {m} : at'[n] = at[n] /\ run'[n] = run[n] /\ got'[n] = got[n]
    /\ at'[m] \in Undoing \cup InRefund => run'[m].cur \in Step
    /\ at'[m] \in Nodes \cup InRefund => run'[m].req \in Msg
    /\ at'[m] = "reset" => got'[m] \in Outcomes
    /\ at[m] \in Waiting \cup Running

Tables ==
    /\ attempt \in [Msg -> 1 .. 3]
    /\ reported \in [Msg -> {"none", "complete", "degraded", "error"}]
    /\ paid \in [Step -> Nat]
    /\ failures \in [Merchant -> 0 .. Threshold]
    /\ open \subseteq Merchant
    /\ dlq \subseteq Step
    /\ filed \subseteq {"udir_payload", "liability_report"}

LEMMA LocalKeeps ==
    ASSUME ControlAgrees, NEW m \in Msg, Local(m), Tables',
           UNCHANGED <<ledger, crashes>>, saved' \in Checkpoint,
           saved'.node \in Undoing => saved'.st.cur \in Step,
           saved'.node # "none" => saved'.st.req \in Msg
    PROVE  ControlAgrees'
<1> USE DEF ControlAgrees, Local
<1>1. TypeOK'
  BY DEF TypeOK, Tables
<1>2. ASSUME NEW n \in Msg
      PROVE  /\ at'[n] \in Undoing \cup InRefund => run'[n].cur \in Step
             /\ at'[n] \in Nodes \cup InRefund => run'[n].req \in Msg
             /\ at'[n] = "reset" => got'[n] \in Outcomes
             /\ at'[n] \in Waiting \cup Running => crashes'[n] <= DeliveryLimit
  <2>1. CASE n = m
    BY <2>1 DEF RunsAgree
  <2>2. CASE n # m
    BY <2>2 DEF RunsAgree
  <2> QED BY <2>1, <2>2
<1>3. RunsAgree'
  BY <1>2 DEF RunsAgree
<1> QED BY <1>1, <1>3

\* The same for a step that leaves the checkpoint alone.
LEMMA LocalKeepsSaved ==
    ASSUME ControlAgrees, NEW m \in Msg, Local(m), Tables',
           UNCHANGED <<ledger, crashes, saved>>
    PROVE  ControlAgrees'
<1>1. saved \in Checkpoint
  BY DEF ControlAgrees, TypeOK
<1>2. /\ saved.node \in Undoing => saved.st.cur \in Step
      /\ saved.node # "none" => saved.st.req \in Msg
  BY DEF ControlAgrees, RunsAgree
<1> QED BY <1>1, <1>2, LocalKeeps

LEMMA TablesHold == ControlAgrees => Tables
BY DEF ControlAgrees, TypeOK, Tables

LEMMA NodeKeeps ==
    ASSUME ControlAgrees, NEW m \in Msg, NEW st \in State, NEW here \in Nodes,
           NEW next \in Nodes, Node(m, here, st, next), st.req = run[m].req,
           next \in Undoing => st.cur \in Step,
           filed' \subseteq {"udir_payload", "liability_report"}
    PROVE  ControlAgrees'
<1> USE DEF Node, Goto, Set, Running, Nodes, InRefund, Undoing
<1>1. run[m].req \in Msg
  BY DEF ControlAgrees, RunsAgree
<1>2. Local(m)
  BY <1>1 DEF Local, ControlAgrees, TypeOK
<1>3. Tables'
  BY TablesHold DEF Tables
<1> QED BY <1>2, <1>3, LocalKeepsSaved

LEMMA ConcludeLocal ==
    ASSUME ControlAgrees, NEW m \in Msg, NEW o \in Outcomes, Conclude(m, o),
           at[m] \in {"refund"} \cup InRefund
    PROVE  Local(m)
<1> DEFINE st == [run[m] EXCEPT !.results =
                      Append(@, [step |-> run[m].cur, outcome |-> o])]
<1>1. run[m] \in State /\ run[m].cur \in Step /\ run[m].req \in Msg
  BY DEF ControlAgrees, RunsAgree, TypeOK, Undoing, Nodes
<1>2. st \in State
  BY <1>1, StateUpdates
<1>3. st.req = run[m].req
  BY <1>1 DEF State
<1>4. LoopOrEnd(run[m]) \in {"select", "classify"}
  BY DEF LoopOrEnd
<1>5. run' = [run EXCEPT ![m] = st]
  BY DEF Conclude, Set
<1> HIDE DEF st
<1> QED BY <1>1, <1>2, <1>3, <1>4, <1>5
        DEF Local, Conclude, Goto, ControlAgrees, TypeOK, Running, Nodes, InRefund, Undoing

LEMMA AdvanceControl ==
    ASSUME ControlAgrees, NEW m \in Msg, Advance(m)
    PROVE  ControlAgrees'
<1> USE DEF Nodes, InRefund, Running, Waiting, Gone, Undoing, Goto
<1>t. TypeOK /\ RunsAgree /\ Tables
  BY TablesHold DEF ControlAgrees
<1>r. run[m] \in State
  BY <1>t DEF TypeOK
<1>1. CASE Deliver(m)
  <2>1. Local(m) /\ Tables'
    BY <1>t, <1>1 DEF Deliver, Local, Tables, TypeOK
  <2> QED BY <1>1, <2>1, LocalKeepsSaved DEF Deliver
<1>2. CASE Preflight(m)
  <2>1. EmptyState(m) \in State /\ EmptyState(m).req \in Msg
    BY EmptyIsState
  <2>2. saved.st \in State /\ saved.node \in Nodes \cup {"none"}
    BY <1>t DEF TypeOK, Checkpoint
  <2>3. Local(m)
    <3>1. CASE saved.node = "none"
      <4>1. at' = [at EXCEPT ![m] = "load"] /\ run' = [run EXCEPT ![m] = EmptyState(m)]
        BY <1>2, <3>1 DEF Preflight, Set
      <4>2. got' = got /\ at[m] = "preflight"
        BY <1>2 DEF Preflight
      <4> QED BY <1>t, <2>1, <4>1, <4>2 DEF Local, TypeOK
    <3>2. CASE saved.node # "none"
      BY <1>t, <1>2, <2>2, <3>2 DEF Preflight, Set, Local, TypeOK, RunsAgree
    <3> QED BY <3>1, <3>2
  <2>4. Tables'
    BY <1>t, <1>2 DEF Preflight, Tables
  <2> QED BY <1>2, <2>3, <2>4, LocalKeepsSaved DEF Preflight
<1>3. CASE Visit(m) /\ UNCHANGED filed
  <2>0. filed' \subseteq {"udir_payload", "liability_report"}
    BY <1>3, <1>t DEF Tables
  <2>1. CASE Load(m)
    <3>1. UndoOrder \in Seq(Step)
      BY <1>t DEF TypeOK, UndoOrder, Reverse
    <3>2. [run[m] EXCEPT !.todo = UndoOrder, !.results = <<>>] \in State
      BY <1>r, <3>1, StateUpdates
    <3>3. [run[m] EXCEPT !.todo = UndoOrder, !.results = <<>>].req = run[m].req
      BY <1>r DEF State
    <3> QED BY <2>0, <2>1, <3>2, <3>3, NodeKeeps DEF Load
  <2>2. CASE Select(m)
    <3>1. CASE run[m].todo = <<>>
      <4> DEFINE st == [run[m] EXCEPT !.cur = None]
      <4>1. st \in State /\ st.req = run[m].req
        BY <1>r, StateUpdates DEF State
      <4>2. Node(m, "select", st, "classify")
        BY <2>2, <3>1 DEF Select
      <4> HIDE DEF st
      <4> QED BY <2>0, <4>1, <4>2, NodeKeeps
    <3>2. CASE run[m].todo # <<>>
      <4> DEFINE st == [run[m] EXCEPT !.cur = Head(run[m].todo),
                                      !.todo = Tail(run[m].todo), !.terms = "none"]
      <4>1. st \in State
        BY <1>r, <3>2, StateUpdates
      <4>2. st.req = run[m].req /\ st.cur = Head(run[m].todo)
        BY <1>r DEF State
      <4>3. Head(run[m].todo) \in Step
        BY <1>r, <3>2 DEF State
      <4>4. Node(m, "select", st, "policy")
        BY <2>2, <3>2 DEF Select
      <4> HIDE DEF st
      <4> QED BY <2>0, <4>1, <4>2, <4>3, <4>4, NodeKeeps
    <3> QED BY <3>1, <3>2
  <2>3. CASE FetchPolicy(m)
    <3>1. run[m].cur \in Step
      BY <1>t, <2>3 DEF FetchPolicy, RunsAgree
    <3>2. CASE Node(m, "policy", run[m], "refund")
      BY <1>r, <2>0, <3>1, <3>2, NodeKeeps
    <3>3. CASE Node(m, "policy", run[m], "extract")
      BY <1>r, <2>0, <3>1, <3>3, NodeKeeps
    <3>4. CASE Node(m, "policy", [run[m] EXCEPT !.terms = "keep"], "refund")
      <4> DEFINE st == [run[m] EXCEPT !.terms = "keep"]
      <4>1. st \in State
        BY <1>r, StateUpdates DEF Terms
      <4>2. st.req = run[m].req /\ st.cur = run[m].cur
        BY <1>r DEF State
      <4>3. Node(m, "policy", st, "refund")
        BY <3>4
      <4> HIDE DEF st
      <4> QED BY <2>0, <3>1, <4>1, <4>2, <4>3, NodeKeeps
    <3> QED BY <2>3, <3>2, <3>3, <3>4 DEF FetchPolicy
  <2>4. CASE Extract(m)
    <3>1. run[m].cur \in Step
      BY <1>t, <2>4 DEF Extract, RunsAgree
    <3>2. PICK t \in Terms : Node(m, "extract", [run[m] EXCEPT !.terms = t], "refund")
      BY <2>4 DEF Extract, Terms
    <3> DEFINE st == [run[m] EXCEPT !.terms = t]
    <3>3. st \in State
      BY <1>r, StateUpdates
    <3>4. st.req = run[m].req /\ st.cur = run[m].cur
      BY <1>r DEF State
    <3>5. Node(m, "extract", st, "refund")
      BY <3>2
    <3> HIDE DEF st
    <3> QED BY <2>0, <3>1, <3>3, <3>4, <3>5, NodeKeeps
  <2>5. CASE Classify(m)
    <3>1. run[m].req \in Msg
      BY <1>t, <2>5 DEF Classify, RunsAgree
    <3> DEFINE f == Fault[run[m].req]
               st == [run[m] EXCEPT !.fault = f]
               next == IF f = "network_fault" THEN "dispute" ELSE "liability"
    <3>2. f \in {"network_fault", "agent_fault"}
      BY <3>1, SagaAssumption
    <3>3. st \in State
      BY <1>r, <3>2, StateUpdates
    <3>4. st.req = run[m].req
      BY <1>r DEF State
    <3>5. Node(m, "classify", st, next)
      BY <2>5 DEF Classify
    <3>6. next \in Nodes \ Undoing
      OBVIOUS
    <3> HIDE DEF st, next
    <3> QED BY <2>0, <3>3, <3>4, <3>5, <3>6, NodeKeeps
  <2> QED BY <1>3, <2>1, <2>2, <2>3, <2>4, <2>5 DEF Visit
<1>4. CASE CheckBreaker(m)
  <2>1. at[m] = "refund" /\ run[m].cur \in Step /\ run[m].req \in Msg
    BY <1>t, <1>4 DEF CheckBreaker, RunsAgree
  <2>2. CASE Conclude(m, "non_refundable")
    BY <1>4, <2>1, <2>2, ConcludeLocal, LocalKeepsSaved, <1>t
       DEF CheckBreaker, Outcomes, Tables
  <2>3. CASE UNCHANGED <<run, got>> /\ (Goto(m, "dlq_row") \/ Goto(m, "call"))
    <3>1. Local(m)
      BY <1>t, <2>1, <2>3 DEF Local, TypeOK
    <3> QED BY <1>4, <3>1, LocalKeepsSaved, <1>t DEF CheckBreaker, Tables
  <2> QED BY <1>4, <2>2, <2>3 DEF CheckBreaker
<1>5. CASE CallRefund(m)
  <2>1. at[m] = "call" /\ run[m].cur \in Step /\ run[m].req \in Msg
    BY <1>t, <1>5 DEF CallRefund, RunsAgree
  <2>2. Tables'
    BY <1>t, <1>5, <2>1 DEF CallRefund, Tables
  <2>3. CASE Conclude(m, "failed")
    BY <1>5, <2>1, <2>2, <2>3, ConcludeLocal, LocalKeepsSaved DEF CallRefund, Outcomes
  <2>4. CASE /\ UNCHANGED run
             /\ \/ UNCHANGED got /\ Goto(m, "record")
                \/ /\ \E o \in Outcomes : got' = [got EXCEPT ![m] = o]
                   /\ Goto(m, "reset")
    <3>1. ASSUME UNCHANGED got, Goto(m, "record")
          PROVE  Local(m)
      BY <1>t, <2>1, <2>4, <3>1 DEF Local, TypeOK
    <3>2. ASSUME \E o \in Outcomes : got' = [got EXCEPT ![m] = o], Goto(m, "reset")
          PROVE  Local(m)
      <4>1. PICK o \in Outcomes : got' = [got EXCEPT ![m] = o]
        BY <3>2
      <4> QED BY <1>t, <2>1, <2>4, <3>2, <4>1 DEF Local, TypeOK
    <3>3. Local(m)
      BY <2>4, <3>1, <3>2
    <3> QED BY <1>5, <2>2, <3>3, LocalKeepsSaved DEF CallRefund
  <2> QED BY <1>5, <2>3, <2>4 DEF CallRefund, Outcomes
<1>6. CASE ResetBreaker(m)
  <2>1. at[m] = "reset" /\ got[m] \in Outcomes
    BY <1>t, <1>6 DEF ResetBreaker, RunsAgree
  <2>2. Local(m)
    BY <1>6, <2>1, ConcludeLocal DEF ResetBreaker
  <2>3. 0 \in 0 .. Threshold
    BY SagaAssumption
  <2>4. Tables'
    BY <1>t, <1>6, <2>3 DEF ResetBreaker, CloseBreaker, Tables
  <2> QED BY <1>6, <2>2, <2>4, LocalKeepsSaved DEF ResetBreaker
<1>7. CASE RecordFailure(m)
  <2>1. at[m] = "record" /\ run[m].cur \in Step /\ run[m].req \in Msg
    BY <1>t, <1>7 DEF RecordFailure, RunsAgree
  <2>2. Local(m)
    BY <1>t, <1>7, <2>1 DEF RecordFailure, Local, TypeOK
  <2>3. Tables'
    BY <1>t, <1>7, <2>1, SagaAssumption
       DEF RecordFailure, RecordMerchantFailure, Counted, Tables
  <2> QED BY <1>7, <2>2, <2>3, LocalKeepsSaved DEF RecordFailure
<1>8. CASE WriteDlqEntry(m)
  <2>1. at[m] = "dlq_row" /\ run[m].cur \in Step
    BY <1>t, <1>8 DEF WriteDlqEntry, RunsAgree
  <2>2. Local(m)
    BY <1>8, <2>1, ConcludeLocal DEF WriteDlqEntry, Outcomes
  <2>3. Tables'
    BY <1>t, <1>8, <2>1 DEF WriteDlqEntry, Tables
  <2> QED BY <1>8, <2>2, <2>3, LocalKeepsSaved DEF WriteDlqEntry
<1>9. CASE GenerateUdirPayload(m)
  BY <1>9, <1>t, <1>r, NodeKeeps DEF GenerateUdirPayload, Tables
<1>10. CASE GenerateLiabilityReport(m)
  BY <1>10, <1>t, <1>r, NodeKeeps DEF GenerateLiabilityReport, Tables
<1>11. CASE Complete(m)
  <2>1. Local(m)
    <3>1. at[m] = "end" /\ at' = [at EXCEPT ![m] = "acked"]
      BY <1>11 DEF Complete, Ends
    <3>2. run' = [run EXCEPT ![m] = EmptyState(None)] /\ got' = [got EXCEPT ![m] = "none"]
      BY <1>11 DEF Complete, Ends, Set
    <3>3. EmptyState(None) \in State
      BY EmptyIsState
    <3> QED BY <1>t, <3>1, <3>2, <3>3 DEF Local, TypeOK
  <2>2. Tables'
    BY <1>t, <1>11 DEF Complete, Ends, Tables
  <2>3. /\ saved' \in Checkpoint
        /\ saved'.node \in Undoing => saved'.st.cur \in Step
        /\ saved'.node # "none" => saved'.st.req \in Msg
    BY <1>t, <1>r, <1>11 DEF Complete, TypeOK, RunsAgree, Checkpoint
  <2> QED BY <1>11, <2>1, <2>2, <2>3, LocalKeeps DEF Complete
<1> QED BY <1>1, <1>2, <1>3, <1>4, <1>5, <1>6, <1>7, <1>8, <1>9, <1>10, <1>11 DEF Advance

LEMMA MishapControl ==
    ASSUME ControlAgrees, NEW m \in Msg,
           \/ Request(m) \/ Save(m) \/ PreflightFails(m) \/ ResetFails(m) \/ RunFails(m)
    PROVE  ControlAgrees'
<1> USE DEF Nodes, InRefund, Running, Waiting, Gone, Undoing, Goto
<1>t. TypeOK /\ RunsAgree /\ Tables
  BY TablesHold DEF ControlAgrees
<1>r. run[m] \in State
  BY <1>t DEF TypeOK
<1>e. /\ EmptyState(None) \in State
      /\ EmptyState(m) \in State /\ EmptyState(m).req = m
  BY EmptyIsState
\* process_message gives the request up.
<1>d. ASSUME Ends(m, "error"), at[m] \in Running
      PROVE  Local(m)
  <2>1. /\ at' = [at EXCEPT ![m] = "acked"]
        /\ run' = [run EXCEPT ![m] = EmptyState(None)]
        /\ got' = [got EXCEPT ![m] = "none"]
    BY <1>d DEF Ends
  <2> QED BY <1>t, <1>e, <1>d, <2>1 DEF Local, TypeOK
<1>1. CASE Request(m)
  <2>1. Local(m) /\ Tables'
    BY <1>t, <1>1 DEF Request, Local, Tables, TypeOK
  <2> QED BY <1>1, <2>1, LocalKeepsSaved DEF Request
<1>2. CASE Save(m)
  <2>1. Local(m) /\ Tables'
    BY <1>t, <1>2 DEF Save, Local, Tables, TypeOK, RunsAgree
  <2>2. NodeOf(at[m]) \in Nodes /\ run[m].req \in Msg
    BY <1>t, <1>2 DEF Save, NodeOf, RunsAgree
  <2>3. NodeOf(at[m]) \in Undoing => run[m].cur \in Step
    BY <1>t, <1>2 DEF Save, NodeOf, RunsAgree
  <2>4. saved' = [node |-> NodeOf(at[m]), st |-> run[m]]
    BY <1>2 DEF Save
  <2>5. saved' \in Checkpoint
    BY <1>r, <2>2, <2>4 DEF Checkpoint
  <2> QED BY <1>2, <2>1, <2>2, <2>3, <2>4, <2>5, LocalKeeps DEF Save
<1>3. CASE PreflightFails(m)
  <2>0. at[m] = "preflight"
    BY <1>3 DEF PreflightFails
  <2>1. CASE attempt' = [attempt EXCEPT ![m] = 2] /\ UNCHANGED <<at, run, got, reported>>
    <3>1. Local(m) /\ Tables'
      BY <1>t, <1>3, <2>0, <2>1 DEF PreflightFails, Local, Tables, TypeOK
    <3> QED BY <1>3, <3>1, LocalKeepsSaved DEF PreflightFails
  <2>2. CASE /\ attempt' = [attempt EXCEPT ![m] = 3] /\ Set(m, EmptyState(m))
             /\ Goto(m, "load") /\ UNCHANGED <<got, reported>>
    <3>1. at' = [at EXCEPT ![m] = "load"] /\ run' = [run EXCEPT ![m] = EmptyState(m)]
      BY <2>2 DEF Set
    <3>2. Local(m)
      BY <1>t, <1>e, <2>0, <2>2, <3>1 DEF Local, TypeOK
    <3>3. Tables'
      BY <1>t, <1>3, <2>2 DEF PreflightFails, Tables
    <3> QED BY <1>3, <3>2, <3>3, LocalKeepsSaved DEF PreflightFails
  <2>3. CASE Ends(m, "error") /\ UNCHANGED attempt
    <3>1. Tables'
      BY <1>t, <1>3, <2>3 DEF PreflightFails, Ends, Tables
    <3> QED BY <1>3, <1>d, <2>0, <2>3, <3>1, LocalKeepsSaved DEF PreflightFails
  <2> QED BY <1>3, <2>1, <2>2, <2>3 DEF PreflightFails
<1>4. CASE ResetFails(m)
  <2>1. Local(m)
    BY <1>4, ConcludeLocal DEF ResetFails, Outcomes
  <2>2. 0 \in 0 .. Threshold
    BY SagaAssumption
  <2>3. Tables'
    BY <1>t, <1>4, <2>2 DEF ResetFails, CloseBreaker, Tables
  <2> QED BY <1>4, <2>1, <2>3, LocalKeepsSaved DEF ResetFails
<1>5. CASE RunFails(m)
  <2>0. at[m] \in (Nodes \cup InRefund) \ {"call", "reset"}
    BY <1>5 DEF RunFails
  <2>1. CASE /\ attempt' = [attempt EXCEPT ![m] = 2] /\ Goto(m, "preflight")
             /\ got' = [got EXCEPT ![m] = "none"] /\ UNCHANGED <<run, reported>>
    <3>1. Local(m)
      BY <1>t, <2>0, <2>1 DEF Local, TypeOK
    <3>2. Tables'
      BY <1>t, <1>5, <2>1 DEF RunFails, Tables
    <3> QED BY <1>5, <3>1, <3>2, LocalKeepsSaved DEF RunFails
  <2>2. CASE Ends(m, "error") /\ UNCHANGED attempt
    <3>1. Tables'
      BY <1>t, <1>5, <2>2 DEF RunFails, Ends, Tables
    <3> QED BY <1>5, <1>d, <2>0, <2>2, <3>1, LocalKeepsSaved DEF RunFails
  <2> QED BY <1>5, <2>1, <2>2 DEF RunFails
<1> QED BY <1>1, <1>2, <1>3, <1>4, <1>5

LEMMA CrashControl ==
    ASSUME ControlAgrees, Crash
    PROVE  ControlAgrees'
<1> USE SagaAssumption DEF Nodes, InRefund, Running, Waiting, Gone, Undoing
<1>t. TypeOK /\ RunsAgree /\ Tables
  BY TablesHold DEF ControlAgrees
<1>1. /\ at' \in [Msg -> Waiting \cup Running \cup Gone]
      /\ crashes' \in [Msg -> 0 .. DeliveryLimit + 1]
      /\ \A m \in Msg : at'[m] \notin Running
      /\ \A m \in Msg : at'[m] \in Waiting => crashes'[m] <= DeliveryLimit
  BY <1>t DEF Crash, Redelivered, TypeOK, RunsAgree
<1>2. run' \in [Msg -> State] /\ got' \in [Msg -> Outcomes \cup {"none"}]
  BY EmptyIsState DEF Crash
<1>3. TypeOK'
  BY <1>t, <1>1, <1>2 DEF Crash, TypeOK
<1>4. RunsAgree'
  BY <1>t, <1>1 DEF Crash, RunsAgree
<1> QED BY <1>3, <1>4 DEF ControlAgrees

LEMMA ControlNext == ControlAgrees /\ [Next]_vars => ControlAgrees'
<1> SUFFICES ASSUME ControlAgrees, [Next]_vars PROVE ControlAgrees'
  OBVIOUS
<1>t. TypeOK /\ RunsAgree
  BY DEF ControlAgrees
<1>1. ASSUME NEW s \in Step, Settle(s) PROVE ControlAgrees'
  <2>1. TypeOK'
    BY <1>t, <1>1 DEF Settle, TypeOK
  <2>2. RunsAgree'
    BY <1>t, <1>1 DEF Settle, RunsAgree
  <2> QED BY <2>1, <2>2 DEF ControlAgrees
<1>2. ASSUME NEW c \in Merchant, Neighbour(c) PROVE ControlAgrees'
  <2>1. 0 \in 0 .. Threshold
    BY SagaAssumption
  <2>2. Counted(c) \in 0 .. Threshold
    BY <1>t, SagaAssumption DEF TypeOK, Counted
  <2>3. failures' \in [Merchant -> 0 .. Threshold] /\ open' \subseteq Merchant
    BY <1>t, <1>2, <2>1, <2>2 DEF Neighbour, RecordMerchantFailure, TypeOK
  <2>4. TypeOK'
    BY <1>t, <1>2, <2>3 DEF Neighbour, TypeOK
  <2>5. RunsAgree'
    BY <1>t, <1>2 DEF Neighbour, RunsAgree
  <2> QED BY <2>4, <2>5 DEF ControlAgrees
<1>3. CASE UNCHANGED vars
  <2>1. TypeOK'
    BY <1>t, <1>3 DEF vars, TypeOK
  <2>2. RunsAgree'
    BY <1>t, <1>3 DEF vars, RunsAgree
  <2> QED BY <2>1, <2>2 DEF ControlAgrees
<1> QED BY <1>1, <1>2, <1>3, AdvanceControl, MishapControl, CrashControl DEF Next

\* The compensation worker never leaves the states its tables, messages and
\* checkpoints are made for, whatever dies, fails or is delivered again: no
\* node runs without the step it is about, and no request runs again that was
\* delivered too often.
THEOREM SagaTypesHold == Spec => [](TypeOK /\ RunsAgree)
<1>1. ControlAgrees => TypeOK /\ RunsAgree
  BY DEF ControlAgrees
<1> QED BY <1>1, SagaTypeInit, ControlNext, PTL DEF Spec

-----------------------------------------------------------------------------
(* Plans *)

\* The steps of some verdicts.
StepsOf(vs) == [i \in 1 .. Len(vs) |-> vs[i].step]

LEMMA SplitHead ==
    ASSUME NEW r \in Seq(Step), NEW t \in Seq(Step), t # <<>>
    PROVE  (r \o <<Head(t)>>) \o Tail(t) = (r \o <<>>) \o t
OBVIOUS

LEMMA StepsOfAppend ==
    ASSUME NEW vs \in Seq(Verdict), NEW v \in Verdict
    PROVE  StepsOf(Append(vs, v)) = StepsOf(vs) \o <<v.step>>
BY DEF StepsOf, Verdict

LEMMA StepsOfSeq ==
    ASSUME NEW vs \in Seq(Verdict)
    PROVE  StepsOf(vs) \in Seq(Step)
<1>1. Len(vs) \in Nat
  OBVIOUS
<1>2. ASSUME NEW i \in 1 .. Len(vs)
      PROVE  vs[i].step \in Step
  <2>1. vs[i] \in Verdict
    OBVIOUS
  <2> QED BY <2>1 DEF Verdict
<1>3. StepsOf(vs) \in [1 .. Len(vs) -> Step]
  BY <1>2 DEF StepsOf
<1> QED BY <1>1, <1>3, SeqDef

LEMMA ConcatEmpty ==
    ASSUME NEW r \in Seq(Step)
    PROVE  r \o <<>> = r /\ <<>> \o r = r
OBVIOUS

LEMMA UndoOrderSeq ==
    ASSUME ledger \in Seq(Step)
    PROVE  Reverse(ledger) \in Seq(Step)
BY DEF Reverse

LEMMA LedgerPrefixes ==
    ASSUME ledger \in Seq(Step), NEW s \in Step, ledger' = Append(ledger, s), NEW p,
           UndoesLedger(p)
    PROVE  UndoesLedger(p)'
<1>1. PICK n \in 0 .. Len(ledger) : p = Reverse(SubSeq(ledger, 1, n))
  BY DEF UndoesLedger
<1>2. SubSeq(ledger', 1, n) = SubSeq(ledger, 1, n)
  OBVIOUS
<1>3. n \in 0 .. Len(ledger')
  OBVIOUS
<1> QED BY <1>1, <1>2, <1>3 DEF UndoesLedger

LEMMA WholeLedger ==
    ASSUME ledger \in Seq(Step)
    PROVE  UndoesLedger(Reverse(ledger))
<1>1. SubSeq(ledger, 1, Len(ledger)) = ledger
  OBVIOUS
<1>2. Len(ledger) \in 0 .. Len(ledger)
  OBVIOUS
<1> QED BY <1>1, <1>2 DEF UndoesLedger

LEMMA PlanIs ==
    ASSUME NEW node, NEW st
    PROVE  PlanOf(node, st) =
               (StepsOf(st.results) \o (IF node \in Undoing THEN <<st.cur>> ELSE <<>>))
               \o st.todo
BY DEF PlanOf, StepsOf

\* Only the results, the step at hand and the steps to do make up a plan.
LEMMA PlanSame ==
    ASSUME NEW node, NEW next, NEW st, NEW new,
           new.results = st.results, new.todo = st.todo,
           node \in Undoing <=> next \in Undoing,
           node \in Undoing => new.cur = st.cur
    PROVE  PlanOf(next, new) = PlanOf(node, st)
BY PlanIs

\* Taking the next step to undo leaves the plan as it is ...
LEMMA PlanSelect ==
    ASSUME NEW st \in State, st.todo # <<>>
    PROVE  PlanOf("policy", [st EXCEPT !.cur = Head(st.todo), !.todo = Tail(st.todo),
                                       !.terms = "none"])
               = PlanOf("select", st)
<1> DEFINE new == [st EXCEPT !.cur = Head(st.todo), !.todo = Tail(st.todo), !.terms = "none"]
<1>1. new.results = st.results /\ new.cur = Head(st.todo) /\ new.todo = Tail(st.todo)
  BY DEF State
<1>2. PlanOf("policy", new) = (StepsOf(new.results) \o <<new.cur>>) \o new.todo
  BY PlanIs DEF Undoing
<1>3. PlanOf("select", st) = (StepsOf(st.results) \o <<>>) \o st.todo
  BY PlanIs DEF Undoing
<1>4. StepsOf(st.results) \in Seq(Step) /\ st.todo \in Seq(Step)
  BY StepsOfSeq DEF State
<1> HIDE DEF new
<1>5. (StepsOf(st.results) \o <<Head(st.todo)>>) \o Tail(st.todo)
          = (StepsOf(st.results) \o <<>>) \o st.todo
  BY <1>4, SplitHead
<1>6. PlanOf("policy", new) = PlanOf("select", st)
  BY <1>1, <1>2, <1>3, <1>5
<1> QED BY <1>6 DEF new

\* ... and so does a verdict.
LEMMA PlanConclude ==
    ASSUME NEW st \in State, st.cur \in Step, NEW o \in Outcomes, NEW next,
           next \notin Undoing
    PROVE  PlanOf(next, [st EXCEPT !.results = Append(@, [step |-> st.cur, outcome |-> o])])
               = PlanOf("refund", st)
<1> DEFINE v == [step |-> st.cur, outcome |-> o]
           new == [st EXCEPT !.results = Append(@, v)]
<1>1. v \in Verdict /\ v.step = st.cur
  BY DEF Verdict
<1>2. new.results = Append(st.results, v) /\ new.todo = st.todo
  BY DEF State
<1>3. st.results \in Seq(Verdict) /\ st.todo \in Seq(Step)
  BY DEF State
<1> HIDE DEF v
<1>4. StepsOf(new.results) = StepsOf(st.results) \o <<st.cur>>
  BY <1>1, <1>2, <1>3, StepsOfAppend
<1>5. StepsOf(st.results) \o <<st.cur>> \in Seq(Step)
  BY <1>3, StepsOfSeq
<1>6. PlanOf(next, new) = (StepsOf(new.results) \o <<>>) \o new.todo
  BY PlanIs
<1>7. PlanOf("refund", st) = (StepsOf(st.results) \o <<st.cur>>) \o st.todo
  BY PlanIs DEF Undoing
<1> HIDE DEF new
<1>8. PlanOf(next, new) = PlanOf("refund", st)
  BY <1>2, <1>4, <1>5, <1>6, <1>7, ConcatEmpty
<1> QED BY <1>8 DEF new, v

LEMMA PlanLoad ==
    ASSUME NEW st \in State, ledger \in Seq(Step)
    PROVE  PlanOf("select", [st EXCEPT !.todo = UndoOrder, !.results = <<>>]) = Reverse(ledger)
<1> DEFINE new == [st EXCEPT !.todo = UndoOrder, !.results = <<>>]
<1>1. new.results = <<>> /\ new.todo = Reverse(ledger)
  BY DEF State, UndoOrder
<1>2. StepsOf(new.results) = <<>>
  BY <1>1 DEF StepsOf
<1>3. PlanOf("select", new) = (StepsOf(new.results) \o <<>>) \o new.todo
  BY PlanIs DEF Undoing
<1>4. Reverse(ledger) \in Seq(Step)
  BY UndoOrderSeq
<1> HIDE DEF new
<1>5. PlanOf("select", new) = Reverse(ledger)
  BY <1>1, <1>2, <1>3, <1>4, ConcatEmpty
<1> QED BY <1>5 DEF new

-----------------------------------------------------------------------------
(* One step of a run inside the graph *)

\* What it leaves of the run of m: the graph is not left, no verdict is lost, and
\* the plan is the one load drew up from the ledger.
Progress(m) ==
    /\ ledger' = ledger
    /\ \A n \in Msg \ {m} : at'[n] = at[n] /\ run'[n] = run[n]
    /\ Active(m) /\ at[m] # "end"
    /\ at'[m] \in (Nodes \ {"load"}) \cup InRefund
    /\ at'[m] \in AfterLoop => run'[m].todo = <<>>
    /\ at[m] # "load" =>
           /\ PlanOf(NodeOf(at'[m]), run'[m]) = PlanOf(NodeOf(at[m]), run[m])
           /\ Extends(run[m].results, run'[m].results)
    /\ at[m] = "load" =>
           /\ PlanOf(NodeOf(at'[m]), run'[m]) = Reverse(ledger)
           /\ run'[m].results = <<>>

LEMMA ExtendsSelf ==
    ASSUME NEW p \in Seq(Verdict)
    PROVE  Extends(p, p)
BY DEF Extends

LEMMA ExtendsAppend ==
    ASSUME NEW p \in Seq(Verdict), NEW v \in Verdict
    PROVE  Extends(p, Append(p, v))
BY DEF Extends

\* The node m stands at ends, with the run as st and the next label.
LEMMA StepProgress ==
    ASSUME ControlAgrees, NEW m \in Msg, NEW st \in State,
           NEW label \in (Nodes \ {"load"}) \cup InRefund,
           Active(m), at[m] \notin {"load", "end"},
           PlanOf(NodeOf(label), st) = PlanOf(NodeOf(at[m]), run[m]),
           Extends(run[m].results, st.results),
           label \in AfterLoop => st.todo = <<>>,
           at' = [at EXCEPT ![m] = label], run' = [run EXCEPT ![m] = st],
           ledger' = ledger
    PROVE  Progress(m)
<1>1. at'[m] = label /\ run'[m] = st
  BY DEF ControlAgrees, TypeOK
<1>2. \A n \in Msg \ {m} : at'[n] = at[n] /\ run'[n] = run[n]
  BY DEF ControlAgrees, TypeOK
<1> QED BY <1>1, <1>2 DEF Progress

LEMMA ConcludeProgress ==
    ASSUME ControlAgrees, NEW m \in Msg, NEW o \in Outcomes, Conclude(m, o),
           at[m] \in {"refund"} \cup InRefund, ledger' = ledger
    PROVE  Progress(m)
<1> DEFINE v == [step |-> run[m].cur, outcome |-> o]
           st == [run[m] EXCEPT !.results = Append(@, v)]
           label == LoopOrEnd(run[m])
<1>1. run[m] \in State /\ run[m].cur \in Step
  BY DEF ControlAgrees, RunsAgree, TypeOK, Undoing, Nodes
<1>2. NodeOf(at[m]) = "refund" /\ Active(m) /\ at[m] \notin {"load", "end"}
  BY DEF NodeOf, InRefund, Active, Nodes
<1>3. label \in {"select", "classify"} /\ (label = "classify" => run[m].todo = <<>>)
  BY DEF LoopOrEnd
<1>4. NodeOf(label) = label /\ label \notin Undoing
  BY <1>3 DEF NodeOf, InRefund, Undoing
<1>5. v \in Verdict
  BY <1>1 DEF Verdict
<1>6. st \in State /\ st.todo = run[m].todo /\ st.results = Append(run[m].results, v)
  BY <1>1, StateUpdates DEF State
<1>7. PlanOf(label, st) = PlanOf("refund", run[m])
  BY <1>1, <1>4, PlanConclude
<1>8. at' = [at EXCEPT ![m] = label] /\ run' = [run EXCEPT ![m] = st]
  BY DEF Conclude, Goto, Set
<1>9. label \in AfterLoop => st.todo = <<>>
  BY <1>3, <1>6 DEF AfterLoop
<1>10. label \in (Nodes \ {"load"}) \cup InRefund
  BY <1>3 DEF Nodes
<1> HIDE DEF st, label, v
<1>11. Extends(run[m].results, st.results)
  BY <1>1, <1>5, <1>6, ExtendsAppend DEF State
<1> QED BY <1>2, <1>4, <1>6, <1>7, <1>8, <1>9, <1>10, <1>11, StepProgress

\* A node that only changes the state, keeps the plan, and adds no verdict.
LEMMA NodeProgress ==
    ASSUME ControlAgrees, NEW m \in Msg, NEW st \in State,
           NEW here \in Loaded \ {"end"}, NEW next \in Loaded, Node(m, here, st, next),
           PlanOf(next, st) = PlanOf(here, run[m]), st.results = run[m].results,
           next \in AfterLoop => st.todo = <<>>
    PROVE  Progress(m)
<1>1. NodeOf(here) = here /\ NodeOf(next) = next
  BY DEF NodeOf, InRefund, Loaded, Nodes
<1>2. at[m] = here /\ Active(m) /\ here \notin {"load", "end"}
  BY DEF Node, Active, Loaded
<1>3. at' = [at EXCEPT ![m] = next] /\ run' = [run EXCEPT ![m] = st] /\ ledger' = ledger
  BY DEF Node, Goto, Set
<1>4. Extends(run[m].results, st.results)
  BY ExtendsSelf DEF ControlAgrees, TypeOK, State
<1>5. next \in (Nodes \ {"load"}) \cup InRefund
  BY DEF Loaded
<1> QED BY <1>1, <1>2, <1>3, <1>4, <1>5, StepProgress

LEMMA VisitProgress ==
    ASSUME PlanHolds, NEW m \in Msg, Visit(m)
    PROVE  Progress(m)
<1> USE DEF Loaded, Nodes, Undoing, AfterLoop
<1>c. ControlAgrees
  BY DEF PlanHolds
<1>r. run[m] \in State /\ ledger \in Seq(Step)
  BY DEF PlanHolds, ControlAgrees, TypeOK
<1>1. CASE Load(m)
  <2> DEFINE st == [run[m] EXCEPT !.todo = UndoOrder, !.results = <<>>]
  <2>1. PlanOf("select", st) = Reverse(ledger)
    BY <1>r, PlanLoad
  <2>2. Node(m, "load", st, "select")
    BY <1>1 DEF Load
  <2>3. st.results = <<>>
    BY <1>r DEF State
  <2> HIDE DEF st
  <2>4. at[m] = "load" /\ at' = [at EXCEPT ![m] = "select"]
        /\ run' = [run EXCEPT ![m] = st] /\ ledger' = ledger
    BY <2>2 DEF Node, Goto, Set
  <2>5. at'[m] = "select" /\ run'[m] = st
        /\ \A n \in Msg \ {m} : at'[n] = at[n] /\ run'[n] = run[n]
    BY <2>4, <1>c DEF ControlAgrees, TypeOK
  <2> QED BY <2>1, <2>3, <2>4, <2>5 DEF Progress, Active, NodeOf, InRefund
<1>2. CASE Select(m) /\ run[m].todo = <<>>
  <2> DEFINE st == [run[m] EXCEPT !.cur = None]
  <2>1. st \in State /\ st.results = run[m].results /\ st.todo = run[m].todo
    BY <1>r, StateUpdates DEF State
  <2>2. Node(m, "select", st, "classify")
    BY <1>2 DEF Select
  <2> HIDE DEF st
  <2>3. PlanOf("classify", st) = PlanOf("select", run[m])
    BY <2>1, PlanSame
  <2> QED BY <1>c, <1>2, <2>1, <2>2, <2>3, NodeProgress
<1>3. CASE Select(m) /\ run[m].todo # <<>>
  <2> DEFINE st == [run[m] EXCEPT !.cur = Head(run[m].todo), !.todo = Tail(run[m].todo),
                                  !.terms = "none"]
  <2>1. st \in State /\ st.results = run[m].results
    BY <1>r, <1>3, StateUpdates DEF State
  <2>2. Node(m, "select", st, "policy")
    BY <1>3 DEF Select
  <2>3. PlanOf("policy", st) = PlanOf("select", run[m])
    BY <1>r, <1>3, PlanSelect
  <2> HIDE DEF st
  <2> QED BY <1>c, <2>1, <2>2, <2>3, NodeProgress
<1>4. ASSUME NEW here \in Undoing, NEW next \in Undoing, NEW t \in Terms,
             Node(m, here, [run[m] EXCEPT !.terms = t], next)
      PROVE  Progress(m)
  <2> DEFINE st == [run[m] EXCEPT !.terms = t]
  <2>1. /\ st \in State /\ st.results = run[m].results /\ st.todo = run[m].todo
        /\ st.cur = run[m].cur
    BY <1>r, StateUpdates DEF State
  <2>2. Node(m, here, st, next)
    BY <1>4
  <2> HIDE DEF st
  <2>3. PlanOf(next, st) = PlanOf(here, run[m])
    BY <2>1, PlanSame
  <2>4. here \in Loaded \ {"end"} /\ next \in Loaded /\ next \notin AfterLoop
    OBVIOUS
  <2> QED BY <1>c, <2>1, <2>2, <2>3, <2>4, NodeProgress
<1>5. ASSUME NEW next \in Undoing, Node(m, "policy", run[m], next)
      PROVE  Progress(m)
  <2>1. PlanOf(next, run[m]) = PlanOf("policy", run[m])
    BY PlanSame
  <2> QED BY <1>c, <1>r, <1>5, <2>1, NodeProgress
<1>6. CASE FetchPolicy(m)
  BY <1>4, <1>5, <1>6 DEF FetchPolicy, Terms
<1>7. CASE Extract(m)
  <2>1. PICK t \in Terms : Node(m, "extract", [run[m] EXCEPT !.terms = t], "refund")
    BY <1>7 DEF Extract, Terms
  <2> QED BY <1>4, <2>1
<1>8. CASE Classify(m)
  <2> DEFINE f == Fault[run[m].req]
             st == [run[m] EXCEPT !.fault = f]
             next == IF f = "network_fault" THEN "dispute" ELSE "liability"
  <2>1. run[m].req \in Msg /\ run[m].todo = <<>>
    BY <1>8 DEF Classify, PlanHolds, ControlAgrees, RunsAgree, NothingLeft
  <2>2. f \in {"network_fault", "agent_fault"}
    BY <2>1, SagaAssumption
  <2>3. st \in State /\ st.results = run[m].results /\ st.todo = run[m].todo
    BY <1>r, <2>2, StateUpdates DEF State
  <2>4. Node(m, "classify", st, next) /\ next \in {"dispute", "liability"}
    BY <1>8 DEF Classify
  <2> HIDE DEF st, next
  <2>5. PlanOf(next, st) = PlanOf("classify", run[m])
    BY <2>3, <2>4, PlanSame
  <2> QED BY <1>c, <2>1, <2>3, <2>4, <2>5, NodeProgress
<1> QED BY <1>1, <1>2, <1>3, <1>6, <1>7, <1>8 DEF Visit, Select

\* From one awaited call of attempt_refund to the next.
LEMMA CallProgress ==
    ASSUME ControlAgrees, NEW m \in Msg, at[m] \in {"refund"} \cup InRefund,
           NEW label \in InRefund, Goto(m, label), run' = run, ledger' = ledger
    PROVE  Progress(m)
<1>1. NodeOf(at[m]) = "refund" /\ NodeOf(label) = "refund"
  BY DEF NodeOf, InRefund
<1>2. run[m] \in State /\ run' = [run EXCEPT ![m] = run[m]]
  BY DEF ControlAgrees, TypeOK
<1>3. label \notin AfterLoop /\ Active(m) /\ at[m] \notin {"load", "end"}
  BY DEF InRefund, AfterLoop, Active, Nodes
<1>4. Extends(run[m].results, run[m].results)
  BY <1>2, ExtendsSelf DEF State
<1> QED BY <1>1, <1>2, <1>3, <1>4, StepProgress DEF Goto

\* A step of the graph.
Walks(m) ==
    \/ Visit(m) /\ UNCHANGED filed
    \/ CheckBreaker(m) \/ CallRefund(m) \/ ResetBreaker(m) \/ ResetFails(m)
    \/ RecordFailure(m) \/ WriteDlqEntry(m)
    \/ GenerateUdirPayload(m) \/ GenerateLiabilityReport(m)

LEMMA WalksProgress ==
    ASSUME PlanHolds, NEW m \in Msg, Walks(m)
    PROVE  Progress(m) /\ UNCHANGED <<saved, attempt, crashes, reported>>
<1>c. ControlAgrees
  BY DEF PlanHolds
<1>s. UNCHANGED <<saved, attempt, crashes, reported>>
  BY DEF Walks, Visit, Load, Select, FetchPolicy, Extract, Classify, Node, CheckBreaker,
         CallRefund, ResetBreaker, ResetFails, RecordFailure, WriteDlqEntry,
         GenerateUdirPayload, GenerateLiabilityReport
<1>1. CASE Visit(m)
  BY <1>1, <1>s, VisitProgress
<1>2. CASE CheckBreaker(m) \/ CallRefund(m) \/ WriteDlqEntry(m)
  <2>1. /\ at[m] \in {"refund"} \cup InRefund /\ ledger' = ledger
        /\ \/ \E o \in Outcomes : Conclude(m, o)
           \/ run' = run /\ \E label \in InRefund : Goto(m, label)
    BY <1>2 DEF CheckBreaker, CallRefund, WriteDlqEntry, InRefund, Outcomes
  <2> QED BY <1>c, <1>s, <2>1, ConcludeProgress, CallProgress
<1>3. CASE ResetBreaker(m) \/ ResetFails(m)
  <2>1. /\ at[m] \in {"refund"} \cup InRefund /\ ledger' = ledger
        /\ \E o \in Outcomes : Conclude(m, o)
    BY <1>3, <1>c DEF ResetBreaker, ResetFails, InRefund, Outcomes, ControlAgrees, RunsAgree
  <2> QED BY <1>c, <1>s, <2>1, ConcludeProgress
<1>4. CASE RecordFailure(m)
  BY <1>4, <1>c, <1>s, CallProgress DEF RecordFailure, InRefund
<1>5. CASE GenerateUdirPayload(m) \/ GenerateLiabilityReport(m)
  <2>1. PICK here \in {"dispute", "liability"} : Node(m, here, run[m], "end")
    BY <1>5 DEF GenerateUdirPayload, GenerateLiabilityReport
  <2>2. PlanOf("end", run[m]) = PlanOf(here, run[m])
    BY <2>1, PlanSame DEF Undoing
  <2>3. here \in Loaded \ {"end"} /\ "end" \in Loaded /\ here \in AfterLoop
    BY DEF Loaded, Nodes, AfterLoop
  <2>4. at[m] = here /\ run[m] \in State
    BY <1>c, <2>1 DEF Node, ControlAgrees, TypeOK
  <2>5. run[m].todo = <<>>
    BY <2>3, <2>4 DEF PlanHolds, NothingLeft
  <2> QED BY <1>c, <1>s, <2>1, <2>2, <2>3, <2>4, <2>5, NodeProgress
<1> QED BY <1>1, <1>2, <1>3, <1>4, <1>5 DEF Walks

-----------------------------------------------------------------------------
(* Every run, and the checkpoint, keep to their plan *)

\* One request's step: its run, where it goes, keeps to a plan.
LocalPlan(m) ==
    /\ ledger' = ledger
    /\ \A n \in Msg \ {m} : at'[n] = at[n] /\ run'[n] = run[n]
    /\ NodeOf(at'[m]) \in Loaded => UndoesLedger(PlanOf(NodeOf(at'[m]), run'[m]))
    /\ at'[m] \in AfterLoop => run'[m].todo = <<>>

LEMMA LocalPlanKeeps ==
    ASSUME PlanHolds, ControlAgrees', NEW m \in Msg, LocalPlan(m),
           saved'.node \in Loaded => UndoesLedger(PlanOf(saved'.node, saved'.st)),
           saved'.node \in AfterLoop => saved'.st.todo = <<>>
    PROVE  PlanHolds'
<1> USE DEF LocalPlan
<1>1. \A p : UndoesLedger(p)' <=> UndoesLedger(p)
  BY DEF UndoesLedger
<1>2. ASSUME NEW n \in Msg
      PROVE  /\ NodeOf(at'[n]) \in Loaded =>
                    UndoesLedger(PlanOf(NodeOf(at'[n]), run'[n]))
             /\ at'[n] \in AfterLoop => run'[n].todo = <<>>
  <2>1. CASE n = m
    BY <2>1
  <2>2. CASE n # m
    BY <2>2 DEF PlanHolds, PlanIsKept, NothingLeft
  <2> QED BY <2>1, <2>2
<1>3. NothingLeft'
  BY <1>2 DEF NothingLeft
<1>4. ASSUME NEW n \in Msg, NodeOf(at'[n]) \in Loaded
      PROVE  UndoesLedger(PlanOf(NodeOf(at[n]), run[n]))'
  <2>1. UndoesLedger(PlanOf(NodeOf(at'[n]), run'[n]))
    BY <1>2, <1>4
  <2> QED BY <2>1 DEF UndoesLedger, NodeOf, PlanOf
<1>5. saved'.node \in Loaded => UndoesLedger(PlanOf(saved.node, saved.st))'
  BY DEF UndoesLedger, PlanOf
<1>6. PlanIsKept'
  BY <1>4, <1>5 DEF PlanIsKept, NodeOf
<1> QED BY <1>3, <1>6 DEF PlanHolds

LEMMA LocalPlanKeepsSaved ==
    ASSUME PlanHolds, ControlAgrees', NEW m \in Msg, LocalPlan(m), saved' = saved
    PROVE  PlanHolds'
<1>1. /\ saved.node \in Loaded => UndoesLedger(PlanOf(saved.node, saved.st))
      /\ saved.node \in AfterLoop => saved.st.todo = <<>>
  BY DEF PlanHolds, PlanIsKept
<1> QED BY <1>1, LocalPlanKeeps

\* A step of the graph keeps the plan of its run.
LEMMA ProgressPlan ==
    ASSUME PlanHolds, NEW m \in Msg, Progress(m)
    PROVE  LocalPlan(m)
<1> USE DEF Progress
<1>1. CASE at[m] = "load"
  <2>1. UndoesLedger(Reverse(ledger))
    BY WholeLedger DEF PlanHolds, ControlAgrees, TypeOK
  <2> QED BY <1>1, <2>1 DEF LocalPlan
<1>2. CASE at[m] # "load"
  <2>1. NodeOf(at[m]) \in Loaded
    BY <1>2 DEF Active, NodeOf, Loaded, Nodes, InRefund
  <2>2. UndoesLedger(PlanOf(NodeOf(at[m]), run[m]))
    BY <2>1 DEF PlanHolds, PlanIsKept
  <2> QED BY <1>2, <2>2 DEF LocalPlan
<1> QED BY <1>1, <1>2

\* A request that leaves the graph has no plan.
LEMMA OutsidePlan ==
    ASSUME PlanHolds, NEW m \in Msg,
           at'[m] \notin Nodes \cup InRefund \/ at'[m] = "load", ledger' = ledger,
           \A n \in Msg \ {m} : at'[n] = at[n] /\ run'[n] = run[n]
    PROVE  LocalPlan(m)
BY DEF LocalPlan, NodeOf, Nodes, InRefund, Loaded, AfterLoop

LEMMA AdvancePlan ==
    ASSUME PlanHolds, NEW m \in Msg, Advance(m)
    PROVE  PlanHolds'
<1> USE DEF Goto, Set
<1>c. ControlAgrees /\ ControlAgrees'
  BY AdvanceControl DEF PlanHolds
<1>t. /\ at \in [Msg -> Waiting \cup Running \cup Gone] /\ run \in [Msg -> State]
      /\ saved \in Checkpoint
  BY <1>c DEF ControlAgrees, TypeOK
<1>1. CASE Deliver(m)
  <2>1. LocalPlan(m)
    BY <1>1, <1>t, OutsidePlan DEF Deliver, Nodes, InRefund
  <2> QED BY <1>1, <1>c, <2>1, LocalPlanKeepsSaved DEF Deliver
<1>2. CASE Preflight(m)
  <2>1. CASE saved.node = "none"
    <3>1. LocalPlan(m)
      BY <1>2, <1>t, <2>1, OutsidePlan DEF Preflight
    <3> QED BY <1>2, <1>c, <3>1, LocalPlanKeepsSaved DEF Preflight
  <2>2. CASE saved.node # "none"
    <3>1. /\ at' = [at EXCEPT ![m] = saved.node] /\ run' = [run EXCEPT ![m] = saved.st]
          /\ ledger' = ledger /\ saved' = saved
      BY <1>2, <2>2 DEF Preflight
    <3>2. NodeOf(saved.node) = saved.node
      BY <1>t, <2>2 DEF Checkpoint, NodeOf, Nodes, InRefund
    <3>3. LocalPlan(m)
      BY <1>t, <3>1, <3>2 DEF LocalPlan, PlanHolds, PlanIsKept
    <3> QED BY <1>c, <3>1, <3>3, LocalPlanKeepsSaved
  <2> QED BY <2>1, <2>2
<1>3. CASE Walks(m)
  <2>1. LocalPlan(m) /\ saved' = saved
    BY <1>3, WalksProgress, ProgressPlan
  <2> QED BY <1>c, <2>1, LocalPlanKeepsSaved
<1>4. CASE Complete(m)
  <2>1. LocalPlan(m)
    BY <1>4, <1>t, OutsidePlan DEF Complete, Ends, Nodes, InRefund
  <2>2. at[m] = "end" /\ NodeOf("end") = "end"
    BY <1>4 DEF Complete, NodeOf, InRefund
  <2>3. /\ UndoesLedger(PlanOf("end", run[m]))
        /\ run[m].todo = <<>>
    BY <2>2 DEF PlanHolds, PlanIsKept, NothingLeft, Loaded, Nodes, AfterLoop
  <2>4. CASE saved' = saved
    BY <1>c, <2>1, <2>4, LocalPlanKeepsSaved
  <2>5. CASE saved' = [node |-> "end", st |-> run[m]]
    BY <1>c, <2>1, <2>3, <2>5, LocalPlanKeeps
  <2> QED BY <1>4, <2>4, <2>5 DEF Complete
<1> QED BY <1>1, <1>2, <1>3, <1>4 DEF Advance, Walks

LEMMA MishapPlan ==
    ASSUME PlanHolds, NEW m \in Msg,
           \/ Request(m) \/ Save(m) \/ PreflightFails(m) \/ ResetFails(m) \/ RunFails(m)
    PROVE  PlanHolds'
<1> USE DEF Goto, Set
<1>c. ControlAgrees /\ ControlAgrees'
  BY MishapControl DEF PlanHolds
<1>t. at \in [Msg -> Waiting \cup Running \cup Gone] /\ run \in [Msg -> State]
  BY <1>c DEF ControlAgrees, TypeOK
<1>1. CASE Request(m)
  <2>1. LocalPlan(m)
    BY <1>1, <1>t, OutsidePlan DEF Request, Nodes, InRefund
  <2> QED BY <1>1, <1>c, <2>1, LocalPlanKeepsSaved DEF Request
<1>2. CASE Save(m)
  <2>1. saved' = [node |-> NodeOf(at[m]), st |-> run[m]] /\ ledger' = ledger
    BY <1>2 DEF Save
  <2>2. LocalPlan(m)
    BY <1>2 DEF Save, LocalPlan, PlanHolds, PlanIsKept, NothingLeft
  <2>3. NodeOf(at[m]) \in AfterLoop => at[m] \in AfterLoop
    BY DEF NodeOf, AfterLoop
  <2>4. /\ NodeOf(at[m]) \in Loaded => UndoesLedger(PlanOf(NodeOf(at[m]), run[m]))
        /\ NodeOf(at[m]) \in AfterLoop => run[m].todo = <<>>
    BY <2>3 DEF PlanHolds, PlanIsKept, NothingLeft
  <2> QED BY <1>c, <2>1, <2>2, <2>4, LocalPlanKeeps
<1>3. CASE PreflightFails(m)
  <2>1. LocalPlan(m)
    BY <1>3, <1>t, OutsidePlan DEF PreflightFails, Ends, Nodes, InRefund
  <2> QED BY <1>3, <1>c, <2>1, LocalPlanKeepsSaved DEF PreflightFails
<1>4. CASE ResetFails(m)
  <2>1. LocalPlan(m) /\ saved' = saved
    BY <1>4, WalksProgress, ProgressPlan DEF Walks
  <2> QED BY <1>c, <2>1, LocalPlanKeepsSaved
<1>5. CASE RunFails(m)
  <2>1. LocalPlan(m)
    BY <1>5, <1>t, OutsidePlan DEF RunFails, Ends, Nodes, InRefund
  <2> QED BY <1>5, <1>c, <2>1, LocalPlanKeepsSaved DEF RunFails
<1> QED BY <1>1, <1>2, <1>3, <1>4, <1>5

LEMMA PlanNext == PlanHolds /\ [Next]_vars => PlanHolds'
<1> SUFFICES ASSUME PlanHolds, [Next]_vars PROVE PlanHolds'
  OBVIOUS
<1>c. ControlAgrees /\ ControlAgrees'
  BY ControlNext DEF PlanHolds
<1>1. ASSUME NEW s \in Step, Settle(s) PROVE PlanHolds'
  <2>1. ledger \in Seq(Step) /\ ledger' = Append(ledger, s)
    BY <1>c, <1>1 DEF ControlAgrees, TypeOK, Settle
  <2>2. UNCHANGED <<at, run, saved>>
    BY <1>1 DEF Settle
  <2>3. \A p : UndoesLedger(p) => UndoesLedger(p)'
    BY <2>1, LedgerPrefixes
  <2>4. NothingLeft'
    BY <2>2 DEF PlanHolds, NothingLeft
  <2>5. ASSUME NEW m \in Msg, NodeOf(at'[m]) \in Loaded
        PROVE  UndoesLedger(PlanOf(NodeOf(at[m]), run[m]))'
    <3>1. UndoesLedger(PlanOf(NodeOf(at[m]), run[m]))
      BY <2>2, <2>5 DEF PlanHolds, PlanIsKept
    <3> QED BY <2>2, <2>3, <3>1 DEF UndoesLedger, NodeOf, PlanOf
  <2>6. saved'.node \in Loaded => UndoesLedger(PlanOf(saved.node, saved.st))'
    <3>1. saved.node \in Loaded => UndoesLedger(PlanOf(saved.node, saved.st))
      BY DEF PlanHolds, PlanIsKept
    <3> QED BY <2>2, <2>3, <3>1 DEF UndoesLedger, PlanOf
  <2>7. saved'.node \in AfterLoop => saved'.st.todo = <<>>
    BY <2>2 DEF PlanHolds, PlanIsKept
  <2> QED BY <1>c, <2>4, <2>5, <2>6, <2>7 DEF PlanHolds, PlanIsKept, NodeOf
<1>2. CASE UNCHANGED <<at, run, saved, ledger>>
  BY <1>c, <1>2
     DEF PlanHolds, PlanIsKept, NothingLeft, NodeOf, PlanOf, UndoesLedger
<1>3. CASE Crash
  <2>1. \A m \in Msg : at'[m] \notin Nodes \cup InRefund
    BY <1>3, <1>c DEF Crash, Running, Nodes, InRefund
  <2>2. UNCHANGED <<saved, ledger>>
    BY <1>3 DEF Crash
  <2>3. NothingLeft'
    BY <2>1 DEF NothingLeft, AfterLoop, Nodes
  <2>4. \A m \in Msg : NodeOf(at'[m]) \notin Loaded
    BY <2>1 DEF NodeOf, Loaded, Nodes, InRefund
  <2>5. PlanIsKept'
    BY <2>2, <2>4 DEF PlanHolds, PlanIsKept, NodeOf, PlanOf, UndoesLedger
  <2> QED BY <1>c, <2>3, <2>5 DEF PlanHolds
<1>4. ASSUME NEW c \in Merchant, Neighbour(c) PROVE PlanHolds'
  BY <1>2, <1>4 DEF Neighbour
<1>5. CASE UNCHANGED vars
  BY <1>2, <1>5 DEF vars
<1> QED BY <1>1, <1>3, <1>4, <1>5, AdvancePlan, MishapPlan DEF Next

LEMMA PlanInit == Init => PlanHolds
<1> SUFFICES ASSUME Init PROVE PlanHolds
  OBVIOUS
<1>1. NothingLeft /\ PlanIsKept
  BY DEF Init, NothingLeft, PlanIsKept, NodeOf, Loaded, Nodes, InRefund, AfterLoop
<1> QED BY <1>1, SagaTypeInit DEF PlanHolds

\* Every run of the graph, and every checkpoint, owes each settled step exactly
\* one verdict, the newest first, and has paid them all when it leaves the
\* loop: whatever dies, fails, is retried, redelivered or runs beside it.
THEOREM PlanKept == Spec => []PlanIsKept
<1>1. PlanHolds => PlanIsKept
  BY DEF PlanHolds
<1> QED BY <1>1, PlanInit, PlanNext, PTL DEF Spec

-----------------------------------------------------------------------------
(* No refund against a policy *)

TermsHold == ControlAgrees /\ TermsAreGrounded /\ PolicyRespected

\* What one request's step has to show.
LocalTerms(m) ==
    /\ \A n \in Msg \ {m} : at'[n] = at[n] /\ run'[n] = run[n]
    /\ at'[m] \in {"refund"} \cup InRefund /\ run'[m].terms # "keep"
           => MayRefund(run'[m].cur)
    /\ at'[m] = "call" => run'[m].terms # "keep"

LEMMA LocalTermsKeep ==
    ASSUME TermsHold, ControlAgrees', NEW m \in Msg, LocalTerms(m), paid' = paid,
           saved'.node = "refund" /\ saved'.st.terms # "keep" => MayRefund(saved'.st.cur)
    PROVE  TermsHold'
<1>1. TermsAreGrounded'
  BY DEF TermsHold, TermsAreGrounded, LocalTerms, MayRefund
<1> QED BY <1>1 DEF TermsHold, PolicyRespected

LEMMA LocalTermsKeepSaved ==
    ASSUME TermsHold, ControlAgrees', NEW m \in Msg, LocalTerms(m),
           UNCHANGED <<paid, saved>>
    PROVE  TermsHold'
<1>1. saved'.node = "refund" /\ saved'.st.terms # "keep" => MayRefund(saved'.st.cur)
  BY DEF TermsHold, TermsAreGrounded
<1> QED BY <1>1, LocalTermsKeep

\* A step after which m is not about to refund.
LEMMA ElsewhereTerms ==
    ASSUME ControlAgrees, NEW m \in Msg, at'[m] \notin {"refund"} \cup InRefund,
           \A n \in Msg \ {m} : at'[n] = at[n] /\ run'[n] = run[n]
    PROVE  LocalTerms(m)
BY DEF LocalTerms, InRefund

LEMMA NodeTerms ==
    ASSUME ControlAgrees, NEW m \in Msg, NEW st, NEW here, NEW next,
           Node(m, here, st, next), next \notin InRefund,
           next # "refund" \/ st.terms = "keep" \/ MayRefund(st.cur)
    PROVE  LocalTerms(m) /\ UNCHANGED <<paid, saved>>
<1>1. /\ at'[m] = next /\ run'[m] = st
      /\ \A n \in Msg \ {m} : at'[n] = at[n] /\ run'[n] = run[n]
  BY DEF Node, Goto, Set, ControlAgrees, TypeOK
<1>2. UNCHANGED <<paid, saved>>
  BY DEF Node
<1> QED BY <1>1, <1>2 DEF LocalTerms, InRefund

LEMMA VisitTerms ==
    ASSUME "empty_policy" \notin Env, ControlAgrees, NEW m \in Msg, Visit(m)
    PROVE  LocalTerms(m) /\ UNCHANGED <<paid, saved>>
<1> USE DEF InRefund
<1>r. run[m] \in State
  BY DEF ControlAgrees, TypeOK
<1>1. CASE Load(m) \/ Select(m) \/ Classify(m)
  <2>1. \E st, here, next : Node(m, here, st, next) /\ next \notin InRefund /\ next # "refund"
    <3>1. CASE Load(m)
      BY <3>1 DEF Load
    <3>2. CASE Select(m)
      BY <3>2 DEF Select
    <3>3. CASE Classify(m)
      <4> DEFINE next == IF Fault[run[m].req] = "network_fault" THEN "dispute" ELSE "liability"
      <4>1. Node(m, "classify", [run[m] EXCEPT !.fault = Fault[run[m].req]], next)
        BY <3>3 DEF Classify
      <4>2. next \notin InRefund /\ next # "refund"
        OBVIOUS
      <4> QED BY <4>1, <4>2
    <3> QED BY <1>1, <3>1, <3>2, <3>3
  <2>2. PICK st, here, next : Node(m, here, st, next) /\ next \notin InRefund /\ next # "refund"
    BY <2>1
  <2> QED BY <2>2, NodeTerms
<1>2. CASE FetchPolicy(m)
  <2>0. "refund" \notin InRefund /\ "extract" \notin InRefund
    OBVIOUS
  <2>1. CASE PaidTo[run[m].cur] \notin WithPolicy /\ Node(m, "policy", run[m], "refund")
    BY <2>1, NodeTerms DEF MayRefund
  <2>2. CASE Node(m, "policy", run[m], "extract")
    BY <2>0, <2>2, NodeTerms
  <2>3. CASE Node(m, "policy", [run[m] EXCEPT !.terms = "keep"], "refund")
    <3>1. [run[m] EXCEPT !.terms = "keep"].terms = "keep"
      BY <1>r DEF State
    <3> QED BY <2>0, <2>3, <3>1, NodeTerms
  <2> QED BY <1>2, <2>1, <2>2, <2>3 DEF FetchPolicy
<1>3. CASE Extract(m)
  <2> DEFINE says == IF PaidTo[run[m].cur] \in Refundable THEN "refund" ELSE "keep"
  <2>1. PICK t \in {says, "keep"} : Node(m, "extract", [run[m] EXCEPT !.terms = t], "refund")
    BY <1>3 DEF Extract
  <2> DEFINE st == [run[m] EXCEPT !.terms = t]
  <2>2. st.terms = t /\ st.cur = run[m].cur
    BY <1>r DEF State
  <2>3. t # "keep" => MayRefund(run[m].cur)
    BY DEF MayRefund
  <2>4. Node(m, "extract", st, "refund")
    BY <2>1
  <2> HIDE DEF st
  <2> QED BY <2>2, <2>3, <2>4, NodeTerms
<1> QED BY <1>1, <1>2, <1>3 DEF Visit

LEMMA ConcludeTerms ==
    ASSUME ControlAgrees, NEW m \in Msg, NEW o, Conclude(m, o)
    PROVE  LocalTerms(m)
<1>1. at'[m] \in {"select", "classify"}
  BY DEF Conclude, Goto, LoopOrEnd, ControlAgrees, TypeOK
<1>2. \A n \in Msg \ {m} : at'[n] = at[n] /\ run'[n] = run[n]
  BY DEF Conclude, Goto, Set, ControlAgrees, TypeOK
<1> QED BY <1>1, <1>2, ElsewhereTerms DEF InRefund

LEMMA WalksTerms ==
    ASSUME "empty_policy" \notin Env, TermsHold, ControlAgrees', NEW m \in Msg, Walks(m)
    PROVE  TermsHold'
<1> USE DEF InRefund
<1>c. ControlAgrees /\ TermsAreGrounded
  BY DEF TermsHold
<1>1. CASE Visit(m)
  BY <1>1, <1>c, VisitTerms, LocalTermsKeepSaved
<1>2. ASSUME at[m] \in {"refund"} \cup InRefund, NEW label \in InRefund, Goto(m, label),
             run' = run, label = "call" => run[m].terms # "keep"
      PROVE  LocalTerms(m)
  <2>1. at'[m] = label /\ \A n \in Msg \ {m} : at'[n] = at[n] /\ run'[n] = run[n]
    BY <1>2, <1>c DEF Goto, ControlAgrees, TypeOK
  <2> QED BY <1>2, <1>c, <2>1 DEF LocalTerms, TermsAreGrounded
<1>3. CASE CheckBreaker(m)
  <2>1. LocalTerms(m)
    BY <1>2, <1>3, <1>c, ConcludeTerms DEF CheckBreaker
  <2> QED BY <1>3, <2>1, LocalTermsKeepSaved DEF CheckBreaker
<1>4. CASE CallRefund(m)
  <2>1. LocalTerms(m)
    BY <1>2, <1>4, <1>c, ConcludeTerms DEF CallRefund
  <2>2. MayRefund(run[m].cur)
    BY <1>4, <1>c DEF CallRefund, TermsAreGrounded
  <2>3. TermsAreGrounded'
    BY <1>4, <1>c, <2>1 DEF CallRefund, LocalTerms, TermsAreGrounded, MayRefund
  <2>4. paid' = paid \/ paid' = [paid EXCEPT ![run[m].cur] = @ + 1]
    BY <1>4 DEF CallRefund
  <2>5. \A s \in Step : paid'[s] > 0 => paid[s] > 0 \/ s = run[m].cur
    BY <1>c, <2>4 DEF ControlAgrees, TypeOK
  <2>6. PolicyRespected'
    BY <2>2, <2>5 DEF TermsHold, PolicyRespected, MayRefund
  <2> QED BY <2>3, <2>6 DEF TermsHold
<1>5. CASE ResetBreaker(m) \/ ResetFails(m) \/ WriteDlqEntry(m)
  <2>1. LocalTerms(m) /\ UNCHANGED <<paid, saved>>
    BY <1>5, <1>c, ConcludeTerms DEF ResetBreaker, ResetFails, WriteDlqEntry
  <2> QED BY <2>1, LocalTermsKeepSaved
<1>6. CASE RecordFailure(m)
  <2>1. LocalTerms(m) /\ UNCHANGED <<paid, saved>>
    BY <1>2, <1>6 DEF RecordFailure
  <2> QED BY <2>1, LocalTermsKeepSaved
<1>7. CASE GenerateUdirPayload(m) \/ GenerateLiabilityReport(m)
  <2>1. PICK here \in {"dispute", "liability"} : Node(m, here, run[m], "end")
    BY <1>7 DEF GenerateUdirPayload, GenerateLiabilityReport
  <2>2. "end" \notin InRefund
    OBVIOUS
  <2>3. LocalTerms(m) /\ UNCHANGED <<paid, saved>>
    BY <1>c, <2>1, <2>2, NodeTerms
  <2> QED BY <2>3, LocalTermsKeepSaved
<1> QED BY <1>1, <1>3, <1>4, <1>5, <1>6, <1>7 DEF Walks

LEMMA TermsNext == "empty_policy" \notin Env /\ TermsHold /\ [Next]_vars => TermsHold'
<1> SUFFICES ASSUME "empty_policy" \notin Env, TermsHold, [Next]_vars PROVE TermsHold'
  OBVIOUS
<1> USE DEF InRefund
<1>c. ControlAgrees /\ ControlAgrees' /\ TermsAreGrounded
  BY ControlNext DEF TermsHold
<1>t. /\ at \in [Msg -> Waiting \cup Running \cup Gone] /\ run \in [Msg -> State]
      /\ saved \in Checkpoint
  BY <1>c DEF ControlAgrees, TypeOK
<1>1. CASE UNCHANGED <<at, run, saved, paid>>
  BY <1>c, <1>1 DEF TermsHold, TermsAreGrounded, PolicyRespected, MayRefund
<1>2. ASSUME NEW m \in Msg, \/ Deliver(m) \/ Request(m) \/ PreflightFails(m) \/ RunFails(m)
      PROVE  TermsHold'
  <2>1. /\ at'[m] \notin {"refund"} \cup InRefund
        /\ \A n \in Msg \ {m} : at'[n] = at[n] /\ run'[n] = run[n]
        /\ UNCHANGED <<paid, saved>>
    BY <1>2, <1>t DEF Deliver, Request, PreflightFails, RunFails, Goto, Set, Ends
  <2> QED BY <1>c, <2>1, ElsewhereTerms, LocalTermsKeepSaved
<1>3. ASSUME NEW m \in Msg, Preflight(m) PROVE TermsHold'
  <2>1. LocalTerms(m) /\ UNCHANGED <<paid, saved>>
    <3>1. CASE saved.node = "none"
      BY <1>3, <1>t, <3>1 DEF Preflight, Goto, Set, LocalTerms
    <3>2. CASE saved.node # "none"
      <4>1. saved.node \notin InRefund
        BY <1>t DEF Checkpoint, Nodes
      <4> QED BY <1>3, <1>c, <1>t, <3>2, <4>1
              DEF Preflight, Goto, Set, LocalTerms, TermsAreGrounded
    <3> QED BY <1>3, <3>1, <3>2 DEF Preflight
  <2> QED BY <1>c, <2>1, LocalTermsKeepSaved
<1>4. ASSUME NEW m \in Msg, Save(m) PROVE TermsHold'
  <2>1. /\ UNCHANGED <<at, run, paid>>
        /\ saved' = [node |-> NodeOf(at[m]), st |-> run[m]]
    BY <1>4 DEF Save
  <2>2. LocalTerms(m)
    BY <1>c, <2>1 DEF LocalTerms, TermsAreGrounded
  <2>3. NodeOf(at[m]) = "refund" => at[m] \in {"refund"} \cup InRefund
    BY DEF NodeOf
  <2> QED BY <1>c, <2>1, <2>2, <2>3, LocalTermsKeep DEF TermsAreGrounded
<1>5. ASSUME NEW m \in Msg, Complete(m) PROVE TermsHold'
  <2>1. /\ at'[m] = "acked" /\ \A n \in Msg \ {m} : at'[n] = at[n] /\ run'[n] = run[n]
        /\ paid' = paid
        /\ saved' = saved \/ saved'.node = "end"
    BY <1>5, <1>t DEF Complete, Ends, Goto
  <2>2. LocalTerms(m)
    BY <1>c, <2>1, ElsewhereTerms
  <2> QED BY <1>c, <2>1, <2>2, LocalTermsKeep DEF TermsAreGrounded
<1>6. CASE Crash
  <2>1. \A m \in Msg : at'[m] \notin {"refund"} \cup InRefund
    BY <1>6, <1>t DEF Crash, Running, Nodes
  <2>2. UNCHANGED <<saved, paid>>
    BY <1>6 DEF Crash
  <2> QED BY <1>c, <2>1, <2>2 DEF TermsHold, TermsAreGrounded, PolicyRespected, MayRefund
<1>7. ASSUME NEW m \in Msg, Walks(m) PROVE TermsHold'
  BY <1>7, <1>c, WalksTerms
<1>8. ASSUME \/ \E s \in Step : Settle(s)
             \/ \E c \in Merchant : Neighbour(c)
      PROVE  TermsHold'
  BY <1>1, <1>8 DEF Settle, Neighbour
<1>9. CASE UNCHANGED vars
  BY <1>1, <1>9 DEF vars
<1> QED BY <1>2, <1>3, <1>4, <1>5, <1>6, <1>7, <1>8, <1>9 DEF Next, Advance, Walks

\* No merchant pays a refund its policy excludes, whatever dies, fails or is
\* tried again: not knowing the policy counts as "no".  Only a policy answer
\* without text is taken for a merchant that has none.
THEOREM PolicyIsRespected ==
    ASSUME "empty_policy" \notin Env
    PROVE  Spec => []PolicyRespected
<1>1. Init => TermsHold
  <2>1. Init => TermsAreGrounded /\ PolicyRespected
    BY DEF Init, TermsAreGrounded, PolicyRespected, InRefund
  <2> QED BY <2>1, SagaTypeInit DEF TermsHold
<1>2. TermsHold => PolicyRespected
  BY DEF TermsHold
<1>3. TermsHold /\ [Next]_vars => TermsHold'
  BY TermsNext
<1> QED BY <1>1, <1>2, <1>3, PTL DEF Spec

-----------------------------------------------------------------------------
(* What the results say is so *)

TruthHolds == ControlAgrees /\ AnswersAreTrue /\ ResultsAreTrue

LEMMA VerdictsTyped ==
    ASSUME ControlAgrees, NEW v \in AllVerdicts
    PROVE  v \in Verdict
<1>1. \A st \in State : \A w \in VerdictsOf(st) : w \in Verdict
  BY DEF VerdictsOf, ToSet, State
<1>2. saved.st \in State /\ \A m \in Msg : run[m] \in State
  BY DEF ControlAgrees, TypeOK, Checkpoint
<1> QED BY <1>1, <1>2 DEF AllVerdicts

LEMMA VerdictsAppend ==
    ASSUME NEW st \in State, NEW v \in Verdict, NEW new,
           new.results = Append(st.results, v)
    PROVE  VerdictsOf(new) = VerdictsOf(st) \cup {v}
<1>1. st.results \in Seq(Verdict)
  BY DEF State
<1>2. DOMAIN Append(st.results, v) = DOMAIN st.results \cup {Len(st.results) + 1}
  BY <1>1
<1>3. /\ \A i \in DOMAIN st.results : Append(st.results, v)[i] = st.results[i]
      /\ Append(st.results, v)[Len(st.results) + 1] = v
  BY <1>1
<1> QED BY <1>2, <1>3 DEF VerdictsOf, ToSet

\* What one request's step has to show.
LEMMA TruthKept ==
    ASSUME TruthHolds, ControlAgrees', NEW m \in Msg,
           \A n \in Msg \ {m} : at'[n] = at[n] /\ run'[n] = run[n] /\ got'[n] = got[n],
           \A s \in Step : paid'[s] >= paid[s], dlq \subseteq dlq',
           \A v \in VerdictsOf(saved'.st) : v \in AllVerdicts,
           \A v \in VerdictsOf(run'[m]) :
               \/ v \in AllVerdicts
               \/ /\ v.outcome = "refunded" => paid'[v.step] > 0
                  /\ v.outcome = "dlq" => v.step \in dlq',
           at'[m] = "reset" =>
               got'[m] = "failed" \/ (got'[m] = "refunded" /\ paid'[run'[m].cur] > 0)
    PROVE  TruthHolds'
<1>t. /\ paid \in [Step -> Nat] /\ paid' \in [Step -> Nat]
      /\ \A v \in AllVerdicts : v.step \in Step
  BY VerdictsTyped DEF TruthHolds, ControlAgrees, TypeOK, Verdict
<1>1. \A v \in AllVerdicts : /\ v.outcome = "refunded" => paid'[v.step] > 0
                             /\ v.outcome = "dlq" => v.step \in dlq'
  BY <1>t DEF TruthHolds, ResultsAreTrue
<1>2. \A v \in AllVerdicts' : \/ v \in AllVerdicts
                              \/ v \in VerdictsOf(run'[m])
  <2>1. \A n \in Msg \ {m} : VerdictsOf(run'[n]) \subseteq AllVerdicts
    BY DEF AllVerdicts
  <2> QED BY <2>1 DEF AllVerdicts, VerdictsOf
<1>3. ResultsAreTrue'
  BY <1>1, <1>2 DEF ResultsAreTrue
<1>4. ASSUME NEW n \in Msg, at'[n] = "reset", got'[n] # "failed"
      PROVE  got'[n] = "refunded" /\ paid'[run'[n].cur] > 0
  <2>1. CASE n = m
    BY <1>4, <2>1
  <2>2. CASE n # m
    <3>1. run[n].cur \in Step /\ got[n] = "refunded" /\ paid[run[n].cur] > 0
      BY <1>4, <2>2 DEF TruthHolds, AnswersAreTrue, ControlAgrees, RunsAgree, InRefund
    <3> QED BY <1>t, <2>2, <3>1
  <2> QED BY <2>1, <2>2
<1> QED BY <1>3, <1>4 DEF TruthHolds, AnswersAreTrue

\* The same for a step that pays nothing and writes nothing to the dead letters.
LEMMA TruthKeptFree ==
    ASSUME TruthHolds, ControlAgrees', NEW m \in Msg,
           \A n \in Msg \ {m} : at'[n] = at[n] /\ run'[n] = run[n] /\ got'[n] = got[n],
           UNCHANGED <<paid, dlq, saved>>,
           VerdictsOf(run'[m]) \subseteq AllVerdicts,
           at'[m] # "reset"
    PROVE  TruthHolds'
<1>1. \A s \in Step : paid'[s] >= paid[s]
  BY DEF TruthHolds, ControlAgrees, TypeOK
<1>2. \A v \in VerdictsOf(saved'.st) : v \in AllVerdicts
  BY DEF AllVerdicts
<1> QED BY <1>1, <1>2, TruthKept

LEMMA NoVerdicts == \A m : VerdictsOf(EmptyState(m)) = {}
BY DEF VerdictsOf, EmptyState, ToSet

LEMMA NodeTruth ==
    ASSUME TruthHolds, ControlAgrees', NEW m \in Msg, NEW st, NEW here, NEW next,
           Node(m, here, st, next), next \notin InRefund,
           st.results = run[m].results \/ st.results = <<>>
    PROVE  TruthHolds'
<1>1. /\ at'[m] = next /\ run'[m] = st
      /\ \A n \in Msg \ {m} : at'[n] = at[n] /\ run'[n] = run[n] /\ got'[n] = got[n]
      /\ UNCHANGED <<paid, dlq, saved>>
  BY DEF Node, Goto, Set, TruthHolds, ControlAgrees, TypeOK
<1>2. VerdictsOf(st) = VerdictsOf(run[m]) \/ VerdictsOf(st) = {}
  BY DEF VerdictsOf, ToSet
<1>3. VerdictsOf(st) \subseteq AllVerdicts
  BY <1>2 DEF AllVerdicts
<1>4. next # "reset"
  BY DEF InRefund
<1> QED BY <1>1, <1>3, <1>4, TruthKeptFree

LEMMA VisitTruth ==
    ASSUME TruthHolds, ControlAgrees', NEW m \in Msg, Visit(m)
    PROVE  TruthHolds'
<1>1. PICK here, next, st :
          Node(m, here, st, next) /\ next \notin InRefund
          /\ (st.results = run[m].results \/ st.results = <<>>)
  <2>r. run[m] \in State
    BY DEF TruthHolds, ControlAgrees, TypeOK
  <2>0. \A l \in {"select", "classify", "policy", "extract", "refund", "dispute",
                  "liability"} : l \notin InRefund
    BY DEF InRefund
  <2>1. \A t : [run[m] EXCEPT !.terms = t].results = run[m].results
    BY <2>r DEF State
  <2>2. CASE Load(m)
    <3>1. [run[m] EXCEPT !.todo = UndoOrder, !.results = <<>>].results = <<>>
      BY <2>r DEF State
    <3> QED BY <2>0, <2>2, <3>1 DEF Load
  <2>3. CASE Select(m)
    <3>1. /\ [run[m] EXCEPT !.cur = None].results = run[m].results
          /\ [run[m] EXCEPT !.cur = Head(run[m].todo), !.todo = Tail(run[m].todo),
                            !.terms = "none"].results = run[m].results
      BY <2>r DEF State
    <3> QED BY <2>0, <2>3, <3>1 DEF Select
  <2>4. CASE FetchPolicy(m)
    BY <2>0, <2>1, <2>4 DEF FetchPolicy
  <2>5. CASE Extract(m)
    BY <2>0, <2>1, <2>5 DEF Extract
  <2>6. CASE Classify(m)
    <3> DEFINE next == IF Fault[run[m].req] = "network_fault" THEN "dispute" ELSE "liability"
    <3>1. [run[m] EXCEPT !.fault = Fault[run[m].req]].results = run[m].results
      BY <2>r DEF State
    <3>2. Node(m, "classify", [run[m] EXCEPT !.fault = Fault[run[m].req]], next)
      BY <2>6 DEF Classify
    <3>3. next \notin InRefund
      BY <2>0
    <3> QED BY <3>1, <3>2, <3>3
  <2> QED BY <2>2, <2>3, <2>4, <2>5, <2>6 DEF Visit
<1> QED BY <1>1, NodeTruth

\* A verdict is added: it has to be so.
LEMMA ConcludeTruth ==
    ASSUME TruthHolds, ControlAgrees', NEW m \in Msg, NEW o \in Outcomes, Conclude(m, o),
           at[m] \in {"refund"} \cup InRefund, saved' = saved,
           \A s \in Step : paid'[s] >= paid[s], dlq \subseteq dlq',
           o = "refunded" => paid'[run[m].cur] > 0,
           o = "dlq" => run[m].cur \in dlq'
    PROVE  TruthHolds'
<1> DEFINE v == [step |-> run[m].cur, outcome |-> o]
           st == [run[m] EXCEPT !.results = Append(@, v)]
<1>1. run[m] \in State /\ run[m].cur \in Step
  BY DEF TruthHolds, ControlAgrees, RunsAgree, TypeOK, Undoing
<1>2. v \in Verdict /\ v.step = run[m].cur /\ v.outcome = o
  BY <1>1 DEF Verdict
<1>3. st.results = Append(run[m].results, v)
  BY <1>1 DEF State
<1>4. /\ run'[m] = st /\ at'[m] \in {"select", "classify"}
      /\ \A n \in Msg \ {m} : at'[n] = at[n] /\ run'[n] = run[n] /\ got'[n] = got[n]
  BY DEF Conclude, Goto, Set, LoopOrEnd, TruthHolds, ControlAgrees, TypeOK
<1> HIDE DEF v, st
<1>5. VerdictsOf(st) = VerdictsOf(run[m]) \cup {v}
  BY <1>1, <1>2, <1>3, VerdictsAppend
<1>6. VerdictsOf(run[m]) \subseteq AllVerdicts
  BY DEF AllVerdicts
<1>7. \A w \in VerdictsOf(saved'.st) : w \in AllVerdicts
  BY DEF AllVerdicts
<1>8. at'[m] # "reset"
  BY <1>4
<1>9. \A w \in VerdictsOf(run'[m]) :
          \/ w \in AllVerdicts
          \/ /\ w.outcome = "refunded" => paid'[w.step] > 0
             /\ w.outcome = "dlq" => w.step \in dlq'
  BY <1>2, <1>4, <1>5, <1>6
<1> QED BY <1>4, <1>7, <1>8, <1>9, TruthKept

LEMMA WalksTruth ==
    ASSUME TruthHolds, ControlAgrees', NEW m \in Msg, Walks(m)
    PROVE  TruthHolds'
<1> USE DEF InRefund, Outcomes
<1>c. ControlAgrees /\ paid \in [Step -> Nat]
  BY DEF TruthHolds, ControlAgrees, TypeOK
<1>f. \A s \in Step : paid[s] >= paid[s]
  BY <1>c
\* From one awaited call to the next: no verdict yet.
<1>g. ASSUME NEW label \in InRefund, Goto(m, label), UNCHANGED <<run, saved, dlq>>,
             \A n \in Msg \ {m} : got'[n] = got[n],
             \A s \in Step : paid'[s] >= paid[s],
             label = "reset" =>
                 got'[m] = "failed" \/ (got'[m] = "refunded" /\ paid'[run[m].cur] > 0)
      PROVE  TruthHolds'
  <2>1. at'[m] = label /\ run'[m] = run[m]
        /\ \A n \in Msg \ {m} : at'[n] = at[n] /\ run'[n] = run[n] /\ got'[n] = got[n]
    BY <1>c, <1>g DEF Goto, ControlAgrees, TypeOK
  <2>2. /\ \A w \in VerdictsOf(saved'.st) : w \in AllVerdicts
        /\ \A w \in VerdictsOf(run'[m]) : w \in AllVerdicts
    BY <1>g, <2>1 DEF AllVerdicts
  <2> QED BY <1>g, <2>1, <2>2, TruthKept
<1>1. CASE Visit(m)
  BY <1>1, VisitTruth
<1>2. CASE CheckBreaker(m)
  <2>1. at[m] = "refund" /\ UNCHANGED <<paid, dlq, saved>>
    BY <1>2 DEF CheckBreaker
  <2>2. CASE Conclude(m, "non_refundable")
    BY <1>f, <2>1, <2>2, ConcludeTruth
  <2>3. CASE UNCHANGED <<run, got>> /\ (Goto(m, "dlq_row") \/ Goto(m, "call"))
    BY <1>f, <1>g, <2>1, <2>3
  <2> QED BY <1>2, <2>2, <2>3 DEF CheckBreaker
<1>3. CASE CallRefund(m)
  <2>1. at[m] = "call" /\ run[m].cur \in Step /\ UNCHANGED <<dlq, saved>>
    BY <1>3, <1>c DEF CallRefund, ControlAgrees, RunsAgree
  <2>2. paid' = paid \/ paid' = [paid EXCEPT ![run[m].cur] = @ + 1]
    BY <1>3 DEF CallRefund
  <2>3. \A s \in Step : paid'[s] >= paid[s]
    BY <1>c, <2>2
  <2>4. CASE /\ paid' = [paid EXCEPT ![run[m].cur] = @ + 1]
             /\ got' = [got EXCEPT ![m] = "refunded"] /\ Goto(m, "reset") /\ UNCHANGED run
    <3>1. paid'[run[m].cur] > 0
      BY <1>c, <2>1, <2>4
    <3>2. got'[m] = "refunded" /\ \A n \in Msg \ {m} : got'[n] = got[n]
      BY <1>c, <2>4 DEF ControlAgrees, TypeOK
    <3> QED BY <1>g, <2>1, <2>3, <2>4, <3>1, <3>2
  <2>5. CASE got' = [got EXCEPT ![m] = "failed"] /\ Goto(m, "reset") /\ UNCHANGED run
    <3>1. got'[m] = "failed" /\ \A n \in Msg \ {m} : got'[n] = got[n]
      BY <1>c, <2>5 DEF ControlAgrees, TypeOK
    <3> QED BY <1>g, <2>1, <2>3, <2>5, <3>1
  <2>6. CASE Goto(m, "record") /\ UNCHANGED <<run, got>>
    BY <1>g, <2>1, <2>3, <2>6
  <2>7. CASE Conclude(m, "failed")
    BY <2>1, <2>3, <2>7, ConcludeTruth
  <2> QED BY <1>3, <2>4, <2>5, <2>6, <2>7 DEF CallRefund
<1>4. CASE ResetBreaker(m)
  <2>1. at[m] = "reset" /\ UNCHANGED <<paid, dlq, saved>> /\ Conclude(m, got[m])
        /\ got[m] \in Outcomes
    BY <1>4, <1>c DEF ResetBreaker, ControlAgrees, RunsAgree
  <2>2. got[m] = "failed" \/ (got[m] = "refunded" /\ paid'[run[m].cur] > 0)
    BY <2>1 DEF TruthHolds, AnswersAreTrue
  <2> QED BY <1>f, <2>1, <2>2, ConcludeTruth
<1>5. CASE ResetFails(m)
  BY <1>5, <1>f, ConcludeTruth DEF ResetFails
<1>6. CASE RecordFailure(m)
  BY <1>6, <1>f, <1>g DEF RecordFailure
<1>7. CASE WriteDlqEntry(m)
  BY <1>7, <1>f, ConcludeTruth DEF WriteDlqEntry
<1>8. CASE GenerateUdirPayload(m) \/ GenerateLiabilityReport(m)
  <2>1. PICK here \in {"dispute", "liability"} : Node(m, here, run[m], "end")
    BY <1>8 DEF GenerateUdirPayload, GenerateLiabilityReport
  <2>2. "end" \notin InRefund
    OBVIOUS
  <2> QED BY <2>1, <2>2, NodeTruth
<1> QED BY <1>1, <1>2, <1>3, <1>4, <1>5, <1>6, <1>7, <1>8 DEF Walks

LEMMA TruthNext == TruthHolds /\ [Next]_vars => TruthHolds'
<1> SUFFICES ASSUME TruthHolds, [Next]_vars PROVE TruthHolds'
  OBVIOUS
<1>c. ControlAgrees /\ ControlAgrees'
  BY ControlNext DEF TruthHolds
<1>t. /\ at \in [Msg -> Waiting \cup Running \cup Gone] /\ run \in [Msg -> State]
      /\ got \in [Msg -> Outcomes \cup {"none"}] /\ saved \in Checkpoint
      /\ paid \in [Step -> Nat]
  BY <1>c DEF ControlAgrees, TypeOK
<1>1. CASE UNCHANGED <<at, run, got, saved, paid, dlq>>
  BY <1>c, <1>1 DEF TruthHolds, AnswersAreTrue, ResultsAreTrue, AllVerdicts, VerdictsOf
<1>2. ASSUME NEW m \in Msg,
             Deliver(m) \/ Request(m) \/ PreflightFails(m) \/ RunFails(m) \/ Preflight(m)
      PROVE  TruthHolds'
  <2>1. /\ at'[m] # "reset"
        /\ \A n \in Msg \ {m} : at'[n] = at[n] /\ run'[n] = run[n] /\ got'[n] = got[n]
        /\ UNCHANGED <<paid, dlq, saved>>
    BY <1>2, <1>t DEF Deliver, Request, PreflightFails, RunFails, Preflight, Goto, Set, Ends,
                      Checkpoint, Nodes
  <2>2. \/ run'[m] = run[m] \/ run'[m] = saved.st
        \/ run'[m] \in {EmptyState(m), EmptyState(None)}
    BY <1>2, <1>t DEF Deliver, Request, PreflightFails, RunFails, Preflight, Goto, Set, Ends
  <2>3. VerdictsOf(run'[m]) \subseteq AllVerdicts
    BY <2>2, NoVerdicts DEF AllVerdicts
  <2> QED BY <1>c, <2>1, <2>3, TruthKeptFree
<1>3. ASSUME NEW m \in Msg, Save(m) \/ Complete(m) PROVE TruthHolds'
  <2>1. /\ \A n \in Msg \ {m} : at'[n] = at[n] /\ run'[n] = run[n] /\ got'[n] = got[n]
        /\ UNCHANGED <<paid, dlq>>
        /\ saved'.st \in {saved.st, run[m]} /\ run'[m] \in {run[m], EmptyState(None)}
        /\ at'[m] = "acked" \/ (at'[m] = at[m] /\ got'[m] = got[m] /\ run'[m] = run[m])
    BY <1>3, <1>t DEF Save, Complete, Ends, Goto
  <2>2. /\ VerdictsOf(run'[m]) \subseteq AllVerdicts
        /\ \A v \in VerdictsOf(saved'.st) : v \in AllVerdicts
    BY <2>1, NoVerdicts DEF AllVerdicts
  <2>3. \A s \in Step : paid'[s] >= paid[s]
    BY <1>t, <2>1
  <2>4. at'[m] = "reset" =>
            got'[m] = "failed" \/ (got'[m] = "refunded" /\ paid'[run'[m].cur] > 0)
    BY <2>1 DEF TruthHolds, AnswersAreTrue
  <2> QED BY <1>c, <2>1, <2>2, <2>3, <2>4, TruthKept
<1>4. CASE Crash
  <2>1. UNCHANGED <<paid, dlq, saved>> /\ \A m \in Msg : run'[m] = EmptyState(None)
    BY <1>4 DEF Crash
  <2>3. \A m \in Msg : at'[m] # "reset"
    BY <1>4 DEF Crash, Running, InRefund
  <2>2. AllVerdicts' \subseteq AllVerdicts
    BY <2>1, NoVerdicts DEF AllVerdicts, VerdictsOf
  <2> QED BY <1>c, <2>1, <2>2, <2>3 DEF TruthHolds, AnswersAreTrue, ResultsAreTrue
<1>5. ASSUME \/ \E s \in Step : Settle(s)
             \/ \E c \in Merchant : Neighbour(c)
      PROVE  TruthHolds'
  BY <1>1, <1>5 DEF Settle, Neighbour
<1>6. CASE UNCHANGED vars
  BY <1>1, <1>6 DEF vars
<1> QED BY <1>c, <1>2, <1>3, <1>4, <1>5, <1>6, WalksTruth DEF Next, Advance, Walks

\* What the results of any run, and of the checkpoint, say of money is so,
\* whatever goes wrong: a refund that is reported was made, a dead letter has its row.
THEOREM VerdictsAreTrue == Spec => []ResultsAreTrue
<1>1. Init => TruthHolds
  <2> SUFFICES ASSUME Init PROVE TruthHolds
    OBVIOUS
  <2>1. AllVerdicts = {}
    BY NoVerdicts DEF Init, AllVerdicts
  <2> QED BY <2>1, SagaTypeInit DEF TruthHolds, Init, AnswersAreTrue, ResultsAreTrue
<1>2. TruthHolds => ResultsAreTrue
  BY DEF TruthHolds
<1> QED BY <1>1, <1>2, TruthNext, PTL DEF Spec

-----------------------------------------------------------------------------
(* The durable record, where requests do not overlap *)

\* A plan names no step twice.
LEMMA PlanDistinct ==
    ASSUME ledger \in Seq(Step), LedgerDistinct, NEW p, UndoesLedger(p)
    PROVE  p \in Seq(Step) /\ \A i, j \in 1 .. Len(p) : p[i] = p[j] => i = j
<1>1. PICK n \in 0 .. Len(ledger) : p = Reverse(SubSeq(ledger, 1, n))
  BY DEF UndoesLedger
<1> DEFINE q == SubSeq(ledger, 1, n)
<1>2. q \in Seq(Step) /\ Len(q) = n /\ \A i \in 1 .. n : q[i] = ledger[i]
  OBVIOUS
<1>3. p = [i \in 1 .. n |-> q[(n - i) + 1]]
  BY <1>1, <1>2 DEF Reverse
<1> HIDE DEF q
<1>4. \A i \in 1 .. n : /\ (n - i) + 1 \in 1 .. n
                        /\ q[(n - i) + 1] \in Step
                        /\ q[(n - i) + 1] = ledger[(n - i) + 1]
  BY <1>2
<1>5. p \in [1 .. n -> Step]
  BY <1>3, <1>4
<1>6. p \in Seq(Step) /\ Len(p) = n
  BY <1>5, SeqDef
<1>7. \A i \in 1 .. n : p[i] = ledger[(n - i) + 1] /\ (n - i) + 1 \in 1 .. Len(ledger)
  BY <1>3, <1>4
<1>8. ASSUME NEW i \in 1 .. Len(p), NEW j \in 1 .. Len(p), p[i] = p[j]
      PROVE  i = j
  <2>1. PICK k \in 1 .. Len(ledger) : k = (n - i) + 1 /\ p[i] = ledger[k]
    BY <1>6, <1>7
  <2>2. PICK l \in 1 .. Len(ledger) : l = (n - j) + 1 /\ p[j] = ledger[l]
    BY <1>6, <1>7
  <2>3. k = l
    BY <1>8, <2>1, <2>2 DEF LedgerDistinct
  <2> QED BY <1>6, <2>1, <2>2, <2>3
<1> QED BY <1>6, <1>8

LEMMA PlansAssociate ==
    ASSUME NEW p \in Seq(Step), NEW q \in Seq(Step), NEW r \in Seq(Step)
    PROVE  (p \o q) \o r = p \o (q \o r)
BY ConcatAssociative

\* The verdicts of a run are the front of its plan, the step at hand comes next.
LEMMA PlanFront ==
    ASSUME NEW st \in State, NEW node, node \in Undoing => st.cur \in Step
    PROVE  /\ Len(st.results) <= Len(PlanOf(node, st))
           /\ \A i \in 1 .. Len(st.results) : PlanOf(node, st)[i] = st.results[i].step
           /\ node \in Undoing =>
                  /\ Len(st.results) + 1 <= Len(PlanOf(node, st))
                  /\ PlanOf(node, st)[Len(st.results) + 1] = st.cur
<1>1. st.results \in Seq(Verdict) /\ st.todo \in Seq(Step)
  BY DEF State
<1>2. PICK vs \in Seq(Step) : vs = StepsOf(st.results)
  BY <1>1, StepsOfSeq
<1>3. Len(vs) = Len(st.results) /\ \A i \in 1 .. Len(vs) : vs[i] = st.results[i].step
  BY <1>1, <1>2 DEF StepsOf
<1>4. PICK rest \in Seq(Step) :
          /\ PlanOf(node, st) = vs \o rest
          /\ node \in Undoing => Len(rest) >= 1 /\ rest[1] = st.cur
  <2>1. CASE node \in Undoing
    <3> DEFINE one == <<st.cur>>
    <3>1. one \in Seq(Step) /\ Len(one) = 1 /\ one[1] = st.cur
      BY <2>1
    <3>2. PlanOf(node, st) = (vs \o one) \o st.todo
      BY <1>2, <2>1, PlanIs
    <3> HIDE DEF one
    <3>3. (vs \o one) \o st.todo = vs \o (one \o st.todo)
      BY <1>1, <3>1, PlansAssociate
    <3>4. /\ one \o st.todo \in Seq(Step) /\ Len(one \o st.todo) = Len(one) + Len(st.todo)
          /\ \A i \in 1 .. Len(one) + Len(st.todo) : (one \o st.todo)[i] =
                 IF i <= Len(one) THEN one[i] ELSE st.todo[i - Len(one)]
      BY <1>1, <3>1, ConcatProperties
    <3>5. Len(one \o st.todo) >= 1 /\ (one \o st.todo)[1] = st.cur
      BY <1>1, <3>1, <3>4
    <3> QED BY <3>2, <3>3, <3>4, <3>5
  <2>2. CASE node \notin Undoing
    <3>1. PlanOf(node, st) = (vs \o <<>>) \o st.todo
      BY <1>2, <2>2, PlanIs
    <3> QED BY <1>1, <2>2, <3>1, ConcatEmpty
  <2> QED BY <2>1, <2>2
<1>5. /\ Len(vs \o rest) = Len(vs) + Len(rest) /\ Len(vs) \in Nat /\ Len(rest) \in Nat
      /\ \A i \in 1 .. Len(vs) + Len(rest) :
             (vs \o rest)[i] = IF i <= Len(vs) THEN vs[i] ELSE rest[i - Len(vs)]
  BY ConcatProperties
<1>6. Len(vs) <= Len(vs \o rest) /\ \A i \in 1 .. Len(vs) : (vs \o rest)[i] = vs[i]
  BY <1>5
<1>7. ASSUME Len(rest) >= 1
      PROVE  Len(vs) + 1 <= Len(vs \o rest) /\ (vs \o rest)[Len(vs) + 1] = rest[1]
  BY <1>5, <1>7
<1> QED BY <1>3, <1>4, <1>6, <1>7

LEMMA ExtendsTransitive ==
    ASSUME NEW p \in Seq(Verdict), NEW q \in Seq(Verdict), NEW r \in Seq(Verdict),
           Extends(p, q), Extends(q, r)
    PROVE  Extends(p, r)
BY DEF Extends

\* What one request's step has to show.
LocalRecord(m) ==
    /\ \A n \in Msg \ {m} :
           at'[n] = at[n] /\ run'[n] = run[n] /\ attempt'[n] = attempt[n]
    /\ at'[m] \in Running \/ saved' # saved => \A n \in Msg \ {m} : at[n] \notin Running
    /\ at'[m] \in Nodes \cup InRefund /\ attempt'[m] < 3 /\ saved'.node \in Loaded =>
           /\ NodeOf(at'[m]) \in Loaded
           /\ PlanOf(NodeOf(at'[m]), run'[m]) = PlanOf(saved'.node, saved'.st)
           /\ Extends(saved'.st.results, run'[m].results)
           /\ saved'.node = "end" => at'[m] = "end"
    /\ at'[m] = "load" => run'[m].results = <<>>
    /\ saved'.node \notin Loaded => saved'.st.results = <<>>

LEMMA RecordKept ==
    ASSUME RecordHolds, PlanHolds', LedgerDistinct', NEW m \in Msg, LocalRecord(m)
    PROVE  RecordHolds'
<1> USE DEF LocalRecord
<1>1. OneRun'
  BY DEF RecordHolds, OneRun
<1>2. NoVerdictYet'
  BY DEF RecordHolds, NoVerdictYet
<1>3. ASSUME NEW n \in Msg, n # m, at'[n] \in Nodes \cup InRefund, attempt'[n] < 3,
             saved'.node \in Loaded
      PROVE  /\ NodeOf(at'[n]) \in Loaded
             /\ PlanOf(NodeOf(at'[n]), run'[n]) = PlanOf(saved'.node, saved'.st)
             /\ Extends(saved'.st.results, run'[n].results)
             /\ saved'.node = "end" => at'[n] = "end"
  <2>1. at[n] \in Running /\ Active(n) /\ HasCheckpointer(n)
    BY <1>3 DEF Running, Active, HasCheckpointer
  <2>2. saved' = saved
    BY <1>3, <2>1
  <2> QED BY <1>3, <2>1, <2>2 DEF RecordHolds, RunExtendsSaved
<1>4. ASSUME NEW n \in Msg, Active(n)', HasCheckpointer(n)', saved'.node \in Loaded
      PROVE  /\ NodeOf(at'[n]) \in Loaded
             /\ PlanOf(NodeOf(at'[n]), run'[n]) = PlanOf(saved'.node, saved'.st)
             /\ Extends(saved'.st.results, run'[n].results)
             /\ saved'.node = "end" => at'[n] = "end"
  <2>1. at'[n] \in Nodes \cup InRefund /\ attempt'[n] < 3
    BY <1>4 DEF Active, HasCheckpointer
  <2>2. CASE n = m
    BY <1>4, <2>1, <2>2
  <2>3. CASE n # m
    BY <1>3, <1>4, <2>1, <2>3
  <2> QED BY <2>2, <2>3
<1>5. RunExtendsSaved'
  BY <1>4 DEF RunExtendsSaved, Active, HasCheckpointer, NodeOf, PlanOf, Extends
<1> QED BY <1>1, <1>2, <1>5 DEF RecordHolds

\* A step of the graph.
LEMMA ProgressRecord ==
    ASSUME RecordHolds, NEW m \in Msg, Progress(m), UNCHANGED <<saved, attempt>>,
           ControlAgrees'
    PROVE  LocalRecord(m)
<1> USE DEF Progress
<1>1. at[m] \in Running /\ \A n \in Msg \ {m} : at[n] \notin Running
  BY DEF Active, Running, RecordHolds, OneRun
<1>2. at'[m] # "load"
  BY DEF InRefund
<1>3. saved'.node \notin Loaded => saved'.st.results = <<>>
  BY DEF RecordHolds, NoVerdictYet
<1>4. ASSUME attempt'[m] < 3, saved'.node \in Loaded
      PROVE  /\ NodeOf(at'[m]) \in Loaded
             /\ PlanOf(NodeOf(at'[m]), run'[m]) = PlanOf(saved'.node, saved'.st)
             /\ Extends(saved'.st.results, run'[m].results)
             /\ saved'.node = "end" => at'[m] = "end"
  <2>1. HasCheckpointer(m)
    BY <1>4 DEF HasCheckpointer
  <2>2. /\ NodeOf(at[m]) \in Loaded
        /\ PlanOf(NodeOf(at[m]), run[m]) = PlanOf(saved.node, saved.st)
        /\ Extends(saved.st.results, run[m].results)
        /\ saved.node = "end" => at[m] = "end"
    BY <1>4, <2>1 DEF RecordHolds, RunExtendsSaved
  <2>3. at[m] # "load"
    BY <2>2 DEF NodeOf, Loaded, InRefund
  <2>4. /\ saved.st.results \in Seq(Verdict) /\ run[m].results \in Seq(Verdict)
        /\ run'[m].results \in Seq(Verdict)
    BY DEF RecordHolds, PlanHolds, ControlAgrees, TypeOK, Checkpoint, State
  <2>5. Extends(saved.st.results, run'[m].results)
    BY <2>2, <2>3, <2>4, ExtendsTransitive
  <2>6. NodeOf(at'[m]) \in Loaded
    BY DEF NodeOf, Loaded, Nodes, InRefund
  <2> QED BY <2>2, <2>3, <2>5, <2>6
<1> QED BY <1>1, <1>2, <1>3, <1>4 DEF LocalRecord

LEMMA RecordNext ==
    ASSUME "overlap" \notin Env, RecordHolds, [Next]_vars
    PROVE  RecordHolds'
<1>p. PlanHolds /\ PlanHolds' /\ ControlAgrees /\ ControlAgrees'
  BY PlanNext DEF RecordHolds, PlanHolds
<1>t. /\ at \in [Msg -> Waiting \cup Running \cup Gone] /\ run \in [Msg -> State]
      /\ attempt \in [Msg -> 1 .. 3] /\ saved \in Checkpoint /\ ledger \in Seq(Step)
  BY <1>p DEF ControlAgrees, TypeOK
<1>v. saved.node \notin Loaded => saved.st.results = <<>>
  BY DEF RecordHolds, NoVerdictYet
<1>l. ledger' = ledger => LedgerDistinct'
  BY DEF RecordHolds, LedgerDistinct
\* One request is processed at a time.
<1>o. ASSUME NEW m \in Msg, at[m] \in Running
      PROVE  \A n \in Msg \ {m} : at[n] \notin Running
  BY <1>o DEF RecordHolds, OneRun
<1>1. CASE UNCHANGED <<at, run, saved, attempt>> /\ LedgerDistinct'
  BY <1>p, <1>1 DEF RecordHolds, OneRun, RunExtendsSaved, NoVerdictYet, Active,
                    HasCheckpointer, NodeOf, PlanOf, Extends
<1>2. ASSUME NEW s \in Step, Settle(s) PROVE RecordHolds'
  <2>1. ledger' = Append(ledger, s) /\ s \notin ToSet(ledger)
        /\ UNCHANGED <<at, run, saved, attempt>>
    BY <1>2 DEF Settle
  <2>2. \A i \in 1 .. Len(ledger) : ledger[i] # s
    BY <1>t, <2>1 DEF ToSet
  <2>3. LedgerDistinct'
    BY <1>t, <2>1, <2>2 DEF RecordHolds, LedgerDistinct
  <2> QED BY <1>1, <2>1, <2>3
<1>3. ASSUME NEW m \in Msg, Walks(m) PROVE RecordHolds'
  <2>1. Progress(m) /\ UNCHANGED <<saved, attempt>>
    BY <1>p, <1>3, WalksProgress
  <2>2. ledger' = ledger
    BY <2>1 DEF Progress
  <2> QED BY <1>p, <1>l, <2>1, <2>2, ProgressRecord, RecordKept
\* What leaves the graph, or stays in front of it.
<1>4. ASSUME NEW m \in Msg, at'[m] \notin Nodes \cup InRefund,
             \A n \in Msg \ {m} :
                 at'[n] = at[n] /\ run'[n] = run[n] /\ attempt'[n] = attempt[n],
             at'[m] \in Running => \A n \in Msg \ {m} : at[n] \notin Running,
             UNCHANGED <<saved, ledger>>
      PROVE  RecordHolds'
  <2>1. LocalRecord(m)
    BY <1>v, <1>4 DEF LocalRecord, Nodes
  <2> QED BY <1>p, <1>l, <1>4, <2>1, RecordKept
<1>5. ASSUME NEW m \in Msg, Request(m) \/ Deliver(m) PROVE RecordHolds'
  <2>1. CASE Request(m)
    BY <1>t, <1>4, <2>1 DEF Request, Goto, Running, Nodes, InRefund
  <2>2. CASE Deliver(m)
    BY <1>t, <1>4, <2>2 DEF Deliver, Goto, Running, Nodes, InRefund
  <2> QED BY <1>5, <2>1, <2>2
<1>6. ASSUME NEW m \in Msg, RunFails(m) PROVE RecordHolds'
  <2>1. at[m] \in Running
    BY <1>6 DEF RunFails, Running
  <2>2. /\ at'[m] \in {"preflight", "acked"}
        /\ \A n \in Msg \ {m} :
               at'[n] = at[n] /\ run'[n] = run[n] /\ attempt'[n] = attempt[n]
        /\ UNCHANGED <<saved, ledger>>
    BY <1>t, <1>6 DEF RunFails, Goto, Ends
  <2>3. at'[m] \notin Nodes \cup InRefund
    BY <2>2 DEF Nodes, InRefund
  <2> QED BY <1>4, <1>o, <2>1, <2>2, <2>3
<1>7. ASSUME NEW m \in Msg, PreflightFails(m) PROVE RecordHolds'
  <2>1. at[m] = "preflight" /\ at[m] \in Running /\ UNCHANGED <<saved, ledger>>
        /\ \A n \in Msg \ {m} :
               at'[n] = at[n] /\ run'[n] = run[n] /\ attempt'[n] = attempt[n]
    BY <1>t, <1>7 DEF PreflightFails, Running, Goto, Set, Ends
  <2>2. \/ at'[m] \in {"preflight", "acked"}
        \/ at'[m] = "load" /\ run'[m] = EmptyState(m) /\ attempt'[m] = 3
    BY <1>t, <1>7 DEF PreflightFails, Goto, Set, Ends
  <2>3. CASE at'[m] \in {"preflight", "acked"}
    <3>1. at'[m] \notin Nodes \cup InRefund
      BY <2>3 DEF Nodes, InRefund
    <3> QED BY <1>4, <1>o, <2>1, <3>1
  <2>4. CASE at'[m] = "load" /\ run'[m] = EmptyState(m) /\ attempt'[m] = 3
    <3>1. LocalRecord(m)
      BY <1>o, <1>v, <2>1, <2>4 DEF LocalRecord, EmptyState
    <3> QED BY <1>p, <1>l, <2>1, <3>1, RecordKept
  <2> QED BY <2>2, <2>3, <2>4
<1>8. ASSUME NEW m \in Msg, Preflight(m) PROVE RecordHolds'
  <2>1. at[m] = "preflight" /\ at[m] \in Running /\ UNCHANGED <<saved, ledger, attempt>>
        /\ \A n \in Msg \ {m} :
               at'[n] = at[n] /\ run'[n] = run[n] /\ attempt'[n] = attempt[n]
    BY <1>t, <1>8 DEF Preflight, Running, Goto, Set
  <2>2. CASE saved.node = "none"
    <3>1. at'[m] = "load" /\ run'[m] = EmptyState(m)
      BY <1>t, <1>8, <2>2 DEF Preflight, Goto, Set
    <3>2. saved.node \notin Loaded
      BY <2>2 DEF Loaded, Nodes
    <3>3. LocalRecord(m)
      BY <1>o, <1>v, <2>1, <3>1, <3>2 DEF LocalRecord, EmptyState
    <3> QED BY <1>p, <1>l, <2>1, <3>3, RecordKept
  <2>3. CASE saved.node # "none"
    <3>1. at'[m] = saved.node /\ run'[m] = saved.st
      BY <1>t, <1>8, <2>3 DEF Preflight, Goto, Set
    <3>2. NodeOf(saved.node) = saved.node /\ saved.st.results \in Seq(Verdict)
      BY <1>t, <2>3 DEF Checkpoint, State, NodeOf, Nodes, InRefund
    <3>3. Extends(saved.st.results, saved.st.results)
      BY <3>2, ExtendsSelf
    <3>4. saved.node = "load" => saved.st.results = <<>>
      BY <1>v DEF Loaded
    <3>5. LocalRecord(m)
      BY <1>o, <1>v, <2>1, <3>1, <3>2, <3>3, <3>4 DEF LocalRecord
    <3> QED BY <1>p, <1>l, <2>1, <3>5, RecordKept
  <2> QED BY <2>2, <2>3
<1>9. ASSUME NEW m \in Msg, Save(m) \/ Complete(m) PROVE RecordHolds'
  <2>1. at[m] \in Running \ {"preflight"}
    BY <1>9 DEF Save, Complete, Running, Nodes
  <2>2. Active(m) /\ run[m].results \in Seq(Verdict)
    BY <1>t, <2>1 DEF Active, Running, State
  <2>3. /\ \A n \in Msg \ {m} :
               at'[n] = at[n] /\ run'[n] = run[n] /\ attempt'[n] = attempt[n]
        /\ ledger' = ledger /\ attempt' = attempt
    BY <1>t, <1>9 DEF Save, Complete, Ends, Goto
  <2>4. CASE Save(m)
    <3>1. /\ saved' = [node |-> NodeOf(at[m]), st |-> run[m]]
          /\ at' = at /\ run' = run
      BY <2>4 DEF Save
    <3>2. NodeOf(at[m]) \notin Loaded => run[m].results = <<>>
      <4>1. NodeOf(at[m]) \notin Loaded => at[m] = "load"
        BY <2>1 DEF NodeOf, Loaded, Running, Nodes, InRefund
      <4> QED BY <4>1 DEF RecordHolds, NoVerdictYet
    <3>3. Extends(run[m].results, run[m].results)
      BY <2>2, ExtendsSelf
    <3>4. NodeOf(at[m]) = "end" => at[m] = "end"
      BY DEF NodeOf
    <3>5. at[m] = "load" => run[m].results = <<>>
      BY DEF RecordHolds, NoVerdictYet
    <3>6. LocalRecord(m)
      BY <1>o, <2>1, <2>3, <3>1, <3>2, <3>3, <3>4, <3>5 DEF LocalRecord
    <3> QED BY <1>p, <1>l, <2>3, <3>6, RecordKept
  <2>5. CASE Complete(m)
    <3>1. at'[m] = "acked" /\ (saved' = saved \/ saved'.node = "end")
      BY <1>t, <2>5 DEF Complete, Ends, Goto
    <3>2. at'[m] \notin Running /\ "end" \in Loaded
      BY <3>1 DEF Running, Nodes, InRefund, Loaded
    <3>3. LocalRecord(m)
      BY <1>o, <1>v, <2>1, <2>3, <3>1, <3>2 DEF LocalRecord, Running
    <3> QED BY <1>p, <1>l, <2>3, <3>3, RecordKept
  <2> QED BY <1>9, <2>4, <2>5
<1>10. CASE Crash
  <2>1. \A m \in Msg : at'[m] \notin Running
    BY <1>10, <1>t DEF Crash, Waiting, Gone, Running, Nodes, InRefund
  <2>2. UNCHANGED <<saved, ledger>>
    BY <1>10 DEF Crash
  <2>3. OneRun' /\ RunExtendsSaved' /\ NoVerdictYet'
    BY <1>v, <2>1, <2>2 DEF OneRun, RunExtendsSaved, NoVerdictYet, Active, Running, Nodes
  <2> QED BY <1>p, <1>l, <2>2, <2>3 DEF RecordHolds
<1>11. ASSUME NEW c \in Merchant, Neighbour(c) PROVE RecordHolds'
  BY <1>1, <1>l, <1>11 DEF Neighbour
<1>12. CASE UNCHANGED vars
  BY <1>1, <1>l, <1>12 DEF vars
<1> QED BY <1>2, <1>3, <1>5, <1>6, <1>7, <1>8, <1>9, <1>10, <1>11, <1>12
        DEF Next, Advance, Walks

LEMMA RecordInit == Init => RecordHolds
<1> SUFFICES ASSUME Init PROVE RecordHolds
  OBVIOUS
<1>1. OneRun /\ LedgerDistinct /\ RunExtendsSaved /\ NoVerdictYet
  BY DEF Init, OneRun, LedgerDistinct, RunExtendsSaved, NoVerdictYet, Active, Running,
         Nodes, InRefund, Loaded, EmptyState
<1> QED BY <1>1, PlanInit DEF RecordHolds

\* A save, or the end of a run with a checkpointer: all that changes the record.
Records(m) ==
    /\ Active(m) /\ HasCheckpointer(m) /\ ledger' = ledger
    /\ saved' = [node |-> NodeOf(at[m]), st |-> run[m]]

LEMMA RecordsOnly ==
    ASSUME ControlAgrees, [Next]_vars, saved' # saved
    PROVE  \E m \in Msg : Records(m)
<1>1. PICK m \in Msg : Save(m) \/ Complete(m)
  <2>1. ~UNCHANGED vars /\ ~Crash /\ (\A s \in Step : ~Settle(s))
        /\ (\A c \in Merchant : ~Neighbour(c))
    BY DEF vars, Crash, Settle, Neighbour
  <2>2. PICK m \in Msg : \/ Request(m) \/ Advance(m) \/ Save(m)
                         \/ PreflightFails(m) \/ ResetFails(m) \/ RunFails(m)
    BY <2>1 DEF Next
  <2>3. ~Request(m) /\ ~PreflightFails(m) /\ ~ResetFails(m) /\ ~RunFails(m)
    BY DEF Request, PreflightFails, ResetFails, RunFails
  <2>4. ASSUME Advance(m) PROVE Complete(m)
    BY <2>4 DEF Advance, Deliver, Preflight, Visit, Load, Select, FetchPolicy, Extract,
                Classify, Node, CheckBreaker, CallRefund, ResetBreaker, RecordFailure,
                WriteDlqEntry, GenerateUdirPayload, GenerateLiabilityReport
  <2> QED BY <2>2, <2>3, <2>4
<1>2. at[m] \in Running \ {"preflight"}
  BY <1>1 DEF Save, Complete, Running, Nodes
<1>3. Active(m)
  BY <1>2 DEF Active, Running
<1>4. CASE Save(m)
  BY <1>3, <1>4 DEF Save, Records
<1>5. CASE Complete(m)
  BY <1>3, <1>5 DEF Complete, Records, NodeOf, InRefund
<1> QED BY <1>1, <1>4, <1>5

\* What a save finds, and what it leaves.
LEMMA RecordsGrow ==
    ASSUME RecordHolds, NEW m \in Msg, Records(m)
    PROVE  /\ saved'.node \in Loaded =>
                  /\ UndoesLedger(PlanOf(saved'.node, saved'.st))
                  /\ PlanOf(saved'.node, saved'.st) \in Seq(Step)
                  /\ \A i, j \in 1 .. Len(PlanOf(saved'.node, saved'.st)) :
                         PlanOf(saved'.node, saved'.st)[i] = PlanOf(saved'.node, saved'.st)[j]
                             => i = j
                  /\ Len(saved'.st.results) <= Len(PlanOf(saved'.node, saved'.st))
                  /\ \A i \in 1 .. Len(saved'.st.results) :
                         PlanOf(saved'.node, saved'.st)[i] = saved'.st.results[i].step
           /\ saved'.node \notin Loaded => saved'.st.results = <<>>
           /\ saved.node \in Loaded =>
                  /\ saved'.node \in Loaded
                  /\ PlanOf(saved'.node, saved'.st) = PlanOf(saved.node, saved.st)
                  /\ Extends(saved.st.results, saved'.st.results)
           /\ saved.node \notin Loaded => saved.st.results = <<>>
<1> DEFINE node == NodeOf(at[m])
<1>1. saved'.node = node /\ saved'.st = run[m] /\ run[m] \in State /\ ledger \in Seq(Step)
  BY DEF Records, RecordHolds, PlanHolds, ControlAgrees, TypeOK
<1>2. node \in Undoing => run[m].cur \in Step
  BY DEF NodeOf, Undoing, InRefund, RecordHolds, PlanHolds, ControlAgrees, RunsAgree
<1>3. node \in Loaded => UndoesLedger(PlanOf(node, run[m]))
  BY DEF RecordHolds, PlanHolds, PlanIsKept
<1>4. node \notin Loaded => run[m].results = <<>>
  <2>1. node \notin Loaded => at[m] = "load"
    BY DEF Records, Active, NodeOf, Loaded, Nodes, InRefund
  <2> QED BY <2>1 DEF RecordHolds, NoVerdictYet
<1>5. saved.node \in Loaded =>
          /\ node \in Loaded
          /\ PlanOf(node, run[m]) = PlanOf(saved.node, saved.st)
          /\ Extends(saved.st.results, run[m].results)
  BY DEF Records, RecordHolds, RunExtendsSaved
<1>6. saved.node \notin Loaded => saved.st.results = <<>>
  BY DEF RecordHolds, NoVerdictYet
<1> HIDE DEF node
<1>7. ASSUME node \in Loaded
      PROVE  /\ PlanOf(node, run[m]) \in Seq(Step)
             /\ \A i, j \in 1 .. Len(PlanOf(node, run[m])) :
                    PlanOf(node, run[m])[i] = PlanOf(node, run[m])[j] => i = j
  BY <1>1, <1>3, <1>7, PlanDistinct DEF RecordHolds
<1>8. /\ Len(run[m].results) <= Len(PlanOf(node, run[m]))
      /\ \A i \in 1 .. Len(run[m].results) :
             PlanOf(node, run[m])[i] = run[m].results[i].step
  BY <1>1, <1>2, PlanFront
<1> QED BY <1>1, <1>3, <1>4, <1>5, <1>6, <1>7, <1>8

LEMMA RecordAdvances ==
    ASSUME RecordHolds, RecordHolds', NEW m \in Msg, Records(m)
    PROVE  Plan!Advance
<1> DEFINE old == IF saved.node \in Loaded THEN PlanOf(saved.node, saved.st) ELSE <<>>
           new == IF saved'.node \in Loaded THEN PlanOf(saved'.node, saved'.st) ELSE <<>>
<1>1. PlanOf(saved.node, saved.st)' = PlanOf(saved'.node, saved'.st)
  BY DEF PlanOf
<1>2. old # <<>> => new = old
  BY RecordsGrow
<1>3. new \in Seq(Step) /\ \A i, j \in 1 .. Len(new) : new[i] = new[j] => i = j
  BY RecordsGrow
<1>4. /\ Len(saved.st.results) <= Len(saved'.st.results)
      /\ \A i \in 1 .. Len(saved.st.results) :
             saved'.st.results[i] = saved.st.results[i]
  <2>1. CASE saved.node \in Loaded
    BY <2>1, RecordsGrow DEF Extends
  <2>2. CASE saved.node \notin Loaded
    <3>1. saved'.st.results \in Seq(Verdict)
      BY DEF RecordHolds, PlanHolds, ControlAgrees, TypeOK, Checkpoint, State
    <3> QED BY <2>2, <3>1, RecordsGrow
  <2> QED BY <2>1, <2>2
<1>5. /\ Len(saved'.st.results) <= Len(new)
      /\ \A i \in 1 .. Len(saved'.st.results) : saved'.st.results[i].step = new[i]
  BY RecordsGrow
<1> QED BY <1>1, <1>2, <1>3, <1>4, <1>5 DEF Plan!Advance, Plan!Covers

\* Where no two requests of a workflow are processed at once the checkpoint is a
\* plan that is drawn up once and worked off from the front, whatever dies, fails,
\* is retried or delivered again: the saga refines the abstract UndoPlan.
THEOREM PlanImplemented ==
    ASSUME "overlap" \notin Env
    PROVE  Spec => ImplementsPlan
<1>1. Init => Plan!Init
  BY DEF Init, Plan!Init, Loaded, Nodes, EmptyState
<1>2. RecordHolds /\ RecordHolds' /\ [Next]_vars => [Plan!Advance]_(Plan!vars)
  <2> SUFFICES ASSUME RecordHolds, RecordHolds', [Next]_vars
               PROVE  [Plan!Advance]_(Plan!vars)
    OBVIOUS
  <2>1. CASE saved' = saved
    BY <2>1 DEF Plan!vars, PlanOf
  <2>2. CASE saved' # saved
    <3>1. ControlAgrees
      BY DEF RecordHolds, PlanHolds
    <3> QED BY <2>2, <3>1, RecordsOnly, RecordAdvances
  <2> QED BY <2>1, <2>2
<1>3. RecordHolds /\ [Next]_vars => RecordHolds'
  BY RecordNext
<1> QED BY <1>1, <1>2, <1>3, RecordInit, PTL DEF Spec, ImplementsPlan, Plan!Spec

\* A run that is at a step has no verdict on it yet ...
LEMMA StepUnjudged ==
    ASSUME RecordHolds, NEW m \in Msg, at[m] \in {"refund"} \cup InRefund,
           NEW v \in VerdictsOf(run[m])
    PROVE  v.step # run[m].cur
<1> DEFINE p == PlanOf("refund", run[m])
<1>1. run[m] \in State /\ run[m].cur \in Step /\ ledger \in Seq(Step)
      /\ run[m].results \in Seq(Verdict)
  BY DEF RecordHolds, PlanHolds, ControlAgrees, TypeOK, RunsAgree, Undoing, State
<1>2. NodeOf(at[m]) = "refund" /\ "refund" \in Loaded /\ "refund" \in Undoing
  BY DEF NodeOf, InRefund, Loaded, Nodes, Undoing
<1>3. UndoesLedger(p)
  BY <1>2 DEF RecordHolds, PlanHolds, PlanIsKept
<1>4. p \in Seq(Step) /\ \A i, j \in 1 .. Len(p) : p[i] = p[j] => i = j
  BY <1>1, <1>3, PlanDistinct DEF RecordHolds
<1>5. /\ \A i \in 1 .. Len(run[m].results) : p[i] = run[m].results[i].step
      /\ Len(run[m].results) + 1 <= Len(p)
      /\ p[Len(run[m].results) + 1] = run[m].cur
  BY <1>1, <1>2, PlanFront
<1>6. PICK i \in 1 .. Len(run[m].results) : v = run[m].results[i]
  BY <1>1 DEF VerdictsOf, ToSet
<1> HIDE DEF p
<1>7. Len(run[m].results) \in Nat /\ Len(p) \in Nat
  BY <1>1, <1>4
<1>8. PICK j \in 1 .. Len(p) : j = Len(run[m].results) + 1
  BY <1>5, <1>7
<1>9. i \in 1 .. Len(p) /\ i # j
  BY <1>5, <1>7, <1>8
<1> QED BY <1>4, <1>5, <1>6, <1>8, <1>9

\* ... and knows every verdict of the checkpoint it may write.
LEMMA JudgedIsKnown ==
    ASSUME RecordHolds, NEW m \in Msg, Active(m), HasCheckpointer(m), NEW s \in Judged
    PROVE  \E v \in VerdictsOf(run[m]) : v.step = s
<1>1. saved.st.results \in Seq(Verdict) /\ run[m].results \in Seq(Verdict)
  BY DEF RecordHolds, PlanHolds, ControlAgrees, TypeOK, Checkpoint, State
<1>2. PICK i \in 1 .. Len(saved.st.results) : s = saved.st.results[i].step
  BY <1>1 DEF Judged, VerdictsOf, ToSet
<1>3. saved.node \in Loaded
  BY <1>2 DEF RecordHolds, NoVerdictYet
<1>4. Extends(saved.st.results, run[m].results)
  BY <1>3 DEF RecordHolds, RunExtendsSaved
<1>5. i \in 1 .. Len(run[m].results) /\ run[m].results[i] = saved.st.results[i]
  BY <1>1, <1>4 DEF Extends
<1> QED BY <1>1, <1>2, <1>5 DEF VerdictsOf, ToSet

LEMMA PaidOnlyByCall ==
    ASSUME ControlAgrees, [Next]_vars, paid' # paid
    PROVE  \E m \in Msg : CallRefund(m) /\ paid' = [paid EXCEPT ![run[m].cur] = @ + 1]
<1>1. ~UNCHANGED vars /\ ~Crash /\ (\A s \in Step : ~Settle(s))
      /\ (\A c \in Merchant : ~Neighbour(c))
  BY DEF vars, Crash, Settle, Neighbour
<1>2. PICK m \in Msg : \/ Request(m) \/ Advance(m) \/ Save(m)
                       \/ PreflightFails(m) \/ ResetFails(m) \/ RunFails(m)
  BY <1>1 DEF Next
<1>3. ~Request(m) /\ ~Save(m) /\ ~PreflightFails(m) /\ ~ResetFails(m) /\ ~RunFails(m)
  BY DEF Request, Save, PreflightFails, ResetFails, RunFails
<1>4. ASSUME Advance(m) PROVE CallRefund(m)
  BY <1>4 DEF Advance, Deliver, Preflight, Visit, Load, Select, FetchPolicy, Extract,
              Classify, Node, CheckBreaker, ResetBreaker, RecordFailure, WriteDlqEntry,
              GenerateUdirPayload, GenerateLiabilityReport, Complete
<1>5. CallRefund(m)
  BY <1>2, <1>3, <1>4
<1> QED BY <1>5 DEF CallRefund

\* No refund is asked for again whose verdict is in the checkpoint, whatever dies,
\* fails, is retried or delivered again, where the checkpointer can be reached and
\* requests do not overlap.
THEOREM JudgedOnce ==
    ASSUME "overlap" \notin Env, "outage" \notin Env
    PROVE  Spec => JudgedStaysJudged
<1> DEFINE Durable == RecordHolds /\ \A m \in Msg : HasCheckpointer(m)
<1>1. Init => Durable
  BY RecordInit DEF Init, HasCheckpointer
<1>2. Durable /\ [Next]_vars => Durable'
  <2> SUFFICES ASSUME Durable, [Next]_vars PROVE Durable'
    OBVIOUS
  <2>1. attempt \in [Msg -> 1 .. 3] /\ \A m \in Msg : attempt[m] < 3
    BY DEF RecordHolds, PlanHolds, ControlAgrees, TypeOK, HasCheckpointer
  <2>2. \/ attempt' = attempt
        \/ \E m \in Msg, a \in {1, 2} : attempt' = [attempt EXCEPT ![m] = a]
    BY DEF Next, vars, Settle, Neighbour, Crash, Request, Save, PreflightFails, ResetFails,
           RunFails, Advance, Deliver, Preflight, Visit, Load, Select, FetchPolicy, Extract,
           Classify, Node, CheckBreaker, CallRefund, ResetBreaker, RecordFailure,
           WriteDlqEntry, GenerateUdirPayload, GenerateLiabilityReport, Complete
  <2>3. \A m \in Msg : attempt'[m] < 3
    BY <2>1, <2>2
  <2> QED BY <2>3, RecordNext DEF HasCheckpointer
<1>3. Durable /\ [Next]_vars => [\A s \in Judged : paid'[s] = paid[s]]_vars
  <2> SUFFICES ASSUME Durable, [Next]_vars, NEW s \in Judged
               PROVE  paid'[s] = paid[s]
    OBVIOUS
  <2>1. CASE paid' = paid
    BY <2>1
  <2>2. CASE paid' # paid
    <3>1. ControlAgrees /\ paid \in [Step -> Nat]
      BY DEF RecordHolds, PlanHolds, ControlAgrees, TypeOK
    <3>2. PICK m \in Msg :
              CallRefund(m) /\ paid' = [paid EXCEPT ![run[m].cur] = @ + 1]
      BY <2>2, <3>1, PaidOnlyByCall
    <3>3. at[m] = "call" /\ Active(m) /\ at[m] \in {"refund"} \cup InRefund
      BY <3>2 DEF CallRefund, Active, InRefund
    <3>4. PICK v \in VerdictsOf(run[m]) : v.step = s
      BY <3>3, JudgedIsKnown
    <3>5. s # run[m].cur
      BY <3>3, <3>4, StepUnjudged
    <3> QED BY <3>1, <3>2, <3>5
  <2> QED BY <2>1, <2>2
<1> HIDE DEF Durable
<1> QED BY <1>1, <1>2, <1>3, PTL DEF Spec, JudgedStaysJudged

-----------------------------------------------------------------------------
(* Every refund is asked for once *)

OnceHolds == RecordHolds /\ DisturbanceLasts /\ PaidIsAsked

LEMMA DisturbanceNext ==
    ASSUME ControlAgrees, DisturbanceLasts, [Next]_vars
    PROVE  DisturbanceLasts' /\ (Disturbed => Disturbed')
<1> USE DEF Waiting, Running, Gone, Nodes, InRefund
<1>t. /\ at \in [Msg -> Waiting \cup Running \cup Gone] /\ attempt \in [Msg -> 1 .. 3]
      /\ reported \in [Msg -> {"none", "complete", "degraded", "error"}]
      /\ crashes \in [Msg -> 0 .. DeliveryLimit + 1] /\ DeliveryLimit \in Nat
  BY SagaAssumption DEF ControlAgrees, TypeOK
\* What one request's step does to it.
<1>1. ASSUME NEW m \in Msg, crashes' = crashes,
             \A n \in Msg \ {m} :
                 at'[n] = at[n] /\ attempt'[n] = attempt[n] /\ reported'[n] = reported[n],
             at[m] \notin Gone,
             \/ attempt'[m] = attempt[m]
                    /\ (at'[m] \in Running \cup Gone \/ at[m] = "unsent")
             \/ attempt'[m] = 1 /\ at[m] = "queued"
             \/ attempt'[m] > 1 /\ at'[m] \in Running,
             reported'[m] = reported[m] \/ at'[m] \in Gone
      PROVE  DisturbanceLasts' /\ (Disturbed => Disturbed')
  <2>1. reported[m] = "none"
    BY <1>1 DEF DisturbanceLasts
  <2>2. attempt[m] > 1 => attempt'[m] > 1 \/ crashes[m] > 0
    BY <1>1, <1>t DEF DisturbanceLasts
  <2>3. /\ attempt'[m] > 1 => at'[m] \in Running \cup Gone \/ crashes'[m] > 0
        /\ reported'[m] # "none" => at'[m] \in Gone
    BY <1>1, <1>t, <2>1 DEF DisturbanceLasts
  <2>4. ASSUME NEW n \in Msg
        PROVE  /\ attempt'[n] > 1 => at'[n] \in Running \cup Gone \/ crashes'[n] > 0
               /\ reported'[n] # "none" => at'[n] \in Gone
    BY <1>1, <2>3 DEF DisturbanceLasts
  <2>5. Disturbed => Disturbed'
    BY <1>1, <2>1, <2>2 DEF Disturbed
  <2> QED BY <2>4, <2>5 DEF DisturbanceLasts
<1>2. CASE UNCHANGED <<at, attempt, crashes, reported>>
  BY <1>2 DEF DisturbanceLasts, Disturbed
<1>3. ASSUME NEW m \in Msg, Request(m) \/ Deliver(m)
      PROVE  DisturbanceLasts' /\ (Disturbed => Disturbed')
  <2>1. CASE Request(m)
    <3>1. /\ at[m] = "unsent" /\ at'[m] = "queued" /\ \A n \in Msg \ {m} : at'[n] = at[n]
          /\ UNCHANGED <<attempt, crashes, reported>>
      BY <1>t, <2>1 DEF Request, Goto
    <3> QED BY <1>1, <3>1
  <2>2. CASE Deliver(m)
    <3>1. /\ at[m] = "queued" /\ at'[m] = "preflight" /\ attempt'[m] = 1
          /\ \A n \in Msg \ {m} : at'[n] = at[n] /\ attempt'[n] = attempt[n]
          /\ UNCHANGED <<crashes, reported>>
      BY <1>t, <2>2 DEF Deliver, Goto
    <3> QED BY <1>1, <3>1
  <2> QED BY <1>3, <2>1, <2>2
<1>4. ASSUME NEW m \in Msg, PreflightFails(m) \/ RunFails(m) \/ Preflight(m)
      PROVE  DisturbanceLasts' /\ (Disturbed => Disturbed')
  <2>1. /\ at[m] \in Running /\ crashes' = crashes
        /\ \A n \in Msg \ {m} :
               at'[n] = at[n] /\ attempt'[n] = attempt[n] /\ reported'[n] = reported[n]
    BY <1>t, <1>4 DEF PreflightFails, RunFails, Preflight, Goto, Ends
  <2>2. /\ \/ attempt'[m] = attempt[m] /\ at'[m] \in Running \cup Gone
           \/ attempt'[m] > 1 /\ at'[m] \in Running
        /\ reported'[m] = reported[m] \/ at'[m] \in Gone
    <3>1. CASE PreflightFails(m)
      BY <1>t, <3>1 DEF PreflightFails, Goto, Ends
    <3>2. CASE RunFails(m)
      BY <1>t, <3>2 DEF RunFails, Goto, Ends
    <3>3. CASE Preflight(m)
      <4>1. saved.node # "none" => saved.node \in Running
        BY DEF ControlAgrees, TypeOK, Checkpoint
      <4> QED BY <1>t, <3>3, <4>1 DEF Preflight, Goto
    <3> QED BY <1>4, <3>1, <3>2, <3>3
  <2> QED BY <1>1, <2>1, <2>2
<1>5. ASSUME NEW m \in Msg, Walks(m) \/ Complete(m) \/ Save(m)
      PROVE  DisturbanceLasts' /\ (Disturbed => Disturbed')
  <2>1. CASE Save(m)
    BY <1>2, <2>1 DEF Save
  <2>2. CASE Complete(m)
    <3>1. /\ at[m] = "end" /\ at'[m] = "acked" /\ UNCHANGED <<crashes, attempt>>
          /\ \A n \in Msg \ {m} : at'[n] = at[n] /\ reported'[n] = reported[n]
      BY <1>t, <2>2 DEF Complete, Goto, Ends
    <3> QED BY <1>1, <3>1
  <2>3. CASE Walks(m)
    <3>1. UNCHANGED <<attempt, crashes, reported>> /\ at[m] \in Running
      BY <2>3 DEF Walks, Visit, Load, Select, FetchPolicy, Extract, Classify, Node,
                  CheckBreaker, CallRefund, ResetBreaker, ResetFails, RecordFailure,
                  WriteDlqEntry, GenerateUdirPayload, GenerateLiabilityReport
    <3>2. \E l \in Running : at' = [at EXCEPT ![m] = l]
      BY <2>3 DEF Walks, Visit, Load, Select, FetchPolicy, Extract, Classify, Node, Goto,
                  CheckBreaker, CallRefund, ResetBreaker, ResetFails, RecordFailure,
                  WriteDlqEntry, GenerateUdirPayload, GenerateLiabilityReport, Conclude,
                  LoopOrEnd
    <3> QED BY <1>1, <1>t, <3>1, <3>2
  <2> QED BY <1>5, <2>1, <2>2, <2>3
<1>6. CASE Crash
  <2>1. /\ \A n \in Msg : at'[n] \in Waiting => at[n] \in Waiting \/ crashes'[n] > 0
        /\ \A n \in Msg : at[n] \in Gone => at'[n] \in Gone
        /\ \A n \in Msg : crashes[n] > 0 => crashes'[n] > 0
        /\ UNCHANGED <<attempt, reported>>
        /\ \A n \in Msg : at'[n] \in Waiting \cup Gone
    BY <1>t, <1>6 DEF Crash, Redelivered
  <2>2. Disturbed => Disturbed'
    BY <1>t, <2>1 DEF Disturbed
  <2> QED BY <1>t, <2>1, <2>2 DEF DisturbanceLasts
<1>7. ASSUME \/ \E s \in Step : Settle(s)
             \/ \E c \in Merchant : Neighbour(c)
      PROVE  DisturbanceLasts' /\ (Disturbed => Disturbed')
  BY <1>2, <1>7 DEF Settle, Neighbour
<1>8. CASE UNCHANGED vars
  BY <1>2, <1>8 DEF vars
<1> QED BY <1>3, <1>4, <1>5, <1>6, <1>7, <1>8 DEF Next, Advance, Walks

Had(m, s) == (\E v \in VerdictsOf(run[m]) : v.step = s)
At(m, s) == at[m] \in {"reset", "record", "dlq_row"} /\ s = run[m].cur

LEMMA AskedIs ==
    \A m, s : /\ s \in AskedBy(m) <=> Had(m, s) \/ At(m, s)
              /\ (s \in AskedBy(m))' <=> Had(m, s)' \/ At(m, s)'
BY DEF AskedBy, Had, At

\* A run never forgets a verdict inside the graph.
LEMMA HadStays ==
    ASSUME RecordHolds, RecordHolds', NEW m \in Msg, Progress(m), NEW s, Had(m, s)
    PROVE  Had(m, s)'
<1>1. run[m].results \in Seq(Verdict) /\ run'[m].results \in Seq(Verdict)
  BY DEF RecordHolds, PlanHolds, ControlAgrees, TypeOK, State
<1>2. PICK i \in 1 .. Len(run[m].results) : run[m].results[i].step = s
  BY <1>1 DEF Had, VerdictsOf, ToSet
<1>3. at[m] # "load"
  BY <1>2 DEF RecordHolds, NoVerdictYet
<1>4. i \in 1 .. Len(run'[m].results) /\ run'[m].results[i] = run[m].results[i]
  BY <1>1, <1>3 DEF Progress, Extends
<1> QED BY <1>1, <1>2, <1>4 DEF Had, VerdictsOf, ToSet

LEMMA ConcludeHad ==
    ASSUME RecordHolds, NEW m \in Msg, NEW o \in Outcomes, Conclude(m, o),
           at[m] \in {"refund"} \cup InRefund, NEW s, s = run[m].cur
    PROVE  Had(m, s)'
<1> DEFINE v == [step |-> run[m].cur, outcome |-> o]
<1>1. run[m] \in State /\ run[m].cur \in Step /\ run \in [Msg -> State]
  BY DEF RecordHolds, PlanHolds, ControlAgrees, RunsAgree, TypeOK, Undoing
<1>2. v \in Verdict /\ v.step = run[m].cur
  BY <1>1 DEF Verdict
<1>3. run'[m].results = Append(run[m].results, v)
  BY <1>1 DEF Conclude, Set, State
<1> HIDE DEF v
<1>4. VerdictsOf(run'[m]) = VerdictsOf(run[m]) \cup {v}
  BY <1>1, <1>2, <1>3, VerdictsAppend
<1> QED BY <1>2, <1>4 DEF Had, VerdictsOf

\* What a step of the graph asked for stays asked for, and a refund is asked for
\* by the one run whose step it is.
LEMMA WalksAsk ==
    ASSUME RecordHolds, RecordHolds', NEW m \in Msg, Walks(m), NEW s \in Step,
           s \in AskedBy(m) \/ (at[m] = "call" /\ s = run[m].cur)
    PROVE  (s \in AskedBy(m))'
<1> USE DEF InRefund, Outcomes
<1>c. /\ PlanHolds /\ ControlAgrees /\ at \in [Msg -> Waiting \cup Running \cup Gone]
      /\ run \in [Msg -> State]
  BY DEF RecordHolds, PlanHolds, ControlAgrees, TypeOK
<1>1. Progress(m)
  BY <1>c, WalksProgress
<1>2. CASE Had(m, s)
  BY <1>1, <1>2, HadStays, AskedIs
<1>3. CASE ~Had(m, s)
  <2>1. at[m] \in {"call", "reset", "record", "dlq_row"} /\ s = run[m].cur
    BY <1>3, AskedIs DEF At
  <2>2. \/ (\E o \in Outcomes : Conclude(m, o))
        \/ at'[m] \in {"reset", "record", "dlq_row"} /\ run'[m] = run[m]
    <3>1. CASE at[m] = "call"
      BY <1>c, <3>1 DEF Walks, Visit, Load, Select, FetchPolicy, Extract, Classify, Node,
            CheckBreaker, CallRefund, ResetBreaker, ResetFails, RecordFailure,
            WriteDlqEntry, GenerateUdirPayload, GenerateLiabilityReport, Goto
    <3>2. CASE at[m] = "reset"
      <4>1. got[m] \in Outcomes
        BY <1>c, <3>2 DEF ControlAgrees, RunsAgree
      <4> QED BY <1>c, <3>2, <4>1 DEF Walks, Visit, Load, Select, FetchPolicy, Extract,
            Classify, Node, CheckBreaker, CallRefund, ResetBreaker, ResetFails,
            RecordFailure, WriteDlqEntry, GenerateUdirPayload, GenerateLiabilityReport
    <3>3. CASE at[m] = "record"
      BY <1>c, <3>3 DEF Walks, Visit, Load, Select, FetchPolicy, Extract, Classify, Node,
            CheckBreaker, CallRefund, ResetBreaker, ResetFails, RecordFailure,
            WriteDlqEntry, GenerateUdirPayload, GenerateLiabilityReport, Goto
    <3>4. CASE at[m] = "dlq_row"
      BY <1>c, <3>4 DEF Walks, Visit, Load, Select, FetchPolicy, Extract, Classify, Node,
            CheckBreaker, CallRefund, ResetBreaker, ResetFails, RecordFailure,
            WriteDlqEntry, GenerateUdirPayload, GenerateLiabilityReport
    <3> QED BY <2>1, <3>1, <3>2, <3>3, <3>4
  <2>3. CASE \E o \in Outcomes : Conclude(m, o)
    <3>1. Had(m, s)'
      BY <2>1, <2>3, ConcludeHad
    <3> QED BY <3>1, AskedIs
  <2>4. CASE at'[m] \in {"reset", "record", "dlq_row"} /\ run'[m] = run[m]
    BY <2>1, <2>4, AskedIs DEF At
  <2> QED BY <2>2, <2>3, <2>4
<1> QED BY <1>2, <1>3

\* What a calm step has to show.
Once == /\ \A s \in Step : paid[s] <= 1
        /\ \A m \in Msg : Active(m) => \A s \in Step : paid[s] > 0 => s \in AskedBy(m)
        /\ (\A m \in Msg : ~Active(m)) => \A s \in Step : paid[s] > 0 => s \in Judged

LEMMA OnceWalks ==
    ASSUME RecordHolds, RecordHolds', Once, NEW m \in Msg, Walks(m), [Next]_vars
    PROVE  Once'
<1>c. /\ PlanHolds /\ ControlAgrees /\ paid \in [Step -> Nat]
      /\ run[m].cur \in Step \/ at[m] # "call"
  BY DEF RecordHolds, PlanHolds, ControlAgrees, TypeOK, RunsAgree, InRefund
<1>1. Progress(m)
  BY <1>c, WalksProgress
<1>2. Active(m) /\ Active(m)' /\ \A n \in Msg \ {m} : ~Active(n)'
  <2>1. \A n \in Msg \ {m} : at[n] \notin Running /\ at'[n] = at[n]
    BY <1>1 DEF Progress, Active, Running, RecordHolds, OneRun
  <2> QED BY <1>1, <2>1 DEF Progress, Active, Running
<1>3. \A s \in Step : paid[s] > 0 => s \in AskedBy(m)
  BY <1>2 DEF Once
<1>4. ASSUME NEW s \in Step, paid'[s] > 0
      PROVE  paid'[s] <= 1 /\ (s \in AskedBy(m) \/ (at[m] = "call" /\ s = run[m].cur))
  <2>1. CASE paid' = paid
    BY <1>3, <1>4, <2>1 DEF Once
  <2>2. CASE paid' # paid
    <3>1. PICK n \in Msg : CallRefund(n) /\ paid' = [paid EXCEPT ![run[n].cur] = @ + 1]
      BY <1>c, <2>2, PaidOnlyByCall
    <3>2. Active(n) /\ at[n] = "call" /\ at[n] \in {"refund"} \cup InRefund
      BY <3>1 DEF CallRefund, Active, InRefund
    <3>3. n = m
      BY <1>2, <3>2 DEF Active, Running, RecordHolds, OneRun
    <3>4. CASE s = run[m].cur
      <4>1. ~Had(m, s)
        BY <3>2, <3>3, <3>4, StepUnjudged DEF Had
      <4>2. s \notin AskedBy(m)
        BY <3>2, <3>3, <4>1, AskedIs DEF At
      <4>3. paid[s] = 0
        BY <1>3, <1>c, <4>2
      <4> QED BY <1>c, <3>1, <3>2, <3>3, <3>4, <4>3
    <3>5. CASE s # run[m].cur
      <4>1. paid'[s] = paid[s]
        BY <1>c, <3>1, <3>3, <3>5
      <4> QED BY <1>3, <1>4, <4>1 DEF Once
    <3> QED BY <3>4, <3>5
  <2> QED BY <2>1, <2>2
<1>5. \A s \in Step : paid'[s] > 0 => (s \in AskedBy(m))'
  BY <1>4, WalksAsk
<1>6. \A s \in Step : paid'[s] <= 1
  <2>1. paid' \in [Step -> Nat]
    BY DEF RecordHolds, PlanHolds, ControlAgrees, TypeOK
  <2> QED BY <1>4, <2>1
<1> QED BY <1>2, <1>5, <1>6 DEF Once

LEMMA OnceNext ==
    ASSUME "overlap" \notin Env, OnceHolds, [Next]_vars
    PROVE  OnceHolds'
<1>r. /\ RecordHolds /\ RecordHolds' /\ ControlAgrees
      /\ DisturbanceLasts /\ DisturbanceLasts' /\ (Disturbed => Disturbed')
  BY RecordNext, DisturbanceNext DEF OnceHolds, RecordHolds, PlanHolds
<1> SUFFICES ASSUME ~Disturbed' PROVE Once'
  BY <1>r DEF OnceHolds, PaidIsAsked, Once
<1>o. Once /\ ~Disturbed
  BY <1>r DEF OnceHolds, PaidIsAsked, Once
<1>t. /\ at \in [Msg -> Waiting \cup Running \cup Gone] /\ run \in [Msg -> State]
      /\ attempt \in [Msg -> 1 .. 3] /\ saved \in Checkpoint
      /\ crashes \in [Msg -> 0 .. DeliveryLimit + 1] /\ DeliveryLimit \in Nat
      /\ reported \in [Msg -> {"none", "complete", "degraded", "error"}]
  BY <1>r, SagaAssumption DEF ControlAgrees, TypeOK
<1>1. ASSUME UNCHANGED <<paid, saved>>,
             \A n \in Msg : \/ at'[n] = at[n] /\ run'[n] = run[n]
                            \/ ~Active(n) /\ ~Active(n)'
      PROVE  Once'
  <2>1. \A n \in Msg : Active(n)' <=> Active(n)
    BY <1>1 DEF Active
  <2>2. ASSUME NEW n \in Msg, Active(n)', NEW s \in Step, paid'[s] > 0
        PROVE  (s \in AskedBy(n))'
    <3>1. at'[n] = at[n] /\ run'[n] = run[n] /\ s \in AskedBy(n)
      BY <1>1, <1>o, <2>1, <2>2 DEF Once
    <3> QED BY <3>1, AskedIs DEF Had, At, VerdictsOf
  <2>3. (\A n \in Msg : ~Active(n)') => \A s \in Step : paid'[s] > 0 => s \in Judged'
    BY <1>1, <1>o, <2>1 DEF Once, Judged, VerdictsOf
  <2> QED BY <1>1, <1>o, <2>2, <2>3 DEF Once
<1>2. ASSUME NEW m \in Msg, Request(m) \/ Deliver(m) PROVE Once'
  <2>1. /\ UNCHANGED <<paid, saved, run>> /\ at[m] \in Waiting
        /\ at'[m] \in {"queued", "preflight"} /\ \A n \in Msg \ {m} : at'[n] = at[n]
    BY <1>2, <1>t DEF Request, Deliver, Goto, Waiting
  <2>2. ~Active(m) /\ ~Active(m)'
    BY <2>1 DEF Active, Waiting, Nodes, InRefund
  <2> QED BY <1>1, <2>1, <2>2
<1>3. ASSUME NEW m \in Msg, PreflightFails(m) \/ RunFails(m) PROVE Once'
  <2>1. attempt'[m] > 1 \/ reported'[m] = "error"
    BY <1>3, <1>t DEF PreflightFails, RunFails, Ends
  <2> QED BY <2>1 DEF Disturbed
<1>4. ASSUME NEW m \in Msg, Preflight(m) PROVE Once'
  <2>1. /\ at[m] = "preflight" /\ UNCHANGED <<paid, saved>>
        /\ \A n \in Msg \ {m} : at'[n] = at[n]
        /\ saved.node = "none" \/ run'[m] = saved.st
    BY <1>4, <1>t DEF Preflight, Goto, Set
  <2>2. \A n \in Msg : ~Active(n)
    BY <1>r, <2>1 DEF Active, Running, Nodes, InRefund, RecordHolds, OneRun
  <2>3. \A s \in Step : paid[s] > 0 => s \in Judged
    BY <1>o, <2>2 DEF Once
  <2>4. saved.node = "none" => Judged = {}
    <3>1. saved.node = "none" => saved.st.results = <<>>
      BY <1>r DEF RecordHolds, NoVerdictYet, Loaded, Nodes
    <3> QED BY <3>1 DEF Judged, VerdictsOf, ToSet
  <2>5. ASSUME NEW s \in Step, s \in Judged, saved.node # "none"
        PROVE  (s \in AskedBy(m))'
    <3>1. Had(m, s)'
      BY <2>1, <2>5 DEF Judged, Had, VerdictsOf
    <3> QED BY <3>1, AskedIs
  <2>6. \A n \in Msg : Active(n)' => n = m
    BY <2>1, <2>2 DEF Active
  <2>7. \A s \in Step : paid'[s] > 0 => s \in Judged'
    BY <2>1, <2>3 DEF Judged, VerdictsOf
  <2> QED BY <1>o, <2>1, <2>3, <2>4, <2>5, <2>6, <2>7 DEF Once
<1>5. ASSUME NEW m \in Msg, Save(m) PROVE Once'
  <2>1. UNCHANGED <<at, run, paid>> /\ Active(m)
    BY <1>5 DEF Save, Active, Running
  <2>2. ASSUME NEW n \in Msg, Active(n)', NEW s \in Step, paid'[s] > 0
        PROVE  (s \in AskedBy(n))'
    <3>1. s \in AskedBy(n)
      BY <1>o, <2>1, <2>2 DEF Once, Active
    <3> QED BY <2>1, <3>1, AskedIs DEF Had, At, VerdictsOf
  <2>3. Active(m)'
    BY <2>1 DEF Active
  <2> QED BY <1>o, <2>1, <2>2, <2>3 DEF Once
<1>6. ASSUME NEW m \in Msg, Complete(m) PROVE Once'
  <2>1. HasCheckpointer(m)
    <3>1. ~(attempt[m] > 1)
      BY <1>o DEF Disturbed
    <3> QED BY <1>t, <3>1 DEF HasCheckpointer
  <2>2. /\ at[m] = "end" /\ at'[m] = "acked" /\ paid' = paid
        /\ \A n \in Msg \ {m} : at'[n] = at[n] /\ saved'.st = run[m]
    BY <1>6, <1>t, <2>1 DEF Complete, Ends, Goto
  <2>3. saved'.st = run[m]
    BY <1>6, <2>1 DEF Complete
  <2>4. Active(m) /\ \A n \in Msg : ~Active(n)'
    <3>1. \A n \in Msg \ {m} : at[n] \notin Running
      BY <1>r, <2>2 DEF RecordHolds, OneRun, Running, Nodes
    <3> QED BY <2>2, <3>1 DEF Active, Running, Nodes, InRefund
  <2>5. ASSUME NEW s \in Step, paid'[s] > 0 PROVE s \in Judged'
    <3>1. s \in AskedBy(m)
      BY <1>o, <2>2, <2>4, <2>5 DEF Once
    <3>2. Had(m, s)
      BY <2>2, <3>1, AskedIs DEF At
    <3> QED BY <2>3, <3>2 DEF Had, Judged, VerdictsOf
  <2> QED BY <1>o, <2>2, <2>4, <2>5 DEF Once
<1>7. CASE Crash
  <2>1. PICK m \in Msg : at[m] \in Running
    BY <1>7 DEF Crash
  <2>2. crashes'[m] > 0
    BY <1>7, <1>t, <2>1 DEF Crash, Redelivered
  <2> QED BY <2>2 DEF Disturbed
<1>8. ASSUME NEW m \in Msg, Walks(m) PROVE Once'
  BY <1>8, <1>o, <1>r, OnceWalks
<1>9. ASSUME \/ \E s \in Step : Settle(s)
             \/ \E c \in Merchant : Neighbour(c)
             \/ UNCHANGED vars
      PROVE  Once'
  BY <1>1, <1>9 DEF Settle, Neighbour, vars
<1> QED BY <1>2, <1>3, <1>4, <1>5, <1>6, <1>7, <1>8, <1>9 DEF Next, Advance, Walks

\* Where requests do not overlap, and nothing came between, every refund is asked
\* for once, however many requests of the workflow are published.
THEOREM OneRefund ==
    ASSUME "overlap" \notin Env
    PROVE  Spec => []RefundedOnce
<1>1. Init => OnceHolds
  <2> SUFFICES ASSUME Init PROVE OnceHolds
    OBVIOUS
  <2>1. DisturbanceLasts /\ PaidIsAsked
    BY DEF Init, DisturbanceLasts, PaidIsAsked, Active, Nodes, InRefund
  <2> QED BY <2>1, RecordInit DEF OnceHolds
<1>2. OnceHolds => RefundedOnce
  <2> SUFFICES ASSUME OnceHolds, NEW s \in Step, ~Disturbed PROVE ~(paid[s] > 1)
    BY DEF RefundedOnce
  <2>1. paid[s] <= 1 /\ paid[s] \in Nat
    BY DEF OnceHolds, PaidIsAsked, RecordHolds, PlanHolds, ControlAgrees, TypeOK
  <2> QED BY <2>1
<1>3. OnceHolds /\ [Next]_vars => OnceHolds'
  BY OnceNext
<1> QED BY <1>1, <1>2, <1>3, PTL DEF Spec

-----------------------------------------------------------------------------
(* A complete compensation has judged everything *)

WholeHolds == RecordHolds /\ PlansAreWhole /\ EndsAreFiled

\* What one request's step has to show.
LocalWhole(m) ==
    /\ ledger' = ledger
    /\ \A n \in Msg \ {m} : at'[n] = at[n] /\ run'[n] = run[n] /\ reported'[n] = reported[n]
    /\ NodeOf(at'[m]) \in Loaded => PlanOf(NodeOf(at'[m]), run'[m]) = Reverse(ledger)
    /\ at'[m] # "unsent" \/ at[m] = "unsent"
    /\ saved' = saved \/ (/\ saved'.node \in Loaded =>
                                PlanOf(saved'.node, saved'.st) = Reverse(ledger)
                          /\ saved.node = "end" => saved'.node = "end"
                          /\ saved'.node = "end" => filed # {}
                          /\ at[m] # "unsent")
    /\ filed \subseteq filed'
    /\ at'[m] = "end" => filed' # {}
    /\ reported'[m] = "complete" => reported[m] = "complete" \/ saved'.node = "end"

LEMMA WholeKept ==
    ASSUME WholeHolds, RecordHolds', NEW m \in Msg, LocalWhole(m)
    PROVE  WholeHolds'
<1> USE DEF LocalWhole
<1>1. ASSUME NEW n \in Msg, NodeOf(at'[n]) \in Loaded
      PROVE  PlanOf(NodeOf(at'[n]), run'[n]) = Reverse(ledger')
  BY <1>1 DEF WholeHolds, PlansAreWhole
<1>2. saved'.node \in Loaded => PlanOf(saved'.node, saved'.st) = Reverse(ledger')
  BY DEF WholeHolds, PlansAreWhole
<1>3. \A n \in Msg : at[n] # "unsent" => at'[n] # "unsent"
  OBVIOUS
<1>4. saved'.node # "none" => \E n \in Msg : at'[n] # "unsent"
  BY <1>3 DEF WholeHolds, PlansAreWhole
<1>5. PlansAreWhole'
  BY <1>1, <1>2, <1>4 DEF PlansAreWhole, NodeOf, PlanOf
<1>6. EndsAreFiled'
  BY DEF WholeHolds, EndsAreFiled
<1> QED BY <1>5, <1>6 DEF WholeHolds

LEMMA WholeWalks ==
    ASSUME WholeHolds, RecordHolds', NEW m \in Msg, Walks(m)
    PROVE  WholeHolds'
<1>c. PlanHolds /\ ControlAgrees
  BY DEF WholeHolds, RecordHolds, PlanHolds
<1>1. Progress(m) /\ UNCHANGED <<saved, reported>>
  BY <1>c, WalksProgress
<1>2. PlanOf(NodeOf(at'[m]), run'[m]) = Reverse(ledger)
  <2>1. CASE at[m] = "load"
    BY <1>1, <2>1 DEF Progress
  <2>2. CASE at[m] # "load"
    <3>1. NodeOf(at[m]) \in Loaded
      BY <1>1, <2>2 DEF Progress, Active, NodeOf, Loaded, Nodes, InRefund
    <3> QED BY <1>1, <2>2, <3>1 DEF Progress, WholeHolds, PlansAreWhole
  <2> QED BY <2>1, <2>2
<1>3. filed \subseteq filed' /\ (at'[m] = "end" => filed' # {})
  <2>t. at \in [Msg -> Waiting \cup Running \cup Gone]
    BY <1>c DEF ControlAgrees, TypeOK
  <2>1. CASE GenerateUdirPayload(m) \/ GenerateLiabilityReport(m)
    BY <2>1 DEF GenerateUdirPayload, GenerateLiabilityReport
  <2>2. CASE ~GenerateUdirPayload(m) /\ ~GenerateLiabilityReport(m)
    <3>1. filed' = filed
      BY <2>2 DEF Walks, CheckBreaker, CallRefund, ResetBreaker, ResetFails, RecordFailure,
                  WriteDlqEntry
    <3>2. \E l \in (Nodes \ {"end"}) \cup InRefund : Goto(m, l)
      <4>1. CASE Visit(m)
        BY <4>1 DEF Visit, Load, Select, FetchPolicy, Extract, Classify, Node, Nodes
      <4>2. CASE \E o : Conclude(m, o)
        BY <4>2 DEF Conclude, LoopOrEnd, Nodes
      <4>3. CASE CheckBreaker(m) \/ CallRefund(m) \/ RecordFailure(m)
        <5>1. (\E o : Conclude(m, o)) \/ (\E l \in InRefund : Goto(m, l))
          BY <4>3 DEF CheckBreaker, CallRefund, RecordFailure, InRefund
        <5> QED BY <4>2, <5>1
      <4>4. CASE ResetBreaker(m) \/ ResetFails(m) \/ WriteDlqEntry(m)
        BY <4>2, <4>4 DEF ResetBreaker, ResetFails, WriteDlqEntry
      <4> QED BY <2>2, <4>1, <4>3, <4>4 DEF Walks
    <3>3. at'[m] # "end"
      BY <2>t, <3>2 DEF Goto, InRefund
    <3> QED BY <3>1, <3>3
  <2> QED BY <2>1, <2>2
<1>4. /\ ledger' = ledger
      /\ \A n \in Msg \ {m} : at'[n] = at[n] /\ run'[n] = run[n] /\ reported'[n] = reported[n]
      /\ at'[m] # "unsent"
  BY <1>1 DEF Progress, Nodes, InRefund
<1>5. LocalWhole(m)
  BY <1>1, <1>2, <1>3, <1>4 DEF LocalWhole
<1> QED BY <1>5, WholeKept

LEMMA WholeNext ==
    ASSUME "overlap" \notin Env, "late" \notin Env, WholeHolds, [Next]_vars
    PROVE  WholeHolds'
<1>r. RecordHolds /\ RecordHolds' /\ ControlAgrees
  BY RecordNext DEF WholeHolds, RecordHolds, PlanHolds
<1>t. /\ at \in [Msg -> Waiting \cup Running \cup Gone] /\ run \in [Msg -> State]
      /\ attempt \in [Msg -> 1 .. 3] /\ saved \in Checkpoint
      /\ reported \in [Msg -> {"none", "complete", "degraded", "error"}]
  BY <1>r DEF ControlAgrees, TypeOK
<1>1. CASE UNCHANGED <<ledger, at, run, saved, reported, filed>>
  BY <1>r, <1>1 DEF WholeHolds, PlansAreWhole, EndsAreFiled, NodeOf, PlanOf
<1>2. ASSUME NEW s \in Step, Settle(s) PROVE WholeHolds'
  <2>1. /\ \A m \in Msg : at[m] = "unsent"
        /\ UNCHANGED <<at, run, saved, reported, filed>>
    BY <1>2 DEF Settle
  <2>2. saved.node = "none" /\ "none" \notin Loaded /\ NodeOf("unsent") \notin Loaded
    BY <2>1 DEF WholeHolds, PlansAreWhole, Loaded, Nodes, NodeOf, InRefund
  <2>3. PlansAreWhole'
    BY <2>1, <2>2 DEF PlansAreWhole, NodeOf
  <2>4. EndsAreFiled'
    BY <2>1 DEF WholeHolds, EndsAreFiled
  <2> QED BY <1>r, <2>3, <2>4 DEF WholeHolds
\* What leaves the graph, or stays in front of it.
<1>3. ASSUME NEW m \in Msg, at'[m] \notin (Nodes \ {"load"}) \cup InRefund,
             \A n \in Msg \ {m} :
                 at'[n] = at[n] /\ run'[n] = run[n] /\ reported'[n] = reported[n],
             at'[m] # "unsent", UNCHANGED <<saved, ledger, filed>>,
             reported'[m] = reported[m] \/ reported'[m] # "complete"
      PROVE  WholeHolds'
  <2>1. NodeOf(at'[m]) \notin Loaded /\ at'[m] # "end"
    BY <1>3 DEF NodeOf, Loaded, Nodes, InRefund
  <2>2. LocalWhole(m)
    BY <1>3, <2>1 DEF LocalWhole
  <2> QED BY <1>r, <2>2, WholeKept
<1>4. ASSUME NEW m \in Msg, Request(m) \/ Deliver(m) \/ PreflightFails(m) \/ RunFails(m)
      PROVE  WholeHolds'
  <2>1. /\ at'[m] \in {"queued", "preflight", "load", "acked"}
        /\ \A n \in Msg \ {m} :
               at'[n] = at[n] /\ run'[n] = run[n] /\ reported'[n] = reported[n]
        /\ UNCHANGED <<saved, ledger, filed>>
        /\ reported'[m] = reported[m] \/ reported'[m] # "complete"
    BY <1>4, <1>t DEF Request, Deliver, PreflightFails, RunFails, Goto, Set, Ends, Running,
                      Nodes
  <2>2. at'[m] \notin (Nodes \ {"load"}) \cup InRefund /\ at'[m] # "unsent"
    BY <2>1 DEF Nodes, InRefund
  <2> QED BY <1>3, <2>1, <2>2
<1>5. ASSUME NEW m \in Msg, Preflight(m) PROVE WholeHolds'
  <2>1. /\ \A n \in Msg \ {m} : at'[n] = at[n] /\ run'[n] = run[n]
        /\ UNCHANGED <<saved, ledger, filed, reported>> /\ at[m] = "preflight"
    BY <1>5, <1>t DEF Preflight, Goto, Set
  <2>2. CASE saved.node = "none"
    <3>1. at'[m] = "load"
      BY <1>5, <1>t, <2>2 DEF Preflight, Goto
    <3>2. at'[m] \notin (Nodes \ {"load"}) \cup InRefund
      BY <3>1 DEF InRefund
    <3> QED BY <1>3, <2>1, <3>1, <3>2
  <2>3. CASE saved.node # "none"
    <3>1. at'[m] = saved.node /\ run'[m] = saved.st
      BY <1>5, <1>t, <2>3 DEF Preflight, Goto, Set
    <3>2. NodeOf(saved.node) = saved.node /\ saved.node # "unsent"
      BY <1>t, <2>3 DEF Checkpoint, NodeOf, Nodes, InRefund
    <3>3. /\ saved.node \in Loaded => PlanOf(saved.node, saved.st) = Reverse(ledger)
          /\ saved.node = "end" => filed # {}
      BY DEF WholeHolds, PlansAreWhole, EndsAreFiled
    <3>4. LocalWhole(m)
      BY <2>1, <3>1, <3>2, <3>3 DEF LocalWhole
    <3> QED BY <1>r, <3>4, WholeKept
  <2> QED BY <2>2, <2>3
<1>6. ASSUME NEW m \in Msg, Save(m) \/ Complete(m) PROVE WholeHolds'
  <2>1. /\ \A n \in Msg \ {m} :
               at'[n] = at[n] /\ run'[n] = run[n] /\ reported'[n] = reported[n]
        /\ UNCHANGED <<ledger, filed>> /\ at[m] # "unsent"
        /\ \/ at'[m] = at[m] /\ run'[m] = run[m] /\ reported'[m] = reported[m]
           \/ at'[m] = "acked"
        /\ saved' = saved \/ Records(m)
        /\ reported'[m] = "complete" => reported[m] = "complete" \/ saved'.node = "end"
    <3>1. CASE Save(m)
      BY <1>t, <3>1 DEF Save, Records, Active, Running, Nodes, InRefund
    <3>2. CASE Complete(m)
      BY <1>t, <3>2 DEF Complete, Ends, Goto, Records, Active, Nodes, NodeOf, InRefund
    <3> QED BY <1>6, <3>1, <3>2
  <2>2. ASSUME Records(m)
        PROVE  /\ saved'.node \in Loaded => PlanOf(saved'.node, saved'.st) = Reverse(ledger)
               /\ saved.node = "end" => saved'.node = "end"
               /\ saved'.node = "end" => filed # {}
    <3>1. saved'.node = NodeOf(at[m]) /\ saved'.st = run[m]
      BY <2>2 DEF Records
    <3>2. saved.node = "end" => at[m] = "end"
      BY <1>r, <2>2 DEF Records, RecordHolds, RunExtendsSaved, Loaded, Nodes
    <3>3. NodeOf(at[m]) = "end" <=> at[m] = "end"
      BY DEF NodeOf, InRefund
    <3>4. at[m] = "end" => filed # {}
      BY DEF WholeHolds, EndsAreFiled
    <3> QED BY <3>1, <3>2, <3>3, <3>4 DEF WholeHolds, PlansAreWhole
  <2>3. NodeOf(at'[m]) \in Loaded => PlanOf(NodeOf(at'[m]), run'[m]) = Reverse(ledger)
    <3>1. NodeOf("acked") \notin Loaded
      BY DEF NodeOf, Loaded, Nodes, InRefund
    <3> QED BY <2>1, <3>1 DEF WholeHolds, PlansAreWhole
  <2>4. at'[m] = "end" => filed' # {}
    BY <2>1 DEF WholeHolds, EndsAreFiled
  <2>5. LocalWhole(m)
    BY <2>1, <2>2, <2>3, <2>4 DEF LocalWhole
  <2> QED BY <1>r, <2>5, WholeKept
<1>7. CASE Crash
  <2>1. /\ \A m \in Msg : NodeOf(at'[m]) \notin Loaded /\ at'[m] # "end"
        /\ \A m \in Msg : at[m] # "unsent" => at'[m] # "unsent"
        /\ UNCHANGED <<ledger, saved, reported, filed>>
    BY <1>7, <1>t DEF Crash, Running, Waiting, Gone, NodeOf, Loaded, Nodes, InRefund
  <2>2. PlansAreWhole'
    BY <2>1 DEF WholeHolds, PlansAreWhole, NodeOf, PlanOf
  <2>3. EndsAreFiled'
    BY <2>1 DEF WholeHolds, EndsAreFiled
  <2> QED BY <1>r, <2>2, <2>3 DEF WholeHolds
<1>8. ASSUME NEW m \in Msg, Walks(m) PROVE WholeHolds'
  BY <1>8, <1>r, WholeWalks
<1>9. ASSUME (\E c \in Merchant : Neighbour(c)) \/ UNCHANGED vars
      PROVE  WholeHolds'
  BY <1>1, <1>9 DEF Neighbour, vars
<1> QED BY <1>2, <1>4, <1>5, <1>6, <1>7, <1>8, <1>9 DEF Next, Advance, Walks

\* compensation_complete is only said when every settled step has its verdict in the
\* checkpoint and a report has gone out, where no payment settles behind the request
\* and requests do not overlap.
THEOREM CompleteIsJudged ==
    ASSUME "overlap" \notin Env, "late" \notin Env
    PROVE  Spec => []CompleteMeansJudged
<1>1. Init => WholeHolds
  <2> SUFFICES ASSUME Init PROVE WholeHolds
    OBVIOUS
  <2>1. PlansAreWhole /\ EndsAreFiled
    BY DEF Init, PlansAreWhole, EndsAreFiled, NodeOf, Loaded, Nodes, InRefund
  <2> QED BY <2>1, RecordInit DEF WholeHolds
<1>2. WholeHolds => CompleteMeansJudged
  <2> SUFFICES ASSUME WholeHolds, \E m \in Msg : reported[m] = "complete"
               PROVE  ToSet(ledger) \subseteq Judged /\ filed # {}
    BY DEF CompleteMeansJudged
  <2>1. saved.node = "end" /\ filed # {}
    BY DEF WholeHolds, EndsAreFiled
  <2>2. saved.st \in State /\ ledger \in Seq(Step) /\ saved.st.todo = <<>>
        /\ PlanOf("end", saved.st) = Reverse(ledger)
    BY <2>1 DEF WholeHolds, RecordHolds, PlanHolds, ControlAgrees, TypeOK, Checkpoint,
                PlanIsKept, PlansAreWhole, Loaded, Nodes, AfterLoop
  <2>3. StepsOf(saved.st.results) \in Seq(Step) /\ saved.st.results \in Seq(Verdict)
    BY <2>2, StepsOfSeq DEF State
  <2>4. StepsOf(saved.st.results) = Reverse(ledger)
    <3>1. PlanOf("end", saved.st) = (StepsOf(saved.st.results) \o <<>>) \o <<>>
      BY <2>2, PlanIs DEF Undoing
    <3> QED BY <2>2, <2>3, <3>1, ConcatEmpty
  <2>5. ASSUME NEW s \in ToSet(ledger) PROVE s \in Judged
    <3>1. PICK i \in 1 .. Len(ledger) : s = ledger[i]
      BY <2>2 DEF ToSet
    <3>2. PICK j \in 1 .. Len(ledger) : i = Len(ledger) - j + 1
      <4>1. (Len(ledger) - i) + 1 \in 1 .. Len(ledger)
        BY <2>2
      <4>2. i = Len(ledger) - ((Len(ledger) - i) + 1) + 1
        BY <2>2
      <4> QED BY <4>1, <4>2
    <3>3. Reverse(ledger) = [k \in 1 .. Len(ledger) |-> ledger[(Len(ledger) - k) + 1]]
      BY DEF Reverse
    <3>4. Reverse(ledger)[j] = s
      BY <3>1, <3>2, <3>3
    <3>5. StepsOf(saved.st.results) =
             [k \in 1 .. Len(saved.st.results) |-> saved.st.results[k].step]
      BY DEF StepsOf
    <3>6. Len(saved.st.results) = Len(ledger)
      <4>1. DOMAIN StepsOf(saved.st.results) = DOMAIN Reverse(ledger)
        BY <2>4
      <4>2. 1 .. Len(saved.st.results) = 1 .. Len(ledger)
        BY <3>3, <3>5, <4>1
      <4>3. Len(saved.st.results) \in Nat /\ Len(ledger) \in Nat
        BY <2>2, <2>3
      <4> QED BY <4>2, <4>3
    <3>7. saved.st.results[j].step = s /\ j \in 1 .. Len(saved.st.results)
      BY <2>4, <3>4, <3>5, <3>6
    <3> QED BY <2>3, <3>7 DEF Judged, VerdictsOf, ToSet
  <2> QED BY <2>1, <2>5
<1>3. WholeHolds /\ [Next]_vars => WholeHolds'
  BY WholeNext
<1> QED BY <1>1, <1>2, <1>3, PTL DEF Spec

===============================================================================
