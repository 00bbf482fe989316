----------------------------- MODULE PolicyProofs ----------------------------
(***************************************************************************)
(* Proofs about PolicyStream, for any extractions, threads and chunks: the *)
(* types, that terms are read from whole answers, that the panel shows the *)
(* stream, and that with more threads than live extractions the pool never *)
(* comes to a standstill.  IInv says where a job can be: in one place, not *)
(* before its attempt, a read only while its coroutine waits for it, a     *)
(* producer only while its answer is open.  StreamInv adds what the queues *)
(* hold, WaitInv whom a coroutine waits for.                               *)
(***************************************************************************)
EXTENDS PolicyStream, FiniteSetTheorems, SequenceTheorems, TLAPS

\* The members of a sequence, and that none occurs twice.
Elems(s) == {s[i] : i \in 1 .. Len(s)}
Distinct(s) == \A i, k \in 1 .. Len(s) : s[i] = s[k] => i = k

Jobs == tasks \cup Elems(pending) \cup running

OnePlace ==
    /\ Distinct(pending)
    /\ Elems(pending) \cap running = {}
    /\ tasks \cap Elems(pending) = {} /\ tasks \cap running = {}

JobsAreStarted ==
    \A j \in Jobs : /\ j.try <= try[j.who]
                    /\ at[j.who] = "attempt" => j.try < try[j.who]

ReadsAreAwaited ==
    \A j \in Jobs : j.does = "get" =>
        at[j.who] = "get" /\ j.try = try[j.who] /\ j \notin tasks

ProducersAreOpen ==
    \A j \in Jobs : j.does = "produce" => ended[j.who][j.try] = "no"

EndedIsStarted ==
    \A e \in Extraction, k \in Try : ended[e][k] # "no" =>
        k <= try[e] /\ (at[e] = "attempt" => k < try[e])

LabelsFit ==
    \A e \in Extraction : /\ at[e] = "backoff" => try[e] = 1
                          /\ at[e] \in {"get", "got"} => e \in Live

IInv ==
    /\ TypeOK /\ OnePlace /\ JobsAreStarted /\ ReadsAreAwaited
    /\ ProducersAreOpen /\ EndedIsStarted /\ LabelsFit /\ TermsAreWhole

-----------------------------------------------------------------------------
(* Sequences *)

\* Appending something new keeps a sequence without repetitions.
LEMMA AppendElems ==
    ASSUME NEW S, NEW s \in Seq(S), NEW x \in S
    PROVE  /\ Append(s, x) \in Seq(S)
           /\ Elems(Append(s, x)) = Elems(s) \cup {x}
           /\ Distinct(s) /\ x \notin Elems(s) => Distinct(Append(s, x))
  BY DEF Elems, Distinct

\* Taking off the head takes that member out.
LEMMA TailElems ==
    ASSUME NEW S, NEW s \in Seq(S), s # <<>>, Distinct(s)
    PROVE  /\ Tail(s) \in Seq(S) /\ Head(s) \in S
           /\ Head(s) \in Elems(s) /\ Distinct(Tail(s))
           /\ Elems(Tail(s)) = Elems(s) \ {Head(s)}
  <1>1. Tail(s) \in Seq(S) /\ Head(s) \in S /\ Head(s) \in Elems(s)
    BY DEF Elems
  <1>2. Len(Tail(s)) = Len(s) - 1 /\ \A i \in 1 .. Len(Tail(s)) : Tail(s)[i] = s[i + 1]
    OBVIOUS
  <1>3. Head(s) = s[1] /\ Len(s) \in Nat \ {0}
    OBVIOUS
  <1>4. Distinct(Tail(s))
    BY <1>2, <1>3 DEF Distinct
  <1>5. Elems(Tail(s)) \subseteq Elems(s) \ {Head(s)}
    BY <1>2, <1>3 DEF Elems, Distinct
  <1>6. ASSUME NEW x \in Elems(s) \ {Head(s)} PROVE x \in Elems(Tail(s))
    <2>1. PICK i \in 1 .. Len(s) : x = s[i] /\ i # 1
      BY <1>3 DEF Elems
    <2>2. i - 1 \in 1 .. Len(Tail(s)) /\ Tail(s)[i - 1] = s[i]
      BY <2>1, <1>2, <1>3
    <2> QED  BY <2>1, <2>2 DEF Elems
  <1> QED  BY <1>1, <1>4, <1>5, <1>6

-----------------------------------------------------------------------------
(* The inductive invariant *)

\* A job is what its fields say.
LEMMA JobFields ==
    /\ \A j \in Job : /\ j.who \in Extraction /\ j.try \in Try
                      /\ j.does \in {"get", "produce"}
    /\ \A j, l \in Job :
          j.who = l.who /\ j.try = l.try /\ j.does = l.does => j = l
  BY DEF Job

\* The invariant holds before any attempt.
LEMMA PolicyInit == ASSUME Init PROVE IInv
  <1> USE DEF Init
  <1>1. TypeOK
    BY PolicyAssumption DEF TypeOK, Labels, Try, Item, Sentinel, Job
  <1>2. Elems(pending) = {} /\ Distinct(pending)
    BY DEF Elems, Distinct
  <1> QED
    BY <1>1, <1>2 DEF IInv, OnePlace, JobsAreStarted, ReadsAreAwaited, ProducersAreOpen,
       EndedIsStarted, LabelsFit, TermsAreWhole, Jobs

\* An attempt adds two jobs nobody has, or one.
LEMMA AttemptKeeps == ASSUME IInv, NEW e \in Extraction, Attempt(e) PROVE IInv'
  <1> USE DEF IInv
  <1>1. try[e] \in Try /\ GetJob(e) \in Job /\ ProduceJob(e) \in Job
    BY DEF TypeOK, GetJob, ProduceJob, Job
  <1>2. \A j \in Jobs : j \in Job
    BY DEF Jobs, TypeOK, Elems
  <1>3. GetJob(e) \notin Jobs /\ ProduceJob(e) \notin Jobs
    BY <1>1, <1>2 DEF Attempt, JobsAreStarted, GetJob, ProduceJob, Try
  <1>4. at'[e] \in {"get", "await"} /\ \A f \in Extraction \ {e} : at'[f] = at[f]
    BY DEF Attempt, Goto, TypeOK
  <1>5. ended[e][try[e]] = "no"
    BY <1>1 DEF Attempt, EndedIsStarted, Try
  <1>6. LabelsFit' /\ EndedIsStarted' /\ TermsAreWhole'
    BY <1>4 DEF Attempt, Goto, TypeOK, LabelsFit, EndedIsStarted, TermsAreWhole
  <1>7. CASE e \in Live
    <2>1. /\ tasks' = tasks \cup {ProduceJob(e)} /\ at'[e] = "get"
          /\ pending' = Append(pending, GetJob(e)) /\ UNCHANGED running
      BY <1>7 DEF Attempt, Goto, TypeOK
    <2>2. /\ pending' \in Seq(Job) /\ Elems(pending') = Elems(pending) \cup {GetJob(e)}
          /\ Distinct(pending')
      BY <2>1, <1>1, <1>3, AppendElems DEF TypeOK, OnePlace, Jobs
    <2>3. Jobs' = Jobs \cup {GetJob(e), ProduceJob(e)}
      BY <2>1, <2>2 DEF Jobs
    <2>4. TypeOK'
      BY <2>1, <2>2, <1>1 DEF TypeOK, Attempt, Goto, Labels
    <2>5. OnePlace'
      BY <2>1, <2>2, <1>3 DEF OnePlace, Jobs, GetJob, ProduceJob
    <2>6. JobsAreStarted' /\ ProducersAreOpen'
      BY <2>1, <2>3, <1>1, <1>2, <1>4, <1>5, JobFields
         DEF JobsAreStarted, ProducersAreOpen, GetJob, ProduceJob, Attempt, Try
    <2>7. ReadsAreAwaited'
      BY <2>1, <2>3, <1>2, <1>3, <1>4, <1>7, JobFields
         DEF ReadsAreAwaited, GetJob, ProduceJob, Attempt, Jobs
    <2> QED  BY <2>4, <2>5, <2>6, <2>7, <1>6
  <1>8. CASE e \notin Live
    <2>1. /\ at'[e] = "await" /\ pending' = Append(pending, ProduceJob(e))
          /\ UNCHANGED <<tasks, running>>
      BY <1>8 DEF Attempt, Goto, TypeOK
    <2>2. /\ pending' \in Seq(Job) /\ Elems(pending') = Elems(pending) \cup {ProduceJob(e)}
          /\ Distinct(pending')
      BY <2>1, <1>1, <1>3, AppendElems DEF TypeOK, OnePlace, Jobs
    <2>3. Jobs' = Jobs \cup {ProduceJob(e)}
      BY <2>1, <2>2 DEF Jobs
    <2>4. TypeOK'
      BY <2>1, <2>2, <1>1 DEF TypeOK, Attempt, Goto, Labels
    <2>5. OnePlace'
      BY <2>1, <2>2, <1>3 DEF OnePlace, Jobs
    <2>6. JobsAreStarted' /\ ProducersAreOpen'
      BY <2>1, <2>3, <1>1, <1>2, <1>4, <1>5, JobFields
         DEF JobsAreStarted, ProducersAreOpen, ProduceJob, Attempt, Try
    <2>7. ReadsAreAwaited'
      BY <2>1, <2>3, <1>2, <1>4, JobFields DEF ReadsAreAwaited, ProduceJob, Attempt
    <2> QED  BY <2>4, <2>5, <2>6, <2>7, <1>6
  <1> QED  BY <1>7, <1>8

\* Moving a job from the tasks to the queue, or from there to a thread, moves it.
LEMMA SubmitKeeps == ASSUME IInv, NEW j \in tasks, SubmitProducer(j) PROVE IInv'
  <1> USE DEF IInv, SubmitProducer
  <1>1. /\ pending' \in Seq(Job) /\ Elems(pending') = Elems(pending) \cup {j}
        /\ Distinct(pending')
    BY AppendElems DEF TypeOK, OnePlace
  <1>2. Jobs' = Jobs
    BY <1>1 DEF Jobs
  <1>3. TypeOK' /\ OnePlace'
    BY <1>1 DEF TypeOK, OnePlace
  <1>4. ReadsAreAwaited'
    BY <1>2 DEF ReadsAreAwaited
  <1> QED
    BY <1>2, <1>3, <1>4 DEF JobsAreStarted, ProducersAreOpen, EndedIsStarted,
       LabelsFit, TermsAreWhole

LEMMA StartKeeps == ASSUME IInv, StartJob PROVE IInv'
  <1> USE DEF IInv, StartJob
  <1>1. /\ pending' \in Seq(Job) /\ Distinct(pending') /\ Head(pending) \in Job
        /\ Head(pending) \in Elems(pending)
        /\ Elems(pending') = Elems(pending) \ {Head(pending)}
    BY TailElems DEF TypeOK, OnePlace
  <1>2. Jobs' = Jobs
    BY <1>1 DEF Jobs
  <1>3. TypeOK' /\ OnePlace'
    BY <1>1 DEF TypeOK, OnePlace
  <1>4. ReadsAreAwaited'
    BY <1>2 DEF ReadsAreAwaited
  <1> QED
    BY <1>2, <1>3, <1>4 DEF JobsAreStarted, ProducersAreOpen, EndedIsStarted,
       LabelsFit, TermsAreWhole


\* A coroutine that neither starts nor waits for a read, and no new job.
LEMMA CoroutineKeeps ==
    ASSUME IInv, NEW e \in Extraction, at[e] \in {"got", "await", "backoff"},
           \/ at'[e] \in {"await", "done"} /\ UNCHANGED try
           \/ at'[e] = "backoff" /\ try[e] = 1 /\ UNCHANGED try
           \/ at'[e] = "attempt" /\ try[e] = 1 /\ try' = [try EXCEPT ![e] = 2],
           at' = [at EXCEPT ![e] = at'[e]],
           UNCHANGED <<tasks, running, ended>>, UNCHANGED pending
    PROVE  /\ at' \in [Extraction -> Labels] /\ try' \in [Extraction -> Try]
           /\ OnePlace' /\ JobsAreStarted' /\ ReadsAreAwaited'
           /\ ProducersAreOpen' /\ EndedIsStarted' /\ LabelsFit'
  <1> USE DEF IInv
  <1>1. at'[e] \in Labels /\ \A f \in Extraction \ {e} : at'[f] = at[f] /\ try'[f] = try[f]
    BY DEF Labels, TypeOK
  <1>2. /\ try[e] \in Try /\ try'[e] \in Try
        /\ \/ try'[e] = try[e] /\ at'[e] # "attempt"
           \/ try[e] = 1 /\ try'[e] = 2
    BY DEF TypeOK, Try
  <1>3. at' \in [Extraction -> Labels] /\ try' \in [Extraction -> Try]
    BY <1>1, <1>2 DEF TypeOK, Try
  <1>4. Jobs' = Jobs /\ \A j \in Jobs : j \in Job
    BY DEF Jobs, TypeOK, Elems
  <1>5. JobsAreStarted'
    BY <1>1, <1>2, <1>4, JobFields DEF JobsAreStarted, Try
  <1>6. ReadsAreAwaited'
    BY <1>1, <1>4, JobFields DEF ReadsAreAwaited
  <1>7. ProducersAreOpen'
    BY <1>4 DEF ProducersAreOpen
  <1>8. EndedIsStarted'
    BY <1>1, <1>2 DEF EndedIsStarted, Try, TypeOK
  <1>9. LabelsFit'
    BY <1>1, <1>2 DEF LabelsFit
  <1>10. OnePlace'
    BY DEF OnePlace
  <1> QED  BY <1>3, <1>5, <1>6, <1>7, <1>8, <1>9, <1>10

\* A failed attempt ends the extraction, or leads to the second.
LEMMA FailMoves ==
    ASSUME IInv, NEW e \in Extraction, NEW pause \in BOOLEAN, Fail(e, pause)
    PROVE  /\ \/ at'[e] \in {"await", "done"} /\ UNCHANGED try
              \/ at'[e] = "backoff" /\ try[e] = 1 /\ UNCHANGED try
              \/ at'[e] = "attempt" /\ try[e] = 1 /\ try' = [try EXCEPT ![e] = 2]
           /\ at' = [at EXCEPT ![e] = at'[e]] /\ UNCHANGED result
  BY DEF Fail, Goto, IInv, TypeOK, Labels

\* Forwarding a chunk submits the next read; nothing else waits for one.
LEMMA ForwardKeeps == ASSUME IInv, NEW e \in Extraction, Forward(e) PROVE IInv'
  <1> USE DEF IInv
  <1>1. at[e] = "got" /\ UNCHANGED <<hand, tasks, running, queue, sent, ended>>
    BY DEF Forward
  <1>2. CASE Goto(e, "await") /\ UNCHANGED <<try, result, pending, shown>>
    <2>1. at'[e] = "await" /\ at' = [at EXCEPT ![e] = at'[e]]
      BY <1>2 DEF Goto, TypeOK
    <2> QED  BY <1>1, <1>2, <2>1, CoroutineKeeps DEF TypeOK, Labels, TermsAreWhole
  <1>3. CASE /\ hand[e] # Sentinel
             /\ shown' = [shown EXCEPT ![e] = Append(@, <<try[e], hand[e]>>)]
             /\ Goto(e, "get") /\ pending' = Append(pending, GetJob(e))
             /\ UNCHANGED <<try, result>>
    <2>1. PICK j \in Job : j = GetJob(e)
      BY DEF TypeOK, GetJob, Job
    <2>2. at'[e] = "get" /\ \A f \in Extraction \ {e} : at'[f] = at[f]
      BY <1>3 DEF Goto, TypeOK
    <2>3. j.who = e /\ j.does = "get" /\ j.try = try[e]
      BY <2>1 DEF GetJob
    <2>4. \A l \in Jobs : l \in Job
      BY DEF Jobs, TypeOK, Elems
    <2>5. \A l \in Jobs : l.who = e => l.does # "get"
      BY <1>1, <2>4 DEF ReadsAreAwaited
    <2>6. /\ pending' \in Seq(Job) /\ Elems(pending') = Elems(pending) \cup {j}
          /\ Distinct(pending')
      BY <1>3, <2>1, <2>3, <2>5, AppendElems DEF TypeOK, OnePlace, Jobs
    <2>7. Jobs' = Jobs \cup {j}
      BY <1>1, <2>6 DEF Jobs
    <2>8. OnePlace'
      BY <1>1, <2>3, <2>5, <2>6 DEF OnePlace, Jobs
    <2>9. JobsAreStarted' /\ ProducersAreOpen'
      <3>1. try[e] \in 1 .. 2 /\ UNCHANGED <<try, ended>>
        BY <1>1, <1>3 DEF TypeOK, Try
      <3>2. JobsAreStarted'
        BY <2>2, <2>3, <2>4, <2>7, <3>1, JobFields DEF JobsAreStarted
      <3>3. ProducersAreOpen'
        BY <2>3, <2>7, <3>1 DEF ProducersAreOpen
      <3> QED  BY <3>2, <3>3
    <2>10. ReadsAreAwaited'
      BY <1>1, <1>3, <2>2, <2>3, <2>4, <2>5, <2>7, JobFields DEF ReadsAreAwaited, Jobs
    <2>11. TypeOK'
      BY <1>1, <1>3, <2>6 DEF TypeOK, Goto, Labels
    <2>12. EndedIsStarted' /\ LabelsFit' /\ TermsAreWhole'
      BY <1>1, <1>3, <2>2 DEF EndedIsStarted, LabelsFit, TermsAreWhole
    <2> QED  BY <2>8, <2>9, <2>10, <2>11, <2>12
  <1>4. CASE Fail(e, TRUE) /\ UNCHANGED <<pending, shown>>
    BY <1>1, <1>4, FailMoves, CoroutineKeeps DEF TypeOK, TermsAreWhole
  <1> QED  BY <1>2, <1>3, <1>4 DEF Forward

\* Terms are only taken when the answer is whole.
LEMMA AwaitKeeps == ASSUME IInv, NEW e \in Extraction, Await(e) PROVE IInv'
  <1> USE DEF IInv
  <1>1. /\ at[e] = "await"
        /\ UNCHANGED <<hand, tasks, pending, running, queue, sent, ended, shown>>
    BY DEF Await
  <1>2. CASE /\ ended[e][try[e]] = "whole" /\ Goto(e, "done")
             /\ result' = [result EXCEPT ![e] = try[e]] /\ UNCHANGED try
    <2>1. at'[e] = "done" /\ at' = [at EXCEPT ![e] = at'[e]]
      BY <1>2 DEF Goto, TypeOK
    <2>2. result' \in [Extraction -> 0 .. 2] /\ TermsAreWhole'
      BY <1>1, <1>2 DEF TypeOK, Try, TermsAreWhole
    <2> QED  BY <1>1, <1>2, <2>1, <2>2, CoroutineKeeps DEF TypeOK, Labels
  <1>3. ASSUME NEW pause \in BOOLEAN, Fail(e, pause) PROVE IInv'
    <2>1. UNCHANGED result /\ at' = [at EXCEPT ![e] = at'[e]]
      BY <1>3, FailMoves
    <2>2. /\ at' \in [Extraction -> Labels] /\ try' \in [Extraction -> Try]
          /\ OnePlace' /\ JobsAreStarted' /\ ReadsAreAwaited'
          /\ ProducersAreOpen' /\ EndedIsStarted' /\ LabelsFit'
      BY <1>1, <1>3, <2>1, FailMoves, CoroutineKeeps
    <2> QED  BY <1>1, <2>1, <2>2 DEF TypeOK, TermsAreWhole
  <1> QED  BY <1>2, <1>3 DEF Await

LEMMA BackoffKeeps == ASSUME IInv, NEW e \in Extraction, Backoff(e) PROVE IInv'
  <1> USE DEF IInv
  <1>1. /\ at[e] = "backoff" /\ try[e] = 1 /\ try' = [try EXCEPT ![e] = 2]
        /\ at'[e] = "attempt" /\ at' = [at EXCEPT ![e] = at'[e]]
        /\ UNCHANGED <<hand, result, tasks, pending, running, queue, sent, ended, shown>>
    BY DEF Backoff, Goto, LabelsFit, TypeOK
  <1> QED  BY <1>1, CoroutineKeeps DEF TypeOK, TermsAreWhole

\* What a thread puts on a queue is an item.
LEMMA PutTypes ==
    ASSUME TypeOK, NEW j \in Job, NEW item \in Item, Put(j, item)
    PROVE  queue' \in [Extraction -> [Try -> Seq(Item)]]
  BY JobFields DEF Put, TypeOK

LEMMA ProduceKeeps == ASSUME IInv, NEW j \in running, Produce(j) PROVE IInv'
  <1> USE DEF IInv
  <1>1. /\ j \in Job /\ sent' = [sent EXCEPT ![j.who][j.try] = @ + 1]
        /\ UNCHANGED <<at, try, hand, result, tasks, pending, running, ended, shown>>
    BY DEF Produce, TypeOK
  <1>2. sent[j.who][j.try] + 1 \in Item
    BY <1>1, JobFields, PolicyAssumption DEF Produce, TypeOK, Item
  <1>3. TypeOK'
    BY <1>1, <1>2, PutTypes, JobFields DEF Produce, TypeOK
  <1>4. Jobs' = Jobs
    BY <1>1 DEF Jobs
  <1> QED
    BY <1>1, <1>3, <1>4 DEF OnePlace, JobsAreStarted, ReadsAreAwaited, ProducersAreOpen,
       EndedIsStarted, LabelsFit, TermsAreWhole

\* A job that ends leaves its place, and with it all places.
LEMMA LeaveKeeps ==
    ASSUME IInv, NEW j \in running, running' = running \ {j}, UNCHANGED <<tasks, pending>>
    PROVE  j \in Job /\ Jobs' = Jobs \ {j} /\ OnePlace' /\ \A l \in Jobs : l \in Job
  BY DEF IInv, OnePlace, Jobs, TypeOK, Elems

\* An answer ends once: its producer is gone, and it was open.
LEMMA EndKeeps == ASSUME IInv, NEW j \in running, End(j) PROVE IInv'
  <1> USE DEF IInv
  <1>1. /\ j.does = "produce" /\ running' = running \ {j}
        /\ UNCHANGED <<at, try, hand, result, tasks, pending, sent, shown>>
    BY DEF End
  <1>2. j \in Job /\ j \in Jobs /\ Jobs' = Jobs \ {j} /\ OnePlace' /\ \A l \in Jobs : l \in Job
    BY <1>1, LeaveKeeps DEF Jobs
  <1>3. PICK how \in {"whole", "broken"} : ended' = [ended EXCEPT ![j.who][j.try] = how]
    BY DEF End
  <1>4. TypeOK'
    BY <1>1, <1>2, <1>3, PutTypes, JobFields, PolicyAssumption DEF End, TypeOK, Item, Sentinel
  <1>5. ended[j.who][j.try] = "no"
    BY <1>1, <1>2 DEF ProducersAreOpen
  <1>6. \A e \in Extraction, k \in Try :
            e # j.who \/ k # j.try => ended'[e][k] = ended[e][k]
    BY <1>2, <1>3, JobFields DEF TypeOK
  <1>7. ProducersAreOpen'
    <2> SUFFICES ASSUME NEW l \in Jobs \ {j}, l.does = "produce"
                 PROVE  ended'[l.who][l.try] = "no"
      BY <1>2 DEF ProducersAreOpen
    <2> QED  BY <1>1, <1>2, <1>6, JobFields DEF ProducersAreOpen
  <1>8. JobsAreStarted' /\ ReadsAreAwaited' /\ LabelsFit'
    BY <1>1, <1>2 DEF JobsAreStarted, ReadsAreAwaited, LabelsFit
  <1>9. EndedIsStarted'
    BY <1>1, <1>2, <1>6, JobFields DEF EndedIsStarted, JobsAreStarted
  <1>10. TermsAreWhole'
    <2> SUFFICES ASSUME NEW e \in Extraction, result[e] # 0
                 PROVE  ended'[e][result[e]] = "whole"
      BY <1>1 DEF TermsAreWhole
    <2>1. result[e] \in Try /\ ended[e][result[e]] = "whole"
      BY DEF TermsAreWhole, TypeOK, Try
    <2> QED  BY <2>1, <1>5, <1>6
  <1> QED  BY <1>2, <1>4, <1>7, <1>8, <1>9, <1>10

\* A read that returns was the only one of its coroutine.
LEMMA GetKeeps == ASSUME IInv, NEW j \in running, Get(j) PROVE IInv'
  <1> USE DEF IInv
  <1>1. /\ j.does = "get" /\ running' = running \ {j} /\ at' = [at EXCEPT ![j.who] = "got"]
        /\ UNCHANGED <<try, result, tasks, pending, sent, ended, shown>>
    BY DEF Get, Goto
  <1>2. j \in Job /\ j \in Jobs /\ Jobs' = Jobs \ {j} /\ OnePlace' /\ \A l \in Jobs : l \in Job
    BY <1>1, LeaveKeeps DEF Jobs
  <1>3. at[j.who] = "get" /\ j.try = try[j.who]
    BY <1>1, <1>2 DEF ReadsAreAwaited
  <1>4. /\ at'[j.who] = "got" /\ \A e \in Extraction \ {j.who} : at'[e] = at[e]
    BY <1>1, <1>2, JobFields DEF TypeOK
  <1>5. /\ hand' \in [Extraction -> Item]
        /\ queue' \in [Extraction -> [Try -> Seq(Item)]]
    <2>1. queue[j.who][j.try] \in Seq(Item) /\ queue[j.who][j.try] # <<>>
      BY <1>2, JobFields DEF Get, TypeOK
    <2>2. Head(queue[j.who][j.try]) \in Item /\ Tail(queue[j.who][j.try]) \in Seq(Item)
      BY <2>1
    <2> QED  BY <1>2, <2>2, JobFields DEF Get, TypeOK
  <1>6. TypeOK'
    BY <1>1, <1>2, <1>5 DEF TypeOK, Labels
  <1>7. ReadsAreAwaited'
    BY <1>1, <1>2, <1>3, <1>4, JobFields DEF ReadsAreAwaited
  <1>8. JobsAreStarted' /\ ProducersAreOpen' /\ EndedIsStarted' /\ LabelsFit'
    BY <1>1, <1>2, <1>3, <1>4, JobFields
       DEF JobsAreStarted, ProducersAreOpen, EndedIsStarted, LabelsFit
  <1> QED  BY <1>1, <1>2, <1>6, <1>7, <1>8 DEF TermsAreWhole

\* Every step keeps the invariant.
LEMMA PolicyStep == ASSUME IInv, [Next]_vars PROVE IInv'
  <1>1. CASE UNCHANGED vars
    BY <1>1 DEF vars, IInv, TypeOK, OnePlace, JobsAreStarted, ReadsAreAwaited,
       ProducersAreOpen, EndedIsStarted, LabelsFit, TermsAreWhole, Jobs
  <1>2. ASSUME NEW e \in Extraction, Coroutine(e) PROVE IInv'
    BY <1>2, AttemptKeeps, ForwardKeeps, AwaitKeeps, BackoffKeeps DEF Coroutine
  <1>3. ASSUME NEW j \in tasks, SubmitProducer(j) PROVE IInv'
    BY <1>3, SubmitKeeps
  <1>4. CASE StartJob
    BY <1>4, StartKeeps
  <1>5. ASSUME NEW j \in running, Thread(j) PROVE IInv'
    BY <1>5, ProduceKeeps, EndKeeps, GetKeeps DEF Thread
  <1> QED  BY <1>1, <1>2, <1>3, <1>4, <1>5 DEF Next

LEMMA Invariance == Spec => []IInv
  <1>1. Init => IInv
    BY PolicyInit
  <1>2. IInv /\ [Next]_vars => IInv'
    BY PolicyStep
  <1> QED  BY <1>1, <1>2, PTL DEF Spec

-----------------------------------------------------------------------------

\* The variables keep their types, whatever fails.
THEOREM PolicyTypes == Spec => []TypeOK
  <1>1. IInv => TypeOK
    BY DEF IInv
  <1> QED  BY <1>1, Invariance, PTL

\* Terms come from an answer that was whole (extract_policy_terms() awaits its
\* producer): for any number of chunks and whatever fails.
THEOREM TermsWhole == Spec => []TermsAreWhole
  <1>1. IInv => TermsAreWhole
    BY DEF IInv
  <1> QED  BY <1>1, Invariance, PTL

-----------------------------------------------------------------------------
(* What the panel shows *)

\* The chunks of an attempt still on its queue, the sentinel not counted, and
\* those that were taken off.
Left(e, k) ==
    IF ended[e][k] = "no" \/ queue[e][k] = <<>> THEN Len(queue[e][k]) ELSE Len(queue[e][k]) - 1
Taken(e, k) == sent[e][k] - Left(e, k)
AllRead(e, k) == queue[e][k] = <<>> /\ ended[e][k] # "no"

\* A queue holds the rest of its attempt's chunks, in order, then the sentinel.
QueueIsTheRest ==
    \A e \in Live, k \in Try :
        /\ Left(e, k) <= sent[e][k]
        /\ \A i \in 1 .. Len(queue[e][k]) :
              queue[e][k][i] = IF i <= Left(e, k) THEN Taken(e, k) + i ELSE Sentinel

NotStarted ==
    \A e \in Live, k \in Try : k > try[e] \/ (at[e] = "attempt" /\ k = try[e]) =>
        sent[e][k] = 0 /\ queue[e][k] = <<>>

ResultIsLast == \A e \in Extraction : result[e] # 0 => at[e] = "done"

\* p chunks of the current attempt are forwarded: all that were taken, but for
\* the one in hand; the attempt is awaited when nothing of it is left.
Reading(e, p) ==
    /\ at[e] \in {"attempt", "get", "await"} => p = Taken(e, try[e])
    /\ at[e] = "await" => AllRead(e, try[e])
    /\ at[e] = "got" /\ hand[e] = Sentinel => p = Taken(e, try[e]) /\ AllRead(e, try[e])
    /\ at[e] = "got" /\ hand[e] # Sentinel => hand[e] = Taken(e, try[e]) /\ p = hand[e] - 1

ShownSoFar(e, m, n) ==
    /\ m \in 0 .. sent[e][1] /\ n \in 0 .. sent[e][2]
    /\ shown[e] = ChunksOf(1, m) \o ChunksOf(2, n)
    /\ try[e] = 1 => n = 0 /\ Reading(e, m)
    /\ try[e] = 2 => Reading(e, n)
    /\ result[e] = 1 => m = sent[e][1]
    /\ result[e] = 2 => n = sent[e][2]

Shows == \A e \in Live : \E m, n \in Nat : ShownSoFar(e, m, n)

StreamInv == IInv /\ QueueIsTheRest /\ NotStarted /\ ResultIsLast /\ Shows

\* The next chunk goes at the end of what is shown.
LEMMA ChunksAppend ==
    ASSUME NEW m \in Nat, NEW n \in Nat
    PROVE  /\ Append(ChunksOf(1, m) \o ChunksOf(2, 0), <<1, m + 1>>)
                 = ChunksOf(1, m + 1) \o ChunksOf(2, 0)
           /\ Append(ChunksOf(1, m) \o ChunksOf(2, n), <<2, n + 1>>)
                 = ChunksOf(1, m) \o ChunksOf(2, n + 1)
  <1> DEFINE S == Nat \X Nat
  <1>1. ASSUME NEW k \in Nat, NEW l \in Nat
        PROVE  /\ ChunksOf(k, l) \in Seq(S) /\ Len(ChunksOf(k, l)) = l
               /\ \A i \in 1 .. l : ChunksOf(k, l)[i] = <<k, i>>
    BY DEF ChunksOf
  <1>2. \A x \in Nat, y \in Nat : <<x, y>> \in S
    OBVIOUS
  <1> HIDE DEF S
  <1>3. ASSUME NEW s \in Seq(S), NEW t \in Seq(S), Len(s) = Len(t),
               \A i \in 1 .. Len(s) : s[i] = t[i]
        PROVE  s = t
    BY <1>3, SeqEqual
  <1>4. ASSUME NEW k \in Nat, NEW l \in Nat
        PROVE  Append(ChunksOf(k, l), <<k, l + 1>>) = ChunksOf(k, l + 1)
    <2> DEFINE s == ChunksOf(k, l)  t == ChunksOf(k, l + 1)
    <2>1. s \in Seq(S) /\ Len(s) = l /\ \A i \in 1 .. l : s[i] = <<k, i>>
      BY <1>1
    <2>2. t \in Seq(S) /\ Len(t) = l + 1 /\ \A i \in 1 .. l + 1 : t[i] = <<k, i>>
      BY <1>1
    <2>3. <<k, l + 1>> \in S
      BY <1>2
    <2> HIDE DEF s, t
    <2>4. /\ Append(s, <<k, l + 1>>) \in Seq(S) /\ Len(Append(s, <<k, l + 1>>)) = Len(t)
          /\ \A i \in 1 .. Len(t) : Append(s, <<k, l + 1>>)[i] = t[i]
      <3>1. /\ Append(s, <<k, l + 1>>) \in Seq(S) /\ Len(Append(s, <<k, l + 1>>)) = l + 1
            /\ Append(s, <<k, l + 1>>)[l + 1] = <<k, l + 1>>
            /\ \A i \in 1 .. l : Append(s, <<k, l + 1>>)[i] = s[i]
        BY <2>1, <2>3
      <3>2. \A i \in 1 .. l + 1 : i = l + 1 \/ i \in 1 .. l
        OBVIOUS
      <3> QED  BY <3>1, <3>2, <2>1, <2>2
    <2>5. Append(s, <<k, l + 1>>) = t
      BY <2>2, <2>4, <1>3
    <2> QED  BY <2>5 DEF s, t
  <1>5. \A s \in Seq(S), t \in Seq(S), x \in S : Append(s \o t, x) = s \o Append(t, x)
    OBVIOUS
  <1>6. \A s \in Seq(S) : s \o <<>> = s
    OBVIOUS
  <1>7. ASSUME NEW k \in Nat PROVE ChunksOf(k, 0) = <<>>
    BY <1>1
  <1>8. 0 \in Nat /\ 1 \in Nat /\ 2 \in Nat
    OBVIOUS
  <1>9. ASSUME NEW k \in Nat, NEW o \in Nat
        PROVE  /\ Append(ChunksOf(k, m) \o ChunksOf(o, 0), <<k, m + 1>>)
                     = ChunksOf(k, m + 1) \o ChunksOf(o, 0)
               /\ Append(ChunksOf(k, m) \o ChunksOf(o, n), <<o, n + 1>>)
                     = ChunksOf(k, m) \o ChunksOf(o, n + 1)
    <2>1. ChunksOf(k, m) \in Seq(S) /\ ChunksOf(k, m + 1) \in Seq(S) /\ ChunksOf(o, n) \in Seq(S)
          /\ <<o, n + 1>> \in S
      BY <1>1, <1>2
    <2>2. ChunksOf(o, 0) = <<>>
      BY <1>7
    <2>3. Append(ChunksOf(k, m), <<k, m + 1>>) = ChunksOf(k, m + 1)
          /\ Append(ChunksOf(o, n), <<o, n + 1>>) = ChunksOf(o, n + 1)
      BY <1>4
    <2> QED  BY <2>1, <2>2, <2>3, <1>5, <1>6
  <1> QED  BY <1>8, <1>9, Zenon

\* The queue, the chunks and the end of an attempt decide what is left of it.
LEMMA SameQueue ==
    ASSUME NEW e, NEW k, queue'[e][k] = queue[e][k], sent'[e][k] = sent[e][k],
           ended'[e][k] = ended[e][k]
    PROVE  /\ Left(e, k)' = Left(e, k) /\ Taken(e, k)' = Taken(e, k)
           /\ AllRead(e, k)' = AllRead(e, k)
  BY DEF Left, Taken, AllRead

LEMMA QueueTypes ==
    ASSUME IInv
    PROVE  \A e \in Extraction, k \in Try :
              /\ queue[e][k] \in Seq(Item) /\ sent[e][k] \in Nat /\ sent[e][k] \in Item
              /\ Left(e, k) \in Int /\ Left(e, k) >= 0 /\ Taken(e, k) \in Int
  BY PolicyAssumption DEF IInv, TypeOK, Item, Left, Taken

\* A step that leaves an extraction's queues and coroutine alone.
LEMMA OthersShow ==
    ASSUME NEW e \in Live, NEW m \in Nat, NEW n \in Nat, ShownSoFar(e, m, n), try[e] \in Try,
           at'[e] = at[e], try'[e] = try[e], hand'[e] = hand[e], result'[e] = result[e],
           shown'[e] = shown[e], queue'[e] = queue[e], sent'[e] = sent[e], ended'[e] = ended[e]
    PROVE  ShownSoFar(e, m, n)'
  BY DEF ShownSoFar, Reading, Taken, Left, AllRead

\* It is enough to look at the extraction that takes the step.
LEMMA ShowsStep ==
    ASSUME StreamInv, NEW e \in Extraction,
           \A f \in Extraction \ {e} :
              /\ at'[f] = at[f] /\ try'[f] = try[f] /\ hand'[f] = hand[f]
              /\ result'[f] = result[f] /\ shown'[f] = shown[f]
              /\ queue'[f] = queue[f] /\ sent'[f] = sent[f] /\ ended'[f] = ended[f],
           ASSUME NEW m \in Nat, NEW n \in Nat, e \in Live, ShownSoFar(e, m, n)
           PROVE  \E k, l \in Nat : ShownSoFar(e, k, l)'
    PROVE  Shows'
  <1> SUFFICES ASSUME NEW f \in Live PROVE \E m, n \in Nat : ShownSoFar(f, m, n)'
    BY DEF Shows
  <1>1. PICK m \in Nat, n \in Nat : ShownSoFar(f, m, n)
    BY DEF StreamInv, Shows
  <1>2. CASE f = e
    BY <1>1, <1>2
  <1>3. CASE f # e
    <2>1. f \in Extraction /\ try[f] \in Try
      BY PolicyAssumption DEF StreamInv, IInv, TypeOK
    <2>2. ShownSoFar(f, m, n)'
      BY <1>1, <1>3, <2>1, OthersShow
    <2> QED  BY <2>2
  <1> QED  BY <1>2, <1>3

\* A step of an extraction that touches no queue.
LEMMA QueuesStay ==
    ASSUME StreamInv, UNCHANGED <<queue, sent, ended>>
    PROVE  /\ QueueIsTheRest'
           /\ \A e \in Extraction, k \in Try :
                 /\ Left(e, k)' = Left(e, k) /\ Taken(e, k)' = Taken(e, k)
                 /\ AllRead(e, k)' = AllRead(e, k)
  BY DEF StreamInv, QueueIsTheRest, Left, Taken, AllRead

LEMMA AttemptShows == ASSUME StreamInv, NEW e \in Extraction, Attempt(e) PROVE StreamInv'
  <1>1. IInv'
    BY AttemptKeeps DEF StreamInv
  <1>2. UNCHANGED <<try, hand, result, queue, sent, ended, shown>>
    BY DEF Attempt
  <1>3. /\ at[e] = "attempt" /\ at'[e] \in {"get", "await"}
        /\ (e \in Live => at'[e] = "get") /\ \A f \in Extraction \ {e} : at'[f] = at[f]
    BY DEF Attempt, Goto, StreamInv, IInv, TypeOK
  <1>4. QueueIsTheRest'
    BY <1>2, QueuesStay
  <1>5. NotStarted' /\ ResultIsLast'
    <2>1. \A f \in Extraction : at'[f] = "attempt" => at[f] = "attempt"
      BY <1>3
    <2>2. NotStarted'
      BY <1>2, <2>1, PolicyAssumption DEF StreamInv, NotStarted
    <2>3. ResultIsLast'
      BY <1>2, <1>3 DEF StreamInv, ResultIsLast
    <2> QED  BY <2>2, <2>3
  <1>6. ASSUME NEW m \in Nat, NEW n \in Nat, e \in Live, ShownSoFar(e, m, n)
        PROVE  ShownSoFar(e, m, n)'
    <2>1. try[e] \in Try /\ Taken(e, try[e])' = Taken(e, try[e])
      BY <1>2, QueuesStay DEF StreamInv, IInv, TypeOK, Taken, Left
    <2>2. Reading(e, m) => Reading(e, m)'
      BY <1>2, <1>3, <1>6, <2>1 DEF Reading
    <2>3. Reading(e, n) => Reading(e, n)'
      BY <1>2, <1>3, <1>6, <2>1 DEF Reading
    <2> QED  BY <1>2, <1>6, <2>2, <2>3 DEF ShownSoFar
  <1>7. Shows'
    BY <1>2, <1>3, <1>6, ShowsStep
  <1> QED  BY <1>1, <1>4, <1>5, <1>7 DEF StreamInv

\* A step that live extractions do not see: a job moves between the tasks, the
\* executor's queue and the threads, or belongs to one that is not live.
LEMMA LiveStays ==
    ASSUME StreamInv, IInv', UNCHANGED <<at, try, hand, result, shown>>,
           \A e \in Live : queue'[e] = queue[e] /\ sent'[e] = sent[e] /\ ended'[e] = ended[e]
    PROVE  StreamInv'
  <1>1. QueueIsTheRest'
    BY DEF StreamInv, QueueIsTheRest, Left, Taken
  <1>2. NotStarted' /\ ResultIsLast'
    BY DEF StreamInv, NotStarted, ResultIsLast
  <1>3. Shows'
    <2> SUFFICES ASSUME NEW e \in Live PROVE \E m, n \in Nat : ShownSoFar(e, m, n)'
      BY DEF Shows
    <2>1. PICK m \in Nat, n \in Nat : ShownSoFar(e, m, n)
      BY DEF StreamInv, Shows
    <2>2. try[e] \in Try
      BY PolicyAssumption DEF StreamInv, IInv, TypeOK
    <2>3. ShownSoFar(e, m, n)'
      BY <2>1, <2>2, OthersShow
    <2> QED  BY <2>3
  <1> QED  BY <1>1, <1>2, <1>3 DEF StreamInv

\* A failed attempt, or the pause after the first, leaves what is shown as it is:
\* the second attempt starts with nothing taken.
LEMMA FailShows ==
    ASSUME StreamInv, IInv', NEW e \in Extraction,
           at[e] \in {"got", "await", "backoff"}, at' = [at EXCEPT ![e] = at'[e]],
           \/ at'[e] = "done" /\ UNCHANGED try
           \/ at'[e] = "backoff" /\ try[e] = 1 /\ UNCHANGED try
           \/ at'[e] = "attempt" /\ try[e] = 1 /\ try' = [try EXCEPT ![e] = 2],
           UNCHANGED <<hand, result, queue, sent, ended, shown>>
    PROVE  StreamInv'
  <1>1. /\ at \in [Extraction -> Labels] /\ try[e] \in Try
        /\ \A f \in Extraction \ {e} : at'[f] = at[f] /\ try'[f] = try[f]
    BY DEF StreamInv, IInv, TypeOK
  <1>2. QueueIsTheRest'
    BY QueuesStay
  <1>3. try'[e] = try[e] \/ (try[e] = 1 /\ try'[e] = 2)
    BY <1>1 DEF StreamInv, IInv, TypeOK
  <1>4. NotStarted'
    <2> SUFFICES ASSUME NEW f \in Live, NEW k \in Try,
                        k > try'[f] \/ (at'[f] = "attempt" /\ k = try'[f])
                 PROVE  sent[f][k] = 0 /\ queue[f][k] = <<>>
      BY DEF NotStarted
    <2>1. f \in Extraction /\ try[f] \in Try
      BY PolicyAssumption DEF StreamInv, IInv, TypeOK
    <2>2. k > try[f] \/ (at[f] = "attempt" /\ k = try[f])
      <3>1. CASE f # e
        BY <1>1, <2>1, <3>1
      <3>2. CASE f = e /\ at'[e] \in {"done", "backoff"} /\ UNCHANGED try
        BY <3>2
      <3>3. CASE f = e /\ at'[e] = "attempt" /\ try[e] = 1 /\ try'[e] = 2
        BY <3>3, <2>1 DEF Try
      <3> QED  BY <3>1, <3>2, <3>3, <1>1 DEF StreamInv, IInv, TypeOK
    <2> QED  BY <2>2 DEF StreamInv, NotStarted
  <1>5. ResultIsLast'
    BY <1>1 DEF StreamInv, ResultIsLast
  <1>6. ASSUME NEW m \in Nat, NEW n \in Nat, e \in Live, ShownSoFar(e, m, n)
        PROVE  ShownSoFar(e, m, n)'
    <2>1. CASE at'[e] \in {"done", "backoff"} /\ UNCHANGED try
      BY <1>6, <2>1 DEF ShownSoFar, Reading
    <2>2. CASE at'[e] = "attempt" /\ try[e] = 1 /\ try'[e] = 2
      <3>1. PICK k \in Try : k = try'[e] /\ k > try[e]
        BY <2>2 DEF Try
      <3>2. n = 0 /\ sent[e][k] = 0 /\ queue[e][k] = <<>>
        BY <1>6, <2>2, <3>1 DEF ShownSoFar, StreamInv, NotStarted
      <3>3. Taken(e, k) = 0
        <4>1. Len(queue[e][k]) = 0
          BY <3>2
        <4>2. Left(e, k) = Len(queue[e][k])
          BY <3>2 DEF Left
        <4> QED  BY <3>2, <4>1, <4>2 DEF Taken
      <3>4. Taken(e, k)' = 0
        BY <3>3, QueuesStay, <1>1, <3>1
      <3>5. Taken(e, try[e])' = Taken(e, k)'
        BY <3>1 DEF Taken, Left
      <3>6. Reading(e, n)'
        BY <2>2, <3>2, <3>4, <3>5 DEF Reading
      <3> QED  BY <1>6, <2>2, <3>2, <3>6 DEF ShownSoFar
    <2> QED  BY <2>1, <2>2, <1>1 DEF StreamInv, IInv, TypeOK
  <1>7. Shows'
    BY <1>1, <1>6, ShowsStep
  <1> QED  BY <1>2, <1>4, <1>5, <1>7 DEF StreamInv

\* A chunk is forwarded next to those before it, and only then is the next read.
LEMMA ForwardShows == ASSUME StreamInv, NEW e \in Extraction, Forward(e) PROVE StreamInv'
  <1>1. IInv' /\ at[e] = "got" /\ UNCHANGED <<hand, tasks, running, queue, sent, ended>>
    BY ForwardKeeps DEF Forward, StreamInv
  <1>2. /\ at \in [Extraction -> Labels] /\ try[e] \in Try /\ result[e] = 0
        /\ e \in Live /\ hand[e] \in Nat
    BY <1>1, PolicyAssumption
       DEF StreamInv, IInv, TypeOK, LabelsFit, ResultIsLast, Item
  <1>3. QueueIsTheRest' /\ Taken(e, try[e]) <= sent[e][try[e]]
    BY <1>1, <1>2, QueuesStay, QueueTypes DEF StreamInv, Taken
  <1>4. CASE Goto(e, "await") /\ hand[e] = Sentinel /\ UNCHANGED <<try, result, pending, shown>>
    <2>1. at'[e] = "await" /\ \A f \in Extraction \ {e} : at'[f] = at[f]
      BY <1>2, <1>4 DEF Goto
    <2>2. NotStarted'
      <3>1. \A f \in Extraction : at'[f] = "attempt" => at[f] = "attempt"
        BY <2>1
      <3> QED  BY <1>1, <1>4, <3>1, PolicyAssumption DEF StreamInv, NotStarted
    <2>3. ResultIsLast'
      BY <1>2, <1>4, <2>1 DEF StreamInv, ResultIsLast
    <2>4. ASSUME NEW m \in Nat, NEW n \in Nat, ShownSoFar(e, m, n)
          PROVE  ShownSoFar(e, m, n)'
      <3>1. /\ Taken(e, try[e])' = Taken(e, try[e]) /\ AllRead(e, try[e])' = AllRead(e, try[e])
        BY <1>1, <1>4 DEF Taken, Left, AllRead
      <3>2. Reading(e, m) => Reading(e, m)'
        BY <1>1, <1>4, <2>1, <3>1 DEF Reading
      <3>3. Reading(e, n) => Reading(e, n)'
        BY <1>1, <1>4, <2>1, <3>1 DEF Reading
      <3> QED  BY <1>1, <1>4, <2>4, <3>2, <3>3 DEF ShownSoFar
    <2>5. Shows'
      BY <1>1, <1>4, <2>1, <2>4, ShowsStep
    <2> QED  BY <1>1, <1>3, <2>2, <2>3, <2>5 DEF StreamInv
  <1>5. CASE /\ hand[e] # Sentinel /\ Goto(e, "get") /\ UNCHANGED <<try, result>>
             /\ shown' = [shown EXCEPT ![e] = Append(@, <<try[e], hand[e]>>)]
    <2>1. /\ at'[e] = "get" /\ \A f \in Extraction \ {e} : at'[f] = at[f] /\ shown'[f] = shown[f]
          /\ shown'[e] = Append(shown[e], <<try[e], hand[e]>>)
      BY <1>2, <1>5 DEF Goto, StreamInv, IInv, TypeOK
    <2>2. NotStarted'
      <3>1. \A f \in Extraction : at'[f] = "attempt" => at[f] = "attempt"
        BY <2>1
      <3> QED  BY <1>1, <1>5, <3>1, PolicyAssumption DEF StreamInv, NotStarted
    <2>3. ResultIsLast'
      BY <1>2, <1>5, <2>1 DEF StreamInv, ResultIsLast
    <2>4. Taken(e, try[e])' = Taken(e, try[e])
      BY <1>1, <1>5 DEF Taken, Left
    <2>5. ASSUME NEW m \in Nat, NEW n \in Nat, ShownSoFar(e, m, n)
          PROVE  \E k, l \in Nat : ShownSoFar(e, k, l)'
      <3>1. CASE try[e] = 1
        <4>1. n = 0 /\ hand[e] = m + 1 /\ hand[e] = Taken(e, try[e])
          BY <1>1, <1>2, <1>5, <2>5, <3>1 DEF ShownSoFar, Reading
        <4>2. shown'[e] = ChunksOf(1, m + 1) \o ChunksOf(2, n)
          BY <2>1, <2>5, <3>1, <4>1, ChunksAppend, Zenon DEF ShownSoFar
        <4>3. Reading(e, m + 1)'
          BY <1>5, <2>1, <2>4, <4>1 DEF Reading
        <4>4. m + 1 \in 0 .. sent'[e][1]
          BY <1>1, <1>3, <3>1, <4>1, QueueTypes, <1>2 DEF StreamInv, Try
        <4>5. ShownSoFar(e, m + 1, n)'
          <5>1. n \in 0 .. sent'[e][2] /\ try'[e] = 1 /\ result'[e] = 0
            BY <1>1, <1>2, <1>5, <2>5, <3>1 DEF ShownSoFar
          <5> QED  BY <4>1, <4>2, <4>3, <4>4, <5>1 DEF ShownSoFar
        <4> QED  BY <4>5
      <3>2. CASE try[e] = 2
        <4>1. hand[e] = n + 1 /\ hand[e] = Taken(e, try[e])
          BY <1>1, <1>2, <1>5, <2>5, <3>2 DEF ShownSoFar, Reading
        <4>2. shown'[e] = ChunksOf(1, m) \o ChunksOf(2, n + 1)
          BY <2>1, <2>5, <3>2, <4>1, ChunksAppend, Zenon DEF ShownSoFar
        <4>3. Reading(e, n + 1)'
          BY <1>5, <2>1, <2>4, <4>1 DEF Reading
        <4>4. n + 1 \in 0 .. sent'[e][2]
          BY <1>1, <1>3, <3>2, <4>1, QueueTypes, <1>2 DEF StreamInv, Try
        <4>5. ShownSoFar(e, m, n + 1)'
          <5>1. m \in 0 .. sent'[e][1] /\ try'[e] = 2 /\ result'[e] = 0
            BY <1>1, <1>2, <1>5, <2>5, <3>2 DEF ShownSoFar
          <5> QED  BY <4>2, <4>3, <4>4, <5>1 DEF ShownSoFar
        <4> QED  BY <4>5
      <3> QED  BY <1>2, <3>1, <3>2 DEF Try
    <2>6. Shows'
      BY <1>1, <1>5, <2>1, <2>5, ShowsStep
    <2> QED  BY <1>1, <1>3, <2>2, <2>3, <2>6 DEF StreamInv
  <1>6. CASE Fail(e, TRUE) /\ UNCHANGED shown
    <2>1. /\ \/ at'[e] = "done" /\ UNCHANGED try
             \/ at'[e] = "backoff" /\ try[e] = 1 /\ UNCHANGED try
             \/ at'[e] = "attempt" /\ try[e] = 1 /\ try' = [try EXCEPT ![e] = 2]
          /\ at' = [at EXCEPT ![e] = at'[e]] /\ UNCHANGED result
      BY <1>2, <1>6 DEF Fail, Goto
    <2> QED  BY <1>1, <1>6, <2>1, FailShows
  <1> QED  BY <1>4, <1>5, <1>6 DEF Forward

\* The answer that is used was read to its end.
LEMMA AwaitShows == ASSUME StreamInv, NEW e \in Extraction, Await(e) PROVE StreamInv'
  <1>1. IInv' /\ at[e] = "await" /\ UNCHANGED <<hand, queue, sent, ended, shown>>
    BY AwaitKeeps DEF Await, StreamInv
  <1>2. at \in [Extraction -> Labels] /\ try[e] \in Try /\ result \in [Extraction -> 0 .. 2]
    BY DEF StreamInv, IInv, TypeOK
  <1>3. CASE Goto(e, "done") /\ result' = [result EXCEPT ![e] = try[e]] /\ UNCHANGED try
    <2>1. /\ at'[e] = "done" /\ result'[e] = try[e]
          /\ \A f \in Extraction \ {e} : at'[f] = at[f] /\ result'[f] = result[f]
      BY <1>2, <1>3 DEF Goto
    <2>2. QueueIsTheRest'
      BY <1>1, QueuesStay
    <2>3. NotStarted'
      <3>1. \A f \in Extraction : at'[f] = "attempt" => at[f] = "attempt"
        BY <2>1
      <3> QED  BY <1>1, <1>3, <3>1, PolicyAssumption DEF StreamInv, NotStarted
    <2>4. ResultIsLast'
      BY <1>2, <1>3, <2>1 DEF StreamInv, ResultIsLast
    <2>5. ASSUME NEW m \in Nat, NEW n \in Nat, e \in Live, ShownSoFar(e, m, n)
          PROVE  ShownSoFar(e, m, n)'
      <3>1. AllRead(e, try[e]) => Taken(e, try[e]) = sent[e][try[e]]
        <4> SUFFICES ASSUME AllRead(e, try[e]) PROVE Taken(e, try[e]) = sent[e][try[e]]
          OBVIOUS
        <4>1. Left(e, try[e]) = Len(queue[e][try[e]]) /\ Len(queue[e][try[e]]) = 0
          BY DEF AllRead, Left
        <4> QED  BY <1>2, <4>1, QueueTypes DEF StreamInv, Taken
      <3>2. Reading(e, m)' /\ Reading(e, n)'
        BY <2>1 DEF Reading
      <3>3. try[e] = 1 => m = sent[e][1]
        BY <1>1, <2>5, <3>1 DEF ShownSoFar, Reading
      <3>4. try[e] = 2 => n = sent[e][2]
        BY <1>1, <2>5, <3>1 DEF ShownSoFar, Reading
      <3> QED  BY <1>1, <1>3, <2>1, <2>5, <3>2, <3>3, <3>4 DEF ShownSoFar
    <2>6. Shows'
      BY <1>1, <1>3, <2>1, <2>5, ShowsStep
    <2> QED  BY <1>1, <2>2, <2>3, <2>4, <2>6 DEF StreamInv
  <1>4. ASSUME NEW pause \in BOOLEAN, Fail(e, pause) PROVE StreamInv'
    <2>1. /\ \/ at'[e] = "done" /\ UNCHANGED try
             \/ at'[e] = "backoff" /\ try[e] = 1 /\ UNCHANGED try
             \/ at'[e] = "attempt" /\ try[e] = 1 /\ try' = [try EXCEPT ![e] = 2]
          /\ at' = [at EXCEPT ![e] = at'[e]] /\ UNCHANGED result
      BY <1>2, <1>4 DEF Fail, Goto
    <2> QED  BY <1>1, <2>1, FailShows
  <1> QED  BY <1>3, <1>4 DEF Await

LEMMA BackoffShows == ASSUME StreamInv, NEW e \in Extraction, Backoff(e) PROVE StreamInv'
  <1>1. /\ at[e] = "backoff" /\ try[e] = 1 /\ try' = [try EXCEPT ![e] = 2]
        /\ at'[e] = "attempt" /\ at' = [at EXCEPT ![e] = at'[e]]
        /\ UNCHANGED <<hand, result, queue, sent, ended, shown>>
    BY DEF Backoff, Goto, StreamInv, IInv, LabelsFit, TypeOK
  <1> QED  BY <1>1, BackoffKeeps, FailShows DEF StreamInv

\* A producer that runs has an attempt that was started and is not over.
LEMMA ProducerIsOpen ==
    ASSUME StreamInv, NEW j \in running, j.does = "produce"
    PROVE  /\ j \in Job /\ j.who \in Extraction /\ j.try \in Try
           /\ ended[j.who][j.try] = "no" /\ ~AllRead(j.who, j.try) /\ result[j.who] # j.try
           /\ j.try <= try[j.who] /\ (at[j.who] = "attempt" => j.try < try[j.who])
  <1>1. j \in Jobs /\ j \in Job /\ j.who \in Extraction /\ j.try \in Try
    BY JobFields DEF Jobs, StreamInv, IInv, TypeOK
  <1>2. ended[j.who][j.try] = "no"
    BY <1>1 DEF StreamInv, IInv, ProducersAreOpen
  <1>3. result[j.who] # j.try
    BY <1>1, <1>2 DEF StreamInv, IInv, TermsAreWhole, Try
  <1> QED  BY <1>1, <1>2, <1>3 DEF StreamInv, IInv, JobsAreStarted, AllRead

\* What a producer puts on its queue, a chunk or the sentinel, goes behind the
\* rest of its attempt: nothing is taken, and no attempt is read to its end by it.
LEMMA PutShows ==
    ASSUME StreamInv, IInv', NEW j \in running, j.does = "produce", j.who \in Live,
           NEW item, queue' = [queue EXCEPT ![j.who][j.try] = Append(@, item)],
           UNCHANGED <<at, try, hand, result, shown>>,
           \/ /\ sent' = [sent EXCEPT ![j.who][j.try] = @ + 1] /\ UNCHANGED ended
              /\ item = sent[j.who][j.try] + 1
           \/ /\ UNCHANGED sent /\ item = Sentinel
              /\ \E how \in {"whole", "broken"} :
                    ended' = [ended EXCEPT ![j.who][j.try] = how]
    PROVE  StreamInv'
  <1>1. /\ j \in Job /\ j.who \in Extraction /\ j.try \in Try
        /\ ended[j.who][j.try] = "no" /\ ~AllRead(j.who, j.try) /\ result[j.who] # j.try
        /\ j.try <= try[j.who] /\ (at[j.who] = "attempt" => j.try < try[j.who])
    BY ProducerIsOpen
  <1>2. PICK e \in Live, k \in Try : e = j.who /\ k = j.try
    BY <1>1
  <1>3. /\ queue[e][k] \in Seq(Item) /\ sent[e][k] \in Nat /\ e \in Extraction
        /\ Left(e, k) = Len(queue[e][k]) /\ Taken(e, k) = sent[e][k] - Len(queue[e][k])
        /\ Len(queue[e][k]) <= sent[e][k]
    <2>1. Left(e, k) = Len(queue[e][k])
      BY <1>1, <1>2 DEF Left
    <2> QED  BY <1>1, <1>2, <2>1, QueueTypes DEF StreamInv, QueueIsTheRest, Taken
  <1>4. /\ queue'[e][k] = Append(queue[e][k], item)
        /\ \A f \in Extraction, l \in Try : f # e \/ l # k =>
              queue'[f][l] = queue[f][l] /\ sent'[f][l] = sent[f][l] /\ ended'[f][l] = ended[f][l]
        /\ \A f \in Extraction \ {e} :
              queue'[f] = queue[f] /\ sent'[f] = sent[f] /\ ended'[f] = ended[f]
        /\ sent'[e][k] \in {sent[e][k], sent[e][k] + 1}
    <2>1. /\ queue \in [Extraction -> [Try -> Seq(Item)]] /\ sent \in [Extraction -> [Try -> Item]]
          /\ ended \in [Extraction -> [Try -> {"no", "whole", "broken"}]]
      BY DEF StreamInv, IInv, TypeOK
    <2>2. /\ queue'[e][k] = Append(queue[e][k], item)
          /\ \A f \in Extraction, l \in Try : f # e \/ l # k => queue'[f][l] = queue[f][l]
          /\ \A f \in Extraction \ {e} : queue'[f] = queue[f]
      BY <1>2, <1>3, <2>1
    <2>3. /\ \A f \in Extraction, l \in Try : f # e \/ l # k => sent'[f][l] = sent[f][l]
          /\ \A f \in Extraction \ {e} : sent'[f] = sent[f]
          /\ sent'[e][k] \in {sent[e][k], sent[e][k] + 1}
      <3>1. CASE UNCHANGED sent
        BY <3>1
      <3>2. CASE sent' = [sent EXCEPT ![e][k] = sent[e][k] + 1]
        BY <1>3, <2>1, <3>2
      <3> QED  BY <1>2, <3>1, <3>2
    <2>4. /\ \A f \in Extraction, l \in Try : f # e \/ l # k => ended'[f][l] = ended[f][l]
          /\ \A f \in Extraction \ {e} : ended'[f] = ended[f]
      <3>1. CASE UNCHANGED ended
        BY <3>1
      <3>2. ASSUME NEW how, ended' = [ended EXCEPT ![e][k] = how]
            PROVE  /\ \A f \in Extraction, l \in Try :
                         f # e \/ l # k => ended'[f][l] = ended[f][l]
                   /\ \A f \in Extraction \ {e} : ended'[f] = ended[f]
        BY <1>3, <2>1, <3>2
      <3> QED  BY <1>2, <3>1, <3>2
    <2> QED  BY <2>2, <2>3, <2>4
  <1>5. /\ item \in Item /\ queue'[e][k] \in Seq(Item)
        /\ Len(queue'[e][k]) = Len(queue[e][k]) + 1
        /\ queue'[e][k][Len(queue[e][k]) + 1] = item
        /\ \A i \in 1 .. Len(queue[e][k]) : queue'[e][k][i] = queue[e][k][i]
    <2>1. queue'[e][k] \in Seq(Item)
      BY <1>1, <1>2 DEF IInv, TypeOK
    <2>2. item \in Item
      <3>1. sent'[e][k] \in Item /\ Sentinel \in Item
        BY <1>1, <1>2, PolicyAssumption DEF IInv, TypeOK, Item, Sentinel
      <3>2. sent' = [sent EXCEPT ![j.who][j.try] = @ + 1] => sent'[e][k] = sent[e][k] + 1
        BY <1>1, <1>2 DEF StreamInv, IInv, TypeOK
      <3> QED  BY <1>2, <3>1, <3>2
    <2> QED  BY <1>3, <1>4, <2>1, <2>2
  <1>6. \/ /\ sent'[e][k] = sent[e][k] + 1 /\ ended'[e][k] = "no" /\ item = sent[e][k] + 1
           /\ Left(e, k)' = Len(queue[e][k]) + 1
        \/ /\ sent'[e][k] = sent[e][k] /\ ended'[e][k] # "no" /\ item = Sentinel
           /\ Left(e, k)' = Len(queue[e][k])
    <2>1. CASE /\ sent' = [sent EXCEPT ![j.who][j.try] = @ + 1] /\ UNCHANGED ended
               /\ item = sent[j.who][j.try] + 1
      <3>1. sent'[e][k] = sent[e][k] + 1 /\ ended'[e][k] = "no"
        BY <1>1, <1>2, <2>1 DEF StreamInv, IInv, TypeOK
      <3> QED  BY <1>2, <1>5, <2>1, <3>1 DEF Left
    <2>2. CASE /\ UNCHANGED sent /\ item = Sentinel
               /\ \E how \in {"whole", "broken"} :
                     ended' = [ended EXCEPT ![j.who][j.try] = how]
      <3>1. sent'[e][k] = sent[e][k] /\ ended'[e][k] # "no"
        BY <1>1, <1>2, <2>2 DEF StreamInv, IInv, TypeOK
      <3>2. queue'[e][k] # <<>>
        <4>1. Len(queue'[e][k]) > 0 /\ Len(<<>>) = 0
          BY <1>3, <1>5
        <4> QED  BY <4>1
      <3>3. Left(e, k)' = Len(queue'[e][k]) - 1
        BY <3>1, <3>2 DEF Left
      <3> QED  BY <1>3, <1>5, <2>2, <3>1, <3>3
    <2> QED  BY <2>1, <2>2
  <1>7. Taken(e, k)' = Taken(e, k)
    <2>1. Len(queue[e][k]) \in Nat
      BY <1>3
    <2>2. sent'[e][k] - Left(e, k)' = sent[e][k] - Len(queue[e][k])
      BY <1>3, <1>6, <2>1
    <2> QED  BY <1>3, <2>2 DEF Taken
  <1>8. \A f \in Live, l \in Try : f # e \/ l # k =>
           /\ Left(f, l)' = Left(f, l) /\ Taken(f, l)' = Taken(f, l)
           /\ AllRead(f, l)' = AllRead(f, l)
    BY <1>4, PolicyAssumption DEF Left, Taken, AllRead
  <1>9. QueueIsTheRest'
    <2> SUFFICES ASSUME NEW f \in Live, NEW l \in Try
                 PROVE  /\ Left(f, l)' <= sent'[f][l]
                        /\ \A i \in 1 .. Len(queue'[f][l]) : queue'[f][l][i] =
                              IF i <= Left(f, l)' THEN Taken(f, l)' + i ELSE Sentinel
      BY DEF QueueIsTheRest
    <2>1. CASE f # e \/ l # k
      BY <1>4, <1>8, <2>1, PolicyAssumption DEF StreamInv, QueueIsTheRest
    <2>2. CASE f = e /\ l = k
      <3>1. Left(e, k)' <= sent'[e][k]
        BY <1>3, <1>6
      <3>2. ASSUME NEW i \in 1 .. Len(queue'[e][k])
            PROVE  queue'[e][k][i] =
                      IF i <= Left(e, k)' THEN Taken(e, k)' + i ELSE Sentinel
        <4>1. CASE i \in 1 .. Len(queue[e][k])
          <5>1. queue[e][k][i] = Taken(e, k) + i
            BY <1>3, <4>1 DEF StreamInv, QueueIsTheRest
          <5>2. i <= Left(e, k)'
            BY <1>3, <1>6, <4>1
          <5> QED  BY <1>5, <1>7, <4>1, <5>1, <5>2
        <4>2. CASE i = Len(queue[e][k]) + 1
          BY <1>3, <1>5, <1>6, <1>7, <4>2
        <4> QED  BY <1>3, <1>5, <4>1, <4>2
      <3> QED  BY <2>2, <3>1, <3>2
    <2> QED  BY <2>1, <2>2
  <1>10. NotStarted'
    <2> SUFFICES ASSUME NEW f \in Live, NEW l \in Try,
                        l > try[f] \/ (at[f] = "attempt" /\ l = try[f])
                 PROVE  sent'[f][l] = 0 /\ queue'[f][l] = <<>>
      BY DEF NotStarted
    <2>1. f # e \/ l # k
      BY <1>1, <1>2 DEF StreamInv, IInv, TypeOK, Try
    <2> QED  BY <1>4, <2>1, PolicyAssumption DEF StreamInv, NotStarted
  <1>11. ResultIsLast'
    BY DEF StreamInv, ResultIsLast
  <1>12. ASSUME NEW m \in Nat, NEW n \in Nat, ShownSoFar(e, m, n) PROVE ShownSoFar(e, m, n)'
    <2>1. try[e] \in Try
      BY <1>3 DEF StreamInv, IInv, TypeOK
    <2>2. Taken(e, try[e])' = Taken(e, try[e]) /\ (AllRead(e, try[e]) => AllRead(e, try[e])')
      <3>1. \A l \in Try : Taken(e, l)' = Taken(e, l) /\ (AllRead(e, l) => AllRead(e, l)')
        BY <1>1, <1>2, <1>7, <1>8
      <3>2. PICK l \in Try : l = try[e]
        BY <2>1
      <3>3. Taken(e, l)' = Taken(e, l) /\ (AllRead(e, l) => AllRead(e, l)')
        BY <3>1
      <3> QED  BY <3>2, <3>3 DEF Taken, AllRead, Left
    <2>3. Reading(e, m) => Reading(e, m)'
      BY <2>2 DEF Reading
    <2>4. Reading(e, n) => Reading(e, n)'
      BY <2>2 DEF Reading
    <2>5. m \in 0 .. sent'[e][1] /\ n \in 0 .. sent'[e][2]
      <3>1. \A l \in Try : sent[e][l] \in Nat /\ sent'[e][l] \in Nat /\ sent[e][l] <= sent'[e][l]
        BY <1>3, <1>4, QueueTypes DEF StreamInv
      <3> QED  BY <1>12, <3>1 DEF ShownSoFar, Try
    <2>6. \A l \in Try : result[e] = l => sent'[e][l] = sent[e][l]
      BY <1>1, <1>2, <1>3, <1>4
    <2>7. (result[e] = 1 => m = sent'[e][1]) /\ (result[e] = 2 => n = sent'[e][2])
      BY <1>12, <2>6 DEF ShownSoFar, Try
    <2> QED  BY <1>12, <2>3, <2>4, <2>5, <2>7 DEF ShownSoFar
  <1>13. Shows'
    BY <1>3, <1>4, <1>12, ShowsStep
  <1> QED  BY <1>9, <1>10, <1>11, <1>13 DEF StreamInv

LEMMA ProduceShows == ASSUME StreamInv, NEW j \in running, Produce(j) PROVE StreamInv'
  <1>1. /\ IInv' /\ j.does = "produce" /\ j.who \in Extraction /\ j.try \in Try
        /\ sent' = [sent EXCEPT ![j.who][j.try] = @ + 1]
        /\ Put(j, sent[j.who][j.try] + 1)
        /\ UNCHANGED <<at, try, hand, result, ended, shown>>
    BY ProduceKeeps, ProducerIsOpen DEF Produce, StreamInv
  <1>2. CASE j.who \in Live
    <2>1. queue' = [queue EXCEPT ![j.who][j.try] = Append(@, sent[j.who][j.try] + 1)]
      BY <1>1, <1>2 DEF Put
    <2> QED  BY <1>1, <1>2, <2>1, PutShows
  <1>3. CASE j.who \notin Live
    <2>1. UNCHANGED queue /\ \A e \in Live : sent'[e] = sent[e]
      BY <1>1, <1>3, PolicyAssumption DEF Put, StreamInv, IInv, TypeOK
    <2> QED  BY <1>1, <2>1, LiveStays
  <1> QED  BY <1>2, <1>3

LEMMA EndShows == ASSUME StreamInv, NEW j \in running, End(j) PROVE StreamInv'
  <1>1. /\ IInv' /\ j.does = "produce" /\ j.who \in Extraction /\ j.try \in Try
        /\ Put(j, Sentinel) /\ UNCHANGED <<at, try, hand, result, sent, shown>>
    BY EndKeeps, ProducerIsOpen DEF End, StreamInv
  <1>2. PICK how \in {"whole", "broken"} : ended' = [ended EXCEPT ![j.who][j.try] = how]
    BY DEF End
  <1>3. CASE j.who \in Live
    <2>1. queue' = [queue EXCEPT ![j.who][j.try] = Append(@, Sentinel)]
      BY <1>1, <1>3 DEF Put
    <2> QED  BY <1>1, <1>2, <1>3, <2>1, PutShows
  <1>4. CASE j.who \notin Live
    <2>1. UNCHANGED queue /\ \A e \in Live : ended'[e] = ended[e]
      BY <1>1, <1>2, <1>4, PolicyAssumption DEF Put, StreamInv, IInv, TypeOK
    <2> QED  BY <1>1, <2>1, LiveStays
  <1> QED  BY <1>3, <1>4

\* A read takes the next chunk, or the sentinel when all chunks were taken.
LEMMA GetShows == ASSUME StreamInv, NEW j \in running, Get(j) PROVE StreamInv'
  <1>1. /\ IInv' /\ j.does = "get" /\ queue[j.who][j.try] # <<>>
        /\ hand' = [hand EXCEPT ![j.who] = Head(queue[j.who][j.try])]
        /\ queue' = [queue EXCEPT ![j.who][j.try] = Tail(@)]
        /\ at' = [at EXCEPT ![j.who] = "got"]
        /\ UNCHANGED <<try, result, tasks, pending, sent, ended, shown>>
    BY GetKeeps DEF Get, Goto, StreamInv
  <1>2. j \in Job /\ j \in Jobs /\ at[j.who] = "get" /\ j.try = try[j.who] /\ j.who \in Live
    BY <1>1, JobFields DEF StreamInv, IInv, TypeOK, Jobs, ReadsAreAwaited, LabelsFit
  <1>3. PICK e \in Live, k \in Try : e = j.who /\ k = j.try
    BY <1>2, JobFields
  <1>4. e \in Extraction /\ at[e] = "get" /\ k = try[e] /\ result[e] = 0
    BY <1>2, <1>3, PolicyAssumption DEF StreamInv, ResultIsLast
  <1>5. /\ queue[e][k] \in Seq(Item) /\ queue[e][k] # <<>> /\ sent[e][k] \in Nat
        /\ Left(e, k) \in Nat /\ Left(e, k) <= sent[e][k] /\ Taken(e, k) = sent[e][k] - Left(e, k)
        /\ Len(queue[e][k]) \in Nat \ {0}
        /\ \A i \in 1 .. Len(queue[e][k]) :
              queue[e][k][i] = IF i <= Left(e, k) THEN Taken(e, k) + i ELSE Sentinel
    <2>1. queue[e][k] \in Seq(Item) /\ queue[e][k] # <<>>
      BY <1>1, <1>3, <1>4, QueueTypes DEF StreamInv
    <2>2. Len(queue[e][k]) \in Nat \ {0}
      BY <2>1
    <2> QED  BY <1>4, <2>1, <2>2, QueueTypes DEF StreamInv, QueueIsTheRest, Taken
  <1>6. /\ at'[e] = "got" /\ hand'[e] = Head(queue[e][k]) /\ queue'[e][k] = Tail(queue[e][k])
        /\ \A f \in Extraction \ {e} :
              at'[f] = at[f] /\ hand'[f] = hand[f] /\ queue'[f] = queue[f]
        /\ \A f \in Extraction, l \in Try : f # e \/ l # k => queue'[f][l] = queue[f][l]
    BY <1>1, <1>3, <1>4 DEF StreamInv, IInv, TypeOK
  <1>7. /\ hand'[e] = queue[e][k][1] /\ queue'[e][k] \in Seq(Item)
        /\ Len(queue'[e][k]) = Len(queue[e][k]) - 1
        /\ \A i \in 1 .. Len(queue'[e][k]) : queue'[e][k][i] = queue[e][k][i + 1]
    BY <1>5, <1>6
  <1>8. \/ /\ Left(e, k) = 0 /\ hand'[e] = Sentinel /\ Left(e, k)' = 0
           /\ Taken(e, k)' = Taken(e, k) /\ AllRead(e, k)'
        \/ /\ Left(e, k) > 0 /\ hand'[e] = Taken(e, k) + 1 /\ Left(e, k)' = Left(e, k) - 1
           /\ Taken(e, k)' = Taken(e, k) + 1 /\ hand'[e] # Sentinel
    <2>1. CASE Left(e, k) = 0
      <3>1. ended[e][k] # "no" /\ Len(queue[e][k]) = 1
        BY <1>5, <2>1 DEF Left
      <3>2. hand'[e] = Sentinel /\ Len(queue'[e][k]) = 0
        BY <1>5, <1>7, <2>1, <3>1
      <3>3. queue'[e][k] = <<>>
        BY <1>7, <3>2
      <3>4. Left(e, k)' = 0
        BY <3>2, <3>3 DEF Left
      <3> QED  BY <1>1, <1>5, <2>1, <3>1, <3>2, <3>3, <3>4 DEF AllRead, Taken
    <2>2. CASE Left(e, k) > 0
      <3>1. hand'[e] = Taken(e, k) + 1 /\ hand'[e] # Sentinel
        BY <1>5, <1>7, <2>2 DEF Sentinel
      <3>2. Left(e, k)' = Left(e, k) - 1
        <4>1. CASE ended[e][k] = "no"
          BY <1>1, <1>5, <1>7, <4>1 DEF Left
        <4>2. CASE ended[e][k] # "no"
          <5>1. Left(e, k) = Len(queue[e][k]) - 1
            BY <1>5, <4>2 DEF Left
          <5>2. Len(queue'[e][k]) > 0 /\ Len(<<>>) = 0
            BY <1>5, <1>7, <2>2, <5>1
          <5>3. queue'[e][k] # <<>> /\ ended'[e][k] # "no"
            <6>1. queue'[e][k] = <<>> => Len(queue'[e][k]) = 0
              BY <5>2
            <6>2. queue'[e][k] # <<>>
              BY <5>2, <6>1
            <6>3. ended'[e][k] # "no"
              BY <1>1, <4>2
            <6> QED  BY <6>2, <6>3
          <5>4. Left(e, k)' = Len(queue'[e][k]) - 1
            BY <5>3 DEF Left
          <5> QED  BY <1>5, <1>7, <5>1, <5>4
        <4> QED  BY <4>1, <4>2
      <3>3. Taken(e, k)' = sent[e][k] - Left(e, k)'
        BY <1>1 DEF Taken
      <3> QED  BY <1>5, <2>2, <3>1, <3>2, <3>3
    <2> QED  BY <1>5, <2>1, <2>2
  <1>9. QueueIsTheRest'
    <2> SUFFICES ASSUME NEW f \in Live, NEW l \in Try
                 PROVE  /\ Left(f, l)' <= sent'[f][l]
                        /\ \A i \in 1 .. Len(queue'[f][l]) : queue'[f][l][i] =
                              IF i <= Left(f, l)' THEN Taken(f, l)' + i ELSE Sentinel
      BY DEF QueueIsTheRest
    <2>1. CASE f # e \/ l # k
      <3>1. queue'[f][l] = queue[f][l]
        BY <1>6, <2>1, PolicyAssumption
      <3>2. Left(f, l)' = Left(f, l) /\ Taken(f, l)' = Taken(f, l)
        BY <1>1, <3>1, SameQueue
      <3>3. /\ Left(f, l) <= sent[f][l]
            /\ \A i \in 1 .. Len(queue[f][l]) :
                  queue[f][l][i] = IF i <= Left(f, l) THEN Taken(f, l) + i ELSE Sentinel
        BY DEF StreamInv, QueueIsTheRest
      <3> QED  BY <1>1, <3>1, <3>2, <3>3
    <2>2. CASE f = e /\ l = k
      <3>1. Left(e, k)' <= sent'[e][k]
        BY <1>1, <1>5, <1>8
      <3>2. ASSUME NEW i \in 1 .. Len(queue'[e][k])
            PROVE  queue'[e][k][i] =
                      IF i <= Left(e, k)' THEN Taken(e, k)' + i ELSE Sentinel
        <4>1. i + 1 \in 1 .. Len(queue[e][k]) /\ queue'[e][k][i] = queue[e][k][i + 1]
          <5>1. \A x \in Nat \ {0} : \A y \in 1 .. x - 1 : y + 1 \in 1 .. x
            OBVIOUS
          <5> QED  BY <1>5, <1>7, <5>1
        <4>2. queue[e][k][i + 1] = IF i + 1 <= Left(e, k) THEN Taken(e, k) + (i + 1) ELSE Sentinel
          BY <1>5, <4>1
        <4>3. Left(e, k) = 0 => queue'[e][k] = <<>>
          BY <1>8, <1>5 DEF AllRead
        <4>4. Left(e, k) > 0
          BY <1>5, <4>3
        <4>5. Left(e, k)' = Left(e, k) - 1 /\ Taken(e, k)' = Taken(e, k) + 1
          BY <1>8, <4>4
        <4>6. Taken(e, k) \in Int /\ i \in Int /\ Left(e, k) \in Int
          BY <1>5
        <4>7. (i <= Left(e, k)') <=> (i + 1 <= Left(e, k))
          BY <4>5, <4>6
        <4>8. Taken(e, k)' + i = Taken(e, k) + (i + 1)
          BY <4>5, <4>6
        <4> QED  BY <4>1, <4>2, <4>7, <4>8
      <3> QED  BY <2>2, <3>1, <3>2
    <2> QED  BY <2>1, <2>2
  <1>10. NotStarted'
    <2> SUFFICES ASSUME NEW f \in Live, NEW l \in Try,
                        l > try[f] \/ (at'[f] = "attempt" /\ l = try[f])
                 PROVE  sent[f][l] = 0 /\ queue'[f][l] = <<>>
      BY <1>1 DEF NotStarted
    <2>1. f # e \/ l # k
      BY <1>4, <1>6 DEF Try
    <2>2. at'[f] = "attempt" => at[f] = "attempt"
      BY <1>6, PolicyAssumption
    <2> QED  BY <1>6, <2>1, <2>2, PolicyAssumption DEF StreamInv, NotStarted
  <1>11. ResultIsLast'
    BY <1>1, <1>4, <1>6 DEF StreamInv, ResultIsLast
  <1>12. ASSUME NEW m \in Nat, NEW n \in Nat, ShownSoFar(e, m, n) PROVE ShownSoFar(e, m, n)'
    <2>1. Taken(e, try[e]) = Taken(e, k) /\ Taken(e, try[e])' = Taken(e, k)'
          /\ AllRead(e, try[e])' = AllRead(e, k)'
      BY <1>1, <1>4 DEF Taken, Left, AllRead
    <2>2. ASSUME NEW p \in Nat, Reading(e, p) PROVE Reading(e, p)'
      <3>1. p = Taken(e, k)
        BY <1>4, <2>1, <2>2 DEF Reading
      <3> QED  BY <1>5, <1>6, <1>8, <2>1, <3>1 DEF Reading
    <2> QED  BY <1>1, <1>12, <2>2 DEF ShownSoFar
  <1>13. Shows'
    BY <1>1, <1>4, <1>6, <1>12, ShowsStep
  <1> QED  BY <1>1, <1>9, <1>10, <1>11, <1>13 DEF StreamInv

LEMMA ShowsInit == ASSUME Init PROVE StreamInv
  <1>1. IInv
    BY PolicyInit
  <1>2. \A e \in Live, k \in Try :
           /\ sent[e][k] = 0 /\ queue[e][k] = <<>> /\ Left(e, k) = 0 /\ Taken(e, k) = 0
    <2> SUFFICES ASSUME NEW e \in Live, NEW k \in Try
                 PROVE  /\ sent[e][k] = 0 /\ queue[e][k] = <<>>
                        /\ Left(e, k) = 0 /\ Taken(e, k) = 0
      OBVIOUS
    <2>1. sent[e][k] = 0 /\ queue[e][k] = <<>>
      BY PolicyAssumption DEF Init
    <2>2. Len(queue[e][k]) = 0
      BY <2>1
    <2>3. Left(e, k) = 0
      BY <2>1, <2>2 DEF Left
    <2> QED  BY <2>1, <2>3 DEF Taken
  <1>3. QueueIsTheRest
    <2> SUFFICES ASSUME NEW e \in Live, NEW k \in Try
                 PROVE  Left(e, k) <= sent[e][k] /\ Len(queue[e][k]) = 0
      BY DEF QueueIsTheRest
    <2> QED  BY <1>2
  <1>4. NotStarted
    BY <1>2 DEF NotStarted
  <1>5. ResultIsLast
    BY DEF Init, ResultIsLast
  <1>6. ASSUME NEW e \in Live PROVE ShownSoFar(e, 0, 0)
    <2>1. at[e] = "attempt" /\ try[e] = 1 /\ result[e] = 0 /\ shown[e] = <<>>
      BY PolicyAssumption DEF Init
    <2>2. Reading(e, 0)
      BY <1>2, <2>1 DEF Reading, Try
    <2>3. ChunksOf(1, 0) \o ChunksOf(2, 0) = <<>>
      BY DEF ChunksOf
    <2>4. 0 \in 0 .. sent[e][1] /\ 0 \in 0 .. sent[e][2]
      BY <1>2 DEF Try
    <2> QED  BY <2>1, <2>2, <2>3, <2>4 DEF ShownSoFar
  <1>7. Shows
    BY <1>6 DEF Shows
  <1> QED  BY <1>1, <1>3, <1>4, <1>5, <1>7 DEF StreamInv

LEMMA ShowsNext == ASSUME StreamInv, [Next]_vars PROVE StreamInv'
  <1>1. CASE UNCHANGED vars
    BY <1>1, PolicyStep, LiveStays DEF vars, StreamInv
  <1>2. ASSUME NEW e \in Extraction, Coroutine(e) PROVE StreamInv'
    BY <1>2, AttemptShows, ForwardShows, AwaitShows, BackoffShows DEF Coroutine
  <1>3. ASSUME NEW j \in tasks, SubmitProducer(j) PROVE StreamInv'
    BY <1>3, SubmitKeeps, LiveStays DEF SubmitProducer, StreamInv
  <1>4. CASE StartJob
    BY <1>4, StartKeeps, LiveStays DEF StartJob, StreamInv
  <1>5. ASSUME NEW j \in running, Thread(j) PROVE StreamInv'
    BY <1>5, ProduceShows, EndShows, GetShows DEF Thread
  <1> QED  BY <1>1, <1>2, <1>3, <1>4, <1>5 DEF Next

\* The panel shows each attempt's chunks in order and from the start, nothing of
\* a given-up attempt after the next one's, and all of the answer that was used:
\* for any number of threads, extractions and chunks, whatever fails.
THEOREM PanelShowsTheStream == Spec => []ShownIsTheStream
  <1>1. Init => StreamInv
    BY ShowsInit
  <1>2. StreamInv /\ [Next]_vars => StreamInv'
    BY ShowsNext
  <1>3. StreamInv => ShownIsTheStream
    <2> SUFFICES ASSUME StreamInv, NEW e \in Live
                 PROVE  \E m \in 0 .. sent[e][1], n \in 0 .. sent[e][2] :
                           /\ shown[e] = ChunksOf(1, m) \o ChunksOf(2, n)
                           /\ result[e] = 1 => m = sent[e][1]
                           /\ result[e] = 2 => n = sent[e][2]
      BY DEF ShownIsTheStream
    <2>1. PICK m \in Nat, n \in Nat : ShownSoFar(e, m, n)
      BY DEF StreamInv, Shows
    <2> QED  BY <2>1, Zenon DEF ShownSoFar
  <1> QED  BY <1>1, <1>2, <1>3, PTL DEF Spec

-----------------------------------------------------------------------------
(* Somebody can go on *)

\* A coroutine that waits for a read has one in the pool; what it reads or awaits
\* has come to its end or has a producer on its way; and a read that is still to
\* come finds a chunk, the sentinel, or a producer that will put one.
Waits(e) ==
    /\ at[e] = "get" => GetJob(e) \in Jobs
    /\ at[e] \in {"get", "got", "await"} => ended[e][try[e]] # "no" \/ ProduceJob(e) \in Jobs
    /\ at[e] = "get" \/ (at[e] = "got" /\ hand[e] # Sentinel) => ~AllRead(e, try[e])

WaitInv == StreamInv /\ \A e \in Extraction : Waits(e)

\* Nothing changes for a coroutine whose jobs and queue stay.
LEMMA WaitsStay ==
    ASSUME NEW e \in Extraction, Waits(e), Jobs \subseteq Jobs',
           at'[e] = at[e], try'[e] = try[e], hand'[e] = hand[e],
           ended'[e] = ended[e], queue'[e] = queue[e]
    PROVE  Waits(e)'
  <1>1. GetJob(e)' = GetJob(e) /\ ProduceJob(e)' = ProduceJob(e)
    BY DEF GetJob, ProduceJob
  <1>2. AllRead(e, try[e])' = AllRead(e, try[e])
    BY DEF AllRead
  <1> QED  BY <1>1, <1>2 DEF Waits

LEMMA AttemptWaits ==
    ASSUME WaitInv, NEW e \in Extraction, Attempt(e), NEW f \in Extraction PROVE Waits(f)'
  <1> USE DEF WaitInv, StreamInv, IInv
  <1>1. /\ at[e] = "attempt" /\ at'[e] \in {"get", "await"} /\ (at'[e] = "get" => e \in Live)
        /\ \A g \in Extraction \ {e} : at'[g] = at[g]
        /\ UNCHANGED <<try, hand, running, queue, ended>>
    BY DEF Attempt, Goto, TypeOK
  <1>2. /\ GetJob(e)' = GetJob(e) /\ ProduceJob(e)' = ProduceJob(e)
        /\ GetJob(e) \in Job /\ ProduceJob(e) \in Job /\ try[e] \in Try
    BY <1>1 DEF GetJob, ProduceJob, Job, TypeOK
  <1>3. /\ Jobs \subseteq Jobs' /\ ProduceJob(e) \in Jobs'
        /\ e \in Live => GetJob(e) \in Jobs'
    <2>1. /\ Elems(Append(pending, GetJob(e))) = Elems(pending) \cup {GetJob(e)}
          /\ Elems(Append(pending, ProduceJob(e))) = Elems(pending) \cup {ProduceJob(e)}
      BY <1>2, AppendElems DEF TypeOK
    <2>2. CASE /\ e \in Live /\ tasks' = tasks \cup {ProduceJob(e)}
               /\ pending' = Append(pending, GetJob(e))
      BY <1>1, <2>1, <2>2 DEF Jobs
    <2>3. CASE e \notin Live /\ pending' = Append(pending, ProduceJob(e)) /\ UNCHANGED tasks
      BY <1>1, <2>1, <2>3 DEF Jobs
    <2> QED  BY <2>2, <2>3 DEF Attempt
  <1>4. ended[e][try[e]] = "no"
    BY <1>1, <1>2 DEF EndedIsStarted, Try
  <1>5. CASE f = e
    BY <1>1, <1>2, <1>3, <1>4, <1>5 DEF Waits, AllRead
  <1>6. CASE f # e
    BY <1>1, <1>3, <1>6, WaitsStay
  <1> QED  BY <1>5, <1>6

\* A coroutine that is between attempts, or done, waits for nobody.
LEMMA OthersWait ==
    ASSUME WaitInv, NEW e \in Extraction, at'[e] \in {"attempt", "backoff", "done"},
           at' = [at EXCEPT ![e] = at'[e]],
           try' = try \/ try' = [try EXCEPT ![e] = 2],
           UNCHANGED <<tasks, pending, running, hand, ended, queue>>,
           NEW f \in Extraction
    PROVE  Waits(f)'
  <1>1. CASE f = e
    BY <1>1 DEF Waits
  <1>2. CASE f # e
    <2>1. at'[f] = at[f] /\ try'[f] = try[f]
      BY <1>2 DEF WaitInv, StreamInv, IInv, TypeOK
    <2> QED  BY <1>2, <2>1, WaitsStay DEF Jobs, WaitInv
  <1> QED  BY <1>1, <1>2

LEMMA ForwardWaits ==
    ASSUME WaitInv, NEW e \in Extraction, Forward(e), NEW f \in Extraction PROVE Waits(f)'
  <1>1. at[e] = "got" /\ UNCHANGED <<hand, tasks, running, queue, sent, ended>> /\ Waits(e)
    BY DEF Forward, WaitInv
  <1>2. /\ at \in [Extraction -> Labels] /\ pending \in Seq(Job)
        /\ GetJob(e) \in Job /\ try[e] \in Try
    BY DEF WaitInv, StreamInv, IInv, TypeOK, GetJob, Job
  <1>3. CASE Goto(e, "await") /\ hand[e] = Sentinel /\ UNCHANGED <<try, pending>>
    <2>1. at'[e] = "await" /\ \A g \in Extraction \ {e} : at'[g] = at[g]
      BY <1>2, <1>3 DEF Goto
    <2>2. Jobs' = Jobs /\ ProduceJob(e)' = ProduceJob(e)
      BY <1>1, <1>3 DEF Jobs, ProduceJob
    <2>3. Waits(e)'
      BY <1>1, <1>3, <2>1, <2>2 DEF Waits
    <2>4. f # e => Waits(f)'
      BY <1>1, <1>3, <2>1, <2>2, WaitsStay DEF WaitInv
    <2> QED  BY <2>3, <2>4
  <1>4. CASE /\ hand[e] # Sentinel /\ Goto(e, "get") /\ UNCHANGED try
             /\ pending' = Append(pending, GetJob(e))
    <2>1. at'[e] = "get" /\ \A g \in Extraction \ {e} : at'[g] = at[g]
      BY <1>2, <1>4 DEF Goto
    <2>2. /\ GetJob(e)' = GetJob(e) /\ ProduceJob(e)' = ProduceJob(e)
          /\ Jobs \subseteq Jobs' /\ GetJob(e) \in Jobs'
      BY <1>1, <1>2, <1>4, AppendElems DEF Jobs, GetJob, ProduceJob
    <2>3. AllRead(e, try[e])' = AllRead(e, try[e])
      BY <1>1, <1>4 DEF AllRead
    <2>4. Waits(e)'
      BY <1>1, <1>4, <2>1, <2>2, <2>3 DEF Waits
    <2>5. f # e => Waits(f)'
      BY <1>1, <1>4, <2>1, <2>2, WaitsStay DEF WaitInv
    <2> QED  BY <2>4, <2>5
  <1>5. CASE Fail(e, TRUE) /\ UNCHANGED pending
    <2>1. /\ at'[e] \in {"attempt", "backoff", "done"} /\ at' = [at EXCEPT ![e] = at'[e]]
          /\ try' = try \/ try' = [try EXCEPT ![e] = 2]
      BY <1>2, <1>5 DEF Fail, Goto
    <2> QED  BY <1>1, <1>5, <2>1, OthersWait
  <1> QED  BY <1>3, <1>4, <1>5 DEF Forward

LEMMA AwaitWaits ==
    ASSUME WaitInv, NEW e \in Extraction, Await(e) \/ Backoff(e), NEW f \in Extraction
    PROVE  Waits(f)'
  <1>1. at \in [Extraction -> Labels]
    BY DEF WaitInv, StreamInv, IInv, TypeOK
  <1>2. /\ at'[e] \in {"attempt", "backoff", "done"} /\ at' = [at EXCEPT ![e] = at'[e]]
        /\ try' = try \/ try' = [try EXCEPT ![e] = 2]
    BY <1>1 DEF Await, Backoff, Fail, Goto
  <1>3. UNCHANGED <<tasks, pending, running, hand, ended, queue>>
    BY DEF Await, Backoff
  <1> QED  BY <1>2, <1>3, OthersWait

\* A job that changes places stays in the pool.
LEMMA MovesWait ==
    ASSUME WaitInv, NEW f \in Extraction,
           StartJob \/ \E j \in tasks : SubmitProducer(j)
    PROVE  Waits(f)'
  <1>1. UNCHANGED <<at, try, hand, queue, ended>>
    BY DEF StartJob, SubmitProducer
  <1>2. Jobs \subseteq Jobs'
    <2>1. ASSUME NEW j \in tasks, SubmitProducer(j) PROVE Jobs \subseteq Jobs'
      <3>1. Elems(pending') = Elems(pending) \cup {j}
        BY <2>1, AppendElems DEF SubmitProducer, WaitInv, StreamInv, IInv, TypeOK
      <3> QED  BY <2>1, <3>1 DEF SubmitProducer, Jobs
    <2>2. CASE StartJob
      <3>1. Elems(pending') = Elems(pending) \ {Head(pending)}
        BY <2>2, TailElems DEF StartJob, WaitInv, StreamInv, IInv, TypeOK, OnePlace
      <3> QED  BY <2>2, <3>1 DEF StartJob, Jobs
    <2> QED  BY <2>1, <2>2
  <1> QED  BY <1>1, <1>2, WaitsStay DEF WaitInv

\* A producer leaves the pool only when its attempt is over, and the sentinel on
\* the queue.
LEMMA ProducerWaits ==
    ASSUME WaitInv, NEW j \in running, Produce(j) \/ End(j), NEW f \in Extraction
    PROVE  Waits(f)'
  <1> USE DEF WaitInv, StreamInv, IInv
  <1>1. /\ j.does = "produce" /\ UNCHANGED <<at, try, hand, tasks, pending>>
        /\ j \in Job /\ j.who \in Extraction /\ j.try \in Try /\ try[f] \in Try
        /\ ended[j.who][j.try] = "no" /\ Jobs \ {j} \subseteq Jobs'
    BY ProducerIsOpen DEF Produce, End, TypeOK, Jobs
  <1>2. GetJob(f)' = GetJob(f) /\ ProduceJob(f)' = ProduceJob(f) /\ GetJob(f) # j
    BY <1>1 DEF GetJob, ProduceJob
  <1>3. CASE f = j.who /\ try[f] = j.try
    <2>1. CASE Produce(j)
      <3>1. ended'[f][try[f]] = "no" /\ Jobs' = Jobs
        BY <1>1, <1>3, <2>1 DEF Produce, Jobs
      <3>2. ~AllRead(f, try[f])'
        BY <1>1, <3>1 DEF AllRead
      <3> QED  BY <1>1, <1>2, <1>3, <3>1, <3>2 DEF Waits
    <2>2. CASE End(j)
      <3>1. ended'[f][try[f]] # "no"
        BY <1>1, <1>3, <2>2 DEF End, TypeOK
      <3>2. f \in Live => queue'[f][try[f]] # <<>>
        <4> SUFFICES ASSUME f \in Live PROVE queue'[f][try[f]] # <<>>
          OBVIOUS
        <4>1. queue[f][try[f]] \in Seq(Item) /\ 0 \in Item
          BY <1>1, PolicyAssumption DEF TypeOK, Item
        <4>2. queue'[f][try[f]] = Append(queue[f][try[f]], 0)
          BY <1>1, <1>3, <2>2 DEF End, Put, TypeOK, Sentinel
        <4> QED  BY <4>1, <4>2
      <3>3. at[f] \in {"get", "got"} => f \in Live
        BY DEF LabelsFit
      <3> QED  BY <1>1, <1>2, <3>1, <3>2, <3>3 DEF Waits, AllRead
    <2> QED  BY <2>1, <2>2
  <1>4. CASE f # j.who \/ try[f] # j.try
    <2>1. ProduceJob(f) # j
      BY <1>4 DEF ProduceJob
    <2>2. ended'[f][try[f]] = ended[f][try[f]] /\ queue'[f][try[f]] = queue[f][try[f]]
      <3>1. CASE Produce(j)
        BY <1>1, <1>4, <3>1 DEF Produce, Put, TypeOK
      <3>2. CASE End(j)
        <4>1. ended'[f][try[f]] = ended[f][try[f]]
          BY <1>1, <1>4, <3>2 DEF End, TypeOK
        <4>2. queue'[f][try[f]] = queue[f][try[f]]
          BY <1>1, <1>4, <3>2 DEF End, Put, TypeOK
        <4> QED  BY <4>1, <4>2
      <3> QED  BY <3>1, <3>2
    <2>3. AllRead(f, try[f])' = AllRead(f, try[f])
      BY <1>1, <2>2 DEF AllRead
    <2> QED  BY <1>1, <1>2, <2>1, <2>2, <2>3 DEF Waits
  <1> QED  BY <1>3, <1>4

\* A read that brings a chunk leaves something to read.
LEMMA GetWaits ==
    ASSUME WaitInv, NEW j \in running, Get(j), NEW f \in Extraction PROVE Waits(f)'
  <1> USE DEF WaitInv, StreamInv, IInv
  <1>1. /\ j.does = "get" /\ j \in Job /\ j \in Jobs /\ Jobs' = Jobs \ {j}
        /\ UNCHANGED <<try, ended>> /\ queue[j.who][j.try] # <<>>
    BY LeaveKeeps DEF Get, Jobs
  <1>2. at[j.who] = "get" /\ j.try = try[j.who] /\ j.who \in Live
    BY <1>1, JobFields DEF ReadsAreAwaited, LabelsFit
  <1>3. /\ at'[j.who] = "got" /\ hand'[j.who] = Head(queue[j.who][j.try])
        /\ queue'[j.who][j.try] = Tail(queue[j.who][j.try])
        /\ \A g \in Extraction \ {j.who} :
              at'[g] = at[g] /\ hand'[g] = hand[g] /\ queue'[g] = queue[g]
    BY <1>1, JobFields DEF Get, Goto, TypeOK
  <1>4. /\ GetJob(f)' = GetJob(f) /\ ProduceJob(f)' = ProduceJob(f)
        /\ ProduceJob(f) # j /\ (f # j.who => GetJob(f) # j)
    BY <1>1 DEF GetJob, ProduceJob
  <1>5. CASE f # j.who
    <2>1. AllRead(f, try[f])' = AllRead(f, try[f])
      BY <1>1, <1>3, <1>5 DEF AllRead
    <2> QED  BY <1>1, <1>3, <1>4, <1>5, <2>1 DEF Waits
  <1>6. CASE f = j.who
    <2>1. PICK k \in Try : k = try[f] /\ k = j.try
      BY <1>1, <1>2, <1>6, JobFields
    <2>2. /\ queue[f][k] \in Seq(Item) /\ queue[f][k] # <<>> /\ f \in Live
          /\ hand'[f] = Head(queue[f][k]) /\ queue'[f][k] = Tail(queue[f][k])
      BY <1>1, <1>2, <1>3, <1>6, <2>1, QueueTypes
    <2>3. Len(queue'[f][k]) = Len(queue[f][k]) - 1 /\ Len(queue[f][k]) \in Nat
      BY <2>2
    <2>4. AllRead(f, k)' => hand'[f] = Sentinel
      <3> SUFFICES ASSUME queue'[f][k] = <<>>, ended[f][k] # "no" PROVE hand'[f] = Sentinel
        BY <1>1 DEF AllRead
      <3>1. Len(queue[f][k]) = 1
        <4>1. ASSUME NEW q, q = <<>> PROVE Len(q) = 0
          BY <4>1
        <4> QED  BY <2>3, <4>1
      <3>2. Left(f, k) = 0
        BY <2>2, <3>1 DEF Left
      <3>3. queue[f][k][1] = Sentinel
        BY <2>1, <2>2, <3>1, <3>2 DEF QueueIsTheRest
      <3> QED  BY <2>2, <3>3
    <2>5. AllRead(f, try[f])' = AllRead(f, k)'
      BY <1>1, <2>1 DEF AllRead
    <2> QED  BY <1>1, <1>2, <1>3, <1>4, <1>6, <2>4, <2>5 DEF Waits
  <1> QED  BY <1>5, <1>6

LEMMA WaitsInit == ASSUME Init PROVE WaitInv
  <1>1. \A e \in Extraction : at[e] = "attempt"
    BY DEF Init
  <1> QED  BY <1>1, ShowsInit DEF WaitInv, Waits

LEMMA WaitsNext == ASSUME WaitInv, [Next]_vars PROVE WaitInv'
  <1>1. StreamInv'
    BY ShowsNext DEF WaitInv
  <1> SUFFICES ASSUME NEW f \in Extraction PROVE Waits(f)'
    BY <1>1 DEF WaitInv
  <1>2. CASE UNCHANGED vars
    BY <1>2, WaitsStay DEF vars, Jobs, WaitInv
  <1>3. ASSUME NEW e \in Extraction, Coroutine(e) PROVE Waits(f)'
    BY <1>3, AttemptWaits, ForwardWaits, AwaitWaits DEF Coroutine
  <1>4. CASE StartJob \/ \E j \in tasks : SubmitProducer(j)
    BY <1>4, MovesWait
  <1>5. ASSUME NEW j \in running, Thread(j) PROVE Waits(f)'
    BY <1>5, ProducerWaits, GetWaits DEF Thread
  <1> QED  BY <1>2, <1>3, <1>4, <1>5 DEF Next

\* One read per live extraction has a thread, at most.
Reads == {j \in running : j.does = "get"}

LEMMA ReadsAreFew ==
    ASSUME IInv, Cardinality(Live) < Workers
    PROVE  IsFiniteSet(Reads) /\ Cardinality(Reads) < Workers
  <1> USE DEF IInv
  <1>1. IsFiniteSet(Live)
    BY PolicyAssumption, FS_Subset
  <1> DEFINE Slots == {GetJob(e) : e \in Live}
  <1>2. IsFiniteSet(Slots) /\ Cardinality(Slots) <= Cardinality(Live)
    <2>1. [e \in Live |-> GetJob(e)] \in Surjection(Live, Slots)
      BY DEF Surjection
    <2> QED  BY <1>1, <2>1, FS_Surjection
  <1>3. Reads \subseteq Slots
    <2> SUFFICES ASSUME NEW j \in running, j.does = "get" PROVE j \in Slots
      BY DEF Reads
    <2>1. j \in Job /\ j \in Jobs
      BY DEF TypeOK, Jobs
    <2>2. j.who \in Live /\ j.try = try[j.who]
      BY <2>1, JobFields DEF ReadsAreAwaited, LabelsFit
    <2>3. GetJob(j.who) \in Job /\ GetJob(j.who) = j
      BY <2>1, <2>2, JobFields DEF GetJob, Job, TypeOK
    <2> QED  BY <2>2, <2>3
  <1>4. /\ IsFiniteSet(Reads)
        /\ Cardinality(Reads) <= Cardinality(Slots) /\ Cardinality(Reads) \in Nat
    BY <1>2, <1>3, FS_Subset, FS_CardinalityType
  <1>5. Cardinality(Slots) \in Nat /\ Cardinality(Live) \in Nat
    BY <1>1, <1>2, FS_CardinalityType
  <1> QED  BY <1>2, <1>4, <1>5, PolicyAssumption


\* If nobody could go on, all threads' jobs would be empty reads; these are too
\* few to keep a producer from its thread, so nobody is left to wait for.
LEMMA NobodyWaitsInVain == ASSUME WaitInv PROVE NobodyIsStuck
  <1> SUFFICES ASSUME Cardinality(Live) < Workers, NEW e \in Extraction, at[e] # "done",
                      ~SomebodyCanGoOn
               PROVE  FALSE
    BY DEF NobodyIsStuck
  <1>1. /\ at[e] \in {"get", "await"} /\ (at[e] = "await" => ended[e][try[e]] = "no")
        /\ tasks = {} /\ (pending = <<>> \/ ~(Cardinality(running) < Workers))
        /\ \A j \in running : j.does # "produce" /\ queue[j.who][j.try] = <<>>
    BY DEF SomebodyCanGoOn, WaitInv, StreamInv, IInv, TypeOK, Labels
  <1>2. running = Reads
    BY <1>1, JobFields DEF Reads, WaitInv, StreamInv, IInv, TypeOK
  <1>3. pending = <<>>
    BY <1>1, <1>2, ReadsAreFew DEF WaitInv, StreamInv
  <1>4. Jobs = running
    BY <1>1, <1>3 DEF Jobs, Elems
  <1>5. ended[e][try[e]] = "no"
    <2>1. CASE at[e] = "get"
      <3>1. GetJob(e) \in running /\ ~AllRead(e, try[e])
        BY <1>4, <2>1 DEF WaitInv, Waits
      <3>2. queue[e][try[e]] = <<>>
        BY <1>1, <3>1 DEF GetJob
      <3> QED  BY <3>1, <3>2 DEF AllRead
    <2> QED  BY <1>1, <2>1
  <1>6. ProduceJob(e) \in running
    BY <1>1, <1>4, <1>5 DEF WaitInv, Waits
  <1> QED  BY <1>1, <1>6 DEF ProduceJob

\* With more threads than live extractions, blocking reads never bring the pool
\* to a standstill: through retries and producers that were left behind, whoever
\* is not done can go on, or waits for somebody who can.
THEOREM PoolIsNeverStuck == Spec => []NobodyIsStuck
  <1>1. Init => WaitInv
    BY WaitsInit
  <1>2. WaitInv /\ [Next]_vars => WaitInv'
    BY WaitsNext
  <1>3. WaitInv => NobodyIsStuck
    BY NobodyWaitsInVain
  <1> QED  BY <1>1, <1>2, <1>3, PTL DEF Spec

===============================================================================
