----------------------------- MODULE PolicyStream ----------------------------
(***************************************************************************)
(* The policy service (engine/policy_service.py, policy_extractor.py).      *)
(* One extraction is a coroutine that makes at most two attempts.  When a   *)
(* dashboard listens, the blocking model call runs in a thread that puts    *)
(* its chunks on a queue and then a sentinel, and the coroutine takes them  *)
(* off with asyncio.to_thread(q.get): the read occupies a thread as well.   *)
(* All extractions share one thread pool, which serves its jobs in order.   *)
(***************************************************************************)
EXTENDS Integers, Sequences, FiniteSets

CONSTANTS
    Extraction,  \* the calls of POST /extract
    Live,        \* those with a workflow_id, whose chunks are forwarded
    Workers,     \* threads of asyncio's default executor
    MaxChunks,   \* bound: the chunks of one answer of the model
    Env          \* what may go wrong: "api" the model call, "redis" a publish

ASSUME PolicyAssumption ==
    /\ IsFiniteSet(Extraction) /\ Live \subseteq Extraction
    /\ Workers \in Nat /\ MaxChunks \in Nat
    /\ Env \subseteq {"api", "redis"}

VARIABLES
    at,       \* where each coroutine is
    try,      \* its attempt
    hand,     \* what its last q.get returned
    result,   \* the attempt whose text gave the answer, 0 for the fail-safe
    tasks,    \* producers whose task has not run yet
    pending,  \* the executor's job queue
    running,  \* the jobs that have a thread
    queue,    \* the queue of each attempt
    sent,     \* the chunks the model has sent in each attempt
    ended,    \* how the model's answer ended
    shown     \* llm_stream_chunk events, as <<attempt, chunk>>

vars == <<at, try, hand, result, tasks, pending, running, queue, sent, ended, shown>>

Try == 1 .. 2
Sentinel == 0
Item == 0 .. MaxChunks
Job == [who : Extraction, try : Try, does : {"get", "produce"}]
GetJob(e) == [who |-> e, try |-> try[e], does |-> "get"]
ProduceJob(e) == [who |-> e, try |-> try[e], does |-> "produce"]
Labels == {"attempt", "get", "got", "await", "backoff", "done"}

TypeOK ==
    /\ at \in [Extraction -> Labels] /\ try \in [Extraction -> Try]
    /\ hand \in [Extraction -> Item] /\ result \in [Extraction -> 0 .. 2]
    /\ tasks \subseteq Job /\ pending \in Seq(Job) /\ running \subseteq Job
    /\ queue \in [Extraction -> [Try -> Seq(Item)]]
    /\ sent \in [Extraction -> [Try -> Item]]
    /\ ended \in [Extraction -> [Try -> {"no", "whole", "broken"}]]
    /\ shown \in [Extraction -> Seq(Try \X Item)]

Init ==
    /\ at = [e \in Extraction |-> "attempt"] /\ try = [e \in Extraction |-> 1]
    /\ hand = [e \in Extraction |-> Sentinel] /\ result = [e \in Extraction |-> 0]
    /\ tasks = {} /\ pending = <<>> /\ running = {}
    /\ queue = [e \in Extraction |-> [k \in Try |-> <<>>]]
    /\ sent = [e \in Extraction |-> [k \in Try |-> 0]]
    /\ ended = [e \in Extraction |-> [k \in Try |-> "no"]]
    /\ shown = [e \in Extraction |-> <<>>]

Goto(e, label) == at' = [at EXCEPT ![e] = label]

-----------------------------------------------------------------------------
(* The coroutine: extract_policy_terms() *)

\* create_task() only schedules the producer; to_thread(q.get) is submitted at once.
Attempt(e) ==
    /\ at[e] = "attempt"
    /\ \/ e \in Live /\ Goto(e, "get")
          /\ tasks' = tasks \cup {ProduceJob(e)} /\ pending' = Append(pending, GetJob(e))
       \/ e \notin Live /\ Goto(e, "await")
          /\ pending' = Append(pending, ProduceJob(e)) /\ UNCHANGED tasks
    /\ UNCHANGED <<try, hand, result, running, queue, sent, ended, shown>>

\* The event loop runs the producer's task: its job reaches the executor.
SubmitProducer(j) ==
    /\ j \in tasks
    /\ tasks' = tasks \ {j} /\ pending' = Append(pending, j)
    /\ UNCHANGED <<at, try, hand, result, running, queue, sent, ended, shown>>

\* A bug to catch: the number of attempts is not checked.
FailAgain(e, pause) ==
    /\ Goto(e, "attempt") /\ try' = [try EXCEPT ![e] = @ + 1]
    /\ UNCHANGED result

\* A failed attempt: the first is followed by another, after a pause unless the
\* text was at fault; the second by the fail-safe answer.
Fail(e, pause) ==
    /\ \/ try[e] = 2 /\ Goto(e, "done") /\ UNCHANGED try
       \/ try[e] = 1 /\ pause /\ Goto(e, "backoff") /\ UNCHANGED try
       \/ try[e] = 1 /\ ~pause /\ Goto(e, "attempt") /\ try' = [try EXCEPT ![e] = 2]
    /\ UNCHANGED result

\* A bug to catch: the next read is submitted before the chunk is forwarded.
ForwardPrefetches(e) ==
    /\ at[e] = "got"
    /\ \/ /\ hand[e] = Sentinel
          /\ Goto(e, "await") /\ UNCHANGED <<try, result, pending, shown>>
       \/ /\ hand[e] # Sentinel /\ pending' = Append(pending, GetJob(e))
          /\ \/ /\ shown' = [shown EXCEPT ![e] = Append(@, <<try[e], hand[e]>>)]
                /\ Goto(e, "get") /\ UNCHANGED <<try, result>>
             \/ "redis" \in Env /\ Fail(e, TRUE) /\ UNCHANGED shown
    /\ UNCHANGED <<hand, tasks, running, queue, sent, ended>>

\* stream_callback(), and the next q.get; an exception of publish_event() counts
\* as a failed API call, and leaves the producer running.
Forward(e) ==
    /\ at[e] = "got"
    /\ \/ /\ hand[e] = Sentinel
          /\ Goto(e, "await") /\ UNCHANGED <<try, result, pending, shown>>
       \/ /\ hand[e] # Sentinel
          /\ shown' = [shown EXCEPT ![e] = Append(@, <<try[e], hand[e]>>)]
          /\ Goto(e, "get") /\ pending' = Append(pending, GetJob(e))
          /\ UNCHANGED <<try, result>>
       \/ hand[e] # Sentinel /\ "redis" \in Env
          /\ Fail(e, TRUE) /\ UNCHANGED <<pending, shown>>
    /\ UNCHANGED <<hand, tasks, running, queue, sent, ended>>

\* A bug to catch: whatever text came before the sentinel is parsed.
AwaitIgnoresError(e) ==
    /\ at[e] = "await" /\ ended[e][try[e]] # "no"
    /\ \/ /\ Goto(e, "done") /\ result' = [result EXCEPT ![e] = try[e]]
          /\ UNCHANGED try
       \/ \E pause \in BOOLEAN : Fail(e, pause)
    /\ UNCHANGED <<hand, tasks, pending, running, queue, sent, ended, shown>>

\* await producer: raises what the thread raised; else the text is parsed.
Await(e) ==
    /\ at[e] = "await" /\ ended[e][try[e]] # "no"
    /\ \/ /\ ended[e][try[e]] = "whole"
          /\ Goto(e, "done") /\ result' = [result EXCEPT ![e] = try[e]]
          /\ UNCHANGED try
       \/ \E pause \in BOOLEAN : Fail(e, pause)
    /\ UNCHANGED <<hand, tasks, pending, running, queue, sent, ended, shown>>

Backoff(e) ==
    /\ at[e] = "backoff"
    /\ try' = [try EXCEPT ![e] = 2] /\ Goto(e, "attempt")
    /\ UNCHANGED <<hand, result, tasks, pending, running, queue, sent, ended, shown>>

-----------------------------------------------------------------------------
(* The threads *)

StartJob ==
    /\ pending # <<>> /\ Cardinality(running) < Workers
    /\ running' = running \cup {Head(pending)} /\ pending' = Tail(pending)
    /\ UNCHANGED <<at, try, hand, result, tasks, queue, sent, ended, shown>>

\* A bug to catch: both attempts of an extraction share one queue.
PutShared(j, item) ==
    queue' = IF j.who \in Live
             THEN [queue EXCEPT ![j.who] = [k \in Try |-> Append(@[k], item)]]
             ELSE queue
Put(j, item) ==
    queue' = IF j.who \in Live THEN [queue EXCEPT ![j.who][j.try] = Append(@, item)] ELSE queue

\* generate_content_stream() yields a chunk ...
Produce(j) ==
    /\ j \in running /\ j.does = "produce" /\ sent[j.who][j.try] < MaxChunks
    /\ sent' = [sent EXCEPT ![j.who][j.try] = @ + 1]
    /\ Put(j, sent[j.who][j.try] + 1)
    /\ UNCHANGED <<at, try, hand, result, tasks, pending, running, ended, shown>>

\* A bug to catch: the sentinel is put only after a whole answer.
EndWithoutSentinel(j) ==
    /\ j \in running /\ j.does = "produce"
    /\ \E how \in {"whole"} \cup (IF "api" \in Env THEN {"broken"} ELSE {}) :
          /\ ended' = [ended EXCEPT ![j.who][j.try] = how]
          /\ IF how = "whole" THEN Put(j, Sentinel) ELSE UNCHANGED queue
    /\ running' = running \ {j}
    /\ UNCHANGED <<at, try, hand, result, tasks, pending, sent, shown>>

\* ... until it ends or raises; either way the sentinel follows.
End(j) ==
    /\ j \in running /\ j.does = "produce"
    /\ \E how \in {"whole"} \cup (IF "api" \in Env THEN {"broken"} ELSE {}) :
          ended' = [ended EXCEPT ![j.who][j.try] = how]
    /\ Put(j, Sentinel)
    /\ running' = running \ {j}
    /\ UNCHANGED <<at, try, hand, result, tasks, pending, sent, shown>>

\* q.get() returns to the coroutine that waits for it.
Get(j) ==
    /\ j \in running /\ j.does = "get" /\ queue[j.who][j.try] # <<>>
    /\ hand' = [hand EXCEPT ![j.who] = Head(queue[j.who][j.try])]
    /\ queue' = [queue EXCEPT ![j.who][j.try] = Tail(@)]
    /\ running' = running \ {j} /\ Goto(j.who, "got")
    /\ UNCHANGED <<try, result, tasks, pending, sent, ended, shown>>

Coroutine(e) == Attempt(e) \/ Forward(e) \/ Await(e) \/ Backoff(e)
Thread(j) == Produce(j) \/ End(j) \/ Get(j)

Next ==
    \/ \E e \in Extraction : Coroutine(e)
    \/ \E j \in tasks : SubmitProducer(j)
    \/ StartJob
    \/ \E j \in running : Thread(j)

Spec == Init /\ [][Next]_vars

\* Coroutines and threads run when they can; an answer of the model ends.
FairSpec ==
    /\ Spec /\ WF_vars(StartJob)
    /\ \A e \in Extraction : WF_vars(Coroutine(e))
    /\ \A j \in Job : WF_vars(SubmitProducer(j)) /\ WF_vars(Thread(j))

-----------------------------------------------------------------------------

\* Terms are read from an answer that came through whole, in the attempt that
\* returned them; anything else is the fail-safe (policy_extractor.py:93-115).
TermsAreWhole ==
    \A e \in Extraction : result[e] # 0 => ended[e][result[e]] = "whole"

ChunksOf(k, n) == [i \in 1 .. n |-> <<k, i>>]

\* The panel shows each attempt's chunks in order and from the start, nothing of
\* an attempt that was given up after that, and all of the one that was used.
ShownIsTheStream ==
    \A e \in Live : \E m \in 0 .. sent[e][1], n \in 0 .. sent[e][2] :
        /\ shown[e] = ChunksOf(1, m) \o ChunksOf(2, n)
        /\ result[e] = 1 => m = sent[e][1]
        /\ result[e] = 2 => n = sent[e][2]

\* Who can take a step: a coroutine that waits for nothing, or whose producer is
\* through; the event loop; a free thread; a job that is not an empty read.
SomebodyCanGoOn ==
    \/ \E e \in Extraction : \/ at[e] \in {"attempt", "got", "backoff"}
                             \/ at[e] = "await" /\ ended[e][try[e]] # "no"
    \/ tasks # {}
    \/ pending # <<>> /\ Cardinality(running) < Workers
    \/ \E j \in running : j.does = "produce" \/ queue[j.who][j.try] # <<>>

\* With more threads than such extractions, nobody waits for a thread that only
\* waits for him: while an extraction is under way somebody can go on.
NobodyIsStuck ==
    Cardinality(Live) < Workers /\ (\E e \in Extraction : at[e] # "done") => SomebodyCanGoOn

\* Every extraction ends, with terms or with the fail-safe
\* (policy_extractor.py:155-156, :172-182).
ExtractionEnds == \A e \in Extraction : <>(at[e] = "done")

===============================================================================
