-------------------------- MODULE ProcurementProofs ---------------------------
(***************************************************************************)
(* Proofs about module Procurement.  A run of the agent uses the wallet as *)
(* WalletAuth says, so what is proved of WalletAuth holds of it, and its   *)
(* calls come one at a time, so it keeps to the daily limit; the types     *)
(* hold, and a call the network failed is answered as an error; a planner  *)
(* run stops paying once it is refused, is reported complete only if what  *)
(* it planned was paid, and reports the total that was spent.              *)
(***************************************************************************)
EXTENDS Procurement, WalletProofs, WellFoundedInduction

(* ---------------- the wallet --------------------------------------------- *)

LEMMA StepOfWallet == RunNext => [Next]_vars
<1> SUFFICES ASSUME RunNext PROVE [Next]_vars
  OBVIOUS
<1>1. CASE Agent \/ AgentDies \/ WindowEnds
  BY <1>1 DEF Agent, Reset, Plan, InitWorkflow, Send, ReadAnswer, Finish, AgentDies,
              WindowEnds
<1>2. ASSUME NEW c \in Call, Handle(c) \/ HandlerFails(c) \/ Recheck(c) PROVE [Next]_vars
  <2>1. CASE Authorize(c)
    BY <2>1 DEF Authorize, Next, Client
  <2>2. CASE Incr(c) \/ Expire(c) \/ Reserve(c) \/ Charge(c) \/ HandlerFails(c) \/ Recheck(c)
    BY <2>2 DEF Incr, Expire, Reserve, Charge, HandlerFails, Recheck
  <2> QED BY <1>2, <2>1, <2>2 DEF Handle
<1>3. CASE WalletAround \/ RecheckEarlier
  BY <1>3 DEF WalletAround, RecheckEarlier, Next, Client
<1> QED BY <1>1, <1>2, <1>3 DEF RunNext

\* Procurement implements WalletAuth: the agent, the rate limit and the budget
\* around authorize() leave the wallet's row to it.
THEOREM RunUsesWallet == RunSpec => Spec
<1>1. RunInit => Init
  BY DEF RunInit
<1>2. [RunNext]_runVars => [Next]_vars
  BY StepOfWallet DEF runVars
<1> QED BY <1>1, <1>2, PTL DEF RunSpec, Spec

\* During a run spent_today never counts what was not granted for its day ...
THEOREM RunSpendIsCovered == RunSpec => []NeverOvercounted
BY RunUsesWallet, SpendIsCovered

\* ... and from the day's reset on it is exact, however often the dashboard reads.
THEOREM RunOpenDayIsExact == RunSpec => ExactOnceOpen
BY RunUsesWallet, OpenDayIsExact

(* ---------------- one call at a time ------------------------------------- *)

ReqTypeOK == req \in [Call -> ReqLabels] /\ answer \in [Call -> AnswerLabels]

\* At most one call is inside /pay or died there: the agent's current one.
OneAtATime ==
    \A c \in Call : req[c] \in InPay \cup {"lost"} =>
        agent \in {"wait", "crashed"} /\ c = plan[n]
Turn == ReqTypeOK /\ OneAtATime

\* A call uses the wallet while it is authorized, or it died over it.
BusyInPay == \A c \in Call : Busy(c) => req[c] \in {"authorize", "lost"}

LEMMA TurnInit == RunInit => Turn /\ BusyInPay
<1> SUFFICES ASSUME RunInit PROVE Turn /\ BusyInPay
  OBVIOUS
<1>1. req = [c \in Call |-> "idle"] /\ answer = [c \in Call |-> "none"]
      /\ at = [c \in Client |-> "fetch"]
  BY DEF RunInit, Init
<1> QED BY <1>1 DEF Turn, ReqTypeOK, ReqLabels, AnswerLabels, OneAtATime, InPay, BusyInPay, Busy,
                    Client

LEMMA TurnAgent ==
    ASSUME Turn, Agent \/ AgentDies
    PROVE  Turn'
<1> USE DEF Turn, ReqTypeOK, ReqLabels, AnswerLabels, OneAtATime, InPay, proxyVars
<1>1. CASE Reset
  BY <1>1 DEF Reset
<1>2. CASE Plan
  BY <1>2 DEF Plan
<1>3. CASE InitWorkflow
  BY <1>3 DEF InitWorkflow
<1>4. CASE Send
  BY <1>4 DEF Send
<1>5. CASE ReadAnswer
  BY <1>5 DEF ReadAnswer, Counts
<1>6. CASE Finish
  BY <1>6 DEF Finish
<1>7. CASE AgentDies
  BY <1>7 DEF AgentDies
<1> QED BY <1>1, <1>2, <1>3, <1>4, <1>5, <1>6, <1>7 DEF Agent

LEMMA TurnCall ==
    ASSUME Turn, NEW c \in Call, Handle(c) \/ HandlerFails(c)
    PROVE  Turn'
<1> USE DEF Turn, ReqTypeOK, ReqLabels, AnswerLabels, OneAtATime, InPay, agentVars, proxyVars, At,
            Enter, Reply
<1>1. CASE Incr(c)
  BY <1>1 DEF Incr
<1>2. CASE Expire(c)
  BY <1>2 DEF Expire
<1>3. CASE Authorize(c)
  BY <1>3 DEF Authorize
<1>4. CASE Reserve(c)
  BY <1>4 DEF Reserve
<1>5. CASE Charge(c)
  <2>1. PICK g \in Answers(c) :
           Reply(c, IF Reconcile(Expected(c), g, Seen(g.ref)) = "match"
                        THEN "match" ELSE "mismatch")
    BY <1>5 DEF Charge
  <2>2. PICK what \in {"match", "mismatch"} : Reply(c, what)
    BY <2>1
  <2> QED BY <1>5, <2>2 DEF Charge
<1>6. CASE HandlerFails(c)
  BY <1>6 DEF HandlerFails
<1> QED BY <1>1, <1>2, <1>3, <1>4, <1>5, <1>6 DEF Handle

\* What goes on around the agent and /pay moves neither.
LEMMA AroundMovesNone ==
    ASSUME WindowEnds \/ WalletAround \/ RecheckEarlier \/ (\E c \in Call : Recheck(c))
    PROVE  UNCHANGED <<agentVars, row, req, answer>>
BY DEF WindowEnds, WalletAround, RecheckEarlier, Recheck, proxyVars

LEMMA TurnNext == Turn /\ [RunNext]_runVars => Turn'
<1> SUFFICES ASSUME Turn, [RunNext]_runVars PROVE Turn'
  OBVIOUS
<1>1. CASE UNCHANGED <<agentVars, req, answer>>
  BY <1>1 DEF Turn, ReqTypeOK, OneAtATime, agentVars
<1>2. CASE Agent \/ AgentDies
  BY <1>2, TurnAgent
<1>3. ASSUME NEW c \in Call, Handle(c) \/ HandlerFails(c) PROVE Turn'
  BY <1>3, TurnCall
<1>4. CASE WindowEnds \/ WalletAround \/ RecheckEarlier \/ \E c \in Call : Recheck(c)
  BY <1>1, <1>4, AroundMovesNone
<1>5. CASE UNCHANGED runVars
  BY <1>1, <1>5 DEF runVars, proxyVars
<1> QED BY <1>2, <1>3, <1>4, <1>5 DEF RunNext

\* A step that leaves the calls' places in the wallet alone ...
LEMMA BusyStays ==
    ASSUME BusyInPay, \A c \in Call : at'[c] = at[c],
           \A c \in Call : req[c] \in {"authorize", "lost"} => req'[c] = req[c]
    PROVE  BusyInPay'
BY DEF BusyInPay, Busy

LEMMA BusyNext ==
    ASSUME TypeOK, Turn, BusyInPay, [RunNext]_runVars
    PROVE  BusyInPay'
<1> USE DEF Turn, ReqTypeOK
<1>1. CASE Agent \/ AgentDies
  <2>1. UNCHANGED at /\ (UNCHANGED req \/ Send)
    BY <1>1 DEF Agent, Reset, Plan, InitWorkflow, Send, ReadAnswer, Finish, AgentDies, proxyVars,
                vars
  <2>2. \A c \in Call : req[c] \in {"authorize", "lost"} => req'[c] = req[c]
    BY <2>1 DEF Send
  <2> QED BY <2>1, <2>2, BusyStays
<1>2. ASSUME NEW c \in Call, Handle(c) \/ HandlerFails(c) PROVE BusyInPay'
  <2>1. CASE Incr(c) \/ Expire(c) \/ Charge(c)
    <3>1. UNCHANGED at /\ req[c] \notin {"authorize", "lost"}
      BY <2>1 DEF Incr, Expire, Charge, At, vars
    <3>2. \E label \in ReqLabels : req' = [req EXCEPT ![c] = label]
      BY <2>1 DEF Incr, Expire, Charge, Enter, Reply, ReqLabels
    <3> QED BY <3>1, <3>2, BusyStays
  <2>2. CASE Authorize(c)
    <3>1. UNCHANGED req /\ req[c] = "authorize"
      BY <2>2 DEF Authorize, At, proxyVars
    <3>2. \A d \in Call \ {c} : at'[d] = at[d]
      <4>1. \E label : at' = [at EXCEPT ![c] = label]
        BY <2>2 DEF Authorize, GetWallet, ResetSpend, Check, CheckRealBalance, RecordSpend, Goto,
                    Leave
      <4> QED BY <4>1 DEF TypeOK, Client
    <3> QED BY <3>1, <3>2 DEF BusyInPay, Busy
  <2>3. CASE Reserve(c)
    <3>1. UNCHANGED at /\ ~Busy(c)
      BY <2>3 DEF Reserve, vars, Busy, Over
    <3>2. \A d \in Call \ {c} : req'[d] = req[d]
      BY <2>3 DEF Reserve, Enter, Reply
    <3> QED BY <3>1, <3>2 DEF BusyInPay, Busy
  <2>4. CASE HandlerFails(c)
    <3>1. UNCHANGED at /\ req' = [req EXCEPT ![c] = "lost"]
      BY <2>4 DEF HandlerFails, Enter, vars
    <3> QED BY <3>1 DEF BusyInPay, Busy
  <2> QED BY <1>2, <2>1, <2>2, <2>3, <2>4 DEF Handle
<1>3. CASE WindowEnds \/ RecheckEarlier \/ (\E c \in Call : Recheck(c)) \/ UNCHANGED runVars
  <2>1. UNCHANGED at /\ UNCHANGED req
    BY <1>3 DEF WindowEnds, RecheckEarlier, Recheck, runVars, proxyVars, vars
  <2> QED BY <2>1, BusyStays
<1>4. CASE WalletAround
  <2>1. UNCHANGED req
    BY <1>4 DEF WalletAround, proxyVars
  <2>2. \A c \in Call : c \notin Reader /\ c \in Client
    BY WalletAssumption DEF Client
  <2>3. \A c \in Call : at'[c] = at[c]
    BY <1>4, <2>2 DEF WalletAround, GetWallet, ResetSpend, Answer, Midnight, OperatorReset, Goto,
                      Leave, TypeOK
  <2> QED BY <2>1, <2>3, BusyStays
<1> QED BY <1>1, <1>2, <1>3, <1>4 DEF RunNext

\* Through a run of the agent spent_today never passes the daily limit: its calls come
\* one at a time, even when a handler outlives the agent, and the dashboard's reads,
\* the operator's script and midnights may come in between.
THEOREM RunDailyLimitKept == RunSpec => []WithinDaily
<1>1. TypeOK /\ Turn /\ BusyInPay /\ [RunNext]_runVars => Turn' /\ BusyInPay'
  BY TurnNext, BusyNext
<1>2. Turn /\ BusyInPay => OneCallAtATime
  BY DEF Turn, BusyInPay, OneAtATime, OneCallAtATime, InPay
<1>3. RunSpec => []TypeOK
  BY RunUsesWallet, WalletTypes
<1>4. RunSpec => []OneCallAtATime
  BY <1>1, <1>2, <1>3, TurnInit, PTL DEF RunSpec
<1> QED BY <1>4, RunUsesWallet, DailyLimitKept, PTL

(* ---------------- what the planner plans --------------------------------- *)

Before == {p \in Nat \X Nat : p[1] < p[2]}

\* A set of natural numbers has a least one.
LEMMA LeastNatural ==
    ASSUME NEW T \in SUBSET Nat, T # {}
    PROVE  \E k \in T : \A j \in T : k <= j
<1>1. IsWellFoundedOn(Before, Nat)
  <2>1. Before = OpToRel(<, Nat)
    BY DEF OpToRel, Before
  <2> QED BY <2>1, NatLessThanWellFounded
<1>2. \E k \in T : \A j \in T : ~(<<j, k>> \in Before)
  BY <1>1, WFMin
<1>3. ASSUME NEW k \in T, NEW j \in T, ~(<<j, k>> \in Before) PROVE k <= j
  <2>1. <<j, k>> \in Nat \X Nat /\ <<j, k>>[1] = j /\ <<j, k>>[2] = k
    OBVIOUS
  <2>2. ~(j < k)
    BY <1>3, <2>1 DEF Before
  <2> QED BY <2>2
<1> QED BY <1>2, <1>3

\* Counting the members of a set of positions up to each of them counts them off.
LEMMA CountedOff ==
    ASSUME NEW m \in Nat, NEW good \in SUBSET (1 .. m), NEW k \in 1 .. Cardinality(good)
    PROVE  \E i \in good : Cardinality({j \in good : j <= i}) = k
<1> DEFINE UpTo(i) == {j \in good : j <= i}
           size == Cardinality(good)
           f == [i \in good |-> Cardinality(UpTo(i))]
<1>1. IsFiniteSet(good) /\ size \in Nat
  <2>1. IsFiniteSet(1 .. m)
    BY FS_Interval
  <2>2. IsFiniteSet(good)
    BY <2>1, FS_Subset
  <2> QED BY <2>2, FS_CardinalityType
<1>2. ASSUME NEW i \in good
      PROVE  IsFiniteSet(UpTo(i)) /\ Cardinality(UpTo(i)) \in 1 .. size
  <2>1. UpTo(i) \in SUBSET good /\ i \in UpTo(i)
    OBVIOUS
  <2> HIDE DEF UpTo
  <2>2. IsFiniteSet(UpTo(i)) /\ Cardinality(UpTo(i)) <= size
    BY <1>1, <2>1, FS_Subset
  <2>3. Cardinality(UpTo(i)) \in Nat /\ Cardinality(UpTo(i)) # 0
    BY <2>1, <2>2, FS_CardinalityType, FS_EmptySet
  <2> QED BY <1>1, <2>2, <2>3
<1>3. ASSUME NEW i \in good, NEW j \in good, i < j
      PROVE  Cardinality(UpTo(i)) # Cardinality(UpTo(j))
  <2>1. ASSUME NEW x \in good, x <= i PROVE x <= j
    <3>1. x \in Nat /\ i \in Nat /\ j \in Nat
      OBVIOUS
    <3> QED BY <1>3, <2>1, <3>1
  <2>2. UpTo(i) \subseteq UpTo(j) /\ j \in UpTo(j) /\ j \notin UpTo(i)
    <3>1. UpTo(i) \subseteq UpTo(j)
      BY <2>1
    <3>2. i \in Nat /\ j \in Nat
      OBVIOUS
    <3> QED BY <1>3, <3>1, <3>2
  <2>3. IsFiniteSet(UpTo(j))
    BY <1>2
  <2> HIDE DEF UpTo
  <2>4. Cardinality(UpTo(j)) = Cardinality(UpTo(i)) => UpTo(j) = UpTo(i)
    BY <2>2, <2>3, FS_Subset
  <2> QED BY <2>2, <2>4
<1>4. f \in Injection(good, 1 .. size)
  <2>1. f \in [good -> 1 .. size]
    BY <1>2
  <2>2. ASSUME NEW i \in good, NEW j \in good, f[i] = f[j] PROVE i = j
    <3>1. i < j \/ j < i \/ i = j
      OBVIOUS
    <3> QED BY <1>3, <2>2, <3>1
  <2> HIDE DEF f
  <2> QED BY <2>1, <2>2 DEF Injection, IsInjective
<1>5. IsFiniteSet(1 .. size) /\ Cardinality(1 .. size) = size
  <2>1. IsFiniteSet(1 .. size) /\ Cardinality(1 .. size) = IF 1 > size THEN 0 ELSE size - 1 + 1
    BY <1>1, FS_Interval
  <2> QED BY <1>1, <2>1
<1>6. f \in Surjection(good, 1 .. size)
  <2> HIDE DEF f
  <2> QED BY <1>4, <1>5, FS_Injection
<1>7. \E i \in good : f[i] = k
  <2> HIDE DEF f
  <2> QED BY <1>6 DEF Surjection
<1> QED BY <1>7

\* What survives _validate_and_clamp() is a list of calls of the allowed length.
LEMMA ClampedIsPlan ==
    ASSUME NEW raw \in RawPlans
    PROVE  ValidateAndClamp(raw) \in Seq(Call) /\ Len(ValidateAndClamp(raw)) <= MaxItems
<1> DEFINE cut == Least(MaxItems, Len(raw))
           good == {i \in 1 .. cut : raw[i] # Bad}
           Place(k) == CHOOSE i \in good : Cardinality({j \in good : j <= i}) = k
<1>1. PICK k \in 0 .. MaxItems + 1 : raw \in [1 .. k -> Call \cup {Bad}]
  BY DEF RawPlans
<1>2. k \in Nat /\ Len(raw) = k /\ cut \in Nat /\ cut <= k /\ cut <= MaxItems
  BY <1>1, ProcurementAssumption DEF Least
<1>3. \A i \in good : raw[i] \in Call
  BY <1>1, <1>2
<1>4. good \in SUBSET (1 .. cut)
  OBVIOUS
<1>5. Cardinality(good) \in Nat /\ Cardinality(good) <= MaxItems
  <2> HIDE DEF good, cut
  <2>1. cut \in Int
    BY <1>2
  <2>2. IsFiniteSet(1 .. cut) /\ Cardinality(1 .. cut) = IF 1 > cut THEN 0 ELSE cut - 1 + 1
    BY <2>1, FS_Interval
  <2>3. IsFiniteSet(good) /\ Cardinality(good) <= Cardinality(1 .. cut)
    BY <1>4, <2>2, FS_Subset
  <2> QED BY <1>2, <2>2, <2>3, FS_CardinalityType, ProcurementAssumption
<1>6. \A i \in 1 .. Cardinality(good) : Place(i) \in good
  <2> HIDE DEF cut
  <2> QED BY <1>2, <1>4, CountedOff
<1>7. ValidateAndClamp(raw) = [i \in 1 .. Cardinality(good) |-> raw[Place(i)]]
  BY DEF ValidateAndClamp
<1> HIDE DEF good, Place
<1>8. [i \in 1 .. Cardinality(good) |-> raw[Place(i)]] \in [1 .. Cardinality(good) -> Call]
  BY <1>3, <1>6
<1>9. ValidateAndClamp(raw) \in Seq(Call)
  BY <1>5, <1>7, <1>8
<1> QED BY <1>5, <1>7, <1>9

\* _fallback_plan()'s loop ends: its list is the catalog's, up to some item.
LEMMA FallbackIsPlan == FallbackPlan \in Seq(Call) /\ Len(FallbackPlan) <= MaxItems
<1> DEFINE cap == Least(MaxItems, Len(Catalog))
           Cost(k) == Total([i \in 1 .. k |-> Amount[Catalog[i]]])
           Ends(k) == k = cap \/ Cost(k) > Limit
           Stop(k) == Ends(k) /\ \A j \in 1 .. k - 1 : Cost(j) <= Limit
           stops == {k \in 1 .. cap : Ends(k)}
<1>1. cap \in Nat \ {0} /\ cap <= MaxItems /\ cap <= Len(Catalog)
  BY ProcurementAssumption DEF Least
<1>2. ASSUME NEW k \in 1 .. cap PROVE Cost(k) \in Nat
  <2>1. IsFiniteSet(1 .. k)
    BY <1>1, FS_Interval
  <2>2. [i \in 1 .. k |-> Amount[Catalog[i]]] \in [1 .. k -> Nat]
    BY <1>1, WalletAssumption, ProcurementAssumption
  <2> QED BY <2>1, <2>2, TotalNat
<1> HIDE DEF Cost
<1>3. \E k \in 1 .. cap : Stop(k)
  <2>1. stops \in SUBSET Nat /\ cap \in stops
    BY <1>1
  <2>2. PICK k \in stops : \A j \in stops : k <= j
    BY <2>1, LeastNatural
  <2>3. ASSUME NEW j \in 1 .. k - 1 PROVE Cost(j) <= Limit
    <3>1. j \in 1 .. cap /\ j \notin stops
      BY <1>1, <2>2
    <3> QED BY <1>2, <3>1, ProcurementAssumption
  <2> QED BY <2>2, <2>3
<1> DEFINE last == CHOOSE k \in 1 .. cap : Stop(k)
<1>4. last \in 1 .. cap
  BY <1>3
<1>5. FallbackPlan = SubSeq(Catalog, 1, last)
  BY DEF FallbackPlan, Cost
<1> HIDE DEF last, cap
<1> QED BY <1>1, <1>4, <1>5, ProcurementAssumption

(* ---------------- types -------------------------------------------------- *)

\* What a gateway answers: a 200 with no error, or a failure.
LEMMA AnswerFields ==
    ASSUME NEW c \in Call, NEW g \in Answers(c)
    PROVE  /\ g.amount \in Nat /\ g.status \in {"settled", "pending", "failed"}
           /\ \/ g.code = 200 /\ g.error = ""
              \/ g.code \in {502, 503} /\ g.error = "" /\ g.status = "failed"
              \/ g.code \in {408, 504} /\ g.error = "timeout" /\ g.status = "failed"
           /\ g.status = "pending" =>
                 /\ c \in Real
                 /\ g \in Accepted(c, {"settled", "failed", "pending"}, Charged[c], {"expected"})
<1>1. Amount[c] \in Nat /\ Charged[c] \subseteq Nat
  BY WalletAssumption, ProcurementAssumption
<1>2. CASE c \in Real
  <2>1. \/ g \in Accepted(c, {"settled", "failed", "pending"}, Charged[c], {"expected"})
        \/ g = Failed(c, 502, "")
    BY <1>2 DEF Answers
  <2>2. CASE g \in Accepted(c, {"settled", "failed", "pending"}, Charged[c], {"expected"})
    BY <1>1, <1>2, <2>2 DEF Accepted
  <2>3. CASE g = Failed(c, 502, "")
    BY <1>1, <2>3 DEF Failed, Gate
  <2> QED BY <2>1, <2>2, <2>3
<1>3. CASE c \notin Real
  <2>1. \/ g \in Accepted(c, {"settled"}, Charged[c], {"expected", "other"})
        \/ g = Failed(c, 504, "timeout") \/ g = Failed(c, 408, "timeout")
        \/ g = Failed(c, 503, "")
    BY <1>3 DEF Answers
  <2>2. CASE g \in Accepted(c, {"settled"}, Charged[c], {"expected", "other"})
    BY <1>1, <2>2 DEF Accepted
  <2>3. CASE g = Failed(c, 504, "timeout")
    BY <1>1, <2>3 DEF Failed, Gate
  <2>4. CASE g = Failed(c, 408, "timeout")
    BY <1>1, <2>4 DEF Failed, Gate
  <2>5. CASE g = Failed(c, 503, "")
    BY <1>1, <2>5 DEF Failed, Gate
  <2> QED BY <2>1, <2>2, <2>3, <2>4, <2>5
<1> QED BY <1>2, <1>3

\* RunTypeOK by the part a step can disturb.
AgentTyped ==
    /\ agent \in AgentLabels /\ try \in 1 .. 2
    /\ plan \in Seq(Call) /\ Len(plan) <= (IF Driver = "script" THEN 3 ELSE MaxItems)
    /\ n \in Nat \ {0} /\ clean \in BOOLEAN /\ total \in Nat /\ complete \in BOOLEAN
ProxyTyped ==
    /\ row \in BOOLEAN /\ used \in Int
    /\ count \in 0 .. MaxCalls + 1 /\ armed \in BOOLEAN
    /\ req \in [Call -> ReqLabels] /\ answer \in [Call -> AnswerLabels]
    /\ left \in Nat /\ slipped \in Nat
GatesTyped ==
    /\ gate = [c \in Call |-> gate[c]]
    /\ \A c \in Call : gate[c] \in Answers(c) \cup {NoGate(c)}

\* Only the planner's agent plans; the agent waits for one of its plan's calls.
AgentPlaced ==
    /\ agent = "plan" => Driver = "planner"
    /\ agent = "wait" => n <= Len(plan)

RunTyped == Dated /\ AgentTyped /\ ProxyTyped /\ GatesTyped /\ AgentPlaced

LEMMA RunTypedInit == RunInit => RunTyped
<1> SUFFICES ASSUME RunInit PROVE RunTyped
  OBVIOUS
<1> USE WalletAssumption, ProcurementAssumption DEF RunInit
<1>1. Dated
  BY WalletInit DEF Counting
<1>2. used \in Int /\ count \in 0 .. MaxCalls + 1 /\ row \in BOOLEAN /\ armed \in BOOLEAN
      /\ left \in Nat /\ slipped \in Nat
  OBVIOUS
<1>3. AgentTyped
  <2>1. plan \in Seq(Call) /\ Len(plan) = 0
    OBVIOUS
  <2>2. Len(plan) <= (IF Driver = "script" THEN 3 ELSE MaxItems)
    BY <2>1
  <2>3. agent \in AgentLabels /\ try \in 1 .. 2 /\ n \in Nat \ {0} /\ total \in Nat
    BY DEF AgentLabels
  <2>4. clean \in BOOLEAN /\ complete \in BOOLEAN
    OBVIOUS
  <2> QED BY <2>1, <2>2, <2>3, <2>4 DEF AgentTyped
<1>4. ProxyTyped
  BY <1>2 DEF ProxyTyped, ReqLabels, AnswerLabels
<1>5. GatesTyped
  BY DEF GatesTyped
<1>6. AgentPlaced
  BY DEF AgentPlaced
<1> QED BY <1>1, <1>3, <1>4, <1>5, <1>6 DEF RunTyped

LEMMA TypedAgent ==
    ASSUME RunTyped, Agent \/ AgentDies
    PROVE  AgentTyped' /\ ProxyTyped' /\ GatesTyped' /\ AgentPlaced'
<1>1. GatesTyped'
  <2>1. UNCHANGED gate
    BY DEF Agent, Reset, Plan, InitWorkflow, Send, ReadAnswer, Finish, AgentDies, proxyVars
  <2> QED BY <2>1 DEF RunTyped, GatesTyped
<1> USE WalletAssumption, ProcurementAssumption
    DEF RunTyped, AgentTyped, ProxyTyped, AgentPlaced, AgentLabels, ReqLabels, proxyVars,
        leftVars
<1>2. CASE Reset
  <2>1. Driver = "script" => ScriptPlan \in Seq(Call) /\ Len(ScriptPlan) = 3
    BY DEF ScriptPlan
  <2>2. plan' \in Seq(Call) /\ Len(plan') <= (IF Driver = "script" THEN 3 ELSE MaxItems)
    <3>1. CASE Driver = "script"
      <4>1. plan' = ScriptPlan
        BY <1>2, <3>1 DEF Reset
      <4>2. ScriptPlan \in Seq(Call) /\ Len(ScriptPlan) = 3
        BY <2>1, <3>1
      <4>3. plan' \in Seq(Call) /\ Len(plan') = 3
        BY <4>1, <4>2
      <4> QED BY <3>1, <4>3
    <3>2. CASE Driver = "planner"
      BY <1>2, <3>2 DEF Reset
    <3> QED BY <3>1, <3>2
  <2>3. AgentTyped' /\ AgentPlaced'
    BY <1>2, <2>2 DEF Reset
  <2>4. ProxyTyped'
    <3>1. row' \in BOOLEAN /\ used' = 0 /\ slipped' = 0
          /\ UNCHANGED <<count, armed, req, answer, left>>
      BY <1>2 DEF Reset
    <3> QED BY <3>1
  <2> QED BY <1>1, <2>3, <2>4
<1>3. CASE Plan
  <2>1. plan' \in Seq(Call) /\ (Len(plan') <= MaxItems \/ plan' = plan)
    BY <1>3, ClampedIsPlan, FallbackIsPlan DEF Plan
  <2> QED BY <1>1, <1>3, <2>1 DEF Plan
<1>4. CASE InitWorkflow
  BY <1>1, <1>4 DEF InitWorkflow
<1>5. CASE Send
  BY <1>1, <1>5 DEF Send
<1>6. CASE ReadAnswer
  <2>1. plan[n] \in Call
    BY <1>6 DEF ReadAnswer
  <2>2. Amount[plan[n]] \in Nat
    BY <2>1
  <2>3. total' \in Nat /\ n' \in Nat \ {0} /\ agent' \in {"stopped", "pay"}
    BY <1>6, <2>2 DEF ReadAnswer, Counts
  <2>4. clean' \in BOOLEAN
    BY <1>6 DEF ReadAnswer
  <2>5. UNCHANGED <<try, plan, complete, proxyVars>>
    BY <1>6 DEF ReadAnswer
  <2> QED BY <1>1, <2>3, <2>4, <2>5
<1>7. CASE Finish
  BY <1>1, <1>7 DEF Finish
<1>8. CASE AgentDies
  BY <1>1, <1>8 DEF AgentDies
<1> QED BY <1>2, <1>3, <1>4, <1>5, <1>6, <1>7, <1>8 DEF Agent

LEMMA GatesStay ==
    ASSUME GatesTyped, UNCHANGED gate
    PROVE  GatesTyped'
BY DEF GatesTyped

LEMMA TypedCall ==
    ASSUME RunTyped, NEW c \in Call, Handle(c) \/ HandlerFails(c)
    PROVE  ProxyTyped' /\ GatesTyped' /\ UNCHANGED agentVars
<1> USE WalletAssumption, ProcurementAssumption, GatesStay
    DEF RunTyped, ProxyTyped, proxyVars, leftVars, ReqLabels, AnswerLabels, At, Enter, Reply
<1>1. CASE Incr(c)
  <2>1. count' \in 0 .. MaxCalls + 1
    BY <1>1 DEF Incr, Least
  <2> QED BY <1>1, <2>1 DEF Incr
<1>2. CASE Expire(c)
  BY <1>2 DEF Expire
<1>3. CASE Authorize(c)
  BY <1>3 DEF Authorize
<1>4. CASE Reserve(c)
  <2>1. Amount[c] \in Nat
    OBVIOUS
  <2>2. used' \in Int
    BY <1>4, <2>1 DEF Reserve
  <2>3. req' \in [Call -> ReqLabels] /\ answer' \in [Call -> AnswerLabels]
    BY <1>4 DEF Reserve
  <2>4. UNCHANGED <<agentVars, row, count, armed, gate, leftVars>>
    BY <1>4 DEF Reserve
  <2> QED BY <2>2, <2>3, <2>4
<1>5. CASE Charge(c)
  <2>1. PICK g \in Answers(c) :
          /\ gate' = [gate EXCEPT ![c] = g]
          /\ used' = CASE g.status = "settled" -> used + (g.amount - Amount[c])
                       [] g.status = "pending" -> used
                       [] OTHER                -> used - Amount[c]
          /\ Reply(c, IF Reconcile(Expected(c), g, Seen(g.ref)) = "match"
                      THEN "match" ELSE "mismatch")
    BY <1>5 DEF Charge
  <2>2. PICK what \in {"match", "mismatch"} : Reply(c, what)
    BY <2>1
  <2>3. used' \in Int
    <3>1. /\ g.amount \in Nat
          /\ Amount[c] \in Nat /\ used \in Int
      <4>1. g.amount \in Nat
        BY AnswerFields
      <4> QED BY <4>1
    <3>2. g.status \in {"settled", "pending", "failed"}
      BY AnswerFields
    <3>3. CASE g.status = "settled"
      BY <2>1, <3>1, <3>3
    <3>4. CASE g.status = "pending"
      BY <2>1, <3>1, <3>4
    <3>5. CASE g.status = "failed"
      BY <2>1, <3>1, <3>5
    <3> QED BY <3>2, <3>3, <3>4, <3>5
  <2>4. GatesTyped'
    BY <2>1 DEF GatesTyped
  <2>5. UNCHANGED <<agentVars, row, count, armed, leftVars>>
    BY <1>5 DEF Charge
  <2> QED BY <2>2, <2>3, <2>4, <2>5
<1>6. CASE HandlerFails(c)
  BY <1>6 DEF HandlerFails
<1> QED BY <1>1, <1>2, <1>3, <1>4, <1>5, <1>6 DEF Handle

\* The worker's word on a pending payout is one of the gateway's answers.
LEMMA TypedRecheck ==
    ASSUME RunTyped, NEW c \in Call, Recheck(c)
    PROVE  ProxyTyped' /\ GatesTyped' /\ UNCHANGED agentVars
<1>1. Amount[c] \in Nat /\ gate[c].status = "pending"
  BY WalletAssumption DEF Recheck
<1>2. gate[c] \in Answers(c)
  <2>1. NoGate(c).status = "none"
    BY DEF NoGate, Gate
  <2>2. gate[c] # NoGate(c)
    BY <1>1, <2>1
  <2> QED BY <2>2 DEF RunTyped, GatesTyped
<1>3. /\ c \in Real
      /\ gate[c] \in Accepted(c, {"settled", "failed", "pending"}, Charged[c], {"expected"})
  BY <1>1, <1>2, AnswerFields
<1>4. PICK status \in {"settled", "failed"} : gate' = [gate EXCEPT ![c].status = status]
  BY DEF Recheck
<1>5. gate'[c] \in Answers(c) /\ gate' = [d \in Call |-> gate'[d]]
      /\ \A d \in Call \ {c} : gate'[d] = gate[d]
  <2>1. gate'[c] = [gate[c] EXCEPT !.status = status]
    BY <1>4 DEF RunTyped, GatesTyped
  <2>2. gate'[c] \in Accepted(c, {"settled", "failed", "pending"}, Charged[c], {"expected"})
    BY <1>3, <2>1 DEF Accepted
  <2>3. gate' = [d \in Call |-> gate'[d]] /\ \A d \in Call \ {c} : gate'[d] = gate[d]
    BY <1>4 DEF RunTyped, GatesTyped
  <2> QED BY <1>3, <2>2, <2>3 DEF Answers
<1>6. GatesTyped'
  <2>1. \A d \in Call : Answers(d)' = Answers(d) /\ NoGate(d)' = NoGate(d)
    BY DEF Answers, Accepted, Failed, NoGate, Gate
  <2> QED BY <1>5, <2>1 DEF RunTyped, GatesTyped
<1>7. ProxyTyped'
  BY <1>1 DEF Recheck, RunTyped, ProxyTyped, leftVars
<1> QED BY <1>6, <1>7 DEF Recheck

LEMMA RunTypedNext == RunTyped /\ [RunNext]_runVars => RunTyped'
<1> SUFFICES ASSUME RunTyped, [RunNext]_runVars PROVE RunTyped'
  OBVIOUS
<1>1. Dated'
  <2>1. [Next]_vars
    BY StepOfWallet DEF runVars
  <2> QED BY <2>1, WalletTypeNext DEF RunTyped
<1>2. UNCHANGED agentVars => AgentTyped' /\ AgentPlaced'
  BY DEF RunTyped, AgentTyped, AgentPlaced, agentVars
<1>3. CASE UNCHANGED <<agentVars, row, req, gate, answer>> /\ count' \in {0, count}
           /\ armed' \in BOOLEAN /\ used' \in Int /\ left' \in Nat /\ slipped' \in Nat
  BY <1>1, <1>2, <1>3, GatesStay, ProcurementAssumption DEF RunTyped, ProxyTyped
<1>4. CASE Agent \/ AgentDies
  BY <1>1, <1>4, TypedAgent DEF RunTyped
<1>5. ASSUME NEW c \in Call, Handle(c) \/ HandlerFails(c) PROVE RunTyped'
  BY <1>1, <1>2, <1>5, TypedCall DEF RunTyped
<1>6. CASE WindowEnds \/ WalletAround \/ RecheckEarlier \/ UNCHANGED runVars
  <2>1. UNCHANGED <<agentVars, row, req, gate, answer>>
    BY <1>6 DEF WindowEnds, WalletAround, RecheckEarlier, proxyVars, runVars
  <2>2. count' \in {0, count} /\ left' \in {0, left} /\ (armed' = FALSE \/ armed' = armed)
    BY <1>6 DEF WindowEnds, WalletAround, RecheckEarlier, proxyVars, leftVars, runVars
  <2>3. /\ used' \in {used, used - left} /\ slipped' \in {slipped, slipped + left}
        /\ used \in Int /\ slipped \in Nat /\ left \in Nat /\ armed \in BOOLEAN
    BY <1>6 DEF WindowEnds, WalletAround, RecheckEarlier, proxyVars, leftVars, runVars, RunTyped,
                ProxyTyped
  <2>4. used' \in Int /\ slipped' \in Nat
    BY <2>3
  <2>5. left' \in Nat
    BY <2>2, <2>3
  <2>6. armed' \in BOOLEAN
    BY <2>2, <2>3, Zenon
  <2> QED BY <1>3, <2>1, <2>2, <2>4, <2>5, <2>6
<1>7. ASSUME NEW c \in Call, Recheck(c) PROVE RunTyped'
  BY <1>1, <1>2, <1>7, TypedRecheck DEF RunTyped
<1> QED BY <1>4, <1>5, <1>6, <1>7 DEF RunNext

LEMMA TypedIsTypeOK == RunTyped => RunTypeOK
BY DEF RunTyped, Dated, AgentTyped, ProxyTyped, GatesTyped, RunTypeOK

\* The types of a run, whatever the planner's model returns and whoever drives:
\* among them that a plan is a list of catalog calls no longer than the code allows.
THEOREM RunTypes == RunSpec => []RunTypeOK
BY RunTypedInit, RunTypedNext, TypedIsTypeOK, PTL DEF RunSpec

(* ---------------- the two rule modules ----------------------------------- *)

\* The first two checks report a hard error, and an answer that is put down to
\* the network fails one of them.
LEMMA NetworkFaultIsError ==
    ASSUME NEW c \in Call, NEW g \in Answers(c), NEW seen, ClassifyFault(g) = "network_fault"
    PROVE  Reconcile(Expected(c), g, seen) = "hard_error"
<1> DEFINE checks == Checks(Expected(c), g, seen)
           failing == {i \in DOMAIN checks : checks[i].fails}
           first == CHOOSE i \in failing : \A j \in failing : i <= j
<1>1. DOMAIN checks = 1 .. 7 /\ checks[1].as = "hard_error" /\ checks[2].as = "hard_error"
  BY DEF Checks
<1>2. g.error = "timeout" \/ g.code \in {502, 503}
  <2>1. g.error \in NetworkErrorTypes \/ g.code \in NetworkStatusCodes
    BY DEF ClassifyFault
  <2>2. \/ g.code = 200 /\ g.error = ""
        \/ g.code \in {502, 503} /\ g.error = "" /\ g.status = "failed"
        \/ g.code \in {408, 504} /\ g.error = "timeout" /\ g.status = "failed"
    BY AnswerFields
  <2>3. CASE g.code = 200 /\ g.error = ""
    <3>1. g.error \notin NetworkErrorTypes
      BY <2>3 DEF NetworkErrorTypes
    <3>2. g.code \notin NetworkStatusCodes
      <4>1. 200 \notin NetworkStatusCodes
        BY DEF NetworkStatusCodes
      <4> QED BY <2>3, <4>1
    <3> QED BY <2>1, <3>1, <3>2
  <2> QED BY <2>2, <2>3
<1>3. 1 \in failing \/ 2 \in failing
  <2>1. /\ checks[1].fails = (g.error \in {"timeout", "connection_reset", "network_error",
                                         "mandate_limit_exceeded"})
        /\ checks[2].fails = (g.code >= 400)
    BY DEF Checks
  <2>2. checks[1].fails \/ checks[2].fails
    <3>1. CASE g.error = "timeout"
      BY <2>1, <3>1
    <3>2. CASE g.code = 502
      <4>1. 502 >= 400
        OBVIOUS
      <4> QED BY <2>1, <3>2, <4>1
    <3>3. CASE g.code = 503
      <4>1. 503 >= 400
        OBVIOUS
      <4> QED BY <2>1, <3>3, <4>1
    <3> QED BY <1>2, <3>1, <3>2, <3>3
  <2> HIDE DEF checks
  <2> QED BY <1>1, <2>2
<1>4. failing \in SUBSET Nat
  BY <1>1
<1>5. first \in failing /\ \A j \in failing : first <= j
  <2> HIDE DEF failing
  <2>1. \E i \in failing : \A j \in failing : i <= j
    BY <1>3, <1>4, LeastNatural
  <2> QED BY <2>1
<1>6. first \in {1, 2}
  <2> HIDE DEF first
  <2> QED BY <1>1, <1>3, <1>5
<1>7. Reconcile(Expected(c), g, seen) = checks[first].as
  <2>1. failing # {}
    BY <1>3
  <2> QED BY <2>1 DEF Reconcile
<1> HIDE DEF checks, first
<1> QED BY <1>1, <1>6, <1>7

\* Whatever a gateway answers, what classify_fault() would put down to the network
\* reconcile() has reported as an error, not as a match and no softer mismatch.
THEOREM NetworkFaultsReported == RunSpec => []NetworkFaultsAreErrors
<1>1. RunTyped => NetworkFaultsAreErrors
  BY NetworkFaultIsError DEF RunTyped, GatesTyped, NetworkFaultsAreErrors
<1> QED BY RunTypedInit, RunTypedNext, <1>1, PTL DEF RunSpec

(* ---------------- no payment after a refusal ----------------------------- *)

\* The agent never gets past a refused call.
RefusedIsLast ==
    \A c \in Call : answer[c] = "refused" =>
        /\ agent \in {"wait", "stopped", "crashed"} /\ c = plan[n]
        /\ req[c] = "answered"
Lone == Turn /\ RefusedIsLast

LEMMA LoneInit == RunInit => Lone
BY TurnInit DEF RunInit, Lone, RefusedIsLast

LEMMA LoneAgent ==
    ASSUME Driver = "planner", Lone, Agent \/ AgentDies
    PROVE  RefusedIsLast'
<1> USE DEF Lone, Turn, ReqTypeOK, OneAtATime, RefusedIsLast, InPay, proxyVars
<1>1. CASE Reset
  BY <1>1 DEF Reset
<1>2. CASE Plan
  BY <1>2 DEF Plan
<1>3. CASE InitWorkflow
  BY <1>3 DEF InitWorkflow
<1>4. CASE Send
  BY <1>4 DEF Send
<1>5. CASE ReadAnswer
  BY <1>5 DEF ReadAnswer, Counts
<1>6. CASE Finish
  BY <1>6 DEF Finish
<1>7. CASE AgentDies
  BY <1>7 DEF AgentDies
<1> QED BY <1>1, <1>2, <1>3, <1>4, <1>5, <1>6, <1>7 DEF Agent

LEMMA LoneCall ==
    ASSUME Lone, NEW c \in Call, Handle(c) \/ HandlerFails(c)
    PROVE  RefusedIsLast'
<1> USE DEF Lone, Turn, ReqTypeOK, OneAtATime, RefusedIsLast, InPay, agentVars, proxyVars, At,
            Enter, Reply
<1>1. req[c] \in InPay
  BY DEF Handle, Incr, Expire, Authorize, Reserve, Charge, HandlerFails
<1>2. agent \in {"wait", "crashed"} /\ c = plan[n] /\ UNCHANGED <<agent, plan, n>>
  BY <1>1 DEF Handle, Incr, Expire, Authorize, Reserve, Charge, HandlerFails
<1>3. \A d \in Call \ {c} : req'[d] = req[d] /\ answer'[d] = answer[d]
  BY DEF Handle, Incr, Expire, Authorize, Reserve, Charge, HandlerFails
<1>4. answer'[c] = answer[c] \/ req'[c] = "answered"
  BY DEF Handle, Incr, Expire, Authorize, Reserve, Charge, HandlerFails
<1>5. answer[c] # "refused"
  BY <1>1
<1> QED BY <1>2, <1>3, <1>4, <1>5

LEMMA LoneNext == Driver = "planner" /\ Lone /\ [RunNext]_runVars => Lone'
<1> SUFFICES ASSUME Driver = "planner", Lone, [RunNext]_runVars PROVE Lone'
  OBVIOUS
<1>1. Turn'
  BY TurnNext DEF Lone
<1>2. CASE UNCHANGED <<agentVars, req, answer>>
  BY <1>1, <1>2 DEF Lone, RefusedIsLast, agentVars
<1>3. CASE Agent \/ AgentDies
  BY <1>1, <1>3, LoneAgent DEF Lone
<1>4. ASSUME NEW c \in Call, Handle(c) \/ HandlerFails(c) PROVE Lone'
  BY <1>1, <1>4, LoneCall DEF Lone
<1>5. CASE WindowEnds \/ WalletAround \/ RecheckEarlier \/ \E c \in Call : Recheck(c)
  BY <1>2, <1>5, AroundMovesNone
<1>6. CASE UNCHANGED runVars
  BY <1>2, <1>6 DEF runVars, proxyVars
<1> QED BY <1>3, <1>4, <1>5, <1>6 DEF RunNext

(* ---------------- a complete workflow is a paid one ---------------------- *)

\* reconcile() reports a match only if every field is as expected and settled.
LEMMA MatchIsPaid ==
    ASSUME NEW c \in Call, NEW g, NEW seen,
           Reconcile(Expected(c), g, seen) = "match"
    PROVE  g.status = "settled" /\ g.amount = Amount[c] /\ g.payee = "expected"
<1> DEFINE checks == Checks(Expected(c), g, seen)
           failing == {i \in DOMAIN checks : checks[i].fails}
<1>1. DOMAIN checks = 1 .. 7 /\ \A i \in 1 .. 7 : checks[i].as # "match"
  BY DEF Checks
<1>2. checks[3].fails = (Amount[c] # g.amount) /\ checks[4].fails = ("expected" # g.payee)
      /\ checks[6].fails = (g.status # "settled")
  BY DEF Checks, Expected
<1>3. failing = {}
  <2> SUFFICES ASSUME failing # {} PROVE FALSE
    OBVIOUS
  <2>1. failing \in SUBSET (1 .. 7)
    BY <1>1
  <2>2. \E i \in failing : \A j \in failing : i <= j
    BY <2>1, LeastNatural
  <2>3. (CHOOSE i \in failing : \A j \in failing : i <= j) \in 1 .. 7
    BY <2>1, <2>2
  <2>4. Reconcile(Expected(c), g, seen)
           = checks[CHOOSE i \in failing : \A j \in failing : i <= j].as
    BY DEF Reconcile
  <2> QED BY <1>1, <2>3, <2>4
<1>4. ~checks[3].fails /\ ~checks[4].fails /\ ~checks[6].fails
  BY <1>1, <1>3
<1> HIDE DEF checks
<1> QED BY <1>2, <1>4

InCatalog == plan \in Seq(Call)

AnswersHold ==
    /\ gate = [c \in Call |-> gate[c]]
    /\ \A c \in Call :
          /\ (answer[c] # "none") <=> (req[c] = "answered")
          /\ answer[c] = "match" => PaidInFull(c)
          /\ gate[c].status = "pending" => answer[c] = "mismatch"
PrefixPaid ==
    InCatalog /\ clean =>
        \A i \in DOMAIN plan : i < n => answer[plan[i]] \in {"match", "throttled"}
AgentHolds ==
    /\ n \in Nat \ {0}
    /\ agent \in {"reset", "plan"} => n = 1
    /\ complete => agent = "done" /\ clean /\ n > Len(plan)
Paid == Lone /\ AnswersHold /\ PrefixPaid /\ AgentHolds

LEMMA PaidInit == RunInit => Paid
<1> SUFFICES ASSUME RunInit PROVE Paid
  OBVIOUS
<1>1. AnswersHold
  BY DEF RunInit, AnswersHold, NoGate, Gate
<1>2. plan = <<>> /\ n = 1 /\ complete = FALSE /\ clean = TRUE
  BY DEF RunInit
<1>3. PrefixPaid
  BY <1>2 DEF PrefixPaid
<1>4. AgentHolds
  <2>1. n \in Nat \ {0}
    BY <1>2
  <2> QED BY <1>2, <2>1 DEF AgentHolds
<1> QED BY LoneInit, <1>1, <1>3, <1>4 DEF Paid

LEMMA PaidAgent ==
    ASSUME Driver = "planner", Paid, Agent \/ AgentDies
    PROVE  AnswersHold' /\ PrefixPaid' /\ AgentHolds'
<1> USE DEF Paid, AgentHolds, PrefixPaid, InCatalog
<1>1. AnswersHold'
  <2>1. UNCHANGED <<answer, gate>> /\ (Send \/ UNCHANGED req)
    BY DEF Agent, Reset, Plan, InitWorkflow, Send, ReadAnswer, Finish, AgentDies, proxyVars
  <2>2. CASE UNCHANGED req
    BY <2>1, <2>2 DEF AnswersHold, PaidInFull
  <2>3. CASE Send
    BY <2>1, <2>3 DEF Send, AnswersHold, PaidInFull, Lone, Turn, ReqTypeOK
  <2> QED BY <2>1, <2>2, <2>3
<1>2. CASE Reset
  <2>1. UNCHANGED <<plan, n, clean, complete, answer>> /\ n = 1 /\ ~complete
    BY <1>2 DEF Reset
  <2>2. PrefixPaid'
    BY <2>1
  <2>3. AgentHolds'
    BY <2>1
  <2> QED BY <1>1, <2>2, <2>3
<1>3. CASE Plan
  <2>1. n = 1 /\ UNCHANGED <<n, clean, complete, answer>> /\ agent' \in {"plan", "init"}
        /\ ~complete
    BY <1>3 DEF Plan, proxyVars
  <2>2. PrefixPaid'
    BY <2>1
  <2> QED BY <1>1, <2>1, <2>2
<1>4. CASE InitWorkflow \/ Send \/ AgentDies
  <2>1. UNCHANGED <<plan, n, clean, complete, answer>> /\ ~complete
        /\ agent' \in {"pay", "wait", "crashed"}
    BY <1>4 DEF InitWorkflow, Send, AgentDies, proxyVars
  <2>2. PrefixPaid'
    BY <2>1
  <2>3. AgentHolds'
    BY <2>1
  <2> QED BY <1>1, <2>2, <2>3
<1>5. CASE ReadAnswer
  <2>1. UNCHANGED <<plan, complete, req, answer>> /\ agent = "wait" /\ req[plan[n]] = "answered"
    BY <1>5 DEF ReadAnswer, proxyVars
  <2>2. CASE answer[plan[n]] = "refused"
    BY <1>1, <1>5, <2>1, <2>2 DEF ReadAnswer
  <2>3. CASE answer[plan[n]] # "refused"
    <3>1. n' = n + 1 /\ agent' = "pay" /\ clean' = (clean /\ answer[plan[n]] # "mismatch")
      BY <1>5, <2>3 DEF ReadAnswer, Counts
    <3>2. PrefixPaid'
      <4> SUFFICES ASSUME InCatalog, clean', NEW i \in DOMAIN plan, i < n + 1
                   PROVE  answer[plan[i]] \in {"match", "throttled"}
        BY <2>1, <3>1
      <4>1. CASE i < n
        BY <3>1, <4>1
      <4>2. CASE i = n
        <5>1. plan[n] \in Call
          BY <4>2
        <5>2. answer[plan[n]] \in AnswerLabels \ {"none", "mismatch", "refused"}
          BY <5>1, <2>1, <2>3, <3>1 DEF AnswersHold, Lone, Turn, ReqTypeOK
        <5> QED BY <4>2, <5>2 DEF AnswerLabels
      <4> QED BY <4>1, <4>2
    <3> QED BY <1>1, <2>1, <3>1, <3>2
  <2> QED BY <2>2, <2>3
<1>6. CASE Finish
  BY <1>1, <1>6 DEF Finish, proxyVars
<1> QED BY <1>1, <1>2, <1>3, <1>4, <1>5, <1>6 DEF Agent

\* What a step of call c does to the calls' answers.
Others(c) ==
    \A d \in Call \ {c} :
        req'[d] = req[d] /\ answer'[d] = answer[d] /\ gate'[d] = gate[d]
Mine(c) ==
    /\ (answer'[c] # "none") <=> (req'[c] = "answered")
    /\ answer'[c] = "match" => PaidInFull(c)'
    /\ gate'[c].status = "pending" => answer'[c] = "mismatch"

LEMMA CallAnswers ==
    ASSUME Lone, AnswersHold, NEW c \in Call, Handle(c) \/ HandlerFails(c)
    PROVE  /\ req[c] # "answered" /\ answer[c] = "none"
           /\ Others(c) /\ Mine(c) /\ gate' = [d \in Call |-> gate'[d]]
<1> USE DEF AnswersHold, Lone, Turn, ReqTypeOK, ReqLabels, At, Enter, Reply, InPay, Others, Mine
<1>1. CASE Incr(c)
  BY <1>1 DEF Incr
<1>2. CASE Expire(c) \/ HandlerFails(c)
  BY <1>2 DEF Expire, HandlerFails
<1>3. CASE Authorize(c)
  BY <1>3 DEF Authorize, proxyVars
<1>4. CASE Reserve(c)
  BY <1>4 DEF Reserve
<1>5. CASE Charge(c)
  <2>1. PICK g \in Answers(c) :
          /\ gate' = [gate EXCEPT ![c] = g]
          /\ Reply(c, IF Reconcile(Expected(c), g, Seen(g.ref)) = "match"
                        THEN "match" ELSE "mismatch")
    BY <1>5 DEF Charge
  <2>2. gate' = [d \in Call |-> gate'[d]] /\ gate'[c] = g
    BY <2>1
  <2>3. PICK what \in {"match", "mismatch"} :
          /\ Reply(c, what)
          /\ what = "match" => Reconcile(Expected(c), g, Seen(g.ref)) = "match"
    BY <2>1
  <2>4. what = "match" => PaidInFull(c)' /\ gate'[c].status # "pending"
    BY <2>2, <2>3, MatchIsPaid DEF PaidInFull
  <2>5. answer' = [answer EXCEPT ![c] = what] /\ req' = [req EXCEPT ![c] = "answered"]
    BY <2>3
  <2>6. Mine(c)
    BY <2>4, <2>5
  <2>7. Others(c)
    BY <2>1, <2>5
  <2>8. req[c] = "charge"
    BY <1>5 DEF Charge
  <2> QED BY <2>2, <2>6, <2>7, <2>8
<1> QED BY <1>1, <1>2, <1>3, <1>4, <1>5 DEF Handle

LEMMA PaidCall ==
    ASSUME Paid, NEW c \in Call, Handle(c) \/ HandlerFails(c)
    PROVE  AnswersHold' /\ PrefixPaid' /\ AgentHolds'
<1>1. UNCHANGED agentVars
  BY DEF Handle, Incr, Expire, Authorize, Reserve, Charge, HandlerFails
<1>2. req[c] # "answered" /\ answer[c] = "none"
      /\ Others(c) /\ Mine(c) /\ gate' = [d \in Call |-> gate'[d]]
  BY CallAnswers DEF Paid
<1>3. AnswersHold'
  BY <1>2 DEF Paid, AnswersHold, Others, Mine, PaidInFull
<1>4. PrefixPaid'
  <2> SUFFICES ASSUME InCatalog, clean, NEW i \in DOMAIN plan, i < n
               PROVE  answer'[plan[i]] \in {"match", "throttled"}
    BY <1>1 DEF PrefixPaid, InCatalog, agentVars
  <2>1. plan[i] \in Call /\ answer[plan[i]] \in {"match", "throttled"}
    BY DEF Paid, PrefixPaid, InCatalog
  <2> QED BY <1>2, <2>1 DEF Others
<1>5. AgentHolds'
  BY <1>1 DEF Paid, AgentHolds, agentVars
<1> QED BY <1>3, <1>4, <1>5

LEMMA PaidNext == Driver = "planner" /\ Paid /\ [RunNext]_runVars => Paid'
<1> SUFFICES ASSUME Driver = "planner", Paid, [RunNext]_runVars PROVE Paid'
  OBVIOUS
<1>1. Lone'
  BY LoneNext DEF Paid
<1>2. CASE UNCHANGED <<agentVars, req, gate, answer>>
  BY <1>1, <1>2 DEF Paid, AnswersHold, PrefixPaid, AgentHolds, InCatalog, agentVars, PaidInFull
<1>3. CASE Agent \/ AgentDies
  BY <1>1, <1>3, PaidAgent DEF Paid
<1>4. ASSUME NEW c \in Call, Handle(c) \/ HandlerFails(c) PROVE Paid'
  BY <1>1, <1>4, PaidCall DEF Paid
<1>5. CASE WindowEnds \/ WalletAround \/ RecheckEarlier
  BY <1>2, <1>5 DEF WindowEnds, WalletAround, RecheckEarlier, agentVars, proxyVars
<1>6. ASSUME NEW c \in Call, Recheck(c) PROVE Paid'
  <2>1. UNCHANGED <<agentVars, req, answer>> /\ gate[c].status = "pending"
    BY <1>6 DEF Recheck
  <2>2. gate' = [d \in Call |-> gate'[d]] /\ \A d \in Call \ {c} : gate'[d] = gate[d]
    BY <1>6 DEF Recheck, Paid, AnswersHold
  <2>3. AnswersHold'
    BY <2>1, <2>2 DEF Paid, AnswersHold, PaidInFull
  <2> QED BY <1>1, <2>1, <2>3 DEF Paid, PrefixPaid, AgentHolds, InCatalog, agentVars
<1>7. CASE UNCHANGED runVars
  BY <1>2, <1>7 DEF runVars, proxyVars
<1> QED BY <1>3, <1>4, <1>5, <1>6, <1>7 DEF RunNext

\* After a refusal only the worker writes to the gateways' answers, and only about
\* payouts that were made before.
LEMMA PaysNoMore ==
    ASSUME Paid, [RunNext]_runVars
    PROVE  Refused # {} => Paying' \subseteq Paying
<1> SUFFICES ASSUME Refused # {} PROVE Paying' \subseteq Paying
  OBVIOUS
<1>1. CASE UNCHANGED gate
  BY <1>1 DEF Paying
<1>2. PICK c \in Call : answer[c] = "refused"
  BY DEF Refused
<1>3. ASSUME NEW d \in Call, Charge(d) PROVE FALSE
  BY <1>2, <1>3 DEF Paid, Lone, Turn, OneAtATime, RefusedIsLast, Charge, At, InPay
<1>4. CASE Agent \/ AgentDies
  BY <1>1, <1>4 DEF Agent, Reset, Plan, InitWorkflow, Send, ReadAnswer, Finish, AgentDies,
                    proxyVars
<1>5. ASSUME NEW d \in Call, Handle(d) \/ HandlerFails(d) PROVE UNCHANGED gate
  BY <1>3, <1>5 DEF Handle, Incr, Expire, Authorize, Reserve, HandlerFails, proxyVars
<1>6. ASSUME NEW d \in Call, Recheck(d) PROVE Paying' \subseteq Paying
  <2>1. gate[d].status = "pending" /\ \A e \in Call \ {d} : gate'[e] = gate[e]
    BY <1>6 DEF Recheck, Paid, AnswersHold
  <2> QED BY <2>1 DEF Paying
<1>7. CASE WindowEnds \/ WalletAround \/ RecheckEarlier \/ UNCHANGED runVars
  BY <1>1, <1>7 DEF WindowEnds, WalletAround, RecheckEarlier, runVars, proxyVars
<1> QED BY <1>1, <1>4, <1>5, <1>6, <1>7 DEF RunNext

\* A planner run sets no more money in motion once it is refused, even if it has
\* crashed: to the ledger that the saga of the refusal reads, only the worker's word
\* on payouts made before can be added.
THEOREM RefusalIsTheLast ==
    Driver = "planner" => (RunSpec => NothingPaidAfterRefusal)
<1> SUFFICES ASSUME Driver = "planner" PROVE RunSpec => NothingPaidAfterRefusal
  OBVIOUS
<1>1. RunInit => Paid
  BY PaidInit
<1>2. Paid /\ [RunNext]_runVars => Paid'
  BY PaidNext
<1>3. Paid /\ [RunNext]_runVars => [Refused # {} => Paying' \subseteq Paying]_runVars
  BY PaysNoMore
<1> QED BY <1>1, <1>2, <1>3, PTL DEF RunSpec, NothingPaidAfterRefusal

\* A planner run that is reported complete has paid, in full and to the payee it
\* meant, whatever the rate limit let through.
THEOREM CompleteIsPaid == Driver = "planner" => (RunSpec => []CompleteMeansPaid)
<1> SUFFICES ASSUME Driver = "planner" PROVE RunSpec => []CompleteMeansPaid
  OBVIOUS
<1>1. RunInit => Paid
  BY PaidInit
<1>2. Paid /\ [RunNext]_runVars => Paid'
  BY PaidNext
<1>3. Paid /\ RunTypeOK => CompleteMeansPaid
  <2> SUFFICES ASSUME Paid, RunTypeOK, complete, NEW i \in DOMAIN plan
               PROVE  PaidInFull(plan[i]) \/ answer[plan[i]] = "throttled"
    BY DEF CompleteMeansPaid
  <2>1. InCatalog /\ plan[i] \in Call
    BY DEF RunTypeOK, InCatalog
  <2>2. answer[plan[i]] \in {"match", "throttled"}
    BY <2>1 DEF Paid, AgentHolds, PrefixPaid, InCatalog
  <2> QED BY <2>1, <2>2 DEF Paid, AnswersHold
<1> QED BY <1>1, <1>2, <1>3, RunTypes, PTL DEF RunSpec

(* ---------------- what is reported is what was spent --------------------- *)

\* The calls the agent has counted into its total, what of the budget the calls
\* hold, and what the rate limit kept from it.
Counted(c) == \E i \in DOMAIN plan : i < n /\ plan[i] = c
Counts1(c) == IF Counted(c) THEN Amount[c] ELSE 0
Holds1(c) == IF req[c] = "charge" \/ answer[c] = "match" THEN Amount[c] ELSE 0
Spares1(c) == IF answer[c] = "throttled" THEN Amount[c] ELSE 0
CountedOf == [c \in Call |-> Counts1(c)]
HeldOf == [c \in Call |-> Holds1(c)]
SparedOf == [c \in Call |-> Spares1(c)]

\* The agent sends its calls one by one and counts each of them once.
SentInOrder ==
    /\ agent \in {"reset", "plan", "init"} => n = 1 /\ \A c \in Call : req[c] = "idle"
    /\ \A c \in Call : req[c] # "idle" =>
          \/ Counted(c)
          \/ agent \in {"wait", "stopped", "crashed"} /\ n \in DOMAIN plan /\ c = plan[n]
    /\ \A c \in Call : Counted(c) => req[c] = "answered"
    /\ agent = "wait" => ~Counted(plan[n])
TotalIsCounted == total = Total(CountedOf)
\* After the reset the budget is what the calls hold, less what an earlier run's
\* payout took from it, until one of them goes wrong.
NoneAstray == \A c \in Call : answer[c] # "mismatch" /\ req[c] # "lost"
UsedIsHeld == agent # "reset" /\ NoneAstray => used + slipped = Total(HeldOf)

Spends == Paid /\ RunTyped /\ SentInOrder /\ TotalIsCounted /\ UsedIsHeld

LEMMA SharesNat ==
    /\ CountedOf \in [Call -> Nat] /\ HeldOf \in [Call -> Nat] /\ SparedOf \in [Call -> Nat]
    /\ CountedOf' \in [Call -> Nat] /\ HeldOf' \in [Call -> Nat]
BY WalletAssumption DEF CountedOf, HeldOf, SparedOf, Counts1, Holds1, Spares1

\* Nothing is counted while the first call is still to come.
LEMMA NoneCounted ==
    ASSUME plan \in Seq(Call), n = 1
    PROVE  (\A c \in Call : ~Counted(c)) /\ Total(CountedOf) = 0
<1>1. \A c \in Call : ~Counted(c)
  BY DEF Counted
<1>2. \A c \in Call : CountedOf[c] = 0
  BY <1>1 DEF CountedOf, Counts1
<1> QED BY <1>1, <1>2, SharesNat, TotalZero

LEMMA SpendsInit == RunInit => Spends
<1> SUFFICES ASSUME RunInit PROVE Spends
  OBVIOUS
<1>1. Paid /\ RunTyped
  BY PaidInit, RunTypedInit
<1>2. n = 1 /\ plan \in Seq(Call) /\ agent = "reset" /\ total = 0
      /\ \A c \in Call : req[c] = "idle"
  BY DEF RunInit
<1>3. (\A c \in Call : ~Counted(c)) /\ Total(CountedOf) = 0
  BY <1>2, NoneCounted
<1>4. SentInOrder /\ TotalIsCounted /\ UsedIsHeld
  BY <1>2, <1>3 DEF SentInOrder, TotalIsCounted, UsedIsHeld
<1> QED BY <1>1, <1>4 DEF Spends

\* A step that moves no shares and counts nothing.
LEMMA SharesStay ==
    ASSUME Spends, UNCHANGED <<plan, n, total>>,
           \/ agent' = "reset" \/ ~NoneAstray'
           \/ /\ agent # "reset" /\ NoneAstray /\ UNCHANGED <<used, slipped>>
              /\ \A c \in Call : Holds1(c)' = Holds1(c)
    PROVE  TotalIsCounted' /\ UsedIsHeld'
<1>1. TotalIsCounted'
  BY DEF Spends, TotalIsCounted, CountedOf, Counts1, Counted
<1>2. CASE /\ agent # "reset" /\ NoneAstray /\ UNCHANGED <<used, slipped>>
           /\ \A c \in Call : Holds1(c)' = Holds1(c)
  <2>1. HeldOf' = HeldOf
    BY <1>2 DEF HeldOf
  <2> QED BY <1>1, <1>2, <2>1 DEF Spends, UsedIsHeld
<1> QED BY <1>1, <1>2 DEF UsedIsHeld

LEMMA SpendsAgent ==
    ASSUME Driver = "planner", Spends, Agent \/ AgentDies, RunTyped'
    PROVE  SentInOrder' /\ TotalIsCounted' /\ UsedIsHeld'
<1> USE DEF proxyVars, leftVars
<1>1. /\ plan \in Seq(Call) /\ plan' \in Seq(Call) /\ n \in Nat \ {0} /\ total \in Nat
      /\ req \in [Call -> ReqLabels]
      /\ \A c \in Call : (answer[c] # "none") <=> (req[c] = "answered")
  BY DEF Spends, RunTyped, AgentTyped, ProxyTyped, Paid, AnswersHold
<1>2. CASE Reset
  <2>1. /\ n = 1 /\ agent' = "plan" /\ used' = 0 /\ slipped' = 0
        /\ UNCHANGED <<plan, n, total, req, answer>> /\ \A c \in Call : req[c] = "idle"
    BY <1>2 DEF Reset, Spends, SentInOrder
  <2>2. SentInOrder' /\ TotalIsCounted'
    BY <2>1 DEF Spends, SentInOrder, TotalIsCounted, CountedOf, Counts1, Counted
  <2>3. \A c \in Call : HeldOf'[c] = 0
    BY <1>1, <2>1 DEF HeldOf, Holds1
  <2>4. Total(HeldOf') = 0
    BY <2>3, SharesNat, TotalZero
  <2>5. Total(HeldOf)' = 0
    BY <2>4 DEF Total, Units
  <2> QED BY <2>1, <2>2, <2>5 DEF UsedIsHeld
<1>3. CASE Plan
  <2>1. /\ n = 1 /\ n' = 1 /\ agent = "plan" /\ agent' \in {"plan", "init"}
        /\ UNCHANGED <<n, total, req, answer, used, slipped>> /\ \A c \in Call : req[c] = "idle"
    BY <1>3 DEF Plan, Spends, SentInOrder
  <2>2. (\A c \in Call : ~Counted(c)) /\ Total(CountedOf) = 0
    BY <1>1, <2>1, NoneCounted
  <2>3. \A c \in Call : ~Counted(c)'
    BY <1>1, <2>1 DEF Counted
  <2>4. CountedOf' = CountedOf
    BY <2>2, <2>3 DEF CountedOf, Counts1
  <2>5. TotalIsCounted'
    BY <2>1, <2>4 DEF Spends, TotalIsCounted
  <2>6. SentInOrder'
    BY <2>1, <2>3 DEF SentInOrder
  <2>7. UsedIsHeld'
    BY <2>1 DEF Spends, UsedIsHeld, NoneAstray, HeldOf, Holds1
  <2> QED BY <2>5, <2>6, <2>7
<1>4. CASE InitWorkflow \/ Finish \/ AgentDies
  <2>1. /\ UNCHANGED <<plan, n, total, req, answer, used, slipped>>
        /\ agent # "reset" /\ agent' # "reset"
        /\ \/ agent = "init" /\ agent' = "pay"
           \/ agent = "pay" /\ agent' = "done"
           \/ agent = "wait" /\ agent' = "crashed"
    BY <1>4 DEF InitWorkflow, Finish, AgentDies
  <2>2. \A c \in Call : Counted(c)' = Counted(c)
    BY <2>1 DEF Counted
  <2>3. SentInOrder'
    BY <2>1, <2>2 DEF Spends, SentInOrder
  <2>4. TotalIsCounted' /\ UsedIsHeld'
    BY <2>1 DEF Spends, TotalIsCounted, CountedOf, Counts1, Counted, UsedIsHeld, NoneAstray,
                HeldOf, Holds1
  <2> QED BY <2>3, <2>4
<1>5. CASE Send
  <2> DEFINE c == plan[n]
  <2>1. /\ agent = "pay" /\ agent' = "wait" /\ n \in DOMAIN plan /\ c \in Call /\ req[c] = "idle"
        /\ req' = [req EXCEPT ![c] = "incr"]
        /\ UNCHANGED <<plan, n, total, answer, used, slipped>>
    BY <1>1, <1>5 DEF Send
  <2>2. \A d \in Call : Counted(d)' = Counted(d)
    BY <2>1 DEF Counted
  <2>3. ~Counted(c)
    BY <2>1 DEF Spends, SentInOrder
  <2>4. req'[c] = "incr" /\ \A d \in Call \ {c} : req'[d] = req[d]
    BY <1>1, <2>1
  <2>5. SentInOrder'
    BY <2>1, <2>2, <2>3, <2>4 DEF Spends, SentInOrder
  <2>6. \A d \in Call : Holds1(d)' = Holds1(d)
    BY <2>1, <2>4 DEF Holds1
  <2>7. NoneAstray' => NoneAstray
    BY <2>1, <2>4 DEF NoneAstray
  <2> QED BY <2>1, <2>5, <2>6, <2>7, SharesStay
<1>6. CASE ReadAnswer
  <2> DEFINE c == plan[n]
  <2>1. /\ agent = "wait" /\ n \in DOMAIN plan /\ c \in Call /\ req[c] = "answered"
        /\ UNCHANGED <<plan, req, answer, used, slipped>>
    BY <1>1, <1>6 DEF ReadAnswer, Spends, RunTyped, AgentPlaced
  <2>2. \A d \in Call : Holds1(d)' = Holds1(d)
    BY <2>1 DEF Holds1
  <2>3. HeldOf' = HeldOf
    BY <2>2 DEF HeldOf
  <2>4. agent' # "reset" /\ UsedIsHeld'
    BY <1>6, <2>1, <2>3 DEF ReadAnswer, Counts, Spends, UsedIsHeld, NoneAstray
  <2>5. CASE answer[c] = "refused"
    <3>1. UNCHANGED <<n, total>> /\ agent' = "stopped"
      BY <1>6, <2>5 DEF ReadAnswer
    <3>2. \A d \in Call : Counted(d)' = Counted(d)
      BY <2>1, <3>1 DEF Counted
    <3>3. SentInOrder'
      BY <2>1, <3>1, <3>2 DEF Spends, SentInOrder
    <3>4. TotalIsCounted'
      BY <2>1, <3>1 DEF Spends, TotalIsCounted, CountedOf, Counts1, Counted
    <3> QED BY <2>4, <3>3, <3>4
  <2>6. CASE answer[c] # "refused"
    <3>1. total' = total + Amount[c] /\ n' = n + 1 /\ agent' = "pay"
      BY <1>6, <2>6 DEF ReadAnswer, Counts
    <3>2. \A d \in Call : Counted(d)' <=> Counted(d) \/ d = c
      BY <1>1, <2>1, <3>1 DEF Counted
    <3>3. ~Counted(c)
      BY <2>1 DEF Spends, SentInOrder
    <3>4. SentInOrder'
      BY <2>1, <3>1, <3>2 DEF Spends, SentInOrder
    <3>5. /\ CountedOf[c] = 0 /\ CountedOf'[c] = Amount[c]
          /\ \A d \in Call \ {c} : CountedOf'[d] = CountedOf[d]
      BY <2>1, <3>2, <3>3 DEF CountedOf, Counts1
    <3> HIDE DEF c
    <3>6. Total(CountedOf') = Total(CountedOf) - CountedOf[c] + CountedOf'[c]
      BY <2>1, <3>5, SharesNat, WalletAssumption, TotalUpdate
    <3>7. Total(CountedOf)' = Total(CountedOf')
      BY DEF Total, Units
    <3>8. Total(CountedOf) = total
      BY DEF Spends, TotalIsCounted
    <3>9. TotalIsCounted'
      BY <1>1, <2>1, <3>1, <3>5, <3>6, <3>7, <3>8, WalletAssumption DEF TotalIsCounted
    <3> QED BY <2>4, <3>4, <3>9
  <2> QED BY <2>5, <2>6
<1> QED BY <1>2, <1>3, <1>4, <1>5, <1>6 DEF Agent

\* What a step of call c does to the budget and to its own share of it.
LEMMA CallSpends ==
    ASSUME Spends, NEW c \in Call, Handle(c) \/ HandlerFails(c), NoneAstray'
    PROVE  /\ Holds1(c) \in Nat /\ Holds1(c)' \in Nat /\ used \in Int
           /\ used' = used - Holds1(c) + Holds1(c)'
<1>1. /\ Amount[c] \in Nat /\ used \in Int
      /\ req \in [Call -> ReqLabels] /\ answer \in [Call -> AnswerLabels]
  BY WalletAssumption DEF Spends, RunTyped, ProxyTyped
<1>2. answer[c] = "none" /\ req[c] \in InPay
  <2>1. req[c] \in InPay
    BY DEF Handle, Incr, Expire, Authorize, Reserve, Charge, HandlerFails, At, InPay
  <2> QED BY <2>1 DEF Spends, Paid, AnswersHold, InPay
<1>3. Holds1(c) \in Nat /\ Holds1(c)' \in Nat
  BY <1>1 DEF Holds1
<1>4. ASSUME used' = used, req[c] # "charge", req'[c] # "charge", answer'[c] # "match"
      PROVE  used' = used - Holds1(c) + Holds1(c)'
  BY <1>1, <1>2, <1>4 DEF Holds1
<1>5. CASE Incr(c)
  <2>1. used' = used /\ req[c] = "incr" /\ req'[c] # "charge" /\ answer'[c] # "match"
    BY <1>1, <1>2, <1>5 DEF Incr, At, Enter, Reply
  <2> QED BY <1>1, <1>3, <1>4, <2>1
<1>6. CASE Expire(c) \/ Authorize(c)
  <2>1. used' = used /\ req[c] \in {"expire", "authorize"} /\ req'[c] # "charge"
        /\ answer'[c] # "match"
    BY <1>1, <1>2, <1>6 DEF Expire, Authorize, At, Enter, proxyVars
  <2> QED BY <1>1, <1>3, <1>4, <2>1
<1>7. CASE HandlerFails(c)
  <2>1. req'[c] = "lost"
    BY <1>1, <1>7 DEF HandlerFails, Enter
  <2> QED BY <2>1 DEF NoneAstray
<1>8. CASE Reserve(c)
  <2>1. req[c] = "authorize"
    BY <1>8 DEF Reserve, At
  <2>2. CASE Reply(c, "refused") /\ UNCHANGED used
    <3>1. req'[c] = "answered" /\ answer'[c] = "refused"
      BY <1>1, <2>2 DEF Reply, Enter
    <3> QED BY <1>1, <1>3, <1>4, <2>1, <2>2, <3>1
  <2>3. CASE used' = used + Amount[c] /\ Enter(c, "charge") /\ UNCHANGED answer
    <3>1. req'[c] = "charge"
      BY <1>1, <2>3 DEF Enter
    <3>2. Holds1(c)' = Amount[c] /\ Holds1(c) = 0
      BY <1>2, <2>1, <3>1 DEF Holds1
    <3> QED BY <1>1, <2>3, <3>2
  <2> QED BY <1>8, <2>2, <2>3 DEF Reserve
<1>9. CASE Charge(c)
  <2>1. PICK g \in Answers(c) :
          /\ used' = CASE g.status = "settled" -> used + (g.amount - Amount[c])
                       [] g.status = "pending" -> used
                       [] OTHER                -> used - Amount[c]
          /\ Reply(c, IF Reconcile(Expected(c), g, Seen(g.ref)) = "match"
                      THEN "match" ELSE "mismatch")
    BY <1>9 DEF Charge
  <2>2. Reconcile(Expected(c), g, Seen(g.ref)) = "match"
    <3>1. answer' = [answer EXCEPT ![c] = IF Reconcile(Expected(c), g, Seen(g.ref)) = "match"
                                          THEN "match" ELSE "mismatch"]
      BY <2>1 DEF Reply
    <3>2. answer'[c] # "mismatch"
      BY DEF NoneAstray
    <3> QED BY <1>1, <3>1, <3>2
  <2>3. g.status = "settled" /\ g.amount = Amount[c]
    BY <2>2, MatchIsPaid
  <2>4. used' = used
    BY <1>1, <2>1, <2>3
  <2>5. req[c] = "charge" /\ answer'[c] = "match"
    BY <1>1, <1>9, <2>1, <2>2 DEF Charge, At, Reply
  <2>6. Holds1(c) = Amount[c] /\ Holds1(c)' = Amount[c]
    BY <2>5 DEF Holds1
  <2> QED BY <1>1, <2>4, <2>6
<1> QED BY <1>1, <1>3, <1>5, <1>6, <1>7, <1>8, <1>9 DEF Handle

LEMMA SpendsCall ==
    ASSUME Spends, NEW c \in Call, Handle(c) \/ HandlerFails(c)
    PROVE  SentInOrder' /\ TotalIsCounted' /\ UsedIsHeld'
<1>1. UNCHANGED agentVars
  BY DEF Handle, Incr, Expire, Authorize, Reserve, Charge, HandlerFails
<1>2. UNCHANGED <<agent, plan, n, total>>
  BY <1>1 DEF agentVars
<1>3. req[c] \in InPay /\ req'[c] # "idle"
      /\ \A d \in Call \ {c} : req'[d] = req[d] /\ answer'[d] = answer[d]
  <2>1. req \in [Call -> ReqLabels] /\ answer \in [Call -> AnswerLabels]
    BY DEF Spends, RunTyped, ProxyTyped
  <2>2. \A d \in Call \ {c} : req'[d] = req[d] /\ answer'[d] = answer[d]
    BY CallAnswers DEF Spends, Paid, Others
  <2>3. req[c] \in InPay
    BY DEF Handle, Incr, Expire, Authorize, Reserve, Charge, HandlerFails, At, InPay
  <2>4. req' = req \/ \E label \in ReqLabels \ {"idle"} : req' = [req EXCEPT ![c] = label]
    BY DEF Handle, Incr, Expire, Authorize, Reserve, Charge, HandlerFails, Reply, Enter, ReqLabels,
           proxyVars
  <2> QED BY <2>1, <2>2, <2>3, <2>4 DEF InPay
<1>4. req[c] # "idle" /\ req[c] # "answered" /\ ~Counted(c)
  BY <1>3 DEF Spends, SentInOrder, InPay
<1>5. \A d \in Call : Counted(d)' = Counted(d)
  BY <1>2 DEF Counted
<1>6. SentInOrder'
  BY <1>2, <1>3, <1>4, <1>5 DEF Spends, SentInOrder
<1>7. TotalIsCounted'
  BY <1>2 DEF Spends, TotalIsCounted, CountedOf, Counts1, Counted
<1>9. UNCHANGED slipped
  BY DEF Handle, Incr, Expire, Authorize, Reserve, Charge, HandlerFails, proxyVars, leftVars
<1>8. ASSUME agent # "reset", NoneAstray' PROVE used' + slipped' = Total(HeldOf)'
  <2>1. answer[c] = "none"
    BY <1>4 DEF Spends, Paid, AnswersHold
  <2>2. NoneAstray
    BY <1>3, <1>8, <2>1 DEF NoneAstray, InPay
  <2>3. used + slipped = Total(HeldOf) /\ slipped \in Nat /\ slipped' = slipped
    BY <1>8, <1>9, <2>2 DEF Spends, UsedIsHeld, RunTyped, ProxyTyped
  <2>4. /\ used \in Int /\ Holds1(c) \in Nat /\ Holds1(c)' \in Nat
        /\ used' = used - Holds1(c) + Holds1(c)'
    BY <1>8, CallSpends
  <2>5. /\ HeldOf[c] = Holds1(c) /\ HeldOf'[c] = Holds1(c)'
        /\ \A d \in Call \ {c} : HeldOf'[d] = HeldOf[d]
    BY <1>3 DEF HeldOf, Holds1
  <2>6. Total(HeldOf') = Total(HeldOf) - HeldOf[c] + HeldOf'[c]
    BY <2>5, SharesNat, WalletAssumption, TotalUpdate
  <2>7. Total(HeldOf)' = Total(HeldOf')
    BY DEF Total, Units
  <2> QED BY <2>3, <2>4, <2>5, <2>6, <2>7
<1> QED BY <1>2, <1>6, <1>7, <1>8 DEF UsedIsHeld

LEMMA SpendsNext == Driver = "planner" /\ Spends /\ [RunNext]_runVars => Spends'
<1> SUFFICES ASSUME Driver = "planner", Spends, [RunNext]_runVars PROVE Spends'
  OBVIOUS
<1>1. Paid' /\ RunTyped'
  BY PaidNext, RunTypedNext DEF Spends
<1>2. CASE /\ UNCHANGED <<agentVars, req, answer>>
           /\ used' + slipped' = used + slipped \/ ~NoneAstray
  BY <1>1, <1>2 DEF Spends, SentInOrder, TotalIsCounted, CountedOf, Counts1, Counted, UsedIsHeld,
                    NoneAstray, HeldOf, Holds1, agentVars
<1>3. CASE Agent \/ AgentDies
  BY <1>1, <1>3, SpendsAgent DEF Spends
<1>4. ASSUME NEW c \in Call, Handle(c) \/ HandlerFails(c) PROVE Spends'
  BY <1>1, <1>4, SpendsCall DEF Spends
<1>5. CASE WindowEnds \/ WalletAround \/ UNCHANGED runVars
  BY <1>2, <1>5 DEF WindowEnds, WalletAround, agentVars, proxyVars, leftVars, runVars
<1>6. ASSUME NEW c \in Call, Recheck(c) PROVE Spends'
  <2>1. UNCHANGED <<agentVars, req, answer>> /\ answer[c] = "mismatch"
    BY <1>6 DEF Recheck, Spends, Paid, AnswersHold
  <2> QED BY <1>2, <2>1 DEF NoneAstray
<1>7. CASE RecheckEarlier
  <2>1. used \in Int /\ slipped \in Nat /\ left \in Nat
    BY DEF Spends, RunTyped, ProxyTyped
  <2>2. used' + slipped' = used + slipped
    BY <1>7, <2>1 DEF RecheckEarlier
  <2> QED BY <1>2, <1>7, <2>2 DEF RecheckEarlier
<1> QED BY <1>3, <1>4, <1>5, <1>6, <1>7 DEF RunNext

\* In a complete run each call that was made is counted, and either matched and
\* holds its amount or was spared by the rate limit.
LEMMA CompleteAddsUp ==
    ASSUME Spends, complete
    PROVE  total = used + slipped + Total(SparedOf)
<1>1. /\ plan \in Seq(Call) /\ n \in Nat \ {0} /\ agent = "done" /\ clean /\ n > Len(plan)
      /\ req \in [Call -> ReqLabels]
  BY DEF Spends, RunTyped, AgentTyped, ProxyTyped, Paid, AgentHolds
<1>2. \A c \in Call : (answer[c] # "none") <=> (req[c] = "answered")
  BY DEF Spends, Paid, AnswersHold
<1>3. \A c \in Call : Counted(c) => answer[c] \in {"match", "throttled"} /\ req[c] = "answered"
  BY <1>1 DEF Spends, Paid, PrefixPaid, InCatalog, Counted, SentInOrder
<1>4. \A c \in Call : ~Counted(c) => answer[c] = "none" /\ req[c] = "idle"
  BY <1>1, <1>2 DEF Spends, SentInOrder
<1>5. NoneAstray
  BY <1>3, <1>4 DEF NoneAstray
<1>6. used + slipped = Total(HeldOf) /\ total = Total(CountedOf)
  BY <1>1, <1>5 DEF Spends, UsedIsHeld, TotalIsCounted
<1>7. \A c \in Call : \/ HeldOf[c] = 0 /\ CountedOf[c] = SparedOf[c]
                      \/ SparedOf[c] = 0 /\ CountedOf[c] = HeldOf[c]
  BY <1>3, <1>4 DEF HeldOf, Holds1, CountedOf, Counts1, SparedOf, Spares1
<1>8. Total(CountedOf) = Total(HeldOf) + Total(SparedOf)
  BY <1>7, SharesNat, WalletAssumption, TotalDisjoint
<1> QED BY <1>6, <1>8

\* The total a planner run reports is what the budget has spent on it, what the
\* release of an earlier run's payout took from it and what the rate limit kept
\* back: no payment is counted twice, none of an earlier run.
THEOREM ReportIsExact == Driver = "planner" => (RunSpec => []ReportedIsSpent)
<1> SUFFICES ASSUME Driver = "planner" PROVE RunSpec => []ReportedIsSpent
  OBVIOUS
<1>1. Spends /\ [RunNext]_runVars => Spends'
  BY SpendsNext
<1>2. Spends => ReportedIsSpent
  BY CompleteAddsUp DEF ReportedIsSpent, SparedOf, Spares1
<1> QED BY SpendsInit, <1>1, <1>2, PTL DEF RunSpec

===============================================================================
