------------------------------- MODULE UndoPlan ------------------------------
(***************************************************************************)
(* What the durable record of a compensation promises, with no graph,      *)
(* queue or worker in it: a plan of steps to undo is drawn up once; from   *)
(* then on the plan is fixed, and verdicts are only ever added, one per    *)
(* step, in the order of the plan.                                         *)
(***************************************************************************)
EXTENDS Integers, Sequences

CONSTANT Steps

VARIABLES plan, verdicts

vars == <<plan, verdicts>>

Covers(vs, p) ==
    /\ Len(vs) <= Len(p)
    /\ \A i \in 1 .. Len(vs) : vs[i].step = p[i]

Init == plan = <<>> /\ verdicts = <<>>

\* Some steps at the front of what is left get their verdicts.
Advance ==
    /\ plan # <<>> => plan' = plan
    /\ plan' \in Seq(Steps)
    /\ \A i, j \in 1 .. Len(plan') : plan'[i] = plan'[j] => i = j
    /\ Len(verdicts) <= Len(verdicts')
    /\ \A i \in 1 .. Len(verdicts) : verdicts'[i] = verdicts[i]
    /\ Covers(verdicts', plan')

Spec == Init /\ [][Advance]_vars

===============================================================================
