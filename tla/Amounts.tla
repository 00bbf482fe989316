------------------------------- MODULE Amounts -------------------------------
(***************************************************************************)
(* Totals of amounts of money over a finite set of payments.               *)
(*                                                                         *)
(* A total is the number of units of money there are: the cardinality of   *)
(* the set that holds one pair <<x, k>> for each unit k of each x.  Written*)
(* this way the facts a proof needs about a total follow from facts about  *)
(* finite sets (module AmountsProofs), with no induction over the set.     *)
(***************************************************************************)
EXTENDS Integers, FiniteSets

\* One element per unit of money that f assigns.
Units(f) == UNION {{x} \X (1 .. f[x]) : x \in DOMAIN f}

\* The sum of f[x] over the domain of f.
Total(f) == Cardinality(Units(f))

===============================================================================
