------------------------------- MODULE MCPolicy ------------------------------
(* Instances of PolicyStream for TLC. *)
EXTENDS PolicyStream

CONSTANTS e1, e2

===============================================================================
