------------------------------- MODULE MCWallet ------------------------------
(* Instances of WalletAuth for TLC. *)
EXTENDS WalletAuth, TLC

CONSTANTS c1, c2, c3, d1

\* Two calls fit into a day, three do not.
Amounts3 == c1 :> 2 @@ c2 :> 2 @@ c3 :> 3

===============================================================================
