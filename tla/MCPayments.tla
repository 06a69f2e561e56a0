----------------------------- MODULE MCPayments -----------------------------
(* Payments on small instances: the requests served at once are alike.      *)
EXTENDS Payments, TLC

AlikeCalls == Permutations(Calls)
=============================================================================
