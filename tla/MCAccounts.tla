----------------------------- MODULE MCAccounts -----------------------------
(* Accounts on a small instance: a verifier and a collector are there at     *)
(* the start, and the requests served at once are alike.                     *)
EXTENDS Accounts, TLC

CONSTANTS Verifier, Collector   \* their phone numbers

AlikeCalls == Permutations(Calls)

TwoAccounts ==
  (Verifier :> UserRow("VERIFIER", "ACTIVE", "APPROVED"))
    @@ (Collector :> UserRow("COLLECTOR", "ACTIVE", "PENDING"))
=============================================================================
