----------------------------- MODULE MCServices -----------------------------
(***************************************************************************)
(* Four parts of the server that share no state, on small instances.  An   *)
(* execution is one of one of them: running two at the same time would     *)
(* multiply their states and show nothing of either that it does not show  *)
(* alone.                                                                  *)
(***************************************************************************)
EXTENDS Wallets, Custody, Platform, Backups, TLC

VARIABLE component

vars == <<walletState, custodyState, platformState, backupState, budgetVars, component>>

AlikeCalls == Permutations(Calls)

\* What a part may start with is left open only where it is looked at.
Init ==
  /\ component \in {"wallets", "custody", "platform", "backups"}
  /\ WalletInit /\ CustodyInit /\ PlatformInit /\ BackupInit
  /\ component # "wallets" => \A u \in Users : account[u].pub = 0
  /\ component # "custody" => available

Next ==
  /\ UNCHANGED component
  /\ \/ /\ component = "wallets" /\ WalletNext
        /\ UNCHANGED <<custodyState, platformState, backupState>>
     \/ /\ component = "custody" /\ CustodyNext
        /\ UNCHANGED <<walletState, platformState, backupState>>
     \/ /\ component = "platform" /\ PlatformNext
        /\ UNCHANGED <<walletState, custodyState, backupState>>
     \/ /\ component = "backups" /\ BackupNext
        /\ UNCHANGED <<walletState, custodyState, platformState>>

Spec == Init /\ [][Next]_vars

\* Every variable of the part that runs keeps its type.
ServicesTypeOK ==
  CASE component = "wallets"  -> WalletTypeOK
    [] component = "custody"  -> CustodyTypeOK
    [] component = "platform" -> PlatformTypeOK
    [] component = "backups"  -> BackupTypeOK
=============================================================================
