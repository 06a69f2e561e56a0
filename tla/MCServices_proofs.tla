------------------------- MODULE MCServices_proofs -------------------------
(***************************************************************************)
(* The parts of the server that MCServices runs side by side: each of its  *)
(* executions is one of the part it starts with, so what is proved of the  *)
(* parts holds of them.                                                    *)
(***************************************************************************)
EXTENDS MCServices, Wallets_proofs, Custody_proofs, Platform_proofs, Backups_proofs

\* Wallets alone.
LEMMA WalletsRun == Spec /\ component = "wallets" => WalletSpec /\ [](component = "wallets")
<1>1. Init /\ component = "wallets" => WalletInit
  BY DEF Init
<1>2. component = "wallets" /\ [Next]_vars => (component = "wallets")' /\ [WalletNext]_walletVars
  BY DEF Next, vars, walletVars
<1> QED
  BY <1>1, <1>2, PTL DEF Spec, WalletSpec

\* Custody alone.
LEMMA CustodyRuns == Spec /\ component = "custody" => CustodySpec /\ [](component = "custody")
<1>1. Init /\ component = "custody" => CustodyInit
  BY DEF Init
<1>2. component = "custody" /\ [Next]_vars => (component = "custody")' /\ [CustodyNext]_custodyVars
  BY DEF Next, vars, custodyVars
<1> QED
  BY <1>1, <1>2, PTL DEF Spec, CustodySpec

\* The platform's figures, cache and limits alone.
LEMMA PlatformRuns == Spec /\ component = "platform" => PlatformSpec /\ [](component = "platform")
<1>1. Init /\ component = "platform" => PlatformInit
  BY DEF Init
<1>2. component = "platform" /\ [Next]_vars =>
        (component = "platform")' /\ [PlatformNext]_platformVars
  BY DEF Next, vars, platformVars
<1> QED
  BY <1>1, <1>2, PTL DEF Spec, PlatformSpec

\* Backups alone.
LEMMA BackupsRun == Spec /\ component = "backups" => BackupSpec /\ [](component = "backups")
<1>1. Init /\ component = "backups" => BackupInit
  BY DEF Init
<1>2. component = "backups" /\ [Next]_vars => (component = "backups")' /\ [BackupNext]_backupVars
  BY DEF Next, vars, backupVars
<1> QED
  BY <1>1, <1>2, PTL DEF Spec, BackupSpec

\* One of the parts runs.
LEMMA OneRuns ==
  Init => \/ component = "wallets" \/ component = "custody"
          \/ component = "platform" \/ component = "backups"
BY DEF Init

\* An execution of MCServices is one of Wallets, of Custody, of Platform or of
\* Backups, from a state that part may start in: what the run finds of a part, it finds of the
\* part's own specification.
THEOREM ServicesAreParts ==
  Spec => WalletSpec \/ CustodySpec \/ PlatformSpec \/ BackupSpec
BY OneRuns, WalletsRun, CustodyRuns, PlatformRuns, BackupsRun, PTL DEF Spec

\* Whichever part runs keeps the types of its variables, whatever its requests, failures and
\* restarts do.
THEOREM ServicesTypes == Spec => []ServicesTypeOK
<1>1. component = "wallets" /\ WalletTypeOK => ServicesTypeOK
  BY DEF ServicesTypeOK
<1>2. component = "custody" /\ CustodyTypeOK => ServicesTypeOK
  BY DEF ServicesTypeOK
<1>3. component = "platform" /\ PlatformTypeOK => ServicesTypeOK
  BY DEF ServicesTypeOK
<1>4. component = "backups" /\ BackupTypeOK => ServicesTypeOK
  BY DEF ServicesTypeOK
<1>5. Spec /\ component = "wallets" => []ServicesTypeOK
  BY <1>1, WalletsRun, WalletTypes, PTL
<1>6. Spec /\ component = "custody" => []ServicesTypeOK
  BY <1>2, CustodyRuns, CustodyTypes, PTL
<1>7. Spec /\ component = "platform" => []ServicesTypeOK
  BY <1>3, PlatformRuns, PlatformTypes, PTL
<1>8. Spec /\ component = "backups" => []ServicesTypeOK
  BY <1>4, BackupsRun, BackupTypes, PTL
<1> QED
  BY <1>5, <1>6, <1>7, <1>8, OneRuns, PTL DEF Spec
=============================================================================
