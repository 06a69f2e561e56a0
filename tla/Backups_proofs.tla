--------------------------- MODULE Backups_proofs ---------------------------
(***************************************************************************)
(* Theorems about Backups, for any number of requests being served, any    *)
(* limit on the backups kept, and every bound.                             *)
(***************************************************************************)
EXTENDS Backups, FiniteSetTheorems, SequenceTheorems, WellFoundedInduction, TLAPS

USE ServiceAssumption, BackupAssumption

-----------------------------------------------------------------------------
(* Operators.                                                              *)

\* A bounded set of numbers that is not empty has a largest one.
LEMMA NewestIsThere ==
  ASSUME NEW S \in SUBSET Nat, S # {}, NEW bound \in Nat, \A n \in S : n <= bound
  PROVE  Newest(S) \in S /\ \A n \in S : n <= Newest(S)
<1> DEFINE T == {u \in Nat : \A n \in S : n <= u}
<1>1. T \subseteq Nat /\ bound \in T
  OBVIOUS
<1>2. PICK u \in T : \A v \in T : ~(<<v, u>> \in OpToRel(<, Nat))
  BY <1>1, NatLessThanWellFounded, WFMin
<1>3. \A v \in T : ~(v < u)
  BY <1>2 DEF OpToRel
<1>4. u \in S
  <2> SUFFICES ASSUME u \notin S PROVE FALSE
    OBVIOUS
  <2>1. PICK n \in S : TRUE
    OBVIOUS
  <2>2. u \in Nat /\ n \in Nat /\ n < u
    BY <2>1
  <2>3. u - 1 \in T /\ u - 1 < u
    BY <2>2
  <2> QED
    BY <1>3, <2>3
<1>5. \E n \in S : \A m \in S : m <= n
  BY <1>4
<1> QED
  BY <1>5 DEF Newest

\* The loop of the cleanup ends, or goes on to a dump that is left: when too many
\* are left, it ends only if none is.
LEMMA NextVictimIs ==
  ASSUME NEW c \in BackupCalls, NEW bound \in Nat, \A n \in c.left : n <= bound
  PROVE  /\ NextVictim(c) \in BackupCalls
         /\ \/ /\ NextVictim(c) = NoBackupCall
               /\ c.total - c.deleted > MaxBackups => c.left = {}
            \/ /\ NextVictim(c).at = "unlinking"
               /\ NextVictim(c).victim \in c.left
               /\ NextVictim(c).left \subseteq c.left \ {NextVictim(c).victim}
               /\ NextVictim(c).op = c.op /\ NextVictim(c).id = c.id
               /\ NextVictim(c).success = c.success /\ NextVictim(c).list = c.list
               /\ NextVictim(c).total = c.total /\ NextVictim(c).deleted = c.deleted
<1> DEFINE excess == c.total - c.deleted > MaxBackups
           due == {n \in c.left : excess \/ n <= c.cutoff}
           rest == {n \in c.left : n < Newest(due)}
           d == [c EXCEPT !.at = "unlinking", !.victim = Newest(due), !.left = rest]
<1>1. NextVictim(c) = IF due = {} THEN NoBackupCall ELSE d
  BY DEF NextVictim
<1>2. NoBackupCall \in BackupCalls
  BY DEF NoBackupCall, BackupCalls, BackupOps, BackupStages
<1>3. c.left \subseteq Nat /\ due \subseteq c.left
  BY DEF BackupCalls
<1>4. CASE due = {}
  <2>1. excess => c.left = {}
    BY <1>4
  <2> QED
    BY <1>1, <1>2, <1>4, <2>1
<1>5. CASE due # {}
  <2>1. Newest(due) \in due
    <3> HIDE DEF due
    <3> QED
      BY <1>3, <1>5, NewestIsThere
  <2>2. "unlinking" \in BackupStages
    BY DEF BackupStages
  <2>3. Newest(due) \in c.left /\ Newest(due) \in Nat
    BY <1>3, <2>1
  <2>4. rest \subseteq c.left \ {Newest(due)} /\ rest \in SUBSET Nat
    BY <1>3, <2>3
  <2> DEFINE victim == Newest(due)
  <2>5. NextVictim(c) = [c EXCEPT !.at = "unlinking", !.victim = victim, !.left = rest]
    BY <1>1, <1>5
  <2> HIDE DEF rest, victim, due
  <2>6. [c EXCEPT !.at = "unlinking", !.victim = victim, !.left = rest] \in BackupCalls
    BY <2>2, <2>3, <2>4 DEF BackupCalls, victim
  <2>7. /\ NextVictim(c).at = "unlinking" /\ NextVictim(c).victim = victim
        /\ NextVictim(c).left = rest
        /\ NextVictim(c).op = c.op /\ NextVictim(c).id = c.id
        /\ NextVictim(c).success = c.success /\ NextVictim(c).list = c.list
        /\ NextVictim(c).total = c.total /\ NextVictim(c).deleted = c.deleted
    BY <2>5 DEF BackupCalls
  <2> QED
    BY <2>3, <2>4, <2>5, <2>6, <2>7 DEF victim
<1> QED
  BY <1>4, <1>5

-----------------------------------------------------------------------------
(* First invariant: types, and every dump a list or a request names was made. *)

Made == 1..Len(dumps)

NamesMade ==
  /\ \A entry \in catalog.list : entry.id \in Made
  /\ \A k \in Calls :
       LET c == backupCall[k]
       IN  /\ \A entry \in c.list : entry.id \in Made
           /\ c.left \subseteq Made
           /\ c.victim # 0 => c.victim \in Made
           /\ c.at \in {"dumping", "restoring"} => c.id \in Made
           /\ c.at \in {"loading", "truncating", "writing"} /\ c.victim = 0 => c.id \in Made
           /\ c.at = "unlinking" => c.victim # 0

BInv == BackupTypeOK /\ NamesMade

\* The first state has its types and names nothing.
LEMMA InitBInv == BackupInit => BInv
<1> SUFFICES ASSUME BackupInit PROVE BInv
  OBVIOUS
<1>1. NoBackupCall \in BackupCalls
  BY DEF NoBackupCall, BackupCalls, BackupOps, BackupStages
<1>2. BudgetOK
  BY DEF BackupInit, BudgetInit, BudgetOK
<1>3. BackupTypeOK
  BY <1>1, <1>2 DEF BackupInit, BackupTypeOK, DumpStates
<1>4. NoBackupCall.list = {} /\ NoBackupCall.left = {} /\ NoBackupCall.victim = 0
      /\ NoBackupCall.at = "idle"
  BY DEF NoBackupCall
<1>5. NamesMade
  BY <1>4 DEF BackupInit, NamesMade
<1> QED
  BY <1>3, <1>5 DEF BInv

\* What a request may become.
MayBecome(c) ==
  /\ c \in BackupCalls
  /\ \A entry \in c.list : entry.id \in Made
  /\ c.left \subseteq Made
  /\ c.victim # 0 => c.victim \in Made
  /\ c.at \in {"dumping", "restoring"} => c.id \in Made
  /\ c.at \in {"loading", "truncating", "writing"} /\ c.victim = 0 => c.id \in Made
  /\ c.at = "unlinking" => c.victim # 0

\* A request goes on, and nothing it or another one names is taken away.
LEMMA GoesOn ==
  ASSUME BInv, NEW k \in Calls, NEW d, To(k, d), MayBecome(d),
         UNCHANGED <<dumps, catalog, retired, restored>>,
         undisturbed' \in BOOLEAN, BudgetOK'
  PROVE  BInv'
<1>1. /\ backupCall'[k] = d
      /\ \A j \in Calls : j # k => backupCall'[j] = backupCall[j]
      /\ backupCall' \in [Calls -> BackupCalls]
  BY DEF To, BInv, BackupTypeOK, MayBecome
<1>2. BackupTypeOK'
  BY <1>1 DEF BInv, BackupTypeOK
<1>3. NamesMade'
  BY <1>1 DEF BInv, NamesMade, MayBecome, Made
<1> QED
  BY <1>2, <1>3 DEF BInv

\* A request that ends names nothing.
LEMMA NoCallNames == MayBecome(NoBackupCall)
BY DEF MayBecome, NoBackupCall, BackupCalls, BackupOps, BackupStages

\* The bounds and the history variable keep their types.
LEMMA StepTypes ==
  ASSUME BInv
  PROVE  /\ Undisturbed => undisturbed' \in BOOLEAN /\ BudgetOK'
         /\ Disturbed => undisturbed' \in BOOLEAN /\ BudgetOK'
         /\ \A k \in Calls : \A d : Order(k, d) => undisturbed' \in BOOLEAN /\ BudgetOK'
<1> USE DEF BInv, BackupTypeOK, BudgetOK
<1>1. Undisturbed => undisturbed' \in BOOLEAN /\ BudgetOK'
  BY DEF Undisturbed, Working, budgetVars
<1>2. ASSUME Disturbed
      PROVE  undisturbed' \in BOOLEAN /\ BudgetOK'
  <2>1. /\ undisturbed' = FALSE
        /\ faults < MaxFaults /\ faults' = faults + 1 /\ UNCHANGED <<requests, crashes>>
    BY <1>2 DEF Disturbed, Failing
  <2>2. faults' \in 0..MaxFaults
    BY <2>1
  <2> QED
    BY <2>1, <2>2
<1>3. ASSUME NEW k \in Calls, NEW d, Order(k, d)
      PROVE  undisturbed' \in BOOLEAN /\ BudgetOK'
  BY <1>3 DEF Order, Arriving
<1> QED
  BY <1>1, <1>2, <1>3

\* What the metadata lists, when it can be read.
LEMMA ListedAreMade ==
  ASSUME BInv
  PROVE  /\ Readable \in SUBSET Entries
         /\ \A entry \in Readable : entry.id \in Made
         /\ Listed \subseteq Made
         /\ IsFiniteSet(Listed) /\ Cardinality(Listed) \in Nat
<1>1. Readable \in SUBSET Entries /\ \A entry \in Readable : entry.id \in Made
  BY DEF BInv, BackupTypeOK, NamesMade, Readable
<1>2. Listed \subseteq Made
  BY <1>1 DEF Listed
<1>3. Len(dumps) \in Nat
  BY DEF BInv, BackupTypeOK
<1>4. IsFiniteSet(Made)
  BY <1>3, FS_Interval DEF Made
<1> QED
  BY <1>1, <1>2, <1>4, FS_Subset, FS_CardinalityType

\* A dump changes, or one more is made; the request k goes on.
LEMMA DumpsChange ==
  ASSUME BInv, NEW k \in Calls, NEW d, To(k, d), MayBecome(d)',
         dumps' \in Seq(DumpStates), Len(dumps) <= Len(dumps'),
         UNCHANGED <<catalog, retired, restored>>, undisturbed' \in BOOLEAN, BudgetOK'
  PROVE  BInv'
<1>1. /\ backupCall'[k] = d
      /\ \A j \in Calls : j # k => backupCall'[j] = backupCall[j]
      /\ backupCall' \in [Calls -> BackupCalls]
  BY DEF To, BInv, BackupTypeOK, MayBecome
<1>2. Len(dumps) \in Nat /\ Len(dumps') \in Nat /\ Made \subseteq Made'
  BY DEF BInv, BackupTypeOK, Made
<1>3. BackupTypeOK'
  BY <1>1, <1>2 DEF BInv, BackupTypeOK
<1>4. NamesMade'
  BY <1>1, <1>2 DEF BInv, NamesMade, MayBecome
<1> QED
  BY <1>3, <1>4 DEF BInv

\* Requests arrive and name what the metadata lists.
LEMMA RequestsKeepTypes ==
  ASSUME BInv, NEW k \in Calls,
         \/ CreateBackup(k) \/ CleanupBackups(k)
         \/ \E entry \in Readable : DeleteBackup(k, entry) \/ RestoreBackup(k, entry)
  PROVE  BInv'
<1> USE DEF BInv
<1>1. Len(dumps) \in Nat /\ dumps \in Seq(DumpStates)
  BY DEF BackupTypeOK
<1>2. CASE CreateBackup(k)
  <2>1. PICK n \in Nat : n = Len(dumps) + 1
    BY <1>1
  <2> DEFINE e == [NoBackupCall EXCEPT !.op = "create", !.at = "dumping", !.id = n]
  <2>2. /\ e \in BackupCalls /\ e.list = {} /\ e.left = {} /\ e.victim = 0 /\ e.at = "dumping"
        /\ e.id = n
    BY DEF NoBackupCall, BackupCalls, BackupOps, BackupStages
  <2>3. Order(k, e) /\ dumps' = Append(dumps, "partial") /\ UNCHANGED <<catalog, retired, restored>>
    BY <1>2, <2>1 DEF CreateBackup
  <2> HIDE DEF e
  <2>4. PICK d \in BackupCalls : d = e
    BY <2>2
  <2>5. To(k, d) /\ undisturbed' \in BOOLEAN /\ BudgetOK'
    BY <2>3, <2>4, StepTypes DEF Order
  <2>6. dumps' \in Seq(DumpStates) /\ Len(dumps') = Len(dumps) + 1
    BY <1>1, <2>3 DEF DumpStates
  <2>7. /\ d.list = {} /\ d.left = {} /\ d.victim = 0 /\ d.at = "dumping"
        /\ d.id \in 1..Len(dumps')
    BY <1>1, <2>1, <2>2, <2>4, <2>6
  <2>8. MayBecome(d)'
    BY <2>7 DEF MayBecome, Made
  <2> QED
    BY <1>1, <2>3, <2>5, <2>6, <2>8, DumpsChange
<1>3. CASE CleanupBackups(k)
  <2> DEFINE e == [NoBackupCall EXCEPT !.op = "cleanup", !.at = "listing"]
  <2>1. e \in BackupCalls /\ e.list = {} /\ e.left = {} /\ e.victim = 0 /\ e.at = "listing"
    BY DEF NoBackupCall, BackupCalls, BackupOps, BackupStages
  <2>2. Order(k, e) /\ UNCHANGED <<dumps, catalog, retired, restored>>
    BY <1>3 DEF CleanupBackups
  <2> HIDE DEF e
  <2>3. MayBecome(e)
    BY <2>1 DEF MayBecome
  <2> QED
    BY <2>2, <2>3, StepTypes, GoesOn DEF Order
<1>4. ASSUME NEW entry \in Readable, DeleteBackup(k, entry)
      PROVE  BInv'
  <2> DEFINE e == [NoBackupCall EXCEPT !.op = "delete", !.at = "unlinking", !.victim = entry.id]
  <2>1. entry.id \in Made /\ entry.id \in Nat
    BY ListedAreMade DEF Entries
  <2>2. /\ e \in BackupCalls /\ e.list = {} /\ e.left = {} /\ e.victim = entry.id
        /\ e.at = "unlinking"
    BY <2>1 DEF NoBackupCall, BackupCalls, BackupOps, BackupStages
  <2>3. Order(k, e) /\ UNCHANGED <<dumps, catalog, retired, restored>>
    BY <1>4 DEF DeleteBackup
  <2> HIDE DEF e
  <2>4. MayBecome(e)
    BY <1>1, <2>1, <2>2 DEF MayBecome, Made
  <2> QED
    BY <2>3, <2>4, StepTypes, GoesOn DEF Order
<1>5. ASSUME NEW entry \in Readable, RestoreBackup(k, entry)
      PROVE  BInv'
  <2> DEFINE e == [NoBackupCall EXCEPT !.op = "restore", !.at = "restoring", !.id = entry.id,
                                       !.success = entry.success]
  <2>1. entry.id \in Made /\ entry.id \in Nat /\ entry.success \in BOOLEAN
    BY ListedAreMade DEF Entries
  <2>2. /\ e \in BackupCalls /\ e.list = {} /\ e.left = {} /\ e.victim = 0 /\ e.at = "restoring"
        /\ e.id = entry.id
    BY <2>1 DEF NoBackupCall, BackupCalls, BackupOps, BackupStages
  <2>3. Order(k, e) /\ UNCHANGED <<dumps, catalog, retired, restored>>
    BY <1>5 DEF RestoreBackup
  <2> HIDE DEF e
  <2>4. MayBecome(e)
    BY <2>1, <2>2 DEF MayBecome
  <2> QED
    BY <2>3, <2>4, StepTypes, GoesOn DEF Order
<1> QED
  BY <1>2, <1>3, <1>4, <1>5

\* Dumps are made and removed.
LEMMA FilesKeepTypes ==
  ASSUME BInv, NEW k \in Calls, Dump(k) \/ Unlink(k)
  PROVE  BInv'
<1> DEFINE c == backupCall[k]
<1>1. /\ c \in BackupCalls /\ MayBecome(c)
      /\ dumps \in Seq(DumpStates) /\ Len(dumps) \in Nat
  BY DEF BInv, BackupTypeOK, NamesMade, MayBecome
<1>2. ASSUME NEW n \in Made, NEW dump \in DumpStates, dumps' = [dumps EXCEPT ![n] = dump]
      PROVE  dumps' \in Seq(DumpStates) /\ Len(dumps') = Len(dumps)
  BY <1>1, <1>2, ExceptSeq DEF Made
<1>3. ASSUME NEW e \in BackupCalls, MayBecome(e), To(k, e),
             \/ UNCHANGED dumps
             \/ \E n \in Made, dump \in DumpStates : dumps' = [dumps EXCEPT ![n] = dump],
             UNCHANGED <<catalog, retired, restored>>, Undisturbed \/ Disturbed
      PROVE  BInv'
  <2>1. dumps' \in Seq(DumpStates) /\ Len(dumps') = Len(dumps)
    BY <1>1, <1>2, <1>3
  <2>2. MayBecome(e)'
    BY <1>3, <2>1 DEF MayBecome, Made
  <2> QED
    BY <1>1, <1>3, <2>1, <2>2, StepTypes, DumpsChange
<1>4. CASE Dump(k)
  <2>1. c.at = "dumping" /\ (Undisturbed \/ Disturbed) /\ UNCHANGED <<catalog, retired, restored>>
    BY <1>4 DEF Dump, At
  <2>2. PICK success \in BOOLEAN, dump \in DumpStates :
          Dumped(k, success) /\ dumps' = [dumps EXCEPT ![c.id] = dump]
    BY <1>4 DEF Dump, DumpStates
  <2> DEFINE s == [c EXCEPT !.at = "loading", !.success = success]
  <2>3. /\ s \in BackupCalls /\ s.list = c.list /\ s.left = c.left /\ s.victim = c.victim
        /\ s.id = c.id /\ s.at = "loading"
    BY <1>1 DEF BackupCalls, BackupStages
  <2>4. To(k, s)
    BY <2>2 DEF Dumped
  <2> HIDE DEF s
  <2>5. PICK e \in BackupCalls : e = s
    BY <2>3
  <2>6. c.id \in Made
    BY <1>1, <2>1 DEF MayBecome
  <2>7. MayBecome(e)
    BY <1>1, <2>1, <2>3, <2>5, <2>6 DEF MayBecome
  <2> QED
    BY <1>3, <2>1, <2>2, <2>4, <2>5, <2>6, <2>7
<1>5. CASE Unlink(k)
  <2> DEFINE s == [c EXCEPT !.at = "loading"]
  <2>1. /\ c.at = "unlinking" /\ (Undisturbed \/ Disturbed) /\ UNCHANGED <<catalog, retired, restored>>
        /\ \/ dumps' = [dumps EXCEPT ![c.victim] = "gone"] /\ To(k, s)
           \/ UNCHANGED dumps /\ To(k, NoBackupCall)
    BY <1>5 DEF Unlink, At
  <2>2. /\ s \in BackupCalls /\ s.list = c.list /\ s.left = c.left /\ s.victim = c.victim
        /\ s.id = c.id /\ s.at = "loading"
    BY <1>1 DEF BackupCalls, BackupStages
  <2> HIDE DEF s
  <2>3. c.victim \in Made /\ c.victim # 0
    BY <1>1, <2>1 DEF MayBecome
  <2>4. MayBecome(s) /\ "gone" \in DumpStates
    BY <1>1, <2>2, <2>3 DEF MayBecome, DumpStates
  <2>5. PICK e \in BackupCalls : e = s
    BY <2>2
  <2>6. PICK f \in BackupCalls : f = NoBackupCall
    BY NoCallNames DEF MayBecome
  <2>7. CASE dumps' = [dumps EXCEPT ![c.victim] = "gone"] /\ To(k, s)
    BY <1>3, <2>1, <2>3, <2>4, <2>5, <2>7
  <2>8. CASE UNCHANGED dumps /\ To(k, NoBackupCall)
    BY <1>3, <2>1, <2>6, <2>8, NoCallNames
  <2> QED
    BY <2>1, <2>7, <2>8
<1> QED
  BY <1>4, <1>5

\* The metadata is read.
LEMMA LoadKeepsTypes ==
  ASSUME BInv, NEW k \in Calls, Load(k)
  PROVE  BInv'
<1> DEFINE c == backupCall[k]
           edited(list) == IF c.victim = 0
                           THEN list \cup {[id |-> c.id, success |-> c.success]}
                           ELSE Without(list, c.victim)
           s(list) == [c EXCEPT !.at = "truncating", !.list = edited(list)]
<1>1. c \in BackupCalls /\ MayBecome(c)
  BY DEF BInv, BackupTypeOK, NamesMade, MayBecome
<1>2. /\ c.at = "loading" /\ (Undisturbed \/ Disturbed)
      /\ To(k, s(Readable)) \/ To(k, s({}))
      /\ UNCHANGED <<dumps, catalog, retired, restored>>
  BY DEF Load, At
<1>3. Readable \in SUBSET Entries /\ \A entry \in Readable : entry.id \in Made
  BY ListedAreMade
<1>4. ASSUME NEW list \in SUBSET Entries, \A entry \in list : entry.id \in Made
      PROVE  MayBecome(s(list))
  <2>1. edited(list) \in SUBSET Entries /\ \A entry \in edited(list) : entry.id \in Made
    <3>1. CASE c.victim = 0
      <4>1. c.id \in Made /\ c.id \in Nat /\ c.success \in BOOLEAN
        BY <1>1, <1>2, <3>1 DEF MayBecome, BackupCalls
      <4>2. PICK entry \in Entries : entry = [id |-> c.id, success |-> c.success]
        BY <4>1 DEF Entries
      <4>3. entry.id = c.id
        BY <4>2
      <4> QED
        BY <1>4, <3>1, <4>1, <4>2, <4>3
    <3>2. CASE c.victim # 0
      BY <1>4, <3>2 DEF Without
    <3> QED
      BY <3>1, <3>2
  <2> HIDE DEF edited
  <2>2. /\ s(list) \in BackupCalls /\ s(list).list = edited(list) /\ s(list).left = c.left
        /\ s(list).victim = c.victim /\ s(list).id = c.id /\ s(list).at = "truncating"
    <3>1. "truncating" \in BackupStages
      BY DEF BackupStages
    <3> QED
      BY <1>1, <2>1, <3>1 DEF BackupCalls
  <2> QED
    BY <1>1, <1>2, <2>1, <2>2 DEF MayBecome
<1>5. MayBecome(s(Readable)) /\ MayBecome(s({}))
  BY <1>3, <1>4
<1> HIDE DEF s
<1> QED
  BY <1>2, <1>5, StepTypes, GoesOn

\* What follows a save names nothing new.
LEMMA SavedIs ==
  ASSUME NEW c \in BackupCalls, MayBecome(c), c.at = "writing", BackupTypeOK
  PROVE  /\ MayBecome(Saved([c EXCEPT !.list = {}]))
         /\ \/ /\ c.victim = 0 /\ c.success
               /\ Saved([c EXCEPT !.list = {}]) = [NoBackupCall EXCEPT !.op = "create", !.at = "listing"]
            \/ /\ c.victim # 0 /\ c.op # "delete"
               /\ \E d \in BackupCalls :
                    /\ d.at = c.at /\ d.op = c.op /\ d.id = c.id /\ d.success = c.success
                    /\ d.list = {} /\ d.left = c.left /\ d.total = c.total
                    /\ d.deleted = c.deleted + 1 /\ d.cutoff = c.cutoff
                    /\ Saved([c EXCEPT !.list = {}]) = NextVictim(d)
            \/ /\ (c.victim = 0 => ~c.success) /\ (c.victim # 0 => c.op = "delete")
               /\ Saved([c EXCEPT !.list = {}]) = NoBackupCall
<1>1. {} \in SUBSET Entries /\ c.deleted \in Nat /\ c.deleted + 1 \in Nat
  BY DEF BackupCalls
<1> DEFINE e == [c EXCEPT !.list = {}]
           d == [e EXCEPT !.deleted = @ + 1]
           made == [NoBackupCall EXCEPT !.op = "create", !.at = "listing"]
<1>2. /\ e \in BackupCalls /\ e.at = c.at /\ e.op = c.op /\ e.id = c.id /\ e.success = c.success
      /\ e.list = {} /\ e.left = c.left /\ e.victim = c.victim /\ e.total = c.total
      /\ e.deleted = c.deleted /\ e.cutoff = c.cutoff
  BY <1>1 DEF BackupCalls
<1> HIDE DEF e
<1>3. /\ d \in BackupCalls /\ d.at = c.at /\ d.op = c.op /\ d.id = c.id /\ d.success = c.success
      /\ d.list = {} /\ d.left = c.left /\ d.victim = c.victim /\ d.total = c.total
      /\ d.deleted = c.deleted + 1 /\ d.cutoff = c.cutoff
  BY <1>1, <1>2 DEF BackupCalls
<1>4. Saved(e) = IF c.victim = 0 /\ c.success THEN made
                 ELSE IF c.victim # 0 /\ c.op # "delete" THEN NextVictim(d)
                 ELSE NoBackupCall
  BY <1>2 DEF Saved
<1> HIDE DEF d
<1>5. MayBecome(made)
  BY DEF MayBecome, NoBackupCall, BackupCalls, BackupOps, BackupStages
<1> HIDE DEF made
<1>6. \A n \in d.left : n <= Len(dumps) /\ n \in Made
  BY <1>3 DEF MayBecome, Made, BackupTypeOK
<1>7. Len(dumps) \in Nat
  BY DEF BackupTypeOK
<1>8. MayBecome(NextVictim(d))
  <2>1. /\ NextVictim(d) \in BackupCalls
        /\ \/ NextVictim(d) = NoBackupCall
           \/ /\ NextVictim(d).at = "unlinking" /\ NextVictim(d).victim \in d.left
              /\ NextVictim(d).left \subseteq d.left
              /\ NextVictim(d).list = d.list
    BY <1>3, <1>6, <1>7, NextVictimIs
  <2>2. CASE NextVictim(d) = NoBackupCall
    BY <2>2, NoCallNames
  <2>3. CASE NextVictim(d).at = "unlinking"
    <3>1. NextVictim(d) # NoBackupCall
      BY <2>3 DEF NoBackupCall
    <3>2. NextVictim(d).victim \in Made /\ NextVictim(d).victim # 0 /\ NextVictim(d).left \subseteq Made
      BY <1>6, <1>7, <2>1, <3>1 DEF Made
    <3> QED
      BY <1>3, <2>1, <2>3, <3>1, <3>2 DEF MayBecome
  <2> QED
    BY <2>1, <2>2, <2>3
<1>9. MayBecome(Saved(e))
  BY <1>4, <1>5, <1>8, NoCallNames
<1> QED
  BY <1>3, <1>4, <1>9 DEF e, made

\* The metadata is written back.
LEMMA CatalogChanges ==
  ASSUME BInv, NEW k \in Calls, NEW d, To(k, d), MayBecome(d),
         catalog' \in [state : {"listed", "empty", "garbled"}, list : SUBSET Entries],
         \A entry \in catalog'.list : entry.id \in Made,
         UNCHANGED <<dumps, retired, restored>>, Undisturbed \/ Disturbed
  PROVE  BInv'
<1>1. /\ backupCall'[k] = d
      /\ \A j \in Calls : j # k => backupCall'[j] = backupCall[j]
      /\ backupCall' \in [Calls -> BackupCalls]
  BY DEF To, BInv, BackupTypeOK, MayBecome
<1>2. BackupTypeOK'
  BY <1>1, StepTypes DEF BInv, BackupTypeOK
<1>3. NamesMade'
  BY <1>1 DEF BInv, NamesMade, MayBecome, Made
<1> QED
  BY <1>2, <1>3 DEF BInv

\* Every other step of a request keeps the types.
LEMMA StepsKeepTypes ==
  ASSUME BInv, NEW k \in Calls, Truncate(k) \/ Write(k) \/ SaveFails(k) \/ List(k) \/ Restore(k)
  PROVE  BInv'
<1> DEFINE c == backupCall[k]
<1>1. c \in BackupCalls /\ MayBecome(c) /\ BackupTypeOK
  BY DEF BInv, BackupTypeOK, NamesMade, MayBecome
<1>2. CASE Truncate(k)
  <2> DEFINE s == [c EXCEPT !.at = "writing"]
  <2>1. /\ c.at = "truncating" /\ Undisturbed /\ To(k, s)
        /\ catalog' = [state |-> "empty", list |-> {}] /\ UNCHANGED <<dumps, retired, restored>>
    BY <1>2 DEF Truncate, At
  <2>2. /\ s \in BackupCalls /\ s.list = c.list /\ s.left = c.left /\ s.victim = c.victim
        /\ s.id = c.id /\ s.at = "writing"
    BY <1>1 DEF BackupCalls, BackupStages
  <2> HIDE DEF s
  <2>3. MayBecome(s)
    BY <1>1, <2>1, <2>2 DEF MayBecome
  <2>4. /\ catalog' \in [state : {"listed", "empty", "garbled"}, list : SUBSET Entries]
        /\ catalog'.list = {}
    BY <2>1
  <2> QED
    BY <2>1, <2>3, <2>4, CatalogChanges
<1>3. CASE Write(k)
  <2> DEFINE s == Saved([c EXCEPT !.list = {}])
  <2>1. /\ c.at = "writing" /\ Undisturbed /\ To(k, s) /\ catalog' \in WriteOutcomes(c.list)
        /\ UNCHANGED <<dumps, retired, restored>>
    BY <1>3 DEF Write, At
  <2>2. MayBecome(s)
    BY <1>1, <2>1, SavedIs
  <2> HIDE DEF s
  <2>3. c.list \in SUBSET Entries /\ \A entry \in c.list : entry.id \in Made
    BY <1>1 DEF MayBecome, BackupCalls
  <2>4. /\ catalog' \in [state : {"listed", "empty", "garbled"}, list : SUBSET Entries]
        /\ catalog'.list \in {c.list, {}}
    BY <2>1, <2>3 DEF WriteOutcomes
  <2> QED
    BY <2>1, <2>2, <2>3, <2>4, CatalogChanges
<1>4. CASE SaveFails(k)
  <2> DEFINE s == [c EXCEPT !.at = "loading", !.success = FALSE]
  <2>1. /\ c.at \in {"truncating", "writing"} /\ Disturbed
        /\ (c.victim = 0 /\ To(k, s)) \/ To(k, NoBackupCall)
        /\ UNCHANGED <<dumps, catalog, retired, restored>>
    BY <1>4 DEF SaveFails, Dumped, At
  <2>2. /\ s \in BackupCalls /\ s.list = c.list /\ s.left = c.left /\ s.victim = c.victim
        /\ s.id = c.id /\ s.at = "loading"
    BY <1>1 DEF BackupCalls, BackupStages
  <2> HIDE DEF s
  <2>3. MayBecome(s)
    BY <1>1, <2>1, <2>2 DEF MayBecome
  <2> QED
    BY <2>1, <2>3, NoCallNames, StepTypes, GoesOn
<1>5. CASE List(k)
  <2>1. PICK total \in Nat : total = Cardinality(Listed)
    BY ListedAreMade
  <2>2. Listed \in SUBSET Nat /\ Listed \subseteq Made /\ retired \in Nat
    BY <1>1, ListedAreMade DEF Made, BackupTypeOK
  <2> DEFINE s == [c EXCEPT !.left = Listed, !.total = total, !.cutoff = retired]
  <2>3. /\ Undisturbed /\ To(k, NextVictim(s))
        /\ UNCHANGED <<dumps, catalog, retired, restored>>
    BY <1>5, <2>1 DEF List, At
  <2>4. s \in BackupCalls /\ s.list = c.list /\ s.left = Listed
    BY <1>1, <2>2 DEF BackupCalls
  <2> HIDE DEF s
  <2>5. MayBecome(NextVictim(s))
    <3>1. Len(dumps) \in Nat /\ \A n \in s.left : n <= Len(dumps) /\ n # 0
      <4>1. Len(dumps) \in Nat /\ \A n \in 1..Len(dumps) : n <= Len(dumps) /\ n # 0
        BY <1>1 DEF BackupTypeOK
      <4> QED
        BY <2>2, <2>4, <4>1 DEF Made
    <3>2. /\ NextVictim(s) \in BackupCalls
          /\ \/ NextVictim(s) = NoBackupCall
             \/ /\ NextVictim(s).at = "unlinking" /\ NextVictim(s).victim \in s.left
                /\ NextVictim(s).left \subseteq s.left
                /\ NextVictim(s).list = s.list
      BY <2>4, <3>1, NextVictimIs
    <3>3. CASE NextVictim(s) = NoBackupCall
      BY <3>3, NoCallNames
    <3>4. CASE NextVictim(s) # NoBackupCall
      BY <1>1, <2>2, <2>4, <3>1, <3>2, <3>4 DEF MayBecome
    <3> QED
      BY <3>3, <3>4
  <2> QED
    BY <2>3, <2>5, StepTypes, GoesOn
<1>6. CASE Restore(k)
  <2>1. /\ c.at = "restoring" /\ Undisturbed /\ To(k, NoBackupCall)
        /\ UNCHANGED <<dumps, catalog, retired>>
        /\ \/ restored' = restored
           \/ restored' = [success |-> c.success, dump |-> dumps[c.id]]
    BY <1>6 DEF Restore, At
  <2>2. c.id \in Made /\ c.success \in BOOLEAN
    BY <1>1, <2>1 DEF MayBecome, BackupCalls
  <2>3. restored' \in [success : BOOLEAN, dump : DumpStates]
    BY <1>1, <2>1, <2>2 DEF BackupTypeOK, Made
  <2>4. /\ NoBackupCall \in BackupCalls
        /\ backupCall'[k] = NoBackupCall
        /\ \A j \in Calls : j # k => backupCall'[j] = backupCall[j]
        /\ backupCall' \in [Calls -> BackupCalls]
    BY <1>1, <2>1, NoCallNames DEF To, BackupTypeOK, MayBecome
  <2>5. BackupTypeOK'
    BY <1>1, <2>1, <2>3, <2>4, StepTypes DEF BackupTypeOK
  <2>6. NamesMade'
    BY <2>1, <2>4, NoCallNames DEF BInv, NamesMade, MayBecome, Made
  <2> QED
    BY <2>5, <2>6 DEF BInv
<1> QED
  BY <1>2, <1>3, <1>4, <1>5, <1>6

\* The first invariant is inductive.
LEMMA NextBInv == BInv /\ [BackupNext]_backupVars => BInv'
<1> SUFFICES ASSUME BInv, [BackupNext]_backupVars PROVE BInv'
  OBVIOUS
<1>1. CASE Age
  <2>1. retired' \in 0..Len(dumps)
    BY <1>1 DEF Age, BInv, BackupTypeOK
  <2>2. undisturbed' \in BOOLEAN /\ BudgetOK' /\ UNCHANGED <<dumps, catalog, restored, backupCall>>
    BY <1>1, StepTypes DEF Age
  <2> QED
    BY <2>1, <2>2 DEF BInv, BackupTypeOK, NamesMade, Made
<1>2. CASE RestartBackups
  <2>1. /\ undisturbed' = FALSE /\ UNCHANGED <<dumps, catalog, retired, restored>>
        /\ backupCall' = [k \in Calls |-> NoBackupCall]
    BY <1>2 DEF RestartBackups
  <2>2. BudgetOK'
    BY <1>2 DEF RestartBackups, Crashing, BInv, BackupTypeOK, BudgetOK
  <2>3. BackupTypeOK'
    BY <2>1, <2>2, NoCallNames DEF BInv, BackupTypeOK, MayBecome
  <2>4. NamesMade'
    BY <2>1, NoCallNames DEF BInv, NamesMade, MayBecome, Made
  <2> QED
    BY <2>3, <2>4 DEF BInv
<1>3. CASE UNCHANGED backupVars
  BY <1>3 DEF backupVars, backupState, budgetVars, BInv, BackupTypeOK, NamesMade, Made, BudgetOK
<1> QED
  BY <1>1, <1>2, <1>3, RequestsKeepTypes, FilesKeepTypes, LoadKeepsTypes, StepsKeepTypes
     DEF BackupNext

\* Every file, list and request keeps its type, and no list names a dump that
\* was never made.
THEOREM BackupsInvariant == BackupSpec => []BInv
BY InitBInv, NextBInv, PTL DEF BackupSpec

\* The files, the metadata and the requests keep their types.
THEOREM BackupTypes == BackupSpec => []BackupTypeOK
<1>1. BInv => BackupTypeOK
  BY DEF BInv
<1> QED
  BY <1>1, BackupsInvariant, PTL

-----------------------------------------------------------------------------
(* Second invariant: what is called a success is whole, or gone.           *)

\* A dump whose pg_dump has ended well is never written again.
Settled(n) ==
  /\ dumps[n] \in {"whole", "gone"}
  /\ \A k \in Calls : At(k, "dumping") => backupCall[k].id # n

Trusted(list) == \A entry \in list : entry.success => Settled(entry.id)

\* A request that says success is past the dump, and the dump is settled.
TrustedCall(c) ==
  /\ Trusted(c.list)
  /\ c.at = "dumping" => c.victim = 0
  /\ c.success => /\ c.at \in {"loading", "truncating", "writing", "restoring"}
                  /\ c.victim = 0
                  /\ Settled(c.id)

WholeInv ==
  /\ restored.success => restored.dump = "whole"
  /\ Trusted(catalog.list)
  /\ \A k \in Calls : TrustedCall(backupCall[k])
  /\ \A j, k \in Calls : At(j, "dumping") /\ At(k, "dumping") /\ j # k
                           => backupCall[j].id # backupCall[k].id

\* At first nothing is called a success.
LEMMA InitWholeInv == BackupInit => WholeInv
<1> SUFFICES ASSUME BackupInit PROVE WholeInv
  OBVIOUS
<1>1. NoBackupCall.list = {} /\ NoBackupCall.success = FALSE /\ NoBackupCall.at = "idle"
  BY DEF NoBackupCall
<1> QED
  BY <1>1 DEF BackupInit, WholeInv, Trusted, TrustedCall, At

\* A request goes on and is not about to dump: what was settled is.
LEMMA SettledStays ==
  ASSUME BInv, NEW k \in Calls, NEW d, To(k, d), d.at # "dumping",
         \A n \in Made : dumps[n] \in {"whole", "gone"} => dumps'[n] \in {"whole", "gone"}
  PROVE  \A n \in Made : Settled(n) => Settled(n)'
<1>1. /\ backupCall'[k] = d
      /\ \A j \in Calls : j # k => backupCall'[j] = backupCall[j]
  BY DEF To, BInv, BackupTypeOK
<1> QED
  BY <1>1 DEF Settled, At

\* Such a request keeps the second invariant if what it says is trusted.
LEMMA WholeGoesOn ==
  ASSUME BInv, BInv', WholeInv, NEW k \in Calls, NEW d, To(k, d), d.at # "dumping",
         TrustedCall(d), Len(dumps') = Len(dumps),
         \A n \in Made : dumps[n] \in {"whole", "gone"} => dumps'[n] \in {"whole", "gone"},
         Trusted(catalog'.list), restored'.success => restored'.dump = "whole"
  PROVE  WholeInv'
<1>1. /\ backupCall'[k] = d
      /\ \A j \in Calls : j # k => backupCall'[j] = backupCall[j]
  BY DEF To, BInv, BackupTypeOK
<1>2. \A n \in Made : Settled(n) => Settled(n)'
  BY SettledStays
<1>3. /\ \A entry \in catalog'.list : entry.id \in Made
      /\ \A j \in Calls : MayBecome(backupCall'[j])
  BY DEF BInv, BackupTypeOK, NamesMade, MayBecome, Made
<1>4. ASSUME NEW j \in Calls PROVE TrustedCall(backupCall[j])'
  <2>1. TrustedCall(backupCall'[j])
    BY <1>1 DEF WholeInv
  <2> QED
    BY <1>2, <1>3, <2>1 DEF TrustedCall, Trusted, MayBecome
<1>5. Trusted(catalog.list)'
  BY <1>2, <1>3 DEF Trusted
<1>6. \A i, j \in Calls : At(i, "dumping")' /\ At(j, "dumping")' /\ i # j
                            => backupCall'[i].id # backupCall'[j].id
  BY <1>1 DEF At, WholeInv
<1> QED
  BY <1>4, <1>5, <1>6 DEF WholeInv

\* pg_dump starts on a file of its own.
LEMMA CreateIsWhole ==
  ASSUME BInv, WholeInv, NEW k \in Calls, CreateBackup(k)
  PROVE  WholeInv'
<1>1. PICK n \in Nat : n = Len(dumps) + 1
  BY DEF BInv, BackupTypeOK
<1> DEFINE d == [NoBackupCall EXCEPT !.op = "create", !.at = "dumping", !.id = n]
<1>2. d.list = {} /\ d.victim = 0 /\ d.at = "dumping" /\ d.id = n /\ d.success = FALSE
  BY DEF NoBackupCall
<1>3. /\ To(k, d) /\ dumps' = Append(dumps, "partial") /\ UNCHANGED <<catalog, restored>>
      /\ ~At(k, "dumping")
  BY <1>1 DEF CreateBackup, Order, At
<1> HIDE DEF d
<1>4. /\ backupCall'[k] = d
      /\ \A j \in Calls : j # k => backupCall'[j] = backupCall[j]
  BY <1>3 DEF To, BInv, BackupTypeOK
<1>5. \A m \in Made : m # n /\ dumps'[m] = dumps[m]
  BY <1>1, <1>3 DEF Made, BInv, BackupTypeOK
<1>6. \A m \in Made : Settled(m) => Settled(m)'
  BY <1>2, <1>4, <1>5 DEF Settled, At
<1>7. ASSUME NEW j \in Calls PROVE TrustedCall(backupCall[j])'
  <2>1. CASE j = k
    BY <1>2, <1>4, <2>1 DEF TrustedCall, Trusted
  <2>2. CASE j # k
    <3>1. MayBecome(backupCall[j]) /\ TrustedCall(backupCall[j])
      BY DEF BInv, BackupTypeOK, NamesMade, MayBecome, WholeInv
    <3> QED
      BY <1>4, <1>6, <2>2, <3>1 DEF TrustedCall, Trusted, MayBecome
  <2> QED
    BY <2>1, <2>2
<1>8. Trusted(catalog.list)'
  BY <1>3, <1>6 DEF Trusted, WholeInv, BInv, NamesMade
<1>9. \A j \in Calls : At(j, "dumping") => backupCall[j].id \in Made
  BY DEF At, BInv, NamesMade
<1>10. ASSUME NEW i \in Calls, NEW j \in Calls, At(i, "dumping")', At(j, "dumping")', i # j
       PROVE  backupCall'[i].id # backupCall'[j].id
  <2>1. CASE i = k
    BY <1>2, <1>4, <1>5, <1>9, <1>10, <2>1 DEF At
  <2>2. CASE j = k
    BY <1>2, <1>4, <1>5, <1>9, <1>10, <2>2 DEF At
  <2>3. CASE i # k /\ j # k
    BY <1>4, <1>10, <2>3 DEF At, WholeInv
  <2> QED
    BY <2>1, <2>2, <2>3
<1> QED
  BY <1>3, <1>7, <1>8, <1>10 DEF WholeInv

\* pg_dump ends: no other request writes this file.
LEMMA DumpIsWhole ==
  ASSUME BInv, WholeInv, NEW k \in Calls, Dump(k)
  PROVE  WholeInv'
<1> DEFINE c == backupCall[k]
<1>1. c \in BackupCalls /\ MayBecome(c) /\ TrustedCall(c) /\ dumps \in Seq(DumpStates)
  BY DEF BInv, BackupTypeOK, NamesMade, MayBecome, WholeInv
<1>2. c.at = "dumping" /\ UNCHANGED <<catalog, restored>>
  BY DEF Dump, At
<1>3. PICK success \in BOOLEAN, dump \in DumpStates :
        /\ Dumped(k, success) /\ dumps' = [dumps EXCEPT ![c.id] = dump]
        /\ success => dump = "whole"
  BY DEF Dump, DumpStates
<1> DEFINE d == [c EXCEPT !.at = "loading", !.success = success]
<1>4. d.list = c.list /\ d.victim = 0 /\ d.id = c.id /\ d.at = "loading" /\ d.success = success
  BY <1>1, <1>2 DEF BackupCalls, TrustedCall
<1>5. To(k, d)
  BY <1>3 DEF Dumped
<1> HIDE DEF d
<1>6. /\ backupCall'[k] = d
      /\ \A j \in Calls : j # k => backupCall'[j] = backupCall[j]
  BY <1>5 DEF To, BInv, BackupTypeOK
<1>7. c.id \in DOMAIN dumps /\ \A m \in Made : m # c.id => dumps'[m] = dumps[m]
  BY <1>1, <1>2, <1>3 DEF MayBecome, Made
<1>8. \A m \in Made : Settled(m) => Settled(m)'
  <2> SUFFICES ASSUME NEW m \in Made, Settled(m) PROVE Settled(m)'
    OBVIOUS
  <2>1. m # c.id
    BY <1>2 DEF Settled, At
  <2> QED
    BY <1>4, <1>6, <1>7, <2>1 DEF Settled, At
<1>9. \A j \in Calls : backupCall'[j].at = "dumping" => backupCall'[j].id # c.id
  BY <1>2, <1>4, <1>6 DEF WholeInv, At
<1>10. success => dumps'[c.id] = "whole"
  BY <1>3, <1>7
<1>11. PICK n \in Nat : n = c.id
  BY <1>1 DEF BackupCalls
<1>12. success => Settled(n)'
  BY <1>9, <1>10, <1>11 DEF Settled, At
<1>13. ASSUME NEW j \in Calls PROVE TrustedCall(backupCall[j])'
  <2>1. MayBecome(backupCall[j]) /\ TrustedCall(backupCall[j])
    BY DEF BInv, BackupTypeOK, NamesMade, MayBecome, WholeInv
  <2>2. \A entry \in backupCall[j].list : entry.success => Settled(entry.id)'
    BY <1>8, <2>1 DEF TrustedCall, Trusted, MayBecome
  <2>3. CASE j = k
    <3>1. /\ backupCall'[j].list = backupCall[j].list /\ backupCall'[j].victim = 0
          /\ backupCall'[j].at = "loading" /\ backupCall'[j].success = success
          /\ backupCall'[j].id = n
      BY <1>4, <1>6, <1>11, <2>3
    <3> QED
      BY <1>12, <2>2, <3>1 DEF TrustedCall, Trusted
  <2>4. CASE j # k
    BY <1>6, <1>8, <2>1, <2>4 DEF TrustedCall, Trusted, MayBecome
  <2> QED
    BY <2>3, <2>4
<1>14. Trusted(catalog.list)'
  BY <1>2, <1>8 DEF Trusted, WholeInv, BInv, NamesMade
<1>15. \A i, j \in Calls : At(i, "dumping")' /\ At(j, "dumping")' /\ i # j
                             => backupCall'[i].id # backupCall'[j].id
  BY <1>4, <1>6 DEF At, WholeInv
<1> QED
  BY <1>2, <1>13, <1>14, <1>15 DEF WholeInv

\* Every other step of a request says no more than was true before.
LEMMA StepsAreWhole ==
  ASSUME BInv, BInv', WholeInv, NEW k \in Calls,
         \/ CleanupBackups(k)
         \/ \E entry \in Readable : DeleteBackup(k, entry) \/ RestoreBackup(k, entry)
         \/ Load(k) \/ Truncate(k) \/ Write(k) \/ SaveFails(k)
         \/ List(k) \/ Unlink(k) \/ Restore(k)
  PROVE  WholeInv'
<1> DEFINE c == backupCall[k]
<1>1. /\ c \in BackupCalls /\ MayBecome(c) /\ TrustedCall(c)
      /\ dumps \in Seq(DumpStates) /\ Len(dumps) \in Nat /\ retired \in Nat
  BY DEF BInv, BackupTypeOK, NamesMade, MayBecome, WholeInv
<1>2. /\ Trusted(catalog.list) /\ (restored.success => restored.dump = "whole")
      /\ Readable \subseteq catalog.list
  BY DEF WholeInv, Readable
<1>3. ASSUME NEW d, To(k, d), d.at # "dumping", TrustedCall(d),
             UNCHANGED <<dumps, catalog, restored>>
      PROVE  WholeInv'
  BY <1>2, <1>3, WholeGoesOn
<1>4. NoBackupCall.at = "idle" /\ NoBackupCall.list = {} /\ NoBackupCall.success = FALSE
  BY DEF NoBackupCall
<1>5. TrustedCall(NoBackupCall)
  BY <1>4 DEF TrustedCall, Trusted
<1>6. CASE CleanupBackups(k)
  <2> DEFINE d == [NoBackupCall EXCEPT !.op = "cleanup", !.at = "listing"]
  <2>1. d.at = "listing" /\ d.list = {} /\ d.success = FALSE
    BY DEF NoBackupCall
  <2>2. To(k, d) /\ UNCHANGED <<dumps, catalog, restored>>
    BY <1>6 DEF CleanupBackups, Order
  <2> HIDE DEF d
  <2> QED
    BY <1>3, <2>1, <2>2 DEF TrustedCall, Trusted
<1>7. ASSUME NEW entry \in Readable, DeleteBackup(k, entry)
      PROVE  WholeInv'
  <2> DEFINE d == [NoBackupCall EXCEPT !.op = "delete", !.at = "unlinking", !.victim = entry.id]
  <2>1. d.at = "unlinking" /\ d.list = {} /\ d.success = FALSE
    BY DEF NoBackupCall
  <2>2. To(k, d) /\ UNCHANGED <<dumps, catalog, restored>>
    BY <1>7 DEF DeleteBackup, Order
  <2> HIDE DEF d
  <2> QED
    BY <1>3, <2>1, <2>2 DEF TrustedCall, Trusted
<1>8. ASSUME NEW entry \in Readable, RestoreBackup(k, entry)
      PROVE  WholeInv'
  <2> DEFINE d == [NoBackupCall EXCEPT !.op = "restore", !.at = "restoring", !.id = entry.id,
                                       !.success = entry.success]
  <2>1. /\ d.at = "restoring" /\ d.list = {} /\ d.id = entry.id /\ d.success = entry.success
        /\ d.victim = 0
    BY DEF NoBackupCall
  <2>2. To(k, d) /\ UNCHANGED <<dumps, catalog, restored>>
    BY <1>8 DEF RestoreBackup, Order
  <2>3. entry.success => Settled(entry.id)
    BY <1>2 DEF Trusted
  <2> HIDE DEF d
  <2> QED
    BY <1>3, <2>1, <2>2, <2>3 DEF TrustedCall, Trusted
<1>9. CASE Load(k)
  <2> DEFINE edited(list) == IF c.victim = 0
                             THEN list \cup {[id |-> c.id, success |-> c.success]}
                             ELSE Without(list, c.victim)
             s(list) == [c EXCEPT !.at = "truncating", !.list = edited(list)]
  <2>1. /\ c.at = "loading" /\ UNCHANGED <<dumps, catalog, restored>>
        /\ To(k, s(Readable)) \/ To(k, s({}))
    BY <1>9 DEF Load, At
  <2>2. ASSUME NEW list, Trusted(list)
        PROVE  s(list).at = "truncating" /\ TrustedCall(s(list))
    <3>1. Trusted(edited(list))
      <4>1. CASE c.victim = 0
        <5>1. c.success => Settled(c.id)
          BY <1>1 DEF TrustedCall
        <5> QED
          BY <2>2, <4>1, <5>1 DEF Trusted
      <4>2. CASE c.victim # 0
        BY <2>2, <4>2 DEF Trusted, Without
      <4> QED
        BY <4>1, <4>2
    <3> HIDE DEF edited
    <3>2. /\ s(list).at = "truncating" /\ s(list).list = edited(list)
          /\ s(list).success = c.success /\ s(list).victim = c.victim /\ s(list).id = c.id
      BY <1>1 DEF BackupCalls
    <3> QED
      BY <1>1, <3>1, <3>2 DEF TrustedCall
  <2>3. Trusted(Readable) /\ Trusted({})
    BY <1>2 DEF Trusted
  <2>4. /\ s(Readable).at = "truncating" /\ TrustedCall(s(Readable))
        /\ s({}).at = "truncating" /\ TrustedCall(s({}))
    BY <2>2, <2>3
  <2> HIDE DEF s
  <2> QED
    BY <1>3, <2>1, <2>4
<1>10. CASE Truncate(k)
  <2> DEFINE s == [c EXCEPT !.at = "writing"]
  <2>1. /\ c.at = "truncating" /\ To(k, s) /\ UNCHANGED <<dumps, restored>>
        /\ catalog' = [state |-> "empty", list |-> {}]
    BY <1>10 DEF Truncate, At
  <2>2. s.at = "writing" /\ TrustedCall(s)
    BY <1>1 DEF BackupCalls, TrustedCall
  <2> HIDE DEF s
  <2>3. Trusted(catalog'.list)
    BY <2>1 DEF Trusted
  <2> QED
    BY <1>2, <2>1, <2>2, <2>3, WholeGoesOn
<1>11. CASE Write(k)
  <2> DEFINE s == Saved([c EXCEPT !.list = {}])
  <2>1. /\ c.at = "writing" /\ To(k, s) /\ catalog' \in WriteOutcomes(c.list)
        /\ UNCHANGED <<dumps, restored>>
    BY <1>11 DEF Write, At
  <2>2. s.at # "dumping" /\ TrustedCall(s)
    <3> HIDE DEF s
    <3>1. CASE s = NoBackupCall
      BY <1>4, <1>5, <3>1
    <3>2. CASE s = [NoBackupCall EXCEPT !.op = "create", !.at = "listing"]
      <4>1. s.at = "listing" /\ s.list = {} /\ s.success = FALSE
        BY <3>2 DEF NoBackupCall
      <4> QED
        BY <4>1 DEF TrustedCall, Trusted
    <3>3. ASSUME c.victim # 0, NEW d \in BackupCalls, d.list = {}, d.left = c.left,
                 d.success = c.success, s = NextVictim(d)
          PROVE  s.at # "dumping" /\ TrustedCall(s)
      <4>1. d.success = FALSE
        BY <1>1, <3>3 DEF TrustedCall, BackupCalls
      <4>2. \A n \in d.left : n <= Len(dumps)
        BY <1>1, <3>3 DEF MayBecome, Made
      <4>3. s = NoBackupCall \/ (s.at = "unlinking" /\ s.list = {} /\ s.success = FALSE)
        BY <1>1, <3>3, <4>1, <4>2, NextVictimIs
      <4> QED
        BY <1>4, <1>5, <4>3 DEF TrustedCall, Trusted
    <3>4. BackupTypeOK
      BY DEF BInv
    <3> QED
      BY <1>1, <2>1, <3>1, <3>2, <3>3, <3>4, SavedIs DEF s
  <2> HIDE DEF s
  <2>3. catalog'.list \in {c.list, {}}
    BY <2>1 DEF WriteOutcomes
  <2>4. Trusted(catalog'.list)
    BY <1>1, <2>3 DEF TrustedCall, Trusted
  <2> QED
    BY <1>2, <2>1, <2>2, <2>4, WholeGoesOn
<1>12. CASE SaveFails(k)
  <2> DEFINE s == [c EXCEPT !.at = "loading", !.success = FALSE]
  <2>1. /\ To(k, s) \/ To(k, NoBackupCall)
        /\ UNCHANGED <<dumps, catalog, restored>>
    BY <1>12 DEF SaveFails, Dumped
  <2>2. s.at = "loading" /\ s.list = c.list /\ s.success = FALSE
    BY <1>1 DEF BackupCalls
  <2> HIDE DEF s
  <2>3. TrustedCall(s)
    BY <1>1, <2>2 DEF TrustedCall
  <2> QED
    BY <1>3, <1>4, <1>5, <2>1, <2>2, <2>3
<1>13. CASE List(k)
  <2>1. PICK total \in Nat : total = Cardinality(Listed)
    BY ListedAreMade
  <2>2. Listed \in SUBSET Nat /\ \A n \in Listed : n <= Len(dumps)
    BY <1>1, ListedAreMade DEF Made
  <2> DEFINE s == [c EXCEPT !.left = Listed, !.total = total, !.cutoff = retired]
  <2>3. c.at = "listing" /\ To(k, NextVictim(s)) /\ UNCHANGED <<dumps, catalog, restored>>
    BY <1>13, <2>1 DEF List, At
  <2>4. s \in BackupCalls /\ s.list = c.list /\ s.left = Listed /\ s.success = c.success
    BY <1>1, <2>2 DEF BackupCalls
  <2> HIDE DEF s
  <2>5. s.success = FALSE /\ Trusted(s.list)
    BY <1>1, <2>3, <2>4 DEF TrustedCall, BackupCalls
  <2>6. \/ NextVictim(s) = NoBackupCall
        \/ /\ NextVictim(s).at = "unlinking" /\ NextVictim(s).list = s.list
           /\ NextVictim(s).success = FALSE
    BY <1>1, <2>2, <2>4, <2>5, NextVictimIs
  <2>7. NextVictim(s).at # "dumping" /\ TrustedCall(NextVictim(s))
    BY <1>4, <1>5, <2>5, <2>6 DEF TrustedCall
  <2> QED
    BY <1>3, <2>3, <2>7
<1>14. CASE Unlink(k)
  <2> DEFINE s == [c EXCEPT !.at = "loading"]
  <2>1. /\ c.at = "unlinking" /\ UNCHANGED <<catalog, restored>>
        /\ \/ dumps' = [dumps EXCEPT ![c.victim] = "gone"] /\ To(k, s)
           \/ UNCHANGED dumps /\ To(k, NoBackupCall)
    BY <1>14 DEF Unlink, At
  <2>2. s.at = "loading" /\ TrustedCall(s)
    BY <1>1, <2>1 DEF BackupCalls, TrustedCall
  <2> HIDE DEF s
  <2>3. ASSUME dumps' = [dumps EXCEPT ![c.victim] = "gone"]
        PROVE  /\ Len(dumps') = Len(dumps)
               /\ \A n \in Made : dumps[n] \in {"whole", "gone"} => dumps'[n] \in {"whole", "gone"}
    <3>1. c.victim \in 1..Len(dumps)
      BY <1>1, <2>1 DEF MayBecome, Made
    <3> QED
      BY <1>1, <2>3, <3>1, ExceptSeq DEF Made, DumpStates
  <2>4. CASE dumps' = [dumps EXCEPT ![c.victim] = "gone"] /\ To(k, s)
    BY <1>2, <2>1, <2>2, <2>3, <2>4, WholeGoesOn
  <2>5. CASE UNCHANGED dumps /\ To(k, NoBackupCall)
    BY <1>3, <1>4, <1>5, <2>1, <2>5
  <2> QED
    BY <2>1, <2>4, <2>5
<1>15. CASE Restore(k)
  <2>1. /\ To(k, NoBackupCall) /\ UNCHANGED <<dumps, catalog>>
        /\ \/ restored' = restored
           \/ dumps[c.id] # "gone" /\ restored' = [success |-> c.success, dump |-> dumps[c.id]]
    BY <1>15 DEF Restore
  <2>2. restored'.success => restored'.dump = "whole"
    BY <1>1, <1>2, <2>1 DEF TrustedCall, Settled
  <2> QED
    BY <1>2, <1>4, <1>5, <2>1, <2>2, WholeGoesOn
<1> QED
  BY <1>6, <1>7, <1>8, <1>9, <1>10, <1>11, <1>12, <1>13, <1>14, <1>15

\* The second invariant is inductive relative to the first.
LEMMA NextWholeInv == BInv /\ BInv' /\ WholeInv /\ [BackupNext]_backupVars => WholeInv'
<1> SUFFICES ASSUME BInv, BInv', WholeInv, [BackupNext]_backupVars PROVE WholeInv'
  OBVIOUS
<1>1. ASSUME UNCHANGED <<dumps, catalog, restored, backupCall>> PROVE WholeInv'
  BY <1>1 DEF WholeInv, Trusted, TrustedCall, Settled, At
<1>2. CASE Age \/ UNCHANGED backupVars
  BY <1>1, <1>2 DEF Age, backupVars, backupState
<1>3. CASE RestartBackups
  <2>1. NoBackupCall.list = {} /\ NoBackupCall.success = FALSE /\ NoBackupCall.at = "idle"
    BY DEF NoBackupCall
  <2>2. UNCHANGED <<dumps, catalog, restored>> /\ \A k \in Calls : backupCall'[k] = NoBackupCall
    BY <1>3 DEF RestartBackups
  <2>3. \A n : Settled(n) => Settled(n)'
    BY <2>1, <2>2 DEF Settled, At
  <2>4. Trusted(catalog.list)'
    BY <2>2, <2>3 DEF WholeInv, Trusted
  <2>5. \A k \in Calls : TrustedCall(backupCall[k])'
    BY <2>1, <2>2 DEF TrustedCall, Trusted
  <2>6. \A k \in Calls : ~At(k, "dumping")'
    BY <2>1, <2>2 DEF At
  <2> QED
    BY <2>2, <2>4, <2>5, <2>6 DEF WholeInv
<1> QED
  BY <1>2, <1>3, CreateIsWhole, DumpIsWhole, StepsAreWhole DEF BackupNext

\* A backup that was picked as a success and restored was a whole dump, whatever
\* overlapped, failed or restarted since it was listed: createBackup awaits
\* pg_dump before it says so, and no other request writes that file.
THEOREM RestoredAreWhole == BackupSpec => []RestoredIsWhole
<1>1. BackupInit => BInv /\ WholeInv
  BY InitBInv, InitWholeInv
<1>2. BInv /\ WholeInv /\ [BackupNext]_backupVars => (BInv /\ WholeInv)'
  BY NextBInv, NextWholeInv
<1>3. WholeInv => RestoredIsWhole
  BY DEF WholeInv, RestoredIsWhole
<1> QED
  BY <1>1, <1>2, <1>3, PTL DEF BackupSpec

-----------------------------------------------------------------------------
(* Third invariant: the metadata beside the files, one request at a time.  *)

There == {n \in Made : dumps[n] # "gone"}

Ids(list) == {entry.id : entry \in list}

\* Where a request that is alone has got to.  A creation adds one dump and then
\* enters it; a deletion removes one and then strikes it out; a cleanup starts with
\* at most one dump too many, so deleting the first leaves no excess.
InPlace(c) ==
  /\ IF c.at = "writing" THEN catalog.state = "empty" ELSE catalog.state = "listed"
  /\ c.at \in {"idle", "restoring"} => Listed = There /\ Cardinality(There) <= MaxBackups
  /\ c.at = "dumping" \/ (c.at = "loading" /\ c.victim = 0) =>
       /\ c.victim = 0 /\ c.id \in There /\ Listed = There \ {c.id}
       /\ c.at = "loading" => c.success
  /\ c.at \in {"truncating", "writing"} => Ids(c.list) = There /\ c.victim \notin There
  /\ c.at \in {"dumping", "loading", "truncating", "writing", "listing"} /\ c.victim = 0
       => Cardinality(There) <= MaxBackups + 1
  /\ c.at \in {"truncating", "writing"} /\ c.victim = 0 => c.success
  /\ c.at = "listing" => c.op # "delete" /\ c.deleted = 0 /\ c.victim = 0 /\ Listed = There
  /\ c.at = "unlinking" => c.victim \in There /\ Listed = There
  /\ c.at = "loading" /\ c.victim # 0 => c.victim \notin There /\ Listed = There \cup {c.victim}
  /\ c.at \in {"unlinking", "loading", "truncating", "writing"} /\ c.victim # 0 =>
       /\ c.left \subseteq There \ {c.victim}
       /\ c.op = "delete" => Cardinality(There \ {c.victim}) <= MaxBackups
       /\ c.op # "delete" => /\ c.total - c.deleted = Cardinality(There \ {c.victim}) + 1
                             /\ c.total <= MaxBackups + 1

Alone(k) == \A j \in Calls : j # k => At(j, "idle")

TrueInv ==
  undisturbed =>
    /\ \A j, k \in Calls : ~At(j, "idle") /\ ~At(k, "idle") => j = k
    /\ \A k \in Calls : Alone(k) => InPlace(backupCall[k])

\* The dumps that are there can be counted, and so can what is left without one.
LEMMA ThereIsFinite ==
  ASSUME BInv
  PROVE  /\ There \subseteq Made /\ 0 \notin There
         /\ IsFiniteSet(There) /\ Cardinality(There) \in Nat
         /\ \A n \in There : /\ Cardinality(There \ {n}) \in Nat
                             /\ Cardinality(There) = Cardinality(There \ {n}) + 1
<1>1. Len(dumps) \in Nat
  BY DEF BInv, BackupTypeOK
<1>2. There \subseteq Made /\ 0 \notin There
  BY <1>1 DEF There, Made
<1>3. IsFiniteSet(Made)
  BY <1>1, FS_Interval DEF Made
<1>4. IsFiniteSet(There) /\ Cardinality(There) \in Nat
  BY <1>2, <1>3, FS_Subset, FS_CardinalityType
<1>5. ASSUME NEW n \in There
      PROVE  /\ Cardinality(There \ {n}) \in Nat
             /\ Cardinality(There) = Cardinality(There \ {n}) + 1
  <2>1. IsFiniteSet(There \ {n}) /\ Cardinality(There \ {n}) = Cardinality(There) - 1
    BY <1>4, FS_RemoveElement
  <2>2. Cardinality(There \ {n}) \in Nat
    BY <2>1, FS_CardinalityType
  <2> QED
    BY <1>4, <2>1, <2>2
<1> QED
  BY <1>2, <1>4, <1>5

\* What the metadata lists is what its list names, when it can be read.
LEMMA ListedIs == catalog.state = "listed" => Listed = Ids(catalog.list)
BY DEF Listed, Readable, Ids

\* A step of the request k: if all was undisturbed, k was alone and is in place.
LEMMA TrueStep ==
  ASSUME BInv, BInv', NEW k \in Calls, NEW d, To(k, d),
         undisturbed' => Alone(k) /\ InPlace(d)'
  PROVE  TrueInv'
<1> SUFFICES ASSUME undisturbed'
             PROVE  /\ \A i, j \in Calls : ~At(i, "idle")' /\ ~At(j, "idle")' => i = j
                    /\ \A i \in Calls : Alone(i)' => InPlace(backupCall[i])'
  BY DEF TrueInv
<1>1. /\ backupCall'[k] = d
      /\ \A j \in Calls : j # k => backupCall'[j] = backupCall[j] /\ At(j, "idle")'
  BY DEF To, BInv, BackupTypeOK, Alone, At
<1>2. \A i, j \in Calls : ~At(i, "idle")' /\ ~At(j, "idle")' => i = j
  BY <1>1
<1>3. ASSUME NEW i \in Calls, Alone(i)' PROVE InPlace(backupCall[i])'
  <2>1. CASE i = k
    BY <1>1, <2>1 DEF InPlace
  <2>2. CASE i # k
    <3>1. d.at = "idle" /\ backupCall'[i].at = "idle"
      BY <1>1, <1>3, <2>2 DEF Alone, At
    <3>2. /\ catalog'.state = "listed"
          /\ Listed' = There' /\ Cardinality(There') <= MaxBackups
      BY <3>1 DEF InPlace
    <3> QED
      BY <3>1, <3>2 DEF InPlace
  <2> QED
    BY <2>1, <2>2
<1> QED
  BY <1>2, <1>3

\* Who asks alone finds everything in its place.
LEMMA FoundInPlace ==
  ASSUME TrueInv, NEW k \in Calls, NEW d, Order(k, d), undisturbed'
  PROVE  /\ Alone(k) /\ To(k, d) /\ catalog.state = "listed"
         /\ Listed = There /\ Cardinality(There) <= MaxBackups
<1>1. undisturbed /\ Quiet /\ To(k, d)
  BY DEF Order
<1>2. Alone(k) /\ At(k, "idle")
  BY <1>1 DEF Quiet, Alone
<1>3. InPlace(backupCall[k])
  BY <1>1, <1>2 DEF TrueInv
<1> QED
  BY <1>1, <1>2, <1>3 DEF InPlace, At

\* So does who is at work, and nothing was disturbed.
LEMMA AtWorkInPlace ==
  ASSUME TrueInv, NEW k \in Calls, ~At(k, "idle"), Undisturbed, undisturbed'
  PROVE  Alone(k) /\ InPlace(backupCall[k])
<1>1. undisturbed
  BY DEF Undisturbed
<1>2. Alone(k)
  BY <1>1 DEF TrueInv, Alone
<1> QED
  BY <1>1, <1>2 DEF TrueInv

\* Requests arrive.
LEMMA RequestsInPlace ==
  ASSUME BInv, BInv', TrueInv, NEW k \in Calls,
         \/ CreateBackup(k) \/ CleanupBackups(k)
         \/ \E entry \in Readable : DeleteBackup(k, entry) \/ RestoreBackup(k, entry)
  PROVE  TrueInv'
<1>1. /\ Len(dumps) \in Nat /\ dumps \in Seq(DumpStates) /\ Len(dumps') \in Nat
      /\ MaxBackups \in Nat /\ Cardinality(There) \in Nat
  BY ThereIsFinite DEF BInv, BackupTypeOK
<1>2. CASE CreateBackup(k)
  <2>1. PICK n \in Nat : n = Len(dumps) + 1
    BY <1>1
  <2> DEFINE e == [NoBackupCall EXCEPT !.op = "create", !.at = "dumping", !.id = n]
  <2>2. e.victim = 0 /\ e.at = "dumping" /\ e.id = n
    BY DEF NoBackupCall
  <2>3. Order(k, e) /\ dumps' = Append(dumps, "partial") /\ UNCHANGED catalog
    BY <1>2, <2>1 DEF CreateBackup
  <2> HIDE DEF e
  <2>4. PICK d : d = e
    OBVIOUS
  <2>5. ASSUME undisturbed'
        PROVE  Alone(k) /\ InPlace(d)'
    <3>1. /\ Alone(k) /\ catalog'.state = "listed"
          /\ Listed = There /\ Cardinality(There) <= MaxBackups
      BY <2>3, <2>5, FoundInPlace
    <3>2. Listed' = Listed
      BY <2>3 DEF Listed, Readable
    <3>3. n \in There' /\ There = There' \ {n}
      <4>1. /\ Len(dumps') = n /\ dumps'[n] = "partial"
            /\ \A m \in 1..Len(dumps) : dumps'[m] = dumps[m]
        BY <1>1, <2>1, <2>3
      <4>2. n \in There'
        BY <1>1, <2>1, <4>1 DEF There, Made
      <4>3. Made' = Made \cup {n} /\ n \notin Made
        BY <1>1, <2>1, <4>1 DEF Made
      <4> QED
        BY <4>1, <4>2, <4>3 DEF There, Made
    <3>4. Cardinality(There') = Cardinality(There) + 1
      <4>1. There' = There \cup {n} /\ n \notin There
        BY <3>3
      <4> HIDE DEF There
      <4> QED
        BY <4>1, ThereIsFinite, FS_AddElement
    <3> QED
      BY <1>1, <2>2, <2>4, <3>1, <3>2, <3>3, <3>4 DEF InPlace
  <2> QED
    BY <2>3, <2>4, <2>5, TrueStep DEF Order
<1>3. CASE CleanupBackups(k)
  <2> DEFINE e == [NoBackupCall EXCEPT !.op = "cleanup", !.at = "listing"]
  <2>1. e.victim = 0 /\ e.at = "listing" /\ e.op = "cleanup" /\ e.deleted = 0
    BY DEF NoBackupCall
  <2>2. Order(k, e) /\ UNCHANGED <<dumps, catalog>>
    BY <1>3 DEF CleanupBackups
  <2> HIDE DEF e
  <2>3. PICK d : d = e
    OBVIOUS
  <2>4. ASSUME undisturbed'
        PROVE  Alone(k) /\ InPlace(d)'
    <3>1. /\ Alone(k) /\ catalog'.state = "listed"
          /\ Listed = There /\ Cardinality(There) <= MaxBackups
      BY <2>2, <2>4, FoundInPlace
    <3>2. Listed' = Listed /\ There' = There
      BY <2>2 DEF Listed, Readable, There, Made
    <3> QED
      BY <1>1, <2>1, <2>3, <3>1, <3>2 DEF InPlace
  <2> QED
    BY <2>2, <2>3, <2>4, TrueStep DEF Order
<1>4. ASSUME NEW entry \in Readable, DeleteBackup(k, entry)
      PROVE  TrueInv'
  <2> DEFINE e == [NoBackupCall EXCEPT !.op = "delete", !.at = "unlinking", !.victim = entry.id]
  <2>1. e.victim = entry.id /\ e.at = "unlinking" /\ e.op = "delete" /\ e.left = {}
    BY DEF NoBackupCall
  <2>2. Order(k, e) /\ UNCHANGED <<dumps, catalog>>
    BY <1>4 DEF DeleteBackup
  <2>3. entry.id \in Listed
    BY DEF Listed
  <2> HIDE DEF e
  <2>4. PICK d : d = e
    OBVIOUS
  <2>5. ASSUME undisturbed'
        PROVE  Alone(k) /\ InPlace(d)'
    <3>1. /\ Alone(k) /\ catalog'.state = "listed"
          /\ Listed = There /\ Cardinality(There) <= MaxBackups
      BY <2>2, <2>5, FoundInPlace
    <3>2. Listed' = Listed /\ There' = There
      BY <2>2 DEF Listed, Readable, There, Made
    <3>3. Cardinality(There \ {entry.id}) <= MaxBackups
      BY <1>1, <2>3, <3>1, ThereIsFinite
    <3>4. d.victim = entry.id /\ d.at = "unlinking" /\ d.op = "delete" /\ d.left = {}
      BY <2>1, <2>4
    <3> QED
      BY <2>3, <3>1, <3>2, <3>3, <3>4 DEF InPlace
  <2> QED
    BY <2>2, <2>4, <2>5, TrueStep DEF Order
<1>5. ASSUME NEW entry \in Readable, RestoreBackup(k, entry)
      PROVE  TrueInv'
  <2> DEFINE e == [NoBackupCall EXCEPT !.op = "restore", !.at = "restoring", !.id = entry.id,
                                       !.success = entry.success]
  <2>1. e.at = "restoring"
    BY DEF NoBackupCall
  <2>2. Order(k, e) /\ UNCHANGED <<dumps, catalog>>
    BY <1>5 DEF RestoreBackup
  <2> HIDE DEF e
  <2>3. PICK d : d = e
    OBVIOUS
  <2>4. ASSUME undisturbed'
        PROVE  Alone(k) /\ InPlace(d)'
    <3>1. /\ Alone(k) /\ catalog'.state = "listed"
          /\ Listed = There /\ Cardinality(There) <= MaxBackups
      BY <2>2, <2>4, FoundInPlace
    <3>2. Listed' = Listed /\ There' = There
      BY <2>2 DEF Listed, Readable, There, Made
    <3> QED
      BY <1>1, <2>1, <2>3, <3>1, <3>2 DEF InPlace
  <2> QED
    BY <2>2, <2>3, <2>4, TrueStep DEF Order
<1> QED
  BY <1>2, <1>3, <1>4, <1>5

\* A dump that is made is there; one that is deleted no longer is.
LEMMA FilesInPlace ==
  ASSUME BInv, BInv', TrueInv, NEW k \in Calls, Dump(k) \/ Unlink(k)
  PROVE  TrueInv'
<1>1. PICK c \in BackupCalls : c = backupCall[k]
  BY DEF BInv, BackupTypeOK
<1>2. MayBecome(c) /\ dumps \in Seq(DumpStates) /\ Len(dumps) \in Nat
  BY <1>1 DEF BInv, BackupTypeOK, NamesMade, MayBecome
<1>3. Listed' = Listed /\ catalog' = catalog
  BY DEF Dump, Unlink, Listed, Readable
<1>4. ASSUME NEW n \in Made, NEW dump \in DumpStates, dumps' = [dumps EXCEPT ![n] = dump]
      PROVE  /\ dump # "gone" /\ n \in There => There' = There
             /\ dump = "gone" => There' = There \ {n}
  <2>1. /\ Made' = Made /\ dumps'[n] = dump
        /\ \A m \in Made : m # n => dumps'[m] = dumps[m]
    BY <1>2, <1>4, ExceptSeq DEF Made
  <2>2. There' = {m \in Made : dumps'[m] # "gone"}
    BY <2>1 DEF There
  <2> QED
    BY <1>4, <2>1, <2>2 DEF There
<1> DEFINE e(success) == [c EXCEPT !.at = "loading", !.success = success]
<1>5. ASSUME NEW success \in BOOLEAN
      PROVE  /\ e(success).at = "loading" /\ e(success).success = success
             /\ e(success).victim = c.victim /\ e(success).id = c.id
             /\ e(success).op = c.op /\ e(success).left = c.left
             /\ e(success).total = c.total /\ e(success).deleted = c.deleted
  BY DEF BackupCalls
<1>6. CASE Dump(k)
  <2>1. At(k, "dumping") /\ c.at = "dumping" /\ c.id \in Made
    BY <1>1, <1>2, <1>6 DEF Dump, At, MayBecome
  <2>2. PICK success \in BOOLEAN, dump \in DumpStates :
          /\ Dumped(k, success) /\ dumps' = [dumps EXCEPT ![c.id] = dump]
          /\ undisturbed' => Undisturbed /\ success /\ dump = "whole"
    BY <1>1, <1>6 DEF Dump, DumpStates, Disturbed
  <2>3. To(k, e(success))
    BY <1>1, <2>2 DEF Dumped
  <2> HIDE DEF e
  <2>4. PICK d : d = e(success)
    OBVIOUS
  <2>5. ASSUME undisturbed'
        PROVE  Alone(k) /\ InPlace(d)'
    <3>1. Alone(k) /\ InPlace(c)
      BY <1>1, <2>1, <2>2, <2>5, AtWorkInPlace DEF At
    <3>2. There' = There
      BY <1>4, <2>1, <2>2, <2>5, <3>1 DEF InPlace
    <3> QED
      BY <1>3, <1>5, <2>1, <2>2, <2>4, <2>5, <3>1, <3>2 DEF InPlace
  <2> QED
    BY <2>3, <2>4, <2>5, TrueStep
<1>7. CASE Unlink(k)
  <2> DEFINE f == [c EXCEPT !.at = "loading"]
  <2>1. At(k, "unlinking") /\ c.at = "unlinking" /\ c.victim \in Made /\ c.victim # 0
    BY <1>1, <1>2, <1>7 DEF Unlink, At, MayBecome
  <2>2. /\ f.at = "loading" /\ f.victim = c.victim /\ f.op = c.op /\ f.left = c.left
        /\ f.total = c.total /\ f.deleted = c.deleted
    BY DEF BackupCalls
  <2>3. \/ /\ dumps' = [dumps EXCEPT ![c.victim] = "gone"] /\ To(k, f) /\ Undisturbed
        \/ /\ To(k, NoBackupCall)
           /\ undisturbed' => Undisturbed /\ dumps[c.victim] = "gone"
    BY <1>1, <1>7 DEF Unlink, Disturbed
  <2> HIDE DEF f
  <2>4. PICK d : d = f
    OBVIOUS
  <2>5. ASSUME undisturbed', Undisturbed
        PROVE  Alone(k) /\ InPlace(c) /\ c.victim \in There /\ Listed = There
    <3>1. Alone(k) /\ InPlace(c)
      BY <1>1, <2>1, <2>5, AtWorkInPlace DEF At
    <3> QED
      BY <2>1, <3>1 DEF InPlace
  <2>6. CASE dumps' = [dumps EXCEPT ![c.victim] = "gone"] /\ To(k, f) /\ Undisturbed
    <3>1. ASSUME undisturbed'
          PROVE  Alone(k) /\ InPlace(d)'
      <4>1. There' = There \ {c.victim} /\ There' \ {c.victim} = There \ {c.victim}
        BY <1>4, <2>1, <2>6 DEF DumpStates
      <4>2. Listed' = There' \cup {c.victim} /\ c.victim \notin There'
        BY <1>3, <2>5, <2>6, <3>1, <4>1
      <4>3. /\ catalog.state = "listed"
            /\ c.left \subseteq There' \ {c.victim}
            /\ c.op = "delete" => Cardinality(There' \ {c.victim}) <= MaxBackups
            /\ c.op # "delete" => /\ c.total - c.deleted = Cardinality(There' \ {c.victim}) + 1
                                  /\ c.total <= MaxBackups + 1
        BY <2>1, <2>5, <2>6, <3>1, <4>1 DEF InPlace
      <4> QED
        BY <1>3, <2>1, <2>2, <2>4, <2>5, <2>6, <3>1, <4>2, <4>3 DEF InPlace
    <3> QED
      BY <2>4, <2>6, <3>1, TrueStep
  <2>7. CASE To(k, NoBackupCall) /\ (undisturbed' => Undisturbed /\ dumps[c.victim] = "gone")
    <3>1. ~undisturbed'
      BY <2>5, <2>7 DEF There
    <3>2. PICK g : g = NoBackupCall
      OBVIOUS
    <3> QED
      BY <2>7, <3>1, <3>2, TrueStep
  <2> QED
    BY <2>3, <2>6, <2>7
<1> QED
  BY <1>6, <1>7

\* The metadata is read, and emptied.
LEMMA LoadInPlace ==
  ASSUME BInv, BInv', TrueInv, NEW k \in Calls, Load(k) \/ Truncate(k)
  PROVE  TrueInv'
<1>1. PICK c \in BackupCalls : c = backupCall[k]
  BY DEF BInv, BackupTypeOK
<1>2. There' = There /\ 0 \notin There
  BY ThereIsFinite DEF Load, Truncate, There, Made
<1>3. CASE Load(k)
  <2> DEFINE edited(list) == IF c.victim = 0
                             THEN list \cup {[id |-> c.id, success |-> c.success]}
                             ELSE Without(list, c.victim)
             e(list) == [c EXCEPT !.at = "truncating", !.list = edited(list)]
  <2>1. c.at = "loading" /\ At(k, "loading") /\ catalog' = catalog
    BY <1>1, <1>3 DEF Load, At
  <2>2. PICK list : /\ To(k, e(list))
                    /\ undisturbed' => Undisturbed /\ list = Readable
    BY <1>1, <1>3 DEF Load, Disturbed
  <2>3. /\ e(list).at = "truncating" /\ e(list).list = edited(list)
        /\ e(list).victim = c.victim /\ e(list).op = c.op /\ e(list).left = c.left
        /\ e(list).total = c.total /\ e(list).deleted = c.deleted
        /\ e(list).success = c.success
    BY DEF BackupCalls
  <2>4. Ids(edited(Readable)) = IF c.victim = 0 THEN Listed \cup {c.id} ELSE Listed \ {c.victim}
    <3>1. CASE c.victim = 0
      <4> DEFINE x == [id |-> c.id, success |-> c.success]
      <4>1. x.id = c.id
        OBVIOUS
      <4> HIDE DEF x
      <4>2. Ids(Readable \cup {x}) = Listed \cup {c.id}
        BY <4>1 DEF Ids, Listed
      <4> QED
        BY <3>1, <4>2 DEF x
    <3>2. CASE c.victim # 0
      BY <3>2 DEF Ids, Listed, Without
    <3> QED
      BY <3>1, <3>2
  <2> HIDE DEF e, edited
  <2>5. PICK d : d = e(list)
    OBVIOUS
  <2>6. ASSUME undisturbed'
        PROVE  Alone(k) /\ InPlace(d)'
    <3>1. Alone(k) /\ InPlace(c) /\ list = Readable
      BY <1>1, <2>1, <2>2, <2>6, AtWorkInPlace DEF At
    <3>2. catalog.state = "listed" /\ c.victim \notin There
      BY <1>2, <2>1, <3>1 DEF InPlace
    <3>3. Ids(d.list) = There
      BY <2>1, <2>3, <2>4, <2>5, <3>1 DEF InPlace
    <3>4. d.victim = 0 => Cardinality(There) <= MaxBackups + 1 /\ d.success
      BY <2>1, <2>3, <2>5, <3>1 DEF InPlace
    <3>5. d.victim # 0 =>
            /\ d.left \subseteq There \ {d.victim}
            /\ d.op = "delete" => Cardinality(There \ {d.victim}) <= MaxBackups
            /\ d.op # "delete" => /\ d.total - d.deleted = Cardinality(There \ {d.victim}) + 1
                                  /\ d.total <= MaxBackups + 1
      BY <2>1, <2>3, <2>5, <3>1 DEF InPlace
    <3>6. d.at = "truncating" /\ d.victim = c.victim
      BY <2>3, <2>5
    <3> QED
      BY <1>2, <2>1, <3>1, <3>2, <3>3, <3>4, <3>5, <3>6 DEF InPlace
  <2> QED
    BY <2>2, <2>5, <2>6, TrueStep
<1>4. CASE Truncate(k)
  <2> DEFINE e == [c EXCEPT !.at = "writing"]
  <2>1. /\ c.at = "truncating" /\ At(k, "truncating") /\ To(k, e) /\ Undisturbed
        /\ catalog' = [state |-> "empty", list |-> {}]
    BY <1>1, <1>4 DEF Truncate, At
  <2>2. /\ e.at = "writing" /\ e.list = c.list
        /\ e.victim = c.victim /\ e.op = c.op /\ e.left = c.left
        /\ e.total = c.total /\ e.deleted = c.deleted /\ e.success = c.success
    BY DEF BackupCalls
  <2> HIDE DEF e
  <2>3. PICK d : d = e
    OBVIOUS
  <2>4. ASSUME undisturbed'
        PROVE  Alone(k) /\ InPlace(d)'
    <3>1. Alone(k) /\ InPlace(c)
      BY <1>1, <2>1, <2>4, AtWorkInPlace DEF At
    <3> QED
      BY <1>2, <2>1, <2>2, <2>3, <3>1 DEF InPlace
  <2> QED
    BY <2>1, <2>3, <2>4, TrueStep
<1> QED
  BY <1>3, <1>4

\* A cleanup goes on to a dump that is there, or ends without excess.
LEMMA VictimIsThere ==
  ASSUME BInv, NEW c \in BackupCalls, c.left \subseteq There, c.op # "delete",
         c.total - c.deleted = Cardinality(There), c.total <= MaxBackups + 1,
         Cardinality(There) > MaxBackups => c.left # {},
         NEW d, d = NextVictim(c)
  PROVE  \/ d.at = "idle" /\ Cardinality(There) <= MaxBackups
         \/ /\ d.at = "unlinking" /\ d.victim # 0 /\ d.victim \in There /\ d.op # "delete"
            /\ d.left \subseteq There \ {d.victim}
            /\ d.total - d.deleted = Cardinality(There \ {d.victim}) + 1
            /\ d.total <= MaxBackups + 1
<1>1. /\ Len(dumps) \in Nat /\ There \subseteq Made /\ Cardinality(There) \in Nat
      /\ MaxBackups \in Nat
  BY ThereIsFinite DEF BInv, BackupTypeOK
<1>2. \A n \in There : n <= Len(dumps) /\ n # 0
  BY <1>1 DEF Made
<1>3. \/ d = NoBackupCall /\ Cardinality(There) <= MaxBackups
      \/ /\ d.at = "unlinking" /\ d.victim \in c.left
         /\ d.left \subseteq c.left \ {d.victim} /\ d.op = c.op
         /\ d.total = c.total /\ d.deleted = c.deleted
  BY <1>1, <1>2, NextVictimIs
<1>4. CASE d = NoBackupCall /\ Cardinality(There) <= MaxBackups
  BY <1>4 DEF NoBackupCall
<1>5. CASE d.at = "unlinking" /\ d.victim \in c.left
           /\ d.left \subseteq c.left \ {d.victim} /\ d.op = c.op
           /\ d.total = c.total /\ d.deleted = c.deleted
  <2>1. d.victim \in There /\ d.victim # 0 /\ d.left \subseteq There \ {d.victim}
    BY <1>2, <1>5
  <2>2. Cardinality(There) = Cardinality(There \ {d.victim}) + 1
    BY <2>1, ThereIsFinite
  <2>3. d.total - d.deleted = Cardinality(There \ {d.victim}) + 1 /\ d.total <= MaxBackups + 1
    BY <1>5, <2>2
  <2> QED
    BY <1>5, <2>1, <2>3
<1> QED
  BY <1>3, <1>4, <1>5

\* The metadata is written: what it lists is there again, and a cleanup goes on.
LEMMA WriteInPlace ==
  ASSUME BInv, BInv', TrueInv, NEW k \in Calls, Write(k)
  PROVE  TrueInv'
<1>1. PICK c \in BackupCalls : c = backupCall[k]
  BY DEF BInv, BackupTypeOK
<1>2. MayBecome(c) /\ BackupTypeOK /\ Cardinality(There) \in Nat /\ MaxBackups \in Nat
  BY <1>1, ThereIsFinite DEF BInv, NamesMade, MayBecome
<1> DEFINE e == Saved([c EXCEPT !.list = {}])
<1>3. /\ c.at = "writing" /\ At(k, "writing") /\ To(k, e) /\ Undisturbed
      /\ catalog' \in WriteOutcomes(c.list) /\ There' = There
  BY <1>1 DEF Write, At, There, Made
<1>4. PICK d : d = e
  OBVIOUS
<1>5. \/ c.victim = 0 /\ c.success /\ d = [NoBackupCall EXCEPT !.op = "create", !.at = "listing"]
      \/ /\ c.victim # 0 /\ c.op # "delete"
         /\ \E f \in BackupCalls :
              /\ f.op = c.op /\ f.left = c.left /\ f.total = c.total
              /\ f.deleted = c.deleted + 1 /\ d = NextVictim(f)
      \/ (c.victim = 0 => ~c.success) /\ (c.victim # 0 => c.op = "delete") /\ d = NoBackupCall
  BY <1>2, <1>3, <1>4, SavedIs
<1> HIDE DEF e
<1>6. ASSUME undisturbed'
      PROVE  Alone(k) /\ InPlace(d)'
  <2>1. Alone(k) /\ InPlace(c)
    BY <1>1, <1>3, <1>6, AtWorkInPlace DEF At
  <2>2. catalog' = [state |-> "listed", list |-> c.list]
    BY <1>3, <2>1 DEF InPlace, WriteOutcomes, Readable
  <2>3. Listed' = Ids(c.list)
    BY <2>2 DEF Listed, Readable, Ids
  <2>4. Listed' = There /\ catalog'.state = "listed" /\ c.victim \notin There
    BY <1>3, <2>1, <2>2, <2>3 DEF InPlace
  <2>5. There \ {c.victim} = There
    BY <2>4
  <2>6. CASE /\ c.victim = 0 /\ c.success
             /\ d = [NoBackupCall EXCEPT !.op = "create", !.at = "listing"]
    <3>1. d.at = "listing" /\ d.victim = 0 /\ d.op = "create" /\ d.deleted = 0
      BY <2>6 DEF NoBackupCall
    <3>2. Cardinality(There) <= MaxBackups + 1
      BY <1>3, <2>1, <2>6 DEF InPlace
    <3> QED
      BY <1>3, <2>1, <2>4, <3>1, <3>2 DEF InPlace
  <2>7. ASSUME c.victim # 0, c.op # "delete", NEW f \in BackupCalls,
               f.op = c.op, f.left = c.left, f.total = c.total,
               f.deleted = c.deleted + 1, d = NextVictim(f)
        PROVE  InPlace(d)'
    <3>1. /\ c.left \subseteq There /\ c.total <= MaxBackups + 1
          /\ c.total - c.deleted = Cardinality(There) + 1
      BY <1>3, <2>1, <2>5, <2>7 DEF InPlace
    <3>2. c.deleted \in Nat /\ c.total \in Nat
      BY DEF BackupCalls
    <3>3. f.total - f.deleted = Cardinality(There) /\ Cardinality(There) <= MaxBackups
      BY <1>2, <2>7, <3>1, <3>2
    <3>4. ~(Cardinality(There) > MaxBackups)
      BY <1>2, <3>3
    <3>5. \/ d.at = "idle" /\ Cardinality(There) <= MaxBackups
          \/ /\ d.at = "unlinking" /\ d.victim # 0 /\ d.victim \in There /\ d.op # "delete"
             /\ d.left \subseteq There \ {d.victim}
             /\ d.total - d.deleted = Cardinality(There \ {d.victim}) + 1
             /\ d.total <= MaxBackups + 1
      BY <2>7, <3>1, <3>3, <3>4, VictimIsThere
    <3> QED
      BY <1>3, <2>4, <3>5 DEF InPlace
  <2>8. CASE /\ c.victim = 0 => ~c.success
             /\ c.victim # 0 => c.op = "delete"
             /\ d = NoBackupCall
    <3>1. d.at = "idle"
      BY <2>8 DEF NoBackupCall
    <3>2. Cardinality(There) <= MaxBackups
      BY <1>3, <2>1, <2>5, <2>8 DEF InPlace
    <3> QED
      BY <1>3, <2>1, <2>4, <3>1, <3>2 DEF InPlace
  <2> QED
    BY <1>5, <2>1, <2>6, <2>7, <2>8
<1> QED
  BY <1>3, <1>4, <1>6, TrueStep

\* A cleanup lists what is there; a restore ends; a save that fails is a disturbance.
LEMMA OthersInPlace ==
  ASSUME BInv, BInv', TrueInv, NEW k \in Calls, List(k) \/ Restore(k) \/ SaveFails(k)
  PROVE  TrueInv'
<1>1. PICK c \in BackupCalls : c = backupCall[k]
  BY DEF BInv, BackupTypeOK
<1>2. /\ Cardinality(There) \in Nat /\ There \subseteq Made /\ MaxBackups \in Nat
      /\ retired \in Nat /\ IsFiniteSet(There) /\ Made \subseteq Nat
  BY ThereIsFinite DEF BInv, BackupTypeOK, Made
<1>3. There' = There /\ Listed' = Listed /\ catalog' = catalog
  BY DEF List, Restore, SaveFails, There, Made, Listed, Readable
<1>4. CASE List(k)
  <2>1. PICK total \in Nat : total = Cardinality(Listed)
    BY ListedAreMade
  <2> DEFINE e == [c EXCEPT !.left = Listed, !.total = total, !.cutoff = retired]
  <2>2. c.at = "listing" /\ At(k, "listing") /\ To(k, NextVictim(e)) /\ Undisturbed
    BY <1>1, <1>4, <2>1 DEF List, At
  <2>3. Listed \in SUBSET Nat
    BY <1>2, ListedAreMade
  <2>4. /\ e \in BackupCalls /\ e.left = Listed /\ e.total = total /\ e.deleted = c.deleted
        /\ e.op = c.op
    BY <1>2, <2>3 DEF BackupCalls
  <2> HIDE DEF e
  <2>5. PICK f \in BackupCalls : f = e
    BY <2>4
  <2>6. PICK d : d = NextVictim(f)
    OBVIOUS
  <2>7. ASSUME undisturbed'
        PROVE  Alone(k) /\ InPlace(d)'
    <3>1. Alone(k) /\ InPlace(c)
      BY <1>1, <2>2, <2>7, AtWorkInPlace DEF At
    <3>2. /\ catalog.state = "listed" /\ Listed = There /\ c.op # "delete" /\ c.deleted = 0
          /\ Cardinality(There) <= MaxBackups + 1
      BY <2>2, <3>1 DEF InPlace
    <3>3. /\ f.left = There /\ f.total - f.deleted = Cardinality(There)
          /\ f.total <= MaxBackups + 1 /\ f.op # "delete"
      BY <1>2, <2>1, <2>4, <2>5, <3>2
    <3>4. Cardinality(There) > MaxBackups => There # {}
      BY <1>2, FS_EmptySet
    <3>5. \/ d.at = "idle" /\ Cardinality(There) <= MaxBackups
          \/ /\ d.at = "unlinking" /\ d.victim # 0 /\ d.victim \in There /\ d.op # "delete"
             /\ d.left \subseteq There \ {d.victim}
             /\ d.total - d.deleted = Cardinality(There \ {d.victim}) + 1
             /\ d.total <= MaxBackups + 1
      BY <2>6, <3>3, <3>4, VictimIsThere
    <3> QED
      BY <1>3, <3>1, <3>2, <3>5 DEF InPlace
  <2> QED
    BY <2>2, <2>5, <2>6, <2>7, TrueStep
<1>5. CASE Restore(k)
  <2>1. c.at = "restoring" /\ At(k, "restoring") /\ To(k, NoBackupCall) /\ Undisturbed
    BY <1>1, <1>5 DEF Restore, At
  <2>2. PICK d : d = NoBackupCall
    OBVIOUS
  <2>3. ASSUME undisturbed'
        PROVE  Alone(k) /\ InPlace(d)'
    <3>1. Alone(k) /\ InPlace(c)
      BY <1>1, <2>1, <2>3, AtWorkInPlace DEF At
    <3>2. d.at = "idle"
      BY <2>2 DEF NoBackupCall
    <3> QED
      BY <1>3, <2>1, <3>1, <3>2 DEF InPlace
  <2> QED
    BY <2>1, <2>2, <2>3, TrueStep
<1>6. CASE SaveFails(k)
  <2>1. PICK d : To(k, d)
    BY <1>6 DEF SaveFails, Dumped
  <2>2. ~undisturbed'
    BY <1>6 DEF SaveFails, Disturbed
  <2> QED
    BY <2>1, <2>2, TrueStep
<1> QED
  BY <1>4, <1>5, <1>6

\* The third invariant is inductive relative to the first.
LEMMA NextTrueInv == BInv /\ BInv' /\ TrueInv /\ [BackupNext]_backupVars => TrueInv'
<1> SUFFICES ASSUME BInv, BInv', TrueInv, [BackupNext]_backupVars PROVE TrueInv'
  OBVIOUS
<1>1. CASE Age \/ UNCHANGED backupVars
  <2>1. UNCHANGED <<dumps, catalog, backupCall, undisturbed>>
    BY <1>1 DEF Age, Undisturbed, backupVars, backupState
  <2>2. There' = There /\ Listed' = Listed
    BY <2>1 DEF There, Made, Listed, Readable
  <2>3. ASSUME NEW k \in Calls, InPlace(backupCall[k]) PROVE InPlace(backupCall[k])'
    BY <2>1, <2>2, <2>3 DEF InPlace
  <2>4. \A k \in Calls : Alone(k)' => Alone(k)
    BY <2>1 DEF Alone, At
  <2> QED
    BY <2>1, <2>3, <2>4 DEF TrueInv, At
<1>2. CASE RestartBackups
  BY <1>2 DEF RestartBackups, TrueInv
<1> QED
  BY <1>1, <1>2, RequestsInPlace, FilesInPlace, LoadInPlace, WriteInPlace, OthersInPlace
  DEF BackupNext

\* Nothing is listed and nothing is there.
LEMMA InitTrueInv == BackupInit => TrueInv
<1> SUFFICES ASSUME BackupInit PROVE TrueInv
  OBVIOUS
<1>1. \A k \in Calls : At(k, "idle") /\ backupCall[k].at = "idle"
  BY DEF BackupInit, At, NoBackupCall
<1>2. catalog.state = "listed" /\ Listed = {} /\ There = {}
  BY DEF BackupInit, Listed, Readable, There, Made
<1>3. Cardinality(There) <= MaxBackups
  BY <1>2, FS_EmptySet
<1> QED
  BY <1>1, <1>2, <1>3 DEF TrueInv, InPlace

\* As long as requests come one at a time and nothing fails, the metadata lists
\* exactly the dumps that are there, and no more of them than are to be kept:
\* saveMetadata and deleteBackup strike out and enter what they did to the files,
\* and the cleanup after each creation makes up for the one dump it added.
THEOREM CatalogIsAlwaysTrue == BackupSpec => []CatalogIsTrue
<1>1. BackupInit => BInv /\ TrueInv
  BY InitBInv, InitTrueInv
<1>2. BInv /\ TrueInv /\ [BackupNext]_backupVars => (BInv /\ TrueInv)'
  BY NextBInv, NextTrueInv
<1>3. BInv /\ TrueInv => CatalogIsTrue
  <2> SUFFICES ASSUME BInv, TrueInv, undisturbed, Quiet
               PROVE  /\ Listed = {n \in 1..Len(dumps) : dumps[n] # "gone"}
                      /\ Cardinality(Listed) <= MaxBackups
    BY DEF CatalogIsTrue
  <2>1. PICK k \in Calls : At(k, "idle") /\ Alone(k)
    BY CallsAreFinite DEF Quiet, Alone
  <2>2. InPlace(backupCall[k])
    BY <2>1 DEF TrueInv
  <2> QED
    BY <2>1, <2>2 DEF InPlace, At, There, Made
<1> QED
  BY <1>1, <1>2, <1>3, PTL DEF BackupSpec
=============================================================================
