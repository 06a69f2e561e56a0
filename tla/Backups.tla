------------------------------ MODULE Backups ------------------------------
(***************************************************************************)
(* Backups of the database (backup.service.ts): a directory of dumps and   *)
(* the file of metadata beside them, which every operation reads, changes  *)
(* and writes back as a whole.  A dump is named by its number, which also  *)
(* is its age: the time of day is in the name.  Every reader of the        *)
(* metadata sorts or filters it, and a dump is entered once: what the file *)
(* lists is a set of entries.                                              *)
(***************************************************************************)
EXTENDS Service, Sequences

CONSTANT MaxBackups   \* maxBackups of the configuration

ASSUME BackupAssumption == MaxBackups \in Nat

VARIABLES
  dumps,          \* the files, in the order their names were made
  catalog,        \* backup-metadata.json: its state and, when it can be read, its list
  retired,        \* dumps up to this number are older than retentionDays
  restored,       \* history: how the last dump restored was listed, and what it was
  undisturbed,    \* history: no two requests overlapped, nothing failed
  backupCall

backupState == <<dumps, catalog, retired, restored, undisturbed, backupCall>>

backupVars == <<backupState, budgetVars>>

DumpStates == {"partial", "whole", "gone"}

Entries == [id : Nat, success : BOOLEAN]

BackupOps == {"none", "create", "delete", "cleanup", "restore"}

BackupStages ==
  {"idle", "dumping", "loading", "truncating", "writing", "listing", "unlinking", "restoring"}

\* left: what the loop of cleanupOldBackups has before it.  victim: the dump being deleted.
BackupCalls ==
  [op : BackupOps, at : BackupStages, id : Nat, success : BOOLEAN, list : SUBSET Entries,
   left : SUBSET Nat, victim : Nat, total : Nat, deleted : Nat, cutoff : Nat]

NoBackupCall ==
  [op |-> "none", at |-> "idle", id |-> 0, success |-> FALSE, list |-> {},
   left |-> {}, victim |-> 0, total |-> 0, deleted |-> 0, cutoff |-> 0]

BackupTypeOK ==
  /\ dumps \in Seq(DumpStates)
  /\ catalog \in [state : {"listed", "empty", "garbled"}, list : SUBSET Entries]
  /\ retired \in 0..Len(dumps)
  /\ restored \in [success : BOOLEAN, dump : DumpStates]
  /\ undisturbed \in BOOLEAN
  /\ backupCall \in [Calls -> BackupCalls]
  /\ BudgetOK

\* No file of metadata is read like one with an empty list.
BackupInit ==
  /\ dumps = <<>>
  /\ catalog = [state |-> "listed", list |-> {}]
  /\ retired = 0 /\ restored = [success |-> FALSE, dump |-> "gone"] /\ undisturbed = TRUE
  /\ backupCall = [k \in Calls |-> NoBackupCall]
  /\ BudgetInit

-----------------------------------------------------------------------------

At(k, stage) == backupCall[k].at = stage

To(k, state) == backupCall' = [backupCall EXCEPT ![k] = state]

Quiet == \A k \in Calls : At(k, "idle")

Order(k, state) ==
  /\ At(k, "idle") /\ Arriving /\ To(k, state)
  /\ undisturbed' = (undisturbed /\ Quiet)

Undisturbed == Working /\ UNCHANGED undisturbed

Disturbed == Failing /\ undisturbed' = FALSE

\* pg_dump starts at once.
CreateBackup(k) ==
  /\ Order(k, [NoBackupCall EXCEPT !.op = "create", !.at = "dumping", !.id = Len(dumps) + 1])
  /\ dumps' = Append(dumps, "partial")
  /\ UNCHANGED <<catalog, retired, restored>>

DeleteBackup(k, entry) ==
  /\ Order(k, [NoBackupCall EXCEPT !.op = "delete", !.at = "unlinking", !.victim = entry.id])
  /\ UNCHANGED <<dumps, catalog, retired, restored>>

CleanupBackups(k) ==
  /\ Order(k, [NoBackupCall EXCEPT !.op = "cleanup", !.at = "listing"])
  /\ UNCHANGED <<dumps, catalog, retired, restored>>

RestoreBackup(k, entry) ==
  /\ Order(k, [NoBackupCall EXCEPT !.op = "restore", !.at = "restoring", !.id = entry.id,
                                   !.success = entry.success])
  /\ UNCHANGED <<dumps, catalog, retired, restored>>

-----------------------------------------------------------------------------
(* createBackup                                                            *)

\* Whether it succeeds or fails, it is entered in the metadata.
Dumped(k, success) ==
  To(k, [backupCall[k] EXCEPT !.at = "loading", !.success = success])

\* Mutant of Dump: success before pg_dump is done.
DumpUnawaited(k) ==
  /\ At(k, "dumping")
  /\ \/ Dumped(k, TRUE) /\ Undisturbed /\ UNCHANGED dumps
     \/ /\ \E dump \in {"partial", "gone"} : dumps' = [dumps EXCEPT ![backupCall[k].id] = dump]
        /\ Dumped(k, FALSE) /\ Disturbed
  /\ UNCHANGED <<catalog, retired, restored>>

Dump(k) ==
  /\ At(k, "dumping")
  /\ \/ dumps' = [dumps EXCEPT ![backupCall[k].id] = "whole"] /\ Dumped(k, TRUE) /\ Undisturbed
     \/ /\ \E dump \in {"partial", "gone"} : dumps' = [dumps EXCEPT ![backupCall[k].id] = dump]
        /\ Dumped(k, FALSE) /\ Disturbed
  /\ UNCHANGED <<catalog, retired, restored>>

-----------------------------------------------------------------------------
(* saveMetadata, and the same steps in deleteBackup                        *)

\* Mutant of Without: the entry stays.
WithoutNothing(list, id) == list

Without(list, id) == {entry \in list : entry.id # id}

\* Metadata that cannot be read is no metadata.
Readable == IF catalog.state = "listed" THEN catalog.list ELSE {}

\* The dumps it lists.
Listed == {entry.id : entry \in Readable}

Load(k) ==
  LET c == backupCall[k]
      edited(list) == IF c.victim = 0 THEN list \cup {[id |-> c.id, success |-> c.success]}
                      ELSE Without(list, c.victim)
  IN  /\ At(k, "loading")
      /\ \/ To(k, [c EXCEPT !.at = "truncating", !.list = edited(Readable)]) /\ Undisturbed
         \/ To(k, [c EXCEPT !.at = "truncating", !.list = edited({})]) /\ Disturbed
      /\ UNCHANGED <<dumps, catalog, retired, restored>>

\* writeFile opens the file, which empties it, and then writes.
Truncate(k) ==
  /\ At(k, "truncating") /\ Undisturbed
  /\ catalog' = [state |-> "empty", list |-> {}]
  /\ To(k, [backupCall[k] EXCEPT !.at = "writing"])
  /\ UNCHANGED <<dumps, retired, restored>>

\* What was written between the two is overwritten from its beginning; if it was
\* not shorter, the end of it may remain.
WriteOutcomes(list) ==
  {[state |-> "listed", list |-> list]} \cup
    (IF catalog.state = "garbled" \/ (Readable # {} /\ Cardinality(Readable) >= Cardinality(list))
     THEN {[state |-> "garbled", list |-> {}]} ELSE {})

Newest(numbers) == CHOOSE n \in numbers : \A m \in numbers : m <= n

\* The loop of cleanupOldBackups, newest first, goes on to the next dump that is
\* past retention, or in excess as long as too few were deleted.
NextVictim(c) ==
  LET excess == c.total - c.deleted > MaxBackups
      due == {n \in c.left : excess \/ n <= c.cutoff}
  IN  IF due = {} THEN NoBackupCall
      ELSE [c EXCEPT !.at = "unlinking", !.victim = Newest(due),
                     !.left = {n \in c.left : n < Newest(due)}]

\* A dump that was made is followed by a cleanup, a deletion by the next one.
Saved(c) ==
  IF c.victim = 0 /\ c.success THEN [NoBackupCall EXCEPT !.op = "create", !.at = "listing"]
  ELSE IF c.victim # 0 /\ c.op # "delete" THEN NextVictim([c EXCEPT !.deleted = @ + 1])
  ELSE NoBackupCall

Write(k) ==
  /\ At(k, "writing") /\ Undisturbed
  /\ catalog' \in WriteOutcomes(backupCall[k].list)
  /\ To(k, Saved([backupCall[k] EXCEPT !.list = {}]))
  /\ UNCHANGED <<dumps, retired, restored>>

\* createBackup then enters itself as failed; everything else ends there.
SaveFails(k) ==
  /\ At(k, "truncating") \/ At(k, "writing")
  /\ IF backupCall[k].victim = 0 /\ backupCall[k].success THEN Dumped(k, FALSE)
     ELSE To(k, NoBackupCall)
  /\ Disturbed /\ UNCHANGED <<dumps, catalog, retired, restored>>

-----------------------------------------------------------------------------
(* cleanupOldBackups, deleteBackup                                         *)

List(k) ==
  /\ At(k, "listing") /\ Undisturbed
  /\ To(k, NextVictim([backupCall[k] EXCEPT !.left = Listed, !.total = Cardinality(Listed),
                                            !.cutoff = retired]))
  /\ UNCHANGED <<dumps, catalog, retired, restored>>

\* A file that is not there ends the deletion, and the cleanup with it.
Unlink(k) ==
  LET victim == backupCall[k].victim
  IN  /\ At(k, "unlinking")
      /\ \/ /\ dumps[victim] # "gone" /\ Undisturbed
            /\ dumps' = [dumps EXCEPT ![victim] = "gone"]
            /\ To(k, [backupCall[k] EXCEPT !.at = "loading"])
         \/ /\ dumps[victim] = "gone" /\ Undisturbed /\ To(k, NoBackupCall) /\ UNCHANGED dumps
         \/ Disturbed /\ To(k, NoBackupCall) /\ UNCHANGED dumps
      /\ UNCHANGED <<catalog, retired, restored>>

-----------------------------------------------------------------------------

\* restoreBackup looks for the file, not for its status.
Restore(k) ==
  LET c == backupCall[k]
  IN  /\ At(k, "restoring") /\ Undisturbed
      /\ restored' = IF dumps[c.id] = "gone" THEN restored
                     ELSE [success |-> c.success, dump |-> dumps[c.id]]
      /\ To(k, NoBackupCall)
      /\ UNCHANGED <<dumps, catalog, retired>>

Age ==
  /\ retired < Len(dumps) /\ retired' = retired + 1
  /\ Undisturbed /\ UNCHANGED <<dumps, catalog, restored, backupCall>>

RestartBackups ==
  /\ Crashing /\ undisturbed' = FALSE
  /\ backupCall' = [k \in Calls |-> NoBackupCall]
  /\ UNCHANGED <<dumps, catalog, retired, restored>>

BackupNext ==
  \/ Age \/ RestartBackups
  \/ \E k \in Calls :
       \/ CreateBackup(k) \/ CleanupBackups(k)
       \/ \E entry \in Readable : DeleteBackup(k, entry) \/ RestoreBackup(k, entry)
       \/ Dump(k) \/ Load(k) \/ Truncate(k) \/ Write(k) \/ SaveFails(k)
       \/ List(k) \/ Unlink(k) \/ Restore(k)

BackupSpec == BackupInit /\ [][BackupNext]_backupVars

-----------------------------------------------------------------------------
(* Properties                                                              *)

\* A backup that was picked as a success and restored was a whole dump, whatever
\* overlapped, failed or restarted since it was listed (createBackup awaits
\* pg_dump before it says so, lines 86-97).
RestoredIsWhole == restored.success => restored.dump = "whole"

\* As long as requests come one at a time and nothing fails, the metadata lists
\* exactly the dumps that are there, and no more of them than are to be kept.
\* When they overlap it does not: load and write are steps of their own.
CatalogIsTrue ==
  undisturbed /\ Quiet =>
    /\ Listed = {n \in 1..Len(dumps) : dumps[n] # "gone"}
    /\ Cardinality(Listed) <= MaxBackups

\* Retention keeps the most recent backups: a dump that the cleanup deletes though
\* it is not past its age is the oldest of those listed (cleanupOldBackups).
OldestGoesFirst ==
  [][\A k \in Calls :
       LET c == backupCall[k]
       IN  At(k, "unlinking") /\ c.op # "delete" /\ c.victim > c.cutoff /\ dumps' # dumps
           => \A n \in Listed : n >= c.victim]_backupVars
=============================================================================
