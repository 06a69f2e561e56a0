-------------------------- MODULE CollectionPayout --------------------------
(***************************************************************************)
(* What the on-chain pipeline promises about an approved collection, free  *)
(* of how it keeps the promise (the comment at                             *)
(* src/src/services/onchain-collection.service.ts:31-49 and README.md):    *)
(*                                                                         *)
(*   - a collection takes one ledger record as its own and never another,  *)
(*     and no two collections share one;                                   *)
(*   - its record is verified before WASTE is minted for it, and WASTE is  *)
(*     minted for nothing but such records, once each;                     *)
(*   - the status it reports is never ahead of its record.                 *)
(*                                                                         *)
(* Failures do not show here, except as the status FAILED: whatever is     *)
(* lost, crashes or is tried again is a step that changes nothing.         *)
(***************************************************************************)
EXTENDS Naturals

CONSTANT Collections

VARIABLES
  record,     \* collection -> the ledger record it is paid for, 0 for none
  verified,   \* the collections whose record is verified
  paid,       \* the records WASTE was minted for
  status      \* collection -> the progress the API reports

vars == <<record, verified, paid, status>>

\* The reports that are true of a collection, whatever happened to it.
Reportable(c) ==
  {"PENDING", "FAILED"}
    \cup (IF record[c] # 0 THEN {"RECORDED"} ELSE {})
    \cup (IF c \in verified THEN {"VERIFIED"} ELSE {})
    \cup (IF c \in verified /\ record[c] \in paid THEN {"PAID"} ELSE {})

Init ==
  /\ record = [c \in Collections |-> 0]
  /\ verified = {}
  /\ paid = {}
  /\ status \in [Collections -> {"none", "PENDING"}]

\* A collection takes a record, any that no other has taken, and says so.
Record(c) ==
  /\ record[c] = 0
  /\ record'[c] \in Nat \ {0}
  /\ \A d \in Collections : record[d] # record'[c]
  /\ record' = [record EXCEPT ![c] = record'[c]]
  /\ status' = [status EXCEPT ![c] = "RECORDED"]
  /\ UNCHANGED <<verified, paid>>

Verify(c) ==
  /\ record[c] # 0
  /\ verified' = verified \cup {c}
  /\ UNCHANGED <<record, paid, status>>

Mint(c) ==
  /\ c \in verified
  /\ record[c] \notin paid
  /\ paid' = paid \cup {record[c]}
  /\ UNCHANGED <<record, verified, status>>

Report(c) ==
  /\ \E s \in Reportable(c) : status' = [status EXCEPT ![c] = s]
  /\ UNCHANGED <<record, verified, paid>>

Next == \E c \in Collections : Record(c) \/ Verify(c) \/ Mint(c) \/ Report(c)

Spec == Init /\ [][Next]_vars
=============================================================================
