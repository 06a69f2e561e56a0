--------------------------- MODULE SorobanLedger ---------------------------
(***************************************************************************)
(* The Stellar network and the two WasteFi contracts as the backend uses   *)
(* them: src/src/services/soroban.service.ts talks to the network,         *)
(* src/src/services/onchain-collection.service.ts calls the contracts.     *)
(* The contracts are not in the repository, so everything here is external *)
(* and says no more than the calling code and its comments rely on:        *)
(*                                                                         *)
(*   - a submitted transaction is pending until it is included or its 60   *)
(*     second time bound passes, and the submitter learns which only by    *)
(*     asking for its hash;                                                *)
(*   - a transaction is included only while it carries the sequence number *)
(*     of its source account, and inclusion, successful or not, uses that  *)
(*     number up;                                                          *)
(*   - waste_transaction rejects a second record of the same collector,    *)
(*     material and weight within five minutes (bootstrap.service.ts:203); *)
(*   - get_transaction, get_payment_for_transaction and get_payment report *)
(*     what has been included.                                             *)
(*                                                                         *)
(* A record's id on the ledger is written as the hash of the transaction   *)
(* that made it, and a hash as the transaction's place in "txs".           *)
(***************************************************************************)
EXTENDS Naturals, Sequences

CONSTANTS
  Collections,   \* waste collections
  Collectors,    \* their collectors: each signs its own records
  CollectorOf,   \* collection -> its collector
  Admin,         \* the platform account that signs everything else
  RecordKeys,    \* what the duplicate window compares
  RecordKey      \* collection -> its collector, material and weight together

ASSUME LedgerAssumption ==
  /\ CollectorOf \in [Collections -> Collectors]
  /\ RecordKey \in [Collections -> RecordKeys]
  /\ Admin \notin Collectors

VARIABLES
  txs,           \* every transaction the network accepted, in order
  sequence,      \* signer -> sequence number of its account
  recent,        \* keys recorded less than five minutes ago
  verifiedOn,    \* records that verify_transaction has verified
  payments,      \* records that process_payment has made a payment for
  minted         \* records whose payment is Completed: WASTE was minted

ledgerVars == <<txs, sequence, recent, verifiedOn, payments, minted>>

Signers == Collectors \cup {Admin}

Calls == {"record", "verify", "pay", "complete"}

Transactions ==
  [coll : Collections, call : Calls, target : Nat, seq : Nat,
   state : {"pending", "success", "failed", "dropped"}]

LedgerTypeOK ==
  /\ txs \in Seq(Transactions)
  /\ sequence \in [Signers -> Nat]
  /\ recent \in SUBSET RecordKeys
  /\ verifiedOn \in SUBSET Nat
  /\ payments \in SUBSET Nat
  /\ minted \in SUBSET Nat

LedgerInit ==
  /\ txs = <<>>
  /\ sequence = [s \in Signers |-> 0]
  /\ recent = {}
  /\ verifiedOn = {}
  /\ payments = {}
  /\ minted = {}

-----------------------------------------------------------------------------
(* What a caller can ask.                                                  *)

\* The account whose signature, and sequence number, a call needs.
SignerOf(call, c) == IF call = "record" THEN CollectorOf[c] ELSE Admin

\* h is a record on the ledger, and one of c.
IsRecord(h) == h \in 1..Len(txs) /\ txs[h].call = "record" /\ txs[h].state = "success"
IsRecordOf(h, c) == IsRecord(h) /\ txs[h].coll = c

\* The contract rejects the call whenever it is made in this state.
Rejects(call, c, target) ==
  \/ call = "record" /\ RecordKey[c] \in recent
  \/ call \in {"verify", "pay"} /\ ~IsRecord(target)
  \/ call = "complete" /\ target \notin payments

\* What the call asks for is already so: a contract may reject it or accept it
\* and change nothing, and the calling code must do with either.
Repeats(call, target) ==
  \/ call = "verify" /\ target \in verifiedOn
  \/ call = "pay" /\ target \in payments
  \/ call = "complete" /\ target \in minted

-----------------------------------------------------------------------------
(* What the network does.                                                  *)

\* The network accepts a transaction built with the account's live number.
Accept(call, c, target) ==
  txs' = Append(txs, [coll |-> c, call |-> call, target |-> target,
                      seq |-> sequence[SignerOf(call, c)], state |-> "pending"])

Includable(h) ==
  /\ txs[h].state = "pending"
  /\ txs[h].seq = sequence[SignerOf(txs[h].call, txs[h].coll)]

\* A ledger closes with transaction h in it.
Include(h, outcome) ==
  LET signer == SignerOf(txs[h].call, txs[h].coll)
  IN  /\ Includable(h)
      /\ txs' = [txs EXCEPT ![h].state = outcome]
      /\ sequence' = [sequence EXCEPT ![signer] = @ + 1]

Succeed(h) ==
  LET tx == txs[h]
  IN  /\ Include(h, "success")
      /\ ~Rejects(tx.call, tx.coll, tx.target)
      /\ recent' = IF tx.call = "record"
                   THEN recent \cup {RecordKey[tx.coll]} ELSE recent
      /\ verifiedOn' = IF tx.call = "verify"
                       THEN verifiedOn \cup {tx.target} ELSE verifiedOn
      /\ payments' = IF tx.call = "pay"
                     THEN payments \cup {tx.target} ELSE payments
      /\ minted' = IF tx.call = "complete"
                   THEN minted \cup {tx.target} ELSE minted

\* Included, and reverted by the contract.
Revert(h) ==
  /\ Include(h, "failed")
  /\ UNCHANGED <<recent, verifiedOn, payments, minted>>

Land(h) ==
  \/ Succeed(h)
  \/ /\ \/ Rejects(txs[h].call, txs[h].coll, txs[h].target)
        \/ Repeats(txs[h].call, txs[h].target)
     /\ Revert(h)

\* The time bound of h passes, or the network forgets it.
Drop(h) ==
  /\ txs[h].state = "pending"
  /\ txs' = [txs EXCEPT ![h].state = "dropped"]
  /\ UNCHANGED <<sequence, recent, verifiedOn, payments, minted>>

\* Another transaction took h's sequence number: h can never be included.
Overtaken(h) == ~Includable(h) /\ Drop(h)

\* Five minutes after its record, a key is free again. Every transaction that
\* was pending when the key was recorded is dead by then: its bound is 60 s,
\* and simulation refuses new ones meanwhile.
WindowCloses(k) ==
  /\ k \in recent
  /\ \A h \in DOMAIN txs : txs[h].call = "record" /\ RecordKey[txs[h].coll] = k
                              => txs[h].state # "pending"
  /\ recent' = recent \ {k}
  /\ UNCHANGED <<txs, sequence, verifiedOn, payments, minted>>
=============================================================================
