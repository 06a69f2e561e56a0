------------------------- MODULE OnChainCollection -------------------------
(***************************************************************************)
(* The pipeline that records approved waste collections on Soroban and     *)
(* pays them: src/src/services/onchain-collection.service.ts, with the     *)
(* invoke and lookup of soroban.service.ts it is built on, and the two     *)
(* requests of waste-collection.service.ts that change the rows under it.  *)
(*                                                                         *)
(* One server process runs it.  JavaScript runs to the next await without  *)
(* interruption, so an action is what happens between two awaits: the      *)
(* effect of the call that was awaited and the code after it up to the     *)
(* next one.  Two awaits share an action where the comment says why no     *)
(* other step can tell them apart.                                         *)
(*                                                                         *)
(* A "worker" is one running call of process(): each timer sweep awaits at *)
(* most one, and each approval starts one with kick().                     *)
(***************************************************************************)
EXTENDS SorobanLedger, SequencesExt

CONSTANTS
  Nil,             \* no collection
  Sweeps,          \* ticks of the timer whose sweeps may run at once
  MaxAttempts,     \* MAX_ATTEMPTS
  Batch,           \* SWEEP_BATCH
  QueuedAtStart,   \* collections approved before the model starts
  Deletable,       \* collections an administrator may delete
  MaxReviews,      \* bound: review requests of one collection at once
  MaxFaults,       \* bound: failures of the network, the RPC node, the database
  MaxCrashes       \* bound: restarts of the server

ASSUME PipelineAssumption ==
  /\ Nil \notin Collections \cup Sweeps
  /\ Sweeps \cap Collections = {}
  /\ QueuedAtStart \subseteq Collections
  /\ MaxAttempts \in Nat /\ Batch \in Nat \ {0}
  /\ MaxReviews \in Nat /\ MaxFaults \in Nat /\ MaxCrashes \in Nat

VARIABLES
  row,             \* the WasteCollection rows: what the pipeline reads and writes
  newer,           \* row -> the rows with a later updatedAt
  reviews,         \* review requests that passed their check and did not write yet
  inFlight,        \* OnChainCollectionService.inFlight
  worker,          \* the running calls of process()
  queue,           \* SorobanService.queues: signer -> its workers, first come first
  sweep,           \* the running calls of tick()
  workPending,     \* OnChainCollectionService.workPending
  faults, crashes  \* how many happened

dbVars     == <<row, newer>>
timerVars  == <<sweep, workPending>>
budgetVars == <<faults, crashes>>
vars == <<ledgerVars, dbVars, reviews, inFlight, worker, queue, timerVars, budgetVars>>

Workers == Sweeps \cup Collections

NoHash == 0

ChainStatuses == {"none", "PENDING", "RECORDED", "VERIFIED", "PAID", "FAILED"}

Rows ==
  [exists : BOOLEAN, verified : BOOLEAN, paymentStatus : {"PENDING", "CANCELLED"},
   chainStatus : ChainStatuses, chainTransactionId : Nat, chainRecordTxHash : Nat,
   chainAttempts : Nat]

\* Where a call of process() waits.
Stages ==
  {"idle", "reading", "preparing", "queued", "saving", "polling",
   "recorded", "verified", "payment", "paid", "failed"}

WorkerStates ==
  [at : Stages, coll : Collections \cup {Nil}, call : Calls \cup {"none"},
   id : Nat, hash : Nat]

NoWork == [at |-> "idle", coll |-> Nil, call |-> "none", id |-> NoHash, hash |-> NoHash]

SweepStates == [at : {"idle", "listing", "working"}, due : Seq(Collections), found : BOOLEAN]

NoSweep == [at |-> "idle", due |-> <<>>, found |-> FALSE]

TypeOK ==
  /\ LedgerTypeOK
  /\ row \in [Collections -> Rows]
  /\ newer \in [Collections -> SUBSET Collections]
  /\ reviews \in [Collections -> Nat]
  /\ inFlight \in SUBSET Collections
  /\ worker \in [Workers -> WorkerStates]
  /\ queue \in [Signers -> Seq(Workers)]
  /\ sweep \in [Sweeps -> SweepStates]
  /\ workPending \in BOOLEAN
  /\ faults \in 0..MaxFaults
  /\ crashes \in 0..MaxCrashes

Init ==
  /\ LedgerInit
  /\ row = [c \in Collections |->
              [exists |-> TRUE, verified |-> c \in QueuedAtStart, paymentStatus |-> "PENDING",
               chainStatus |-> IF c \in QueuedAtStart THEN "PENDING" ELSE "none",
               chainTransactionId |-> NoHash, chainRecordTxHash |-> NoHash,
               chainAttempts |-> 0]]
  /\ newer \in [Collections -> SUBSET Collections]
  /\ \A c, d \in Collections : c # d => (d \in newer[c]) = (c \notin newer[d])
  /\ \A c, d, e \in Collections : d \in newer[c] /\ e \in newer[d] => e \in newer[c]
  /\ \A c \in Collections : c \notin newer[c]
  /\ reviews = [c \in Collections |-> 0]
  /\ inFlight = {}
  /\ worker = [w \in Workers |-> NoWork]
  /\ queue = [s \in Signers |-> <<>>]
  /\ sweep = [s \in Sweeps |-> NoSweep]
  /\ workPending = TRUE                     \* start()
  /\ faults = 0
  /\ crashes = 0

-----------------------------------------------------------------------------
(* Rows.                                                                   *)

\* A write of c's row; Prisma bumps updatedAt with it.
Write(c, r) ==
  /\ row' = [row EXCEPT ![c] = r]
  /\ newer' = [d \in Collections |-> IF d = c THEN {} ELSE newer[d] \cup {c}]

\* What the sweep's query selects.
Due(c) ==
  /\ row[c].exists
  /\ \/ row[c].chainStatus \in {"PENDING", "RECORDED", "VERIFIED"}
     \/ row[c].chainStatus = "FAILED" /\ row[c].chainAttempts < MaxAttempts

\* The due rows, least recently updated first, a batch of them.
IsDueList(list) ==
  /\ \A i \in DOMAIN list : Due(list[i])
  /\ \A i, j \in DOMAIN list : i < j => list[j] \in newer[list[i]]
  /\ \A d \in Collections : Due(d) /\ (\A i \in DOMAIN list : list[i] # d) =>
       /\ Len(list) = Batch
       /\ \A i \in DOMAIN list : d \in newer[list[i]]

-----------------------------------------------------------------------------
(* process(): who runs it, and how it starts and ends.                     *)

Running(c) == c \in inFlight

\* The state of one call changes; Goto leaves its variables alone.
Become(w, k) == worker' = [worker EXCEPT ![w] = k]
Goto(w, stage) == Become(w, [worker[w] EXCEPT !.at = stage])

StartWorker(w, c) ==
  /\ inFlight' = inFlight \cup {c}
  /\ Become(w, [NoWork EXCEPT !.at = "reading", !.coll = c])

\* Mutant of Process: nobody looks into inFlight.
ProcessAnyway(w, c) == StartWorker(w, c)

\* A call of process(c) returns at once while another one runs.
Process(w, c) ==
  IF Running(c) THEN UNCHANGED <<inFlight, worker>> ELSE StartWorker(w, c)

\* The finally block.
Release(w) ==
  /\ inFlight' = inFlight \ {worker[w].coll}
  /\ Become(w, NoWork)

-----------------------------------------------------------------------------
(* Requests: reviewing and deleting a collection.                          *)

\* verifyCollection reads the row and checks that it has no review yet ...
VerifyRead(c) ==
  /\ row[c].exists
  /\ ~row[c].verified
  /\ reviews[c] < MaxReviews
  /\ reviews' = [reviews EXCEPT ![c] = @ + 1]
  /\ UNCHANGED <<ledgerVars, dbVars, inFlight, worker, queue, timerVars, budgetVars>>

\* Mutant of Reviewed: a request that never passed the check of its read.
ReviewedUnread(c) ==
  /\ row[c].exists
  /\ reviews' = [reviews EXCEPT ![c] = @ - 1]

\* ... and later a request writes its outcome without looking again.
Reviewed(c) ==
  /\ reviews[c] > 0
  /\ row[c].exists
  /\ reviews' = [reviews EXCEPT ![c] = @ - 1]

\* kick() follows the write; a sweep that lists the row between the two only
\* starts process() sooner.
Approve(c) ==
  /\ Reviewed(c)
  /\ Write(c, [row[c] EXCEPT !.verified = TRUE, !.chainStatus = "PENDING"])
  /\ workPending' = TRUE
  /\ Process(c, c)
  /\ UNCHANGED <<ledgerVars, queue, sweep, budgetVars>>

Reject(c) ==
  /\ Reviewed(c)
  /\ Write(c, [row[c] EXCEPT !.verified = TRUE, !.paymentStatus = "CANCELLED"])
  /\ UNCHANGED <<ledgerVars, inFlight, worker, queue, timerVars, budgetVars>>

\* The row was deleted meanwhile: the update throws and the request fails.
ReviewFails(c) ==
  /\ reviews[c] > 0
  /\ ~row[c].exists
  /\ reviews' = [reviews EXCEPT ![c] = @ - 1]
  /\ UNCHANGED <<ledgerVars, dbVars, inFlight, worker, queue, timerVars, budgetVars>>

\* deleteCollection refuses only a COMPLETED paymentStatus, which this pipeline
\* never sets.  The stale fields of a deleted row are read by nobody.
Delete(c) ==
  /\ c \in Deletable
  /\ row[c].exists
  /\ row' = [row EXCEPT ![c].exists = FALSE]
  /\ UNCHANGED <<ledgerVars, newer, reviews, inFlight, worker, queue, timerVars, budgetVars>>

-----------------------------------------------------------------------------
(* tick() and sweep().                                                     *)

\* The timer fires whether or not an earlier tick has finished.
Tick(s) ==
  /\ sweep[s].at = "idle"
  /\ workPending
  /\ sweep' = [sweep EXCEPT ![s].at = "listing"]
  /\ UNCHANGED <<ledgerVars, dbVars, reviews, inFlight, worker, queue, workPending, budgetVars>>

\* The query reads the database; its answer is used from the next step on.
List(s) ==
  /\ sweep[s].at = "listing"
  /\ \E list \in SeqOf(Collections, Batch) :
       /\ IsDueList(list)
       /\ sweep' = [sweep EXCEPT ![s] =
                      [at |-> "working", due |-> list, found |-> list # <<>>]]
  /\ UNCHANGED <<ledgerVars, dbVars, reviews, inFlight, worker, queue, workPending, budgetVars>>

\* The query fails: tick() logs it and leaves workPending alone.
ListFails(s) ==
  /\ sweep[s].at = "listing"
  /\ faults < MaxFaults
  /\ faults' = faults + 1
  /\ sweep' = [sweep EXCEPT ![s] = NoSweep]
  /\ UNCHANGED <<ledgerVars, dbVars, reviews, inFlight, worker, queue, workPending, crashes>>

\* The sweep waits for each process() before the next.
SweepNext(s) ==
  /\ sweep[s].at = "working"
  /\ worker[s].at = "idle"
  /\ sweep[s].due # <<>>
  /\ Process(s, Head(sweep[s].due))
  /\ sweep' = [sweep EXCEPT ![s].due = Tail(@)]
  /\ UNCHANGED <<ledgerVars, dbVars, reviews, queue, workPending, budgetVars>>

SweepEnds(s) ==
  /\ sweep[s].at = "working"
  /\ worker[s].at = "idle"
  /\ sweep[s].due = <<>>
  /\ workPending' = sweep[s].found
  /\ sweep' = [sweep EXCEPT ![s] = NoSweep]
  /\ UNCHANGED <<ledgerVars, dbVars, reviews, inFlight, worker, queue, budgetVars>>

-----------------------------------------------------------------------------
(* invoke(): queue behind the signer's earlier calls, submit, store the    *)
(* hash, poll for the outcome.                                             *)

Signer(w) == SignerOf(worker[w].call, worker[w].coll)

\* Mutant of AtHead: calls of one signer are not kept apart.
InQueue(w) == \E i \in DOMAIN queue[Signer(w)] : queue[Signer(w)][i] = w

AtHead(w) == queue[Signer(w)] # <<>> /\ Head(queue[Signer(w)]) = w

\* The steps of invoke() that hold the head of the signer's queue.
InTask(w) == worker[w].at \in {"saving", "polling"} \/ (worker[w].at = "queued" /\ AtHead(w))

Enqueue(w, call, id) ==
  LET s == SignerOf(call, worker[w].coll)
  IN  /\ queue' = [queue EXCEPT ![s] = Append(@, w)]
      /\ Become(w, [worker[w] EXCEPT !.at = "queued", !.call = call, !.id = id])

\* The promise of invoke() settles: the signer's next call may start.
Dequeue(w) == queue' = [queue EXCEPT ![Signer(w)] = Tail(@)]

\* Mutant of Throw: a rejected promise is left at the head of the queue.
ThrowKeepingQueue(w) == Goto(w, "failed") /\ UNCHANGED queue

\* A step throws, inside invoke() or outside: process() catches it.
Throw(w) ==
  /\ Goto(w, "failed")
  /\ IF InTask(w) THEN Dequeue(w) ELSE UNCHANGED queue

\* Which calls store their hash before they are confirmed: all but process_payment.
StoresHash(call) == call # "pay"

\* getAccount, prepareTransaction and sendTransaction as one step: an older
\* transaction of this signer included between them makes the network refuse
\* this one, which SubmitRefused and Fault also do.
Submit(w) ==
  LET k == worker[w]
  IN  /\ k.at = "queued"
      /\ AtHead(w)
      /\ ~Rejects(k.call, k.coll, k.id)
      /\ Accept(k.call, k.coll, k.id)
      /\ Become(w, [k EXCEPT !.hash = Len(txs) + 1,
                              !.at = IF StoresHash(k.call) THEN "saving" ELSE "polling"])
      /\ UNCHANGED <<sequence, recent, verifiedOn, payments, minted>>
      /\ UNCHANGED <<dbVars, reviews, inFlight, queue, timerVars, budgetVars>>

\* The simulation in prepareTransaction reports that the contract would refuse.
SubmitRefused(w) ==
  LET k == worker[w]
  IN  /\ k.at = "queued"
      /\ AtHead(w)
      /\ Rejects(k.call, k.coll, k.id) \/ Repeats(k.call, k.id)
      /\ Throw(w)
      /\ UNCHANGED <<ledgerVars, dbVars, reviews, inFlight, timerVars, budgetVars>>

\* The network takes the transaction and the answer is lost on its way back.
SubmitUnanswered(w) ==
  LET k == worker[w]
  IN  /\ k.at = "queued"
      /\ AtHead(w)
      /\ ~Rejects(k.call, k.coll, k.id)
      /\ faults < MaxFaults
      /\ faults' = faults + 1
      /\ Accept(k.call, k.coll, k.id)
      /\ Throw(w)
      /\ UNCHANGED <<sequence, recent, verifiedOn, payments, minted>>
      /\ UNCHANGED <<dbVars, reviews, inFlight, timerVars, crashes>>

\* onSubmitted: only the record's hash is ever read back.
SaveHash(w) ==
  LET k == worker[w]
      c == k.coll
  IN  /\ k.at = "saving"
      /\ row[c].exists
      /\ Write(c, IF k.call = "record"
                  THEN [row[c] EXCEPT !.chainRecordTxHash = k.hash] ELSE row[c])
      /\ Goto(w, "polling")
      /\ UNCHANGED <<ledgerVars, reviews, inFlight, queue, timerVars, budgetVars>>

\* The stage that follows each confirmed call.
After(call) ==
  CASE call = "record" -> "recorded"
    [] call = "verify" -> "verified"
    [] call = "pay" -> "payment"
    [] call = "complete" -> "paid"

\* Mutant of Landed: a transaction that was not found counts as included.
NotFailed(h) == txs[h].state # "failed"

\* lookup() reports SUCCESS.
Landed(h) == txs[h].state = "success"

Confirmed(w) ==
  LET k == worker[w]
  IN  /\ k.at = "polling"
      /\ Landed(k.hash)
      /\ Become(w, [k EXCEPT !.at = After(k.call), !.call = "none",
                              !.id = IF k.call = "record" THEN k.hash ELSE k.id])
      /\ Dequeue(w)
      /\ UNCHANGED <<ledgerVars, dbVars, reviews, inFlight, timerVars, budgetVars>>

\* Failed on-chain, or never included.  Polling gives up on a transaction that
\* is still pending, too: that is a Fault.
NotConfirmed(w) ==
  /\ worker[w].at = "polling"
  /\ txs[worker[w].hash].state \in {"failed", "dropped"}
  /\ Throw(w)
  /\ UNCHANGED <<ledgerVars, dbVars, reviews, inFlight, timerVars, budgetVars>>

-----------------------------------------------------------------------------
(* run(): one action per step.                                             *)

\* Mutant of ToRun: a collection already paid is run again.
QueuedOnce(r) == r.exists /\ r.chainStatus # "none"

ToRun(r) == r.exists /\ r.chainStatus \notin {"none", "PAID"}

\* Mutant of ReadRow: the stored id and hash are not looked at.
ReadRowAfresh(w) ==
  /\ worker[w].at = "reading"
  /\ IF ToRun(row[worker[w].coll])
     THEN Goto(w, "preparing") /\ UNCHANGED inFlight
     ELSE Release(w)
  /\ UNCHANGED <<ledgerVars, dbVars, reviews, queue, timerVars, budgetVars>>

ReadRow(w) ==
  LET r == row[worker[w].coll]
  IN  /\ worker[w].at = "reading"
      /\ IF ToRun(r)
         THEN /\ Become(w, [worker[w] EXCEPT !.at = "preparing",
                                              !.id = r.chainTransactionId,
                                              !.hash = r.chainRecordTxHash])
              /\ UNCHANGED inFlight
         ELSE Release(w)
      /\ UNCHANGED <<ledgerVars, dbVars, reviews, queue, timerVars, budgetVars>>

\* readyCollector and ensurePointAddress succeed; then the ledger id is the
\* row's, or that of the earlier record if it landed, or a new record is made.
Resume(w) ==
  LET k == worker[w]
      landed == k.hash # NoHash /\ Landed(k.hash)
  IN  /\ k.at = "preparing"
      /\ \/ /\ k.id # NoHash
            /\ Goto(w, "recorded")
            /\ UNCHANGED queue
         \/ /\ k.id = NoHash /\ landed
            /\ Become(w, [k EXCEPT !.at = "recorded", !.id = k.hash])
            /\ UNCHANGED queue
         \/ /\ k.id = NoHash /\ ~landed
            /\ Enqueue(w, "record", NoHash)
      /\ UNCHANGED <<ledgerVars, dbVars, reviews, inFlight, timerVars, budgetVars>>

\* get_transaction, then the save.  "verified" was read before the save: an
\* older verify_transaction that lands between the two is as if it landed after.
SaveRecorded(w) ==
  LET k == worker[w]
      c == k.coll
  IN  /\ k.at = "recorded"
      /\ row[c].exists
      /\ Write(c, [row[c] EXCEPT !.chainTransactionId = k.id, !.chainStatus = "RECORDED"])
      /\ IF k.id \in verifiedOn
         THEN Goto(w, "verified") /\ UNCHANGED queue
         ELSE Enqueue(w, "verify", k.id)
      /\ UNCHANGED <<ledgerVars, reviews, inFlight, timerVars, budgetVars>>

\* Then get_payment_for_transaction, whose failure is as good as one of the
\* first call of the step it leads to.
SaveVerified(w) ==
  LET k == worker[w]
      c == k.coll
  IN  /\ k.at = "verified"
      /\ row[c].exists
      /\ Write(c, [row[c] EXCEPT !.chainStatus = "VERIFIED"])
      /\ IF k.id \in payments
         THEN Goto(w, "payment") /\ UNCHANGED queue
         ELSE Enqueue(w, "pay", k.id)
      /\ UNCHANGED <<ledgerVars, reviews, inFlight, timerVars, budgetVars>>

\* Saves chainPaymentId, which nothing reads back, then get_payment.
SavePaymentId(w) ==
  LET c == worker[w].coll
  IN  /\ worker[w].at = "payment"
      /\ row[c].exists
      /\ Write(c, row[c])
      /\ IF worker[w].id \in minted
         THEN Goto(w, "paid") /\ UNCHANGED queue
         ELSE Enqueue(w, "complete", worker[w].id)
      /\ UNCHANGED <<ledgerVars, reviews, inFlight, timerVars, budgetVars>>

SavePaid(w) ==
  LET c == worker[w].coll
  IN  /\ worker[w].at = "paid"
      /\ row[c].exists
      /\ Write(c, [row[c] EXCEPT !.chainStatus = "PAID"])
      /\ Release(w)
      /\ UNCHANGED <<ledgerVars, reviews, queue, timerVars, budgetVars>>

\* Any of the saves above, when the row has been deleted.
SaveFails(w) ==
  /\ worker[w].at \in {"saving", "recorded", "verified", "payment", "paid"}
  /\ ~row[worker[w].coll].exists
  /\ Throw(w)
  /\ UNCHANGED <<ledgerVars, dbVars, reviews, inFlight, timerVars, budgetVars>>

\* The awaited call fails: the RPC node, Horizon or the database is down, the
\* network refuses, the poll gives up on a pending transaction.
Fault(w) ==
  /\ worker[w].at \notin {"idle", "failed"}
  /\ worker[w].at = "queued" => AtHead(w)
  /\ faults < MaxFaults
  /\ faults' = faults + 1
  /\ Throw(w)
  /\ UNCHANGED <<ledgerVars, dbVars, reviews, inFlight, timerVars, crashes>>

\* The catch block: the failure is counted, unless the row is gone.
CatchSave(w) ==
  LET c == worker[w].coll
  IN  /\ worker[w].at = "failed"
      /\ IF row[c].exists
         THEN Write(c, [row[c] EXCEPT !.chainStatus = "FAILED", !.chainAttempts = @ + 1])
         ELSE UNCHANGED dbVars
      /\ Release(w)
      /\ UNCHANGED <<ledgerVars, reviews, queue, timerVars, budgetVars>>

\* The update in the catch block fails, too, and is swallowed.
CatchFails(w) ==
  /\ worker[w].at = "failed"
  /\ faults < MaxFaults
  /\ faults' = faults + 1
  /\ Release(w)
  /\ UNCHANGED <<ledgerVars, dbVars, reviews, queue, timerVars, crashes>>

-----------------------------------------------------------------------------
\* The server dies and is started again: what is in memory is lost, requests
\* included, and start() sets workPending.
CrashRestart ==
  /\ crashes < MaxCrashes
  /\ crashes' = crashes + 1
  /\ inFlight' = {}
  /\ worker' = [w \in Workers |-> NoWork]
  /\ queue' = [s \in Signers |-> <<>>]
  /\ sweep' = [s \in Sweeps |-> NoSweep]
  /\ workPending' = TRUE
  /\ reviews' = [c \in Collections |-> 0]
  /\ UNCHANGED <<ledgerVars, dbVars, faults>>

serviceVars == <<dbVars, reviews, inFlight, worker, queue, timerVars>>

\* What the network does by itself ...
Network ==
  /\ \E h \in DOMAIN txs : Land(h) \/ Overtaken(h)
  /\ UNCHANGED <<serviceVars, budgetVars>>

\* ... and what it does when it misbehaves.
NetworkFault ==
  /\ faults < MaxFaults
  /\ faults' = faults + 1
  /\ \E h \in DOMAIN txs : Drop(h) \/ Revert(h)
  /\ UNCHANGED <<serviceVars, crashes>>

Time ==
  /\ \E k \in RecordKeys : WindowCloses(k)
  /\ UNCHANGED <<serviceVars, budgetVars>>

Request(c) == VerifyRead(c) \/ Approve(c) \/ Reject(c) \/ ReviewFails(c) \/ Delete(c)

SweepStep(s) == Tick(s) \/ List(s) \/ SweepNext(s) \/ SweepEnds(s)

WorkerStep(w) ==
  \/ ReadRow(w) \/ Resume(w)
  \/ Submit(w) \/ SubmitRefused(w) \/ SaveHash(w) \/ Confirmed(w) \/ NotConfirmed(w)
  \/ SaveRecorded(w) \/ SaveVerified(w) \/ SavePaymentId(w) \/ SavePaid(w)
  \/ SaveFails(w) \/ CatchSave(w)

Failure(w) == SubmitUnanswered(w) \/ Fault(w) \/ CatchFails(w)

Next ==
  \/ \E c \in Collections : Request(c)
  \/ \E s \in Sweeps : SweepStep(s) \/ ListFails(s)
  \/ \E w \in Workers : WorkerStep(w) \/ Failure(w)
  \/ CrashRestart
  \/ Network \/ NetworkFault \/ Time

Spec == Init /\ [][Next]_vars

\* The event loop never stays idle while a call of process() can go on, the
\* timer keeps firing, and the network keeps including transactions.  Nothing
\* obliges anybody to review or delete, nor a fault to happen.
Fairness ==
  /\ WF_vars(\E w \in Workers : WorkerStep(w))
  /\ WF_vars(\E s \in Sweeps : SweepStep(s))
  /\ WF_vars(Network)

FairSpec == Spec /\ Fairness

-----------------------------------------------------------------------------
(* Safety.                                                                 *)

\* process() never runs twice at once for one collection: inFlight holds
\* exactly the collections of the running calls, each of one call.
OneWorkerPerCollection ==
  /\ inFlight = {worker[w].coll : w \in {v \in Workers : worker[v].at # "idle"}}
  /\ \A v, w \in Workers :
       v # w /\ worker[v].at # "idle" => worker[v].coll # worker[w].coll

\* The status in the database is never ahead of the ledger, whatever was lost:
\* RECORDED, VERIFIED and PAID name a record of this very collection, that is
\* verified, and for which WASTE was minted (run, lines 204-259).
StatusBackedByLedger ==
  \A c \in Collections :
    LET r == row[c]
        id == r.chainTransactionId
    IN  /\ id # NoHash => IsRecordOf(id, c)
        /\ r.chainStatus \in {"RECORDED", "VERIFIED", "PAID"} => id # NoHash
        /\ r.chainStatus \in {"VERIFIED", "PAID"} => id \in verifiedOn
        /\ r.chainStatus = "PAID" => id \in minted

\* WASTE is minted for at most one record of a collection, the one its row
\* names, even when the collection was recorded twice or its row is gone.
MintedForOneRecord ==
  \A h \in minted :
    \E c \in Collections : IsRecordOf(h, c) /\ h = row[c].chainTransactionId

\* No two running calls have a submission of one signer outstanding, so the
\* calls of a living server never compete for a sequence number.
OneSubmissionPerSigner ==
  \A v, w \in Workers :
    /\ v # w
    /\ worker[v].at \in {"saving", "polling"}
    /\ worker[w].at \in {"saving", "polling"}
    => Signer(v) # Signer(w)

\* A collection is recorded on the ledger at most once.
RecordedOnce ==
  \A c \in Collections : \A g, h \in DOMAIN txs :
    IsRecordOf(g, c) /\ IsRecordOf(h, c) => g = h

\* Failed steps are retried "up to five attempts" (README.md, on-chain recording; the
\* comment on onchain-collection.service.ts says MAX_ATTEMPTS).
AttemptsBounded == \A c \in Collections : row[c].chainAttempts <= MaxAttempts

-----------------------------------------------------------------------------
(* Action properties.                                                      *)

\* Once stored, a collection's ledger id is never replaced.
LedgerIdKept ==
  [][\A c \in Collections :
       row[c].chainTransactionId # NoHash
         => row'[c].chainTransactionId = row[c].chainTransactionId]_vars

PaidLost(c) == row[c].chainStatus = "PAID" /\ row'[c].chainStatus # "PAID"

LostToApproval(c) == reviews'[c] < reviews[c]

\* PAID is final while nothing fails: only a second review's approval moves a collection
\* back.
PaidIsFinal == [][\A c \in Collections : PaidLost(c) => LostToApproval(c)]_vars

\* A call that has failed and knows of no record.
Blind(w) == worker[w].at = "failed" /\ worker[w].id = NoHash

LostToFailedRead(c) ==
  /\ faults > 0 /\ row'[c].chainStatus = "FAILED"
  /\ \E w \in Workers : Blind(w) /\ worker[w].coll = c

\* Whatever fails, PAID is lost to the approval of another review, or else to one thing
\* only: a call that came too late, whose findUnique threw, and whose catch block writes
\* FAILED without having seen the row (process, lines 144-163).  No call that knows the
\* collection takes PAID away.
PaidIsLostBlindly ==
  [][\A c \in Collections :
       PaidLost(c) => LostToApproval(c) \/ LostToFailedRead(c)]_vars

\* The pipeline keeps the promise of CollectionPayout: the collection's record
\* is the id stored in its row, its report the row's status, and what is
\* verified and minted is what the ledger says.
Payout == INSTANCE CollectionPayout WITH
  record   <- [c \in Collections |-> row[c].chainTransactionId],
  verified <- {c \in Collections : row[c].chainTransactionId \in verifiedOn},
  paid     <- minted,
  status   <- [c \in Collections |-> row[c].chainStatus]

ImplementsPayout == Payout!Spec

-----------------------------------------------------------------------------
(* Liveness.                                                               *)

\* When the requests stop coming, the server comes to rest: no call hangs on a
\* signer's queue, every collection with steps left has been paid, deleted or
\* given up after MAX_ATTEMPTS failures, and the sweep stays off the database,
\* as README.md says of an idle server.
AtRest ==
  /\ inFlight = {}
  /\ \A c \in Collections : ~Due(c)
  /\ \A s \in Sweeps : sweep[s].at = "idle"
  /\ ~workPending

ComesToRest == <>[]AtRest

\* A collection with steps left is not forgotten: failed steps are retried
\* until it is paid or the attempts are used up (README.md:84).
Settled == \A c \in Collections : Due(c) ~> ~Due(c)
=============================================================================
