---------------------- MODULE OnChainCollection_proofs ----------------------
(***************************************************************************)
(* Theorems about OnChainCollection, for every number of collections,      *)
(* collectors and sweeps, and every bound on attempts, reviews, failures   *)
(* and crashes.                                                            *)
(*                                                                         *)
(* Three invariants are about who works on what: types and turns of the    *)
(* signers, one call per collection, and that nobody works on a paid one.  *)
(* The fourth is about records and money: no row is ahead of the ledger,   *)
(* the ledger id of a row is kept, WASTE is minted for that record only;   *)
(* from it the pipeline implements CollectionPayout.  The fifth counts the *)
(* records a collection can have.                                          *)
(***************************************************************************)
EXTENDS OnChainCollection, SequenceTheorems, FiniteSetTheorems, TLAPS

USE LedgerAssumption, PipelineAssumption

-----------------------------------------------------------------------------
(* First invariant: types, and what a worker in invoke() holds.            *)

\* TypeOK alone is not inductive: that a task leaves the head of its signer's
\* queue keeps the queue a sequence only if the task was at the head.
WorkerShape ==
  \A w \in Workers :
    LET k == worker[w]
    IN  /\ k.at # "idle" => k.coll \in Collections
        /\ k.at \in {"queued", "saving", "polling"} => k.call \in Calls
        /\ k.at \in {"saving", "polling"} => AtHead(w) /\ k.hash \in 1..Len(txs)

TypeInv == TypeOK /\ WorkerShape

\* The signer of a call is a key of the queues.
LEMMA SignerType ==
  ASSUME TypeInv, NEW w \in Workers, worker[w].at \in {"queued", "saving", "polling"}
  PROVE  Signer(w) \in Signers
BY DEF TypeInv, WorkerShape, Signer, SignerOf, Signers, Calls

\* The first state has its types.
LEMMA InitTypeInv == Init => TypeInv
<1> SUFFICES ASSUME Init PROVE TypeInv
  OBVIOUS
<1>1. LedgerTypeOK
  BY EmptySeq DEF Init, LedgerInit, LedgerTypeOK
<1>2. row \in [Collections -> Rows]
  BY DEF Init, Rows, ChainStatuses, NoHash
<1>3. worker \in [Workers -> WorkerStates]
  BY DEF Init, NoWork, WorkerStates, Stages, NoHash
<1>4. queue \in [Signers -> Seq(Workers)] /\ sweep \in [Sweeps -> SweepStates]
  BY EmptySeq DEF Init, NoSweep, SweepStates
<1>5. TypeOK
  BY <1>1, <1>2, <1>3, <1>4 DEF Init, TypeOK
<1>6. WorkerShape
  BY DEF Init, WorkerShape, NoWork
<1> QED
  BY <1>5, <1>6 DEF TypeInv

-----------------------------------------------------------------------------
(* How the operators the actions are made of keep the first invariant.     *)

\* A write of a row.
LEMMA WriteType ==
  ASSUME TypeOK, NEW c \in Collections, NEW r \in Rows, Write(c, r)
  PROVE  row' \in [Collections -> Rows] /\ newer' \in [Collections -> SUBSET Collections]
BY DEF TypeOK, Write

\* The worker of one call changes and the queues do not: what the others hold
\* is as before.
LEMMA WorkerMoves ==
  ASSUME TypeInv, NEW w \in Workers, NEW k \in WorkerStates,
         Become(w, k), UNCHANGED queue,
         Len(txs) <= Len(txs'), txs' \in Seq(Transactions),
         k.at # "idle" => k.coll \in Collections,
         k.at \in {"queued", "saving", "polling"} => k.call \in Calls,
         k.at \in {"saving", "polling"} =>
           /\ queue[SignerOf(k.call, k.coll)] # <<>>
           /\ Head(queue[SignerOf(k.call, k.coll)]) = w
           /\ k.hash \in 1..Len(txs')
  PROVE  worker' \in [Workers -> WorkerStates] /\ WorkerShape'
<1>1. worker' \in [Workers -> WorkerStates]
  BY DEF Become, TypeInv, TypeOK
<1>2. Len(txs) \in Nat /\ Len(txs') \in Nat
  BY LenProperties DEF TypeInv, TypeOK, LedgerTypeOK
<1>3. ASSUME NEW v \in Workers, v # w
      PROVE  worker'[v] = worker[v]
  BY <1>3 DEF Become, TypeInv, TypeOK
<1>4. worker'[w] = k
  BY DEF Become, TypeInv, TypeOK
<1>5. WorkerShape'
  BY <1>2, <1>3, <1>4 DEF TypeInv, WorkerShape, AtHead, Signer
<1> QED
  BY <1>1, <1>5

\* A call joins its signer's queue.
LEMMA EnqueueType ==
  ASSUME TypeInv, NEW w \in Workers, NEW call \in Calls, NEW id \in Nat,
         worker[w].at \in {"preparing", "recorded", "verified", "payment"},
         Enqueue(w, call, id), UNCHANGED txs
  PROVE  /\ worker' \in [Workers -> WorkerStates]
         /\ queue' \in [Signers -> Seq(Workers)]
         /\ WorkerShape'
<1> DEFINE s == SignerOf(call, worker[w].coll)
<1>1. worker[w].coll \in Collections
  BY DEF TypeInv, WorkerShape
<1>2. s \in Signers
  BY <1>1 DEF SignerOf, Signers
<1>3. /\ queue' = [queue EXCEPT ![s] = Append(queue[s], w)]
      /\ queue[s] \in Seq(Workers)
  BY <1>2 DEF Enqueue, TypeInv, TypeOK
<1>4. /\ queue' \in [Signers -> Seq(Workers)]
      /\ \A t \in Signers : queue[t] # <<>> =>
           queue'[t] # <<>> /\ Head(queue'[t]) = Head(queue[t])
  <2>1. Append(queue[s], w) \in Seq(Workers) /\ Append(queue[s], w) # <<>>
    BY <1>3, AppendProperties
  <2>2. queue[s] # <<>> => Head(Append(queue[s], w)) = Head(queue[s])
    BY <1>3, HeadTailAppend
  <2> QED
    BY <1>2, <1>3, <2>1, <2>2 DEF TypeInv, TypeOK
<1>5. worker' \in [Workers -> WorkerStates]
  <2>1. worker[w] \in WorkerStates
    BY DEF TypeInv, TypeOK
  <2>2. [worker[w] EXCEPT !.at = "queued", !.call = call, !.id = id] \in WorkerStates
    BY <2>1 DEF WorkerStates, Stages
  <2> QED
    BY <2>2 DEF Enqueue, Become, TypeInv, TypeOK
<1>6. worker'[w].at = "queued" /\ worker'[w].call \in Calls
      /\ worker'[w].coll = worker[w].coll
  BY DEF Enqueue, Become, TypeInv, TypeOK, WorkerStates
<1>7. ASSUME NEW v \in Workers, v # w
      PROVE  worker'[v] = worker[v]
  BY <1>7 DEF Enqueue, Become, TypeInv, TypeOK
<1>8. ASSUME NEW v \in Workers, v # w, worker[v].at \in {"saving", "polling"}
      PROVE  AtHead(v)'
  <2>1. Signer(v) \in Signers /\ Signer(v)' = Signer(v)
    BY <1>7, <1>8, SignerType DEF Signer
  <2>2. AtHead(v)
    BY <1>8 DEF TypeInv, WorkerShape
  <2> QED
    BY <2>1, <2>2, <1>4 DEF AtHead
<1>9. WorkerShape'
  BY <1>1, <1>6, <1>7, <1>8 DEF TypeInv, WorkerShape
<1> QED
  BY <1>4, <1>5, <1>9

\* A call leaves the head of its signer's queue.
LEMMA DequeueType ==
  ASSUME TypeInv, NEW w \in Workers, NEW k \in WorkerStates,
         Become(w, k), Dequeue(w), AtHead(w),
         worker[w].at \in {"queued", "saving", "polling"},
         k.at \notin {"queued", "saving", "polling"},
         k.at # "idle" => k.coll \in Collections,
         Len(txs) <= Len(txs'), txs' \in Seq(Transactions)
  PROVE  /\ worker' \in [Workers -> WorkerStates]
         /\ queue' \in [Signers -> Seq(Workers)]
         /\ WorkerShape'
<1> DEFINE s == Signer(w)
<1>1. s \in Signers
  BY SignerType
<1>2. /\ queue' = [queue EXCEPT ![s] = Tail(queue[s])]
      /\ queue[s] \in Seq(Workers)
      /\ queue[s] # <<>> /\ Head(queue[s]) = w
  BY <1>1 DEF Dequeue, AtHead, TypeInv, TypeOK
<1>3. queue' \in [Signers -> Seq(Workers)]
  <2>1. Tail(queue[s]) \in Seq(Workers)
    BY <1>2, HeadTailProperties
  <2> QED
    BY <1>2, <2>1 DEF TypeInv, TypeOK
<1>4. /\ worker' \in [Workers -> WorkerStates]
      /\ worker'[w] = k
      /\ \A v \in Workers : v # w => worker'[v] = worker[v]
  BY DEF Become, TypeInv, TypeOK
<1>5. Len(txs) \in Nat /\ Len(txs') \in Nat
  BY LenProperties DEF TypeInv, TypeOK, LedgerTypeOK
<1>6. ASSUME NEW v \in Workers, v # w, worker[v].at \in {"saving", "polling"}
      PROVE  AtHead(v)'
  <2>1. Signer(v) \in Signers /\ Signer(v)' = Signer(v)
    BY <1>4, <1>6, SignerType DEF Signer
  <2>2. AtHead(v)
    BY <1>6 DEF TypeInv, WorkerShape
  <2>3. Signer(v) # s
    BY <1>2, <1>6, <2>2 DEF AtHead
  <2> QED
    BY <1>1, <1>2, <2>1, <2>2, <2>3 DEF AtHead, TypeInv, TypeOK
<1>7. WorkerShape'
  BY <1>4, <1>5, <1>6 DEF TypeInv, WorkerShape
<1> QED
  BY <1>3, <1>4, <1>7

\* A call fails, at any await.
LEMMA ThrowType ==
  ASSUME TypeInv, NEW w \in Workers, worker[w].at # "idle",
         worker[w].at = "queued" => AtHead(w), Throw(w),
         Len(txs) <= Len(txs'), txs' \in Seq(Transactions)
  PROVE  /\ worker' \in [Workers -> WorkerStates]
         /\ queue' \in [Signers -> Seq(Workers)]
         /\ WorkerShape'
<1> DEFINE k == [worker[w] EXCEPT !.at = "failed"]
<1>1. worker[w] \in WorkerStates /\ worker[w].coll \in Collections
  BY DEF TypeInv, TypeOK, WorkerShape
<1>2. k \in WorkerStates /\ k.at = "failed" /\ k.coll \in Collections
  BY <1>1 DEF WorkerStates, Stages
<1>3. Become(w, k)
  BY DEF Throw, Goto
<1>4. CASE InTask(w)
  <2>1. AtHead(w) /\ worker[w].at \in {"queued", "saving", "polling"}
    BY <1>4 DEF InTask, TypeInv, WorkerShape
  <2> QED
    BY <1>2, <1>3, <1>4, <2>1, DequeueType DEF Throw
<1>5. CASE ~InTask(w)
  <2>1. UNCHANGED queue
    BY <1>5 DEF Throw
  <2> QED
    BY <1>2, <1>3, <2>1, WorkerMoves DEF TypeInv, TypeOK
<1> QED
  BY <1>4, <1>5

\* process() starts, returns at once, or ends.
LEMMA ProcessType ==
  ASSUME TypeInv, NEW w \in Workers, NEW c \in Collections, Process(w, c),
         UNCHANGED <<queue, txs>>
  PROVE  /\ worker' \in [Workers -> WorkerStates]
         /\ inFlight' \in SUBSET Collections
         /\ WorkerShape'
<1> DEFINE k == [NoWork EXCEPT !.at = "reading", !.coll = c]
<1>1. k \in WorkerStates /\ k.at = "reading" /\ k.coll \in Collections
  BY DEF NoWork, WorkerStates, Stages, NoHash
<1>2. txs' \in Seq(Transactions) /\ Len(txs) \in Nat /\ Len(txs') = Len(txs)
  BY LenProperties DEF TypeInv, TypeOK, LedgerTypeOK
<1>3. CASE Running(c)
  BY <1>3 DEF Process, TypeInv, TypeOK, WorkerShape, AtHead, Signer
<1>4. CASE ~Running(c)
  <2>1. Become(w, k) /\ inFlight' \in SUBSET Collections
    BY <1>4 DEF Process, StartWorker, TypeInv, TypeOK
  <2> HIDE DEF k
  <2> QED
    BY <1>1, <1>2, <2>1, WorkerMoves
<1> QED
  BY <1>3, <1>4

\* A call that returns keeps the types.
LEMMA ReleaseType ==
  ASSUME TypeInv, NEW w \in Workers, Release(w), UNCHANGED <<queue, txs>>
  PROVE  /\ worker' \in [Workers -> WorkerStates]
         /\ inFlight' \in SUBSET Collections
         /\ WorkerShape'
<1>1. NoWork \in WorkerStates /\ NoWork.at = "idle"
  BY DEF NoWork, WorkerStates, Stages, NoHash
<1>2. txs' \in Seq(Transactions) /\ Len(txs) \in Nat /\ Len(txs') = Len(txs)
  BY LenProperties DEF TypeInv, TypeOK, LedgerTypeOK
<1>3. Become(w, NoWork) /\ inFlight' \in SUBSET Collections
  BY DEF Release, TypeInv, TypeOK
<1> QED
  BY <1>1, <1>2, <1>3, WorkerMoves

\* The network accepts a transaction.
LEMMA AcceptType ==
  ASSUME TypeInv, NEW call \in Calls, NEW c \in Collections, NEW target \in Nat,
         Accept(call, c, target)
  PROVE  /\ txs' \in Seq(Transactions)
         /\ Len(txs) \in Nat /\ Len(txs') = Len(txs) + 1
<1> DEFINE tx == [coll |-> c, call |-> call, target |-> target,
                  seq |-> sequence[SignerOf(call, c)], state |-> "pending"]
<1>1. SignerOf(call, c) \in Signers
  BY DEF SignerOf, Signers
<1>2. tx \in Transactions
  BY <1>1 DEF Transactions, TypeInv, TypeOK, LedgerTypeOK
<1> QED
  BY <1>2, AppendProperties, LenProperties DEF Accept, TypeInv, TypeOK, LedgerTypeOK

\* The network settles a transaction.
LEMMA SettleType ==
  ASSUME TypeInv, NEW h \in DOMAIN txs, NEW outcome \in {"success", "failed", "dropped"},
         txs' = [txs EXCEPT ![h].state = outcome]
  PROVE  /\ txs' \in Seq(Transactions)
         /\ Len(txs) \in Nat /\ Len(txs') = Len(txs)
<1> DEFINE tx == [txs[h] EXCEPT !.state = outcome]
<1>1. txs \in Seq(Transactions) /\ h \in 1..Len(txs)
  BY LenProperties DEF TypeInv, TypeOK, LedgerTypeOK
<1>2. txs[h] \in Transactions
  BY <1>1, ElementOfSeq
<1>3. tx \in Transactions
  BY <1>2 DEF Transactions
<1>4. txs' = [txs EXCEPT ![h] = tx]
  OBVIOUS
<1> HIDE DEF tx
<1>5. [txs EXCEPT ![h] = tx] \in Seq(Transactions) /\ Len([txs EXCEPT ![h] = tx]) = Len(txs)
  BY <1>1, <1>3, ExceptSeq
<1>6. Len(txs) \in Nat
  BY <1>1, LenProperties
<1> QED
  BY <1>4, <1>5, <1>6

-----------------------------------------------------------------------------
(* Every step keeps the first invariant.                                   *)

\* Reviews and deletions keep the types.
LEMMA RequestType ==
  ASSUME TypeInv, NEW c \in Collections, Request(c)
  PROVE  TypeInv'
<1> USE DEF TypeInv
<1>1. row[c] \in Rows /\ reviews[c] \in Nat
  BY DEF TypeOK
<1>2. CASE VerifyRead(c)
  BY <1>1, <1>2 DEF VerifyRead, TypeOK, LedgerTypeOK, WorkerShape, AtHead, Signer,
     ledgerVars, dbVars, timerVars, budgetVars
<1>3. ASSUME Reviewed(c)
      PROVE  reviews' \in [Collections -> Nat]
  BY <1>1, <1>3 DEF Reviewed, TypeOK
<1>4. CASE Approve(c)
  <2> DEFINE r == [row[c] EXCEPT !.verified = TRUE, !.chainStatus = "PENDING"]
  <2>1. r \in Rows
    BY <1>1 DEF Rows, ChainStatuses
  <2>2. row' \in [Collections -> Rows] /\ newer' \in [Collections -> SUBSET Collections]
    BY <1>4, <2>1, WriteType DEF Approve
  <2>3. /\ worker' \in [Workers -> WorkerStates]
        /\ inFlight' \in SUBSET Collections
        /\ WorkerShape'
    BY <1>4, ProcessType DEF Approve, Workers, ledgerVars
  <2> QED
    BY <1>3, <1>4, <2>2, <2>3 DEF Approve, TypeOK, LedgerTypeOK, ledgerVars, budgetVars
<1>5. CASE Reject(c)
  <2> DEFINE r == [row[c] EXCEPT !.verified = TRUE, !.paymentStatus = "CANCELLED"]
  <2>1. r \in Rows
    BY <1>1 DEF Rows
  <2>2. row' \in [Collections -> Rows] /\ newer' \in [Collections -> SUBSET Collections]
    BY <1>5, <2>1, WriteType DEF Reject
  <2> QED
    BY <1>3, <1>5, <2>2 DEF Reject, TypeOK, LedgerTypeOK, WorkerShape, AtHead, Signer,
       ledgerVars, timerVars, budgetVars
<1>6. CASE ReviewFails(c)
  BY <1>1, <1>6 DEF ReviewFails, TypeOK, LedgerTypeOK, WorkerShape, AtHead, Signer,
     ledgerVars, dbVars, timerVars, budgetVars
<1>7. CASE Delete(c)
  <2>1. [row[c] EXCEPT !.exists = FALSE] \in Rows
    BY <1>1 DEF Rows
  <2>2. row' \in [Collections -> Rows]
    BY <1>7, <2>1 DEF Delete, TypeOK
  <2> QED
    BY <1>7, <2>2 DEF Delete, TypeOK, LedgerTypeOK, WorkerShape, AtHead, Signer,
       ledgerVars, timerVars, budgetVars
<1> QED
  BY <1>2, <1>4, <1>5, <1>6, <1>7 DEF Request

\* Ticks and their lists keep the types.
LEMMA SweepType ==
  ASSUME TypeInv, NEW s \in Sweeps, SweepStep(s) \/ ListFails(s)
  PROVE  TypeInv'
<1> USE DEF TypeInv
<1>1. sweep[s] \in SweepStates /\ s \in Workers
  BY DEF TypeOK, Workers
<1>2. ASSUME NEW t \in SweepStates, sweep' = [sweep EXCEPT ![s] = t]
      PROVE  sweep' \in [Sweeps -> SweepStates]
  BY <1>2 DEF TypeOK
<1>3. CASE Tick(s)
  <2>1. [sweep[s] EXCEPT !.at = "listing"] \in SweepStates
    BY <1>1 DEF SweepStates
  <2>2. sweep' \in [Sweeps -> SweepStates]
    BY <1>3, <2>1, <1>2 DEF Tick
  <2> QED
    BY <1>3, <2>2 DEF Tick, TypeOK, LedgerTypeOK, WorkerShape, AtHead, Signer,
       ledgerVars, dbVars, budgetVars
<1>4. CASE List(s)
  <2>1. PICK list \in SeqOf(Collections, Batch) :
          sweep' = [sweep EXCEPT ![s] =
                      [at |-> "working", due |-> list, found |-> list # <<>>]]
    BY <1>4 DEF List
  <2>2. list \in Seq(Collections)
    BY <2>1, SeqDef DEF SeqOf
  <2>3. sweep' \in [Sweeps -> SweepStates]
    BY <2>1, <2>2, <1>2 DEF SweepStates
  <2> QED
    BY <1>4, <2>3 DEF List, TypeOK, LedgerTypeOK, WorkerShape, AtHead, Signer,
       ledgerVars, dbVars, budgetVars
<1>5. NoSweep \in SweepStates
  BY EmptySeq DEF NoSweep, SweepStates
<1>6. CASE ListFails(s)
  BY <1>2, <1>5, <1>6 DEF ListFails, TypeOK, LedgerTypeOK, WorkerShape, AtHead, Signer,
     ledgerVars, dbVars
<1>7. CASE SweepEnds(s)
  BY <1>1, <1>2, <1>5, <1>7 DEF SweepEnds, SweepStates, TypeOK, LedgerTypeOK, WorkerShape,
     AtHead, Signer, ledgerVars, dbVars, budgetVars
<1>8. CASE SweepNext(s)
  <2> DEFINE due == sweep[s].due
  <2>1. due \in Seq(Collections) /\ due # <<>>
    BY <1>1, <1>8 DEF SweepNext, SweepStates
  <2>2. Head(due) \in Collections /\ Tail(due) \in Seq(Collections)
    BY <2>1, HeadTailProperties
  <2>3. [sweep[s] EXCEPT !.due = Tail(due)] \in SweepStates
    BY <1>1, <2>2 DEF SweepStates
  <2>4. sweep' \in [Sweeps -> SweepStates]
    BY <1>2, <1>8, <2>3 DEF SweepNext
  <2>5. /\ worker' \in [Workers -> WorkerStates]
        /\ inFlight' \in SUBSET Collections
        /\ WorkerShape'
    BY <1>1, <1>8, <2>2, ProcessType DEF SweepNext, ledgerVars
  <2> QED
    BY <1>8, <2>4, <2>5 DEF SweepNext, TypeOK, LedgerTypeOK, ledgerVars, dbVars, budgetVars
<1> QED
  BY <1>3, <1>4, <1>6, <1>7, <1>8 DEF SweepStep

\* The stages of run() that save the row.
LEMMA SaveType ==
  ASSUME TypeInv, NEW w \in Workers,
         SaveHash(w) \/ SaveRecorded(w) \/ SaveVerified(w) \/ SavePaymentId(w) \/ SavePaid(w)
  PROVE  TypeInv'
<1> USE DEF TypeInv
<1> DEFINE k == worker[w]
           c == k.coll
<1>1. k \in WorkerStates /\ k.at # "idle"
  BY DEF TypeOK, SaveHash, SaveRecorded, SaveVerified, SavePaymentId, SavePaid
<1>2. c \in Collections /\ row[c] \in Rows /\ k.id \in Nat /\ k.hash \in Nat
  BY <1>1 DEF WorkerShape, WorkerStates, TypeOK
<1>3. txs \in Seq(Transactions) /\ Len(txs) \in Nat
  BY LenProperties DEF TypeOK, LedgerTypeOK
<1>4. ASSUME NEW stage \in Stages \ {"queued", "saving", "polling"}, Goto(w, stage),
             UNCHANGED <<queue, txs>>
      PROVE  worker' \in [Workers -> WorkerStates] /\ WorkerShape'
  <2> DEFINE j == [k EXCEPT !.at = stage]
  <2>1. j \in WorkerStates /\ j.at = stage /\ j.coll = c
    BY <1>1 DEF WorkerStates
  <2>2. Become(w, j)
    BY <1>4 DEF Goto
  <2> HIDE DEF j
  <2> QED
    BY <1>2, <1>3, <1>4, <2>1, <2>2, WorkerMoves
<1>5. CASE SaveHash(w)
  <2> DEFINE j == [k EXCEPT !.at = "polling"]
  <2>1. [row[c] EXCEPT !.chainRecordTxHash = k.hash] \in Rows
    BY <1>2 DEF Rows
  <2>2. row' \in [Collections -> Rows] /\ newer' \in [Collections -> SUBSET Collections]
    BY <1>2, <1>5, <2>1, WriteType DEF SaveHash
  <2>3. /\ j \in WorkerStates /\ j.coll = c /\ j.call = k.call /\ j.hash = k.hash
        /\ j.at = "polling"
    BY <1>1 DEF WorkerStates, Stages
  <2>4. Become(w, j)
    BY <1>5 DEF SaveHash, Goto
  <2>5. k.call \in Calls /\ AtHead(w) /\ k.hash \in 1..Len(txs)
    BY <1>5 DEF SaveHash, WorkerShape
  <2>6. queue[SignerOf(j.call, j.coll)] # <<>> /\ Head(queue[SignerOf(j.call, j.coll)]) = w
    BY <2>3, <2>5 DEF AtHead, Signer
  <2> HIDE DEF j
  <2>7. worker' \in [Workers -> WorkerStates] /\ WorkerShape'
    BY <1>2, <1>3, <1>5, <2>3, <2>4, <2>5, <2>6, WorkerMoves DEF SaveHash, ledgerVars
  <2> QED
    BY <1>5, <2>2, <2>7 DEF SaveHash, TypeOK, LedgerTypeOK, ledgerVars, timerVars, budgetVars
<1>6. CASE SaveRecorded(w)
  <2>1. [row[c] EXCEPT !.chainTransactionId = k.id, !.chainStatus = "RECORDED"] \in Rows
    BY <1>2 DEF Rows, ChainStatuses
  <2>2. row' \in [Collections -> Rows] /\ newer' \in [Collections -> SUBSET Collections]
    BY <1>2, <1>6, <2>1, WriteType DEF SaveRecorded
  <2>3. /\ worker' \in [Workers -> WorkerStates] /\ WorkerShape'
        /\ queue' \in [Signers -> Seq(Workers)]
    <3>1. CASE k.id \in verifiedOn
      BY <1>4, <1>6, <3>1 DEF SaveRecorded, Stages, ledgerVars, TypeOK
    <3>2. CASE k.id \notin verifiedOn
      BY <1>2, <1>6, <3>2, EnqueueType DEF SaveRecorded, Calls, ledgerVars
    <3> QED
      BY <3>1, <3>2
  <2> QED
    BY <1>6, <2>2, <2>3 DEF SaveRecorded, TypeOK, LedgerTypeOK, ledgerVars, timerVars, budgetVars
<1>7. CASE SaveVerified(w)
  <2>1. [row[c] EXCEPT !.chainStatus = "VERIFIED"] \in Rows
    BY <1>2 DEF Rows, ChainStatuses
  <2>2. row' \in [Collections -> Rows] /\ newer' \in [Collections -> SUBSET Collections]
    BY <1>2, <1>7, <2>1, WriteType DEF SaveVerified
  <2>3. /\ worker' \in [Workers -> WorkerStates] /\ WorkerShape'
        /\ queue' \in [Signers -> Seq(Workers)]
    <3>1. CASE k.id \in payments
      BY <1>4, <1>7, <3>1 DEF SaveVerified, Stages, ledgerVars, TypeOK
    <3>2. CASE k.id \notin payments
      BY <1>2, <1>7, <3>2, EnqueueType DEF SaveVerified, Calls, ledgerVars
    <3> QED
      BY <3>1, <3>2
  <2> QED
    BY <1>7, <2>2, <2>3 DEF SaveVerified, TypeOK, LedgerTypeOK, ledgerVars, timerVars, budgetVars
<1>8. CASE SavePaymentId(w)
  <2>1. row' \in [Collections -> Rows] /\ newer' \in [Collections -> SUBSET Collections]
    BY <1>2, <1>8, WriteType DEF SavePaymentId
  <2>2. /\ worker' \in [Workers -> WorkerStates] /\ WorkerShape'
        /\ queue' \in [Signers -> Seq(Workers)]
    <3>1. CASE k.id \in minted
      BY <1>4, <1>8, <3>1 DEF SavePaymentId, Stages, ledgerVars, TypeOK
    <3>2. CASE k.id \notin minted
      BY <1>2, <1>8, <3>2, EnqueueType DEF SavePaymentId, Calls, ledgerVars
    <3> QED
      BY <3>1, <3>2
  <2> QED
    BY <1>8, <2>1, <2>2 DEF SavePaymentId, TypeOK, LedgerTypeOK, ledgerVars, timerVars, budgetVars
<1>9. CASE SavePaid(w)
  <2>1. [row[c] EXCEPT !.chainStatus = "PAID"] \in Rows
    BY <1>2 DEF Rows, ChainStatuses
  <2>2. row' \in [Collections -> Rows] /\ newer' \in [Collections -> SUBSET Collections]
    BY <1>2, <1>9, <2>1, WriteType DEF SavePaid
  <2>3. /\ worker' \in [Workers -> WorkerStates] /\ inFlight' \in SUBSET Collections
        /\ WorkerShape'
    BY <1>9, ReleaseType DEF SavePaid, ledgerVars
  <2> QED
    BY <1>9, <2>2, <2>3 DEF SavePaid, TypeOK, LedgerTypeOK, ledgerVars, timerVars, budgetVars
<1> QED
  BY <1>5, <1>6, <1>7, <1>8, <1>9

\* The other steps of process(), run() and invoke().
LEMMA WorkerType ==
  ASSUME TypeInv, NEW w \in Workers, WorkerStep(w) \/ Failure(w)
  PROVE  TypeInv'
<1> USE DEF TypeInv
<1> DEFINE k == worker[w]
           c == k.coll
<1>1. k \in WorkerStates /\ k.at # "idle"
  BY DEF TypeOK, WorkerStep, Failure, ReadRow, Resume, Submit, SubmitRefused, SaveHash,
     Confirmed, NotConfirmed, SaveRecorded, SaveVerified, SavePaymentId, SavePaid, SaveFails,
     CatchSave, SubmitUnanswered, Fault, CatchFails
<1>2. c \in Collections /\ row[c] \in Rows /\ k.id \in Nat /\ k.hash \in Nat
  BY <1>1 DEF WorkerShape, WorkerStates, TypeOK
<1>3. txs \in Seq(Transactions) /\ Len(txs) \in Nat
  BY LenProperties DEF TypeOK, LedgerTypeOK
<1>4. CASE ReadRow(w)
  <2>1. CASE ToRun(row[c])
    <3> DEFINE j == [k EXCEPT !.at = "preparing", !.id = row[c].chainTransactionId,
                              !.hash = row[c].chainRecordTxHash]
    <3>1. j \in WorkerStates /\ j.at = "preparing" /\ j.coll = c
      BY <1>1, <1>2 DEF WorkerStates, Stages, Rows
    <3>2. Become(w, j) /\ UNCHANGED <<inFlight, queue, txs>>
      BY <1>4, <2>1 DEF ReadRow, ledgerVars
    <3> HIDE DEF j
    <3>3. worker' \in [Workers -> WorkerStates] /\ WorkerShape'
      BY <1>2, <1>3, <3>1, <3>2, WorkerMoves
    <3> QED
      BY <1>4, <3>2, <3>3 DEF ReadRow, TypeOK, LedgerTypeOK, ledgerVars, dbVars, timerVars,
         budgetVars
  <2>2. CASE ~ToRun(row[c])
    <3>1. /\ worker' \in [Workers -> WorkerStates] /\ inFlight' \in SUBSET Collections
          /\ WorkerShape'
      BY <1>4, <2>2, ReleaseType DEF ReadRow, ledgerVars
    <3> QED
      BY <1>4, <3>1 DEF ReadRow, TypeOK, LedgerTypeOK, ledgerVars, dbVars, timerVars, budgetVars
  <2> QED
    BY <2>1, <2>2
<1>5. CASE Resume(w)
  <2>1. /\ worker' \in [Workers -> WorkerStates] /\ WorkerShape'
        /\ queue' \in [Signers -> Seq(Workers)]
    <3>1. ASSUME NEW id \in Nat, Become(w, [k EXCEPT !.at = "recorded", !.id = id]),
                 UNCHANGED queue
          PROVE  worker' \in [Workers -> WorkerStates] /\ WorkerShape'
      <4> DEFINE j == [k EXCEPT !.at = "recorded", !.id = id]
      <4>1. j \in WorkerStates /\ j.at = "recorded" /\ j.coll = c
        BY <1>1 DEF WorkerStates, Stages
      <4>2. UNCHANGED txs
        BY <1>5 DEF Resume, ledgerVars
      <4>3. Become(w, j)
        BY <3>1
      <4> HIDE DEF j
      <4> QED
        BY <1>2, <1>3, <3>1, <4>1, <4>2, <4>3, WorkerMoves
    <3>2. CASE Goto(w, "recorded") /\ UNCHANGED queue
      <4>1. [k EXCEPT !.at = "recorded"] = [k EXCEPT !.at = "recorded", !.id = k.id]
        BY <1>1 DEF WorkerStates
      <4> QED
        BY <1>2, <3>1, <3>2, <4>1 DEF Goto, TypeOK
    <3>3. CASE Become(w, [k EXCEPT !.at = "recorded", !.id = k.hash]) /\ UNCHANGED queue
      BY <1>2, <3>1, <3>3 DEF TypeOK
    <3>4. CASE Enqueue(w, "record", NoHash)
      BY <1>5, <3>4, EnqueueType DEF Resume, Calls, NoHash, ledgerVars
    <3> QED
      BY <1>5, <3>2, <3>3, <3>4 DEF Resume
  <2> QED
    BY <1>5, <2>1 DEF Resume, TypeOK, LedgerTypeOK, ledgerVars, dbVars, timerVars, budgetVars
<1>6. CASE Submit(w)
  <2> DEFINE stage == IF StoresHash(k.call) THEN "saving" ELSE "polling"
             j == [k EXCEPT !.hash = Len(txs) + 1, !.at = stage]
  <2>1. k.call \in Calls /\ AtHead(w)
    BY <1>6 DEF Submit, WorkerShape
  <2>2. txs' \in Seq(Transactions) /\ Len(txs') = Len(txs) + 1
    BY <1>2, <1>6, <2>1, AcceptType DEF Submit
  <2>3. /\ j \in WorkerStates /\ j.coll = c /\ j.call = k.call /\ j.hash = Len(txs) + 1
        /\ j.at \in {"saving", "polling"}
    <3>1. stage \in {"saving", "polling"} /\ Len(txs) + 1 \in Nat
      BY <1>3
    <3> HIDE DEF stage
    <3> QED
      BY <1>1, <3>1 DEF WorkerStates, Stages
  <2>4. Become(w, j) /\ UNCHANGED queue
    BY <1>6 DEF Submit
  <2>5. queue[SignerOf(j.call, j.coll)] # <<>> /\ Head(queue[SignerOf(j.call, j.coll)]) = w
    BY <2>1, <2>3 DEF AtHead, Signer
  <2> HIDE DEF j
  <2>6. worker' \in [Workers -> WorkerStates] /\ WorkerShape'
    BY <1>2, <1>3, <2>1, <2>2, <2>3, <2>4, <2>5, WorkerMoves
  <2> QED
    BY <1>6, <2>2, <2>4, <2>6 DEF Submit, TypeOK, LedgerTypeOK, dbVars, timerVars, budgetVars
<1>7. CASE SubmitUnanswered(w)
  <2>1. k.call \in Calls /\ AtHead(w)
    BY <1>7 DEF SubmitUnanswered, WorkerShape
  <2>2. txs' \in Seq(Transactions) /\ Len(txs') = Len(txs) + 1
    BY <1>2, <1>7, <2>1, AcceptType DEF SubmitUnanswered
  <2>3. /\ worker' \in [Workers -> WorkerStates] /\ queue' \in [Signers -> Seq(Workers)]
        /\ WorkerShape'
    BY <1>1, <1>3, <1>7, <2>1, <2>2, ThrowType DEF SubmitUnanswered
  <2> QED
    BY <1>7, <2>2, <2>3 DEF SubmitUnanswered, TypeOK, LedgerTypeOK, dbVars, timerVars
<1>8. ASSUME Throw(w), UNCHANGED ledgerVars, k.at = "queued" => AtHead(w)
      PROVE  /\ worker' \in [Workers -> WorkerStates]
             /\ queue' \in [Signers -> Seq(Workers)]
             /\ WorkerShape'
  BY <1>1, <1>3, <1>8, ThrowType DEF ledgerVars
<1>9. CASE SubmitRefused(w)
  BY <1>8, <1>9 DEF SubmitRefused, TypeOK, LedgerTypeOK, ledgerVars, dbVars, timerVars, budgetVars
<1>10. CASE NotConfirmed(w)
  BY <1>8, <1>10 DEF NotConfirmed, TypeOK, LedgerTypeOK, ledgerVars, dbVars, timerVars, budgetVars
<1>11. CASE SaveFails(w)
  BY <1>8, <1>11 DEF SaveFails, TypeOK, LedgerTypeOK, ledgerVars, dbVars, timerVars, budgetVars
<1>12. CASE Fault(w)
  BY <1>8, <1>12 DEF Fault, TypeOK, LedgerTypeOK, ledgerVars, dbVars, timerVars
<1>13. CASE Confirmed(w)
  <2> DEFINE j == [k EXCEPT !.at = After(k.call), !.call = "none",
                            !.id = IF k.call = "record" THEN k.hash ELSE k.id]
  <2>1. k.at = "polling" /\ k.call \in Calls /\ AtHead(w)
    BY <1>13 DEF Confirmed, WorkerShape
  <2>2. After(k.call) \in {"recorded", "verified", "payment", "paid"}
    BY <2>1 DEF After, Calls
  <2>3. /\ j \in WorkerStates /\ j.coll = c
        /\ j.at \in {"recorded", "verified", "payment", "paid"}
    BY <1>1, <1>2, <2>2 DEF WorkerStates, Stages
  <2>4. Become(w, j) /\ Dequeue(w) /\ UNCHANGED txs
    BY <1>13 DEF Confirmed, ledgerVars
  <2> HIDE DEF j
  <2>5. /\ worker' \in [Workers -> WorkerStates]
        /\ queue' \in [Signers -> Seq(Workers)]
        /\ WorkerShape'
    BY <1>2, <1>3, <2>1, <2>3, <2>4, DequeueType
  <2> QED
    BY <1>13, <2>5 DEF Confirmed, TypeOK, LedgerTypeOK, ledgerVars, dbVars, timerVars, budgetVars
<1>14. CASE CatchSave(w)
  <2> DEFINE r == [row[c] EXCEPT !.chainStatus = "FAILED", !.chainAttempts = @ + 1]
  <2>1. r \in Rows
    <3>1. row[c].chainAttempts \in Nat /\ row[c].chainAttempts + 1 \in Nat
      BY <1>2 DEF Rows
    <3> QED
      BY <1>2, <3>1 DEF Rows, ChainStatuses
  <2>2. row' \in [Collections -> Rows] /\ newer' \in [Collections -> SUBSET Collections]
    BY <1>2, <1>14, <2>1, WriteType DEF CatchSave, TypeOK, dbVars
  <2>3. /\ worker' \in [Workers -> WorkerStates] /\ inFlight' \in SUBSET Collections
        /\ WorkerShape'
    BY <1>14, ReleaseType DEF CatchSave, ledgerVars
  <2> QED
    BY <1>14, <2>2, <2>3 DEF CatchSave, TypeOK, LedgerTypeOK, ledgerVars, timerVars, budgetVars
<1>15. CASE CatchFails(w)
  <2>1. /\ worker' \in [Workers -> WorkerStates] /\ inFlight' \in SUBSET Collections
        /\ WorkerShape'
    BY <1>15, ReleaseType DEF CatchFails, ledgerVars
  <2> QED
    BY <1>15, <2>1 DEF CatchFails, TypeOK, LedgerTypeOK, ledgerVars, dbVars, timerVars
<1> QED
  BY <1>4, <1>5, <1>6, <1>7, <1>9, <1>10, <1>11, <1>12, <1>13, <1>14, <1>15, SaveType
  DEF WorkerStep, Failure

\* The network keeps the types.
LEMMA NetworkType ==
  ASSUME TypeInv, Network \/ NetworkFault \/ Time
  PROVE  TypeInv'
<1> USE DEF TypeInv
<1>1. ASSUME NEW h \in DOMAIN txs, NEW outcome \in {"success", "failed"}, Include(h, outcome)
      PROVE  /\ txs' \in Seq(Transactions)
             /\ Len(txs) \in Nat /\ Len(txs') = Len(txs)
             /\ sequence' \in [Signers -> Nat]
  <2>1. txs[h] \in Transactions
    BY ElementOfSeq, LenProperties DEF TypeOK, LedgerTypeOK
  <2>2. SignerOf(txs[h].call, txs[h].coll) \in Signers
    BY <2>1 DEF Transactions, SignerOf, Signers
  <2>3. sequence' \in [Signers -> Nat]
    BY <1>1, <2>2 DEF Include, TypeOK, LedgerTypeOK
  <2> QED
    BY <1>1, <2>3, SettleType DEF Include
<1>2. ASSUME NEW h \in DOMAIN txs, Succeed(h)
      PROVE  LedgerTypeOK' /\ Len(txs) \in Nat /\ Len(txs') = Len(txs)
  <2>1. txs[h] \in Transactions
    BY ElementOfSeq, LenProperties DEF TypeOK, LedgerTypeOK
  <2>2. txs[h].target \in Nat /\ RecordKey[txs[h].coll] \in RecordKeys
    BY <2>1 DEF Transactions
  <2> QED
    BY <1>1, <1>2, <2>2 DEF Succeed, TypeOK, LedgerTypeOK
<1>3. ASSUME NEW h \in DOMAIN txs, Revert(h) \/ Drop(h)
      PROVE  LedgerTypeOK' /\ Len(txs) \in Nat /\ Len(txs') = Len(txs)
  BY <1>1, <1>3, SettleType DEF Revert, Drop, TypeOK, LedgerTypeOK
<1>4. LedgerTypeOK' /\ Len(txs) \in Nat /\ Len(txs') = Len(txs)
  <2>1. CASE Network \/ NetworkFault
    BY <1>2, <1>3, <2>1 DEF Network, NetworkFault, Land, Overtaken
  <2>2. CASE Time
    BY <2>2, LenProperties DEF Time, WindowCloses, TypeOK, LedgerTypeOK
  <2> QED
    BY <2>1, <2>2
<1>5. UNCHANGED <<row, newer, reviews, inFlight, worker, queue, sweep, workPending, crashes>>
  BY DEF Network, NetworkFault, Time, serviceVars, dbVars, timerVars, budgetVars
<1>6. faults' \in 0..MaxFaults
  BY DEF Network, NetworkFault, Time, budgetVars, TypeOK
<1>7. TypeOK'
  BY <1>4, <1>5, <1>6 DEF TypeOK
<1>8. WorkerShape'
  BY <1>4, <1>5 DEF WorkerShape, AtHead, Signer
<1> QED
  BY <1>7, <1>8

\* A restart keeps the types.
LEMMA CrashType == TypeInv /\ CrashRestart => TypeInv'
<1> SUFFICES ASSUME TypeInv, CrashRestart PROVE TypeInv'
  OBVIOUS
<1>1. NoWork \in WorkerStates /\ NoSweep \in SweepStates
  BY EmptySeq DEF NoWork, WorkerStates, Stages, NoHash, NoSweep, SweepStates
<1>2. queue' \in [Signers -> Seq(Workers)]
  BY EmptySeq DEF CrashRestart
<1>3. TypeOK'
  BY <1>1, <1>2 DEF TypeInv, CrashRestart, TypeOK, LedgerTypeOK, ledgerVars, dbVars
<1>4. WorkerShape'
  BY DEF CrashRestart, WorkerShape, NoWork
<1> QED
  BY <1>3, <1>4 DEF TypeInv

\* TypeInv is inductive.
LEMMA NextTypeInv == TypeInv /\ [Next]_vars => TypeInv'
<1> SUFFICES ASSUME TypeInv, [Next]_vars PROVE TypeInv'
  OBVIOUS
<1>1. CASE Next
  BY <1>1, RequestType, SweepType, WorkerType, NetworkType, CrashType DEF Next
<1>2. CASE UNCHANGED vars
  BY <1>2 DEF vars, ledgerVars, dbVars, timerVars, budgetVars, TypeInv, TypeOK, LedgerTypeOK,
     WorkerShape, AtHead, Signer
<1> QED
  BY <1>1, <1>2

\* The inductive strengthening of TypeOK: what a call keeps while it waits in the
\* queue of its signer or for its transaction (invoke, lines 119-136).
THEOREM TypeInvariance == Spec => []TypeInv
BY InitTypeInv, NextTypeInv, PTL DEF Spec

\* Every variable keeps its type: in particular a call of process() that waits
\* in invoke() belongs to a collection and a contract call, and the queues of
\* SorobanService never lose their order.
THEOREM TypeCorrect == Spec => []TypeOK
<1>1. TypeInv => TypeOK
  BY DEF TypeInv
<1> QED
  BY <1>1, TypeInvariance, PTL

\* serialize() does its work: two running calls never have a submission of the
\* same account outstanding.
THEOREM SignersAreSerialized == Spec => []OneSubmissionPerSigner
<1>1. TypeInv => OneSubmissionPerSigner
  BY DEF TypeInv, WorkerShape, OneSubmissionPerSigner, AtHead
<1> QED
  BY <1>1, TypeInvariance, PTL

-----------------------------------------------------------------------------
(* Second invariant: one call of process() per collection.                 *)

\* The slot of kick(c) runs nothing but c, so it is free when c is not in flight.
CallInv ==
  /\ \A w \in Workers :
       /\ worker[w].at # "idle" => worker[w].coll \in inFlight
       /\ worker[w].at = "idle" => worker[w].coll = Nil
  /\ \A v, w \in Workers :
       v # w /\ worker[v].at # "idle" => worker[v].coll # worker[w].coll
  /\ \A c \in inFlight : \E w \in Workers : worker[w].at # "idle" /\ worker[w].coll = c
  /\ \A c \in Collections : worker[c].at # "idle" => worker[c].coll = c

\* The first state runs no call.
LEMMA InitCallInv == Init => CallInv
<1> SUFFICES ASSUME Init PROVE CallInv
  OBVIOUS
<1>1. NoWork.at = "idle" /\ NoWork.coll = Nil
  BY DEF NoWork
<1>2. \A w \in Workers : worker[w].at = "idle" /\ worker[w].coll = Nil
  BY <1>1 DEF Init
<1>3. inFlight = {}
  BY DEF Init
<1> QED
  BY <1>2, <1>3 DEF CallInv, Workers

\* A running call goes on.
LEMMA CallGoesOn ==
  ASSUME TypeInv, CallInv, NEW w \in Workers, NEW k,
         worker[w].at # "idle", k.at # "idle", k.coll = worker[w].coll,
         Become(w, k), UNCHANGED inFlight
  PROVE  CallInv'
<1>1. /\ worker'[w] = k
      /\ \A v \in Workers : v # w => worker'[v] = worker[v]
  BY DEF Become, TypeInv, TypeOK
<1>2. \A v \in Workers : /\ worker'[v].coll = worker[v].coll
                         /\ worker'[v].at = "idle" <=> worker[v].at = "idle"
  BY <1>1
<1> QED
  BY <1>2 DEF CallInv, Workers

\* process(c) starts in a free slot, or does not start.
LEMMA CallStarts ==
  ASSUME TypeInv, CallInv, NEW w \in Workers, NEW c \in Collections, Process(w, c),
         ~Running(c) => worker[w].at = "idle", w \in Collections => w = c
  PROVE  CallInv'
<1> DEFINE k == [NoWork EXCEPT !.at = "reading", !.coll = c]
<1>1. CASE Running(c)
  BY <1>1 DEF Process, CallInv
<1>2. CASE ~Running(c)
  <2>1. k.at = "reading" /\ k.coll = c
    BY DEF NoWork
  <2>2. Become(w, k) /\ inFlight' = inFlight \cup {c}
    BY <1>2 DEF Process, StartWorker
  <2> HIDE DEF k
  <2>3. /\ worker'[w] = k
        /\ \A v \in Workers : v # w => worker'[v] = worker[v]
    BY <2>2 DEF Become, TypeInv, TypeOK
  <2>4. /\ worker[w].at = "idle" /\ c # Nil
        /\ \A v \in Workers : worker[v].coll # c
    BY <1>2 DEF Running, CallInv
  <2> QED
    BY <2>1, <2>2, <2>3, <2>4 DEF CallInv, Workers
<1> QED
  BY <1>1, <1>2

\* A call of process() returns.
LEMMA CallReturns ==
  ASSUME TypeInv, CallInv, NEW w \in Workers, worker[w].at # "idle", Release(w)
  PROVE  CallInv'
<1>1. /\ worker'[w] = NoWork
      /\ \A v \in Workers : v # w => worker'[v] = worker[v]
      /\ inFlight' = inFlight \ {worker[w].coll}
  BY DEF Release, Become, TypeInv, TypeOK
<1>2. NoWork.at = "idle" /\ NoWork.coll = Nil
  BY DEF NoWork
<1>3. \A v \in Workers : worker[v].at # "idle" => worker[v].coll # Nil
  BY DEF CallInv, TypeInv, TypeOK, PipelineAssumption
<1>4. \A v \in Workers : worker'[v].at # "idle" => v # w /\ worker'[v] = worker[v]
  BY <1>1, <1>2
<1>5. \A v \in Workers :
        /\ worker'[v].at # "idle" => worker'[v].coll \in inFlight'
        /\ worker'[v].at = "idle" => worker'[v].coll = Nil
  BY <1>1, <1>2, <1>4 DEF CallInv
<1>6. \A u, v \in Workers :
        u # v /\ worker'[u].at # "idle" => worker'[u].coll # worker'[v].coll
  BY <1>1, <1>2, <1>3, <1>4 DEF CallInv
<1>7. \A c \in inFlight' : \E v \in Workers : worker'[v].at # "idle" /\ worker'[v].coll = c
  BY <1>1 DEF CallInv
<1>8. \A c \in Collections : worker'[c].at # "idle" => worker'[c].coll = c
  BY <1>4 DEF CallInv, Workers
<1> QED
  BY <1>5, <1>6, <1>7, <1>8 DEF CallInv

\* A step of a running call keeps the calls exclusive.
LEMMA WorkerCallInv ==
  ASSUME TypeInv, CallInv, NEW w \in Workers, WorkerStep(w) \/ Failure(w)
  PROVE  CallInv'
<1> DEFINE k == worker[w]
<1>1. k \in WorkerStates /\ k.at # "idle"
  BY DEF TypeInv, TypeOK, WorkerStep, Failure, ReadRow, Resume, Submit, SubmitRefused, SaveHash,
     Confirmed, NotConfirmed, SaveRecorded, SaveVerified, SavePaymentId, SavePaid, SaveFails,
     CatchSave, SubmitUnanswered, Fault, CatchFails
<1>2. ASSUME NEW stage \in Stages \ {"idle"}, Goto(w, stage), UNCHANGED inFlight
      PROVE  CallInv'
  BY <1>1, <1>2, CallGoesOn DEF Goto, WorkerStates
<1>3. ASSUME Throw(w), UNCHANGED inFlight
      PROVE  CallInv'
  BY <1>2, <1>3 DEF Throw, Stages
<1>4. ASSUME NEW call, NEW id, Enqueue(w, call, id), UNCHANGED inFlight
      PROVE  CallInv'
  <2> DEFINE j == [k EXCEPT !.at = "queued", !.call = call, !.id = id]
  <2>1. j.at = "queued" /\ j.coll = k.coll
    BY <1>1 DEF WorkerStates
  <2>2. Become(w, j)
    BY <1>4 DEF Enqueue
  <2> HIDE DEF j
  <2> QED
    BY <1>1, <1>4, <2>1, <2>2, CallGoesOn
<1>5. CASE ReadRow(w)
  <2> DEFINE j == [k EXCEPT !.at = "preparing", !.id = row[k.coll].chainTransactionId,
                            !.hash = row[k.coll].chainRecordTxHash]
  <2>1. j.at = "preparing" /\ j.coll = k.coll
    BY <1>1 DEF WorkerStates
  <2>2. Release(w) \/ (Become(w, j) /\ UNCHANGED inFlight)
    BY <1>5 DEF ReadRow
  <2> HIDE DEF j
  <2> QED
    BY <1>1, <2>1, <2>2, CallGoesOn, CallReturns
<1>6. CASE Resume(w)
  <2> DEFINE j == [k EXCEPT !.at = "recorded", !.id = k.hash]
  <2>1. j.at = "recorded" /\ j.coll = k.coll
    BY <1>1 DEF WorkerStates
  <2>2. /\ UNCHANGED inFlight
        /\ Goto(w, "recorded") \/ Become(w, j) \/ Enqueue(w, "record", NoHash)
    BY <1>6 DEF Resume
  <2> HIDE DEF j
  <2> QED
    BY <1>1, <1>2, <1>4, <2>1, <2>2, CallGoesOn DEF Stages
<1>7. CASE Submit(w)
  <2> DEFINE stage == IF StoresHash(k.call) THEN "saving" ELSE "polling"
             j == [k EXCEPT !.hash = Len(txs) + 1, !.at = stage]
  <2>1. j.at = stage /\ stage # "idle" /\ j.coll = k.coll
    BY <1>1 DEF WorkerStates
  <2>2. Become(w, j) /\ UNCHANGED inFlight
    BY <1>7 DEF Submit
  <2> HIDE DEF j
  <2> QED
    BY <1>1, <2>1, <2>2, CallGoesOn
<1>8. CASE Confirmed(w)
  <2> DEFINE j == [k EXCEPT !.at = After(k.call), !.call = "none",
                            !.id = IF k.call = "record" THEN k.hash ELSE k.id]
  <2>1. After(k.call) # "idle"
    BY <1>8 DEF Confirmed, TypeInv, WorkerShape, Calls, After
  <2>2. j.at = After(k.call) /\ j.coll = k.coll
    BY <1>1 DEF WorkerStates
  <2>3. Become(w, j) /\ UNCHANGED inFlight
    BY <1>8 DEF Confirmed
  <2> HIDE DEF j
  <2> QED
    BY <1>1, <2>1, <2>2, <2>3, CallGoesOn
<1>9. CASE SaveHash(w)
  BY <1>2, <1>9 DEF SaveHash, Stages
<1>10. CASE SaveRecorded(w)
  BY <1>2, <1>4, <1>10 DEF SaveRecorded, Stages
<1>11. CASE SaveVerified(w)
  BY <1>2, <1>4, <1>11 DEF SaveVerified, Stages
<1>12. CASE SavePaymentId(w)
  BY <1>2, <1>4, <1>12 DEF SavePaymentId, Stages
<1>13. CASE SavePaid(w) \/ CatchSave(w) \/ CatchFails(w)
  BY <1>1, <1>13, CallReturns DEF SavePaid, CatchSave, CatchFails
<1>14. CASE SubmitRefused(w) \/ NotConfirmed(w) \/ SaveFails(w) \/ Fault(w) \/ SubmitUnanswered(w)
  BY <1>3, <1>14 DEF SubmitRefused, NotConfirmed, SaveFails, Fault, SubmitUnanswered
<1> QED
  BY <1>5, <1>6, <1>7, <1>8, <1>9, <1>10, <1>11, <1>12, <1>13, <1>14 DEF WorkerStep, Failure

\* CallInv is inductive relative to TypeInv.
LEMMA NextCallInv == TypeInv /\ CallInv /\ [Next]_vars => CallInv'
<1> SUFFICES ASSUME TypeInv, CallInv, [Next]_vars PROVE CallInv'
  OBVIOUS
<1>1. ASSUME UNCHANGED <<worker, inFlight>> PROVE CallInv'
  BY <1>1 DEF CallInv
<1>2. ASSUME NEW c \in Collections, Request(c) PROVE CallInv'
  <2>1. CASE Approve(c)
    <3>1. c \in Workers /\ Process(c, c)
      BY <2>1 DEF Approve, Workers
    <3>2. ~Running(c) => worker[c].at = "idle"
      BY <3>1 DEF Running, CallInv
    <3> QED
      BY <3>1, <3>2, CallStarts
  <2>2. CASE VerifyRead(c) \/ Reject(c) \/ ReviewFails(c) \/ Delete(c)
    BY <1>1, <2>2 DEF VerifyRead, Reject, ReviewFails, Delete
  <2> QED
    BY <1>2, <2>1, <2>2 DEF Request
<1>3. ASSUME NEW s \in Sweeps, SweepStep(s) \/ ListFails(s) PROVE CallInv'
  <2>1. CASE SweepNext(s)
    <3>1. sweep[s].due \in Seq(Collections) /\ sweep[s].due # <<>>
      BY <2>1 DEF SweepNext, TypeInv, TypeOK, SweepStates
    <3>2. Head(sweep[s].due) \in Collections
      BY <3>1, HeadTailProperties
    <3>3. s \in Workers /\ s \notin Collections
      BY DEF Workers
    <3> QED
      BY <2>1, <3>2, <3>3, CallStarts DEF SweepNext
  <2>2. CASE Tick(s) \/ List(s) \/ SweepEnds(s) \/ ListFails(s)
    BY <1>1, <2>2 DEF Tick, List, SweepEnds, ListFails
  <2> QED
    BY <1>3, <2>1, <2>2 DEF SweepStep
<1>4. CASE CrashRestart
  <2>1. NoWork.at = "idle" /\ NoWork.coll = Nil
    BY DEF NoWork
  <2>2. \A w \in Workers : worker'[w].at = "idle" /\ worker'[w].coll = Nil
    BY <1>4, <2>1 DEF CrashRestart
  <2>3. inFlight' = {}
    BY <1>4 DEF CrashRestart
  <2> QED
    BY <2>2, <2>3 DEF CallInv, Workers
<1>5. CASE Network \/ NetworkFault \/ Time
  BY <1>1, <1>5 DEF Network, NetworkFault, Time, serviceVars
<1>6. CASE UNCHANGED vars
  BY <1>1, <1>6 DEF vars
<1> QED
  BY <1>2, <1>3, <1>4, <1>5, <1>6, WorkerCallInv DEF Next

\* inFlight does its work: process() never runs twice at once for a collection,
\* across sweeps that overlap, approvals and restarts.
THEOREM CallsAreExclusive == Spec => []OneWorkerPerCollection
<1>1. Init => TypeInv /\ CallInv
  BY InitTypeInv, InitCallInv
<1>2. TypeInv /\ CallInv /\ [Next]_vars => (TypeInv /\ CallInv)'
  BY NextTypeInv, NextCallInv
<1>3. TypeInv /\ CallInv => OneWorkerPerCollection
  <2> SUFFICES ASSUME TypeInv, CallInv PROVE OneWorkerPerCollection
    OBVIOUS
  <2> DEFINE running == {worker[w].coll : w \in {v \in Workers : worker[v].at # "idle"}}
  <2>1. ASSUME NEW c \in inFlight PROVE c \in running
    <3>1. PICK w \in Workers : worker[w].at # "idle" /\ worker[w].coll = c
      BY DEF CallInv
    <3> QED
      BY <3>1
  <2>2. ASSUME NEW c \in running PROVE c \in inFlight
    <3>1. PICK w \in Workers : worker[w].at # "idle" /\ worker[w].coll = c
      OBVIOUS
    <3> QED
      BY <3>1 DEF CallInv
  <2>3. inFlight = running
    BY <2>1, <2>2
  <2>4. \A v, w \in Workers :
          v # w /\ worker[v].at # "idle" => worker[v].coll # worker[w].coll
    BY DEF CallInv
  <2> QED
    BY <2>3, <2>4 DEF OneWorkerPerCollection
<1> QED
  BY <1>1, <1>2, <1>3, PTL DEF Spec

-----------------------------------------------------------------------------
(* What the steps of a call do to the rows and to the other calls.         *)

\* What a step of a running call may do to the rows, the lists and the other calls.
WorkerEffect(w) ==
  LET c == worker[w].coll
  IN  /\ UNCHANGED <<reviews, sweep>>
      /\ \A d \in Collections : d \notin newer[d] => d \notin newer'[d]
      /\ \A d \in Collections : d # c => row'[d] = row[d]
      /\ row'[c].verified = row[c].verified
      /\ \A v \in Workers : v # w => worker'[v] = worker[v]
      /\ \/ worker'[w].at # "idle" /\ worker'[w].coll = c /\ inFlight' = inFlight
         \/ worker'[w].at = "idle" /\ worker'[w].coll = Nil /\ inFlight' = inFlight \ {c}
      /\ \/ /\ row'[c].chainAttempts = row[c].chainAttempts
            /\ row'[c].chainStatus \in {row[c].chainStatus, "RECORDED", "VERIFIED", "PAID"}
            /\ row'[c].chainStatus = "PAID"
                 => row[c].chainStatus = "PAID" \/ worker'[w].at = "idle"
         \/ /\ worker'[w].at = "idle"
            /\ row'[c].chainAttempts = row[c].chainAttempts + 1
            /\ row'[c].chainStatus = "FAILED"

\* Every step of a call does one of these: it saves progress, or it ends.
LEMMA WorkerDoes ==
  ASSUME TypeInv, NEW w \in Workers, WorkerStep(w) \/ Failure(w)
  PROVE  worker[w].at # "idle" /\ worker[w].coll \in Collections /\ WorkerEffect(w)
<1> DEFINE k == worker[w]
           c == k.coll
<1>1. k \in WorkerStates /\ k.at # "idle"
  BY DEF TypeInv, TypeOK, WorkerStep, Failure, ReadRow, Resume, Submit, SubmitRefused, SaveHash,
     Confirmed, NotConfirmed, SaveRecorded, SaveVerified, SavePaymentId, SavePaid, SaveFails,
     CatchSave, SubmitUnanswered, Fault, CatchFails
<1>2. c \in Collections /\ row[c] \in Rows
  BY <1>1 DEF TypeInv, TypeOK, WorkerShape
<1> SUFFICES WorkerEffect(w)
  BY <1>1, <1>2
<1>3. NoWork.at = "idle" /\ NoWork.coll = Nil
  BY DEF NoWork
<1> DEFINE Goes == /\ worker'[w].at # "idle" /\ worker'[w].coll = c /\ inFlight' = inFlight
                   /\ \A v \in Workers : v # w => worker'[v] = worker[v]
           Ends == /\ worker'[w].at = "idle" /\ worker'[w].coll = Nil
                   /\ inFlight' = inFlight \ {c}
                   /\ \A v \in Workers : v # w => worker'[v] = worker[v]
           Saves(r) == /\ \A d \in Collections : d \notin newer[d] => d \notin newer'[d]
                       /\ \A d \in Collections : d # c => row'[d] = row[d]
                       /\ row'[c] = r
<1>4. ASSUME NEW j, Become(w, j), UNCHANGED inFlight, j.at # "idle", j.coll = c
      PROVE  Goes
  BY <1>4 DEF Become, TypeInv, TypeOK
<1>5. ASSUME NEW stage, stage # "idle", Goto(w, stage), UNCHANGED inFlight
      PROVE  Goes
  <2> DEFINE j == [k EXCEPT !.at = stage]
  <2>1. j.at = stage /\ j.coll = c /\ Become(w, j)
    BY <1>1, <1>5 DEF Goto, WorkerStates
  <2> HIDE DEF j
  <2> QED
    BY <1>4, <1>5, <2>1
<1>6. ASSUME Release(w)
      PROVE  Ends
  BY <1>3, <1>6 DEF Release, Become, TypeInv, TypeOK
<1>7. ASSUME NEW r, Write(c, r)
      PROVE  Saves(r)
  BY <1>2, <1>7 DEF Write, TypeInv, TypeOK
<1>8. ASSUME NEW call, NEW id, Enqueue(w, call, id), UNCHANGED inFlight
      PROVE  Goes
  <2> DEFINE j == [k EXCEPT !.at = "queued", !.call = call, !.id = id]
  <2>1. j.at = "queued" /\ j.coll = c /\ Become(w, j)
    BY <1>1, <1>8 DEF Enqueue, WorkerStates
  <2> HIDE DEF j
  <2> QED
    BY <1>4, <1>8, <2>1
<1>9. ASSUME Throw(w), UNCHANGED inFlight
      PROVE  Goes
  BY <1>5, <1>9 DEF Throw
<1>10. ASSUME Goes \/ Ends, UNCHANGED <<dbVars, reviews, sweep>>
       PROVE  WorkerEffect(w)
  <2>1. UNCHANGED <<row, newer, reviews, sweep>>
    BY <1>10 DEF dbVars
  <2> QED
    BY <1>10, <2>1 DEF WorkerEffect
<1>11. ASSUME NEW r, Saves(r), r.verified = row[c].verified,
              r.chainAttempts = row[c].chainAttempts,
              r.chainStatus \in {row[c].chainStatus, "RECORDED", "VERIFIED", "PAID"},
              r.chainStatus = "PAID" => row[c].chainStatus = "PAID" \/ Ends,
              Goes \/ Ends, UNCHANGED <<reviews, sweep>>
       PROVE  WorkerEffect(w)
  BY <1>11 DEF WorkerEffect
<1>12. ASSUME NEW r, Saves(r), r.verified = row[c].verified,
              r.chainAttempts = row[c].chainAttempts + 1, r.chainStatus = "FAILED",
              Ends, UNCHANGED <<reviews, sweep>>
       PROVE  WorkerEffect(w)
  BY <1>12 DEF WorkerEffect
<1> HIDE DEF Goes, Ends, Saves
<1>13. CASE ReadRow(w)
  <2> DEFINE j == [k EXCEPT !.at = "preparing", !.id = row[c].chainTransactionId,
                            !.hash = row[c].chainRecordTxHash]
  <2>1. j.at = "preparing" /\ j.coll = c
    BY <1>1 DEF WorkerStates
  <2>2. /\ Release(w) \/ (Become(w, j) /\ UNCHANGED inFlight)
        /\ UNCHANGED <<dbVars, reviews, sweep>>
    BY <1>13 DEF ReadRow, timerVars
  <2> HIDE DEF j
  <2> QED
    BY <1>4, <1>6, <1>10, <2>1, <2>2
<1>14. CASE Resume(w)
  <2> DEFINE j == [k EXCEPT !.at = "recorded", !.id = k.hash]
  <2>1. j.at = "recorded" /\ j.coll = c
    BY <1>1 DEF WorkerStates
  <2>2. /\ UNCHANGED <<inFlight, dbVars, reviews, sweep>>
        /\ Goto(w, "recorded") \/ Become(w, j) \/ Enqueue(w, "record", NoHash)
    BY <1>14 DEF Resume, timerVars
  <2> HIDE DEF j
  <2> QED
    BY <1>4, <1>5, <1>8, <1>10, <2>1, <2>2
<1>15. CASE Submit(w)
  <2> DEFINE stage == IF StoresHash(k.call) THEN "saving" ELSE "polling"
             j == [k EXCEPT !.hash = Len(txs) + 1, !.at = stage]
  <2>1. j.at # "idle" /\ j.coll = c
    BY <1>1 DEF WorkerStates
  <2>2. Become(w, j) /\ UNCHANGED <<inFlight, dbVars, reviews, sweep>>
    BY <1>15 DEF Submit, timerVars
  <2> HIDE DEF j
  <2> QED
    BY <1>4, <1>10, <2>1, <2>2
<1>16. CASE Confirmed(w)
  <2> DEFINE j == [k EXCEPT !.at = After(k.call), !.call = "none",
                            !.id = IF k.call = "record" THEN k.hash ELSE k.id]
  <2>1. After(k.call) # "idle"
    BY <1>16 DEF Confirmed, TypeInv, WorkerShape, Calls, After
  <2>2. j.at = After(k.call) /\ j.coll = c
    BY <1>1 DEF WorkerStates
  <2>3. Become(w, j) /\ UNCHANGED <<inFlight, dbVars, reviews, sweep>>
    BY <1>16 DEF Confirmed, timerVars
  <2> HIDE DEF j
  <2> QED
    BY <1>4, <1>10, <2>1, <2>2, <2>3
<1>17. CASE SaveHash(w)
  <2> DEFINE r == IF k.call = "record" THEN [row[c] EXCEPT !.chainRecordTxHash = k.hash]
                  ELSE row[c]
  <2>1. /\ r.verified = row[c].verified /\ r.chainAttempts = row[c].chainAttempts
        /\ r.chainStatus = row[c].chainStatus
    BY <1>2 DEF Rows
  <2>2. Write(c, r) /\ Goto(w, "polling") /\ UNCHANGED <<inFlight, reviews, sweep>>
    BY <1>17 DEF SaveHash, timerVars
  <2> HIDE DEF r
  <2>3. Saves(r) /\ Goes
    BY <1>5, <1>7, <2>2
  <2> QED
    BY <1>11, <2>1, <2>2, <2>3
<1>18. CASE SaveRecorded(w)
  <2> DEFINE r == [row[c] EXCEPT !.chainTransactionId = k.id, !.chainStatus = "RECORDED"]
  <2>1. /\ r.verified = row[c].verified /\ r.chainAttempts = row[c].chainAttempts
        /\ r.chainStatus = "RECORDED"
    BY <1>2 DEF Rows
  <2>2. /\ Write(c, r) /\ UNCHANGED <<inFlight, reviews, sweep>>
        /\ Goto(w, "verified") \/ Enqueue(w, "verify", k.id)
    BY <1>18 DEF SaveRecorded, timerVars
  <2> HIDE DEF r
  <2>3. Saves(r) /\ Goes
    BY <1>5, <1>7, <1>8, <2>2
  <2> QED
    BY <1>11, <2>1, <2>2, <2>3
<1>19. CASE SaveVerified(w)
  <2> DEFINE r == [row[c] EXCEPT !.chainStatus = "VERIFIED"]
  <2>1. /\ r.verified = row[c].verified /\ r.chainAttempts = row[c].chainAttempts
        /\ r.chainStatus = "VERIFIED"
    BY <1>2 DEF Rows
  <2>2. /\ Write(c, r) /\ UNCHANGED <<inFlight, reviews, sweep>>
        /\ Goto(w, "payment") \/ Enqueue(w, "pay", k.id)
    BY <1>19 DEF SaveVerified, timerVars
  <2> HIDE DEF r
  <2>3. Saves(r) /\ Goes
    BY <1>5, <1>7, <1>8, <2>2
  <2> QED
    BY <1>11, <2>1, <2>2, <2>3
<1>20. CASE SavePaymentId(w)
  <2>1. /\ Write(c, row[c]) /\ UNCHANGED <<inFlight, reviews, sweep>>
        /\ Goto(w, "paid") \/ Enqueue(w, "complete", k.id)
    BY <1>20 DEF SavePaymentId, timerVars
  <2>2. Saves(row[c]) /\ Goes
    BY <1>5, <1>7, <1>8, <2>1
  <2> QED
    BY <1>11, <2>1, <2>2
<1>21. CASE SavePaid(w)
  <2> DEFINE r == [row[c] EXCEPT !.chainStatus = "PAID"]
  <2>1. /\ r.verified = row[c].verified /\ r.chainAttempts = row[c].chainAttempts
        /\ r.chainStatus = "PAID"
    BY <1>2 DEF Rows
  <2>2. Write(c, r) /\ Release(w) /\ UNCHANGED <<reviews, sweep>>
    BY <1>21 DEF SavePaid, timerVars
  <2> HIDE DEF r
  <2>3. Saves(r) /\ Ends
    BY <1>6, <1>7, <2>2
  <2> QED
    BY <1>11, <2>1, <2>2, <2>3
<1>22. CASE CatchSave(w)
  <2> DEFINE r == [row[c] EXCEPT !.chainStatus = "FAILED", !.chainAttempts = @ + 1]
  <2>1. /\ r.verified = row[c].verified /\ r.chainAttempts = row[c].chainAttempts + 1
        /\ r.chainStatus = "FAILED"
    BY <1>2 DEF Rows
  <2>2. /\ Write(c, r) \/ UNCHANGED dbVars
        /\ Release(w) /\ UNCHANGED <<reviews, sweep>>
    BY <1>22 DEF CatchSave, timerVars
  <2> HIDE DEF r
  <2>3. Ends /\ (Saves(r) \/ UNCHANGED dbVars)
    BY <1>6, <1>7, <2>2
  <2> QED
    BY <1>10, <1>12, <2>1, <2>2, <2>3
<1>23. CASE CatchFails(w)
  <2>1. Release(w) /\ UNCHANGED <<dbVars, reviews, sweep>>
    BY <1>23 DEF CatchFails, timerVars
  <2> QED
    BY <1>6, <1>10, <2>1
<1>24. CASE SubmitRefused(w) \/ NotConfirmed(w) \/ SaveFails(w) \/ Fault(w) \/ SubmitUnanswered(w)
  <2>1. Throw(w) /\ UNCHANGED <<inFlight, dbVars, reviews, sweep>>
    BY <1>24 DEF SubmitRefused, NotConfirmed, SaveFails, Fault, SubmitUnanswered, timerVars
  <2> QED
    BY <1>9, <1>10, <2>1
<1> QED
  BY <1>13, <1>14, <1>15, <1>16, <1>17, <1>18, <1>19, <1>20, <1>21, <1>22, <1>23, <1>24
     DEF WorkerStep, Failure

\* process(c) starts a call that has read nothing yet, or finds one running.
LEMMA ProcessStarts ==
  ASSUME TypeInv, NEW w \in Workers, NEW c \in Collections, Process(w, c)
  PROVE  /\ \A v \in Workers : v # w => worker'[v] = worker[v]
         /\ \/ inFlight' = inFlight /\ worker' = worker
            \/ /\ c \notin inFlight /\ inFlight' = inFlight \cup {c}
               /\ worker'[w].at = "reading" /\ worker'[w].coll = c /\ worker'[w].id = NoHash
<1> DEFINE k == [NoWork EXCEPT !.at = "reading", !.coll = c]
<1>1. k.at = "reading" /\ k.coll = c /\ k.id = NoHash
  BY DEF NoWork
<1>2. CASE Running(c)
  BY <1>2 DEF Process
<1>3. CASE ~Running(c)
  <2>1. Become(w, k) /\ inFlight' = inFlight \cup {c} /\ c \notin inFlight
    BY <1>3 DEF Process, StartWorker, Running
  <2> HIDE DEF k
  <2> QED
    BY <1>1, <2>1 DEF Become, TypeInv, TypeOK
<1> QED
  BY <1>2, <1>3

-----------------------------------------------------------------------------
(* Third invariant: nobody is at work on a collection that is paid, but a  *)
(* call that failed before it had read the row.                            *)

\* A call that has read its row found it unpaid, and only that call pays it; one that could
\* not read it knows nothing of it.
BusyInv ==
  \A w \in Workers :
    /\ worker[w].at = "reading" => worker[w].id = NoHash
    /\ worker[w].at \notin {"idle", "reading"} /\ row[worker[w].coll].chainStatus = "PAID"
         => Blind(w) /\ faults > 0

PaidStay == \A c \in Collections : ~ PaidLost(c)

\* A call reads its row once.
LEMMA ReadsOnce ==
  ASSUME TypeInv, NEW w \in Workers, WorkerStep(w) \/ Failure(w)
  PROVE  worker'[w].at # "reading"
<1> DEFINE k == worker[w]
<1>1. k \in WorkerStates /\ worker \in [Workers -> WorkerStates]
  BY DEF TypeInv, TypeOK
<1>2. ASSUME NEW j, Become(w, j), j.at # "reading" PROVE worker'[w].at # "reading"
  BY <1>1, <1>2 DEF Become
<1>3. ASSUME NEW stage, stage # "reading", Goto(w, stage) PROVE worker'[w].at # "reading"
  <2> DEFINE j == [k EXCEPT !.at = stage]
  <2>1. j.at = stage /\ Become(w, j)
    BY <1>1, <1>3 DEF Goto, WorkerStates
  <2> HIDE DEF j
  <2> QED
    BY <1>2, <1>3, <2>1
<1>4. ASSUME Release(w) PROVE worker'[w].at # "reading"
  BY <1>2, <1>4 DEF Release, NoWork
<1>5. ASSUME NEW call, NEW id, Enqueue(w, call, id) PROVE worker'[w].at # "reading"
  <2> DEFINE j == [k EXCEPT !.at = "queued", !.call = call, !.id = id]
  <2>1. j.at = "queued" /\ Become(w, j)
    BY <1>1, <1>5 DEF Enqueue, WorkerStates
  <2> HIDE DEF j
  <2> QED
    BY <1>2, <2>1
<1>6. ASSUME Throw(w) PROVE worker'[w].at # "reading"
  BY <1>3, <1>6 DEF Throw
<1>7. CASE ReadRow(w)
  <2> DEFINE j == [k EXCEPT !.at = "preparing", !.id = row[k.coll].chainTransactionId,
                            !.hash = row[k.coll].chainRecordTxHash]
  <2>1. j.at = "preparing"
    BY <1>1 DEF WorkerStates
  <2>2. Become(w, j) \/ Release(w)
    BY <1>7 DEF ReadRow
  <2> HIDE DEF j
  <2> QED
    BY <1>2, <1>4, <2>1, <2>2
<1>8. CASE Resume(w)
  <2> DEFINE j == [k EXCEPT !.at = "recorded", !.id = k.hash]
  <2>1. j.at = "recorded"
    BY <1>1 DEF WorkerStates
  <2>2. Goto(w, "recorded") \/ Become(w, j) \/ Enqueue(w, "record", NoHash)
    BY <1>8 DEF Resume
  <2> HIDE DEF j
  <2> QED
    BY <1>2, <1>3, <1>5, <2>1, <2>2
<1>9. CASE Submit(w)
  <2> DEFINE stage == IF StoresHash(k.call) THEN "saving" ELSE "polling"
             j == [k EXCEPT !.hash = Len(txs) + 1, !.at = stage]
  <2>1. j.at = stage
    BY <1>1 DEF WorkerStates
  <2>2. Become(w, j)
    BY <1>9 DEF Submit
  <2> HIDE DEF j
  <2> QED
    BY <1>2, <2>1, <2>2
<1>10. CASE Confirmed(w)
  <2> DEFINE j == [k EXCEPT !.at = After(k.call), !.call = "none",
                            !.id = IF k.call = "record" THEN k.hash ELSE k.id]
  <2>1. k.call \in Calls
    BY <1>10 DEF Confirmed, TypeInv, WorkerShape
  <2>2. After(k.call) # "reading"
    BY <2>1 DEF After, Calls
  <2>3. j.at = After(k.call)
    BY <1>1 DEF WorkerStates
  <2>4. Become(w, j)
    BY <1>10 DEF Confirmed
  <2> HIDE DEF j
  <2> QED
    BY <1>2, <2>2, <2>3, <2>4
<1>11. CASE SaveHash(w)
  BY <1>3, <1>11 DEF SaveHash
<1>12. CASE SaveRecorded(w) \/ SaveVerified(w) \/ SavePaymentId(w)
  BY <1>3, <1>5, <1>12 DEF SaveRecorded, SaveVerified, SavePaymentId
<1>13. CASE SavePaid(w) \/ CatchSave(w) \/ CatchFails(w)
  BY <1>4, <1>13 DEF SavePaid, CatchSave, CatchFails
<1>14. CASE SubmitRefused(w) \/ NotConfirmed(w) \/ SaveFails(w) \/ SubmitUnanswered(w) \/ Fault(w)
  BY <1>6, <1>14 DEF SubmitRefused, NotConfirmed, SaveFails, SubmitUnanswered, Fault
<1> QED
  BY <1>7, <1>8, <1>9, <1>10, <1>11, <1>12, <1>13, <1>14 DEF WorkerStep, Failure

\* A call that has its row still to read reads it, or fails knowing nothing.
LEMMA ReadsOrFails ==
  ASSUME TypeInv, NEW w \in Workers, WorkerStep(w) \/ Failure(w), worker[w].at = "reading"
  PROVE  /\ row' = row
         /\ \/ row[worker[w].coll].chainStatus # "PAID"
            \/ worker'[w].at = "idle"
            \/ worker'[w].at = "failed" /\ worker'[w].id = worker[w].id /\ faults' > 0
<1>1. worker \in [Workers -> WorkerStates] /\ faults \in Nat
  BY DEF TypeInv, TypeOK
<1>2. CASE ReadRow(w)
  <2>1. row' = row
    BY <1>2 DEF ReadRow, dbVars
  <2>2. ToRun(row[worker[w].coll]) \/ Release(w)
    BY <1>2 DEF ReadRow
  <2>3. Release(w) => worker'[w].at = "idle"
    BY <1>1 DEF Release, Become, NoWork
  <2>4. ToRun(row[worker[w].coll]) => row[worker[w].coll].chainStatus # "PAID"
    BY DEF ToRun
  <2> QED
    BY <2>1, <2>2, <2>3, <2>4
<1>3. CASE Fault(w)
  <2>1. row' = row /\ faults' > 0 /\ Goto(w, "failed")
    BY <1>1, <1>3 DEF Fault, Throw, dbVars
  <2> DEFINE j == [worker[w] EXCEPT !.at = "failed"]
  <2>2. j.at = "failed" /\ j.id = worker[w].id
    BY <1>1 DEF WorkerStates
  <2>3. worker'[w] = j
    BY <1>1, <2>1 DEF Goto, Become
  <2> HIDE DEF j
  <2> QED
    BY <2>1, <2>2, <2>3
<1> QED
  BY <1>2, <1>3
     DEF WorkerStep, Failure, Resume, Submit, SubmitRefused, SaveHash, Confirmed, NotConfirmed,
         SaveRecorded, SaveVerified, SavePaymentId, SavePaid, SaveFails, CatchSave,
         SubmitUnanswered, CatchFails

\* Failures are only ever counted.
LEMMA FaultsGrow ==
  ASSUME TypeInv, NEW w \in Workers, WorkerStep(w) \/ Failure(w)
  PROVE  faults > 0 => faults' > 0
<1>1. faults \in Nat
  BY DEF TypeInv, TypeOK
<1>2. CASE WorkerStep(w)
  BY <1>2 DEF WorkerStep, ReadRow, Resume, Submit, SubmitRefused, SaveHash, Confirmed,
     NotConfirmed, SaveRecorded, SaveVerified, SavePaymentId, SavePaid, SaveFails, CatchSave,
     budgetVars
<1>3. CASE Failure(w)
  BY <1>1, <1>3 DEF Failure, SubmitUnanswered, Fault, CatchFails
<1> QED
  BY <1>2, <1>3

\* A step of a call, or a failure of what it awaits.
LEMMA WorkerKeepsPaid ==
  ASSUME TypeInv, CallInv, BusyInv, NEW w \in Workers, WorkerStep(w) \/ Failure(w)
  PROVE  BusyInv' /\ \A d \in Collections : PaidLost(d) => LostToFailedRead(d)
<1> DEFINE c == worker[w].coll
<1>1. worker[w].at # "idle" /\ c \in Collections /\ WorkerEffect(w)
  BY WorkerDoes
<1>2. /\ \A d \in Collections : d # c => row'[d] = row[d]
      /\ \A v \in Workers : v # w => worker'[v] = worker[v]
      /\ worker'[w].at # "idle" => worker'[w].coll = c
  BY <1>1 DEF WorkerEffect
<1>3. \A v \in Workers : v # w /\ worker[v].at # "idle" =>
         worker[v].coll # c /\ worker[v].coll \in Collections
  BY <1>1 DEF CallInv, TypeInv, TypeOK, WorkerShape
<1>4. faults > 0 => faults' > 0
  BY FaultsGrow
<1>5. ASSUME NEW v \in Workers, v # w
      PROVE  /\ worker'[v].at = "reading" => worker'[v].id = NoHash
             /\ worker'[v].at \notin {"idle", "reading"}
                  /\ row'[worker'[v].coll].chainStatus = "PAID"
                  => Blind(v)' /\ faults' > 0
  <2>1. worker'[v] = worker[v]
    BY <1>2, <1>5
  <2>2. worker[v].at # "idle" => row'[worker[v].coll] = row[worker[v].coll]
    BY <1>2, <1>3, <1>5
  <2> QED
    BY <1>4, <2>1, <2>2 DEF BusyInv, Blind
<1>6. /\ worker'[w].at # "reading"
      /\ worker'[w].at # "idle" /\ row'[c].chainStatus = "PAID" => Blind(w)' /\ faults' > 0
      /\ PaidLost(c) => LostToFailedRead(c)
  <2>1. worker'[w].at # "reading"
    BY ReadsOnce
  <2>2. CASE worker[w].at = "reading"
    <3>1. worker[w].id = NoHash
      BY <2>2 DEF BusyInv
    <3> QED
      BY <2>1, <2>2, <3>1, ReadsOrFails DEF Blind, PaidLost
  <2>3. CASE worker[w].at # "reading"
    <3>1. row[c].chainStatus = "PAID" => Blind(w) /\ faults > 0
      BY <1>1, <2>3 DEF BusyInv
    <3>2. Blind(w) => worker'[w].at = "idle"
      <4>1. Blind(w) => CatchSave(w) \/ CatchFails(w)
        BY DEF Blind, WorkerStep, ReadRow, Resume, Submit, SubmitRefused, SaveHash, Confirmed,
           NotConfirmed, SaveRecorded, SaveVerified, SavePaymentId, SavePaid, SaveFails, Failure,
           SubmitUnanswered, Fault
      <4>2. CatchSave(w) \/ CatchFails(w) => worker'[w].at = "idle"
        BY DEF CatchSave, CatchFails, Release, Become, NoWork, TypeInv, TypeOK
      <4> QED
        BY <4>1, <4>2
    <3>3. row'[c].chainStatus = "PAID" => row[c].chainStatus = "PAID" \/ worker'[w].at = "idle"
      BY <1>1 DEF WorkerEffect
    <3>4. PaidLost(c) => row'[c].chainStatus = "FAILED"
      <4>1. CatchSave(w) \/ CatchFails(w) =>
              row'[c].chainStatus = row[c].chainStatus \/ row'[c].chainStatus = "FAILED"
        <5> DEFINE r == [row[c] EXCEPT !.chainStatus = "FAILED", !.chainAttempts = @ + 1]
        <5>1. row \in [Collections -> Rows] /\ r.chainStatus = "FAILED"
          BY <1>1 DEF TypeInv, TypeOK, Rows
        <5>2. CatchSave(w) \/ CatchFails(w) => Write(c, r) \/ row' = row
          BY DEF CatchSave, CatchFails, dbVars
        <5> HIDE DEF r
        <5>3. Write(c, r) => row'[c] = r
          BY <1>1, <5>1 DEF Write
        <5> QED
          BY <5>1, <5>2, <5>3
      <4>2. PaidLost(c) => CatchSave(w) \/ CatchFails(w)
        BY <3>1 DEF PaidLost, Blind, WorkerStep, ReadRow, Resume, Submit, SubmitRefused, SaveHash,
           Confirmed, NotConfirmed, SaveRecorded, SaveVerified, SavePaymentId, SavePaid,
           SaveFails, Failure, SubmitUnanswered, Fault
      <4> QED
        BY <4>1, <4>2 DEF PaidLost
    <3> QED
      BY <2>1, <3>1, <3>2, <3>3, <3>4 DEF PaidLost, LostToFailedRead
  <2> QED
    BY <2>2, <2>3
<1>7. BusyInv'
  BY <1>2, <1>5, <1>6 DEF BusyInv, Workers
<1>8. \A d \in Collections : PaidLost(d) => LostToFailedRead(d)
  BY <1>2, <1>6 DEF PaidLost
<1> QED
  BY <1>7, <1>8

\* Nobody pays a row, and a call that starts has its row still to read.
LEMMA BusyStays ==
  ASSUME TypeInv, BusyInv, faults > 0 => faults' > 0,
         \A d \in Collections :
           row'[d].chainStatus = "PAID" => row[d].chainStatus = "PAID",
         \A w \in Workers :
           worker'[w] = worker[w] \/ (worker'[w].at = "reading" /\ worker'[w].id = NoHash)
  PROVE  BusyInv'
<1> SUFFICES ASSUME NEW w \in Workers
             PROVE  /\ worker'[w].at = "reading" => worker'[w].id = NoHash
                    /\ worker'[w].at \notin {"idle", "reading"}
                         /\ row'[worker'[w].coll].chainStatus = "PAID"
                         => Blind(w)' /\ faults' > 0
  BY DEF BusyInv, Workers
<1>1. CASE worker'[w] = worker[w]
  <2>1. worker[w].at # "idle" => worker[w].coll \in Collections
    BY DEF TypeInv, TypeOK, WorkerShape
  <2> QED
    BY <1>1, <2>1 DEF BusyInv, Blind
<1>2. CASE worker'[w].at = "reading" /\ worker'[w].id = NoHash
  BY <1>2
<1> QED
  BY <1>1, <1>2

\* A review keeps the invariant: an approval takes a row away from PAID.
LEMMA RequestKeepsPaid ==
  ASSUME TypeInv, CallInv, BusyInv, NEW c \in Collections, Request(c)
  PROVE  BusyInv' /\ \A d \in Collections : PaidLost(d) => LostToApproval(d)
<1>1. row \in [Collections -> Rows] /\ reviews \in [Collections -> Nat]
  BY DEF TypeInv, TypeOK
<1>2. UNCHANGED faults
  BY DEF Request, VerifyRead, Approve, Reject, ReviewFails, Delete, budgetVars
<1>3. ASSUME \A d \in Collections : row'[d].chainStatus = row[d].chainStatus, worker' = worker
      PROVE  BusyInv' /\ PaidStay
  BY <1>2, <1>3, BusyStays DEF PaidStay, PaidLost
<1>4. CASE VerifyRead(c) \/ ReviewFails(c)
  BY <1>3, <1>4 DEF VerifyRead, ReviewFails, dbVars, PaidStay
<1>5. CASE Reject(c)
  <2> DEFINE r == [row[c] EXCEPT !.verified = TRUE, !.paymentStatus = "CANCELLED"]
  <2>1. r.chainStatus = row[c].chainStatus
    BY <1>1 DEF Rows
  <2>2. row' = [row EXCEPT ![c] = r] /\ worker' = worker
    BY <1>5 DEF Reject, Write
  <2> HIDE DEF r
  <2>3. \A d \in Collections : row'[d].chainStatus = row[d].chainStatus
    BY <1>1, <2>1, <2>2
  <2> QED
    BY <1>3, <2>2, <2>3 DEF PaidStay
<1>6. CASE Delete(c)
  <2>1. \A d \in Collections : row'[d].chainStatus = row[d].chainStatus
    BY <1>1, <1>6 DEF Delete, Rows
  <2>2. worker' = worker
    BY <1>6 DEF Delete
  <2> QED
    BY <1>3, <2>1, <2>2 DEF PaidStay
<1>7. CASE Approve(c)
  <2> DEFINE r == [row[c] EXCEPT !.verified = TRUE, !.chainStatus = "PENDING"]
  <2>1. r.chainStatus = "PENDING"
    BY <1>1 DEF Rows
  <2>2. /\ row' = [row EXCEPT ![c] = r] /\ Process(c, c)
        /\ reviews[c] > 0 /\ reviews' = [reviews EXCEPT ![c] = @ - 1]
    BY <1>7 DEF Approve, Write, Reviewed
  <2> HIDE DEF r
  <2>3. row'[c].chainStatus = "PENDING" /\ \A d \in Collections : d # c => row'[d] = row[d]
    BY <1>1, <2>1, <2>2
  <2>4. LostToApproval(c)
    BY <1>1, <2>2 DEF LostToApproval
  <2>5. c \in Workers
    BY DEF Workers
  <2>6. \A w \in Workers :
          worker'[w] = worker[w] \/ (worker'[w].at = "reading" /\ worker'[w].id = NoHash)
    BY <2>2, <2>5, ProcessStarts
  <2>7. BusyInv'
    BY <1>2, <2>3, <2>6, BusyStays
  <2> QED
    BY <2>3, <2>4, <2>7 DEF PaidLost
<1> QED
  BY <1>4, <1>5, <1>6, <1>7 DEF Request, PaidStay

\* A sweep only starts calls.
LEMMA SweepKeepsPaid ==
  ASSUME TypeInv, CallInv, BusyInv, NEW s \in Sweeps, SweepStep(s) \/ ListFails(s)
  PROVE  BusyInv' /\ row' = row
<1>1. row' = row
  BY DEF SweepStep, Tick, List, SweepNext, SweepEnds, ListFails, dbVars
<1>2. faults > 0 => faults' > 0
  BY DEF SweepStep, Tick, List, SweepNext, SweepEnds, ListFails, budgetVars, TypeInv, TypeOK
<1>3. CASE SweepNext(s)
  <2>1. sweep[s].due \in Seq(Collections) /\ sweep[s].due # <<>>
    BY <1>3 DEF SweepNext, TypeInv, TypeOK, SweepStates
  <2>2. PICK c \in Collections : c = Head(sweep[s].due)
    BY <2>1, HeadTailProperties
  <2>3. s \in Workers /\ Process(s, c)
    BY <1>3, <2>2 DEF SweepNext, Workers
  <2>4. \A w \in Workers :
          worker'[w] = worker[w] \/ (worker'[w].at = "reading" /\ worker'[w].id = NoHash)
    BY <2>3, ProcessStarts
  <2> QED
    BY <1>1, <1>2, <2>4, BusyStays
<1>4. CASE Tick(s) \/ List(s) \/ SweepEnds(s) \/ ListFails(s)
  <2>1. worker' = worker
    BY <1>4 DEF Tick, List, SweepEnds, ListFails
  <2> QED
    BY <1>1, <1>2, <2>1, BusyStays
<1> QED
  BY <1>1, <1>3, <1>4 DEF SweepStep

\* PAID is lost to the approval of another review, or else to one thing only: a call of process()
\* that came too late, whose findUnique threw, and whose catch block writes FAILED without having
\* seen the row.  Whatever restarts, deletions, sweeps, lost answers and other failures come
\* between, no call that knows the collection takes PAID away.
THEOREM PaidIsLostUnseen == Spec => PaidIsLostBlindly
<1> DEFINE Kept == \A c \in Collections : PaidLost(c) => LostToApproval(c) \/ LostToFailedRead(c)
<1>1. Init => BusyInv
  BY DEF Init, BusyInv, NoWork
<1>2. TypeInv /\ CallInv /\ BusyInv /\ [Next]_vars => BusyInv' /\ Kept
  <2> SUFFICES ASSUME TypeInv, CallInv, BusyInv, [Next]_vars PROVE BusyInv' /\ Kept
    OBVIOUS
  <2>1. faults \in Nat
    BY DEF TypeInv, TypeOK
  <2>2. ASSUME NEW w \in Workers, WorkerStep(w) \/ Failure(w) PROVE BusyInv' /\ Kept
    BY <2>2, WorkerKeepsPaid
  <2>3. ASSUME UNCHANGED <<row, worker>>, faults > 0 => faults' > 0 PROVE BusyInv' /\ Kept
    BY <2>3 DEF BusyInv, Blind, PaidLost
  <2>4. CASE CrashRestart
    <3>1. row' = row /\ \A w \in Workers : worker'[w] = NoWork
      BY <2>4 DEF CrashRestart, dbVars
    <3> QED
      BY <3>1 DEF BusyInv, NoWork, PaidLost
  <2>5. CASE Network \/ NetworkFault \/ Time \/ UNCHANGED vars
    <3>1. UNCHANGED <<row, worker>>
      BY <2>5 DEF Network, NetworkFault, Time, serviceVars, dbVars, vars
    <3>2. faults > 0 => faults' > 0
      BY <2>1, <2>5 DEF Network, NetworkFault, Time, budgetVars, vars
    <3> QED
      BY <2>3, <3>1, <3>2
  <2>6. ASSUME NEW s \in Sweeps, SweepStep(s) \/ ListFails(s) PROVE BusyInv' /\ Kept
    BY <2>6, SweepKeepsPaid DEF PaidLost
  <2> QED
    BY <2>2, <2>4, <2>5, <2>6, RequestKeepsPaid DEF Next
<1>3. TypeInv /\ CallInv /\ [Next]_vars => (TypeInv /\ CallInv)'
  BY NextTypeInv, NextCallInv
<1>4. Init => TypeInv /\ CallInv
  BY InitTypeInv, InitCallInv
<1> QED
  BY <1>1, <1>2, <1>3, <1>4, PTL DEF Spec, PaidIsLostBlindly

\* PAID is final as long as no call fails: only the approval of another review moves a
\* collection back.
THEOREM PaidStaysPaid ==
  ASSUME MaxFaults = 0 PROVE Spec => PaidIsFinal
<1>1. TypeInv => ~ (faults > 0)
  BY DEF TypeInv, TypeOK
<1>2. Init => TypeInv
  BY InitTypeInv
<1>3. TypeInv /\ [Next]_vars => TypeInv'
  BY NextTypeInv
<1>4. ASSUME TypeInv, [\A c \in Collections :
                         PaidLost(c) => LostToApproval(c) \/ LostToFailedRead(c)]_vars
      PROVE  [\A c \in Collections : PaidLost(c) => LostToApproval(c)]_vars
  BY <1>1, <1>4 DEF LostToFailedRead
<1> QED
  BY <1>2, <1>3, <1>4, PaidIsLostUnseen, PTL DEF Spec, PaidIsFinal, PaidIsLostBlindly

-----------------------------------------------------------------------------
(* Fourth invariant: what rows, transactions and workers know of the       *)
(* ledger.                                                                 *)

Stored(c) == row[c].chainTransactionId

IsRecordTx(h, c) == h \in 1..Len(txs) /\ txs[h].call = "record" /\ txs[h].coll = c

\* A row names a record of its collection, and its status is backed by it.
RowOK(c) ==
  LET r == row[c]
      id == r.chainTransactionId
  IN  /\ id # NoHash => IsRecordOf(id, c)
      /\ r.chainStatus \in {"RECORDED", "VERIFIED", "PAID"} => id # NoHash
      /\ r.chainStatus \in {"VERIFIED", "PAID"} => id \in verifiedOn
      /\ r.chainStatus = "PAID" => id \in minted
      /\ r.chainRecordTxHash # NoHash => IsRecordTx(r.chainRecordTxHash, c)

\* A transaction that is not a record is about the record its row names, and
\* one that succeeded had its effect.
TxOK(h) ==
  LET tx == txs[h]
  IN  /\ tx.call # "record" => tx.target # NoHash /\ tx.target = Stored(tx.coll)
      /\ tx.call \in {"pay", "complete"} => tx.target \in verifiedOn
      /\ tx.call = "verify" /\ tx.state = "success" => tx.target \in verifiedOn
      /\ tx.call = "complete" /\ tx.state = "success" => tx.target \in minted

\* A running call knows its collection's record: the one the row names if it
\* names one.  From verify_transaction on the row does.
WorkerOK(w) ==
  LET k == worker[w]
      c == k.coll
      calling(calls) == k.at \in {"queued", "saving", "polling"} /\ k.call \in calls
      known == k.at \in {"verified", "payment", "paid"}
  IN  /\ k.at \notin {"idle", "reading", "failed"} =>
           /\ Stored(c) # NoHash => k.id = Stored(c)
           /\ k.id # NoHash => IsRecordOf(k.id, c)
      /\ k.at = "preparing" /\ k.hash # NoHash => IsRecordTx(k.hash, c)
      /\ k.at = "recorded" => k.id # NoHash
      /\ calling({"record"}) => k.id = NoHash
      /\ known \/ calling({"verify", "pay", "complete"}) => k.id # NoHash /\ k.id = Stored(c)
      /\ known \/ calling({"pay", "complete"}) => k.id \in verifiedOn
      /\ k.at = "paid" => k.id \in minted
      /\ k.at \in {"saving", "polling"} =>
           /\ txs[k.hash].call = k.call
           /\ txs[k.hash].coll = c
           /\ txs[k.hash].target = k.id

\* Records that are the ones of their collections' rows.
OwnRecords(records) ==
  \A h \in records :
    \E c \in Collections : IsRecordOf(h, c) /\ h = row[c].chainTransactionId

MoneyInv ==
  /\ \A c \in Collections : RowOK(c)
  /\ \A h \in 1..Len(txs) : TxOK(h)
  /\ \A w \in Workers : WorkerOK(w)
  /\ OwnRecords(verifiedOn)
  /\ OwnRecords(minted)

\* The inductive invariant.
IInv == TypeInv /\ CallInv /\ MoneyInv

-----------------------------------------------------------------------------
(* What a step leaves alone.                                               *)

\* The fields of a call that goes on, and of the calls it does not touch.
LEMMA OthersStay ==
  ASSUME TypeInv, NEW w \in Workers, NEW k, Become(w, k)
  PROVE  worker'[w] = k /\ \A v \in Workers : v # w => worker'[v] = worker[v]
BY DEF Become, TypeInv, TypeOK

\* A call that only moves on keeps its other fields.
LEMMA GotoFields ==
  ASSUME TypeInv, NEW w \in Workers, NEW stage, Goto(w, stage)
  PROVE  /\ worker'[w].at = stage
         /\ worker'[w].coll = worker[w].coll
         /\ worker'[w].call = worker[w].call
         /\ worker'[w].id = worker[w].id
         /\ worker'[w].hash = worker[w].hash
         /\ \A v \in Workers : v # w => worker'[v] = worker[v]
BY OthersStay, SMTT(30) DEF Goto, TypeInv, TypeOK, WorkerStates

\* What a call is after it queued a submission.
LEMMA EnqueueFields ==
  ASSUME TypeInv, NEW w \in Workers, NEW call, NEW id, Enqueue(w, call, id)
  PROVE  /\ worker'[w].at = "queued"
         /\ worker'[w].coll = worker[w].coll
         /\ worker'[w].call = call
         /\ worker'[w].id = id
         /\ \A v \in Workers : v # w => worker'[v] = worker[v]
<1> DEFINE k == [worker[w] EXCEPT !.at = "queued", !.call = call, !.id = id]
<1>1. /\ k.at = "queued" /\ k.call = call /\ k.id = id
      /\ k.coll = worker[w].coll
  BY DEF TypeInv, TypeOK, WorkerStates
<1>2. Become(w, k)
  BY DEF Enqueue
<1> HIDE DEF k
<1> QED
  BY <1>1, <1>2, OthersStay

\* A transaction has its type and its collection.
LEMMA TxType ==
  ASSUME TypeInv, NEW h \in 1..Len(txs)
  PROVE  txs[h] \in Transactions /\ txs[h].coll \in Collections
<1>1. txs \in Seq(Transactions)
  BY DEF TypeInv, TypeOK, LedgerTypeOK
<1>2. txs[h] \in Transactions
  BY <1>1, ElementOfSeq
<1> QED
  BY <1>2 DEF Transactions

\* The ledger id of a row changes only from none, and only for the collection
\* of the running call w.
StoresOnly(w, c) ==
  Stored(c)' = Stored(c) \/ (Stored(c) = NoHash /\ worker[w].at # "idle" /\ worker[w].coll = c)

\* A step of the service that submits nothing: the ledger stays, at most one
\* row is written, at most one call changes.
LEMMA ServiceStep ==
  ASSUME IInv, NEW w \in Workers, NEW c \in Collections,
         UNCHANGED <<txs, verifiedOn, minted>>,
         \A v \in Workers : v # w => worker'[v] = worker[v],
         \A d \in Collections : d # c => row'[d] = row[d],
         RowOK(c)', WorkerOK(w)', StoresOnly(w, c)
  PROVE  MoneyInv'
<1>1. \A d \in Collections : RowOK(d)'
  BY DEF IInv, MoneyInv, RowOK, IsRecordOf, IsRecord, IsRecordTx
<1>2. \A d \in Collections : Stored(d) # NoHash => Stored(d)' = Stored(d)
  BY DEF StoresOnly, Stored
<1>3. ASSUME NEW h \in 1..Len(txs') PROVE TxOK(h)'
  <2>1. TxOK(h) /\ h \in 1..Len(txs)
    BY DEF IInv, MoneyInv
  <2>2. txs[h].coll \in Collections
    BY <2>1, TxType DEF IInv
  <2> QED
    BY <1>2, <2>1, <2>2 DEF TxOK
<1>4. ASSUME NEW v \in Workers PROVE WorkerOK(v)'
  <2>1. CASE v = w
    BY <2>1
  <2>2. CASE v # w /\ worker[v].at = "idle"
    <3>1. worker'[v].at = "idle"
      BY <2>2
    <3> QED
      BY <3>1 DEF WorkerOK
  <2>3. CASE v # w /\ worker[v].at # "idle"
    <3>1. worker'[v] = worker[v] /\ WorkerOK(v)
      BY <2>3 DEF IInv, MoneyInv
    <3>2. worker[v].coll \in Collections
      BY <2>3 DEF IInv, TypeInv, WorkerShape
    <3>3. worker[w].at # "idle" => worker[w].coll # worker[v].coll
      BY <2>3 DEF IInv, CallInv
    <3>4. Stored(worker[v].coll)' = row'[worker[v].coll].chainTransactionId
      BY <3>1 DEF Stored
    <3>5. row'[worker[v].coll].chainTransactionId = row[worker[v].coll].chainTransactionId
      BY <3>2, <3>3 DEF StoresOnly, Stored
    <3> QED
      BY <3>1, <3>4, <3>5 DEF WorkerOK, IsRecordOf, IsRecord, IsRecordTx, Stored
  <2> QED
    BY <2>1, <2>2, <2>3
<1>5. ASSUME NEW records, OwnRecords(records),
             NEW h \in records
      PROVE  \E d \in Collections : IsRecordOf(h, d)' /\ h = row'[d].chainTransactionId
  <2>1. PICK d \in Collections : IsRecordOf(h, d) /\ h = row[d].chainTransactionId
    BY <1>5 DEF OwnRecords
  <2>2. h # NoHash
    BY <2>1 DEF IsRecordOf, IsRecord, NoHash
  <2> QED
    BY <1>2, <2>1, <2>2 DEF Stored, IsRecordOf, IsRecord
<1>6. OwnRecords(verifiedOn)' /\ OwnRecords(minted)'
  BY <1>5 DEF IInv, MoneyInv, OwnRecords
<1> QED
  BY <1>1, <1>3, <1>4, <1>6 DEF MoneyInv

\* ... and it writes no row.
LEMMA CallStep ==
  ASSUME IInv, NEW w \in Workers, worker[w].at # "idle",
         UNCHANGED <<txs, verifiedOn, minted, row>>,
         \A v \in Workers : v # w => worker'[v] = worker[v], WorkerOK(w)'
  PROVE  MoneyInv'
<1>1. worker[w].coll \in Collections
  BY DEF IInv, TypeInv, WorkerShape
<1>2. RowOK(worker[w].coll)
  BY <1>1 DEF IInv, MoneyInv
<1>3. ASSUME NEW c \in Collections, RowOK(c) PROVE RowOK(c)' /\ StoresOnly(w, c)
  BY <1>3 DEF RowOK, IsRecordOf, IsRecord, IsRecordTx, StoresOnly, Stored
<1> QED
  BY <1>1, <1>2, <1>3, ServiceStep

-----------------------------------------------------------------------------
(* The running calls.                                                      *)

\* A call that returns, or has thrown, knows nothing any more.
LEMMA NothingKnown ==
  ASSUME NEW w \in Workers, worker'[w].at \in {"idle", "reading", "failed"}
  PROVE  WorkerOK(w)'
BY DEF WorkerOK

\* A call that returns changes no other.
LEMMA ReleaseFields ==
  ASSUME TypeInv, NEW w \in Workers, Release(w)
  PROVE  worker'[w].at = "idle" /\ \A v \in Workers : v # w => worker'[v] = worker[v]
<1>1. NoWork.at = "idle"
  BY DEF NoWork
<1>2. Become(w, NoWork)
  BY DEF Release
<1> QED
  BY <1>1, <1>2, OthersStay

\* An exception on the way to the catch block.
LEMMA ThrowMoney ==
  ASSUME IInv, NEW w \in Workers, worker[w].at # "idle", Throw(w),
         UNCHANGED <<txs, verifiedOn, minted, row>>
  PROVE  MoneyInv'
<1>1. worker'[w].at = "failed" /\ \A v \in Workers : v # w => worker'[v] = worker[v]
  BY GotoFields DEF Throw, IInv
<1>2. WorkerOK(w)'
  BY <1>1, NothingKnown
<1> QED
  BY <1>1, <1>2, CallStep

\* process() reads the row (line 127).
LEMMA ReadRowMoney ==
  ASSUME IInv, NEW w \in Workers, ReadRow(w)
  PROVE  MoneyInv'
<1> DEFINE k == worker[w]
           r == row[k.coll]
           j == [k EXCEPT !.at = "preparing", !.id = r.chainTransactionId,
                          !.hash = r.chainRecordTxHash]
<1>1. TypeInv /\ k.at = "reading" /\ UNCHANGED <<txs, verifiedOn, minted, row>>
  BY DEF IInv, ReadRow, ledgerVars, dbVars
<1>2. CASE Release(w)
  BY <1>1, <1>2, ReleaseFields, NothingKnown, CallStep
<1>3. CASE Become(w, j)
  <2>1. /\ j.at = "preparing" /\ j.coll = k.coll
        /\ j.id = r.chainTransactionId /\ j.hash = r.chainRecordTxHash
    BY <1>1 DEF TypeInv, TypeOK, WorkerStates
  <2> HIDE DEF j
  <2>2. worker'[w] = j /\ \A v \in Workers : v # w => worker'[v] = worker[v]
    BY <1>1, <1>3, OthersStay
  <2>3. RowOK(k.coll)
    BY <1>1 DEF IInv, MoneyInv, TypeInv, WorkerShape
  <2>4. WorkerOK(w)'
    BY <1>1, <2>1, <2>2, <2>3 DEF WorkerOK, RowOK, IsRecordOf, IsRecord, IsRecordTx, Stored
  <2> QED
    BY <1>1, <2>2, <2>4, CallStep
<1> QED
  BY <1>2, <1>3 DEF ReadRow

\* run() chooses the next call of the contract from the row it read.
LEMMA ResumeMoney ==
  ASSUME IInv, NEW w \in Workers, Resume(w)
  PROVE  MoneyInv'
<1> DEFINE k == worker[w]
           landed == k.hash # NoHash /\ Landed(k.hash)
           j == [k EXCEPT !.at = "recorded", !.id = k.hash]
<1>1. /\ TypeInv /\ WorkerOK(w) /\ k.at = "preparing"
      /\ UNCHANGED <<txs, verifiedOn, minted, row>>
  BY DEF IInv, MoneyInv, Resume, ledgerVars, dbVars
<1>2. /\ Stored(k.coll) # NoHash => k.id = Stored(k.coll)
      /\ k.id # NoHash => IsRecordOf(k.id, k.coll)
      /\ k.hash # NoHash => IsRecordTx(k.hash, k.coll)
  BY <1>1 DEF WorkerOK
<1>3. CASE k.id # NoHash /\ Goto(w, "recorded")
  <2>1. /\ worker'[w].at = "recorded" /\ worker'[w].coll = k.coll /\ worker'[w].id = k.id
        /\ \A v \in Workers : v # w => worker'[v] = worker[v]
    BY <1>1, <1>3, GotoFields
  <2>2. WorkerOK(w)'
    BY <1>1, <1>2, <1>3, <2>1 DEF WorkerOK, IsRecordOf, IsRecord, Stored
  <2> QED
    BY <1>1, <2>1, <2>2, CallStep
<1>4. CASE k.id = NoHash /\ landed /\ Become(w, j)
  <2>1. j.at = "recorded" /\ j.coll = k.coll /\ j.id = k.hash
    BY <1>1 DEF TypeInv, TypeOK, WorkerStates
  <2> HIDE DEF j
  <2>2. worker'[w] = j /\ \A v \in Workers : v # w => worker'[v] = worker[v]
    BY <1>1, <1>4, OthersStay
  <2>3. IsRecordOf(k.hash, k.coll) /\ Stored(k.coll) = NoHash
    BY <1>2, <1>4 DEF IsRecordOf, IsRecord, IsRecordTx, Landed
  <2>4. WorkerOK(w)'
    BY <1>1, <1>4, <2>1, <2>2, <2>3 DEF WorkerOK, IsRecordOf, IsRecord, Stored
  <2> QED
    BY <1>1, <2>2, <2>4, CallStep
<1>5. CASE k.id = NoHash /\ Enqueue(w, "record", NoHash)
  <2>1. /\ worker'[w].at = "queued" /\ worker'[w].coll = k.coll
        /\ worker'[w].call = "record" /\ worker'[w].id = NoHash
        /\ \A v \in Workers : v # w => worker'[v] = worker[v]
    BY <1>1, <1>5, EnqueueFields
  <2>2. WorkerOK(w)'
    BY <1>1, <1>2, <1>5, <2>1 DEF WorkerOK, Stored
  <2> QED
    BY <1>1, <2>1, <2>2, CallStep
<1> QED
  BY <1>3, <1>4, <1>5 DEF Resume

\* lookup() reports SUCCESS: what the transaction did is on the ledger.
LEMMA ConfirmedMoney ==
  ASSUME IInv, NEW w \in Workers, Confirmed(w)
  PROVE  MoneyInv'
<1> DEFINE k == worker[w]
           tx == txs[k.hash]
           j == [k EXCEPT !.at = After(k.call), !.call = "none",
                          !.id = IF k.call = "record" THEN k.hash ELSE k.id]
<1>1. /\ TypeInv /\ WorkerOK(w) /\ k.at = "polling" /\ Landed(k.hash) /\ Become(w, j)
      /\ UNCHANGED <<txs, verifiedOn, minted, row>>
  BY DEF IInv, MoneyInv, Confirmed, ledgerVars, dbVars
<1>2. k.call \in Calls /\ k.hash \in 1..Len(txs)
  BY <1>1 DEF TypeInv, WorkerShape
<1>3. TxOK(k.hash)
  BY <1>2 DEF IInv, MoneyInv
<1>4. /\ j.at = After(k.call) /\ j.coll = k.coll /\ j.call = "none"
      /\ j.id = IF k.call = "record" THEN k.hash ELSE k.id
  BY <1>1 DEF TypeInv, TypeOK, WorkerStates
<1> HIDE DEF j
<1>5. worker'[w] = j /\ \A v \in Workers : v # w => worker'[v] = worker[v]
  BY <1>1, OthersStay
<1>6. tx.call = k.call /\ tx.coll = k.coll /\ tx.target = k.id /\ tx.state = "success"
  BY <1>1 DEF WorkerOK, Landed
<1>7. /\ Stored(k.coll) # NoHash => k.id = Stored(k.coll)
      /\ k.id # NoHash => IsRecordOf(k.id, k.coll)
  BY <1>1 DEF WorkerOK
<1>8. ASSUME k.call = "record" PROVE WorkerOK(w)'
  <2>1. j.at = "recorded" /\ j.id = k.hash /\ j.id # NoHash
    BY <1>2, <1>4, <1>8 DEF After, NoHash
  <2>2. k.id = NoHash /\ Stored(k.coll) = NoHash
    BY <1>1, <1>7, <1>8 DEF WorkerOK
  <2>3. IsRecordOf(k.hash, k.coll)
    BY <1>2, <1>6, <1>8 DEF IsRecordOf, IsRecord
  <2> QED
    BY <1>1, <1>4, <1>5, <2>1, <2>2, <2>3 DEF WorkerOK, IsRecordOf, IsRecord, Stored
<1>9. ASSUME k.call \in {"verify", "pay", "complete"} PROVE WorkerOK(w)'
  <2>1. j.id = k.id /\ j.at = After(k.call)
    BY <1>4, <1>9
  <2>2. After(k.call) = IF k.call = "verify" THEN "verified"
                        ELSE IF k.call = "pay" THEN "payment" ELSE "paid"
    BY <1>9 DEF After
  <2>3. k.id # NoHash /\ k.id = Stored(k.coll)
    BY <1>1, <1>9 DEF WorkerOK
  <2>4. k.id \in verifiedOn
    BY <1>1, <1>3, <1>6, <1>9 DEF WorkerOK, TxOK
  <2>5. k.call = "complete" => k.id \in minted
    BY <1>3, <1>6 DEF TxOK
  <2> QED
    BY <1>1, <1>4, <1>5, <1>7, <1>9, <2>1, <2>2, <2>3, <2>4, <2>5
       DEF WorkerOK, IsRecordOf, IsRecord, Stored
<1>10. WorkerOK(w)'
  BY <1>2, <1>8, <1>9 DEF Calls
<1> QED
  BY <1>1, <1>5, <1>10, CallStep

-----------------------------------------------------------------------------
(* The saves.                                                              *)

\* A write of the row of the running call w.
LEMMA SaveMoney ==
  ASSUME IInv, NEW w \in Workers, worker[w].at # "idle",
         UNCHANGED <<txs, verifiedOn, minted>>,
         \A v \in Workers : v # w => worker'[v] = worker[v],
         NEW c \in Collections, c = worker[w].coll, NEW r, Write(c, r),
         WorkerOK(w)', RowOK(c)',
         r.chainTransactionId = Stored(c) \/ Stored(c) = NoHash
  PROVE  MoneyInv'
<1>1. row'[c] = r /\ \A d \in Collections : d # c => row'[d] = row[d]
  BY DEF Write, IInv, TypeInv, TypeOK
<1>2. Stored(c)' = r.chainTransactionId
  BY <1>1 DEF Stored
<1>3. StoresOnly(w, c)
  BY <1>2 DEF StoresOnly
<1> QED
  BY <1>1, <1>3, ServiceStep

\* The row that a save leaves: all but the field it names.
LEMMA WrittenRow ==
  ASSUME TypeInv, NEW c \in Collections, NEW r, Write(c, r)
  PROVE  row'[c] = r
BY DEF Write, TypeInv, TypeOK

\* onSubmitted stores the hash of the record.
LEMMA SaveHashMoney ==
  ASSUME IInv, NEW w \in Workers, SaveHash(w)
  PROVE  MoneyInv'
<1> DEFINE k == worker[w]
<1> PICK c \in Collections : c = k.coll
  BY DEF IInv, TypeInv, WorkerShape, SaveHash
<1> DEFINE r == IF k.call = "record" THEN [row[c] EXCEPT !.chainRecordTxHash = k.hash] ELSE row[c]
<1>1. /\ TypeInv /\ WorkerOK(w) /\ k.at = "saving" /\ Goto(w, "polling") /\ Write(c, r)
      /\ UNCHANGED <<txs, verifiedOn, minted>>
  BY DEF IInv, MoneyInv, SaveHash, ledgerVars
<1>2. c \in Collections /\ k.hash \in 1..Len(txs) /\ row[c] \in Rows
  BY <1>1 DEF TypeInv, TypeOK, WorkerShape
<1>3. /\ r.chainTransactionId = row[c].chainTransactionId
      /\ r.chainStatus = row[c].chainStatus
      /\ r.chainRecordTxHash = IF k.call = "record" THEN k.hash ELSE row[c].chainRecordTxHash
  BY <1>2 DEF Rows
<1> HIDE DEF r
<1>4. row'[c] = r
  BY <1>1, <1>2, WrittenRow
<1>5. k.call = "record" => IsRecordTx(k.hash, c)
  BY <1>1, <1>2 DEF WorkerOK, IsRecordTx
<1>6. RowOK(c)
  BY <1>2 DEF IInv, MoneyInv
<1>7. RowOK(c)'
  BY <1>1, <1>3, <1>4, <1>5, <1>6 DEF RowOK, IsRecordOf, IsRecord, IsRecordTx
<1>8. /\ worker'[w].at = "polling" /\ worker'[w].coll = c /\ worker'[w].call = k.call
      /\ worker'[w].id = k.id /\ worker'[w].hash = k.hash
      /\ \A v \in Workers : v # w => worker'[v] = worker[v]
  BY <1>1, GotoFields
<1>9. WorkerOK(w)'
  BY <1>1, <1>3, <1>4, <1>8 DEF WorkerOK, IsRecordOf, IsRecord, IsRecordTx, Stored
<1> QED
  BY <1>1, <1>3, <1>7, <1>8, <1>9, SaveMoney DEF Stored

\* A call that goes on after a save: at the stage next, or queued for a call.
GoesOn(w, next, call, id) ==
  /\ \/ worker'[w].at = next
     \/ worker'[w].at = "queued" /\ worker'[w].call = call
  /\ worker'[w].coll = worker[w].coll
  /\ worker'[w].id = id
  /\ \A v \in Workers : v # w => worker'[v] = worker[v]

\* What a call is when it goes on with an id.
LEMMA GoesOnFields ==
  ASSUME TypeInv, NEW w \in Workers, NEW next, NEW call,
         Goto(w, next) \/ Enqueue(w, call, worker[w].id)
  PROVE  GoesOn(w, next, call, worker[w].id)
<1>1. CASE Goto(w, next)
  BY <1>1, GotoFields DEF GoesOn
<1>2. CASE Enqueue(w, call, worker[w].id)
  <2>1. /\ worker'[w].at = "queued" /\ worker'[w].coll = worker[w].coll
        /\ worker'[w].call = call /\ worker'[w].id = worker[w].id
        /\ \A v \in Workers : v # w => worker'[v] = worker[v]
    BY <1>2, EnqueueFields
  <2> QED
    BY <2>1 DEF GoesOn
<1> QED
  BY <1>1, <1>2

\* RECORDED is written with the ledger id.
LEMMA SaveRecordedMoney ==
  ASSUME IInv, NEW w \in Workers, SaveRecorded(w)
  PROVE  MoneyInv'
<1> DEFINE k == worker[w]
<1> PICK c \in Collections : c = k.coll
  BY DEF IInv, TypeInv, WorkerShape, SaveRecorded
<1> DEFINE r == [row[c] EXCEPT !.chainTransactionId = k.id, !.chainStatus = "RECORDED"]
<1>1. /\ TypeInv /\ WorkerOK(w) /\ k.at = "recorded" /\ Write(c, r)
      /\ UNCHANGED <<txs, verifiedOn, minted>>
      /\ IF k.id \in verifiedOn THEN Goto(w, "verified") ELSE Enqueue(w, "verify", k.id)
  BY DEF IInv, MoneyInv, SaveRecorded, ledgerVars
<1>2. c \in Collections /\ row[c] \in Rows /\ RowOK(c)
  BY <1>1 DEF IInv, MoneyInv, TypeInv, TypeOK, WorkerShape
<1>3. /\ r.chainTransactionId = k.id /\ r.chainStatus = "RECORDED"
      /\ r.chainRecordTxHash = row[c].chainRecordTxHash
  BY <1>2 DEF Rows
<1> HIDE DEF r
<1>4. row'[c] = r
  BY <1>1, <1>2, WrittenRow
<1>5. k.id # NoHash /\ IsRecordOf(k.id, c) /\ (Stored(c) # NoHash => k.id = Stored(c))
  BY <1>1 DEF WorkerOK
<1>6. RowOK(c)'
  BY <1>1, <1>2, <1>3, <1>4, <1>5 DEF RowOK, IsRecordOf, IsRecord, IsRecordTx
<1>7. GoesOn(w, "verified", "verify", k.id)
  BY <1>1, GoesOnFields
<1>8. worker'[w].at = "verified" => k.id \in verifiedOn
  BY <1>1, EnqueueFields
<1>9. WorkerOK(w)'
  BY <1>1, <1>3, <1>4, <1>5, <1>7, <1>8 DEF GoesOn, WorkerOK, IsRecordOf, IsRecord, Stored
<1> QED
  BY <1>1, <1>3, <1>5, <1>6, <1>7, <1>9, SaveMoney DEF GoesOn

\* VERIFIED is written after the record was verified.
LEMMA SaveVerifiedMoney ==
  ASSUME IInv, NEW w \in Workers, SaveVerified(w)
  PROVE  MoneyInv'
<1> DEFINE k == worker[w]
<1> PICK c \in Collections : c = k.coll
  BY DEF IInv, TypeInv, WorkerShape, SaveVerified
<1> DEFINE r == [row[c] EXCEPT !.chainStatus = "VERIFIED"]
<1>1. /\ TypeInv /\ WorkerOK(w) /\ k.at = "verified" /\ Write(c, r)
      /\ UNCHANGED <<txs, verifiedOn, minted>>
      /\ IF k.id \in payments THEN Goto(w, "payment") ELSE Enqueue(w, "pay", k.id)
  BY DEF IInv, MoneyInv, SaveVerified, ledgerVars
<1>2. row[c] \in Rows /\ RowOK(c)
  BY <1>1 DEF IInv, MoneyInv, TypeInv, TypeOK
<1>3. /\ r.chainTransactionId = row[c].chainTransactionId /\ r.chainStatus = "VERIFIED"
      /\ r.chainRecordTxHash = row[c].chainRecordTxHash
  BY <1>2 DEF Rows
<1> HIDE DEF r
<1>4. row'[c] = r
  BY <1>1, WrittenRow
<1>5. k.id # NoHash /\ k.id = Stored(c) /\ k.id \in verifiedOn /\ IsRecordOf(k.id, c)
  BY <1>1 DEF WorkerOK
<1>6. RowOK(c)'
  BY <1>1, <1>2, <1>3, <1>4, <1>5 DEF RowOK, IsRecordOf, IsRecord, IsRecordTx, Stored
<1>7. GoesOn(w, "payment", "pay", k.id)
  BY <1>1, GoesOnFields
<1>8. WorkerOK(w)'
  BY <1>1, <1>3, <1>4, <1>5, <1>7 DEF GoesOn, WorkerOK, IsRecordOf, IsRecord, Stored
<1> QED
  BY <1>1, <1>3, <1>6, <1>7, <1>8, SaveMoney DEF GoesOn, Stored

\* The payment id is written.
LEMMA SavePaymentIdMoney ==
  ASSUME IInv, NEW w \in Workers, SavePaymentId(w)
  PROVE  MoneyInv'
<1> DEFINE k == worker[w]
<1> PICK c \in Collections : c = k.coll
  BY DEF IInv, TypeInv, WorkerShape, SavePaymentId
<1>1. /\ TypeInv /\ WorkerOK(w) /\ k.at = "payment" /\ Write(c, row[c])
      /\ UNCHANGED <<txs, verifiedOn, minted>>
      /\ IF k.id \in minted THEN Goto(w, "paid") ELSE Enqueue(w, "complete", k.id)
  BY DEF IInv, MoneyInv, SavePaymentId, ledgerVars
<1>2. RowOK(c)
  BY DEF IInv, MoneyInv
<1>3. row'[c] = row[c]
  BY <1>1, WrittenRow
<1>4. k.id # NoHash /\ k.id = Stored(c) /\ k.id \in verifiedOn /\ IsRecordOf(k.id, c)
  BY <1>1 DEF WorkerOK
<1>5. RowOK(c)'
  BY <1>1, <1>2, <1>3 DEF RowOK, IsRecordOf, IsRecord, IsRecordTx
<1>6. GoesOn(w, "paid", "complete", k.id)
  BY <1>1, GoesOnFields
<1>7. worker'[w].at = "paid" => k.id \in minted
  BY <1>1, EnqueueFields
<1>8. WorkerOK(w)'
  BY <1>1, <1>3, <1>4, <1>6, <1>7 DEF GoesOn, WorkerOK, IsRecordOf, IsRecord, Stored
<1> QED
  BY <1>1, <1>5, <1>6, <1>8, SaveMoney DEF GoesOn, Stored

\* PAID is written after the payment completed.
LEMMA SavePaidMoney ==
  ASSUME IInv, NEW w \in Workers, SavePaid(w)
  PROVE  MoneyInv'
<1> DEFINE k == worker[w]
<1> PICK c \in Collections : c = k.coll
  BY DEF IInv, TypeInv, WorkerShape, SavePaid
<1> DEFINE r == [row[c] EXCEPT !.chainStatus = "PAID"]
<1>1. /\ TypeInv /\ WorkerOK(w) /\ k.at = "paid" /\ Write(c, r) /\ Release(w)
      /\ UNCHANGED <<txs, verifiedOn, minted>>
  BY DEF IInv, MoneyInv, SavePaid, ledgerVars
<1>2. row[c] \in Rows /\ RowOK(c)
  BY <1>1 DEF IInv, MoneyInv, TypeInv, TypeOK
<1>3. /\ r.chainTransactionId = row[c].chainTransactionId /\ r.chainStatus = "PAID"
      /\ r.chainRecordTxHash = row[c].chainRecordTxHash
  BY <1>2 DEF Rows
<1> HIDE DEF r
<1>4. row'[c] = r
  BY <1>1, WrittenRow
<1>5. k.id # NoHash /\ k.id = Stored(c) /\ k.id \in verifiedOn /\ k.id \in minted
  BY <1>1 DEF WorkerOK
<1>6. RowOK(c)'
  BY <1>1, <1>2, <1>3, <1>4, <1>5 DEF RowOK, IsRecordOf, IsRecord, IsRecordTx, Stored
<1>7. worker'[w].at = "idle" /\ \A v \in Workers : v # w => worker'[v] = worker[v]
  BY <1>1, ReleaseFields
<1>8. WorkerOK(w)'
  BY <1>7, NothingKnown
<1> QED
  BY <1>1, <1>3, <1>6, <1>7, <1>8, SaveMoney DEF Stored

\* The catch block sets FAILED, which claims nothing.
LEMMA CatchMoney ==
  ASSUME IInv, NEW w \in Workers, CatchSave(w) \/ CatchFails(w)
  PROVE  MoneyInv'
<1> DEFINE k == worker[w]
<1> PICK c \in Collections : c = k.coll
  BY DEF IInv, TypeInv, WorkerShape, CatchSave, CatchFails
<1> DEFINE r == [row[c] EXCEPT !.chainStatus = "FAILED", !.chainAttempts = @ + 1]
<1>1. /\ TypeInv /\ k.at = "failed" /\ Release(w)
      /\ UNCHANGED <<txs, verifiedOn, minted>>
      /\ Write(c, r) \/ UNCHANGED row
  BY DEF IInv, CatchSave, CatchFails, ledgerVars, dbVars
<1>2. row[c] \in Rows /\ RowOK(c)
  BY <1>1 DEF IInv, MoneyInv, TypeInv, TypeOK
<1>3. /\ r.chainTransactionId = row[c].chainTransactionId /\ r.chainStatus = "FAILED"
      /\ r.chainRecordTxHash = row[c].chainRecordTxHash
  BY <1>2 DEF Rows
<1> HIDE DEF r
<1>4. worker'[w].at = "idle" /\ \A v \in Workers : v # w => worker'[v] = worker[v]
  BY <1>1, ReleaseFields
<1>5. WorkerOK(w)'
  BY <1>4, NothingKnown
<1>6. CASE Write(c, r)
  <2>1. row'[c] = r
    BY <1>1, <1>6, WrittenRow
  <2>2. RowOK(c)'
    BY <1>1, <1>2, <1>3, <2>1 DEF RowOK, IsRecordOf, IsRecord, IsRecordTx
  <2> QED
    BY <1>1, <1>3, <1>4, <1>5, <1>6, <2>2, SaveMoney DEF Stored
<1>7. CASE UNCHANGED row
  BY <1>1, <1>4, <1>5, <1>7, CallStep
<1> QED
  BY <1>1, <1>6, <1>7

-----------------------------------------------------------------------------
(* Submissions and the network.                                            *)

\* A transaction joins the ledger, pending.
LEMMA AcceptMoney ==
  ASSUME IInv, NEW w \in Workers, worker[w].at = "queued",
         Accept(worker[w].call, worker[w].coll, worker[w].id),
         UNCHANGED <<verifiedOn, minted, row>>,
         \A v \in Workers : v # w => worker'[v] = worker[v],
         \/ worker'[w].at = "failed"
         \/ /\ worker'[w].at \in {"saving", "polling"}
            /\ worker'[w].coll = worker[w].coll
            /\ worker'[w].call = worker[w].call
            /\ worker'[w].id = worker[w].id
            /\ worker'[w].hash = Len(txs) + 1
  PROVE  MoneyInv'
<1> DEFINE k == worker[w]
           n == Len(txs) + 1
           tx == [coll |-> k.coll, call |-> k.call, target |-> k.id,
                  seq |-> sequence[SignerOf(k.call, k.coll)], state |-> "pending"]
<1>1. TypeInv /\ WorkerOK(w) /\ k.coll \in Collections /\ k.call \in Calls
  BY DEF IInv, MoneyInv, TypeInv, WorkerShape
<1>2. Len(txs) \in Nat /\ txs' = Append(txs, tx)
  BY <1>1, LenProperties DEF TypeInv, TypeOK, LedgerTypeOK, Accept
<1>3. /\ Len(txs') = n
      /\ txs'[n] = tx
      /\ \A h \in 1..Len(txs) : txs'[h] = txs[h]
  BY <1>1, <1>2, AppendProperties DEF TypeInv, TypeOK, LedgerTypeOK
<1>4. /\ 1..Len(txs) \subseteq 1..Len(txs')
      /\ \A h \in 1..Len(txs') : h = n \/ h \in 1..Len(txs)
      /\ n \in 1..Len(txs')
  BY <1>2, <1>3
<1>5. tx.coll = k.coll /\ tx.call = k.call /\ tx.target = k.id /\ tx.state = "pending"
  OBVIOUS
<1> HIDE DEF tx, n
<1>6. \A h, c : IsRecordOf(h, c) => IsRecordOf(h, c)'
  BY <1>3, <1>4 DEF IsRecordOf, IsRecord
<1>7. \A h, c : IsRecordTx(h, c) => IsRecordTx(h, c)'
  BY <1>3, <1>4 DEF IsRecordTx
<1>8. \A c : Stored(c)' = Stored(c)
  BY DEF Stored
<1>9. \A c \in Collections : RowOK(c)'
  BY <1>6, <1>7 DEF RowOK, IInv, MoneyInv
<1>10. ASSUME NEW h \in 1..Len(txs') PROVE TxOK(h)'
  <2>1. CASE h \in 1..Len(txs)
    <3>1. TxOK(h) /\ txs'[h] = txs[h]
      BY <1>3, <2>1 DEF IInv, MoneyInv
    <3> QED
      BY <1>8, <3>1 DEF TxOK, Stored
  <2>2. CASE h = n
    <3>1. /\ k.call # "record" => k.id # NoHash /\ k.id = Stored(k.coll)
          /\ k.call \in {"pay", "complete"} => k.id \in verifiedOn
      BY <1>1 DEF WorkerOK, Calls
    <3>2. txs'[h] = tx
      BY <1>3, <2>2
    <3> QED
      BY <1>5, <3>1, <3>2 DEF TxOK, Stored
  <2> QED
    BY <1>4, <2>1, <2>2
<1>11. ASSUME NEW v \in Workers PROVE WorkerOK(v)'
  <2>1. CASE v # w
    <3>1. worker'[v] = worker[v] /\ WorkerOK(v)
      BY <2>1 DEF IInv, MoneyInv
    <3>2. worker[v].at \in {"saving", "polling"} => txs'[worker[v].hash] = txs[worker[v].hash]
      BY <1>1, <1>3 DEF TypeInv, WorkerShape
    <3> QED
      BY <1>6, <1>7, <3>1, <3>2 DEF WorkerOK, Stored
  <2>2. CASE v = w /\ worker'[w].at = "failed"
    BY <2>2, NothingKnown
  <2>3. CASE v = w /\ worker'[w].at # "failed"
    <3>1. /\ worker'[w].at \in {"saving", "polling"}
          /\ worker'[w].coll = k.coll /\ worker'[w].call = k.call
          /\ worker'[w].id = k.id /\ worker'[w].hash = n
      BY <2>3 DEF n
    <3>2. txs'[worker'[w].hash] = tx
      BY <1>3, <3>1
    <3>3. (worker[w].id # NoHash => IsRecordOf(worker[w].id, worker[w].coll))'
      <4>1. k.id # NoHash => IsRecordOf(k.id, k.coll)
        BY <1>1 DEF WorkerOK
      <4> QED
        BY <1>6, <3>1, <4>1 DEF IsRecordOf
    <3> QED
      BY <1>1, <1>5, <2>3, <3>1, <3>2, <3>3 DEF WorkerOK, Stored
  <2> QED
    BY <2>1, <2>2, <2>3
<1>12. OwnRecords(verifiedOn)' /\ OwnRecords(minted)'
  BY <1>6 DEF IInv, MoneyInv, OwnRecords
<1> QED
  BY <1>9, <1>10, <1>11, <1>12 DEF MoneyInv

\* A call submits a transaction to the network.
LEMMA SubmitMoney ==
  ASSUME IInv, NEW w \in Workers, Submit(w) \/ SubmitUnanswered(w)
  PROVE  MoneyInv'
<1> DEFINE k == worker[w]
           stage == IF StoresHash(k.call) THEN "saving" ELSE "polling"
           j == [k EXCEPT !.hash = Len(txs) + 1, !.at = stage]
<1>1. /\ TypeInv /\ k.at = "queued" /\ Accept(k.call, k.coll, k.id)
      /\ UNCHANGED <<verifiedOn, minted, row>>
  BY DEF IInv, Submit, SubmitUnanswered, dbVars
<1>2. CASE Submit(w)
  <2>1. /\ j.at \in {"saving", "polling"} /\ j.hash = Len(txs) + 1
        /\ j.coll = k.coll /\ j.call = k.call /\ j.id = k.id
    BY <1>1 DEF TypeInv, TypeOK, WorkerStates
  <2>2. Become(w, j)
    BY <1>2 DEF Submit
  <2> HIDE DEF j
  <2>3. worker'[w] = j /\ \A v \in Workers : v # w => worker'[v] = worker[v]
    BY <1>1, <2>2, OthersStay
  <2> QED
    BY <1>1, <2>1, <2>3, AcceptMoney
<1>3. CASE SubmitUnanswered(w)
  <2>1. worker'[w].at = "failed" /\ \A v \in Workers : v # w => worker'[v] = worker[v]
    BY <1>1, <1>3, GotoFields DEF SubmitUnanswered, Throw
  <2> QED
    BY <1>1, <2>1, AcceptMoney
<1> QED
  BY <1>2, <1>3

\* One transaction h settles: nothing else of the ledger's past changes, and
\* what it is about, if it succeeds, is what happens.
Settles(h, outcome) ==
  /\ txs[h].state = "pending"
  /\ txs' = [txs EXCEPT ![h].state = outcome]
  /\ verifiedOn' = IF txs[h].call = "verify" /\ outcome = "success"
                   THEN verifiedOn \cup {txs[h].target} ELSE verifiedOn
  /\ minted' = IF txs[h].call = "complete" /\ outcome = "success"
               THEN minted \cup {txs[h].target} ELSE minted

\* A pending transaction gets its outcome, and its effect.
LEMMA SettleMoney ==
  ASSUME IInv, NEW h \in 1..Len(txs), NEW outcome, Settles(h, outcome),
         UNCHANGED <<row, worker>>
  PROVE  MoneyInv'
<1>1. txs \in Seq(Transactions) /\ txs[h] \in Transactions /\ txs[h].coll \in Collections
  BY TxType DEF IInv, TypeInv, TypeOK, LedgerTypeOK
<1>2. /\ Len(txs') = Len(txs)
      /\ \A g \in 1..Len(txs) : g # h => txs'[g] = txs[g]
      /\ txs'[h] = [txs[h] EXCEPT !.state = outcome]
  BY <1>1, ExceptSeq DEF Settles
<1>3. /\ txs'[h].call = txs[h].call
      /\ txs'[h].coll = txs[h].coll
      /\ txs'[h].target = txs[h].target
      /\ txs'[h].state = outcome
  BY <1>1, <1>2 DEF Transactions
<1>4. \A g \in 1..Len(txs) :
        /\ txs'[g].call = txs[g].call
        /\ txs'[g].coll = txs[g].coll
        /\ txs'[g].target = txs[g].target
        /\ txs[g].state = "success" => txs'[g].state = "success"
  BY <1>2, <1>3 DEF Settles
<1>5. verifiedOn \subseteq verifiedOn' /\ minted \subseteq minted'
  BY DEF Settles
<1>6. \A g, c : IsRecordOf(g, c) => IsRecordOf(g, c)'
  BY <1>2, <1>4 DEF IsRecordOf, IsRecord
<1>7. \A g, c : IsRecordTx(g, c) => IsRecordTx(g, c)'
  BY <1>2, <1>4 DEF IsRecordTx
<1>8. \A c : Stored(c)' = Stored(c)
  BY DEF Stored
<1>9. \A c \in Collections : RowOK(c)'
  BY <1>5, <1>6, <1>7 DEF RowOK, IInv, MoneyInv
<1>10. ASSUME NEW g \in 1..Len(txs') PROVE TxOK(g)'
  <2>1. g \in 1..Len(txs) /\ TxOK(g)
    BY <1>2 DEF IInv, MoneyInv
  <2>2. CASE g # h
    <3>1. txs'[g] = txs[g]
      BY <1>2, <2>1, <2>2
    <3> QED
      BY <1>5, <2>1, <3>1 DEF TxOK, Stored
  <2>3. CASE g = h
    BY <1>3, <1>5, <2>1, <2>3 DEF TxOK, Stored, Settles
  <2> QED
    BY <2>2, <2>3
<1>11. ASSUME NEW v \in Workers PROVE WorkerOK(v)'
  <2>1. WorkerOK(v) /\ worker'[v] = worker[v]
    BY DEF IInv, MoneyInv
  <2>2. worker[v].at \in {"saving", "polling"} => worker[v].hash \in 1..Len(txs)
    BY DEF IInv, TypeInv, WorkerShape
  <2> QED
    BY <1>4, <1>5, <1>6, <1>7, <2>1, <2>2 DEF WorkerOK, Stored
<1>12. ASSUME NEW g, \/ g \in verifiedOn' \ verifiedOn
                     \/ g \in minted' \ minted
       PROVE  \E c \in Collections : IsRecordOf(g, c) /\ g = row[c].chainTransactionId
  <2>1. txs[h].call # "record" /\ g = txs[h].target
    BY <1>12 DEF Settles
  <2>2. g # NoHash /\ g = Stored(txs[h].coll)
    BY <2>1 DEF IInv, MoneyInv, TxOK
  <2> QED
    BY <1>1, <2>2 DEF IInv, MoneyInv, RowOK, Stored
<1>13. OwnRecords(verifiedOn)' /\ OwnRecords(minted)'
  BY <1>6, <1>12 DEF IInv, MoneyInv, OwnRecords
<1> QED
  BY <1>9, <1>10, <1>11, <1>13 DEF MoneyInv

\* The network keeps MoneyInv.
LEMMA NetworkMoney ==
  ASSUME IInv, Network \/ NetworkFault \/ Time
  PROVE  MoneyInv'
<1>1. UNCHANGED <<row, worker>>
  BY DEF Network, NetworkFault, Time, serviceVars, dbVars
<1>2. CASE Network \/ NetworkFault
  <2>1. PICK h \in DOMAIN txs : Succeed(h) \/ Revert(h) \/ Drop(h)
    BY <1>2 DEF Network, NetworkFault, Land, Overtaken
  <2>2. h \in 1..Len(txs)
    BY <2>1, LenProperties DEF IInv, TypeInv, TypeOK, LedgerTypeOK
  <2>3. \E outcome : Settles(h, outcome)
    <3>1. Succeed(h) => Settles(h, "success")
      BY DEF Succeed, Include, Includable, Settles
    <3>2. Revert(h) => Settles(h, "failed")
      BY DEF Revert, Include, Includable, Settles
    <3>3. Drop(h) => Settles(h, "dropped")
      BY DEF Drop, Settles
    <3> QED
      BY <2>1, <3>1, <3>2, <3>3
  <2> QED
    BY <1>1, <2>2, <2>3, SettleMoney
<1>3. CASE Time
  BY <1>1, <1>3 DEF Time, WindowCloses, IInv, MoneyInv, RowOK, TxOK, WorkerOK, Stored,
     IsRecordTx, IsRecordOf, IsRecord, OwnRecords
<1> QED
  BY <1>2, <1>3

-----------------------------------------------------------------------------
(* Requests, the timer and restarts.                                       *)

\* process(c) starts, and a row is written that claims no more than before.
LEMMA StartMoney ==
  ASSUME IInv, NEW w \in Workers, NEW c \in Collections, Process(w, c),
         ~Running(c) => worker[w].at = "idle",
         UNCHANGED <<txs, verifiedOn, minted>>,
         \A d \in Collections : d # c => row'[d] = row[d],
         row'[c].chainTransactionId = row[c].chainTransactionId,
         row'[c].chainRecordTxHash = row[c].chainRecordTxHash,
         row'[c].chainStatus \in {row[c].chainStatus, "PENDING"}
  PROVE  MoneyInv'
<1> DEFINE k == [NoWork EXCEPT !.at = "reading", !.coll = c]
<1>1. RowOK(c) /\ WorkerOK(w) /\ TypeInv
  BY DEF IInv, MoneyInv
<1>2. RowOK(c)' /\ StoresOnly(w, c)
  BY <1>1 DEF RowOK, IsRecordOf, IsRecord, IsRecordTx, StoresOnly, Stored
<1>3. CASE Running(c)
  <2>1. worker' = worker
    BY <1>3 DEF Process
  <2>2. worker[w].coll \in Collections \cup {Nil}
    BY <1>1 DEF TypeInv, TypeOK, WorkerStates
  <2>3. worker[w].at # "idle" =>
          row'[worker[w].coll].chainTransactionId = row[worker[w].coll].chainTransactionId
    BY <1>1 DEF TypeInv, WorkerShape
  <2>4. WorkerOK(w)'
    <3>1. CASE worker[w].at = "idle"
      BY <2>1, <3>1, NothingKnown
    <3>2. CASE worker[w].at # "idle"
      BY <1>1, <2>1, <2>3, <3>2 DEF WorkerOK, IsRecordOf, IsRecord, IsRecordTx, Stored
    <3> QED
      BY <3>1, <3>2
  <2> QED
    BY <1>2, <2>1, <2>4, ServiceStep
<1>4. CASE ~Running(c)
  <2>1. k.at = "reading" /\ Become(w, k)
    BY <1>4 DEF NoWork, Process, StartWorker
  <2> HIDE DEF k
  <2>2. worker'[w] = k /\ \A v \in Workers : v # w => worker'[v] = worker[v]
    BY <1>1, <2>1, OthersStay
  <2>3. WorkerOK(w)'
    BY <2>1, <2>2, NothingKnown
  <2> QED
    BY <1>2, <2>2, <2>3, ServiceStep
<1> QED
  BY <1>3, <1>4

\* A request that starts no call and writes no more than verified,
\* paymentStatus or exists.
LEMMA RowStep ==
  ASSUME IInv, NEW c \in Collections, UNCHANGED <<txs, verifiedOn, minted, worker>>,
         \A d \in Collections : d # c => row'[d] = row[d],
         row'[c].chainTransactionId = row[c].chainTransactionId,
         row'[c].chainRecordTxHash = row[c].chainRecordTxHash,
         row'[c].chainStatus = row[c].chainStatus
  PROVE  MoneyInv'
<1>1. \A d \in Collections :
        /\ row'[d].chainTransactionId = row[d].chainTransactionId
        /\ row'[d].chainRecordTxHash = row[d].chainRecordTxHash
        /\ row'[d].chainStatus = row[d].chainStatus
  OBVIOUS
<1>2. \A d \in Collections : RowOK(d)'
  BY <1>1 DEF IInv, MoneyInv, RowOK, IsRecordOf, IsRecord, IsRecordTx
<1>3. ASSUME NEW h \in 1..Len(txs') PROVE TxOK(h)'
  BY <1>1, TxType DEF IInv, MoneyInv, TxOK, Stored
<1>4. ASSUME NEW v \in Workers PROVE WorkerOK(v)'
  <2>1. CASE worker[v].at = "idle"
    BY <2>1, NothingKnown
  <2>2. CASE worker[v].at # "idle"
    <3>1. worker[v].coll \in Collections /\ WorkerOK(v)
      BY <2>2 DEF IInv, MoneyInv, TypeInv, WorkerShape
    <3> QED
      BY <1>1, <3>1 DEF WorkerOK, IsRecordOf, IsRecord, IsRecordTx, Stored
  <2> QED
    BY <2>1, <2>2
<1>5. OwnRecords(verifiedOn)' /\ OwnRecords(minted)'
  BY <1>1 DEF IInv, MoneyInv, OwnRecords, IsRecordOf, IsRecord
<1> QED
  BY <1>2, <1>3, <1>4, <1>5 DEF MoneyInv

\* Reviews and deletions keep MoneyInv.
LEMMA RequestMoney ==
  ASSUME IInv, NEW c \in Collections, Request(c)
  PROVE  MoneyInv'
<1>1. TypeInv /\ row \in [Collections -> Rows] /\ row[c] \in Rows
  BY DEF IInv, TypeInv, TypeOK
<1>2. UNCHANGED <<txs, verifiedOn, minted>>
  BY DEF Request, VerifyRead, Approve, Reject, ReviewFails, Delete, ledgerVars
<1>3. CASE Approve(c)
  <2> DEFINE r == [row[c] EXCEPT !.verified = TRUE, !.chainStatus = "PENDING"]
  <2>1. /\ r.chainTransactionId = row[c].chainTransactionId
        /\ r.chainRecordTxHash = row[c].chainRecordTxHash
        /\ r.chainStatus = "PENDING"
    BY <1>1 DEF Rows
  <2>2. Write(c, r) /\ Process(c, c)
    BY <1>3 DEF Approve
  <2> HIDE DEF r
  <2>3. row'[c] = r /\ \A d \in Collections : d # c => row'[d] = row[d]
    BY <1>1, <2>2 DEF Write
  <2>4. c \in Workers
    BY DEF Workers
  <2>5. ~Running(c) => worker[c].at = "idle"
    BY <2>4 DEF Running, IInv, CallInv
  <2> QED
    BY <1>2, <2>1, <2>2, <2>3, <2>4, <2>5, StartMoney
<1>4. CASE Reject(c)
  <2> DEFINE r == [row[c] EXCEPT !.verified = TRUE, !.paymentStatus = "CANCELLED"]
  <2>1. /\ r.chainTransactionId = row[c].chainTransactionId
        /\ r.chainRecordTxHash = row[c].chainRecordTxHash
        /\ r.chainStatus = row[c].chainStatus
    BY <1>1 DEF Rows
  <2>2. Write(c, r) /\ UNCHANGED worker
    BY <1>4 DEF Reject
  <2> HIDE DEF r
  <2>3. row'[c] = r /\ \A d \in Collections : d # c => row'[d] = row[d]
    BY <1>1, <2>2 DEF Write
  <2> QED
    BY <1>2, <2>1, <2>2, <2>3, RowStep
<1>5. CASE Delete(c)
  <2>1. row' = [row EXCEPT ![c] = [row[c] EXCEPT !.exists = FALSE]] /\ UNCHANGED worker
    BY <1>5 DEF Delete
  <2>2. /\ row'[c].chainTransactionId = row[c].chainTransactionId
        /\ row'[c].chainRecordTxHash = row[c].chainRecordTxHash
        /\ row'[c].chainStatus = row[c].chainStatus
        /\ \A d \in Collections : d # c => row'[d] = row[d]
    BY <1>1, <2>1 DEF Rows
  <2> QED
    BY <1>2, <2>1, <2>2, RowStep
<1>6. CASE VerifyRead(c) \/ ReviewFails(c)
  BY <1>2, <1>6, RowStep DEF VerifyRead, ReviewFails, dbVars
<1> QED
  BY <1>3, <1>4, <1>5, <1>6 DEF Request

\* A step that touches neither ledger, rows nor calls.
LEMMA QuietStep ==
  ASSUME MoneyInv, UNCHANGED <<txs, verifiedOn, minted, row, worker>>
  PROVE  MoneyInv'
BY DEF MoneyInv, RowOK, TxOK, WorkerOK, Stored, IsRecordTx, IsRecordOf, IsRecord, OwnRecords

\* Ticks keep MoneyInv.
LEMMA SweepMoney ==
  ASSUME IInv, NEW s \in Sweeps, SweepStep(s) \/ ListFails(s)
  PROVE  MoneyInv'
<1>1. UNCHANGED <<txs, verifiedOn, minted, row>>
  BY DEF SweepStep, Tick, List, SweepNext, SweepEnds, ListFails, ledgerVars, dbVars
<1>2. CASE SweepNext(s)
  <2>1. sweep[s].due \in Seq(Collections) /\ sweep[s].due # <<>>
    BY <1>2 DEF SweepNext, IInv, TypeInv, TypeOK, SweepStates
  <2>2. PICK c \in Collections : c = Head(sweep[s].due)
    BY <2>1, HeadTailProperties
  <2>3. s \in Workers /\ Process(s, c) /\ worker[s].at = "idle"
    BY <1>2, <2>2 DEF SweepNext, Workers
  <2> QED
    BY <1>1, <2>3, StartMoney
<1>3. CASE Tick(s) \/ List(s) \/ SweepEnds(s) \/ ListFails(s)
  BY <1>1, <1>3, QuietStep DEF Tick, List, SweepEnds, ListFails, IInv
<1> QED
  BY <1>2, <1>3 DEF SweepStep

\* A restart forgets the calls, and keeps MoneyInv.
LEMMA CrashMoney ==
  ASSUME IInv, CrashRestart
  PROVE  MoneyInv'
<1>1. UNCHANGED <<txs, verifiedOn, minted, row>>
  BY DEF CrashRestart, ledgerVars, dbVars
<1>2. NoWork.at = "idle"
  BY DEF NoWork
<1>3. \A w \in Workers : worker'[w].at = "idle"
  BY <1>2 DEF CrashRestart
<1>4. \A w \in Workers : WorkerOK(w)'
  BY <1>3, NothingKnown
<1> QED
  BY <1>1, <1>4 DEF IInv, MoneyInv, RowOK, TxOK, Stored, IsRecordTx, IsRecordOf, IsRecord,
     OwnRecords

\* Every step of a running call keeps MoneyInv.
LEMMA WorkerMoney ==
  ASSUME IInv, NEW w \in Workers, WorkerStep(w) \/ Failure(w)
  PROVE  MoneyInv'
<1>1. CASE SubmitRefused(w) \/ NotConfirmed(w) \/ SaveFails(w) \/ Fault(w)
  <2>1. worker[w].at # "idle" /\ Throw(w) /\ UNCHANGED <<txs, verifiedOn, minted, row>>
    BY <1>1 DEF SubmitRefused, NotConfirmed, SaveFails, Fault, ledgerVars, dbVars
  <2> QED
    BY <2>1, ThrowMoney
<1> QED
  BY <1>1, ReadRowMoney, ResumeMoney, SubmitMoney, SaveHashMoney, ConfirmedMoney,
     SaveRecordedMoney, SaveVerifiedMoney, SavePaymentIdMoney, SavePaidMoney, CatchMoney
     DEF WorkerStep, Failure

-----------------------------------------------------------------------------
(* The theorems.                                                           *)

\* The first rows claim nothing.
LEMMA InitMoney == Init => MoneyInv
<1> SUFFICES ASSUME Init PROVE MoneyInv
  OBVIOUS
<1>1. ASSUME NEW c \in Collections PROVE RowOK(c)
  BY DEF Init, RowOK, NoHash
<1>2. Len(txs) = 0
  BY EmptySeq DEF Init, LedgerInit
<1>3. ASSUME NEW h \in 1..Len(txs) PROVE TxOK(h)
  BY <1>2
<1>4. NoWork.at = "idle"
  BY DEF NoWork
<1>5. ASSUME NEW w \in Workers PROVE WorkerOK(w)
  <2>1. worker[w].at = "idle"
    BY <1>4 DEF Init
  <2> QED
    BY <2>1 DEF WorkerOK
<1>6. OwnRecords(verifiedOn) /\ OwnRecords(minted)
  BY DEF Init, LedgerInit, OwnRecords
<1> QED
  BY <1>1, <1>3, <1>5, <1>6 DEF MoneyInv

\* MoneyInv is inductive relative to TypeInv and CallInv.
LEMMA NextMoney == IInv /\ [Next]_vars => MoneyInv'
<1> SUFFICES ASSUME IInv, [Next]_vars PROVE MoneyInv'
  OBVIOUS
<1>1. CASE UNCHANGED vars
  BY <1>1, QuietStep DEF IInv, vars, ledgerVars, dbVars
<1>2. CASE Next
  BY <1>2, RequestMoney, SweepMoney, WorkerMoney, CrashMoney, NetworkMoney DEF Next
<1> QED
  BY <1>1, <1>2

\* The first, the second and the fourth invariant together are inductive.
THEOREM Invariance == Spec => []IInv
<1>1. Init => IInv
  BY InitTypeInv, InitCallInv, InitMoney DEF IInv
<1>2. IInv /\ [Next]_vars => IInv'
  BY NextTypeInv, NextCallInv, NextMoney DEF IInv
<1> QED
  BY <1>1, <1>2, PTL DEF Spec

\* The status in the database is never ahead of the ledger (run, lines 204-259),
\* whatever fails, crashes or overlaps.
THEOREM StatusIsBacked == Spec => []StatusBackedByLedger
<1>1. IInv => StatusBackedByLedger
  BY DEF IInv, MoneyInv, RowOK, StatusBackedByLedger
<1> QED
  BY <1>1, Invariance, PTL

\* WASTE is minted only for the record a collection's row names, however often
\* the collection was recorded.
THEOREM OneRecordIsPaid == Spec => []MintedForOneRecord
<1>1. IInv => MintedForOneRecord
  BY DEF IInv, MoneyInv, OwnRecords, MintedForOneRecord
<1> QED
  BY <1>1, Invariance, PTL

-----------------------------------------------------------------------------
(* What each kind of change is in CollectionPayout.                        *)

Status(c) == row[c].chainStatus

\* The ids and reports of all rows, of all but c's.
RowsStay == \A d \in Collections : Stored(d)' = Stored(d) /\ Status(d)' = Status(d)
OthersRowsStay(c) ==
  \A d \in Collections : d # c => Stored(d)' = Stored(d) /\ Status(d)' = Status(d)

\* Nothing CollectionPayout sees has changed.
LEMMA StutterPays ==
  ASSUME RowsStay, UNCHANGED <<verifiedOn, minted>>
  PROVE  UNCHANGED Payout!vars
BY DEF RowsStay, Payout!vars, Stored, Status

\* A row takes a status that is true.
LEMMA ReportPays ==
  ASSUME NEW c \in Collections, OthersRowsStay(c), Stored(c)' = Stored(c),
         Status(c)' \in Payout!Reportable(c), UNCHANGED <<verifiedOn, minted>>
  PROVE  Payout!Report(c)
BY ZenonT(40) DEF OthersRowsStay, Payout!Report, Stored, Status

\* A row takes its ledger id: no other row has it, and nothing was verified
\* for it before.
LEMMA RecordPays ==
  ASSUME IInv, NEW c \in Collections, NEW h, IsRecordOf(h, c), OthersRowsStay(c),
         Stored(c) = NoHash, Stored(c)' = h, Status(c)' = "RECORDED",
         UNCHANGED <<verifiedOn, minted>>
  PROVE  Payout!Record(c)
<1>1. h \in Nat \ {0}
  BY LenProperties DEF IsRecordOf, IsRecord, IInv, TypeInv, TypeOK, LedgerTypeOK
<1>2. ASSUME NEW d \in Collections PROVE Stored(d) # h
  <2>1. SUFFICES ASSUME Stored(d) = h PROVE FALSE
    OBVIOUS
  <2>2. IsRecordOf(h, d)
    BY <1>1, <2>1 DEF IInv, MoneyInv, RowOK, Stored, NoHash
  <2>3. d = c
    BY <2>2 DEF IsRecordOf
  <2> QED
    BY <1>1, <2>1, <2>3 DEF NoHash
<1>3. h \notin verifiedOn
  BY <1>2 DEF IInv, MoneyInv, OwnRecords, Stored
<1>4. NoHash \notin verifiedOn
  BY DEF IInv, MoneyInv, OwnRecords, IsRecordOf, IsRecord, NoHash
<1>5. {d \in Collections : Stored(d)' \in verifiedOn'} = {d \in Collections : Stored(d) \in verifiedOn}
  BY <1>3, <1>4 DEF OthersRowsStay
<1> QED
  BY <1>1, <1>2, <1>5 DEF Payout!Record, OthersRowsStay, Stored, Status, NoHash

\* A record is verified, or paid: it is the one of a single row.
LEMMA OneRow ==
  ASSUME IInv, NEW c \in Collections, NEW d \in Collections,
         Stored(c) = Stored(d), Stored(c) # NoHash
  PROVE  c = d
BY DEF IInv, MoneyInv, RowOK, Stored, IsRecordOf

\* The ledger verifies the record of a row.
LEMMA VerifyPays ==
  ASSUME IInv, NEW c \in Collections, Stored(c) # NoHash, RowsStay,
         verifiedOn' = verifiedOn \cup {Stored(c)}, UNCHANGED minted
  PROVE  Payout!Verify(c)
<1>1. {d \in Collections : Stored(d)' \in verifiedOn'}
        = {d \in Collections : Stored(d) \in verifiedOn} \cup {c}
  BY OneRow DEF RowsStay
<1> QED
  BY <1>1 DEF RowsStay, Payout!Verify, Stored, Status, NoHash

\* The ledger mints WASTE for the record of a row.
LEMMA MintPays ==
  ASSUME IInv, NEW c \in Collections, Stored(c) \in verifiedOn, Stored(c) \notin minted,
         RowsStay, minted' = minted \cup {Stored(c)}, UNCHANGED verifiedOn
  PROVE  Payout!Mint(c)
BY DEF RowsStay, Payout!Mint, Stored, Status

-----------------------------------------------------------------------------
(* The steps.                                                              *)

PayoutStep == (\E c \in Collections : \/ Payout!Record(c) \/ Payout!Verify(c)
                                      \/ Payout!Mint(c) \/ Payout!Report(c))
              \/ UNCHANGED Payout!vars

\* A write of a row, its new status and its ledger id.
LEMMA WriteFields ==
  ASSUME IInv, NEW c \in Collections, NEW r, Write(c, r)
  PROVE  row'[c] = r /\ OthersRowsStay(c)
<1>1. row'[c] = r /\ \A d \in Collections : d # c => row'[d] = row[d]
  BY DEF Write, IInv, TypeInv, TypeOK
<1> QED
  BY <1>1 DEF OthersRowsStay, Stored, Status

\* A write that keeps the ledger id and whose status is the old one, or true.
LEMMA WritePays ==
  ASSUME IInv, NEW c \in Collections, NEW r, Write(c, r),
         r.chainTransactionId = row[c].chainTransactionId,
         r.chainStatus = row[c].chainStatus \/ r.chainStatus \in Payout!Reportable(c),
         UNCHANGED <<verifiedOn, minted>>
  PROVE  PayoutStep
<1>1. row'[c] = r /\ OthersRowsStay(c)
  BY WriteFields
<1>2. Stored(c)' = Stored(c) /\ Status(c)' = r.chainStatus
  BY <1>1 DEF Stored, Status
<1>3. CASE r.chainStatus = row[c].chainStatus
  <2>1. RowsStay
    BY <1>1, <1>2, <1>3 DEF RowsStay, OthersRowsStay, Status
  <2> QED
    BY <2>1, StutterPays DEF PayoutStep
<1>4. CASE r.chainStatus \in Payout!Reportable(c)
  BY <1>1, <1>2, <1>4, ReportPays DEF PayoutStep
<1> QED
  BY <1>3, <1>4

\* A step that writes no row and settles nothing.
LEMMA QuietPays ==
  ASSUME UNCHANGED <<row, verifiedOn, minted>>
  PROVE  PayoutStep
<1>1. RowsStay
  BY DEF RowsStay, Stored, Status
<1> QED
  BY <1>1, StutterPays DEF PayoutStep

\* An approval reports PENDING, other requests nothing CollectionPayout sees.
LEMMA RequestPays ==
  ASSUME IInv, NEW c \in Collections, Request(c)
  PROVE  PayoutStep
<1>1. row[c] \in Rows /\ row \in [Collections -> Rows]
  BY DEF IInv, TypeInv, TypeOK
<1>2. UNCHANGED <<verifiedOn, minted>>
  BY DEF Request, VerifyRead, Approve, Reject, ReviewFails, Delete, ledgerVars
<1>3. CASE Approve(c)
  <2> DEFINE r == [row[c] EXCEPT !.verified = TRUE, !.chainStatus = "PENDING"]
  <2>1. r.chainTransactionId = row[c].chainTransactionId /\ r.chainStatus = "PENDING"
    BY <1>1 DEF Rows
  <2>2. Write(c, r)
    BY <1>3 DEF Approve
  <2> HIDE DEF r
  <2>3. r.chainStatus \in Payout!Reportable(c)
    BY <2>1 DEF Payout!Reportable
  <2> QED
    BY <1>2, <2>1, <2>2, <2>3, WritePays
<1>4. CASE Reject(c)
  <2> DEFINE r == [row[c] EXCEPT !.verified = TRUE, !.paymentStatus = "CANCELLED"]
  <2>1. r.chainTransactionId = row[c].chainTransactionId /\ r.chainStatus = row[c].chainStatus
    BY <1>1 DEF Rows
  <2>2. Write(c, r)
    BY <1>4 DEF Reject
  <2> HIDE DEF r
  <2> QED
    BY <1>2, <2>1, <2>2, WritePays
<1>5. CASE Delete(c)
  <2>1. RowsStay
    BY <1>1, <1>5 DEF Delete, RowsStay, Stored, Status, Rows
  <2> QED
    BY <1>2, <2>1, StutterPays DEF PayoutStep
<1>6. CASE VerifyRead(c) \/ ReviewFails(c)
  BY <1>2, <1>6, QuietPays DEF VerifyRead, ReviewFails, dbVars
<1> QED
  BY <1>3, <1>4, <1>5, <1>6 DEF Request

\* A write of the pipeline records, or reports.
LEMMA SavePays ==
  ASSUME IInv, NEW w \in Workers,
         \/ SaveHash(w) \/ SaveRecorded(w) \/ SaveVerified(w) \/ SavePaymentId(w)
         \/ SavePaid(w) \/ CatchSave(w)
  PROVE  PayoutStep
<1> DEFINE k == worker[w]
<1>1. k.at # "idle"
  BY DEF SaveHash, SaveRecorded, SaveVerified, SavePaymentId, SavePaid, CatchSave
<1> PICK c \in Collections : c = k.coll
  BY <1>1 DEF IInv, TypeInv, WorkerShape
<1>2. row[c] \in Rows /\ WorkerOK(w) /\ UNCHANGED <<verifiedOn, minted>>
  BY DEF IInv, MoneyInv, TypeInv, TypeOK, SaveHash, SaveRecorded, SaveVerified, SavePaymentId,
     SavePaid, CatchSave, ledgerVars
<1>3. CASE SaveHash(w) \/ SavePaymentId(w)
  <2> DEFINE r == IF k.at = "saving" /\ k.call = "record"
                  THEN [row[c] EXCEPT !.chainRecordTxHash = k.hash] ELSE row[c]
  <2>1. r.chainTransactionId = row[c].chainTransactionId /\ r.chainStatus = row[c].chainStatus
    BY <1>2 DEF Rows
  <2>2. Write(c, r)
    BY <1>3 DEF SaveHash, SavePaymentId
  <2> HIDE DEF r
  <2> QED
    BY <1>2, <2>1, <2>2, WritePays
<1>4. CASE SaveRecorded(w)
  <2> DEFINE r == [row[c] EXCEPT !.chainTransactionId = k.id, !.chainStatus = "RECORDED"]
  <2>1. r.chainTransactionId = k.id /\ r.chainStatus = "RECORDED"
    BY <1>2 DEF Rows
  <2>2. Write(c, r) /\ k.at = "recorded"
    BY <1>4 DEF SaveRecorded
  <2> HIDE DEF r
  <2>3. k.id # NoHash /\ IsRecordOf(k.id, c) /\ (Stored(c) # NoHash => k.id = Stored(c))
    BY <1>2, <2>2 DEF WorkerOK
  <2>4. CASE Stored(c) = NoHash
    <3>1. row'[c] = r /\ OthersRowsStay(c)
      BY <2>2, WriteFields
    <3>2. PICK h : h = k.id
      OBVIOUS
    <3>3. Stored(c)' = h /\ Status(c)' = "RECORDED"
      BY <2>1, <3>1, <3>2 DEF Stored, Status
    <3> QED
      BY <1>2, <2>3, <2>4, <3>1, <3>2, <3>3, RecordPays DEF PayoutStep
  <2>5. CASE Stored(c) # NoHash
    <3>1. r.chainStatus \in Payout!Reportable(c)
      BY <2>1, <2>5 DEF Payout!Reportable, Stored, NoHash
    <3> QED
      BY <1>2, <2>1, <2>2, <2>3, <2>5, <3>1, WritePays DEF Stored
  <2> QED
    BY <2>4, <2>5
<1>5. CASE SaveVerified(w) \/ SavePaid(w)
  <2> DEFINE s == IF k.at = "paid" THEN "PAID" ELSE "VERIFIED"
             r == [row[c] EXCEPT !.chainStatus = s]
  <2>1. r.chainTransactionId = row[c].chainTransactionId /\ r.chainStatus = s
    BY <1>2 DEF Rows
  <2>2. Write(c, r) /\ k.at \in {"verified", "paid"}
    BY <1>5 DEF SaveVerified, SavePaid
  <2>3. k.id = Stored(c) /\ k.id \in verifiedOn /\ (k.at = "paid" => k.id \in minted)
    BY <1>2, <2>2 DEF WorkerOK
  <2>4. s \in Payout!Reportable(c)
    BY <2>2, <2>3 DEF Payout!Reportable, Stored
  <2> HIDE DEF r
  <2> QED
    BY <1>2, <2>1, <2>2, <2>4, WritePays
<1>6. CASE CatchSave(w)
  <2> DEFINE r == [row[c] EXCEPT !.chainStatus = "FAILED", !.chainAttempts = @ + 1]
  <2>1. r.chainTransactionId = row[c].chainTransactionId /\ r.chainStatus = "FAILED"
    BY <1>2 DEF Rows
  <2>2. Write(c, r) \/ UNCHANGED row
    BY <1>6 DEF CatchSave, dbVars
  <2> HIDE DEF r
  <2>3. r.chainStatus \in Payout!Reportable(c)
    BY <2>1 DEF Payout!Reportable
  <2> QED
    BY <1>2, <2>1, <2>2, <2>3, WritePays, QuietPays
<1> QED
  BY <1>3, <1>4, <1>5, <1>6

\* An outcome of the network verifies, mints, or is not seen.
LEMMA NetworkPays ==
  ASSUME IInv, Network \/ NetworkFault \/ Time
  PROVE  PayoutStep
<1>1. UNCHANGED row
  BY DEF Network, NetworkFault, Time, serviceVars, dbVars
<1>2. RowsStay
  BY <1>1 DEF RowsStay, Stored, Status
<1>3. CASE UNCHANGED <<verifiedOn, minted>>
  BY <1>1, <1>3, QuietPays
<1>4. ASSUME NEW h \in DOMAIN txs, Succeed(h), ~UNCHANGED <<verifiedOn, minted>>
      PROVE  PayoutStep
  <2>1. h \in 1..Len(txs)
    BY LenProperties DEF IInv, TypeInv, TypeOK, LedgerTypeOK
  <2>2. PICK c \in Collections : c = txs[h].coll
    BY <2>1, TxType DEF IInv
  <2>3. TxOK(h)
    BY <2>1 DEF IInv, MoneyInv
  <2>4. CASE txs[h].call = "verify"
    <3>1. /\ Stored(c) # NoHash /\ UNCHANGED minted
          /\ verifiedOn' = verifiedOn \cup {Stored(c)}
      BY <1>4, <2>2, <2>3, <2>4 DEF Succeed, TxOK
    <3> QED
      BY <1>2, <3>1, VerifyPays DEF PayoutStep
  <2>5. CASE txs[h].call = "complete"
    <3>1. /\ Stored(c) \in verifiedOn /\ UNCHANGED verifiedOn
          /\ minted' = minted \cup {Stored(c)}
      BY <1>4, <2>2, <2>3, <2>5 DEF Succeed, TxOK
    <3>2. Stored(c) \notin minted
      BY <1>4, <3>1
    <3> QED
      BY <1>2, <3>1, <3>2, MintPays DEF PayoutStep
  <2> QED
    BY <1>4, <2>4, <2>5 DEF Succeed
<1>5. CASE Time
  BY <1>3, <1>5 DEF Time, WindowCloses
<1>6. CASE Network \/ NetworkFault
  <2>1. PICK h \in DOMAIN txs : Succeed(h) \/ Revert(h) \/ Drop(h)
    BY <1>6 DEF Network, NetworkFault, Land, Overtaken
  <2> QED
    BY <1>3, <1>4, <2>1 DEF Revert, Drop
<1> QED
  BY <1>5, <1>6

\* Every step is a step of the promise, or none.
LEMMA NextPays == IInv /\ [Next]_vars => PayoutStep
<1> SUFFICES ASSUME IInv, [Next]_vars PROVE PayoutStep
  OBVIOUS
<1>1. CASE UNCHANGED vars
  BY <1>1, QuietPays DEF vars, ledgerVars, dbVars
<1>2. ASSUME NEW s \in Sweeps, SweepStep(s) \/ ListFails(s) PROVE PayoutStep
  BY <1>2, QuietPays DEF SweepStep, Tick, List, SweepNext, SweepEnds, ListFails, ledgerVars, dbVars
<1>3. ASSUME NEW w \in Workers, WorkerStep(w) \/ Failure(w) PROVE PayoutStep
  <2>1. CASE \/ ReadRow(w) \/ Resume(w) \/ Submit(w) \/ SubmitRefused(w) \/ SubmitUnanswered(w)
             \/ Confirmed(w) \/ NotConfirmed(w) \/ SaveFails(w) \/ Fault(w) \/ CatchFails(w)
    BY <2>1, QuietPays DEF ReadRow, Resume, Submit, SubmitRefused, SubmitUnanswered, Confirmed,
       NotConfirmed, SaveFails, Fault, CatchFails, ledgerVars, dbVars
  <2> QED
    BY <1>3, <2>1, SavePays DEF WorkerStep, Failure
<1>4. CASE CrashRestart
  BY <1>4, QuietPays DEF CrashRestart, ledgerVars, dbVars
<1> QED
  BY <1>1, <1>2, <1>3, <1>4, RequestPays, NetworkPays DEF Next

\* The first rows are those of the promise.
LEMMA InitPays == Init => Payout!Init
<1> SUFFICES ASSUME Init PROVE Payout!Init
  OBVIOUS
<1>1. \A c \in Collections : /\ row[c].chainTransactionId = 0
                             /\ row[c].chainStatus \in {"none", "PENDING"}
  BY DEF Init, NoHash
<1>2. verifiedOn = {} /\ minted = {}
  BY DEF Init, LedgerInit
<1> QED
  BY <1>1, <1>2 DEF Payout!Init

\* The pipeline keeps the promise of CollectionPayout (the comment at
\* onchain-collection.service.ts:31-49).
THEOREM PipelineImplementsPayout == Spec => ImplementsPayout
<1>1. IInv /\ [Next]_vars => [Payout!Next]_(Payout!vars)
  BY NextPays DEF PayoutStep, Payout!Next
<1> QED
  BY <1>1, InitPays, Invariance, PTL DEF Spec, ImplementsPayout, Payout!Spec

\* The ledger id of a row is never replaced: a retry resumes with it
\* (run, lines 180-186), whoever approved, deleted or restarted meanwhile.
THEOREM IdsAreKept == Spec => LedgerIdKept
<1> DEFINE Kept == \A c \in Collections :
                     row[c].chainTransactionId # NoHash
                       => row'[c].chainTransactionId = row[c].chainTransactionId
<1>1. PayoutStep => Kept
  <2>1. ASSUME NEW c \in Collections, Payout!Record(c) PROVE Kept
    <3>1. Stored(c) = 0
      BY <2>1 DEF Payout!Record, Stored
    <3>2. \A d \in Collections : d # c => Stored(d)' = Stored(d)
      BY <2>1 DEF Payout!Record, Stored
    <3> QED
      BY <3>1, <3>2 DEF Stored, NoHash
  <2>2. ASSUME NEW c \in Collections, Payout!Verify(c) \/ Payout!Mint(c) \/ Payout!Report(c)
        PROVE  Kept
    BY <2>2 DEF Payout!Verify, Payout!Mint, Payout!Report
  <2>3. ASSUME UNCHANGED Payout!vars PROVE Kept
    BY <2>3 DEF Payout!vars
  <2> QED
    BY <2>1, <2>2, <2>3 DEF PayoutStep
<1>2. IInv /\ [Next]_vars => [Kept]_vars
  BY <1>1, NextPays
<1> QED
  BY <1>2, Invariance, PTL DEF Spec, LedgerIdKept

-----------------------------------------------------------------------------
(* Fifth invariant: how many records a collection can get.  A new record   *)
(* is made when the row names neither an id nor a record that landed, so a *)
(* second one needs a submission the row does not know of: its answer or   *)
(* its save was lost, or the server went down before the save.             *)

Mishaps == faults + crashes

Few(S, n) == IsFiniteSet(S) /\ Cardinality(S) <= n

\* The records of c that are on the ledger or may still get there.
Live(c) == {h \in 1..Len(txs) : IsRecordTx(h, c) /\ txs[h].state \in {"pending", "success"}}

IsLanded(h) == h # NoHash /\ Landed(h)

\* No call will record c again.
Done(c) == ~row[c].exists \/ Stored(c) # NoHash \/ IsLanded(row[c].chainRecordTxHash)

RecordStage(k) == k.at \in {"saving", "polling"} /\ k.call = "record"

Recording(c) == \E w \in Workers : worker[w].coll = c /\ RecordStage(worker[w])

\* One record was due; each other one took a mishap, and so does the first
\* when nothing shows that it was made.
RowCounts(c) ==
  /\ Few(Live(c), 1 + Mishaps)
  /\ Done(c) \/ Recording(c) \/ Few(Live(c), Mishaps)

\* A call that records c again knows that each record so far took a mishap.
WorkerCounts(w) ==
  LET k == worker[w]
      c == k.coll
  IN  /\ k.at = "preparing" =>
           /\ k.id = Stored(c) /\ k.hash = row[c].chainRecordTxHash
           /\ k.id = NoHash /\ ~IsLanded(k.hash) => Few(Live(c), Mishaps)
      /\ k.at = "queued" /\ k.call = "record" => Few(Live(c), Mishaps)
      /\ RecordStage(k) => Few(Live(c) \ {k.hash}, Mishaps)
      /\ k.at = "polling" /\ k.call = "record" => row[c].chainRecordTxHash = k.hash
      /\ k.at = "recorded" => Done(c)

RecordInv ==
  /\ \A c \in Collections : RowCounts(c)
  /\ \A w \in Workers : WorkerCounts(w)

\* A part of a small set is small.
LEMMA FewSubset ==
  ASSUME NEW S, NEW T, NEW m \in Nat, NEW n \in Nat, Few(S, m), T \subseteq S, m <= n
  PROVE  Few(T, n)
<1>1. IsFiniteSet(T) /\ Cardinality(T) <= Cardinality(S)
  BY FS_Subset DEF Few
<1>2. Cardinality(S) \in Nat /\ Cardinality(T) \in Nat
  BY <1>1, FS_CardinalityType DEF Few
<1> QED
  BY <1>1, <1>2 DEF Few

\* ... also of one that may be larger by one.
LEMMA FewMore ==
  ASSUME NEW S, NEW T, NEW m \in Nat, NEW n \in Nat, Few(S, 1 + m), T \subseteq S, m <= n
  PROVE  Few(T, 1 + n)
<1>1. 1 + m \in Nat /\ 1 + n \in Nat /\ 1 + m <= 1 + n
  OBVIOUS
<1> QED
  BY <1>1, FewSubset

\* One more element.
LEMMA FewAdd ==
  ASSUME NEW S, NEW T, NEW x, NEW n \in Nat, Few(S, n), T \subseteq S \cup {x}
  PROVE  Few(T, 1 + n)
<1>1. IsFiniteSet(S \cup {x}) /\ Cardinality(S \cup {x}) \in {Cardinality(S), Cardinality(S) + 1}
  BY FS_AddElement DEF Few
<1>2. Cardinality(S) \in Nat
  BY FS_CardinalityType DEF Few
<1>3. Few(S \cup {x}, 1 + n)
  BY <1>1, <1>2 DEF Few
<1> QED
  BY <1>3, FewSubset

\* Mishaps are counted.
LEMMA MishapsType == ASSUME TypeInv PROVE Mishaps \in Nat
BY DEF Mishaps, TypeInv, TypeOK

\* ... and none is forgotten.
LEMMA MishapsGrow ==
  ASSUME TypeInv, crashes' = crashes, faults' \in {faults, faults + 1}
  PROVE  Mishaps' \in Nat /\ Mishaps <= Mishaps'
<1>1. PICK m \in Nat, n \in Nat : m = faults /\ n = crashes
  BY DEF TypeInv, TypeOK
<1>2. CASE faults' = m
  BY <1>1, <1>2 DEF Mishaps
<1>3. CASE faults' = m + 1
  BY <1>1, <1>3 DEF Mishaps
<1> QED
  BY <1>1, <1>2, <1>3

\* What happens to the ledger and to the count of mishaps: no record that landed
\* is lost, and none of c comes to life unless a call submits it.
LedgerAges ==
  /\ \A h \in 1..Len(txs) : Landed(h) => Landed(h)'
  /\ Mishaps' \in Nat /\ Mishaps <= Mishaps'

NoneAdded(c) == Live(c)' \subseteq Live(c)

OnlySettles == LedgerAges /\ \A c \in Collections : NoneAdded(c)

\* A ledger nobody touched.
LEMMA LedgerStays ==
  ASSUME UNCHANGED txs, Mishaps' \in Nat, Mishaps <= Mishaps'
  PROVE  OnlySettles
BY DEF OnlySettles, LedgerAges, NoneAdded, Live, IsRecordTx, Landed

\* What is done stays done while the row keeps its id and its hash.
LEMMA DoneStays ==
  ASSUME IInv, NEW c \in Collections, Done(c), LedgerAges,
         row'[c].exists => row[c].exists,
         row'[c].chainTransactionId = row[c].chainTransactionId,
         row'[c].chainRecordTxHash = row[c].chainRecordTxHash
  PROVE  Done(c)'
<1>1. row[c].chainRecordTxHash # NoHash => row[c].chainRecordTxHash \in 1..Len(txs)
  BY DEF IInv, MoneyInv, RowOK, IsRecordTx
<1> QED
  BY <1>1 DEF Done, Stored, IsLanded, LedgerAges, Landed

\* A call that did not move keeps what it knows while its row does.
LEMMA CountsStay ==
  ASSUME IInv, LedgerAges, NEW w \in Workers, WorkerCounts(w), worker'[w] = worker[w],
         worker[w].at # "idle" =>
           LET c == worker[w].coll
           IN  /\ NoneAdded(c)
               /\ row'[c].exists => row[c].exists
               /\ row'[c].chainTransactionId = row[c].chainTransactionId
               /\ row'[c].chainRecordTxHash = row[c].chainRecordTxHash
  PROVE  WorkerCounts(w)'
<1> DEFINE k == worker[w]
           c == k.coll
<1>1. CASE k.at = "idle"
  BY <1>1 DEF WorkerCounts, RecordStage
<1>2. CASE k.at # "idle"
  <2>1. c \in Collections /\ WorkerOK(w) /\ Mishaps \in Nat
    BY <1>2, MishapsType DEF IInv, TypeInv, WorkerShape, MoneyInv
  <2>2. /\ Live(c)' \subseteq Live(c) /\ Live(c)' \ {k.hash} \subseteq Live(c) \ {k.hash}
        /\ Mishaps' \in Nat /\ Mishaps <= Mishaps'
    BY <1>2 DEF LedgerAges, NoneAdded
  <2>3. Few(Live(c), Mishaps) => Few(Live(c)', Mishaps')
    BY <2>1, <2>2, FewSubset
  <2>4. Few(Live(c) \ {k.hash}, Mishaps) => Few(Live(c)' \ {k.hash}, Mishaps')
    BY <2>1, <2>2, FewSubset
  <2>5. k.at = "preparing" /\ IsLanded(k.hash) => IsLanded(k.hash)'
    BY <2>1 DEF IsLanded, LedgerAges, Landed, WorkerOK, IsRecordTx
  <2>6. Done(c) => Done(c)'
    BY <1>2, <2>1, DoneStays
  <2>7. /\ Stored(c)' = Stored(c)
        /\ row'[c].chainRecordTxHash = row[c].chainRecordTxHash
    BY <1>2 DEF Stored
  <2> QED
    BY <2>3, <2>4, <2>5, <2>6, <2>7 DEF WorkerCounts, RecordStage, IsLanded, Landed, Few, Live,
       Stored, Done
<1> QED
  BY <1>1, <1>2

\* A row keeps its count while whoever records it stays with it.
LEMMA RowCountsStay ==
  ASSUME IInv, LedgerAges, NEW c \in Collections, NoneAdded(c), RowCounts(c),
         row'[c].exists => row[c].exists,
         row'[c].chainTransactionId = row[c].chainTransactionId,
         row'[c].chainRecordTxHash = row[c].chainRecordTxHash,
         \A v \in Workers : worker[v].coll = c /\ RecordStage(worker[v]) =>
           worker'[v].coll = c /\ RecordStage(worker'[v])
  PROVE  RowCounts(c)'
<1>1. Mishaps \in Nat /\ Mishaps' \in Nat /\ Mishaps <= Mishaps' /\ Live(c)' \subseteq Live(c)
  BY MishapsType DEF IInv, LedgerAges, NoneAdded
<1>2. Few(Live(c), 1 + Mishaps) => Few(Live(c)', 1 + Mishaps')
  BY <1>1, FewMore
<1>3. Few(Live(c), Mishaps) => Few(Live(c)', Mishaps')
  BY <1>1, FewSubset
<1>4. Done(c) => Done(c)'
  BY DoneStays
<1>5. Recording(c) => Recording(c)'
  BY DEF Recording
<1> QED
  BY <1>2, <1>3, <1>4, <1>5 DEF RowCounts, Few, Live

\* A step that records nothing and gives up no record on its way: rows keep
\* their ids and hashes, and the calls that move know what they must.
LEMMA RecordsStay ==
  ASSUME IInv, RecordInv, OnlySettles,
         \A c \in Collections :
           /\ row'[c].exists => row[c].exists
           /\ row'[c].chainTransactionId = row[c].chainTransactionId
           /\ row'[c].chainRecordTxHash = row[c].chainRecordTxHash,
         \A v \in Workers :
           \/ worker'[v] = worker[v]
           \/ ~RecordStage(worker[v]) /\ WorkerCounts(v)'
  PROVE  RecordInv'
<1>1. ASSUME NEW c \in Collections PROVE RowCounts(c)'
  BY RowCountsStay DEF RecordInv, OnlySettles
<1>2. ASSUME NEW v \in Workers PROVE WorkerCounts(v)'
  <2>1. worker[v].at # "idle" => worker[v].coll \in Collections
    BY DEF IInv, TypeInv, WorkerShape
  <2> QED
    BY <2>1, CountsStay DEF RecordInv, OnlySettles
<1> QED
  BY <1>1, <1>2 DEF RecordInv

\* A step of the running call w that may write its row, and no other.
LEMMA OneCallRecords ==
  ASSUME IInv, RecordInv, LedgerAges, NEW w \in Workers, worker[w].at # "idle",
         NEW c \in Collections, c = worker[w].coll,
         \A d \in Collections : d # c => NoneAdded(d),
         \A d \in Collections : d # c => row'[d] = row[d],
         \A v \in Workers : v # w => worker'[v] = worker[v],
         RowCounts(c)', WorkerCounts(w)'
  PROVE  RecordInv'
<1>1. ASSUME NEW d \in Collections, d # c PROVE RowCounts(d)'
  <2>1. \A v \in Workers : worker[v].coll = d => worker'[v] = worker[v]
    BY <1>1
  <2> QED
    BY <1>1, <2>1, RowCountsStay DEF RecordInv
<1>2. ASSUME NEW v \in Workers, v # w PROVE WorkerCounts(v)'
  <2>1. worker[v].at # "idle" => worker[v].coll \in Collections /\ worker[v].coll # c
    BY <1>2 DEF IInv, TypeInv, WorkerShape, CallInv
  <2> QED
    BY <1>2, <2>1, CountsStay DEF RecordInv
<1> QED
  BY <1>1, <1>2 DEF RecordInv

\* A call that has gone, has just started or has failed knows nothing.
LEMMA NothingCounted ==
  ASSUME NEW w \in Workers,
         \/ worker'[w].at \in {"idle", "reading", "verified", "payment", "paid", "failed"}
         \/ worker'[w].at = "queued" /\ worker'[w].call # "record"
         \/ worker'[w].at \in {"saving", "polling"} /\ worker'[w].call # "record"
  PROVE  WorkerCounts(w)'
BY DEF WorkerCounts, RecordStage

-----------------------------------------------------------------------------
(* How the running calls count.                                            *)

\* A call fails.  One that was recording leaves a row that is gone, a record
\* that is dead, or a mishap.
LEMMA ThrowCounts ==
  ASSUME IInv, RecordInv, NEW w \in Workers, Throw(w), UNCHANGED <<txs, row>>,
         worker[w].at # "idle", Mishaps' \in Nat, Mishaps <= Mishaps',
         RecordStage(worker[w]) =>
           \/ ~row[worker[w].coll].exists
           \/ txs[worker[w].hash].state \in {"failed", "dropped"}
           \/ Mishaps' = Mishaps + 1
  PROVE  RecordInv'
<1> DEFINE k == worker[w]
<1> PICK c \in Collections : c = k.coll
  BY DEF IInv, TypeInv, WorkerShape
<1>1. worker'[w].at = "failed" /\ \A v \in Workers : v # w => worker'[v] = worker[v]
  BY GotoFields DEF Throw, IInv
<1>2. OnlySettles /\ WorkerCounts(w)' /\ Mishaps \in Nat
  BY <1>1, LedgerStays, NothingCounted, MishapsType DEF IInv
<1>3. CASE ~RecordStage(k)
  BY <1>1, <1>2, <1>3, RecordsStay
<1>4. CASE RecordStage(k)
  <2>1. RowCounts(c) /\ Few(Live(c) \ {k.hash}, Mishaps) /\ Live(c)' = Live(c)
    BY <1>4 DEF RecordInv, WorkerCounts, Live, IsRecordTx
  <2>2. Few(Live(c), 1 + Mishaps')
    BY <1>2, <2>1, FewSubset DEF RowCounts
  <2>3. CASE ~row[c].exists
    <3>1. Done(c)'
      BY <2>3 DEF Done
    <3>2. RowCounts(c)'
      BY <2>1, <2>2, <3>1 DEF RowCounts, Few
    <3> QED
      BY <1>1, <1>2, <3>2, OneCallRecords DEF OnlySettles
  <2>4. CASE txs[k.hash].state \in {"failed", "dropped"}
    <3>1. Live(c) \subseteq Live(c) \ {k.hash}
      BY <2>4 DEF Live
    <3>2. Few(Live(c), Mishaps')
      BY <1>2, <2>1, <3>1, FewSubset
    <3>3. RowCounts(c)'
      BY <2>1, <2>2, <3>2 DEF RowCounts, Few
    <3> QED
      BY <1>1, <1>2, <3>3, OneCallRecords DEF OnlySettles
  <2>5. CASE Mishaps' = Mishaps + 1
    <3>1. Few(Live(c), Mishaps')
      BY <1>2, <2>1, <2>5, FewSubset DEF RowCounts
    <3>2. RowCounts(c)'
      BY <2>1, <2>2, <3>1 DEF RowCounts, Few
    <3> QED
      BY <1>1, <1>2, <3>2, OneCallRecords DEF OnlySettles
  <2> QED
    BY <1>4, <2>3, <2>4, <2>5
<1> QED
  BY <1>3, <1>4

\* A step of the service that goes well: the ledger and the mishaps stay.
LEMMA NoMishap ==
  ASSUME IInv, UNCHANGED txs, UNCHANGED budgetVars
  PROVE  OnlySettles /\ Mishaps' = Mishaps /\ Mishaps \in Nat
<1>1. Mishaps' = Mishaps /\ Mishaps \in Nat
  BY MishapsType DEF IInv, Mishaps, budgetVars
<1> QED
  BY <1>1, LedgerStays

\* process() reads a row that nobody else is recording.
LEMMA ReadRowCounts ==
  ASSUME IInv, RecordInv, NEW w \in Workers, ReadRow(w)
  PROVE  RecordInv'
<1> DEFINE k == worker[w]
           r == row[k.coll]
           j == [k EXCEPT !.at = "preparing", !.id = r.chainTransactionId,
                          !.hash = r.chainRecordTxHash]
<1>1. TypeInv /\ k.at = "reading" /\ UNCHANGED <<txs, row>> /\ UNCHANGED budgetVars
  BY DEF IInv, ReadRow, ledgerVars, dbVars
<1>2. OnlySettles /\ Mishaps' = Mishaps
  BY <1>1, NoMishap
<1>3. CASE Release(w)
  BY <1>1, <1>2, <1>3, ReleaseFields, NothingCounted, RecordsStay DEF RecordStage
<1>4. CASE ToRun(r) /\ Become(w, j)
  <2>1. /\ j.at = "preparing" /\ j.coll = k.coll
        /\ j.id = r.chainTransactionId /\ j.hash = r.chainRecordTxHash
    BY <1>1 DEF TypeInv, TypeOK, WorkerStates
  <2> HIDE DEF j
  <2>2. worker'[w] = j /\ \A v \in Workers : v # w => worker'[v] = worker[v]
    BY <1>1, <1>4, OthersStay
  <2>3. RowCounts(k.coll)
    BY <1>1 DEF RecordInv, TypeInv, WorkerShape
  <2>4. ~Recording(k.coll)
    BY <1>1 DEF Recording, RecordStage, IInv, CallInv
  <2>5. j.id = NoHash /\ ~IsLanded(j.hash) => Few(Live(k.coll), Mishaps)
    BY <1>4, <2>1, <2>3, <2>4 DEF RowCounts, Done, Stored, ToRun
  <2>6. WorkerCounts(w)'
    BY <1>1, <1>2, <2>1, <2>2, <2>5
       DEF WorkerCounts, RecordStage, Stored, IsLanded, Landed, Live, IsRecordTx, Few
  <2> QED
    BY <1>1, <1>2, <2>2, <2>6, RecordsStay DEF RecordStage
<1> QED
  BY <1>3, <1>4 DEF ReadRow

\* run() makes a record only when each one so far took a mishap.
LEMMA ResumeCounts ==
  ASSUME IInv, RecordInv, NEW w \in Workers, Resume(w)
  PROVE  RecordInv'
<1> DEFINE k == worker[w]
           landed == k.hash # NoHash /\ Landed(k.hash)
           j == [k EXCEPT !.at = "recorded", !.id = k.hash]
<1>1. /\ TypeInv /\ WorkerCounts(w) /\ k.at = "preparing" /\ k.coll \in Collections
      /\ UNCHANGED <<txs, row>> /\ UNCHANGED budgetVars
  BY DEF IInv, TypeInv, WorkerShape, RecordInv, Resume, ledgerVars, dbVars
<1>2. OnlySettles /\ Mishaps' = Mishaps
  BY <1>1, NoMishap
<1>3. k.id = Stored(k.coll) /\ k.hash = row[k.coll].chainRecordTxHash
  BY <1>1 DEF WorkerCounts
<1>4. ASSUME Done(k.coll), worker'[w].at = "recorded", worker'[w].coll = k.coll,
             \A v \in Workers : v # w => worker'[v] = worker[v]
      PROVE  RecordInv'
  <2>1. Done(k.coll)'
    BY <1>1, <1>2, <1>4, DoneStays DEF OnlySettles
  <2>2. WorkerCounts(w)'
    BY <1>4, <2>1 DEF WorkerCounts, RecordStage, Done, Stored, IsLanded, Landed
  <2> QED
    BY <1>1, <1>2, <1>4, <2>2, RecordsStay DEF RecordStage
<1>5. CASE k.id # NoHash /\ Goto(w, "recorded")
  BY <1>1, <1>3, <1>4, <1>5, GotoFields DEF Done
<1>6. CASE k.id = NoHash /\ landed /\ Become(w, j)
  <2>1. j.at = "recorded" /\ j.coll = k.coll
    BY <1>1 DEF TypeInv, TypeOK, WorkerStates
  <2> HIDE DEF j
  <2>2. worker'[w] = j /\ \A v \in Workers : v # w => worker'[v] = worker[v]
    BY <1>1, <1>6, OthersStay
  <2>3. Done(k.coll)
    BY <1>3, <1>6 DEF Done, IsLanded
  <2> QED
    BY <1>4, <2>1, <2>2, <2>3
<1>7. CASE k.id = NoHash /\ ~landed /\ Enqueue(w, "record", NoHash)
  <2>1. /\ worker'[w].at = "queued" /\ worker'[w].coll = k.coll
        /\ \A v \in Workers : v # w => worker'[v] = worker[v]
    BY <1>1, <1>7, EnqueueFields
  <2>2. Few(Live(k.coll), Mishaps)
    BY <1>1, <1>7 DEF WorkerCounts, IsLanded
  <2>3. WorkerCounts(w)'
    BY <1>1, <1>2, <2>1, <2>2 DEF WorkerCounts, RecordStage, Live, IsRecordTx, Few
  <2> QED
    BY <1>1, <1>2, <2>1, <2>3, RecordsStay DEF RecordStage
<1> QED
  BY <1>5, <1>6, <1>7 DEF Resume

\* A confirmed record is one its row shows.
LEMMA ConfirmedCounts ==
  ASSUME IInv, RecordInv, NEW w \in Workers, Confirmed(w)
  PROVE  RecordInv'
<1> DEFINE k == worker[w]
           j == [k EXCEPT !.at = After(k.call), !.call = "none",
                          !.id = IF k.call = "record" THEN k.hash ELSE k.id]
<1> PICK c \in Collections : c = k.coll
  BY DEF IInv, TypeInv, WorkerShape, Confirmed
<1>1. /\ TypeInv /\ WorkerCounts(w) /\ k.at = "polling" /\ Landed(k.hash) /\ Become(w, j)
      /\ k.call \in Calls /\ k.hash \in 1..Len(txs)
      /\ UNCHANGED <<txs, row>> /\ UNCHANGED budgetVars
  BY DEF IInv, TypeInv, WorkerShape, RecordInv, Confirmed, ledgerVars, dbVars
<1>2. OnlySettles /\ Mishaps' = Mishaps
  BY <1>1, NoMishap
<1>3. j.at = After(k.call) /\ j.coll = c
  BY <1>1 DEF TypeInv, TypeOK, WorkerStates
<1> HIDE DEF j
<1>4. worker'[w] = j /\ \A v \in Workers : v # w => worker'[v] = worker[v]
  BY <1>1, OthersStay
<1>5. CASE k.call = "record"
  <2>1. Done(c)
    BY <1>1, <1>5 DEF WorkerCounts, Done, IsLanded, NoHash
  <2>2. Done(c)'
    BY <1>1, <1>2, <2>1, DoneStays DEF OnlySettles
  <2>3. j.at = "recorded"
    BY <1>3, <1>5 DEF After
  <2>4. WorkerCounts(w)'
    BY <1>3, <1>4, <2>2, <2>3 DEF WorkerCounts, RecordStage, Done, Stored, IsLanded, Landed
  <2>5. RowCounts(c)'
    BY <1>1, <1>2, <2>2 DEF RecordInv, RowCounts, Live, IsRecordTx, Few
  <2> QED
    BY <1>1, <1>2, <1>4, <2>4, <2>5, OneCallRecords DEF OnlySettles
<1>6. CASE k.call # "record"
  <2>1. j.at \in {"verified", "payment", "paid"}
    BY <1>1, <1>3, <1>6 DEF After, Calls
  <2>2. WorkerCounts(w)'
    BY <1>4, <2>1, NothingCounted
  <2> QED
    BY <1>1, <1>2, <1>4, <1>6, <2>2, RecordsStay DEF RecordStage
<1> QED
  BY <1>5, <1>6

\* The row of a record shows its hash from here on.
LEMMA SaveHashCounts ==
  ASSUME IInv, RecordInv, NEW w \in Workers, SaveHash(w)
  PROVE  RecordInv'
<1> DEFINE k == worker[w]
<1> PICK c \in Collections : c = k.coll
  BY DEF IInv, TypeInv, WorkerShape, SaveHash
<1> DEFINE r == IF k.call = "record" THEN [row[c] EXCEPT !.chainRecordTxHash = k.hash] ELSE row[c]
<1>1. /\ TypeInv /\ WorkerCounts(w) /\ k.at = "saving" /\ Goto(w, "polling") /\ Write(c, r)
      /\ UNCHANGED txs /\ UNCHANGED budgetVars
  BY DEF IInv, RecordInv, SaveHash, ledgerVars
<1>2. OnlySettles /\ Mishaps' = Mishaps
  BY <1>1, NoMishap
<1>3. r.exists = row[c].exists /\ (k.call = "record" => r.chainRecordTxHash = k.hash)
  BY <1>1 DEF TypeInv, TypeOK, Rows
<1>4. k.call # "record" => r = row[c]
  OBVIOUS
<1> HIDE DEF r
<1>5. row'[c] = r /\ \A d \in Collections : d # c => row'[d] = row[d]
  BY <1>1 DEF Write, TypeInv, TypeOK
<1>6. /\ worker'[w].at = "polling" /\ worker'[w].coll = c /\ worker'[w].call = k.call
      /\ worker'[w].hash = k.hash
      /\ \A v \in Workers : v # w => worker'[v] = worker[v]
  BY <1>1, GotoFields
<1>7. CASE k.call = "record"
  <2>1. Few(Live(c) \ {k.hash}, Mishaps) /\ Few(Live(c), 1 + Mishaps) /\ Live(c)' = Live(c)
    BY <1>1, <1>7 DEF RecordInv, RowCounts, WorkerCounts, RecordStage, Live, IsRecordTx
  <2>2. Recording(c)'
    BY <1>6, <1>7 DEF Recording, RecordStage
  <2>3. RowCounts(c)'
    BY <1>2, <2>1, <2>2 DEF RowCounts, Few
  <2>4. WorkerCounts(w)'
    BY <1>2, <1>3, <1>5, <1>6, <1>7, <2>1 DEF WorkerCounts, RecordStage, Few
  <2> QED
    BY <1>1, <1>2, <1>5, <1>6, <2>3, <2>4, OneCallRecords DEF OnlySettles
<1>8. CASE k.call # "record"
  <2>1. WorkerCounts(w)'
    BY <1>6, <1>8, NothingCounted
  <2>2. \A d \in Collections : row'[d] = row[d]
    BY <1>4, <1>5, <1>8
  <2> QED
    BY <1>2, <1>6, <1>8, <2>1, <2>2, RecordsStay DEF RecordStage
<1> QED
  BY <1>7, <1>8

\* With the ledger id stored, no call records again.
LEMMA SaveRecordedCounts ==
  ASSUME IInv, RecordInv, NEW w \in Workers, SaveRecorded(w)
  PROVE  RecordInv'
<1> DEFINE k == worker[w]
<1> PICK c \in Collections : c = k.coll
  BY DEF IInv, TypeInv, WorkerShape, SaveRecorded
<1> DEFINE r == [row[c] EXCEPT !.chainTransactionId = k.id, !.chainStatus = "RECORDED"]
<1>1. /\ TypeInv /\ WorkerOK(w) /\ k.at = "recorded" /\ Write(c, r)
      /\ Goto(w, "verified") \/ Enqueue(w, "verify", k.id)
      /\ UNCHANGED txs /\ UNCHANGED budgetVars
  BY DEF IInv, MoneyInv, SaveRecorded, ledgerVars
<1>2. OnlySettles /\ Mishaps' = Mishaps
  BY <1>1, NoMishap
<1>3. r.chainTransactionId = k.id /\ k.id # NoHash
  BY <1>1 DEF WorkerOK, TypeInv, TypeOK, Rows
<1> HIDE DEF r
<1>4. row'[c] = r /\ \A d \in Collections : d # c => row'[d] = row[d]
  BY <1>1 DEF Write, TypeInv, TypeOK
<1>5. Done(c)'
  BY <1>3, <1>4 DEF Done, Stored
<1>6. RowCounts(c)'
  BY <1>1, <1>2, <1>5 DEF RecordInv, RowCounts, Live, IsRecordTx, Few
<1>7. GoesOn(w, "verified", "verify", k.id)
  BY <1>1, GoesOnFields
<1>8. WorkerCounts(w)'
  BY <1>7, NothingCounted DEF GoesOn
<1> QED
  BY <1>1, <1>2, <1>4, <1>6, <1>7, <1>8, OneCallRecords DEF OnlySettles, GoesOn

\* The later saves keep the id and the hash, and so does the catch block.
LEMMA LaterSaveCounts ==
  ASSUME IInv, RecordInv, NEW w \in Workers, NEW c \in Collections, NEW r,
         Write(c, r) \/ UNCHANGED row, UNCHANGED txs,
         Mishaps' \in Nat, Mishaps <= Mishaps',
         r.exists = row[c].exists,
         r.chainTransactionId = row[c].chainTransactionId,
         r.chainRecordTxHash = row[c].chainRecordTxHash,
         \A v \in Workers : v # w => worker'[v] = worker[v],
         ~RecordStage(worker[w]), WorkerCounts(w)'
  PROVE  RecordInv'
<1>1. \A d \in Collections :
        /\ row'[d].exists = row[d].exists
        /\ row'[d].chainTransactionId = row[d].chainTransactionId
        /\ row'[d].chainRecordTxHash = row[d].chainRecordTxHash
  BY DEF Write, IInv, TypeInv, TypeOK
<1> QED
  BY <1>1, LedgerStays, RecordsStay

\* The saves after RECORDED, and the catch block.
LEMMA SaveCounts ==
  ASSUME IInv, RecordInv, NEW w \in Workers,
         \/ SaveVerified(w) \/ SavePaymentId(w) \/ SavePaid(w)
         \/ CatchSave(w) \/ CatchFails(w)
  PROVE  RecordInv'
<1> DEFINE k == worker[w]
<1> PICK c \in Collections : c = k.coll
  BY DEF IInv, TypeInv, WorkerShape, SaveVerified, SavePaymentId, SavePaid, CatchSave, CatchFails
<1>1. /\ TypeInv /\ row[c] \in Rows /\ ~RecordStage(k) /\ UNCHANGED txs
      /\ Mishaps \in Nat
  BY MishapsType DEF IInv, TypeInv, TypeOK, RecordStage, SaveVerified, SavePaymentId, SavePaid,
     CatchSave, CatchFails, ledgerVars
<1>2. Mishaps' \in Nat /\ Mishaps <= Mishaps'
  BY <1>1 DEF TypeInv, TypeOK, Mishaps, budgetVars, SaveVerified, SavePaymentId, SavePaid,
     CatchSave, CatchFails
<1>3. CASE SaveVerified(w)
  <2> DEFINE r == [row[c] EXCEPT !.chainStatus = "VERIFIED"]
  <2>1. /\ r.exists = row[c].exists /\ r.chainTransactionId = row[c].chainTransactionId
        /\ r.chainRecordTxHash = row[c].chainRecordTxHash
    BY <1>1 DEF Rows
  <2>2. Write(c, r) /\ (Goto(w, "payment") \/ Enqueue(w, "pay", k.id))
    BY <1>3 DEF SaveVerified
  <2> HIDE DEF r
  <2>3. GoesOn(w, "payment", "pay", k.id)
    BY <1>1, <2>2, GoesOnFields
  <2>4. WorkerCounts(w)'
    BY <2>3, NothingCounted DEF GoesOn
  <2> QED
    BY <1>1, <1>2, <2>1, <2>2, <2>3, <2>4, LaterSaveCounts DEF GoesOn
<1>4. CASE SavePaymentId(w)
  <2>1. Write(c, row[c]) /\ (Goto(w, "paid") \/ Enqueue(w, "complete", k.id))
    BY <1>4 DEF SavePaymentId
  <2>2. GoesOn(w, "paid", "complete", k.id)
    BY <1>1, <2>1, GoesOnFields
  <2>3. WorkerCounts(w)'
    BY <2>2, NothingCounted DEF GoesOn
  <2> QED
    BY <1>1, <1>2, <2>1, <2>2, <2>3, LaterSaveCounts DEF GoesOn
<1>5. CASE SavePaid(w) \/ CatchSave(w) \/ CatchFails(w)
  <2>1. worker'[w].at = "idle" /\ \A v \in Workers : v # w => worker'[v] = worker[v]
    BY <1>1, <1>5, ReleaseFields DEF SavePaid, CatchSave, CatchFails
  <2>2. WorkerCounts(w)'
    BY <2>1, NothingCounted
  <2>3. PICK r : /\ Write(c, r) \/ UNCHANGED row
                 /\ \/ r = [row[c] EXCEPT !.chainStatus = "PAID"]
                    \/ r = [row[c] EXCEPT !.chainStatus = "FAILED", !.chainAttempts = @ + 1]
    BY <1>5 DEF SavePaid, CatchSave, CatchFails, dbVars
  <2>4. /\ r.exists = row[c].exists /\ r.chainTransactionId = row[c].chainTransactionId
        /\ r.chainRecordTxHash = row[c].chainRecordTxHash
    BY <1>1, <2>3 DEF Rows
  <2> QED
    BY <1>1, <1>2, <2>1, <2>2, <2>3, <2>4, LaterSaveCounts
<1> QED
  BY <1>3, <1>4, <1>5

-----------------------------------------------------------------------------
(* Submissions, the network, requests and restarts.                        *)

\* A call of the contracts is submitted.  An answer that is lost is a mishap.
LEMMA AcceptCounts ==
  ASSUME IInv, RecordInv, NEW w \in Workers, worker[w].at = "queued",
         Accept(worker[w].call, worker[w].coll, worker[w].id), UNCHANGED row,
         \A v \in Workers : v # w => worker'[v] = worker[v],
         \/ worker'[w].at = "failed" /\ Mishaps' = Mishaps + 1
         \/ /\ worker'[w].at \in {"saving", "polling"} /\ Mishaps' = Mishaps
            /\ worker'[w].at = "polling" => worker[w].call # "record"
            /\ worker'[w].coll = worker[w].coll
            /\ worker'[w].call = worker[w].call
            /\ worker'[w].hash = Len(txs) + 1
  PROVE  RecordInv'
<1> DEFINE k == worker[w]
           n == Len(txs) + 1
           tx == [coll |-> k.coll, call |-> k.call, target |-> k.id,
                  seq |-> sequence[SignerOf(k.call, k.coll)], state |-> "pending"]
<1> PICK c \in Collections : c = k.coll
  BY DEF IInv, TypeInv, WorkerShape
<1>1. TypeInv /\ WorkerCounts(w) /\ Mishaps \in Nat /\ Mishaps' \in Nat /\ Mishaps <= Mishaps'
  BY MishapsType DEF IInv, RecordInv
<1>2. Len(txs) \in Nat /\ txs' = Append(txs, tx)
  BY <1>1, LenProperties DEF TypeInv, TypeOK, LedgerTypeOK, Accept
<1>3. /\ Len(txs') = n
      /\ txs'[n] = tx
      /\ \A h \in 1..Len(txs) : txs'[h] = txs[h]
  BY <1>1, <1>2, AppendProperties DEF TypeInv, TypeOK, LedgerTypeOK
<1>4. /\ 1..Len(txs) \subseteq 1..Len(txs')
      /\ \A h \in 1..Len(txs') : h = n \/ h \in 1..Len(txs)
  BY <1>2, <1>3
<1>5. tx.coll = c /\ tx.call = k.call
  OBVIOUS
<1> HIDE DEF tx, n
<1>6. LedgerAges
  BY <1>1, <1>3 DEF LedgerAges, Landed
<1>7. ASSUME NEW d \in Collections, d # c \/ k.call # "record" PROVE NoneAdded(d)
  BY <1>3, <1>4, <1>5, <1>7 DEF NoneAdded, Live, IsRecordTx
<1>8. Live(c)' \subseteq Live(c) \cup {n} /\ Live(c)' \ {n} \subseteq Live(c)
  BY <1>3, <1>4 DEF Live, IsRecordTx
<1>9. CASE k.call # "record"
  <2>1. WorkerCounts(w)'
    BY <1>9, NothingCounted
  <2>2. OnlySettles
    BY <1>6, <1>7, <1>9 DEF OnlySettles
  <2> QED
    BY <2>1, <2>2, <1>9, RecordsStay DEF RecordStage
<1>10. CASE k.call = "record"
  <2>1. Few(Live(c), Mishaps)
    BY <1>1, <1>10 DEF WorkerCounts
  <2>2. Few(Live(c)', 1 + Mishaps)
    BY <1>1, <1>8, <2>1, FewAdd
  <2>3. CASE worker'[w].at = "failed" /\ Mishaps' = Mishaps + 1
    <3>1. Few(Live(c)', Mishaps') /\ Few(Live(c)', 1 + Mishaps')
      BY <1>1, <2>2, <2>3, FewSubset
    <3>2. RowCounts(c)'
      BY <3>1 DEF RowCounts, Few
    <3>3. WorkerCounts(w)'
      BY <2>3, NothingCounted
    <3> QED
      BY <1>6, <1>7, <3>2, <3>3, OneCallRecords
  <2>4. CASE worker'[w].at = "saving" /\ Mishaps' = Mishaps
    <3>1. worker'[w].coll = c /\ worker'[w].call = "record" /\ worker'[w].hash = n
      BY <1>10, <2>4 DEF n
    <3>2. Recording(c)'
      BY <2>4, <3>1 DEF Recording, RecordStage
    <3>3. RowCounts(c)'
      BY <2>2, <2>4, <3>2 DEF RowCounts, Few
    <3>4. Few(Live(c)' \ {n}, Mishaps')
      BY <1>1, <1>8, <2>1, <2>4, FewSubset
    <3>5. WorkerCounts(w)'
      BY <2>4, <3>1, <3>4 DEF WorkerCounts, RecordStage, Few
    <3> QED
      BY <1>6, <1>7, <3>3, <3>5, OneCallRecords
  <2> QED
    BY <1>10, <2>3, <2>4
<1> QED
  BY <1>9, <1>10

\* A call submits a transaction to the network.
LEMMA SubmitCounts ==
  ASSUME IInv, RecordInv, NEW w \in Workers, Submit(w) \/ SubmitUnanswered(w)
  PROVE  RecordInv'
<1> DEFINE k == worker[w]
           stage == IF StoresHash(k.call) THEN "saving" ELSE "polling"
           j == [k EXCEPT !.hash = Len(txs) + 1, !.at = stage]
<1>1. /\ TypeInv /\ k.at = "queued" /\ Accept(k.call, k.coll, k.id) /\ UNCHANGED row
      /\ faults \in Nat /\ crashes \in Nat
  BY DEF IInv, TypeInv, TypeOK, Submit, SubmitUnanswered, dbVars
<1>2. CASE Submit(w)
  <2>1. /\ j.at = stage /\ j.hash = Len(txs) + 1
        /\ j.coll = k.coll /\ j.call = k.call
    BY <1>1 DEF TypeInv, TypeOK, WorkerStates
  <2>2. Become(w, j) /\ Mishaps' = Mishaps
    BY <1>2 DEF Submit, Mishaps, budgetVars
  <2>3. stage \in {"saving", "polling"} /\ (stage = "polling" => k.call # "record")
    BY DEF StoresHash
  <2> HIDE DEF j, stage
  <2>4. worker'[w] = j /\ \A v \in Workers : v # w => worker'[v] = worker[v]
    BY <1>1, <2>2, OthersStay
  <2> QED
    BY <1>1, <2>1, <2>2, <2>3, <2>4, AcceptCounts
<1>3. CASE SubmitUnanswered(w)
  <2>1. worker'[w].at = "failed" /\ \A v \in Workers : v # w => worker'[v] = worker[v]
    BY <1>1, <1>3, GotoFields DEF SubmitUnanswered, Throw
  <2>2. Mishaps' = Mishaps + 1
    BY <1>1, <1>3 DEF SubmitUnanswered, Mishaps
  <2> QED
    BY <1>1, <2>1, <2>2, AcceptCounts
<1> QED
  BY <1>2, <1>3

\* The network brings no record to life and loses none.
LEMMA NetworkCounts ==
  ASSUME IInv, RecordInv, Network \/ NetworkFault \/ Time
  PROVE  RecordInv'
<1>1. UNCHANGED <<row, worker>> /\ Mishaps' \in Nat /\ Mishaps <= Mishaps'
  BY MishapsType DEF Network, NetworkFault, Time, serviceVars, dbVars, budgetVars, Mishaps,
     IInv, TypeInv, TypeOK
<1>2. CASE Network \/ NetworkFault
  <2>1. PICK h \in DOMAIN txs : Succeed(h) \/ Revert(h) \/ Drop(h)
    BY <1>2 DEF Network, NetworkFault, Land, Overtaken
  <2>2. h \in 1..Len(txs)
    BY <2>1, LenProperties DEF IInv, TypeInv, TypeOK, LedgerTypeOK
  <2>3. PICK outcome : txs[h].state = "pending" /\ txs' = [txs EXCEPT ![h].state = outcome]
    BY <2>1 DEF Succeed, Revert, Include, Includable, Drop
  <2>4. txs \in Seq(Transactions) /\ txs[h] \in Transactions
    BY <2>2, TxType DEF IInv, TypeInv, TypeOK, LedgerTypeOK
  <2>5. /\ Len(txs') = Len(txs)
        /\ \A g \in 1..Len(txs) : g # h => txs'[g] = txs[g]
        /\ txs'[h] = [txs[h] EXCEPT !.state = outcome]
    BY <2>2, <2>3, <2>4, ExceptSeq
  <2>6. txs'[h].call = txs[h].call /\ txs'[h].coll = txs[h].coll
    BY <2>4, <2>5 DEF Transactions
  <2>7. \A c \in Collections : NoneAdded(c)
    BY <2>3, <2>5, <2>6 DEF NoneAdded, Live, IsRecordTx
  <2>8. \A g \in 1..Len(txs) : Landed(g) => Landed(g)'
    BY <2>3, <2>5 DEF Landed
  <2> QED
    BY <1>1, <2>7, <2>8, RecordsStay DEF OnlySettles, LedgerAges
<1>3. CASE Time
  <2>1. UNCHANGED txs
    BY <1>3 DEF Time, WindowCloses
  <2> QED
    BY <1>1, <2>1, LedgerStays, RecordsStay
<1> QED
  BY <1>2, <1>3

\* Requests and ticks start calls and write neither ids nor hashes.
LEMMA ServiceCounts ==
  ASSUME IInv, RecordInv,
         \/ \E c \in Collections : Request(c)
         \/ \E s \in Sweeps : SweepStep(s) \/ ListFails(s)
  PROVE  RecordInv'
<1>1. TypeInv /\ row \in [Collections -> Rows]
  BY DEF IInv, TypeInv, TypeOK
<1>2. UNCHANGED txs
  BY DEF Request, VerifyRead, Approve, Reject, ReviewFails, Delete, SweepStep, Tick, List,
     SweepNext, SweepEnds, ListFails, ledgerVars
<1>3. Mishaps' \in Nat /\ Mishaps <= Mishaps'
  <2>1. crashes' = crashes /\ faults' \in {faults, faults + 1}
    BY DEF Request, VerifyRead, Approve, Reject, ReviewFails, Delete, SweepStep, Tick, List,
       SweepNext, SweepEnds, ListFails, budgetVars
  <2> QED
    BY <1>1, <2>1, MishapsGrow
<1>4. \A c \in Collections :
        /\ row'[c].exists => row[c].exists
        /\ row'[c].chainTransactionId = row[c].chainTransactionId
        /\ row'[c].chainRecordTxHash = row[c].chainRecordTxHash
  <2>1. CASE UNCHANGED row
    BY <2>1
  <2>2. ASSUME NEW c \in Collections, Request(c), row' # row
        PROVE  \E r \in Rows : /\ row' = [row EXCEPT ![c] = r]
                               /\ r.exists => row[c].exists
                               /\ r.chainTransactionId = row[c].chainTransactionId
                               /\ r.chainRecordTxHash = row[c].chainRecordTxHash
    <3>1. row[c] \in Rows
      BY <1>1
    <3>2. CASE Approve(c)
      <4> DEFINE r == [row[c] EXCEPT !.verified = TRUE, !.chainStatus = "PENDING"]
      <4>1. /\ r \in Rows /\ r.exists = row[c].exists
            /\ r.chainTransactionId = row[c].chainTransactionId
            /\ r.chainRecordTxHash = row[c].chainRecordTxHash
        BY <3>1 DEF Rows, ChainStatuses
      <4> QED
        BY <3>2, <4>1 DEF Approve, Write
    <3>3. CASE Reject(c)
      <4> DEFINE r == [row[c] EXCEPT !.verified = TRUE, !.paymentStatus = "CANCELLED"]
      <4>1. /\ r \in Rows /\ r.exists = row[c].exists
            /\ r.chainTransactionId = row[c].chainTransactionId
            /\ r.chainRecordTxHash = row[c].chainRecordTxHash
        BY <3>1 DEF Rows
      <4> QED
        BY <3>3, <4>1 DEF Reject, Write
    <3>4. CASE Delete(c)
      <4> DEFINE r == [row[c] EXCEPT !.exists = FALSE]
      <4>1. /\ r \in Rows /\ r.exists = FALSE
            /\ r.chainTransactionId = row[c].chainTransactionId
            /\ r.chainRecordTxHash = row[c].chainRecordTxHash
        BY <3>1 DEF Rows
      <4> QED
        BY <3>4, <4>1 DEF Delete
    <3> QED
      BY <2>2, <3>2, <3>3, <3>4 DEF Request, VerifyRead, ReviewFails, dbVars
  <2>3. ASSUME NEW s \in Sweeps, SweepStep(s) \/ ListFails(s) PROVE UNCHANGED row
    BY <2>3 DEF SweepStep, Tick, List, SweepNext, SweepEnds, ListFails, dbVars
  <2> QED
    BY <1>1, <2>1, <2>2, <2>3
<1>5. ASSUME NEW w \in Workers, NEW c \in Collections, Process(w, c),
             ~Running(c) => worker[w].at = "idle",
             NEW v \in Workers
      PROVE  worker'[v] = worker[v] \/ (~RecordStage(worker[v]) /\ WorkerCounts(v)')
  <2>1. CASE Running(c)
    BY <1>5, <2>1 DEF Process
  <2>2. CASE ~Running(c)
    <3> DEFINE k == [NoWork EXCEPT !.at = "reading", !.coll = c]
    <3>1. k.at = "reading" /\ Become(w, k)
      BY <1>5, <2>2 DEF NoWork, Process, StartWorker
    <3> HIDE DEF k
    <3>2. worker'[w] = k /\ \A u \in Workers : u # w => worker'[u] = worker[u]
      BY <1>1, <3>1, OthersStay
    <3>3. WorkerCounts(w)'
      BY <3>1, <3>2, NothingCounted
    <3> QED
      BY <1>5, <2>2, <3>2, <3>3 DEF RecordStage
  <2> QED
    BY <2>1, <2>2
<1>6. ASSUME NEW v \in Workers
      PROVE  worker'[v] = worker[v] \/ (~RecordStage(worker[v]) /\ WorkerCounts(v)')
  <2>1. ASSUME NEW c \in Collections, Approve(c)
        PROVE  c \in Workers /\ Process(c, c) /\ (~Running(c) => worker[c].at = "idle")
    BY <2>1 DEF Approve, Workers, Running, IInv, CallInv
  <2>2. ASSUME NEW s \in Sweeps, SweepNext(s)
        PROVE  /\ s \in Workers /\ worker[s].at = "idle"
               /\ \E c \in Collections : Process(s, c)
    <3>1. sweep[s].due \in Seq(Collections) /\ sweep[s].due # <<>>
      BY <2>2 DEF SweepNext, IInv, TypeInv, TypeOK, SweepStates
    <3>2. Head(sweep[s].due) \in Collections
      BY <3>1, HeadTailProperties
    <3> QED
      BY <2>2, <3>2 DEF SweepNext, Workers
  <2>3. CASE UNCHANGED worker
    BY <2>3
  <2>4. CASE worker' # worker
    <3>1. (\E c \in Collections : Approve(c)) \/ (\E s \in Sweeps : SweepNext(s))
      BY <2>4 DEF Request, VerifyRead, Reject, ReviewFails, Delete, SweepStep, Tick, List,
         SweepEnds, ListFails
    <3> QED
      BY <1>5, <2>1, <2>2, <3>1
  <2> QED
    BY <2>3, <2>4
<1> QED
  BY <1>2, <1>3, <1>4, <1>6, LedgerStays, RecordsStay

\* Every step of a running call keeps the counts.
LEMMA CallCounts ==
  ASSUME IInv, RecordInv, NEW w \in Workers, WorkerStep(w) \/ Failure(w)
  PROVE  RecordInv'
<1>1. TypeInv /\ faults \in Nat /\ crashes \in Nat /\ Mishaps \in Nat
  BY MishapsType DEF IInv, TypeInv, TypeOK
<1>2. CASE SubmitRefused(w) \/ NotConfirmed(w) \/ SaveFails(w)
  <2>1. worker[w].at # "idle" /\ Throw(w) /\ UNCHANGED <<txs, row>> /\ UNCHANGED budgetVars
    BY <1>2 DEF SubmitRefused, NotConfirmed, SaveFails, ledgerVars, dbVars
  <2>2. Mishaps' = Mishaps
    BY <2>1 DEF Mishaps, budgetVars
  <2>3. RecordStage(worker[w]) => \/ ~row[worker[w].coll].exists
                                  \/ txs[worker[w].hash].state \in {"failed", "dropped"}
    BY <1>2 DEF SubmitRefused, NotConfirmed, SaveFails, RecordStage
  <2> QED
    BY <1>1, <2>1, <2>2, <2>3, ThrowCounts
<1>3. CASE Fault(w)
  <2>1. /\ worker[w].at # "idle" /\ Throw(w) /\ UNCHANGED <<txs, row>>
        /\ faults' = faults + 1 /\ crashes' = crashes
    BY <1>3 DEF Fault, ledgerVars, dbVars
  <2>2. Mishaps' = Mishaps + 1
    BY <1>1, <2>1 DEF Mishaps
  <2>3. Mishaps' \in Nat /\ Mishaps <= Mishaps'
    BY <1>1, <2>2
  <2> QED
    BY <2>1, <2>2, <2>3, ThrowCounts
<1> QED
  BY <1>2, <1>3, ReadRowCounts, ResumeCounts, SubmitCounts, SaveHashCounts, ConfirmedCounts,
     SaveRecordedCounts, SaveCounts DEF WorkerStep, Failure

\* A restart forgets every call, and is a mishap.
LEMMA CrashCounts ==
  ASSUME IInv, RecordInv, CrashRestart
  PROVE  RecordInv'
<1>1. UNCHANGED <<txs, row>> /\ Mishaps \in Nat /\ Mishaps' = Mishaps + 1
  BY MishapsType DEF CrashRestart, ledgerVars, dbVars, Mishaps, IInv, TypeInv, TypeOK
<1>2. ASSUME NEW c \in Collections PROVE RowCounts(c)'
  <2>1. Few(Live(c), 1 + Mishaps) /\ Live(c)' = Live(c)
    BY <1>1 DEF RecordInv, RowCounts, Live, IsRecordTx
  <2>2. Few(Live(c)', Mishaps') /\ Few(Live(c)', 1 + Mishaps')
    BY <1>1, <2>1, FewSubset
  <2> QED
    BY <2>2 DEF RowCounts, Few
<1>3. ASSUME NEW w \in Workers PROVE WorkerCounts(w)'
  <2>1. worker'[w].at = "idle"
    BY DEF CrashRestart, NoWork
  <2> QED
    BY <2>1, NothingCounted
<1> QED
  BY <1>2, <1>3 DEF RecordInv

\* At first nothing is recorded.
LEMMA InitCounts == Init => RecordInv
<1> SUFFICES ASSUME Init PROVE RecordInv
  OBVIOUS
<1>1. Len(txs) = 0 /\ Mishaps = 0
  BY EmptySeq DEF Init, LedgerInit, Mishaps
<1>2. ASSUME NEW c \in Collections PROVE RowCounts(c)
  <2>1. Live(c) = {}
    BY <1>1 DEF Live
  <2>2. Few(Live(c), Mishaps) /\ Few(Live(c), 1 + Mishaps)
    BY <1>1, <2>1, FS_EmptySet DEF Few
  <2> QED
    BY <2>2 DEF RowCounts
<1>3. ASSUME NEW w \in Workers PROVE WorkerCounts(w)
  <2>1. worker[w].at = "idle"
    BY DEF Init, NoWork
  <2> QED
    BY <2>1 DEF WorkerCounts, RecordStage
<1> QED
  BY <1>2, <1>3 DEF RecordInv

\* RecordInv is inductive relative to IInv.
LEMMA NextCounts == IInv /\ RecordInv /\ [Next]_vars => RecordInv'
<1> SUFFICES ASSUME IInv, RecordInv, [Next]_vars PROVE RecordInv'
  OBVIOUS
<1>1. CASE UNCHANGED vars
  <2>1. UNCHANGED <<txs, row, worker>> /\ Mishaps' = Mishaps /\ Mishaps \in Nat
    BY <1>1, MishapsType DEF vars, ledgerVars, dbVars, budgetVars, Mishaps, IInv
  <2> QED
    BY <2>1, LedgerStays, RecordsStay
<1>2. CASE Next
  BY <1>2, ServiceCounts, CallCounts, CrashCounts, NetworkCounts DEF Next
<1> QED
  BY <1>1, <1>2

\* Records of a collection on the ledger.
RecordsOf(c) == {h \in 1..Len(txs) : IsRecordOf(h, c)}

\* However sweeps, approvals and retries overlap, a collection gets one record,
\* and at most one more for each call that failed and each restart: nothing
\* else makes run() record it again (run, lines 180-206).
RecordsBounded == \A c \in Collections : Cardinality(RecordsOf(c)) <= 1 + faults + crashes

THEOREM RecordsAreBounded == Spec => []RecordsBounded
<1>1. IInv /\ RecordInv => RecordsBounded
  <2> SUFFICES ASSUME IInv, RecordInv, NEW c \in Collections
               PROVE  Cardinality(RecordsOf(c)) <= 1 + faults + crashes
    BY DEF RecordsBounded
  <2>1. Few(Live(c), 1 + Mishaps) /\ Mishaps \in Nat
    BY MishapsType DEF RecordInv, RowCounts, IInv
  <2>2. RecordsOf(c) \subseteq Live(c)
    BY DEF RecordsOf, Live, IsRecordOf, IsRecord, IsRecordTx
  <2>3. Few(RecordsOf(c), 1 + Mishaps)
    BY <2>1, <2>2, FewSubset
  <2>4. 1 + Mishaps = 1 + faults + crashes
    BY DEF Mishaps, IInv, TypeInv, TypeOK
  <2> QED
    BY <2>3, <2>4 DEF Few
<1>2. Init => RecordInv
  BY InitCounts
<1>3. IInv /\ RecordInv /\ [Next]_vars => RecordInv'
  BY NextCounts
<1> QED
  BY <1>1, <1>2, <1>3, Invariance, PTL DEF Spec

\* A collection is recorded once while no call fails and the server stays up:
\* concurrent sweeps, approvals and kicks alone never record it again.
THEOREM RecordedOnceWithoutMishaps ==
  ASSUME MaxFaults = 0, MaxCrashes = 0
  PROVE  Spec => []RecordedOnce
<1>1. TypeInv /\ RecordsBounded => RecordedOnce
  <2> SUFFICES ASSUME TypeInv, RecordsBounded, NEW c \in Collections,
                      NEW g \in DOMAIN txs, NEW h \in DOMAIN txs,
                      IsRecordOf(g, c), IsRecordOf(h, c), g # h
               PROVE  FALSE
    BY DEF RecordedOnce
  <2>1. Len(txs) \in Nat /\ faults = 0 /\ crashes = 0
    BY LenProperties DEF TypeInv, TypeOK, LedgerTypeOK
  <2>2. Cardinality(RecordsOf(c)) <= 1
    BY <2>1 DEF RecordsBounded
  <2>3. IsFiniteSet(RecordsOf(c))
    <3>1. IsFiniteSet(1..Len(txs))
      BY <2>1, FS_Interval
    <3>2. RecordsOf(c) \in SUBSET (1..Len(txs))
      BY DEF RecordsOf
    <3> QED
      BY <3>1, <3>2, FS_Subset
  <2>4. {g, h} \in SUBSET RecordsOf(c)
    BY DEF RecordsOf, IsRecordOf, IsRecord
  <2>5. Cardinality({g, h}) = 2
    <3>1. IsFiniteSet({g}) /\ Cardinality({g}) = 1
      BY FS_Singleton
    <3>2. h \notin {g} /\ {g, h} = {g} \cup {h}
      OBVIOUS
    <3>3. Cardinality({g} \cup {h}) = Cardinality({g}) + 1
      BY <3>1, <3>2, FS_AddElement
    <3> QED
      BY <3>1, <3>2, <3>3
  <2>6. Cardinality({g, h}) <= Cardinality(RecordsOf(c)) /\ Cardinality(RecordsOf(c)) \in Nat
    BY <2>3, <2>4, FS_Subset, FS_CardinalityType
  <2> QED
    BY <2>2, <2>5, <2>6
<1> QED
  BY <1>1, RecordsAreBounded, TypeInvariance, PTL
=============================================================================
