-------------------------- MODULE Payments_proofs --------------------------
(***************************************************************************)
(* Theorems about Payments, for every number of collections, requests,     *)
(* providers, failures and crashes.                                        *)
(***************************************************************************)
EXTENDS Payments, SequenceTheorems, FiniteSetTheorems, TLAPS

USE ServiceAssumption, ProviderAssumption, PaymentAssumption

-----------------------------------------------------------------------------
(* The inductive invariant: what each row, each order of a provider and    *)
(* each request in progress is known to fit.                               *)

HasOrder(t) == \E o \in 1..Len(orders) : orders[o].tx = t

\* Rows of payments are created completed and nothing touches them.  A withdrawal by
\* M-Pesa never has a reference, so no callback finds it.
RowFits(t) ==
  /\ rows[t].by = "pay" => rows[t].status = "COMPLETED"
  /\ rows[t].by # "pay" => rows[t].method \in Methods
  /\ rows[t].by = "withdraw" /\ rows[t].method = "MPESA" => rows[t].ref = 0
  /\ rows[t].by = "withdraw" /\ rows[t].status = "COMPLETED" => PaidOut(t)

\* An order was placed for a withdrawal or for the new row of a retry.
OrderFits(o) ==
  /\ orders[o].tx \in 1..Len(rows)
  /\ rows[orders[o].tx].by = IF orders[o].kind = "disburse" THEN "withdraw" ELSE "retry"
  /\ rows[orders[o].tx].method = orders[o].method

PayStages == {"paying", "sending", "booking", "marking", "refusing"}

ReviewStages == {"reviewing", "reviewed"}

WithdrawStages == {"checking", "creating", "disbursing", "submitted", "failing"}

RetryStages ==
  {"retrying", "resetting", "recreating", "collecting", "referencing", "completing"}

CallbackStages == {"matching", "finding", "settling"}

\* Which operation a stage belongs to; an answered request is idle.
OpFits(s) ==
  /\ s.told => s.at = "idle"
  /\ s.at \in PayStages => s.op = "pay" /\ s.coll \in Collections
  /\ s.at \in ReviewStages => s.op \in {"approve", "reject"} /\ s.coll \in Collections
  /\ s.at \in WithdrawStages => s.op = "withdraw"
  /\ s.at \in RetryStages => s.op = "retry"
  /\ s.at \in {"cancelling", "cancelled"} => s.op = "cancel"
  /\ s.at \in CallbackStages => s.op = "callback"

\* Which row a stage works on.
RowOfCallFits(s) ==
  /\ s.at = "marking" => s.tx \in Booked(s.coll)
  /\ s.at \in {"retrying", "cancelling"} => s.tx \in 1..Len(rows)
  /\ s.at \in {"resetting", "recreating", "cancelled"} =>
       s.tx \in 1..Len(rows) /\ rows[s.tx].by # "pay"
  /\ s.at \in {"disbursing", "submitted", "failing"} =>
       s.tx \in 1..Len(rows) /\ rows[s.tx].by = "withdraw" /\ rows[s.tx].method = s.method
  /\ s.at \in {"collecting", "referencing", "completing"} =>
       s.tx \in 1..Len(rows) /\ rows[s.tx].by = "retry" /\ rows[s.tx].method = s.method

Asking(s) == s.at \in {"disbursing", "collecting"}

\* What a request knows of the orders.
OrderOfCallFits(s) ==
  /\ Asking(s) => ~ HasOrder(s.tx)
  /\ s.at = "submitted" => HasOrder(s.tx) /\ (s.method = "MPESA" => s.ref = 0)
  /\ s.at \in CallbackStages =>
       s.order \in 1..Len(orders) /\ (s.ok => orders[s.order].state = "success")
  /\ s.at = "settling" => s.tx # 0
  /\ s.at \in {"finding", "settling"} /\ s.tx # 0 =>
       /\ s.tx \in 1..Len(rows) /\ rows[s.tx].by # "pay"
       /\ s.ok /\ rows[s.tx].by = "withdraw" => PaidOut(s.tx)
  /\ s.at = "settling" /\ rows[s.tx].by = "withdraw" /\ rows[s.tx].method = "MPESA" => s.ref = 0

\* What a caller was told.
AnswerFits(s) ==
  s.told =>
    /\ s.op = "pay" => s.tx \in Booked(s.coll)
    /\ s.op = "withdraw" => HasOrder(s.tx)

CallFits(s) == OpFits(s) /\ RowOfCallFits(s) /\ OrderOfCallFits(s) /\ AnswerFits(s)

RowsFit == \A t \in 1..Len(rows) : RowFits(t)

OrdersFit == \A o \in 1..Len(orders) : OrderFits(o)

CallsFit == \A k \in Calls : CallFits(call[k])

\* No two requests are about to place an order for the same row.
AskAlone ==
  \A j, k \in Calls : Asking(call[j]) /\ Asking(call[k]) /\ call[j].tx = call[k].tx => j = k

IInv ==
  /\ TypeOK /\ RowsFit /\ OrdersFit /\ CallsFit
  /\ OneOrderPerRow /\ AskAlone /\ CompletedIsBacked

-----------------------------------------------------------------------------
(* The operators the actions are made of.                                  *)

\* The bounds of a run are kept by each of the four ways to spend them.
LEMMA BudgetKept ==
  ASSUME BudgetOK, Working \/ Arriving \/ Failing \/ Crashing
  PROVE  BudgetOK'
BY DEF BudgetOK, Working, Arriving, Failing, Crashing, Trouble, budgetVars

\* One request goes on, the others do not.
LEMMA BecomeType ==
  ASSUME call \in [Calls -> CallStates], NEW k \in Calls, NEW s \in CallStates, Become(k, s)
  PROVE  /\ call' \in [Calls -> CallStates]
         /\ call'[k] = s
         /\ \A j \in Calls \ {k} : call'[j] = call[j]
BY DEF Become

\* A row is written: it stays what it is a row of, the others stay as they are.
LEMMA WriteRowType ==
  ASSUME rows \in Seq(TransactionRows), NEW t \in 1..Len(rows), NEW r \in TransactionRows,
         WriteRow(t, r)
  PROVE  /\ rows' \in Seq(TransactionRows) /\ Len(rows') = Len(rows)
         /\ rows'[t] = r
         /\ \A u \in 1..Len(rows) : u # t => rows'[u] = rows[u]
<1>1. rows' = [rows EXCEPT ![t] = r]
  BY DEF WriteRow
<1> QED
  BY <1>1, ExceptSeq

\* A row is created after all others.
LEMMA AppendRowType ==
  ASSUME rows \in Seq(TransactionRows), NEW r \in TransactionRows, rows' = Append(rows, r)
  PROVE  /\ rows' \in Seq(TransactionRows) /\ Len(rows') = Len(rows) + 1
         /\ rows'[Len(rows) + 1] = r
         /\ \A u \in 1..Len(rows) : rows'[u] = rows[u]
BY AppendProperties

\* What a row and an order are does not change: only their progress does.
RowsGrow ==
  /\ Len(rows) <= Len(rows')
  /\ \A t \in 1..Len(rows) :
       /\ rows'[t].by = rows[t].by /\ rows'[t].method = rows[t].method
       /\ rows'[t].coll = rows[t].coll

OrdersGrow ==
  /\ Len(orders) <= Len(orders')
  /\ \A o \in 1..Len(orders) :
       /\ orders'[o].tx = orders[o].tx /\ orders'[o].method = orders[o].method
       /\ orders'[o].kind = orders[o].kind
       /\ orders[o].state = "success" => orders'[o].state = "success"

\* What is known of a request that does not move stays true.
LEMMA OthersFit ==
  ASSUME rows \in Seq(TransactionRows), orders \in Seq(Orders),
         rows' \in Seq(TransactionRows), orders' \in Seq(Orders),
         RowsGrow, OrdersGrow, NEW s \in CallStates, CallFits(s),
         Asking(s) => ~ HasOrder(s.tx)'
  PROVE  CallFits(s)'
<1>1. Len(rows) \in Nat /\ Len(rows') \in Nat /\ Len(orders) \in Nat /\ Len(orders') \in Nat
  BY LenProperties
<1>2. ASSUME NEW t \in 1..Len(rows) PROVE t \in 1..Len(rows')
  BY <1>1, <1>2 DEF RowsGrow
<1>3. ASSUME NEW o \in 1..Len(orders) PROVE o \in 1..Len(orders')
  BY <1>1, <1>3 DEF OrdersGrow
<1>4. ASSUME NEW t \in Nat, HasOrder(t) PROVE HasOrder(t)'
  BY <1>3, <1>4 DEF HasOrder, OrdersGrow
<1>5. ASSUME NEW t \in Nat, PaidOut(t) PROVE PaidOut(t)'
  BY <1>3, <1>5 DEF PaidOut, OrdersGrow
<1>6. ASSUME NEW c, NEW t \in Booked(c) PROVE t \in Booked(c)'
  BY <1>2, <1>6 DEF Booked, RowsGrow
<1>7. s.tx \in Nat /\ s.order \in Nat
  BY DEF CallStates
<1>8. OpFits(s)'
  BY DEF CallFits, OpFits
<1>9. RowOfCallFits(s)'
  BY <1>2, <1>6 DEF CallFits, RowOfCallFits, RowsGrow
<1>10. OrderOfCallFits(s)'
  BY <1>2, <1>3, <1>4, <1>5, <1>7 DEF CallFits, OrderOfCallFits, RowsGrow, OrdersGrow
<1>11. AnswerFits(s)'
  BY <1>4, <1>6, <1>7 DEF CallFits, AnswerFits
<1> QED
  BY <1>8, <1>9, <1>10, <1>11 DEF CallFits

-----------------------------------------------------------------------------
(* Steps of one request keep the invariant if they keep what they touch.   *)

\* The request k goes on, the others stay where they are.
Moves(k) ==
  /\ call' \in [Calls -> CallStates]
  /\ \A j \in Calls \ {k} : call'[j] = call[j]

LEMMA StepKeeps ==
  ASSUME IInv, NEW k \in Calls, TypeOK', Moves(k), RowsGrow, OrdersGrow,
         RowsFit', OrdersFit', OneOrderPerRow', CompletedIsBacked',
         CallFits(call[k])',
         \A j \in Calls \ {k} : Asking(call[j]) => ~ HasOrder(call[j].tx)',
         Asking(call[k])' =>
           \A j \in Calls \ {k} : Asking(call[j]) => call[j].tx # call'[k].tx
  PROVE  IInv'
<1>1. /\ rows \in Seq(TransactionRows) /\ rows' \in Seq(TransactionRows)
      /\ orders \in Seq(Orders) /\ orders' \in Seq(Orders)
  BY DEF IInv, TypeOK, ProviderTypeOK
<1>2. ASSUME NEW j \in Calls \ {k}
      PROVE  CallFits(call[j])'
  <2>1. PICK s \in CallStates : s = call[j]
    BY <1>2 DEF IInv, TypeOK
  <2>2. CallFits(s)
    BY <2>1, <1>2 DEF IInv, CallsFit
  <2>3. s = call'[j]
    BY <2>1, <1>2 DEF Moves
  <2>4. Asking(s) => ~ HasOrder(s.tx)'
    BY <2>1, <2>3, <1>2 DEF Asking, HasOrder
  <2>5. CallFits(s)'
    BY <1>1, <2>2, <2>4, OthersFit
  <2> QED
    BY <2>3, <2>5
<1>3. CallsFit'
  BY <1>2 DEF CallsFit
<1>4. AskAlone'
  <2> SUFFICES ASSUME NEW i \in Calls, NEW j \in Calls,
                      Asking(call'[i]), Asking(call'[j]), call'[i].tx = call'[j].tx
               PROVE  i = j
    BY DEF AskAlone, Asking
  <2>1. CASE i # k /\ j # k
    BY <2>1 DEF IInv, AskAlone, Moves
  <2>2. CASE i = k /\ j # k
    BY <2>2 DEF Moves, Asking
  <2>3. CASE i # k /\ j = k
    BY <2>3 DEF Moves, Asking
  <2> QED
    BY <2>1, <2>2, <2>3
<1> QED
  BY <1>3, <1>4 DEF IInv

\* Nothing is written to the rows, nothing ordered.
LEMMA CallMoves ==
  ASSUME IInv, NEW k \in Calls, Moves(k), UNCHANGED <<orders, rows>>,
         collection' \in [Collections -> CollectionRows], sent' \in [Collections -> Nat],
         BudgetOK', CompletedIsBacked', CallFits(call[k])', ~ Asking(call[k])'
  PROVE  IInv'
<1>1. TypeOK'
  BY DEF IInv, TypeOK, ProviderTypeOK, Moves
<1>2. Len(rows) \in Nat /\ Len(orders) \in Nat
  BY LenProperties DEF IInv, TypeOK, ProviderTypeOK
<1>3. RowsGrow /\ OrdersGrow
  BY <1>2 DEF RowsGrow, OrdersGrow
<1>4. RowsFit' /\ OrdersFit' /\ OneOrderPerRow'
  BY DEF IInv, RowsFit, RowFits, PaidOut, OrdersFit, OrderFits, OneOrderPerRow
<1>5. ASSUME NEW j \in Calls \ {k}, Asking(call[j])
      PROVE  ~ HasOrder(call[j].tx)'
  BY <1>5 DEF IInv, CallsFit, CallFits, OrderOfCallFits, HasOrder, Moves
<1> QED
  BY <1>1, <1>3, <1>4, <1>5, StepKeeps

\* Nor to the collections.
LEMMA CallReads ==
  ASSUME IInv, NEW k \in Calls, Moves(k), UNCHANGED <<orders, collection, rows, sent>>,
         BudgetOK', CallFits(call[k])', ~ Asking(call[k])'
  PROVE  IInv'
<1>1. CompletedIsBacked'
  BY DEF IInv, CompletedIsBacked, Booked
<1> QED
  BY <1>1, CallMoves DEF IInv, TypeOK

\* A row of mobile money is written.
LEMMA RowMoves ==
  ASSUME IInv, NEW k \in Calls, Moves(k), NEW t \in 1..Len(rows), NEW r \in TransactionRows,
         WriteRow(t, r), UNCHANGED <<orders, collection, sent>>, BudgetOK',
         rows[t].by # "pay", r.by = rows[t].by, r.method = rows[t].method, r.coll = rows[t].coll,
         r.by = "withdraw" /\ r.method = "MPESA" => r.ref = 0,
         r.by = "withdraw" /\ r.status = "COMPLETED" => PaidOut(t),
         CallFits(call[k])', ~ Asking(call[k])'
  PROVE  IInv'
<1>1. rows \in Seq(TransactionRows) /\ Len(rows) \in Nat /\ Len(orders) \in Nat
  BY LenProperties DEF IInv, TypeOK, ProviderTypeOK
<1>2. /\ rows' \in Seq(TransactionRows) /\ Len(rows') = Len(rows)
      /\ rows'[t] = r
      /\ \A u \in 1..Len(rows) : u # t => rows'[u] = rows[u]
  BY <1>1, WriteRowType
<1>3. TypeOK'
  BY <1>2 DEF IInv, TypeOK, ProviderTypeOK, Moves
<1>4. RowsGrow /\ OrdersGrow
  BY <1>1, <1>2 DEF RowsGrow, OrdersGrow
<1>5. RowsFit'
  BY <1>2 DEF IInv, RowsFit, RowFits, PaidOut
<1>6. OrdersFit' /\ OneOrderPerRow'
  BY <1>2, SMTT(30) DEF IInv, OrdersFit, OrderFits, OneOrderPerRow
<1>7. CompletedIsBacked'
  BY <1>2 DEF IInv, CompletedIsBacked, Booked
<1>8. ASSUME NEW j \in Calls \ {k}, Asking(call[j])
      PROVE  ~ HasOrder(call[j].tx)'
  BY <1>8 DEF IInv, CallsFit, CallFits, OrderOfCallFits, HasOrder, Moves
<1> QED
  BY <1>3, <1>4, <1>5, <1>6, <1>7, <1>8, StepKeeps

\* A row is created.
LEMMA RowAppends ==
  ASSUME IInv, NEW k \in Calls, Moves(k), NEW r \in TransactionRows,
         rows' = Append(rows, r), UNCHANGED <<orders, collection, sent>>, BudgetOK',
         r.by = "pay" => r.status = "COMPLETED",
         r.by # "pay" => r.method \in Methods,
         r.by = "withdraw" => r.ref = 0 /\ r.status # "COMPLETED",
         CallFits(call[k])', Asking(call[k])' => call'[k].tx = Len(rows) + 1
  PROVE  IInv'
<1>1. rows \in Seq(TransactionRows) /\ Len(rows) \in Nat /\ Len(orders) \in Nat
  BY LenProperties DEF IInv, TypeOK, ProviderTypeOK
<1>2. /\ rows' \in Seq(TransactionRows) /\ Len(rows') = Len(rows) + 1
      /\ rows'[Len(rows) + 1] = r
      /\ \A u \in 1..Len(rows) : rows'[u] = rows[u]
  BY <1>1, AppendRowType
<1>3. \A t \in 1..Len(rows') : t \in 1..Len(rows) \/ t = Len(rows) + 1
  BY <1>1, <1>2
<1>4. TypeOK'
  BY <1>2 DEF IInv, TypeOK, ProviderTypeOK, Moves
<1>5. RowsGrow /\ OrdersGrow
  BY <1>1, <1>2 DEF RowsGrow, OrdersGrow
<1>6. RowsFit'
  BY <1>2, <1>3 DEF IInv, RowsFit, RowFits, PaidOut
<1>7. OrdersFit' /\ OneOrderPerRow'
  BY <1>1, <1>2 DEF IInv, OrdersFit, OrderFits, OneOrderPerRow
<1>8. CompletedIsBacked'
  BY <1>1, <1>2 DEF IInv, CompletedIsBacked, Booked
<1>9. ASSUME NEW j \in Calls \ {k}, Asking(call[j])
      PROVE  ~ HasOrder(call[j].tx)' /\ call[j].tx # Len(rows) + 1
  <2>1. ~ HasOrder(call[j].tx)'
    BY <1>9 DEF IInv, CallsFit, CallFits, OrderOfCallFits, HasOrder, Moves
  <2>2. call[j].tx \in 1..Len(rows)
    BY <1>9 DEF IInv, CallsFit, CallFits, RowOfCallFits, Asking
  <2> QED
    BY <1>1, <2>1, <2>2
<1> QED
  BY <1>4, <1>5, <1>6, <1>7, <1>8, <1>9, StepKeeps

-----------------------------------------------------------------------------
(* The actions, one lemma for each operation.                              *)

LEMMA CallFacts ==
  ASSUME IInv, NEW k \in Calls
  PROVE  /\ call \in [Calls -> CallStates] /\ call[k] \in CallStates
         /\ CallFits(call[k]) /\ BudgetOK
         /\ rows \in Seq(TransactionRows) /\ Len(rows) \in Nat
         /\ orders \in Seq(Orders) /\ Len(orders) \in Nat
         /\ collection \in [Collections -> CollectionRows]
         /\ sent \in [Collections -> Nat]
BY LenProperties DEF IInv, TypeOK, ProviderTypeOK, CallsFit

\* The fields a request changes as it goes on keep their types.
LEMMA StageType ==
  ASSUME NEW s \in CallStates, NEW stage \in Stages
  PROVE  [s EXCEPT !.at = stage] \in CallStates
BY DEF CallStates

LEMMA StageAndRowType ==
  ASSUME NEW s \in CallStates, NEW stage \in Stages, NEW tx \in Nat
  PROVE  /\ [s EXCEPT !.at = stage, !.tx = tx] \in CallStates
         /\ [s EXCEPT !.tx = tx, !.at = stage] \in CallStates
BY DEF CallStates

\* A request ends without an answer.
LEMMA ReturnFits ==
  ASSUME IInv, NEW k \in Calls, Return(k)
  PROVE  Moves(k) /\ call'[k] = NoCall /\ CallFits(call[k])' /\ ~ Asking(call[k])'
<1>1. NoCall \in CallStates
  BY DEF NoCall, CallStates, Stages, Methods
<1>2. call'[k] = NoCall /\ Moves(k)
  BY <1>1, CallFacts, BecomeType DEF Return, Moves
<1>3. CallFits(call[k])' /\ ~ Asking(call[k])'
  BY <1>2 DEF NoCall, CallFits, OpFits, RowOfCallFits, OrderOfCallFits, AnswerFits, Asking,
              PayStages, ReviewStages, WithdrawStages, RetryStages, CallbackStages
<1> QED
  BY <1>2, <1>3

\* A request ends with an answer that is true.
LEMMA SucceedFits ==
  ASSUME IInv, NEW k \in Calls, Succeed(k), RowsGrow, OrdersGrow,
         Len(rows') \in Nat, Len(orders') \in Nat,
         call[k].op = "pay" => call[k].tx \in Booked(call[k].coll),
         call[k].op = "withdraw" => HasOrder(call[k].tx)
  PROVE  Moves(k) /\ CallFits(call[k])' /\ ~ Asking(call[k])'
<1> DEFINE s == [NoCall EXCEPT !.op = call[k].op, !.coll = call[k].coll, !.tx = call[k].tx,
                               !.told = TRUE]
<1>1. s \in CallStates
  BY CallFacts DEF NoCall, CallStates, Stages, Methods
<1>2. call'[k] = s /\ Moves(k)
  BY <1>1, CallFacts, BecomeType DEF Succeed, Moves
<1>3. /\ s.at = "idle" /\ s.op = call[k].op /\ s.coll = call[k].coll /\ s.tx = call[k].tx
      /\ s.told = TRUE
  BY DEF NoCall
<1>4. call[k].op = "pay" => call'[k].tx \in Booked(call[k].coll)'
  <2> SUFFICES ASSUME call[k].op = "pay" PROVE call'[k].tx \in Booked(call[k].coll)'
    OBVIOUS
  <2>1. /\ call[k].tx \in 1..Len(rows) /\ rows[call[k].tx].by = "pay"
        /\ rows[call[k].tx].coll = call[k].coll
    BY DEF Booked
  <2>2. call[k].tx \in 1..Len(rows')
    BY <2>1, CallFacts DEF RowsGrow
  <2> QED
    BY <1>2, <1>3, <2>1, <2>2, SMTT(30) DEF Booked, RowsGrow
<1>5. call[k].op = "withdraw" => HasOrder(call[k].tx)'
  BY CallFacts, <1>2, <1>3 DEF HasOrder, OrdersGrow
<1>6. CallFits(call[k])' /\ ~ Asking(call[k])'
  BY <1>2, <1>3, <1>4, <1>5
     DEF CallFits, OpFits, RowOfCallFits, OrderOfCallFits, AnswerFits, Asking, HasOrder,
         PayStages, ReviewStages, WithdrawStages, RetryStages, CallbackStages
<1> QED
  BY <1>2, <1>6

\* Where a request goes on: its fields are those of s.
LEMMA GoesOn ==
  ASSUME IInv, NEW k \in Calls, NEW s \in CallStates, Become(k, s), ~ Asking(s)
  PROVE  Moves(k) /\ call'[k] = s /\ ~ Asking(call[k])'
BY CallFacts, BecomeType DEF Moves, Asking

\* processCollectionPayment keeps the invariant.
LEMMA PayingKeeps ==
  ASSUME IInv, NEW k \in Calls, Paying(k)
  PROVE  IInv'
<1> USE DEF PayStages, ReviewStages, WithdrawStages, RetryStages, CallbackStages
<1>1. /\ call \in [Calls -> CallStates] /\ call[k] \in CallStates
      /\ CallFits(call[k])
      /\ collection \in [Collections -> CollectionRows] /\ sent \in [Collections -> Nat]
      /\ rows \in Seq(TransactionRows) /\ Len(rows) \in Nat
  BY CallFacts
<1>2. ASSUME Working \/ Failing PROVE BudgetOK'
  BY <1>2, BudgetKept, CallFacts
<1>3. CASE CheckPayable(k)
  <2>1. CASE Return(k)
    BY <2>1, <1>2, <1>3, ReturnFits, CallReads DEF CheckPayable
  <2>2. CASE Goto(k, "sending")
    <3>1. [call[k] EXCEPT !.at = "sending"] \in CallStates
      BY <1>1 DEF CallStates, Stages
    <3>2. Moves(k) /\ call'[k] = [call[k] EXCEPT !.at = "sending"] /\ ~ Asking(call[k])'
      BY <2>2, <3>1, GoesOn DEF Goto, Asking, CallStates
    <3>3. CallFits(call[k])'
      BY <1>1, <1>3, <3>2
         DEF CheckPayable, At, CallStates, CallFits, OpFits, RowOfCallFits, OrderOfCallFits,
             AnswerFits, Asking
    <3> QED
      BY <1>2, <1>3, <3>2, <3>3, CallReads DEF CheckPayable
  <2> QED
    BY <1>3, <2>1, <2>2 DEF CheckPayable
<1>4. CASE SendPayment(k)
  <2>1. PICK stage \in {"booking", "refusing"} : Goto(k, stage)
    BY <1>4 DEF SendPayment
  <2>2. [call[k] EXCEPT !.at = stage] \in CallStates
    BY <1>1 DEF CallStates, Stages
  <2>3. Moves(k) /\ call'[k] = [call[k] EXCEPT !.at = stage] /\ ~ Asking(call[k])'
    BY <2>1, <2>2, <1>1, GoesOn DEF Goto, Asking, CallStates
  <2>4. CallFits(call[k])'
    BY <1>1, <1>4, <2>3
       DEF SendPayment, At, CallStates, CallFits, OpFits, RowOfCallFits, OrderOfCallFits,
           AnswerFits, Asking
  <2>5. call[k].coll \in Collections
    BY <1>1, <1>4 DEF SendPayment, At, CallFits, OpFits
  <2>6. sent' \in [Collections -> Nat]
    <3>1. sent' = sent \/ sent' = [sent EXCEPT ![call[k].coll] = @ + 1]
      BY <1>4 DEF SendPayment
    <3> QED
      BY <1>1, <2>5, <3>1
  <2>7. UNCHANGED <<orders, collection, rows>> /\ BudgetOK'
    BY <1>2, <1>4 DEF SendPayment
  <2>8. CompletedIsBacked'
    BY <2>7 DEF IInv, CompletedIsBacked, Booked
  <2> QED
    BY <1>1, <2>3, <2>4, <2>6, <2>7, <2>8, CallMoves
<1>5. CASE BookPayment(k)
  <2> DEFINE r == [by |-> "pay", origin |-> Len(rows) + 1, type |-> "WASTE_COLLECTION",
                   method |-> "STELLAR", status |-> "COMPLETED",
                   ref |-> 0, coll |-> call[k].coll, completed |-> TRUE]
             s == [call[k] EXCEPT !.at = "marking", !.tx = Len(rows) + 1]
  <2>1. r \in TransactionRows /\ s \in CallStates
    <3>1. call[k].coll \in Collections \cup {Nil}
      BY <1>1 DEF CallStates
    <3>2. r \in TransactionRows
      BY <1>1, <3>1 DEF TransactionRows, Statuses, Types
    <3>3. call[k] \in CallStates /\ "marking" \in Stages /\ Len(rows) + 1 \in Nat
      BY <1>1 DEF Stages
    <3>4. s \in CallStates
      BY <3>3, StageAndRowType
    <3> QED
      BY <3>2, <3>4
  <2>2. Moves(k) /\ call'[k] = s /\ ~ Asking(call[k])'
    BY <1>1, <1>5, <2>1, GoesOn DEF BookPayment, Asking, CallStates
  <2>3. Len(rows') = Len(rows) + 1 /\ rows'[Len(rows) + 1] = r
    BY <1>1, <1>5, <2>1, AppendRowType DEF BookPayment
  <2>4. Len(rows) + 1 \in Booked(call[k].coll)'
    BY <1>1, <2>2, <2>3 DEF Booked, CallStates
  <2>5. CallFits(call[k])'
    BY <1>1, <1>5, <2>2, <2>4
       DEF BookPayment, At, CallStates, CallFits, OpFits, RowOfCallFits, OrderOfCallFits,
           AnswerFits, Asking
  <2> QED
    BY <1>2, <1>5, <2>1, <2>2, <2>5, RowAppends DEF BookPayment
<1>6. CASE MarkPaid(k)
  <2> DEFINE c == call[k].coll
  <2>1. c \in Collections /\ call[k].tx \in Booked(c) /\ call[k].op = "pay" /\ call[k].tx \in Nat
    BY <1>1, <1>6 DEF MarkPaid, At, CallFits, OpFits, RowOfCallFits, CallStates
  <2>2. UNCHANGED <<orders, rows, sent>> /\ BudgetOK' /\ Succeed(k)
    BY <1>2, <1>6 DEF MarkPaid
  <2>3. RowsGrow /\ OrdersGrow /\ Len(rows') \in Nat /\ Len(orders') \in Nat
    BY <2>2, CallFacts DEF RowsGrow, OrdersGrow
  <2>4. Moves(k) /\ CallFits(call[k])' /\ ~ Asking(call[k])'
    BY <2>1, <2>2, <2>3, SucceedFits
  <2>5. /\ collection' \in [Collections -> CollectionRows]
        /\ collection'[c].transactionId = call[k].tx
        /\ \A d \in Collections : d # c => collection'[d] = collection[d]
    BY <1>1, <1>6, <2>1, ZenonT(40) DEF MarkPaid, CollectionRows
  <2>6. rows[call[k].tx].status = "COMPLETED"
    BY <2>1 DEF IInv, RowsFit, RowFits, Booked
  <2>7. CompletedIsBacked'
    <3>1. ASSUME NEW d \in Collections \ {c}, collection[d].paymentStatus = "COMPLETED"
          PROVE  /\ collection[d].transactionId \in Booked(d)
                 /\ rows[collection[d].transactionId].status = "COMPLETED"
      BY <3>1 DEF IInv, CompletedIsBacked
    <3>2. \A d \in Collections : Booked(d)' = Booked(d)
      BY <2>2 DEF Booked
    <3> QED
      BY <2>1, <2>2, <2>5, <2>6, <3>1, <3>2 DEF CompletedIsBacked
  <2> QED
    BY <1>1, <2>2, <2>4, <2>5, <2>7, CallMoves
<1>7. CASE MarkUnpaid(k)
  <2> DEFINE c == call[k].coll
  <2>1. c \in Collections
    BY <1>1, <1>7 DEF MarkUnpaid, At, CallFits, OpFits
  <2>2. UNCHANGED <<orders, rows, sent>> /\ BudgetOK' /\ Return(k)
    BY <1>2, <1>7 DEF MarkUnpaid
  <2>3. /\ collection' \in [Collections -> CollectionRows]
        /\ collection'[c].paymentStatus = "FAILED"
        /\ \A d \in Collections : d # c => collection'[d] = collection[d]
    BY <1>1, <1>7, <2>1 DEF MarkUnpaid, CollectionRows
  <2>4. CompletedIsBacked'
    BY <2>2, <2>3 DEF IInv, CompletedIsBacked, Booked
  <2> QED
    BY <1>1, <2>2, <2>3, <2>4, ReturnFits, CallMoves
<1> QED
  BY <1>3, <1>4, <1>5, <1>6, <1>7 DEF Paying

\* verifyCollection keeps the invariant.
LEMMA ReviewingKeeps ==
  ASSUME IInv, NEW k \in Calls, Reviewing(k)
  PROVE  IInv'
<1> USE DEF PayStages, ReviewStages, WithdrawStages, RetryStages, CallbackStages
<1>1. /\ call \in [Calls -> CallStates] /\ call[k] \in CallStates
      /\ CallFits(call[k])
      /\ collection \in [Collections -> CollectionRows] /\ sent \in [Collections -> Nat]
  BY CallFacts
<1>2. ASSUME Working PROVE BudgetOK'
  BY <1>2, BudgetKept, CallFacts
<1>3. CASE CheckUnreviewed(k)
  <2>1. CASE Return(k)
    BY <2>1, <1>2, <1>3, ReturnFits, CallReads DEF CheckUnreviewed
  <2>2. CASE Goto(k, "reviewed")
    <3>1. [call[k] EXCEPT !.at = "reviewed"] \in CallStates
      BY <1>1 DEF CallStates, Stages
    <3>2. Moves(k) /\ call'[k] = [call[k] EXCEPT !.at = "reviewed"] /\ ~ Asking(call[k])'
      BY <2>2, <3>1, <1>1, GoesOn DEF Goto, Asking, CallStates
    <3>3. CallFits(call[k])'
      BY <1>1, <1>3, <3>2
         DEF CheckUnreviewed, At, CallStates, CallFits, OpFits, RowOfCallFits, OrderOfCallFits,
             AnswerFits, Asking
    <3> QED
      BY <1>2, <1>3, <3>2, <3>3, CallReads DEF CheckUnreviewed
  <2> QED
    BY <1>3, <2>1, <2>2 DEF CheckUnreviewed
<1>4. CASE WriteReview(k)
  <2> DEFINE c == call[k].coll
  <2>1. c \in Collections /\ call[k].op \in {"approve", "reject"}
    BY <1>1, <1>4 DEF WriteReview, At, CallFits, OpFits
  <2>2. UNCHANGED <<orders, rows, sent>> /\ BudgetOK' /\ Succeed(k)
    BY <1>2, <1>4 DEF WriteReview
  <2>3. RowsGrow /\ OrdersGrow /\ Len(rows') \in Nat /\ Len(orders') \in Nat
    BY <2>2, CallFacts DEF RowsGrow, OrdersGrow
  <2>4. Moves(k) /\ CallFits(call[k])' /\ ~ Asking(call[k])'
    BY <2>1, <2>2, <2>3, SucceedFits
  <2>5. /\ collection' \in [Collections -> CollectionRows]
        /\ collection'[c].transactionId = collection[c].transactionId
        /\ collection'[c].paymentStatus \in {collection[c].paymentStatus, "CANCELLED"}
        /\ \A d \in Collections : d # c => collection'[d] = collection[d]
    BY <1>1, <1>4, <2>1, ZenonT(40) DEF WriteReview, CollectionRows
  <2>6. CompletedIsBacked'
    BY <2>2, <2>5 DEF IInv, CompletedIsBacked, Booked
  <2> QED
    BY <1>1, <2>2, <2>4, <2>5, <2>6, CallMoves
<1> QED
  BY <1>3, <1>4 DEF Reviewing

-----------------------------------------------------------------------------
(* Orders and rows of mobile money.                                        *)

\* What a row is of does not change with its progress.
LEMMA StatusAndRefType ==
  ASSUME NEW r \in TransactionRows, NEW status \in Statuses, NEW ref \in Nat
  PROVE  [r EXCEPT !.status = status, !.ref = ref] \in TransactionRows
BY DEF TransactionRows

LEMMA OutcomeType ==
  ASSUME NEW r \in TransactionRows, NEW status \in Statuses, NEW completed \in BOOLEAN
  PROVE  [r EXCEPT !.status = status, !.completed = completed] \in TransactionRows
BY DEF TransactionRows

LEMMA SettledType ==
  ASSUME NEW r \in TransactionRows, NEW status \in Statuses, NEW completed \in BOOLEAN,
         NEW ref \in Nat
  PROVE  [r EXCEPT !.status = status, !.completed = completed, !.ref = ref]
           \in TransactionRows
BY DEF TransactionRows

\* A withdrawal is an order to disburse; M-Pesa gives it no reference.
LEMMA WithdrawalOrder ==
  ASSUME NEW m \in Methods, NEW tx \in Nat
  PROVE  /\ ProviderWithdrawal(m, tx) \in Orders
         /\ ProviderWithdrawal(m, tx).tx = tx
         /\ ProviderWithdrawal(m, tx).method = m
         /\ ProviderWithdrawal(m, tx).kind = "disburse"
         /\ m = "MPESA" => ~ ProviderWithdrawal(m, tx).referenced
BY DEF ProviderWithdrawal, B2cPayment, Transfer, DisburseFunds, Order, Orders, Methods, Keys

\* A payment is an order to collect.
LEMMA PaymentOrder ==
  ASSUME NEW m \in Methods, NEW tx \in Nat
  PROVE  /\ ProviderPayment(m, tx) \in Orders
         /\ ProviderPayment(m, tx).tx = tx
         /\ ProviderPayment(m, tx).method = m
         /\ ProviderPayment(m, tx).kind = "collect"
BY DEF ProviderPayment, StkPush, RequestToPay, InitiatePayment, Order, Orders, Methods, Keys

\* Accepting an order keeps the earlier ones where they are.
LEMMA AcceptType ==
  ASSUME orders \in Seq(Orders), NEW order \in Orders, Accept(order)
  PROVE  /\ orders' \in Seq(Orders) /\ Len(orders') = Len(orders) + 1
         /\ orders'[Len(orders) + 1] = order
         /\ \A o \in 1..Len(orders) : orders'[o] = orders[o]
BY AppendProperties DEF Accept

\* The provider accepts the order of a request that asked for it.
LEMMA OrderKeeps ==
  ASSUME IInv, NEW k \in Calls, Moves(k), NEW order \in Orders, Accept(order),
         Asking(call[k]), order.tx = call[k].tx, order.method = call[k].method,
         order.kind = IF call[k].at = "disbursing" THEN "disburse" ELSE "collect",
         UNCHANGED <<collection, rows, sent>>, BudgetOK',
         CallFits(call[k])', ~ Asking(call[k])'
  PROVE  IInv'
<1>1. /\ rows \in Seq(TransactionRows) /\ Len(rows) \in Nat
      /\ orders \in Seq(Orders) /\ Len(orders) \in Nat
  BY CallFacts
<1>2. /\ orders' \in Seq(Orders) /\ Len(orders') = Len(orders) + 1
      /\ orders'[Len(orders) + 1] = order
      /\ \A o \in 1..Len(orders) : orders'[o] = orders[o]
  BY <1>1, AcceptType
<1>3. \A o \in 1..Len(orders') : o \in 1..Len(orders) \/ o = Len(orders) + 1
  BY <1>1, <1>2
<1>4. TypeOK'
  BY <1>2 DEF IInv, TypeOK, ProviderTypeOK, Moves
<1>5. RowsGrow /\ OrdersGrow
  BY <1>1, <1>2 DEF RowsGrow, OrdersGrow
<1>6. RowsFit'
  <2>1. ASSUME NEW t \in 1..Len(rows), PaidOut(t) PROVE PaidOut(t)'
    BY <1>1, <1>2, <2>1 DEF PaidOut
  <2> QED
    BY <2>1 DEF IInv, RowsFit, RowFits
<1>7. /\ call[k].tx \in 1..Len(rows) /\ rows[call[k].tx].method = call[k].method
      /\ rows[call[k].tx].by = IF call[k].at = "disbursing" THEN "withdraw" ELSE "retry"
      /\ ~ HasOrder(call[k].tx)
  BY CallFacts DEF CallFits, RowOfCallFits, OrderOfCallFits, Asking
<1>8. OrdersFit'
  BY <1>2, <1>3, <1>7 DEF IInv, OrdersFit, OrderFits, Asking
<1>9. OneOrderPerRow'
  BY <1>2, <1>3, <1>7 DEF IInv, OneOrderPerRow, HasOrder
<1>10. CompletedIsBacked'
  BY DEF IInv, CompletedIsBacked, Booked
<1>11. ASSUME NEW j \in Calls \ {k}, Asking(call[j])
       PROVE  ~ HasOrder(call[j].tx)'
  <2>1. call[j].tx # call[k].tx
    BY <1>11 DEF IInv, AskAlone
  <2>2. ~ HasOrder(call[j].tx)
    BY <1>11 DEF IInv, CallsFit, CallFits, OrderOfCallFits
  <2>3. call'[j] = call[j]
    BY <1>11 DEF Moves
  <2> QED
    BY <1>2, <1>3, <2>1, <2>2, <2>3 DEF HasOrder
<1> QED
  BY <1>4, <1>5, <1>6, <1>8, <1>9, <1>10, <1>11, StepKeeps

\* The two outcomes of asking a provider.
LEMMA AskKeeps ==
  ASSUME IInv, NEW k \in Calls, NEW order \in Orders, Asking(call[k]),
         order.tx = call[k].tx, order.method = call[k].method,
         order.kind = IF call[k].at = "disbursing" THEN "disburse" ELSE "collect",
         NEW next \in {"submitted", "referencing"}, NEW otherwise \in {"failing", "completing"},
         call[k].at = "disbursing" =>
           /\ next = "submitted" /\ otherwise = "failing"
           /\ call[k].method = "MPESA" => ~ order.referenced,
         call[k].at = "collecting" => next = "referencing" /\ otherwise = "completing",
         Ask(k, order, next, otherwise), UNCHANGED <<collection, rows, sent>>
  PROVE  IInv'
<1> USE DEF PayStages, ReviewStages, WithdrawStages, RetryStages, CallbackStages
<1>1. /\ call[k] \in CallStates /\ CallFits(call[k]) /\ BudgetOK
      /\ orders \in Seq(Orders) /\ Len(orders) \in Nat
  BY CallFacts
<1>2. CASE /\ Accept(order) /\ Working
           /\ Become(k, [call[k] EXCEPT !.at = next, !.ok = TRUE, !.ref = ReferenceId(order)])
  <2> DEFINE s == [call[k] EXCEPT !.at = next, !.ok = TRUE, !.ref = ReferenceId(order)]
  <2>1. ReferenceId(order) \in Nat
    BY <1>1 DEF ReferenceId
  <2>2. s \in CallStates
    BY <1>1, <2>1 DEF CallStates, Stages
  <2>3. /\ s.at = next /\ s.ref = ReferenceId(order) /\ s.op = call[k].op /\ s.tx = call[k].tx
        /\ s.method = call[k].method /\ s.told = call[k].told /\ s.coll = call[k].coll
    BY <1>1 DEF CallStates
  <2> HIDE DEF s
  <2>4. Moves(k) /\ call'[k] = s /\ ~ Asking(call[k])'
    BY <1>2, <2>2, <2>3, GoesOn DEF Asking, s
  <2>5. HasOrder(call[k].tx)'
    <3>1. Len(orders') = Len(orders) + 1 /\ orders'[Len(orders) + 1].tx = call'[k].tx
      BY <1>1, <1>2, <2>3, <2>4, AcceptType
    <3>2. Len(orders) + 1 \in 1..Len(orders')
      BY <1>1, <3>1
    <3> QED
      BY <3>1, <3>2 DEF HasOrder
  <2>6. s.at = "submitted" /\ s.method = "MPESA" => s.ref = 0
    BY <2>3, <1>1 DEF ReferenceId, Asking
  <2>7. CallFits(call[k])'
    BY <1>1, <2>3, <2>4, <2>5, <2>6
       DEF CallFits, OpFits, RowOfCallFits, OrderOfCallFits, AnswerFits, Asking, HasOrder
  <2>8. BudgetOK'
    BY <1>1, <1>2, BudgetKept
  <2> QED
    BY <1>2, <2>4, <2>7, <2>8, OrderKeeps
<1>3. CASE /\ Failing /\ (Accept(order) \/ UNCHANGED orders)
           /\ Become(k, [call[k] EXCEPT !.at = otherwise, !.ok = FALSE])
  <2> DEFINE s == [call[k] EXCEPT !.at = otherwise, !.ok = FALSE]
  <2>1. s \in CallStates
    BY <1>1 DEF CallStates, Stages
  <2>2. /\ s.at = otherwise /\ s.op = call[k].op /\ s.tx = call[k].tx
        /\ s.method = call[k].method /\ s.told = call[k].told /\ s.coll = call[k].coll
    BY <1>1 DEF CallStates
  <2> HIDE DEF s
  <2>3. Moves(k) /\ call'[k] = s /\ ~ Asking(call[k])'
    BY <1>3, <2>1, <2>2, GoesOn DEF Asking, s
  <2>4. CallFits(call[k])'
    BY <1>1, <2>2, <2>3
       DEF CallFits, OpFits, RowOfCallFits, OrderOfCallFits, AnswerFits, Asking
  <2>5. BudgetOK'
    BY <1>1, <1>3, BudgetKept
  <2> QED
    BY <1>3, <2>3, <2>4, <2>5, OrderKeeps, CallReads
<1> QED
  BY <1>2, <1>3 DEF Ask

\* No order is for a row that is not there yet.
LEMMA NoOrderYet ==
  ASSUME IInv
  PROVE  \A o \in 1..Len(orders) : orders[o].tx # Len(rows) + 1
BY LenProperties DEF IInv, TypeOK, OrdersFit, OrderFits

\* A write of a row makes nothing smaller.
LEMMA WriteRowGrows ==
  ASSUME IInv, NEW t \in 1..Len(rows), NEW r \in TransactionRows, WriteRow(t, r),
         UNCHANGED orders,
         r.by = rows[t].by, r.method = rows[t].method, r.coll = rows[t].coll
  PROVE  RowsGrow /\ OrdersGrow /\ Len(rows') \in Nat /\ Len(orders') \in Nat /\ Len(rows') = Len(rows)
<1>1. /\ rows \in Seq(TransactionRows) /\ Len(rows) \in Nat /\ Len(orders) \in Nat
  BY LenProperties DEF IInv, TypeOK, ProviderTypeOK
<1> QED
  BY <1>1, WriteRowType DEF RowsGrow, OrdersGrow

\* processWithdrawal keeps the invariant.
LEMMA WithdrawingKeeps ==
  ASSUME IInv, NEW k \in Calls, Withdrawing(k)
  PROVE  IInv'
<1> USE DEF PayStages, ReviewStages, WithdrawStages, RetryStages, CallbackStages
<1>1. /\ call[k] \in CallStates /\ CallFits(call[k])
      /\ rows \in Seq(TransactionRows) /\ Len(rows) \in Nat
      /\ orders \in Seq(Orders) /\ Len(orders) \in Nat
  BY CallFacts
<1>2. ASSUME Working PROVE BudgetOK'
  BY <1>2, BudgetKept, CallFacts
<1>3. CASE CheckBalance(k)
  <2>1. CASE Return(k)
    BY <2>1, <1>2, <1>3, ReturnFits, CallReads DEF CheckBalance
  <2>2. CASE Goto(k, "creating")
    <3>1. [call[k] EXCEPT !.at = "creating"] \in CallStates
      BY <1>1 DEF CallStates, Stages
    <3>2. Moves(k) /\ call'[k] = [call[k] EXCEPT !.at = "creating"] /\ ~ Asking(call[k])'
      BY <2>2, <3>1, <1>1, GoesOn DEF Goto, Asking, CallStates
    <3>3. CallFits(call[k])'
      BY <1>1, <1>3, <3>2
         DEF CheckBalance, At, CallStates, CallFits, OpFits, RowOfCallFits, OrderOfCallFits,
             AnswerFits, Asking
    <3> QED
      BY <1>2, <1>3, <3>2, <3>3, CallReads DEF CheckBalance
  <2> QED
    BY <1>3, <2>1, <2>2 DEF CheckBalance
<1>4. CASE CreateWithdrawal(k)
  <2> DEFINE r == [by |-> "withdraw", origin |-> Len(rows) + 1, type |-> "WITHDRAWAL",
                   method |-> call[k].method, status |-> "PROCESSING",
                   ref |-> 0, coll |-> Nil, completed |-> FALSE]
  <2>1. PICK stage \in {"disbursing", "failing"} :
          Become(k, [call[k] EXCEPT !.tx = Len(rows) + 1, !.at = stage])
    BY <1>4 DEF CreateWithdrawal
  <2> DEFINE s == [call[k] EXCEPT !.tx = Len(rows) + 1, !.at = stage]
  <2>2. r \in TransactionRows
    BY <1>1 DEF CallStates, TransactionRows, Statuses, Types
  <2>3. s \in CallStates
    <3>1. call[k] \in CallStates /\ stage \in Stages /\ Len(rows) + 1 \in Nat
      BY <1>1 DEF Stages
    <3> QED
      BY <3>1, StageAndRowType
  <2>4. /\ s.at = stage /\ s.tx = Len(rows) + 1 /\ s.method = call[k].method
        /\ s.op = call[k].op /\ s.told = call[k].told
    BY <1>1 DEF CallStates
  <2>5. Moves(k) /\ call'[k] = s
    BY <1>1, <2>1, <2>3, BecomeType, CallFacts DEF Moves
  <2>6. /\ Len(rows') = Len(rows) + 1 /\ rows'[Len(rows) + 1] = r
        /\ rows' \in Seq(TransactionRows)
    BY <1>1, <1>4, <2>2, AppendRowType DEF CreateWithdrawal
  <2>7. r.by = "withdraw" /\ r.method = call[k].method /\ r.ref = 0 /\ r.status = "PROCESSING"
    OBVIOUS
  <2>8. Len(rows) + 1 \in 1..Len(rows')
    BY <1>1, <2>6
  <2>9. UNCHANGED orders /\ \A o \in 1..Len(orders) : orders[o].tx # Len(rows) + 1
    BY <1>4, NoOrderYet DEF CreateWithdrawal
  <2> HIDE DEF s, r
  <2>10. CallFits(call[k])'
    <3>1. call[k].op = "withdraw" /\ ~ call[k].told
      BY <1>1, <1>4 DEF CreateWithdrawal, At, CallFits, OpFits, CallStates
    <3>2. ~ HasOrder(call[k].tx)'
      BY <2>4, <2>5, <2>9 DEF HasOrder
    <3> QED
      BY <2>4, <2>5, <2>6, <2>7, <2>8, <3>1, <3>2
         DEF CallFits, OpFits, RowOfCallFits, OrderOfCallFits, AnswerFits, Asking, HasOrder
  <2>11. BudgetOK' /\ UNCHANGED <<orders, collection, sent>> /\ rows' = Append(rows, r)
    BY <1>2, <1>4 DEF CreateWithdrawal, r
  <2>12. r.method \in Methods /\ call'[k].tx = Len(rows) + 1
    BY <1>1, <2>4, <2>5, <2>7 DEF CallStates
  <2> QED
    BY <2>2, <2>5, <2>7, <2>10, <2>11, <2>12, RowAppends
<1>5. CASE Disburse(k)
  <2>1. At(k, "disbursing") /\ call[k].method \in Methods /\ call[k].tx \in Nat
    BY <1>1, <1>5 DEF Disburse, CallStates
  <2>2. Ask(k, ProviderWithdrawal(call[k].method, call[k].tx), "submitted", "failing")
    BY <1>5 DEF Disburse
  <2> QED
    BY <1>5, <2>1, <2>2, WithdrawalOrder, AskKeeps DEF Disburse, At, Asking
<1>6. CASE WritePending(k)
  <2> DEFINE t == call[k].tx
             r == [rows[t] EXCEPT !.status = "PENDING", !.ref = call[k].ref]
  <2>1. /\ t \in 1..Len(rows) /\ rows[t].by = "withdraw" /\ rows[t].method = call[k].method
        /\ call[k].method = "MPESA" => call[k].ref = 0
        /\ HasOrder(t) /\ call[k].op = "withdraw" /\ call[k].ref \in Nat
    BY <1>1, <1>6 DEF WritePending, At, CallFits, OpFits, RowOfCallFits, OrderOfCallFits, CallStates
  <2>2. rows[t] \in TransactionRows
    BY <1>1, <2>1
  <2>3. r \in TransactionRows
    <3>1. rows[t] \in TransactionRows /\ "PENDING" \in Statuses /\ call[k].ref \in Nat
      BY <2>1, <2>2 DEF Statuses
    <3> QED
      BY <3>1, StatusAndRefType
  <2>4. /\ r.by = rows[t].by /\ r.method = rows[t].method /\ r.coll = rows[t].coll
        /\ r.status = "PENDING" /\ r.ref = call[k].ref
    BY <2>2 DEF TransactionRows
  <2>5. WriteRow(t, r) /\ UNCHANGED <<orders, collection, sent>> /\ BudgetOK' /\ Succeed(k)
    BY <1>2, <1>6 DEF WritePending
  <2> HIDE DEF r
  <2>6. RowsGrow /\ OrdersGrow /\ Len(rows') \in Nat /\ Len(orders') \in Nat
    BY <2>1, <2>3, <2>4, <2>5, WriteRowGrows
  <2>7. Moves(k) /\ CallFits(call[k])' /\ ~ Asking(call[k])'
    BY <2>1, <2>5, <2>6, SucceedFits
  <2> QED
    BY <2>1, <2>3, <2>4, <2>5, <2>7, RowMoves
<1>7. CASE WriteFailed(k)
  <2> DEFINE t == call[k].tx
             r == [rows[t] EXCEPT !.status = "FAILED"]
  <2>1. t \in 1..Len(rows) /\ rows[t].by = "withdraw"
    BY <1>1, <1>7 DEF WriteFailed, At, CallFits, RowOfCallFits
  <2>2. rows[t] \in TransactionRows
    BY <1>1, <2>1
  <2>3. r \in TransactionRows
    BY <2>2 DEF TransactionRows, Statuses
  <2>4. /\ r.by = rows[t].by /\ r.method = rows[t].method /\ r.coll = rows[t].coll
        /\ r.status = "FAILED" /\ r.ref = rows[t].ref
    BY <2>2 DEF TransactionRows
  <2>5. WriteRow(t, r) /\ UNCHANGED <<orders, collection, sent>> /\ BudgetOK' /\ Return(k)
    BY <1>2, <1>7 DEF WriteFailed
  <2> HIDE DEF r
  <2>6. r.by = "withdraw" /\ r.method = "MPESA" => r.ref = 0
    BY <2>1, <2>4 DEF IInv, RowsFit, RowFits
  <2> QED
    BY <2>1, <2>3, <2>4, <2>5, <2>6, ReturnFits, RowMoves
<1> QED
  BY <1>3, <1>4, <1>5, <1>6, <1>7 DEF Withdrawing

\* What the row of a retry copies from the row that failed.
LEMMA CopiedType ==
  ASSUME IInv, NEW k \in Calls, At(k, "recreating")
  PROVE  rows[call[k].tx].origin \in Nat /\ rows[call[k].tx].type \in Types
<1>1. call[k].tx \in 1..Len(rows) /\ rows \in Seq(TransactionRows)
  BY CallFacts DEF At, CallFits, RowOfCallFits
<1>2. rows[call[k].tx] \in TransactionRows
  BY <1>1
<1> QED
  BY <1>2 DEF TransactionRows

\* retryPayment keeps the invariant.
LEMMA RetryingKeeps ==
  ASSUME IInv, NEW k \in Calls, Retrying(k)
  PROVE  IInv'
<1> USE DEF PayStages, ReviewStages, WithdrawStages, RetryStages, CallbackStages
<1>1. /\ call[k] \in CallStates /\ CallFits(call[k])
      /\ rows \in Seq(TransactionRows) /\ Len(rows) \in Nat
      /\ orders \in Seq(Orders) /\ Len(orders) \in Nat
  BY CallFacts
<1>2. ASSUME Working PROVE BudgetOK'
  BY <1>2, BudgetKept, CallFacts
<1>3. CASE CheckFailed(k)
  <2> DEFINE t == call[k].tx
  <2>1. CASE Return(k)
    BY <2>1, <1>2, <1>3, ReturnFits, CallReads DEF CheckFailed
  <2>2. CASE /\ rows[t].status = "FAILED"
             /\ Become(k, [call[k] EXCEPT !.at = "resetting", !.method = rows[t].method,
                                          !.ref = rows[t].ref])
    <3> DEFINE s == [call[k] EXCEPT !.at = "resetting", !.method = rows[t].method,
                                    !.ref = rows[t].ref]
    <3>1. t \in 1..Len(rows) /\ rows[t] \in TransactionRows
      BY <1>1, <1>3 DEF CheckFailed, At, CallFits, RowOfCallFits
    <3>2. rows[t].by # "pay" /\ rows[t].method \in Methods /\ rows[t].ref \in Nat
      BY <2>2, <3>1 DEF IInv, RowsFit, RowFits, TransactionRows
    <3>3. s \in CallStates
      BY <1>1, <3>2 DEF CallStates, Stages
    <3>4. s.at = "resetting" /\ s.op = call[k].op /\ s.tx = t /\ s.told = call[k].told
      BY <1>1 DEF CallStates
    <3> HIDE DEF s
    <3>5. Moves(k) /\ call'[k] = s /\ ~ Asking(call[k])'
      BY <2>2, <3>3, <3>4, GoesOn DEF Asking, s
    <3>6. CallFits(call[k])'
      BY <1>1, <1>3, <3>1, <3>2, <3>4, <3>5
         DEF CheckFailed, At, CallFits, OpFits, RowOfCallFits, OrderOfCallFits, AnswerFits, Asking
    <3> QED
      BY <1>2, <1>3, <3>5, <3>6, CallReads DEF CheckFailed
  <2> QED
    BY <1>3, <2>1, <2>2 DEF CheckFailed
<1>4. CASE ResetRow(k)
  <2> DEFINE t == call[k].tx
             r == [rows[t] EXCEPT !.status = "PENDING"]
             s == [call[k] EXCEPT !.at = "recreating"]
  <2>1. t \in 1..Len(rows) /\ rows[t].by # "pay"
    BY <1>1, <1>4 DEF ResetRow, At, CallFits, RowOfCallFits
  <2>2. rows[t] \in TransactionRows
    BY <1>1, <2>1
  <2>3. r \in TransactionRows
    BY <2>2 DEF TransactionRows, Statuses
  <2>4. /\ r.by = rows[t].by /\ r.method = rows[t].method /\ r.coll = rows[t].coll
        /\ r.status = "PENDING" /\ r.ref = rows[t].ref
    BY <2>2 DEF TransactionRows
  <2>5. s \in CallStates
    BY <1>1 DEF CallStates, Stages
  <2>6. s.at = "recreating" /\ s.op = call[k].op /\ s.tx = t /\ s.told = call[k].told
    BY <1>1 DEF CallStates
  <2>7. /\ WriteRow(t, r) /\ UNCHANGED <<orders, collection, sent>> /\ BudgetOK'
        /\ Become(k, s)
    BY <1>2, <1>4 DEF ResetRow, Goto
  <2> HIDE DEF r, s
  <2>8. Moves(k) /\ call'[k] = s /\ ~ Asking(call[k])'
    BY <2>5, <2>6, <2>7, GoesOn DEF Asking
  <2>9. Len(rows') = Len(rows) /\ rows'[t] = r
    BY <1>1, <2>1, <2>3, <2>7, WriteRowType
  <2>10. CallFits(call[k])'
    BY <1>1, <1>4, <2>1, <2>4, <2>6, <2>8, <2>9
       DEF ResetRow, At, CallFits, OpFits, RowOfCallFits, OrderOfCallFits, AnswerFits, Asking
  <2>11. r.by = "withdraw" /\ r.method = "MPESA" => r.ref = 0
    BY <2>1, <2>4 DEF IInv, RowsFit, RowFits
  <2> QED
    BY <2>1, <2>3, <2>4, <2>7, <2>8, <2>10, <2>11, RowMoves
<1>5. CASE CreatePayment(k)
  <2> DEFINE r == [by |-> "retry", origin |-> rows[call[k].tx].origin,
                   type |-> rows[call[k].tx].type, method |-> call[k].method, status |-> "PENDING",
                   ref |-> call[k].ref, coll |-> Nil, completed |-> FALSE]
  <2>1. PICK stage \in {"collecting", "completing"} :
          Become(k, [call[k] EXCEPT !.tx = Len(rows) + 1, !.ok = FALSE, !.at = stage])
    BY <1>5 DEF CreatePayment
  <2> DEFINE s == [call[k] EXCEPT !.tx = Len(rows) + 1, !.ok = FALSE, !.at = stage]
  <2>2. r \in TransactionRows
    BY <1>1, <1>5, CopiedType DEF CreatePayment, CallStates, TransactionRows, Statuses
  <2>3. s \in CallStates
    <3>1. call[k] \in CallStates /\ stage \in Stages /\ Len(rows) + 1 \in Nat
      BY <1>1 DEF Stages
    <3> QED
      BY <3>1 DEF CallStates
  <2>4. /\ s.at = stage /\ s.tx = Len(rows) + 1 /\ s.method = call[k].method
        /\ s.op = call[k].op /\ s.told = call[k].told
    BY <1>1 DEF CallStates
  <2>5. Moves(k) /\ call'[k] = s
    BY <1>1, <2>1, <2>3, BecomeType, CallFacts DEF Moves
  <2>6. /\ Len(rows') = Len(rows) + 1 /\ rows'[Len(rows) + 1] = r
        /\ rows' \in Seq(TransactionRows)
    BY <1>1, <1>5, <2>2, AppendRowType DEF CreatePayment
  <2>7. r.by = "retry" /\ r.method = call[k].method
    OBVIOUS
  <2>8. Len(rows) + 1 \in 1..Len(rows')
    BY <1>1, <2>6
  <2>9. UNCHANGED orders /\ \A o \in 1..Len(orders) : orders[o].tx # Len(rows) + 1
    BY <1>5, NoOrderYet DEF CreatePayment
  <2> HIDE DEF s, r
  <2>10. CallFits(call[k])'
    <3>1. call[k].op = "retry" /\ ~ call[k].told
      BY <1>1, <1>5 DEF CreatePayment, At, CallFits, OpFits, CallStates
    <3>2. ~ HasOrder(call[k].tx)'
      BY <2>4, <2>5, <2>9 DEF HasOrder
    <3> QED
      BY <2>4, <2>5, <2>6, <2>7, <2>8, <3>1, <3>2
         DEF CallFits, OpFits, RowOfCallFits, OrderOfCallFits, AnswerFits, Asking, HasOrder
  <2>11. BudgetOK' /\ UNCHANGED <<orders, collection, sent>> /\ rows' = Append(rows, r)
    BY <1>2, <1>5 DEF CreatePayment, r
  <2>12. r.method \in Methods /\ call'[k].tx = Len(rows) + 1
    BY <1>1, <2>4, <2>5, <2>7 DEF CallStates
  <2> QED
    BY <2>2, <2>5, <2>7, <2>10, <2>11, <2>12, RowAppends
<1>6. CASE Collect(k)
  <2>1. At(k, "collecting") /\ call[k].method \in Methods /\ call[k].tx \in Nat
    BY <1>1, <1>6 DEF Collect, CallStates
  <2>2. Ask(k, ProviderPayment(call[k].method, call[k].tx), "referencing", "completing")
    BY <1>6 DEF Collect
  <2> QED
    BY <1>6, <2>1, <2>2, PaymentOrder, AskKeeps DEF Collect, At, Asking
<1>7. CASE WriteReference(k)
  <2> DEFINE t == call[k].tx
             r == [rows[t] EXCEPT !.ref = call[k].ref]
             s == [call[k] EXCEPT !.at = "completing"]
  <2>1. t \in 1..Len(rows) /\ rows[t].by = "retry" /\ call[k].ref \in Nat
    BY <1>1, <1>7 DEF WriteReference, At, CallFits, RowOfCallFits, CallStates
  <2>2. rows[t] \in TransactionRows
    BY <1>1, <2>1
  <2>3. r \in TransactionRows
    BY <2>1, <2>2 DEF TransactionRows
  <2>4. r.by = rows[t].by /\ r.method = rows[t].method /\ r.coll = rows[t].coll
    BY <2>2 DEF TransactionRows
  <2>5. s \in CallStates
    BY <1>1 DEF CallStates, Stages
  <2>6. /\ s.at = "completing" /\ s.op = call[k].op /\ s.tx = t /\ s.told = call[k].told
        /\ s.method = call[k].method
    BY <1>1 DEF CallStates
  <2>7. /\ WriteRow(t, r) /\ UNCHANGED <<orders, collection, sent>> /\ BudgetOK'
        /\ Become(k, s)
    BY <1>2, <1>7 DEF WriteReference, Goto
  <2> HIDE DEF r, s
  <2>8. Moves(k) /\ call'[k] = s /\ ~ Asking(call[k])'
    BY <2>5, <2>6, <2>7, GoesOn DEF Asking
  <2>9. Len(rows') = Len(rows) /\ rows'[t] = r
    BY <1>1, <2>1, <2>3, <2>7, WriteRowType
  <2>10. CallFits(call[k])'
    BY <1>1, <1>7, <2>1, <2>4, <2>6, <2>8, <2>9
       DEF WriteReference, At, CallFits, OpFits, RowOfCallFits, OrderOfCallFits, AnswerFits, Asking
  <2> QED
    BY <2>1, <2>3, <2>4, <2>7, <2>8, <2>10, RowMoves
<1>8. CASE WriteOutcome(k)
  <2> DEFINE t == call[k].tx
             status == IF call[k].ok THEN "COMPLETED" ELSE "FAILED"
             r == [rows[t] EXCEPT !.status = status, !.completed = call[k].ok]
  <2>1. /\ t \in 1..Len(rows) /\ rows[t].by = "retry" /\ call[k].ok \in BOOLEAN
        /\ call[k].op = "retry"
    BY <1>1, <1>8 DEF WriteOutcome, At, CallFits, OpFits, RowOfCallFits, CallStates
  <2>2. rows[t] \in TransactionRows
    BY <1>1, <2>1
  <2>3. r \in TransactionRows
    <3>1. status \in Statuses
      BY DEF Statuses
    <3> HIDE DEF status
    <3> QED
      BY <2>1, <2>2, <3>1, OutcomeType
  <2>4. r.by = rows[t].by /\ r.method = rows[t].method /\ r.coll = rows[t].coll
    BY <2>2 DEF TransactionRows
  <2>5. /\ WriteRow(t, r) /\ UNCHANGED <<orders, collection, sent>> /\ BudgetOK'
        /\ Succeed(k) \/ Return(k)
    BY <1>2, <1>8 DEF WriteOutcome
  <2> HIDE DEF r
  <2>6. RowsGrow /\ OrdersGrow /\ Len(rows') \in Nat /\ Len(orders') \in Nat
    BY <2>1, <2>3, <2>4, <2>5, WriteRowGrows
  <2>7. Moves(k) /\ CallFits(call[k])' /\ ~ Asking(call[k])'
    BY <2>1, <2>5, <2>6, SucceedFits, ReturnFits
  <2> QED
    BY <2>1, <2>3, <2>4, <2>5, <2>7, RowMoves
<1> QED
  BY <1>3, <1>4, <1>5, <1>6, <1>7, <1>8 DEF Retrying

\* cancelTransaction keeps the invariant.
LEMMA CancellingKeeps ==
  ASSUME IInv, NEW k \in Calls, Cancelling(k)
  PROVE  IInv'
<1> USE DEF PayStages, ReviewStages, WithdrawStages, RetryStages, CallbackStages
<1>1. /\ call[k] \in CallStates /\ CallFits(call[k])
      /\ rows \in Seq(TransactionRows) /\ Len(rows) \in Nat
  BY CallFacts
<1>2. ASSUME Working PROVE BudgetOK'
  BY <1>2, BudgetKept, CallFacts
<1>3. CASE CheckPending(k)
  <2>1. CASE Return(k)
    BY <2>1, <1>2, <1>3, ReturnFits, CallReads DEF CheckPending
  <2>2. CASE rows[call[k].tx].status = "PENDING" /\ Goto(k, "cancelled")
    <3>1. [call[k] EXCEPT !.at = "cancelled"] \in CallStates
      BY <1>1 DEF CallStates, Stages
    <3>2. Moves(k) /\ call'[k] = [call[k] EXCEPT !.at = "cancelled"] /\ ~ Asking(call[k])'
      BY <2>2, <3>1, <1>1, GoesOn DEF Goto, Asking, CallStates
    <3>3. call[k].tx \in 1..Len(rows) /\ rows[call[k].tx].by # "pay"
      BY <1>1, <1>3, <2>2 DEF CheckPending, At, CallFits, RowOfCallFits, IInv, RowsFit, RowFits
    <3>4. CallFits(call[k])'
      BY <1>1, <1>3, <3>2, <3>3
         DEF CheckPending, At, CallStates, CallFits, OpFits, RowOfCallFits, OrderOfCallFits,
             AnswerFits, Asking
    <3> QED
      BY <1>2, <1>3, <3>2, <3>4, CallReads DEF CheckPending
  <2> QED
    BY <1>3, <2>1, <2>2 DEF CheckPending
<1>4. CASE WriteCancelled(k)
  <2> DEFINE t == call[k].tx
             r == [rows[t] EXCEPT !.status = "CANCELLED"]
  <2>1. t \in 1..Len(rows) /\ rows[t].by # "pay" /\ call[k].op = "cancel"
    BY <1>1, <1>4 DEF WriteCancelled, At, CallFits, OpFits, RowOfCallFits
  <2>2. rows[t] \in TransactionRows
    BY <1>1, <2>1
  <2>3. r \in TransactionRows
    BY <2>2 DEF TransactionRows, Statuses
  <2>4. /\ r.by = rows[t].by /\ r.method = rows[t].method /\ r.coll = rows[t].coll
        /\ r.status = "CANCELLED" /\ r.ref = rows[t].ref
    BY <2>2 DEF TransactionRows
  <2>5. WriteRow(t, r) /\ UNCHANGED <<orders, collection, sent>> /\ BudgetOK' /\ Succeed(k)
    BY <1>2, <1>4 DEF WriteCancelled
  <2> HIDE DEF r
  <2>6. RowsGrow /\ OrdersGrow /\ Len(rows') \in Nat /\ Len(orders') \in Nat
    BY <2>1, <2>3, <2>4, <2>5, WriteRowGrows
  <2>7. Moves(k) /\ CallFits(call[k])' /\ ~ Asking(call[k])'
    BY <2>1, <2>5, <2>6, SucceedFits
  <2>8. r.by = "withdraw" /\ r.method = "MPESA" => r.ref = 0
    BY <2>1, <2>4 DEF IInv, RowsFit, RowFits
  <2> QED
    BY <2>1, <2>3, <2>4, <2>5, <2>7, <2>8, RowMoves
<1> QED
  BY <1>3, <1>4 DEF Cancelling

\* processMobileMoneyCallback keeps the invariant once it has begun.
LEMMA CallingBackKeeps ==
  ASSUME IInv, NEW k \in Calls, CallingBack(k)
  PROVE  IInv'
<1> USE DEF PayStages, ReviewStages, WithdrawStages, RetryStages, CallbackStages
<1>1. /\ call[k] \in CallStates /\ CallFits(call[k])
      /\ rows \in Seq(TransactionRows) /\ Len(rows) \in Nat
  BY CallFacts
<1>2. ASSUME Working PROVE BudgetOK'
  BY <1>2, BudgetKept, CallFacts
<1>3. CASE MatchReference(k)
  <2>1. CASE Return(k)
    BY <2>1, <1>2, <1>3, ReturnFits, CallReads DEF MatchReference
  <2>2. ASSUME NEW t \in Matching(call[k].order),
               Become(k, [call[k] EXCEPT !.at = "finding", !.tx = t])
        PROVE  IInv'
    <3> DEFINE s == [call[k] EXCEPT !.at = "finding", !.tx = t]
    <3>1. /\ t \in 1..Len(rows) /\ rows[t].method = "MPESA" /\ rows[t].status = "PENDING"
          /\ rows[t].ref = call[k].order /\ call[k].order # 0
      <4>1. call[k].order \in 1..Len(orders) /\ Len(orders) \in Nat
        BY <1>1, <1>3, CallFacts DEF MatchReference, At, CallFits, OrderOfCallFits
      <4>2. call[k].order # 0
        BY <4>1
      <4> QED
        BY <2>2, <4>2 DEF Matching
    <3>2. rows[t].by # "pay" /\ rows[t].by # "withdraw"
      BY <3>1 DEF IInv, RowsFit, RowFits
    <3>3. s \in CallStates
      <4>1. call[k] \in CallStates /\ "finding" \in Stages /\ t \in Nat
        BY <1>1, <3>1 DEF Stages
      <4> QED
        BY <4>1, StageAndRowType
    <3>4. /\ s.at = "finding" /\ s.op = call[k].op /\ s.tx = t /\ s.told = call[k].told
          /\ s.order = call[k].order /\ s.ok = call[k].ok
      BY <1>1 DEF CallStates
    <3> HIDE DEF s
    <3>5. Moves(k) /\ call'[k] = s /\ ~ Asking(call[k])'
      BY <2>2, <3>3, <3>4, GoesOn DEF Asking, s
    <3>6. UNCHANGED <<orders, collection, rows, sent>> /\ BudgetOK'
      BY <1>2, <1>3 DEF MatchReference
    <3>7. CallFits(call[k])'
      BY <1>1, <1>3, <3>1, <3>2, <3>4, <3>5, <3>6
         DEF MatchReference, At, CallFits, OpFits, RowOfCallFits, OrderOfCallFits, AnswerFits, Asking
    <3> QED
      BY <3>5, <3>6, <3>7, CallReads
  <2> QED
    BY <1>3, <2>1, <2>2 DEF MatchReference
<1>4. CASE FindTransaction(k)
  <2> DEFINE t == call[k].tx
             s == [call[k] EXCEPT !.at = "settling", !.ref = rows[t].ref]
  <2>1. CASE Return(k)
    BY <2>1, <1>2, <1>4, ReturnFits, CallReads DEF FindTransaction
  <2>2. CASE t # 0 /\ Become(k, s)
    <3>1. t \in 1..Len(rows) /\ rows[t] \in TransactionRows
      BY <1>1, <1>4, <2>2 DEF FindTransaction, At, CallFits, OrderOfCallFits
    <3>2. rows[t].ref \in Nat
      BY <3>1 DEF TransactionRows
    <3>3. s \in CallStates
      BY <1>1, <3>2 DEF CallStates, Stages
    <3>4. /\ s.at = "settling" /\ s.op = call[k].op /\ s.tx = t /\ s.told = call[k].told
          /\ s.order = call[k].order /\ s.ok = call[k].ok /\ s.ref = rows[t].ref
      BY <1>1 DEF CallStates
    <3> HIDE DEF s
    <3>5. Moves(k) /\ call'[k] = s /\ ~ Asking(call[k])'
      BY <2>2, <3>3, <3>4, GoesOn DEF Asking, s
    <3>6. UNCHANGED <<orders, collection, rows, sent>> /\ BudgetOK'
      BY <1>2, <1>4 DEF FindTransaction
    <3>7. RowFits(t)
      BY <3>1 DEF IInv, RowsFit
    <3>8. /\ call[k].op = "callback" /\ ~ call[k].told
          /\ call[k].order \in 1..Len(orders)
          /\ call[k].ok => orders[call[k].order].state = "success"
          /\ rows[t].by # "pay"
          /\ call[k].ok /\ rows[t].by = "withdraw" => PaidOut(t)
      BY <1>1, <1>4, <2>2 DEF FindTransaction, At, CallFits, OpFits, OrderOfCallFits, CallStates
    <3>9. OrderOfCallFits(call[k])'
      BY <3>1, <3>4, <3>5, <3>6, <3>7, <3>8 DEF OrderOfCallFits, Asking, RowFits, PaidOut
    <3>10. CallFits(call[k])'
      BY <3>4, <3>5, <3>8, <3>9 DEF CallFits, OpFits, RowOfCallFits, AnswerFits
    <3> QED
      BY <3>5, <3>6, <3>10, CallReads
  <2> QED
    BY <1>4, <2>1, <2>2 DEF FindTransaction
<1>5. CASE WriteSettled(k)
  <2> DEFINE t == call[k].tx
             status == IF call[k].ok THEN "COMPLETED" ELSE "FAILED"
             r == [rows[t] EXCEPT !.status = status, !.completed = call[k].ok, !.ref = call[k].ref]
  <2>1. /\ t \in 1..Len(rows) /\ rows[t].by # "pay"
        /\ call[k].ok /\ rows[t].by = "withdraw" => PaidOut(t)
        /\ rows[t].by = "withdraw" /\ rows[t].method = "MPESA" => call[k].ref = 0
    BY <1>1, <1>5 DEF WriteSettled, At, CallFits, OrderOfCallFits
  <2>2. rows[t] \in TransactionRows /\ call[k].ok \in BOOLEAN /\ call[k].ref \in Nat
    BY <1>1, <2>1 DEF CallStates
  <2>3. r \in TransactionRows
    <3>1. status \in Statuses
      BY DEF Statuses
    <3> HIDE DEF status
    <3> QED
      BY <2>2, <3>1, SettledType
  <2>4. /\ r.by = rows[t].by /\ r.method = rows[t].method /\ r.coll = rows[t].coll
        /\ r.status = status /\ r.ref = call[k].ref
    BY <2>2 DEF TransactionRows
  <2>5. WriteRow(t, r) /\ UNCHANGED <<orders, collection, sent>> /\ BudgetOK' /\ Return(k)
    BY <1>2, <1>5 DEF WriteSettled
  <2> HIDE DEF r
  <2> QED
    BY <2>1, <2>3, <2>4, <2>5, ReturnFits, RowMoves
<1> QED
  BY <1>3, <1>4, <1>5 DEF CallingBack

-----------------------------------------------------------------------------
(* What starts a request, and what goes wrong.                             *)

\* A request that arrives keeps the invariant.
LEMMA ArriveKeeps ==
  ASSUME IInv, NEW k \in Calls, NEW s \in CallStates, Arrive(k, s), ~ Asking(s), CallFits(s)
  PROVE  IInv'
<1>1. Moves(k) /\ call'[k] = s /\ ~ Asking(call[k])'
  BY GoesOn DEF Arrive
<1>2. UNCHANGED <<orders, collection, rows, sent>> /\ BudgetOK'
  BY BudgetKept, CallFacts DEF Arrive
<1>3. CallFits(call[k])'
  BY <1>1, <1>2
     DEF CallFits, OpFits, RowOfCallFits, OrderOfCallFits, AnswerFits, Asking, HasOrder, Booked,
         PaidOut
<1> QED
  BY <1>1, <1>2, <1>3, CallReads

\* An order's progress: a callback more, and what became of it.
LEMMA DeliveryType ==
  ASSUME NEW q \in Orders, NEW n \in Nat
  PROVE  /\ [q EXCEPT !.delivered = n] \in Orders
         /\ [q EXCEPT !.delivered = n].tx = q.tx /\ [q EXCEPT !.delivered = n].kind = q.kind
         /\ [q EXCEPT !.delivered = n].method = q.method
         /\ [q EXCEPT !.delivered = n].state = q.state
BY DEF Orders

\* A callback is one more delivery of an order that is settled.
LEMMA CallBackKeeps ==
  ASSUME IInv, NEW k \in Calls, NEW o \in 1..Len(orders), ReceiveCallback(k, o)
  PROVE  IInv'
<1> USE DEF PayStages, ReviewStages, WithdrawStages, RetryStages, CallbackStages
<1>1. /\ orders \in Seq(Orders) /\ Len(orders) \in Nat /\ orders[o] \in Orders
      /\ rows \in Seq(TransactionRows) /\ Len(rows) \in Nat /\ BudgetOK
  BY CallFacts
<1>2. PICK stage \in {"matching", "finding"}, tx \in {0, orders[o].tx} :
        Become(k, [NoCall EXCEPT !.op = "callback", !.order = o,
                                 !.ok = orders[o].state = "success", !.at = stage, !.tx = tx])
  BY DEF ReceiveCallback
<1> DEFINE s == [NoCall EXCEPT !.op = "callback", !.order = o,
                               !.ok = orders[o].state = "success", !.at = stage, !.tx = tx]
<1>3. /\ orders[o].tx \in 1..Len(rows)
      /\ rows[orders[o].tx].by = IF orders[o].kind = "disburse" THEN "withdraw" ELSE "retry"
  BY DEF IInv, OrdersFit, OrderFits
<1>4. s \in CallStates
  <2>1. tx \in Nat /\ o \in Nat
    BY <1>1, <1>3
  <2> QED
    BY <2>1 DEF NoCall, CallStates, Stages, Methods
<1>5. /\ s.at = stage /\ s.op = "callback" /\ s.order = o /\ s.tx = tx /\ s.told = FALSE
      /\ s.ok = (orders[o].state = "success")
  BY DEF NoCall
<1> HIDE DEF s
<1>6. Moves(k) /\ call'[k] = s /\ ~ Asking(call[k])'
  BY <1>2, <1>4, <1>5, GoesOn DEF Asking, s
<1>7. orders' = [orders EXCEPT ![o].delivered = @ + 1] /\ BudgetOK'
  BY <1>1, BudgetKept DEF ReceiveCallback, CallBack
<1> DEFINE q == [orders[o] EXCEPT !.delivered = orders[o].delivered + 1]
<1>8. /\ q \in Orders /\ q.tx = orders[o].tx /\ q.method = orders[o].method
      /\ q.kind = orders[o].kind /\ q.state = orders[o].state
  <2>1. orders[o].delivered + 1 \in Nat
    BY <1>1 DEF Orders
  <2> QED
    BY <1>1, <2>1, DeliveryType
<1>9. /\ orders' \in Seq(Orders) /\ Len(orders') = Len(orders) /\ orders'[o] = q
      /\ \A p \in 1..Len(orders) : p # o => orders'[p] = orders[p]
  <2>1. orders' = [orders EXCEPT ![o] = q]
    BY <1>1, <1>7
  <2> HIDE DEF q
  <2> QED
    BY <1>1, <1>8, <2>1, ExceptSeq
<1> HIDE DEF q
<1>10. UNCHANGED <<collection, rows, sent>>
  BY DEF ReceiveCallback
<1>11. RowsGrow /\ OrdersGrow
  BY <1>1, <1>8, <1>9, <1>10 DEF RowsGrow, OrdersGrow
<1>12. TypeOK'
  BY <1>6, <1>7, <1>9, <1>10 DEF IInv, TypeOK, ProviderTypeOK, Moves
<1>13. ASSUME NEW t \in Nat
       PROVE  PaidOut(t)' = PaidOut(t) /\ HasOrder(t)' = HasOrder(t)
  BY <1>8, <1>9 DEF PaidOut, HasOrder
<1>14. RowsFit'
  <2>1. ASSUME NEW t \in 1..Len(rows) PROVE RowFits(t)'
    BY <1>1, <1>10, <1>13 DEF IInv, RowsFit, RowFits
  <2> QED
    BY <1>10, <2>1 DEF RowsFit
<1>15. OrdersFit' /\ OneOrderPerRow'
  <2>1. \A p \in 1..Len(orders) :
          /\ orders'[p].tx = orders[p].tx /\ orders'[p].method = orders[p].method
          /\ orders'[p].kind = orders[p].kind
    BY <1>8, <1>9
  <2>2. OrdersFit'
    BY <1>9, <1>10, <2>1 DEF IInv, OrdersFit, OrderFits
  <2>3. OneOrderPerRow'
    BY <1>9, <2>1 DEF IInv, OneOrderPerRow
  <2> QED
    BY <2>2, <2>3
<1>16. CompletedIsBacked'
  BY <1>10 DEF IInv, CompletedIsBacked, Booked
<1>17. ASSUME NEW j \in Calls \ {k}, Asking(call[j])
       PROVE  ~ HasOrder(call[j].tx)'
  <2>1. ~ HasOrder(call[j].tx) /\ call'[j] = call[j]
    BY <1>6, <1>17 DEF IInv, CallsFit, CallFits, OrderOfCallFits, Moves
  <2> QED
    BY <1>8, <1>9, <2>1 DEF HasOrder
<1>18. CallFits(call[k])'
  <2>1. s.ok /\ tx # 0 /\ rows[tx].by = "withdraw" => PaidOut(tx)
    BY <1>3, <1>5 DEF PaidOut
  <2>2. s.ok /\ tx # 0 /\ rows[tx].by = "withdraw" => PaidOut(call[k].tx)'
    BY <1>5, <1>6, <1>8, <1>9, <2>1 DEF PaidOut
  <2> QED
    BY <1>3, <1>5, <1>6, <1>8, <1>9, <1>10, <2>2
       DEF CallFits, OpFits, RowOfCallFits, OrderOfCallFits, AnswerFits, Asking
<1> QED
  BY <1>6, <1>11, <1>12, <1>14, <1>15, <1>16, <1>17, <1>18, StepKeeps

\* Every request that arrives keeps the invariant.
LEMMA RequestKeeps ==
  ASSUME IInv, NEW k \in Calls, Request(k)
  PROVE  IInv'
<1> USE DEF NoCall, CallStates, Stages, Asking, CallFits, OpFits, RowOfCallFits,
            OrderOfCallFits, AnswerFits, PayStages, ReviewStages, WithdrawStages, RetryStages,
            CallbackStages
<1>1. ASSUME NEW c \in Collections, PayCollection(k, c)
      PROVE  IInv'
  <2> DEFINE s == [NoCall EXCEPT !.op = "pay", !.at = "paying", !.coll = c]
  <2>1. s \in CallStates /\ ~ Asking(s) /\ CallFits(s)
    BY DEF Methods
  <2> QED
    BY <1>1, <2>1, ArriveKeeps DEF PayCollection
<1>2. ASSUME NEW c \in Collections, NEW op \in {"approve", "reject"}, Review(k, c, op)
      PROVE  IInv'
  <2> DEFINE s == [NoCall EXCEPT !.op = op, !.at = "reviewing", !.coll = c]
  <2>1. s \in CallStates /\ ~ Asking(s) /\ CallFits(s)
    BY DEF Methods
  <2> QED
    BY <1>2, <2>1, ArriveKeeps DEF Review
<1>3. ASSUME NEW m \in Methods, RequestWithdrawal(k, m)
      PROVE  IInv'
  <2> DEFINE s == [NoCall EXCEPT !.op = "withdraw", !.at = "checking", !.method = m]
  <2>1. s \in CallStates /\ ~ Asking(s) /\ CallFits(s)
    OBVIOUS
  <2> QED
    BY <1>3, <2>1, ArriveKeeps DEF RequestWithdrawal
<1>4. ASSUME NEW t \in 1..Len(rows), RetryPayment(k, t)
      PROVE  IInv'
  <2> DEFINE s == [NoCall EXCEPT !.op = "retry", !.at = "retrying", !.tx = t]
  <2>1. t \in Nat
    BY CallFacts
  <2>2. s \in CallStates /\ ~ Asking(s) /\ CallFits(s)
    BY <2>1 DEF Methods
  <2> QED
    BY <1>4, <2>2, ArriveKeeps DEF RetryPayment
<1>5. ASSUME NEW t \in 1..Len(rows), CancelTransaction(k, t)
      PROVE  IInv'
  <2> DEFINE s == [NoCall EXCEPT !.op = "cancel", !.at = "cancelling", !.tx = t]
  <2>1. t \in Nat
    BY CallFacts
  <2>2. s \in CallStates /\ ~ Asking(s) /\ CallFits(s)
    BY <2>1 DEF Methods
  <2> QED
    BY <1>5, <2>2, ArriveKeeps DEF CancelTransaction
<1> QED
  BY <1>1, <1>2, <1>3, <1>4, <1>5, CallBackKeeps DEF Request

\* A failed read or write of the database keeps the invariant.
LEMMA DatabaseFailsKeeps ==
  ASSUME IInv, NEW k \in Calls, DatabaseFails(k)
  PROVE  IInv'
<1> USE DEF PayStages, ReviewStages, WithdrawStages, RetryStages, CallbackStages
<1>1. call[k] \in CallStates /\ CallFits(call[k])
  BY CallFacts
<1>2. BudgetOK' /\ UNCHANGED <<orders, collection, rows, sent>>
  BY BudgetKept, CallFacts DEF DatabaseFails
<1>3. CASE Return(k)
  BY <1>2, <1>3, ReturnFits, CallReads
<1>4. CASE At(k, "sending") /\ Goto(k, "refusing")
  <2> DEFINE s == [call[k] EXCEPT !.at = "refusing"]
  <2>1. s \in CallStates
    BY <1>1 DEF CallStates, Stages
  <2>2. Moves(k) /\ call'[k] = s /\ ~ Asking(call[k])'
    BY <1>1, <1>4, <2>1, GoesOn DEF Goto, Asking, CallStates
  <2>3. CallFits(call[k])'
    BY <1>1, <1>4, <2>2
       DEF At, CallStates, CallFits, OpFits, RowOfCallFits, OrderOfCallFits, AnswerFits, Asking
  <2> QED
    BY <1>2, <2>2, <2>3, CallReads
<1>5. CASE /\ call[k].at \in {"collecting", "referencing"}
           /\ Become(k, [call[k] EXCEPT !.at = "completing", !.ok = FALSE])
  <2> DEFINE s == [call[k] EXCEPT !.at = "completing", !.ok = FALSE]
  <2>1. s \in CallStates
    BY <1>1 DEF CallStates, Stages
  <2>2. Moves(k) /\ call'[k] = s /\ ~ Asking(call[k])'
    BY <1>1, <1>5, <2>1, GoesOn DEF Asking, CallStates
  <2>3. CallFits(call[k])'
    BY <1>1, <1>2, <1>5, <2>2
       DEF CallStates, CallFits, OpFits, RowOfCallFits, OrderOfCallFits, AnswerFits, Asking
  <2> QED
    BY <1>2, <2>2, <2>3, CallReads
<1> QED
  BY <1>3, <1>4, <1>5 DEF DatabaseFails

\* A restart keeps the invariant: it forgets every request and writes nothing.
LEMMA CrashKeeps ==
  ASSUME IInv, CrashRestart
  PROVE  IInv'
<1>1. NoCall \in CallStates
  BY DEF NoCall, CallStates, Stages, Methods
<1>2. BudgetOK' /\ UNCHANGED <<orders, collection, rows, sent>>
  BY BudgetKept DEF CrashRestart, IInv, TypeOK
<1>3. \A k \in Calls : call'[k] = NoCall
  BY DEF CrashRestart
<1>4. TypeOK'
  BY <1>1, <1>2 DEF CrashRestart, IInv, TypeOK, ProviderTypeOK
<1>5. RowsFit' /\ OrdersFit' /\ OneOrderPerRow' /\ CompletedIsBacked'
  BY <1>2 DEF IInv, RowsFit, RowFits, PaidOut, OrdersFit, OrderFits, OneOrderPerRow,
              CompletedIsBacked, Booked
<1>6. CallsFit' /\ AskAlone'
  BY <1>3 DEF CallsFit, AskAlone, NoCall, CallFits, OpFits, RowOfCallFits, OrderOfCallFits,
              AnswerFits, Asking, PayStages, ReviewStages, WithdrawStages, RetryStages,
              CallbackStages
<1> QED
  BY <1>4, <1>5, <1>6 DEF IInv

\* A provider settles an order once: what was a success stays one.
LEMMA ProvidersKeep ==
  ASSUME IInv, Providers
  PROVE  IInv'
<1>1. PICK o \in 1..Len(orders) : Settle(o)
  BY DEF Providers
<1>2. UNCHANGED <<collection, rows, sent, call, budgetVars>>
  BY DEF Providers
<1>3. /\ orders \in Seq(Orders) /\ Len(orders) \in Nat /\ orders[o] \in Orders
      /\ rows \in Seq(TransactionRows) /\ Len(rows) \in Nat /\ BudgetOK
      /\ call \in [Calls -> CallStates]
  BY LenProperties DEF IInv, TypeOK, ProviderTypeOK
<1>4. PICK outcome \in {"success", "failed"} : orders' = [orders EXCEPT ![o].state = outcome]
  BY <1>1 DEF Settle
<1>5. orders[o].state = "pending"
  BY <1>1 DEF Settle
<1> DEFINE q == [orders[o] EXCEPT !.state = outcome]
<1>6. /\ q \in Orders /\ q.tx = orders[o].tx /\ q.method = orders[o].method
      /\ q.kind = orders[o].kind
  BY <1>3 DEF Orders
<1>7. /\ orders' \in Seq(Orders) /\ Len(orders') = Len(orders) /\ orders'[o] = q
      /\ \A p \in 1..Len(orders) : p # o => orders'[p] = orders[p]
  <2>1. orders' = [orders EXCEPT ![o] = q]
    BY <1>3, <1>4
  <2> HIDE DEF q
  <2> QED
    BY <1>3, <1>6, <2>1, ExceptSeq
<1> HIDE DEF q
<1>8. RowsGrow /\ OrdersGrow
  BY <1>2, <1>3, <1>5, <1>6, <1>7 DEF RowsGrow, OrdersGrow
<1>9. TypeOK'
  BY <1>2, <1>7 DEF IInv, TypeOK, ProviderTypeOK, BudgetOK, budgetVars
<1>10. \A p \in 1..Len(orders) :
         /\ orders'[p].tx = orders[p].tx /\ orders'[p].method = orders[p].method
         /\ orders'[p].kind = orders[p].kind
         /\ orders[p].state = "success" => orders'[p].state = "success"
  BY <1>8 DEF OrdersGrow
<1>11. RowsFit'
  <2>1. ASSUME NEW t \in 1..Len(rows), PaidOut(t) PROVE PaidOut(t)'
    BY <1>7, <1>10, <2>1 DEF PaidOut
  <2> QED
    BY <1>2, <2>1 DEF IInv, RowsFit, RowFits
<1>12. OrdersFit'
  BY <1>2, <1>7, <1>10 DEF IInv, OrdersFit, OrderFits
<1>13. OneOrderPerRow'
  BY <1>7, <1>10 DEF IInv, OneOrderPerRow
<1>14. CompletedIsBacked'
  BY <1>2 DEF IInv, CompletedIsBacked, Booked
<1>15. CallsFit'
  <2> SUFFICES ASSUME NEW k \in Calls PROVE CallFits(call[k])'
    BY DEF CallsFit
  <2>1. PICK s \in CallStates : s = call[k]
    BY <1>3
  <2>2. CallFits(s)
    BY <2>1 DEF IInv, CallsFit
  <2>3. Asking(s) => ~ HasOrder(s.tx)'
    BY <1>7, <1>10, <2>2 DEF CallFits, OrderOfCallFits, HasOrder
  <2>4. CallFits(s)'
    BY <1>2, <1>3, <1>7, <1>8, <2>2, <2>3, OthersFit
  <2>5. s = call'[k]
    BY <1>2, <2>1
  <2> QED
    BY <2>4, <2>5
<1>16. AskAlone'
  BY <1>2 DEF IInv, AskAlone, Asking
<1> QED
  BY <1>9, <1>11, <1>12, <1>13, <1>14, <1>15, <1>16 DEF IInv

-----------------------------------------------------------------------------
(* The invariant, and what follows from it.                                *)

\* The first state.
LEMMA InitIInv == Init => IInv
<1> SUFFICES ASSUME Init PROVE IInv
  OBVIOUS
<1>1. NoCall \in CallStates
  BY DEF NoCall, CallStates, Stages, Methods
<1>2. orders = <<>> /\ rows = <<>>
  BY DEF Init, ProviderInit
<1>3. TypeOK
  BY <1>1, <1>2, EmptySeq
     DEF Init, TypeOK, ProviderTypeOK, CollectionRows, BudgetInit, BudgetOK
<1>4. Len(orders) = 0 /\ Len(rows) = 0
  BY <1>2, EmptySeq
<1>5. RowsFit /\ OrdersFit /\ OneOrderPerRow
  BY <1>4 DEF RowsFit, OrdersFit, OneOrderPerRow
<1>6. \A k \in Calls : call[k] = NoCall
  BY DEF Init
<1>7. CallsFit /\ AskAlone
  BY <1>6 DEF CallsFit, AskAlone, NoCall, CallFits, OpFits, RowOfCallFits, OrderOfCallFits,
              AnswerFits, Asking, PayStages, ReviewStages, WithdrawStages, RetryStages,
              CallbackStages
<1>8. CompletedIsBacked
  BY DEF Init, CompletedIsBacked
<1> QED
  BY <1>3, <1>5, <1>7, <1>8 DEF IInv

\* Every step.
LEMMA NextIInv ==
  ASSUME IInv, [Next]_vars
  PROVE  IInv'
<1>1. ASSUME NEW k \in Calls, Request(k) PROVE IInv'
  BY <1>1, RequestKeeps
<1>2. ASSUME NEW k \in Calls, Paying(k) PROVE IInv'
  BY <1>2, PayingKeeps
<1>3. ASSUME NEW k \in Calls, Reviewing(k) PROVE IInv'
  BY <1>3, ReviewingKeeps
<1>4. ASSUME NEW k \in Calls, Withdrawing(k) PROVE IInv'
  BY <1>4, WithdrawingKeeps
<1>5. ASSUME NEW k \in Calls, Retrying(k) PROVE IInv'
  BY <1>5, RetryingKeeps
<1>6. ASSUME NEW k \in Calls, Cancelling(k) PROVE IInv'
  BY <1>6, CancellingKeeps
<1>7. ASSUME NEW k \in Calls, CallingBack(k) PROVE IInv'
  BY <1>7, CallingBackKeeps
<1>8. ASSUME NEW k \in Calls, DatabaseFails(k) PROVE IInv'
  BY <1>8, DatabaseFailsKeeps
<1>9. CASE Providers
  BY <1>9, ProvidersKeep
<1>10. CASE CrashRestart
  BY <1>10, CrashKeeps
<1>11. CASE UNCHANGED vars
  <2>1. TypeOK' /\ RowsFit'
    BY <1>11 DEF vars, budgetVars, IInv, TypeOK, ProviderTypeOK, BudgetOK, RowsFit, RowFits, PaidOut
  <2>2. OrdersFit' /\ OneOrderPerRow' /\ CompletedIsBacked'
    BY <1>11 DEF vars, IInv, OrdersFit, OrderFits, OneOrderPerRow, CompletedIsBacked, Booked
  <2>3. CallsFit'
    BY <1>11 DEF vars, IInv, CallsFit, CallFits, OpFits, RowOfCallFits, OrderOfCallFits, AnswerFits,
                 HasOrder, Booked, Asking, PaidOut
  <2>4. AskAlone'
    BY <1>11 DEF vars, IInv, AskAlone, Asking
  <2> QED
    BY <2>1, <2>2, <2>3, <2>4 DEF IInv
<1> QED
  BY <1>1, <1>2, <1>3, <1>4, <1>5, <1>6, <1>7, <1>8, <1>9, <1>10, <1>11 DEF Next

\* Payments, reviews, withdrawals, retries, cancellations, callbacks, failures and
\* restarts keep the types and what each row, order and request fits.
THEOREM PaymentsInvariant == Spec => []IInv
BY InitIInv, NextIInv, PTL DEF Spec

\* Every variable keeps its type, whatever requests, failures and restarts do.
THEOREM PaymentsTypes == Spec => []TypeOK
<1>1. IInv => TypeOK
  BY DEF IInv
<1> QED
  BY <1>1, PaymentsInvariant, PTL

\* A collection is never COMPLETED without a completed row of its own payment.
THEOREM CompletedIsAlwaysBacked == Spec => []CompletedIsBacked
<1>1. IInv => CompletedIsBacked
  BY DEF IInv
<1> QED
  BY <1>1, PaymentsInvariant, PTL

\* However often payments are retried, no row ever has two orders of a provider.
THEOREM RowsAreOrderedOnce == Spec => []OneOrderPerRow
<1>1. IInv => OneOrderPerRow
  BY DEF IInv
<1> QED
  BY <1>1, PaymentsInvariant, PTL

\* What a caller was told of a payment or a withdrawal is so, and stays so.
THEOREM SuccessIsAlwaysTrue == Spec => []SuccessIsTrue
<1>1. IInv => SuccessIsTrue
  BY DEF IInv, CallsFit, CallFits, AnswerFits, SuccessIsTrue, HasOrder
<1> QED
  BY <1>1, PaymentsInvariant, PTL

-----------------------------------------------------------------------------
(* How many payments there are, and how many of them are booked.           *)

\* Requests and rows are finitely many.
LEMMA FinitelyMany ==
  ASSUME IInv, NEW c \in Collections
  PROVE  /\ IsFiniteSet(Booked(c)) /\ Cardinality(Booked(c)) \in Nat
         /\ IsFiniteSet(Booking(c)) /\ Cardinality(Booking(c)) \in Nat
         /\ Cardinality(Booking(c)) <= Cardinality(Calls)
<1>1. Len(rows) \in Nat
  BY LenProperties DEF IInv, TypeOK
<1>2. IsFiniteSet(1..Len(rows))
  BY <1>1, FS_Interval
<1>3. Booked(c) \in SUBSET (1..Len(rows)) /\ Booking(c) \in SUBSET Calls
  BY DEF Booked, Booking
<1>4. IsFiniteSet(Booked(c))
  BY <1>2, <1>3, FS_Subset
<1>5. IsFiniteSet(Booking(c)) /\ Cardinality(Booking(c)) <= Cardinality(Calls)
  BY <1>3, CallsAreFinite, FS_Subset
<1> QED
  BY <1>4, <1>5, FS_CardinalityType

\* One more crash leaves one more payment of every request unbooked, at most.
LEMMA OneCrashMore ==
  ASSUME NEW n \in Nat, NEW m \in Nat
  PROVE  n * m \in Nat /\ (n + 1) * m = n * m + m
OBVIOUS

\* No payment is made or booked, none was about to be.
BooksAlike ==
  /\ \A c \in Collections : Booked(c)' = Booked(c) /\ Booking(c)' = Booking(c)
  /\ UNCHANGED sent
  /\ faults' \in Nat /\ faults <= faults' /\ crashes' = crashes

LEMMA AlikeIsBooked ==
  ASSUME IInv, PaymentsAreBooked, BooksAlike
  PROVE  PaymentsAreBooked'
<1> SUFFICES ASSUME NEW c \in Collections
             PROVE  /\ Cardinality(Booked(c)') + Cardinality(Booking(c)') <= sent'[c]
                    /\ sent'[c] <= Cardinality(Booked(c)') + Cardinality(Booking(c)')
                                     + faults' + crashes' * Cardinality(Calls)
  BY DEF PaymentsAreBooked
<1> DEFINE b == Cardinality(Booked(c))
           p == Cardinality(Booking(c))
           lost == crashes * Cardinality(Calls)
<1>1. /\ b \in Nat /\ p \in Nat /\ sent[c] \in Nat /\ faults \in Nat /\ crashes \in Nat
      /\ Cardinality(Calls) \in Nat
  BY CallsAreFinite, FinitelyMany, FS_CardinalityType DEF IInv, TypeOK, BudgetOK
<1>2. lost \in Nat
  BY <1>1, OneCrashMore
<1>3. b + p <= sent[c] /\ sent[c] <= b + p + faults + lost
  BY DEF PaymentsAreBooked
<1>4. b + p <= sent[c] /\ sent[c] <= b + p + faults' + lost
  <2> HIDE DEF b, p, lost
  <2> QED
    BY <1>1, <1>2, <1>3 DEF BooksAlike
<1> QED
  BY <1>4 DEF BooksAlike

\* The bounds of a run are only ever counted up.
LEMMA CountsGrow ==
  ASSUME BudgetOK, Working \/ Arriving \/ Failing
  PROVE  faults' \in Nat /\ faults <= faults' /\ crashes' = crashes
BY DEF BudgetOK, Working, Arriving, Failing, budgetVars

\* A request that goes on, from and to another place than where it books a payment.
LEMMA SameBookings ==
  ASSUME call \in [Calls -> CallStates], NEW k \in Calls, NEW s, Become(k, s),
         ~ At(k, "booking"), s.at # "booking", NEW c
  PROVE  Booking(c)' = Booking(c)
<1>1. /\ call'[k] = s /\ \A j \in Calls \ {k} : call'[j] = call[j]
  BY DEF Become
<1>2. k \notin Booking(c) /\ k \notin Booking(c)'
  BY <1>1 DEF Booking, At
<1>3. ASSUME NEW j \in Calls \ {k} PROVE j \in Booking(c)' <=> j \in Booking(c)
  BY <1>1 DEF Booking, At
<1>4. Booking(c) \subseteq Calls /\ Booking(c)' \subseteq Calls
  BY DEF Booking
<1> QED
  BY <1>2, <1>3, <1>4

\* A row that is written stays a row of what created it.
LEMMA SameBooked ==
  ASSUME rows \in Seq(TransactionRows), NEW t, NEW r, WriteRow(t, r),
         r.by = rows[t].by, r.coll = rows[t].coll, NEW c
  PROVE  Booked(c)' = Booked(c)
<1>1. rows' = [rows EXCEPT ![t] = r] /\ DOMAIN rows = 1..Len(rows) /\ Len(rows) \in Nat
  BY LenProperties DEF WriteRow
<1>2. Len(rows') = Len(rows)
  BY <1>1, LenProperties
<1>3. \A u \in 1..Len(rows) : rows'[u].by = rows[u].by /\ rows'[u].coll = rows[u].coll
  BY <1>1
<1> QED
  BY <1>2, <1>3 DEF Booked

\* A row that is no payment's is created.
LEMMA SameBookedAfter ==
  ASSUME rows \in Seq(TransactionRows), NEW r \in TransactionRows, rows' = Append(rows, r),
         r.by # "pay", NEW c
  PROVE  Booked(c)' = Booked(c)
<1>1. Len(rows) \in Nat
  BY LenProperties
<1>2. /\ Len(rows') = Len(rows) + 1 /\ rows'[Len(rows) + 1] = r
      /\ \A u \in 1..Len(rows) : rows'[u] = rows[u]
  BY AppendRowType
<1> QED
  BY <1>1, <1>2 DEF Booked

\* A request goes on and what is booked stays so.
LEMMA GoesOnAlike ==
  ASSUME IInv, NEW k \in Calls, NEW s, Become(k, s), ~ At(k, "booking"), s.at # "booking",
         \A c \in Collections : Booked(c)' = Booked(c), UNCHANGED sent,
         Working \/ Arriving \/ Failing
  PROVE  BooksAlike
<1>1. call \in [Calls -> CallStates] /\ BudgetOK
  BY DEF IInv, TypeOK
<1> QED
  BY <1>1, SameBookings, CountsGrow DEF BooksAlike

LEMMA ReadsAlike ==
  ASSUME IInv, NEW k \in Calls, NEW s, Become(k, s), ~ At(k, "booking"), s.at # "booking",
         UNCHANGED <<rows, sent>>, Working \/ Arriving \/ Failing
  PROVE  BooksAlike
<1>1. \A c \in Collections : Booked(c)' = Booked(c)
  BY DEF Booked
<1> QED
  BY <1>1, GoesOnAlike

LEMMA WritesAlike ==
  ASSUME IInv, NEW k \in Calls, NEW s, Become(k, s), ~ At(k, "booking"), s.at # "booking",
         NEW t, NEW r, WriteRow(t, r), r.by = rows[t].by, r.coll = rows[t].coll,
         UNCHANGED sent, Working
  PROVE  BooksAlike
<1>1. \A c \in Collections : Booked(c)' = Booked(c)
  BY SameBooked DEF IInv, TypeOK
<1> QED
  BY <1>1, GoesOnAlike

LEMMA AppendsAlike ==
  ASSUME IInv, NEW k \in Calls, NEW s, Become(k, s), ~ At(k, "booking"), s.at # "booking",
         NEW r \in TransactionRows, rows' = Append(rows, r), r.by # "pay",
         UNCHANGED sent, Working
  PROVE  BooksAlike
<1>1. \A c \in Collections : Booked(c)' = Booked(c)
  BY SameBookedAfter DEF IInv, TypeOK
<1> QED
  BY <1>1, GoesOnAlike

\* The fields of a row that are written keep the others.
LEMMA FieldsKept ==
  ASSUME NEW r \in TransactionRows, NEW status, NEW ref, NEW completed
  PROVE  /\ [r EXCEPT !.status = status].by = r.by
         /\ [r EXCEPT !.status = status].coll = r.coll
         /\ [r EXCEPT !.ref = ref].by = r.by
         /\ [r EXCEPT !.ref = ref].coll = r.coll
         /\ [r EXCEPT !.status = status, !.ref = ref].by = r.by
         /\ [r EXCEPT !.status = status, !.ref = ref].coll = r.coll
         /\ [r EXCEPT !.status = status, !.completed = completed].by = r.by
         /\ [r EXCEPT !.status = status, !.completed = completed].coll = r.coll
         /\ [r EXCEPT !.status = status, !.completed = completed, !.ref = ref].by = r.by
         /\ [r EXCEPT !.status = status, !.completed = completed, !.ref = ref].coll = r.coll
BY DEF TransactionRows

\* Requests that arrive book nothing.
LEMMA RequestAlike ==
  ASSUME IInv, NEW k \in Calls, Request(k)
  PROVE  BooksAlike
<1>1. ASSUME NEW s, s.at # "booking", Arrive(k, s)
      PROVE  BooksAlike
  BY <1>1, ReadsAlike DEF Arrive, At
<1>2. ASSUME NEW c \in Collections, PayCollection(k, c) PROVE BooksAlike
  BY <1>1, <1>2 DEF PayCollection, NoCall
<1>3. ASSUME NEW c \in Collections, NEW op, Review(k, c, op) PROVE BooksAlike
  BY <1>1, <1>3 DEF Review, NoCall
<1>4. ASSUME NEW m, RequestWithdrawal(k, m) PROVE BooksAlike
  BY <1>1, <1>4 DEF RequestWithdrawal, NoCall
<1>5. ASSUME NEW t, RetryPayment(k, t) PROVE BooksAlike
  BY <1>1, <1>5 DEF RetryPayment, NoCall
<1>6. ASSUME NEW t, CancelTransaction(k, t) PROVE BooksAlike
  BY <1>1, <1>6 DEF CancelTransaction, NoCall
<1>7. ASSUME NEW o, ReceiveCallback(k, o) PROVE BooksAlike
  <2> DEFINE s == [NoCall EXCEPT !.op = "callback", !.order = o,
                     !.ok = orders[o].state = "success",
                     !.at = IF orders[o].method = "MPESA" THEN "matching" ELSE "finding",
                     !.tx = IF orders[o].key = "transaction" THEN orders[o].tx ELSE 0]
  <2>1. s.at # "booking"
    BY DEF NoCall
  <2>2. Become(k, s) /\ ~ At(k, "booking") /\ UNCHANGED <<rows, sent>> /\ Working
    BY <1>7 DEF ReceiveCallback, At
  <2> QED
    BY <2>1, <2>2, ReadsAlike
<1> QED
  BY <1>2, <1>3, <1>4, <1>5, <1>6, <1>7 DEF Request

\* A request ends without booking anything.
LEMMA ReturnAlike ==
  ASSUME IInv, NEW k \in Calls, Return(k), ~ At(k, "booking"), UNCHANGED <<rows, sent>>,
         Working \/ Failing
  PROVE  BooksAlike
BY ReadsAlike DEF Return, NoCall

LEMMA GotoAlike ==
  ASSUME IInv, NEW k \in Calls, NEW stage, stage # "booking", Goto(k, stage),
         ~ At(k, "booking"), UNCHANGED <<rows, sent>>, Working \/ Failing
  PROVE  BooksAlike
<1>1. call[k] \in CallStates
  BY DEF IInv, TypeOK
<1>2. [call[k] EXCEPT !.at = stage].at = stage
  BY <1>1 DEF CallStates
<1> QED
  BY <1>2, ReadsAlike DEF Goto

LEMMA SucceedAlike ==
  ASSUME IInv, NEW k \in Calls, Succeed(k), ~ At(k, "booking"), UNCHANGED <<rows, sent>>,
         Working
  PROVE  BooksAlike
<1> DEFINE s == [NoCall EXCEPT !.op = call[k].op, !.coll = call[k].coll, !.tx = call[k].tx,
                               !.told = TRUE]
<1>1. s.at # "booking"
  BY DEF NoCall
<1> QED
  BY <1>1, ReadsAlike DEF Succeed

\* Where a request goes that wrote a row.
LEMMA WritesAndEndsAlike ==
  ASSUME IInv, NEW k \in Calls, Succeed(k) \/ Return(k), ~ At(k, "booking"),
         NEW t, NEW r, WriteRow(t, r), r.by = rows[t].by, r.coll = rows[t].coll,
         UNCHANGED sent, Working
  PROVE  BooksAlike
<1> DEFINE s == [NoCall EXCEPT !.op = call[k].op, !.coll = call[k].coll, !.tx = call[k].tx,
                               !.told = TRUE]
<1>1. s.at # "booking" /\ NoCall.at # "booking"
  BY DEF NoCall
<1>2. Become(k, s) \/ Become(k, NoCall)
  BY DEF Succeed, Return
<1> HIDE DEF s
<1> QED
  BY <1>1, <1>2, WritesAlike

LEMMA WritesAndGoesAlike ==
  ASSUME IInv, NEW k \in Calls, NEW stage, stage # "booking", Goto(k, stage),
         ~ At(k, "booking"),
         NEW t, NEW r, WriteRow(t, r), r.by = rows[t].by, r.coll = rows[t].coll,
         UNCHANGED sent, Working
  PROVE  BooksAlike
<1>1. call[k] \in CallStates
  BY DEF IInv, TypeOK
<1>2. [call[k] EXCEPT !.at = stage].at = stage
  BY <1>1 DEF CallStates
<1> QED
  BY <1>2, WritesAlike DEF Goto

\* A provider is asked.
LEMMA AskAlike ==
  ASSUME IInv, NEW k \in Calls, NEW order, NEW next, NEW otherwise,
         next # "booking", otherwise # "booking", Ask(k, order, next, otherwise),
         ~ At(k, "booking"), UNCHANGED <<rows, sent>>
  PROVE  BooksAlike
<1>1. call[k] \in CallStates
  BY DEF IInv, TypeOK
<1>2. ASSUME Become(k, [call[k] EXCEPT !.at = next, !.ok = TRUE, !.ref = ReferenceId(order)]),
             Working
      PROVE  BooksAlike
  <2>1. [call[k] EXCEPT !.at = next, !.ok = TRUE, !.ref = ReferenceId(order)].at = next
    BY <1>1 DEF CallStates
  <2> QED
    BY <1>2, <2>1, ReadsAlike
<1>3. ASSUME Become(k, [call[k] EXCEPT !.at = otherwise, !.ok = FALSE]), Failing
      PROVE  BooksAlike
  <2>1. [call[k] EXCEPT !.at = otherwise, !.ok = FALSE].at = otherwise
    BY <1>1 DEF CallStates
  <2> QED
    BY <1>3, <2>1, ReadsAlike
<1> QED
  BY <1>2, <1>3 DEF Ask

\* Reviews book nothing.
LEMMA ReviewingAlike ==
  ASSUME IInv, NEW k \in Calls, Reviewing(k)
  PROVE  BooksAlike
<1>1. CASE CheckUnreviewed(k)
  BY <1>1, ReturnAlike, GotoAlike DEF CheckUnreviewed, At
<1>2. CASE WriteReview(k)
  BY <1>2, SucceedAlike DEF WriteReview, At
<1> QED
  BY <1>1, <1>2 DEF Reviewing

\* Withdrawals book no payment of a collection.
LEMMA WithdrawingAlike ==
  ASSUME IInv, NEW k \in Calls, Withdrawing(k)
  PROVE  BooksAlike
<1>1. call[k] \in CallStates /\ CallFits(call[k])
      /\ rows \in Seq(TransactionRows) /\ Len(rows) \in Nat
  BY CallFacts
<1>2. ASSUME call[k].tx \in 1..Len(rows) PROVE rows[call[k].tx] \in TransactionRows
  BY <1>1, <1>2
<1>3. At(k, "submitted") \/ At(k, "failing") => call[k].tx \in 1..Len(rows)
  BY <1>1 DEF CallFits, RowOfCallFits, At
<1>4. CASE CheckBalance(k)
  BY <1>4, ReturnAlike, GotoAlike DEF CheckBalance, At
<1>5. CASE CreateWithdrawal(k)
  <2> DEFINE r == [by |-> "withdraw", origin |-> Len(rows) + 1, type |-> "WITHDRAWAL",
                   method |-> call[k].method, status |-> "PROCESSING",
                   ref |-> 0, coll |-> Nil, completed |-> FALSE]
             stage == IF IsProviderAvailable(call[k].method) THEN "disbursing" ELSE "failing"
             s == [call[k] EXCEPT !.tx = Len(rows) + 1, !.at = stage]
  <2>1. r \in TransactionRows /\ r.by # "pay"
    BY <1>1 DEF CallStates, TransactionRows, Statuses, Types
  <2>2. stage # "booking"
    OBVIOUS
  <2>3. s.at = stage
    BY <1>1 DEF CallStates
  <2>4. /\ rows' = Append(rows, r) /\ Become(k, s) /\ ~ At(k, "booking")
        /\ Working /\ UNCHANGED sent
    BY <1>5 DEF CreateWithdrawal, At
  <2> HIDE DEF r, s, stage
  <2> QED
    BY <2>1, <2>2, <2>3, <2>4, AppendsAlike
<1>6. CASE Disburse(k)
  BY <1>6, AskAlike DEF Disburse, At
<1>7. CASE WritePending(k)
  <2> DEFINE r == [rows[call[k].tx] EXCEPT !.status = "PENDING", !.ref = call[k].ref]
  <2>1. /\ Succeed(k) /\ ~ At(k, "booking") /\ WriteRow(call[k].tx, r)
        /\ UNCHANGED sent /\ Working
    BY <1>7 DEF WritePending, At
  <2>2. r.by = rows[call[k].tx].by /\ r.coll = rows[call[k].tx].coll
    BY <1>2, <1>3, <1>7, FieldsKept DEF WritePending
  <2> HIDE DEF r
  <2> QED
    BY <2>1, <2>2, WritesAndEndsAlike
<1>8. CASE WriteFailed(k)
  BY <1>2, <1>3, <1>8, FieldsKept, WritesAndEndsAlike DEF WriteFailed, At
<1> QED
  BY <1>4, <1>5, <1>6, <1>7, <1>8 DEF Withdrawing

\* Retries book no payment of a collection.
LEMMA RetryingAlike ==
  ASSUME IInv, NEW k \in Calls, Retrying(k)
  PROVE  BooksAlike
<1>1. call[k] \in CallStates /\ CallFits(call[k])
      /\ rows \in Seq(TransactionRows) /\ Len(rows) \in Nat
  BY CallFacts
<1>2. ASSUME call[k].tx \in 1..Len(rows) PROVE rows[call[k].tx] \in TransactionRows
  BY <1>1, <1>2
<1>3. At(k, "resetting") \/ At(k, "referencing") \/ At(k, "completing")
        => call[k].tx \in 1..Len(rows)
  BY <1>1 DEF CallFits, RowOfCallFits, At
<1>4. CASE CheckFailed(k)
  <2> DEFINE s == [call[k] EXCEPT !.at = "resetting", !.method = rows[call[k].tx].method,
                                  !.ref = rows[call[k].tx].ref]
  <2>1. s.at # "booking"
    BY <1>1 DEF CallStates
  <2>2. (Return(k) \/ Become(k, s)) /\ ~ At(k, "booking") /\ UNCHANGED <<rows, sent>> /\ Working
    BY <1>4 DEF CheckFailed, At
  <2> HIDE DEF s
  <2> QED
    BY <2>1, <2>2, ReturnAlike, ReadsAlike
<1>5. CASE ResetRow(k)
  <2> DEFINE r == [rows[call[k].tx] EXCEPT !.status = "PENDING"]
  <2>1. /\ Goto(k, "recreating") /\ ~ At(k, "booking") /\ WriteRow(call[k].tx, r)
        /\ UNCHANGED sent /\ Working
    BY <1>5 DEF ResetRow, At
  <2>2. r.by = rows[call[k].tx].by /\ r.coll = rows[call[k].tx].coll
    BY <1>2, <1>3, <1>5, FieldsKept DEF ResetRow
  <2> HIDE DEF r
  <2> QED
    BY <2>1, <2>2, WritesAndGoesAlike
<1>6. CASE CreatePayment(k)
  <2> DEFINE r == [by |-> "retry", origin |-> rows[call[k].tx].origin,
                   type |-> rows[call[k].tx].type, method |-> call[k].method, status |-> "PENDING",
                   ref |-> call[k].ref, coll |-> Nil, completed |-> FALSE]
             stage == IF IsProviderAvailable(call[k].method) THEN "collecting" ELSE "completing"
             s == [call[k] EXCEPT !.tx = Len(rows) + 1, !.ok = FALSE, !.at = stage]
  <2>1. r \in TransactionRows /\ r.by # "pay"
    BY <1>1, <1>6, CopiedType DEF CreatePayment, CallStates, TransactionRows, Statuses
  <2>2. stage # "booking"
    OBVIOUS
  <2>3. s.at = stage
    BY <1>1 DEF CallStates
  <2>4. /\ rows' = Append(rows, r) /\ Become(k, s) /\ ~ At(k, "booking")
        /\ Working /\ UNCHANGED sent
    BY <1>6 DEF CreatePayment, At
  <2> HIDE DEF r, s, stage
  <2> QED
    BY <2>1, <2>2, <2>3, <2>4, AppendsAlike
<1>7. CASE Collect(k)
  BY <1>7, AskAlike DEF Collect, At
<1>8. CASE WriteReference(k)
  <2> DEFINE r == [rows[call[k].tx] EXCEPT !.ref = call[k].ref]
  <2>1. /\ Goto(k, "completing") /\ ~ At(k, "booking") /\ WriteRow(call[k].tx, r)
        /\ UNCHANGED sent /\ Working
    BY <1>8 DEF WriteReference, At
  <2>2. r.by = rows[call[k].tx].by /\ r.coll = rows[call[k].tx].coll
    BY <1>2, <1>3, <1>8, FieldsKept DEF WriteReference
  <2> HIDE DEF r
  <2> QED
    BY <2>1, <2>2, WritesAndGoesAlike
<1>9. CASE WriteOutcome(k)
  <2> DEFINE status == IF call[k].ok THEN "COMPLETED" ELSE "FAILED"
             r == [rows[call[k].tx] EXCEPT !.status = status, !.completed = call[k].ok]
  <2>1. /\ Succeed(k) \/ Return(k)
        /\ ~ At(k, "booking") /\ WriteRow(call[k].tx, r) /\ UNCHANGED sent /\ Working
    BY <1>9 DEF WriteOutcome, At
  <2>2. r.by = rows[call[k].tx].by /\ r.coll = rows[call[k].tx].coll
    BY <1>2, <1>3, <1>9, FieldsKept DEF WriteOutcome
  <2> HIDE DEF r
  <2> QED
    BY <2>1, <2>2, WritesAndEndsAlike
<1> QED
  BY <1>4, <1>5, <1>6, <1>7, <1>8, <1>9 DEF Retrying

\* Cancellations book no payment of a collection.
LEMMA CancellingAlike ==
  ASSUME IInv, NEW k \in Calls, Cancelling(k)
  PROVE  BooksAlike
<1>1. call[k] \in CallStates /\ CallFits(call[k]) /\ rows \in Seq(TransactionRows)
  BY CallFacts
<1>2. CASE CheckPending(k)
  BY <1>2, ReturnAlike, GotoAlike DEF CheckPending, At
<1>3. CASE WriteCancelled(k)
  <2> DEFINE r == [rows[call[k].tx] EXCEPT !.status = "CANCELLED"]
  <2>1. /\ Succeed(k) /\ ~ At(k, "booking") /\ WriteRow(call[k].tx, r)
        /\ UNCHANGED sent /\ Working
    BY <1>3 DEF WriteCancelled, At
  <2>2. call[k].tx \in 1..Len(rows)
    BY <1>1, <1>3 DEF CallFits, RowOfCallFits, WriteCancelled, At
  <2>3. rows[call[k].tx] \in TransactionRows
    BY <1>1, <2>2
  <2>4. r.by = rows[call[k].tx].by /\ r.coll = rows[call[k].tx].coll
    BY <2>3, FieldsKept
  <2> HIDE DEF r
  <2> QED
    BY <2>1, <2>4, WritesAndEndsAlike
<1> QED
  BY <1>2, <1>3 DEF Cancelling

\* Callbacks book no payment of a collection.
LEMMA CallingBackAlike ==
  ASSUME IInv, NEW k \in Calls, CallingBack(k)
  PROVE  BooksAlike
<1>1. call[k] \in CallStates /\ CallFits(call[k]) /\ rows \in Seq(TransactionRows)
  BY CallFacts
<1>2. CASE MatchReference(k)
  <2>1. CASE Return(k)
    BY <1>2, <2>1, ReturnAlike DEF MatchReference, At
  <2>2. ASSUME NEW t, Become(k, [call[k] EXCEPT !.at = "finding", !.tx = t])
        PROVE  BooksAlike
    <3>1. [call[k] EXCEPT !.at = "finding", !.tx = t].at = "finding"
      BY <1>1 DEF CallStates
    <3> QED
      BY <1>2, <2>2, <3>1, ReadsAlike DEF MatchReference, At
  <2> QED
    BY <1>2, <2>1, <2>2 DEF MatchReference
<1>3. CASE FindTransaction(k)
  <2> DEFINE s == [call[k] EXCEPT !.at = "settling", !.ref = rows[call[k].tx].ref]
  <2>1. s.at # "booking"
    BY <1>1 DEF CallStates
  <2>2. (Return(k) \/ Become(k, s)) /\ ~ At(k, "booking") /\ UNCHANGED <<rows, sent>> /\ Working
    BY <1>3 DEF FindTransaction, At
  <2> HIDE DEF s
  <2> QED
    BY <2>1, <2>2, ReturnAlike, ReadsAlike
<1>4. CASE WriteSettled(k)
  <2> DEFINE status == IF call[k].ok THEN "COMPLETED" ELSE "FAILED"
             r == [rows[call[k].tx] EXCEPT !.status = status, !.completed = call[k].ok,
                                           !.ref = call[k].ref]
  <2>1. /\ Return(k) /\ ~ At(k, "booking") /\ WriteRow(call[k].tx, r)
        /\ UNCHANGED sent /\ Working
    BY <1>4 DEF WriteSettled, At
  <2>2. call[k].tx \in 1..Len(rows)
    BY <1>1, <1>4 DEF CallFits, OrderOfCallFits, WriteSettled, At
  <2>3. rows[call[k].tx] \in TransactionRows
    BY <1>1, <2>2
  <2>4. r.by = rows[call[k].tx].by /\ r.coll = rows[call[k].tx].coll
    BY <2>3, FieldsKept
  <2> HIDE DEF r
  <2> QED
    BY <2>1, <2>4, WritesAndEndsAlike
<1> QED
  BY <1>2, <1>3, <1>4 DEF CallingBack

\* A payment moves from being about to be booked to being booked, or is given up.
LEMMA PaymentBooked ==
  ASSUME IInv, PaymentsAreBooked, NEW k \in Calls, At(k, "booking"),
         NEW s, Become(k, s), s.at # "booking", UNCHANGED sent, crashes' = crashes,
         \/ /\ rows' = Append(rows, [by |-> "pay", origin |-> Len(rows) + 1, type |-> "WASTE_COLLECTION",
                   method |-> "STELLAR",
                                     status |-> "COMPLETED", ref |-> 0,
                                     coll |-> call[k].coll, completed |-> TRUE])
            /\ faults' = faults
         \/ rows' = rows /\ faults' = faults + 1
  PROVE  PaymentsAreBooked'
<1> DEFINE d == call[k].coll
           paid == [by |-> "pay", origin |-> Len(rows) + 1, type |-> "WASTE_COLLECTION",
                   method |-> "STELLAR", status |-> "COMPLETED", ref |-> 0,
                    coll |-> d, completed |-> TRUE]
<1>1. /\ call \in [Calls -> CallStates] /\ call[k] \in CallStates /\ CallFits(call[k])
      /\ rows \in Seq(TransactionRows) /\ Len(rows) \in Nat
  BY CallFacts
<1>2. paid \in TransactionRows
  BY <1>1 DEF CallStates, TransactionRows, Statuses, Types
<1>3. call'[k] = s /\ \A j \in Calls \ {k} : call'[j] = call[j]
  BY <1>1 DEF Become
<1>4. ASSUME NEW c \in Collections
      PROVE  Booking(c)' = IF c = d THEN Booking(c) \ {k} ELSE Booking(c)
  <2>1. k \notin Booking(c)' /\ (k \in Booking(c) <=> c = d)
    BY <1>3 DEF Booking, At
  <2>2. ASSUME NEW j \in Calls \ {k} PROVE j \in Booking(c)' <=> j \in Booking(c)
    BY <1>3 DEF Booking, At
  <2>3. Booking(c) \subseteq Calls /\ Booking(c)' \subseteq Calls
    BY DEF Booking
  <2>4. CASE c = d
    BY <2>1, <2>2, <2>3, <2>4
  <2>5. CASE c # d
    <3>1. \A j \in Calls : j \in Booking(c)' <=> j \in Booking(c)
      BY <2>1, <2>2, <2>5
    <3>2. Booking(c)' = Booking(c)
      BY <2>3, <3>1
    <3> QED
      BY <2>5, <3>2
  <2> QED
    BY <2>4, <2>5
<1>5. ASSUME NEW c \in Collections, rows' = Append(rows, paid)
      PROVE  Booked(c)' = IF c = d THEN Booked(c) \cup {Len(rows) + 1} ELSE Booked(c)
  <2>1. /\ Len(rows') = Len(rows) + 1 /\ rows'[Len(rows) + 1] = paid
        /\ \A u \in 1..Len(rows) : rows'[u] = rows[u]
    BY <1>1, <1>2, <1>5, AppendRowType
  <2> QED
    BY <1>1, <2>1 DEF Booked
<1> SUFFICES ASSUME NEW c \in Collections
             PROVE  /\ Cardinality(Booked(c)') + Cardinality(Booking(c)') <= sent'[c]
                    /\ sent'[c] <= Cardinality(Booked(c)') + Cardinality(Booking(c)')
                                     + faults' + crashes' * Cardinality(Calls)
  BY DEF PaymentsAreBooked
<1> DEFINE b == Cardinality(Booked(c))
           p == Cardinality(Booking(c))
           lost == crashes * Cardinality(Calls)
<1>6. /\ b \in Nat /\ p \in Nat /\ sent[c] \in Nat /\ faults \in Nat /\ crashes \in Nat
      /\ Cardinality(Calls) \in Nat
  BY CallsAreFinite, FinitelyMany, FS_CardinalityType DEF IInv, TypeOK, BudgetOK
<1>7. lost \in Nat
  BY <1>6, OneCrashMore
<1>8. b + p <= sent[c] /\ sent[c] <= b + p + faults + lost
  BY DEF PaymentsAreBooked
<1>9. Cardinality(Booking(c)') = IF c = d THEN p - 1 ELSE p
  <2>1. c = d => k \in Booking(c)
    BY DEF Booking
  <2>2. c = d => Cardinality(Booking(c) \ {k}) = p - 1
    BY <2>1, FinitelyMany, FS_RemoveElement
  <2> QED
    BY <1>4, <2>2
<1>10. rows' = rows => Cardinality(Booked(c)') = b
  BY DEF Booked
<1>11. rows' = Append(rows, paid) => Cardinality(Booked(c)') = IF c = d THEN b + 1 ELSE b
  <2>1. Len(rows) + 1 \notin Booked(c)
    BY <1>1 DEF Booked
  <2>2. Cardinality(Booked(c) \cup {Len(rows) + 1}) = b + 1
    BY <2>1, FinitelyMany, FS_AddElement
  <2> QED
    BY <1>5, <2>2
<1> DEFINE b2 == Cardinality(Booked(c)')
           p2 == Cardinality(Booking(c)')
<1>12. b2 + p2 <= sent[c] /\ sent[c] <= b2 + p2 + faults' + lost
  <2>1. p2 = IF c = d THEN p - 1 ELSE p
    BY <1>9
  <2>2. \/ b2 = (IF c = d THEN b + 1 ELSE b) /\ faults' = faults
        \/ b2 = b /\ faults' = faults + 1
    BY <1>10, <1>11
  <2> HIDE DEF b, p, lost, b2, p2, d
  <2> QED
    BY <1>6, <1>7, <1>8, <2>1, <2>2, SMTT(30)
<1> QED
  BY <1>12

\* A payment is made, and its request about to book it or failing; or it is not made.
LEMMA PaymentSent ==
  ASSUME IInv, PaymentsAreBooked, NEW k \in Calls, SendPayment(k)
  PROVE  PaymentsAreBooked'
<1> DEFINE d == call[k].coll
           pay == sent' = [sent EXCEPT ![d] = @ + 1]
<1>1. /\ call \in [Calls -> CallStates] /\ call[k] \in CallStates /\ CallFits(call[k])
      /\ sent \in [Collections -> Nat] /\ BudgetOK /\ At(k, "sending")
  BY CallFacts DEF SendPayment
<1>2. d \in Collections /\ rows' = rows
  BY <1>1 DEF SendPayment, At, CallFits, OpFits, PayStages
<1>3. CASE Goto(k, "refusing") /\ UNCHANGED sent /\ (Working \/ Failing)
  <2>1. BooksAlike
    BY <1>1, <1>2, <1>3, GotoAlike DEF At
  <2> QED
    BY <2>1, AlikeIsBooked
<1>4. CASE pay /\ Goto(k, "booking") /\ Working
  <2> DEFINE s == [call[k] EXCEPT !.at = "booking"]
  <2>1. call'[k] = s /\ \A j \in Calls \ {k} : call'[j] = call[j]
    BY <1>1, <1>4 DEF Goto, Become
  <2>2. s.at = "booking" /\ s.coll = d
    BY <1>1 DEF CallStates
  <2>3. ASSUME NEW c \in Collections
        PROVE  /\ Booking(c)' = IF c = d THEN Booking(c) \cup {k} ELSE Booking(c)
               /\ k \notin Booking(c)
               /\ Booked(c)' = Booked(c)
    <3>1. k \notin Booking(c) /\ (k \in Booking(c)' <=> c = d)
      BY <1>1, <2>1, <2>2 DEF Booking, At
    <3>2. ASSUME NEW j \in Calls \ {k} PROVE j \in Booking(c)' <=> j \in Booking(c)
      BY <2>1 DEF Booking, At
    <3>3. Booking(c) \subseteq Calls /\ Booking(c)' \subseteq Calls
      BY DEF Booking
    <3>4. Booked(c)' = Booked(c)
      BY <1>2 DEF Booked
    <3> QED
      BY <3>1, <3>2, <3>3, <3>4
  <2> SUFFICES ASSUME NEW c \in Collections
               PROVE  /\ Cardinality(Booked(c)') + Cardinality(Booking(c)') <= sent'[c]
                      /\ sent'[c] <= Cardinality(Booked(c)') + Cardinality(Booking(c)')
                                       + faults' + crashes' * Cardinality(Calls)
    BY DEF PaymentsAreBooked
  <2> DEFINE b == Cardinality(Booked(c))
             p == Cardinality(Booking(c))
             lost == crashes * Cardinality(Calls)
             p2 == Cardinality(Booking(c)')
  <2>4. b \in Nat /\ p \in Nat /\ sent[c] \in Nat /\ faults \in Nat /\ crashes \in Nat
        /\ Cardinality(Calls) \in Nat
    BY CallsAreFinite, FinitelyMany, FS_CardinalityType DEF IInv, TypeOK, BudgetOK
  <2>5. lost \in Nat
    BY <2>4, OneCrashMore
  <2>6. b + p <= sent[c] /\ sent[c] <= b + p + faults + lost
    BY DEF PaymentsAreBooked
  <2>7. p2 = IF c = d THEN p + 1 ELSE p
    BY <2>3, FinitelyMany, FS_AddElement
  <2>8. sent'[c] = IF c = d THEN sent[c] + 1 ELSE sent[c]
    BY <1>1, <1>4
  <2>9. Cardinality(Booked(c)') = b /\ faults' = faults /\ crashes' = crashes
    BY <1>4, <2>3 DEF Working, budgetVars
  <2>10. b + p2 <= sent'[c] /\ sent'[c] <= b + p2 + faults + lost
    <3> HIDE DEF b, p, lost, p2, d
    <3> QED
      BY <2>4, <2>5, <2>6, <2>7, <2>8
  <2> QED
    BY <2>9, <2>10
<1>5. CASE pay /\ Goto(k, "refusing") /\ Failing
  <2>1. [call[k] EXCEPT !.at = "refusing"].at # "booking"
    BY <1>1 DEF CallStates
  <2>2. ASSUME NEW c \in Collections
        PROVE  Booking(c)' = Booking(c) /\ Booked(c)' = Booked(c)
    BY <1>1, <1>2, <1>5, <2>1, SameBookings DEF Goto, Booked, At
  <2> SUFFICES ASSUME NEW c \in Collections
               PROVE  /\ Cardinality(Booked(c)') + Cardinality(Booking(c)') <= sent'[c]
                      /\ sent'[c] <= Cardinality(Booked(c)') + Cardinality(Booking(c)')
                                       + faults' + crashes' * Cardinality(Calls)
    BY DEF PaymentsAreBooked
  <2> DEFINE b == Cardinality(Booked(c))
             p == Cardinality(Booking(c))
             lost == crashes * Cardinality(Calls)
  <2>3. b \in Nat /\ p \in Nat /\ sent[c] \in Nat /\ faults \in Nat /\ crashes \in Nat
        /\ Cardinality(Calls) \in Nat
    BY CallsAreFinite, FinitelyMany, FS_CardinalityType DEF IInv, TypeOK, BudgetOK
  <2>4. lost \in Nat
    BY <2>3, OneCrashMore
  <2>5. b + p <= sent[c] /\ sent[c] <= b + p + faults + lost
    BY DEF PaymentsAreBooked
  <2>6. sent'[c] = sent[c] + 1 \/ sent'[c] = sent[c]
    BY <1>1, <1>5
  <2>7. faults' = faults + 1 /\ crashes' = crashes
    BY <1>5 DEF Failing
  <2>8. b + p <= sent'[c] /\ sent'[c] <= b + p + faults' + lost
    <3> HIDE DEF b, p, lost
    <3> QED
      BY <2>3, <2>4, <2>5, <2>6, <2>7
  <2> QED
    BY <2>2, <2>7, <2>8
<1> QED
  BY <1>3, <1>4, <1>5 DEF SendPayment

\* Every step keeps the count.
LEMMA BooksKept ==
  ASSUME IInv, PaymentsAreBooked, [Next]_vars
  PROVE  PaymentsAreBooked'
<1>1. ASSUME NEW k \in Calls, Request(k) PROVE PaymentsAreBooked'
  BY <1>1, RequestAlike, AlikeIsBooked
<1>2. ASSUME NEW k \in Calls, Paying(k) PROVE PaymentsAreBooked'
  <2>1. CASE CheckPayable(k)
    BY <2>1, ReturnAlike, GotoAlike, AlikeIsBooked DEF CheckPayable, At
  <2>2. CASE SendPayment(k)
    BY <2>2, PaymentSent
  <2>3. CASE BookPayment(k)
    <3> DEFINE s == [call[k] EXCEPT !.at = "marking", !.tx = Len(rows) + 1]
    <3>1. call[k] \in CallStates
      BY CallFacts
    <3>2. s.at # "booking"
      BY <3>1 DEF CallStates
    <3> QED
      BY <2>3, <3>2, PaymentBooked DEF BookPayment, Working, budgetVars
  <2>4. CASE MarkPaid(k)
    BY <2>4, SucceedAlike, AlikeIsBooked DEF MarkPaid, At
  <2>5. CASE MarkUnpaid(k)
    BY <2>5, ReturnAlike, AlikeIsBooked DEF MarkUnpaid, At
  <2> QED
    BY <1>2, <2>1, <2>2, <2>3, <2>4, <2>5 DEF Paying
<1>3. ASSUME NEW k \in Calls, Reviewing(k) PROVE PaymentsAreBooked'
  BY <1>3, ReviewingAlike, AlikeIsBooked
<1>4. ASSUME NEW k \in Calls, Withdrawing(k) PROVE PaymentsAreBooked'
  BY <1>4, WithdrawingAlike, AlikeIsBooked
<1>5. ASSUME NEW k \in Calls, Retrying(k) PROVE PaymentsAreBooked'
  BY <1>5, RetryingAlike, AlikeIsBooked
<1>6. ASSUME NEW k \in Calls, Cancelling(k) PROVE PaymentsAreBooked'
  BY <1>6, CancellingAlike, AlikeIsBooked
<1>7. ASSUME NEW k \in Calls, CallingBack(k) PROVE PaymentsAreBooked'
  BY <1>7, CallingBackAlike, AlikeIsBooked
<1>8. ASSUME NEW k \in Calls, DatabaseFails(k) PROVE PaymentsAreBooked'
  <2>1. call[k] \in CallStates
    BY CallFacts
  <2>2. CASE At(k, "booking")
    <3>1. Return(k) /\ Failing /\ UNCHANGED <<rows, sent>>
      BY <1>8, <2>2 DEF DatabaseFails, At
    <3> QED
      BY <2>2, <3>1, PaymentBooked DEF Return, NoCall, Failing
  <2>3. CASE At(k, "sending") /\ Goto(k, "refusing")
    BY <1>8, <2>3, GotoAlike, AlikeIsBooked DEF DatabaseFails, At
  <2>4. CASE Become(k, [call[k] EXCEPT !.at = "completing", !.ok = FALSE]) /\ ~ At(k, "booking")
    <3>1. [call[k] EXCEPT !.at = "completing", !.ok = FALSE].at # "booking"
      BY <2>1 DEF CallStates
    <3> QED
      BY <1>8, <2>4, <3>1, ReadsAlike, AlikeIsBooked DEF DatabaseFails
  <2>5. CASE Return(k) /\ ~ At(k, "booking")
    BY <1>8, <2>5, ReturnAlike, AlikeIsBooked DEF DatabaseFails
  <2> QED
    BY <1>8, <2>2, <2>3, <2>4, <2>5 DEF DatabaseFails, At
<1>9. CASE Providers
  BY <1>9, AlikeIsBooked
     DEF Providers, BooksAlike, Booked, Booking, At, budgetVars, IInv, TypeOK, BudgetOK
<1>10. CASE CrashRestart
  <2> SUFFICES ASSUME NEW c \in Collections
               PROVE  /\ Cardinality(Booked(c)') + Cardinality(Booking(c)') <= sent'[c]
                      /\ sent'[c] <= Cardinality(Booked(c)') + Cardinality(Booking(c)')
                                       + faults' + crashes' * Cardinality(Calls)
    BY DEF PaymentsAreBooked
  <2> DEFINE b == Cardinality(Booked(c))
             p == Cardinality(Booking(c))
             n == Cardinality(Calls)
             lost == crashes * n
             lost2 == crashes' * n
  <2>1. /\ b \in Nat /\ p \in Nat /\ sent[c] \in Nat /\ faults \in Nat /\ crashes \in Nat
        /\ n \in Nat /\ p <= n
    BY CallsAreFinite, FinitelyMany, FS_CardinalityType DEF IInv, TypeOK, BudgetOK
  <2>2. lost \in Nat /\ lost2 = lost + n
    BY <1>10, <2>1, OneCrashMore DEF CrashRestart, Crashing
  <2>3. b + p <= sent[c] /\ sent[c] <= b + p + faults + lost
    BY DEF PaymentsAreBooked
  <2>4. Booking(c)' = {}
    BY <1>10 DEF CrashRestart, Booking, At, NoCall
  <2>5. Cardinality(Booked(c)') = b /\ Cardinality(Booking(c)') = 0
    BY <1>10, <2>4, FS_EmptySet DEF CrashRestart, Booked
  <2>6. b + 0 <= sent[c] /\ sent[c] <= b + 0 + faults + lost2
    <3> HIDE DEF b, p, n, lost, lost2
    <3> QED
      BY <2>1, <2>2, <2>3
  <2> QED
    BY <1>10, <2>5, <2>6 DEF CrashRestart, Crashing
<1>11. CASE UNCHANGED vars
  BY <1>11, AlikeIsBooked
     DEF vars, BooksAlike, Booked, Booking, At, budgetVars, IInv, TypeOK, BudgetOK
<1> QED
  BY <1>1, <1>2, <1>3, <1>4, <1>5, <1>6, <1>7, <1>8, <1>9, <1>10, <1>11 DEF Next

\* Every row of a payment stands for a payment of its own, and a payment is missing from
\* the rows only while its request is about to book it, or because that request failed:
\* processCollectionPayment pays before it writes.
THEOREM PaymentsAreAlwaysBooked == Spec => []PaymentsAreBooked
<1>1. Init => PaymentsAreBooked
  <2> SUFFICES ASSUME Init, NEW c \in Collections
               PROVE  /\ Cardinality(Booked(c)) + Cardinality(Booking(c)) <= sent[c]
                      /\ sent[c] <= Cardinality(Booked(c)) + Cardinality(Booking(c))
                                      + faults + crashes * Cardinality(Calls)
    BY DEF PaymentsAreBooked
  <2>1. Booked(c) = {} /\ Booking(c) = {}
    BY EmptySeq DEF Init, Booked, Booking, At, NoCall
  <2>2. sent[c] = 0 /\ faults = 0 /\ crashes = 0
    BY DEF Init, BudgetInit
  <2>3. Cardinality(Calls) \in Nat
    BY CallsAreFinite, FS_CardinalityType
  <2>4. crashes * Cardinality(Calls) \in Nat
    BY <2>2, <2>3, OneCrashMore
  <2> QED
    BY <2>1, <2>2, <2>4, FS_EmptySet
<1>2. IInv /\ PaymentsAreBooked /\ [Next]_vars => PaymentsAreBooked'
  BY BooksKept
<1> QED
  BY <1>1, <1>2, PaymentsInvariant, PTL DEF Spec

\* With the 28 bytes of Stellar's memo and the 38 of the code's, no collection is ever paid.
THEOREM NothingIsEverPaid ==
  ASSUME MemoLimit = 28
  PROVE  Spec => [](\A c \in Collections :
                      sent[c] = 0 /\ collection[c].paymentStatus # "COMPLETED")
<1> DEFINE Unsent == \A c \in Collections : sent[c] = 0
<1>1. Init => Unsent
  BY DEF Init
<1>2. ~ MemoFits
  BY DEF MemoFits, MemoBytes
<1>3. ASSUME Unsent, [Next]_vars
      PROVE  Unsent'
  <2> SUFFICES UNCHANGED sent
    BY <1>3
  <2>1. CASE UNCHANGED vars
    BY <2>1 DEF vars
  <2>2. CASE Providers \/ CrashRestart
    BY <2>2 DEF Providers, CrashRestart
  <2>3. ASSUME NEW k \in Calls,
               Request(k) \/ Paying(k) \/ Reviewing(k) \/ Withdrawing(k) \/ Retrying(k)
                 \/ Cancelling(k) \/ CallingBack(k) \/ DatabaseFails(k)
        PROVE  UNCHANGED sent
    BY <1>2, <2>3
       DEF Request, Arrive, PayCollection, Review, RequestWithdrawal, RetryPayment,
           CancelTransaction, ReceiveCallback, Paying, CheckPayable, SendPayment, BookPayment,
           MarkPaid, MarkUnpaid, Reviewing, CheckUnreviewed, WriteReview, Cancelling,
           CheckPending, WriteCancelled, Withdrawing, CheckBalance, CreateWithdrawal, Disburse,
           WritePending, WriteFailed, Retrying, CheckFailed, ResetRow, CreatePayment, Collect,
           WriteReference, WriteOutcome, CallingBack, MatchReference, FindTransaction,
           WriteSettled, DatabaseFails
  <2> QED
    BY <1>3, <2>1, <2>2, <2>3 DEF Next
<1>4. IInv /\ PaymentsAreBooked /\ Unsent =>
        \A c \in Collections : sent[c] = 0 /\ collection[c].paymentStatus # "COMPLETED"
  <2> SUFFICES ASSUME IInv, PaymentsAreBooked, Unsent, NEW c \in Collections,
                      collection[c].paymentStatus = "COMPLETED"
               PROVE  FALSE
    OBVIOUS
  <2>1. Booked(c) # {}
    BY DEF IInv, CompletedIsBacked
  <2>2. Cardinality(Booked(c)) + Cardinality(Booking(c)) <= 0
    BY DEF PaymentsAreBooked
  <2> QED
    BY <2>1, <2>2, FinitelyMany, FS_EmptySet
<1> QED
  BY <1>1, <1>3, <1>4, PaymentsInvariant, PaymentsAreAlwaysBooked, PTL DEF Spec

-----------------------------------------------------------------------------
(* Whose row a callback settles, and which rows of withdrawals complete.   *)
(* A row is traced to the row its chain of retries began with, an order to *)
(* the row it was placed for.  The providers name the transaction of a     *)
(* withdrawal in one callback only, Airtel's.                              *)

\* A withdrawal that no callback names.
Mute(t) ==
  rows[t].by = "withdraw" /\ (rows[t].method = "AIRTEL_MONEY" => "AIRTEL_MONEY" \notin Configured)

\* Order o was placed for row t, or for an earlier row of its chain.
PlacedFor(o, t) ==
  o \in 1..Len(orders) /\ orders[o].tx <= t /\ rows[orders[o].tx].origin = rows[t].origin

Settled(r) == r.status = "COMPLETED" \/ r.completed

RowTraced(t) ==
  /\ Mute(t) => ~ Settled(rows[t])
  /\ rows[t].origin \in 1..t /\ (rows[t].by # "retry" => rows[t].origin = t)
  /\ rows[t].by = "pay" => rows[t].type = "WASTE_COLLECTION"
  /\ rows[t].ref # 0 => PlacedFor(rows[t].ref, t)
  /\ rows[t].by = "retry" /\ Settled(rows[t]) => Collected(t)

OrderTraced(o) ==
  /\ orders[o].key = "transaction" /\ orders[o].kind = "disburse" =>
       orders[o].method = "AIRTEL_MONEY" /\ "AIRTEL_MONEY" \in Configured
  /\ orders[o].key = "reference" => orders[o].kind = "collect"

HoldsReference(s) == s.at \in {"resetting", "recreating", "submitted", "referencing", "settling"}

\* The provider has accepted the request's own order to collect.
Accepted(s) == s.at = "referencing" \/ (s.at = "completing" /\ s.ok)

Naming(s) == s.at \in {"finding", "settling"} /\ s.tx # 0

CallTraced(s) ==
  /\ s.at = "disbursing" => s.method \in Configured
  /\ HoldsReference(s) /\ s.ref # 0 => PlacedFor(s.ref, s.tx)
  /\ Accepted(s) => Collected(s.tx)
  /\ Naming(s) =>
       /\ ~ Mute(s.tx) /\ PlacedFor(s.order, s.tx)
       /\ s.tx # orders[s.order].tx => orders[s.order].kind = "collect"

RowsTraced == \A t \in 1..Len(rows) : RowTraced(t)

OrdersTraced == \A o \in 1..Len(orders) : OrderTraced(o)

TraceInv == RowsTraced /\ OrdersTraced /\ \A k \in Calls : CallTraced(call[k])

\* What created a row, and from what, does not change.
RowsStay ==
  RowsGrow /\ \A t \in 1..Len(rows) :
                rows'[t].origin = rows[t].origin /\ rows'[t].type = rows[t].type

\* A trace once there is there for good.
LEMMA TraceStays ==
  ASSUME IInv, IInv', RowsStay, OrdersGrow, NEW t \in 1..Len(rows)
  PROVE  /\ \A o : PlacedFor(o, t) => PlacedFor(o, t)'
         /\ Collected(t) => Collected(t)'
<1>1. /\ Len(rows) \in Nat /\ Len(rows') \in Nat /\ Len(orders) \in Nat /\ Len(orders') \in Nat
  BY LenProperties DEF IInv, TypeOK, ProviderTypeOK
<1>2. ASSUME NEW o \in 1..Len(orders)
      PROVE  /\ o \in 1..Len(orders') /\ orders'[o].tx = orders[o].tx
             /\ orders'[o].kind = orders[o].kind
             /\ rows'[orders'[o].tx].origin = rows[orders[o].tx].origin
  BY <1>1, <1>2 DEF OrdersGrow, RowsStay, IInv, OrdersFit, OrderFits
<1>3. rows'[t].origin = rows[t].origin
  BY DEF RowsStay
<1> QED
  BY <1>2, <1>3 DEF PlacedFor, Collected

\* A request that is at none of the stages above leans on no trace.
Plain(s) == s.at # "disbursing" /\ ~ HoldsReference(s) /\ ~ Accepted(s) /\ ~ Naming(s)

\* What is known of a request stays true.
LEMMA CallStays ==
  ASSUME IInv, IInv', RowsStay, OrdersGrow, NEW s, CallTraced(s),
         s.tx \in 1..Len(rows) \/ Plain(s)
  PROVE  CallTraced(s)'
<1>1. CASE Plain(s)
  BY <1>1 DEF Plain, CallTraced, HoldsReference, Accepted, Naming
<1>2. CASE s.tx \in 1..Len(rows)
  <2>1. /\ \A o : PlacedFor(o, s.tx) => PlacedFor(o, s.tx)'
        /\ Collected(s.tx) => Collected(s.tx)'
    <3>1. PICK t \in 1..Len(rows) : t = s.tx
      BY <1>2
    <3> QED
      BY <3>1, TraceStays
  <2>2. Mute(s.tx)' <=> Mute(s.tx)
    BY <1>2 DEF RowsStay, RowsGrow, Mute
  <2>3. \A o \in 1..Len(orders) :
          orders'[o].tx = orders[o].tx /\ orders'[o].kind = orders[o].kind
    BY DEF OrdersGrow
  <2>4. (Naming(s) => ~ Mute(s.tx) /\ PlacedFor(s.order, s.tx)
           /\ (s.tx # orders[s.order].tx => orders[s.order].kind = "collect"))'
    BY <2>1, <2>2, <2>3 DEF CallTraced, Naming, PlacedFor
  <2> QED
    BY <2>1, <2>4 DEF CallTraced, HoldsReference, Accepted, Naming
<1> QED
  BY <1>1, <1>2

\* Requests that lean on a row have one.
LEMMA LeansOnRow ==
  ASSUME IInv, NEW k \in Calls
  PROVE  call[k].tx \in 1..Len(rows) \/ Plain(call[k]) \/ call[k].at = "disbursing"
BY CallFacts DEF CallFits, RowOfCallFits, OrderOfCallFits, Plain, HoldsReference, Accepted, Naming

\* One request goes on, the others know as much as before.
LEMMA StepTraced ==
  ASSUME IInv, IInv', TraceInv, NEW k \in Calls, NEW s, Become(k, s), RowsStay, OrdersGrow,
         RowsTraced', OrdersTraced', CallTraced(s)'
  PROVE  TraceInv'
<1>1. call'[k] = s /\ \A j \in Calls \ {k} : call'[j] = call[j]
  BY CallFacts DEF Become
<1>2. ASSUME NEW j \in Calls PROVE CallTraced(call[j])'
  <2>1. CASE j = k
    BY <1>1, <2>1 DEF CallTraced, HoldsReference, Accepted, Naming
  <2>2. CASE j # k
    <3>1. PICK q : q = call[j]
      OBVIOUS
    <3>2. CallTraced(q) /\ q = call'[j]
      BY <1>1, <2>2, <3>1 DEF TraceInv
    <3>3. q.tx \in 1..Len(rows) \/ Plain(q)
      <4>1. q.at = "disbursing" => q.tx \in 1..Len(rows)
        BY <3>1, CallFacts DEF CallFits, RowOfCallFits
      <4> QED
        BY <3>1, <4>1, LeansOnRow
    <3>4. CallTraced(q)'
      BY <3>2, <3>3, CallStays
    <3> QED
      BY <3>2, <3>4 DEF CallTraced, HoldsReference, Accepted, Naming
  <2> QED
    BY <2>1, <2>2
<1> QED
  BY <1>2 DEF TraceInv

\* Nothing is written, nothing ordered.
LEMMA NothingTraced ==
  ASSUME IInv, IInv', TraceInv, UNCHANGED <<orders, rows>>
  PROVE  RowsStay /\ OrdersGrow /\ RowsTraced' /\ OrdersTraced'
<1>1. Len(rows) \in Nat /\ Len(orders) \in Nat
  BY LenProperties DEF IInv, TypeOK, ProviderTypeOK
<1>2. RowsStay /\ OrdersGrow
  BY <1>1 DEF RowsStay, RowsGrow, OrdersGrow
<1>3. RowsTraced' /\ OrdersTraced'
  BY DEF TraceInv, RowsTraced, RowTraced, OrdersTraced, OrderTraced, Mute, Collected, PlacedFor
<1> QED
  BY <1>2, <1>3

LEMMA ReadsTraced ==
  ASSUME IInv, IInv', TraceInv, NEW k \in Calls, NEW s, Become(k, s), UNCHANGED <<orders, rows>>,
         CallTraced(s)
  PROVE  TraceInv'
<1>1. CallTraced(s)'
  BY DEF CallTraced, Mute, Collected, PlacedFor, HoldsReference, Accepted, Naming
<1> QED
  BY <1>1, NothingTraced, StepTraced

\* A request ends, or goes on to a stage at which it leans on no trace.
PlainStages ==
  Stages \ {"disbursing", "finding", "settling", "resetting", "recreating", "submitted",
            "referencing", "completing"}

LEMMA EndsPlain ==
  ASSUME IInv, NEW k \in Calls,
         Return(k) \/ Succeed(k) \/ \E stage \in PlainStages : Goto(k, stage)
  PROVE  \E s : Become(k, s) /\ Plain(s)
<1> USE DEF Plain, HoldsReference, Accepted, Naming
<1>1. CASE Return(k)
  BY <1>1 DEF Return, NoCall
<1>2. CASE Succeed(k)
  <2> DEFINE s == [NoCall EXCEPT !.op = call[k].op, !.coll = call[k].coll, !.tx = call[k].tx,
                                 !.told = TRUE]
  <2>1. s.at = "idle" /\ Become(k, s)
    BY <1>2 DEF NoCall, Succeed
  <2> HIDE DEF s
  <2> QED
    BY <2>1
<1>3. ASSUME NEW stage \in PlainStages, Goto(k, stage)
      PROVE  \E s : Become(k, s) /\ Plain(s)
  <2> DEFINE s == [call[k] EXCEPT !.at = stage]
  <2>1. s.at = stage /\ Become(k, s)
    BY <1>3, CallFacts DEF CallStates, Goto
  <2> HIDE DEF s
  <2> QED
    BY <1>3, <2>1 DEF PlainStages
<1> QED
  BY <1>1, <1>2, <1>3

LEMMA PlainTraced ==
  ASSUME NEW s, Plain(s)
  PROVE  CallTraced(s) /\ CallTraced(s)'
BY DEF Plain, CallTraced, HoldsReference, Accepted, Naming

\* A row is written, and its traces with it.
LEMMA WriteTraced ==
  ASSUME IInv, IInv', TraceInv, NEW t \in 1..Len(rows), NEW r \in TransactionRows, WriteRow(t, r),
         UNCHANGED orders,
         r.by = rows[t].by, r.method = rows[t].method, r.coll = rows[t].coll,
         r.origin = rows[t].origin, r.type = rows[t].type,
         Mute(t) => ~ Settled(r),
         r.ref # 0 => PlacedFor(r.ref, t),
         r.by = "retry" /\ Settled(r) => Collected(t)
  PROVE  RowsStay /\ OrdersGrow /\ RowsTraced' /\ OrdersTraced'
<1>1. /\ rows \in Seq(TransactionRows) /\ Len(rows) \in Nat /\ Len(orders) \in Nat
  BY LenProperties DEF IInv, TypeOK, ProviderTypeOK
<1>2. /\ Len(rows') = Len(rows) /\ rows'[t] = r
      /\ \A u \in 1..Len(rows) : u # t => rows'[u] = rows[u]
  BY <1>1, WriteRowType
<1>3. RowsStay /\ OrdersGrow
  BY <1>1, <1>2 DEF RowsStay, RowsGrow, OrdersGrow
<1>4. ASSUME NEW u \in 1..Len(rows') PROVE RowTraced(u)'
  <2>1. /\ \A o : PlacedFor(o, u) => PlacedFor(o, u)'
        /\ Collected(u) => Collected(u)'
    BY <1>2, <1>3, TraceStays
  <2>2. RowTraced(u) /\ (Mute(u)' <=> Mute(u))
    BY <1>2, <1>3 DEF TraceInv, RowsTraced, RowsStay, RowsGrow, Mute
  <2>3. CASE u = t
    BY <1>2, <2>1, <2>2, <2>3 DEF RowTraced
  <2>4. CASE u # t
    BY <1>2, <2>1, <2>2, <2>4 DEF RowTraced
  <2> QED
    BY <2>3, <2>4
<1>5. OrdersTraced'
  BY DEF TraceInv, OrdersTraced, OrderTraced
<1> QED
  BY <1>3, <1>4, <1>5 DEF RowsTraced

\* A row is created, as the first of its chain or as the retry of an earlier one.
LEMMA AppendTraced ==
  ASSUME IInv, IInv', TraceInv, NEW r \in TransactionRows, rows' = Append(rows, r),
         UNCHANGED orders,
         r.origin \in 1..(Len(rows) + 1), r.by # "retry" => r.origin = Len(rows) + 1,
         r.by = "pay" => r.type = "WASTE_COLLECTION",
         r.by # "pay" => ~ Settled(r),
         r.ref # 0 => r.ref \in 1..Len(orders) /\ rows[orders[r.ref].tx].origin = r.origin
  PROVE  RowsStay /\ OrdersGrow /\ RowsTraced' /\ OrdersTraced'
<1>1. /\ rows \in Seq(TransactionRows) /\ Len(rows) \in Nat /\ Len(orders) \in Nat
  BY LenProperties DEF IInv, TypeOK, ProviderTypeOK
<1>2. /\ Len(rows') = Len(rows) + 1 /\ rows'[Len(rows) + 1] = r
      /\ \A u \in 1..Len(rows) : rows'[u] = rows[u]
  BY <1>1, AppendRowType
<1>3. RowsStay /\ OrdersGrow
  BY <1>1, <1>2 DEF RowsStay, RowsGrow, OrdersGrow
<1>4. ASSUME NEW u \in 1..Len(rows') PROVE RowTraced(u)'
  <2>1. CASE u = Len(rows) + 1
    <3>1. r.ref # 0 => PlacedFor(r.ref, u)'
      BY <1>1, <1>2, <2>1 DEF PlacedFor, IInv, OrdersFit, OrderFits
    <3>2. ~ (Mute(u)' /\ Settled(r))
      BY <1>2, <2>1 DEF Mute
    <3> QED
      BY <1>2, <2>1, <3>1, <3>2 DEF RowTraced
  <2>2. CASE u \in 1..Len(rows)
    <3>1. /\ \A o : PlacedFor(o, u) => PlacedFor(o, u)'
          /\ Collected(u) => Collected(u)'
      BY <1>3, <2>2, TraceStays
    <3>2. RowTraced(u) /\ (Mute(u)' <=> Mute(u)) /\ rows'[u] = rows[u]
      BY <1>2, <2>2 DEF TraceInv, RowsTraced, Mute
    <3> QED
      BY <3>1, <3>2 DEF RowTraced
  <2> QED
    BY <1>1, <1>2, <2>1, <2>2
<1>5. OrdersTraced'
  BY DEF TraceInv, OrdersTraced, OrderTraced
<1> QED
  BY <1>3, <1>4, <1>5 DEF RowsTraced

\* A request reads, and ends or goes on to a stage at which it leans on no trace.
LEMMA ReadsOn ==
  ASSUME IInv, IInv', TraceInv, NEW k \in Calls, UNCHANGED <<orders, rows>>,
         Return(k) \/ Succeed(k) \/ \E stage \in PlainStages : Goto(k, stage)
  PROVE  TraceInv'
<1>1. PICK s : Become(k, s) /\ Plain(s)
  BY EndsPlain
<1> QED
  BY <1>1, PlainTraced, ReadsTraced

\* A row was written or created; the request ends or leans on no trace.
LEMMA WritesOn ==
  ASSUME IInv, IInv', TraceInv, NEW k \in Calls, RowsStay, OrdersGrow, RowsTraced', OrdersTraced',
         Return(k) \/ Succeed(k) \/ \E stage \in PlainStages : Goto(k, stage)
  PROVE  TraceInv'
<1>1. PICK s : Become(k, s) /\ Plain(s)
  BY EndsPlain
<1> QED
  BY <1>1, PlainTraced, StepTraced

\* The row an order of a provider names, if its callback names the transaction.
LEMMA NamedRow ==
  ASSUME IInv, TraceInv, NEW o \in 1..Len(orders), orders[o].key = "transaction"
  PROVE  ~ Mute(orders[o].tx) /\ PlacedFor(o, orders[o].tx)
<1>1. ~ Mute(orders[o].tx)
  BY DEF IInv, OrdersFit, OrderFits, TraceInv, OrdersTraced, OrderTraced, Mute
<1>2. orders[o].tx \in Nat
  BY LenProperties DEF IInv, TypeOK, OrdersFit, OrderFits
<1> QED
  BY <1>1, <1>2 DEF PlacedFor

\* What a provider does with an order does not change what it is for.
LEMMA OrderTouched ==
  ASSUME IInv, IInv', TraceInv, UNCHANGED rows, NEW o \in 1..Len(orders), NEW q \in Orders,
         orders' = [orders EXCEPT ![o] = q],
         q.tx = orders[o].tx, q.key = orders[o].key, q.kind = orders[o].kind,
         q.method = orders[o].method,
         orders[o].state = "success" => q.state = "success"
  PROVE  RowsStay /\ OrdersGrow /\ RowsTraced' /\ OrdersTraced'
<1>1. orders \in Seq(Orders) /\ Len(orders) \in Nat /\ Len(rows) \in Nat
  BY CallFacts, LenProperties DEF IInv, TypeOK, ProviderTypeOK
<1>2. /\ Len(orders') = Len(orders) /\ orders'[o] = q
      /\ \A p \in 1..Len(orders) : p # o => orders'[p] = orders[p]
  BY <1>1, ExceptSeq
<1>3. RowsStay /\ OrdersGrow
  BY <1>1, <1>2 DEF RowsStay, RowsGrow, OrdersGrow
<1>4. RowsTraced'
  <2>1. ASSUME NEW t \in 1..Len(rows)
        PROVE  RowTraced(t)'
    <3>1. /\ \A p : PlacedFor(p, t) => PlacedFor(p, t)'
          /\ Collected(t) => Collected(t)'
      BY <1>3, <2>1, TraceStays
    <3> QED
      BY <2>1, <3>1 DEF TraceInv, RowsTraced, RowTraced, Mute
  <2> QED
    BY <2>1 DEF RowsTraced
<1>5. OrdersTraced'
  BY <1>2 DEF TraceInv, OrdersTraced, OrderTraced
<1> QED
  BY <1>3, <1>4, <1>5

\* The callback that arrives names the row its order was placed for, or none.
LEMMA CallBackTraced ==
  ASSUME IInv, IInv', TraceInv, NEW k \in Calls, NEW o \in 1..Len(orders), ReceiveCallback(k, o)
  PROVE  TraceInv'
<1>1. /\ orders \in Seq(Orders) /\ Len(orders) \in Nat /\ orders[o] \in Orders
  BY CallFacts
<1> DEFINE q == [orders[o] EXCEPT !.delivered = orders[o].delivered + 1]
<1>2. /\ q \in Orders /\ q.tx = orders[o].tx /\ q.key = orders[o].key /\ q.kind = orders[o].kind
      /\ q.method = orders[o].method /\ q.state = orders[o].state
  <2>1. orders[o].delivered + 1 \in Nat
    BY <1>1 DEF Orders
  <2> QED
    BY <1>1, <2>1, DeliveryType DEF Orders
<1>3. orders' = [orders EXCEPT ![o] = q] /\ UNCHANGED rows
  BY <1>1 DEF ReceiveCallback, CallBack
<1> HIDE DEF q
<1>4. RowsStay /\ OrdersGrow /\ RowsTraced' /\ OrdersTraced'
  BY <1>2, <1>3, OrderTouched
<1>5. PICK s : /\ Become(k, s) /\ s.at \in {"matching", "finding"} /\ s.order = o
               /\ s.tx = IF orders[o].key = "transaction" THEN orders[o].tx ELSE 0
  <2> DEFINE p == [NoCall EXCEPT !.op = "callback", !.order = o,
                     !.ok = orders[o].state = "success",
                     !.at = IF orders[o].method = "MPESA" THEN "matching" ELSE "finding",
                     !.tx = IF orders[o].key = "transaction" THEN orders[o].tx ELSE 0]
  <2>1. /\ p.at \in {"matching", "finding"} /\ p.order = o
        /\ p.tx = IF orders[o].key = "transaction" THEN orders[o].tx ELSE 0
    BY DEF NoCall
  <2>2. Become(k, p)
    BY DEF ReceiveCallback
  <2> HIDE DEF p
  <2> QED
    BY <2>1, <2>2
<1>6. CallTraced(s)
  BY <1>5, NamedRow DEF CallTraced, HoldsReference, Accepted, Naming
<1>7. s.tx \in 1..Len(rows) \/ Plain(s)
  BY <1>5 DEF IInv, OrdersFit, OrderFits, Plain, HoldsReference, Accepted, Naming
<1>8. CallTraced(s)'
  BY <1>4, <1>6, <1>7, CallStays
<1> QED
  BY <1>4, <1>5, <1>8, StepTraced

\* Every request that arrives.
LEMMA RequestTraced ==
  ASSUME IInv, IInv', TraceInv, NEW k \in Calls, Request(k)
  PROVE  TraceInv'
<1> USE DEF NoCall, Plain, HoldsReference, Accepted, Naming
<1>1. ASSUME NEW s, Plain(s), Arrive(k, s) PROVE TraceInv'
  BY <1>1, PlainTraced, ReadsTraced DEF Arrive
<1>2. ASSUME NEW c \in Collections, PayCollection(k, c) PROVE TraceInv'
  BY <1>1, <1>2 DEF PayCollection
<1>3. ASSUME NEW c \in Collections, NEW op, Review(k, c, op) PROVE TraceInv'
  BY <1>1, <1>3 DEF Review
<1>4. ASSUME NEW m, RequestWithdrawal(k, m) PROVE TraceInv'
  BY <1>1, <1>4 DEF RequestWithdrawal
<1>5. ASSUME NEW t, RetryPayment(k, t) \/ CancelTransaction(k, t) PROVE TraceInv'
  BY <1>1, <1>5 DEF RetryPayment, CancelTransaction
<1> QED
  BY <1>2, <1>3, <1>4, <1>5, CallBackTraced DEF Request

\* A payment's row begins a chain of its own, and is no withdrawal.
LEMMA PayingTraced ==
  ASSUME IInv, IInv', TraceInv, NEW k \in Calls, Paying(k)
  PROVE  TraceInv'
<1>1. call[k] \in CallStates /\ CallFits(call[k]) /\ Len(rows) \in Nat
  BY CallFacts
<1>2. CASE CheckPayable(k)
  BY <1>2, ReadsOn DEF CheckPayable, Stages, PlainStages
<1>3. CASE SendPayment(k)
  BY <1>3, ReadsOn DEF SendPayment, Stages, PlainStages
<1>4. CASE BookPayment(k)
  <2> DEFINE n == Len(rows) + 1
             r == [by |-> "pay", origin |-> n, type |-> "WASTE_COLLECTION",
                   method |-> "STELLAR", status |-> "COMPLETED",
                   ref |-> 0, coll |-> call[k].coll, completed |-> TRUE]
             s == [call[k] EXCEPT !.at = "marking", !.tx = n]
  <2>1. /\ r \in TransactionRows /\ r.by = "pay" /\ r.ref = 0 /\ r.origin = n
        /\ r.type = "WASTE_COLLECTION"
    BY <1>1 DEF CallStates, TransactionRows, Statuses, Types
  <2>2. Plain(s)
    BY <1>1 DEF CallStates, Plain, HoldsReference, Accepted, Naming
  <2>3. Become(k, s) /\ rows' = Append(rows, r) /\ UNCHANGED orders
    BY <1>4 DEF BookPayment
  <2> HIDE DEF r, s
  <2>4. RowsStay /\ OrdersGrow /\ RowsTraced' /\ OrdersTraced'
    BY <1>1, <2>1, <2>3, AppendTraced
  <2> QED
    BY <2>2, <2>3, <2>4, PlainTraced, StepTraced
<1>5. CASE MarkPaid(k) \/ MarkUnpaid(k)
  BY <1>5, ReadsOn DEF MarkPaid, MarkUnpaid
<1> QED
  BY <1>2, <1>3, <1>4, <1>5 DEF Paying

\* Reviews touch no row; a cancellation completes none.
LEMMA ReviewingTraced ==
  ASSUME IInv, IInv', TraceInv, NEW k \in Calls, Reviewing(k) \/ Cancelling(k)
  PROVE  TraceInv'
<1>1. call[k] \in CallStates /\ CallFits(call[k]) /\ rows \in Seq(TransactionRows)
  BY CallFacts
<1>2. CASE CheckUnreviewed(k)
  BY <1>2, ReadsOn DEF CheckUnreviewed, Stages, PlainStages
<1>3. CASE WriteReview(k)
  BY <1>3, ReadsOn DEF WriteReview
<1>4. CASE CheckPending(k)
  BY <1>4, ReadsOn DEF CheckPending, Stages, PlainStages
<1>5. CASE WriteCancelled(k)
  <2> DEFINE r == [rows[call[k].tx] EXCEPT !.status = "CANCELLED"]
  <2>1. PICK t \in 1..Len(rows) : t = call[k].tx /\ rows[t] \in TransactionRows
    BY <1>1, <1>5 DEF WriteCancelled, At, CallFits, RowOfCallFits
  <2>2. WriteRow(t, r) /\ UNCHANGED orders /\ Succeed(k)
    BY <1>5, <2>1 DEF WriteCancelled
  <2>4. /\ r \in TransactionRows
        /\ r.by = rows[t].by /\ r.method = rows[t].method /\ r.coll = rows[t].coll
        /\ r.origin = rows[t].origin /\ r.type = rows[t].type
        /\ r.status = "CANCELLED" /\ r.completed = rows[t].completed /\ r.ref = rows[t].ref
    BY <2>1 DEF TransactionRows, Statuses
  <2> HIDE DEF r
  <2>5. /\ Mute(t) => ~ Settled(r)
        /\ r.ref # 0 => PlacedFor(r.ref, t)
        /\ r.by = "retry" /\ Settled(r) => Collected(t)
    BY <2>4 DEF TraceInv, RowsTraced, RowTraced, Settled
  <2>6. RowsStay /\ OrdersGrow /\ RowsTraced' /\ OrdersTraced'
    BY <2>2, <2>4, <2>5, WriteTraced
  <2> QED
    BY <2>2, <2>6, WritesOn
<1> QED
  BY <1>2, <1>3, <1>4, <1>5 DEF Reviewing, Cancelling

\* An order is accepted or not, and the request goes on to write what it heard.
LEMMA AskTraced ==
  ASSUME IInv, IInv', TraceInv, NEW k \in Calls, NEW order \in Orders, NEW next, NEW otherwise,
         next \in {"submitted", "referencing"}, otherwise \in {"failing", "completing"},
         Ask(k, order, next, otherwise), UNCHANGED rows,
         order.tx = call[k].tx, call[k].tx \in 1..Len(rows),
         next = "referencing" => order.kind = "collect",
         order.key = "reference" => order.kind = "collect",
         order.key = "transaction" /\ order.kind = "disburse" =>
           order.method = "AIRTEL_MONEY" /\ "AIRTEL_MONEY" \in Configured
  PROVE  TraceInv'
<1>1. /\ call[k] \in CallStates /\ orders \in Seq(Orders) /\ Len(orders) \in Nat
      /\ rows \in Seq(TransactionRows) /\ Len(rows) \in Nat
  BY CallFacts
<1>2. /\ \A o \in 1..Len(orders) : orders'[o] = orders[o]
      /\ Len(orders') \in {Len(orders), Len(orders) + 1}
      /\ Accept(order) => Len(orders') = Len(orders) + 1 /\ orders'[Len(orders) + 1] = order
      /\ Len(orders') = Len(orders) + 1 => orders'[Len(orders) + 1] = order
  BY <1>1, AcceptType DEF Ask
<1>3. RowsStay /\ OrdersGrow
  BY <1>1, <1>2 DEF RowsStay, RowsGrow, OrdersGrow
<1>4. RowsTraced'
  <2>1. ASSUME NEW t \in 1..Len(rows)
        PROVE  RowTraced(t)'
    <3>1. /\ \A o : PlacedFor(o, t) => PlacedFor(o, t)'
          /\ Collected(t) => Collected(t)'
      BY <1>3, <2>1, TraceStays
    <3> QED
      BY <2>1, <3>1 DEF TraceInv, RowsTraced, RowTraced, Mute
  <2> QED
    BY <2>1 DEF RowsTraced
<1>5. OrdersTraced'
  <2>1. \A o \in 1..Len(orders') : o \in 1..Len(orders) \/ o = Len(orders) + 1
    BY <1>1, <1>2
  <2>2. ASSUME NEW o \in 1..Len(orders') PROVE OrderTraced(o)'
    BY <1>1, <1>2, <2>1, <2>2 DEF TraceInv, OrdersTraced, OrderTraced
  <2> QED
    BY <2>2 DEF OrdersTraced
<1>6. CASE Accept(order) /\ Become(k, [call[k] EXCEPT !.at = next, !.ok = TRUE,
                                                     !.ref = ReferenceId(order)])
  <2>1. PICK s : /\ Become(k, s) /\ s.at = next /\ s.tx = call[k].tx
                 /\ s.ref = ReferenceId(order)
    <3> DEFINE p == [call[k] EXCEPT !.at = next, !.ok = TRUE, !.ref = ReferenceId(order)]
    <3>1. p.at = next /\ p.tx = call[k].tx /\ p.ref = ReferenceId(order)
      BY <1>1 DEF CallStates
    <3>2. Become(k, p)
      BY <1>6
    <3> HIDE DEF p
    <3> QED
      BY <3>1, <3>2
  <2>2. PICK n \in 1..Len(orders') : n = Len(orders) + 1
    BY <1>1, <1>2, <1>6
  <2>3. orders'[n] = order /\ order.tx = s.tx
    BY <1>2, <1>6, <2>1, <2>2
  <2>4. PlacedFor(n, s.tx)'
    BY <1>1, <2>1, <2>2, <2>3 DEF PlacedFor
  <2>5. s.ref # 0 => s.ref = n
    BY <2>1, <2>2 DEF ReferenceId
  <2>6. next = "referencing" => Collected(s.tx)'
    BY <1>1, <2>1, <2>2, <2>3 DEF Collected
  <2>7. CallTraced(s)'
    BY <2>1, <2>4, <2>5, <2>6 DEF CallTraced, HoldsReference, Accepted, Naming
  <2> QED
    BY <1>3, <1>4, <1>5, <2>1, <2>7, StepTraced
<1>7. CASE Become(k, [call[k] EXCEPT !.at = otherwise, !.ok = FALSE])
  <2>1. PICK s : Become(k, s) /\ Plain(s)
    <3> DEFINE p == [call[k] EXCEPT !.at = otherwise, !.ok = FALSE]
    <3>1. Plain(p)
      BY <1>1 DEF CallStates, Plain, HoldsReference, Accepted, Naming
    <3>2. Become(k, p)
      BY <1>7
    <3> HIDE DEF p
    <3> QED
      BY <3>1, <3>2
  <2> QED
    BY <1>3, <1>4, <1>5, <2>1, PlainTraced, StepTraced
<1> QED
  BY <1>6, <1>7 DEF Ask

\* Of the providers only Airtel's callback names the transaction of a withdrawal, and no
\* provider's names a withdrawal by a reference.
LEMMA WithdrawalNames ==
  ASSUME NEW m \in Methods, NEW tx \in Nat
  PROVE  /\ ProviderWithdrawal(m, tx).key = "transaction" => m = "AIRTEL_MONEY"
         /\ ProviderWithdrawal(m, tx).key # "reference"
BY DEF ProviderWithdrawal, B2cPayment, Transfer, DisburseFunds, Order, Methods

\* A withdrawal's row begins a chain, and is never completed by the request that made it.
LEMMA WithdrawingTraced ==
  ASSUME IInv, IInv', TraceInv, NEW k \in Calls, Withdrawing(k)
  PROVE  TraceInv'
<1>1. /\ call[k] \in CallStates /\ CallFits(call[k]) /\ Len(rows) \in Nat
      /\ rows \in Seq(TransactionRows) /\ CallTraced(call[k])
  BY CallFacts DEF TraceInv
<1>2. CASE CheckBalance(k)
  BY <1>2, ReadsOn DEF CheckBalance, Stages, PlainStages
<1>3. CASE CreateWithdrawal(k)
  <2> DEFINE n == Len(rows) + 1
             r == [by |-> "withdraw", origin |-> n, type |-> "WITHDRAWAL",
                   method |-> call[k].method, status |-> "PROCESSING",
                   ref |-> 0, coll |-> Nil, completed |-> FALSE]
  <2>1. /\ r \in TransactionRows /\ r.by = "withdraw" /\ r.ref = 0 /\ r.origin = n /\ ~ Settled(r)
    BY <1>1 DEF CallStates, TransactionRows, Statuses, Types, Settled
  <2>2. rows' = Append(rows, r) /\ UNCHANGED orders
    BY <1>3 DEF CreateWithdrawal
  <2> HIDE DEF r
  <2>3. RowsStay /\ OrdersGrow /\ RowsTraced' /\ OrdersTraced'
    BY <1>1, <2>1, <2>2, AppendTraced
  <2>4. PICK s : /\ Become(k, s) /\ s.at \in {"disbursing", "failing"}
                 /\ s.at = "disbursing" => s.method \in Configured
    <3> DEFINE p == [call[k] EXCEPT !.tx = n,
                  !.at = IF IsProviderAvailable(call[k].method) THEN "disbursing" ELSE "failing"]
    <3>1. p.method = call[k].method
          /\ p.at = IF IsProviderAvailable(call[k].method) THEN "disbursing" ELSE "failing"
      BY <1>1 DEF CallStates
    <3>2. Become(k, p)
      BY <1>3 DEF CreateWithdrawal
    <3> HIDE DEF p
    <3> QED
      BY <3>1, <3>2 DEF IsProviderAvailable
  <2>5. CallTraced(s)'
    BY <2>4 DEF CallTraced, HoldsReference, Accepted, Naming
  <2> QED
    BY <2>3, <2>4, <2>5, StepTraced
<1>4. CASE Disburse(k)
  <2> DEFINE order == ProviderWithdrawal(call[k].method, call[k].tx)
  <2>1. /\ call[k].method \in Methods /\ call[k].tx \in Nat /\ call[k].tx \in 1..Len(rows)
        /\ call[k].method \in Configured
    BY <1>1, <1>4 DEF Disburse, At, CallStates, CallFits, RowOfCallFits, CallTraced
  <2>2. /\ order \in Orders /\ order.method = call[k].method /\ order.tx = call[k].tx
        /\ order.key = "transaction" => call[k].method = "AIRTEL_MONEY"
        /\ order.key # "reference"
    BY <2>1, WithdrawalOrder, WithdrawalNames
  <2>3. Ask(k, order, "submitted", "failing") /\ UNCHANGED rows
    BY <1>4 DEF Disburse
  <2> HIDE DEF order
  <2> QED
    BY <2>1, <2>2, <2>3, AskTraced
<1>5. CASE WritePending(k)
  <2> DEFINE r == [rows[call[k].tx] EXCEPT !.status = "PENDING", !.ref = call[k].ref]
  <2>1. PICK t \in 1..Len(rows) : t = call[k].tx /\ rows[t] \in TransactionRows
    BY <1>1, <1>5 DEF WritePending, At, CallFits, RowOfCallFits
  <2>2. WriteRow(t, r) /\ UNCHANGED orders /\ Succeed(k)
    BY <1>5, <2>1 DEF WritePending
  <2>3. r \in TransactionRows
    BY <1>1, <2>1, StatusAndRefType DEF CallStates, Statuses
  <2>4. /\ r.by = rows[t].by /\ r.method = rows[t].method /\ r.coll = rows[t].coll
        /\ r.origin = rows[t].origin /\ r.type = rows[t].type
        /\ r.status = "PENDING" /\ r.completed = rows[t].completed /\ r.ref = call[k].ref
    BY <2>1 DEF TransactionRows
  <2> HIDE DEF r
  <2>5. r.ref # 0 => PlacedFor(r.ref, t)
    BY <1>1, <1>5, <2>1, <2>4 DEF WritePending, At, CallTraced, HoldsReference
  <2>6. (Mute(t) => ~ Settled(r)) /\ (r.by = "retry" /\ Settled(r) => Collected(t))
    BY <2>4 DEF TraceInv, RowsTraced, RowTraced, Settled
  <2>7. RowsStay /\ OrdersGrow /\ RowsTraced' /\ OrdersTraced'
    BY <2>2, <2>3, <2>4, <2>5, <2>6, WriteTraced
  <2> QED
    BY <2>2, <2>7, WritesOn
<1>6. CASE WriteFailed(k)
  <2> DEFINE r == [rows[call[k].tx] EXCEPT !.status = "FAILED"]
  <2>1. PICK t \in 1..Len(rows) : t = call[k].tx /\ rows[t] \in TransactionRows
    BY <1>1, <1>6 DEF WriteFailed, At, CallFits, RowOfCallFits
  <2>2. WriteRow(t, r) /\ UNCHANGED orders /\ Return(k)
    BY <1>6, <2>1 DEF WriteFailed
  <2>3. /\ r \in TransactionRows
        /\ r.by = rows[t].by /\ r.method = rows[t].method /\ r.coll = rows[t].coll
        /\ r.origin = rows[t].origin /\ r.type = rows[t].type
        /\ r.status = "FAILED" /\ r.completed = rows[t].completed /\ r.ref = rows[t].ref
    BY <2>1 DEF TransactionRows, Statuses
  <2> HIDE DEF r
  <2>4. /\ Mute(t) => ~ Settled(r)
        /\ r.ref # 0 => PlacedFor(r.ref, t)
        /\ r.by = "retry" /\ Settled(r) => Collected(t)
    BY <2>3 DEF TraceInv, RowsTraced, RowTraced, Settled
  <2>5. RowsStay /\ OrdersGrow /\ RowsTraced' /\ OrdersTraced'
    BY <2>2, <2>3, <2>4, WriteTraced
  <2> QED
    BY <2>2, <2>5, WritesOn
<1> QED
  BY <1>2, <1>3, <1>4, <1>5, <1>6 DEF Withdrawing

\* A retry resets the row that failed; the row of its own has the same origin, and completes
\* once a provider accepted to collect for it.
LEMMA RetryingTraced ==
  ASSUME IInv, IInv', TraceInv, NEW k \in Calls, Retrying(k)
  PROVE  TraceInv'
<1>1. /\ call[k] \in CallStates /\ CallFits(call[k]) /\ Len(rows) \in Nat
      /\ rows \in Seq(TransactionRows) /\ CallTraced(call[k])
  BY CallFacts DEF TraceInv
<1>2. CASE CheckFailed(k)
  <2>1. CASE Return(k)
    BY <1>2, <2>1, ReadsOn DEF CheckFailed
  <2>2. CASE Become(k, [call[k] EXCEPT !.at = "resetting", !.method = rows[call[k].tx].method,
                                       !.ref = rows[call[k].tx].ref])
    <3>1. PICK s : /\ Become(k, s) /\ s.at = "resetting" /\ s.tx = call[k].tx
                   /\ s.ref = rows[call[k].tx].ref
      <4> DEFINE p == [call[k] EXCEPT !.at = "resetting", !.method = rows[call[k].tx].method,
                                      !.ref = rows[call[k].tx].ref]
      <4>1. p.at = "resetting" /\ p.tx = call[k].tx /\ p.ref = rows[call[k].tx].ref
        BY <1>1 DEF CallStates
      <4>2. Become(k, p)
        BY <2>2
      <4> HIDE DEF p
      <4> QED
        BY <4>1, <4>2
    <3>2. call[k].tx \in 1..Len(rows)
      BY <1>1, <1>2 DEF CheckFailed, At, CallFits, RowOfCallFits
    <3>3. s.ref # 0 => PlacedFor(s.ref, s.tx)
      BY <3>1, <3>2 DEF TraceInv, RowsTraced, RowTraced
    <3>4. CallTraced(s)
      BY <3>1, <3>3 DEF CallTraced, HoldsReference, Accepted, Naming
    <3> QED
      BY <1>2, <3>1, <3>4, ReadsTraced DEF CheckFailed
  <2> QED
    BY <1>2, <2>1, <2>2 DEF CheckFailed
<1>3. CASE ResetRow(k)
  <2> DEFINE r == [rows[call[k].tx] EXCEPT !.status = "PENDING"]
  <2>1. PICK t \in 1..Len(rows) : t = call[k].tx /\ rows[t] \in TransactionRows
    BY <1>1, <1>3 DEF ResetRow, At, CallFits, RowOfCallFits
  <2>2. WriteRow(t, r) /\ UNCHANGED orders /\ Goto(k, "recreating")
    BY <1>3, <2>1 DEF ResetRow
  <2>3. /\ r \in TransactionRows
        /\ r.by = rows[t].by /\ r.method = rows[t].method /\ r.coll = rows[t].coll
        /\ r.origin = rows[t].origin /\ r.type = rows[t].type
        /\ r.status = "PENDING" /\ r.completed = rows[t].completed /\ r.ref = rows[t].ref
    BY <2>1 DEF TransactionRows, Statuses
  <2> HIDE DEF r
  <2>4. /\ Mute(t) => ~ Settled(r)
        /\ r.ref # 0 => PlacedFor(r.ref, t)
        /\ r.by = "retry" /\ Settled(r) => Collected(t)
    BY <2>3 DEF TraceInv, RowsTraced, RowTraced, Settled
  <2>5. RowsStay /\ OrdersGrow /\ RowsTraced' /\ OrdersTraced'
    BY <2>2, <2>3, <2>4, WriteTraced
  <2>6. PICK s : /\ Become(k, s) /\ s.at = "recreating" /\ s.tx = t /\ s.ref = call[k].ref
    <3> DEFINE p == [call[k] EXCEPT !.at = "recreating"]
    <3>1. p.at = "recreating" /\ p.tx = t /\ p.ref = call[k].ref
      BY <1>1, <2>1 DEF CallStates
    <3>2. Become(k, p)
      BY <2>2 DEF Goto
    <3> HIDE DEF p
    <3> QED
      BY <3>1, <3>2
  <2>7. CallTraced(s)
    BY <1>1, <1>3, <2>1, <2>6 DEF ResetRow, At, CallTraced, HoldsReference, Accepted, Naming
  <2>8. CallTraced(s)'
    BY <2>5, <2>6, <2>7, CallStays
  <2> QED
    BY <2>5, <2>6, <2>8, StepTraced
<1>4. CASE CreatePayment(k)
  <2> DEFINE r == [by |-> "retry", origin |-> rows[call[k].tx].origin,
                   type |-> rows[call[k].tx].type, method |-> call[k].method, status |-> "PENDING",
                   ref |-> call[k].ref, coll |-> Nil, completed |-> FALSE]
             stage == IF IsProviderAvailable(call[k].method) THEN "collecting" ELSE "completing"
             s == [call[k] EXCEPT !.tx = Len(rows) + 1, !.ok = FALSE, !.at = stage]
  <2>1. PICK t \in 1..Len(rows) : t = call[k].tx /\ rows[t] \in TransactionRows
    BY <1>1, <1>4 DEF CreatePayment, At, CallFits, RowOfCallFits
  <2>2. /\ r \in TransactionRows /\ r.by = "retry" /\ r.origin = rows[t].origin
        /\ r.ref = call[k].ref /\ ~ Settled(r)
    BY <1>1, <2>1 DEF CallStates, TransactionRows, Statuses, Settled
  <2>3. Plain(s)
    BY <1>1 DEF CallStates, Plain, HoldsReference, Accepted, Naming
  <2>4. rows' = Append(rows, r) /\ UNCHANGED orders /\ Become(k, s)
    BY <1>4 DEF CreatePayment
  <2> HIDE DEF r, s
  <2>5. r.origin \in 1..(Len(rows) + 1)
    BY <1>1, <2>2 DEF TraceInv, RowsTraced, RowTraced
  <2>6. r.ref # 0 => r.ref \in 1..Len(orders) /\ rows[orders[r.ref].tx].origin = r.origin
    BY <1>1, <1>4, <2>1, <2>2 DEF CreatePayment, At, CallTraced, HoldsReference, PlacedFor
  <2>7. RowsStay /\ OrdersGrow /\ RowsTraced' /\ OrdersTraced'
    BY <2>2, <2>4, <2>5, <2>6, AppendTraced
  <2> QED
    BY <2>3, <2>4, <2>7, PlainTraced, StepTraced
<1>5. CASE Collect(k)
  <2> DEFINE order == ProviderPayment(call[k].method, call[k].tx)
  <2>1. call[k].method \in Methods /\ call[k].tx \in Nat /\ call[k].tx \in 1..Len(rows)
    BY <1>1, <1>5 DEF Collect, At, CallStates, CallFits, RowOfCallFits
  <2>2. order \in Orders /\ order.tx = call[k].tx /\ order.kind = "collect"
    BY <2>1, PaymentOrder
  <2>3. Ask(k, order, "referencing", "completing") /\ UNCHANGED rows
    BY <1>5 DEF Collect
  <2> HIDE DEF order
  <2> QED
    BY <2>1, <2>2, <2>3, AskTraced
<1>6. CASE WriteReference(k)
  <2> DEFINE r == [rows[call[k].tx] EXCEPT !.ref = call[k].ref]
  <2>1. PICK t \in 1..Len(rows) :
          t = call[k].tx /\ rows[t] \in TransactionRows /\ rows[t].by = "retry"
    BY <1>1, <1>6 DEF WriteReference, At, CallFits, RowOfCallFits
  <2>2. WriteRow(t, r) /\ UNCHANGED orders /\ Goto(k, "completing")
    BY <1>6, <2>1 DEF WriteReference
  <2>3. /\ r \in TransactionRows
        /\ r.by = rows[t].by /\ r.method = rows[t].method /\ r.coll = rows[t].coll
        /\ r.origin = rows[t].origin /\ r.type = rows[t].type /\ r.ref = call[k].ref
    BY <1>1, <2>1 DEF TransactionRows, CallStates
  <2> HIDE DEF r
  <2>4. Collected(t) /\ (call[k].ref # 0 => PlacedFor(call[k].ref, t))
    BY <1>1, <1>6, <2>1 DEF WriteReference, At, CallTraced, HoldsReference, Accepted
  <2>5. ~ Mute(t)
    BY <2>1 DEF Mute
  <2>6. RowsStay /\ OrdersGrow /\ RowsTraced' /\ OrdersTraced'
    BY <2>2, <2>3, <2>4, <2>5, WriteTraced
  <2>7. PICK s : Become(k, s) /\ s.at = "completing" /\ s.tx = t
    <3> DEFINE p == [call[k] EXCEPT !.at = "completing"]
    <3>1. p.at = "completing" /\ p.tx = t
      BY <1>1, <2>1 DEF CallStates
    <3>2. Become(k, p)
      BY <2>2 DEF Goto
    <3> HIDE DEF p
    <3> QED
      BY <3>1, <3>2
  <2>8. CallTraced(s)
    BY <2>4, <2>7 DEF CallTraced, HoldsReference, Accepted, Naming
  <2>9. CallTraced(s)'
    BY <2>6, <2>7, <2>8, CallStays
  <2> QED
    BY <2>6, <2>7, <2>9, StepTraced
<1>7. CASE WriteOutcome(k)
  <2> DEFINE status == IF call[k].ok THEN "COMPLETED" ELSE "FAILED"
             r == [rows[call[k].tx] EXCEPT !.status = status, !.completed = call[k].ok]
  <2>1. PICK t \in 1..Len(rows) :
          t = call[k].tx /\ rows[t] \in TransactionRows /\ rows[t].by = "retry"
    BY <1>1, <1>7 DEF WriteOutcome, At, CallFits, RowOfCallFits
  <2>2. WriteRow(t, r) /\ UNCHANGED orders /\ (Succeed(k) \/ Return(k))
    BY <1>7, <2>1 DEF WriteOutcome
  <2>3. call[k].ok \in BOOLEAN /\ status \in Statuses
    BY <1>1 DEF CallStates, Statuses
  <2>4. ~ call[k].ok => status = "FAILED"
    OBVIOUS
  <2> HIDE DEF status
  <2>5. /\ r \in TransactionRows
        /\ r.by = rows[t].by /\ r.method = rows[t].method /\ r.coll = rows[t].coll
        /\ r.origin = rows[t].origin /\ r.type = rows[t].type /\ r.ref = rows[t].ref
        /\ r.status = status /\ r.completed = call[k].ok
    BY <2>1, <2>3, OutcomeType DEF TransactionRows
  <2> HIDE DEF r
  <2>6. Settled(r) => Collected(t)
    <3>1. Settled(r) => call[k].ok
      BY <2>4, <2>5 DEF Settled
    <3> QED
      BY <1>1, <1>7, <2>1, <3>1 DEF WriteOutcome, At, CallTraced, Accepted
  <2>7. ~ Mute(t) /\ (r.ref # 0 => PlacedFor(r.ref, t))
    BY <2>1, <2>5 DEF Mute, TraceInv, RowsTraced, RowTraced
  <2>8. RowsStay /\ OrdersGrow /\ RowsTraced' /\ OrdersTraced'
    BY <2>2, <2>5, <2>6, <2>7, WriteTraced
  <2> QED
    BY <2>2, <2>8, WritesOn
<1> QED
  BY <1>2, <1>3, <1>4, <1>5, <1>6, <1>7 DEF Retrying

\* A callback finds a row that its order names, or by its reference a row of the chain the
\* order was placed for; a withdrawal by M-Pesa has no reference.
LEMMA CallingBackTraced ==
  ASSUME IInv, IInv', TraceInv, NEW k \in Calls, CallingBack(k)
  PROVE  TraceInv'
<1>1. /\ call[k] \in CallStates /\ CallFits(call[k]) /\ Len(rows) \in Nat
      /\ rows \in Seq(TransactionRows) /\ CallTraced(call[k])
      /\ orders \in Seq(Orders) /\ Len(orders) \in Nat
  BY CallFacts DEF TraceInv
<1>2. CASE MatchReference(k)
  <2>1. CASE Return(k)
    BY <1>2, <2>1, ReadsOn DEF MatchReference
  <2>2. ASSUME NEW t \in Matching(call[k].order),
               Become(k, [call[k] EXCEPT !.at = "finding", !.tx = t])
        PROVE  TraceInv'
    <3>1. PICK s : Become(k, s) /\ s.at = "finding" /\ s.tx = t /\ s.order = call[k].order
      <4> DEFINE p == [call[k] EXCEPT !.at = "finding", !.tx = t]
      <4>1. p.at = "finding" /\ p.tx = t /\ p.order = call[k].order
        BY <1>1 DEF CallStates
      <4>2. Become(k, p)
        BY <2>2
      <4> HIDE DEF p
      <4> QED
        BY <4>1, <4>2
    <3>2. s.order \in 1..Len(orders)
      BY <1>1, <1>2, <3>1 DEF MatchReference, At, CallFits, OrderOfCallFits, CallbackStages
    <3>3. /\ t \in 1..Len(rows) /\ rows[t].method = "MPESA" /\ rows[t].ref = s.order
          /\ orders[s.order].key = "reference"
      BY <2>2, <3>1 DEF Matching
    <3>4. ~ Mute(t)
      BY <1>1, <3>2, <3>3 DEF IInv, RowsFit, RowFits, Mute
    <3>5. PlacedFor(s.order, t) /\ orders[s.order].kind = "collect"
      BY <1>1, <3>2, <3>3 DEF TraceInv, RowsTraced, RowTraced, OrdersTraced, OrderTraced
    <3>6. CallTraced(s)
      BY <3>1, <3>4, <3>5 DEF CallTraced, HoldsReference, Accepted, Naming
    <3> QED
      BY <1>2, <3>1, <3>6, ReadsTraced DEF MatchReference
  <2> QED
    BY <1>2, <2>1, <2>2 DEF MatchReference
<1>3. CASE FindTransaction(k)
  <2>1. CASE Return(k)
    BY <1>3, <2>1, ReadsOn DEF FindTransaction
  <2>2. CASE /\ call[k].tx # 0
             /\ Become(k, [call[k] EXCEPT !.at = "settling", !.ref = rows[call[k].tx].ref])
    <3>1. PICK s : /\ Become(k, s) /\ s.at = "settling" /\ s.tx = call[k].tx
                   /\ s.order = call[k].order /\ s.ref = rows[s.tx].ref
      <4> DEFINE p == [call[k] EXCEPT !.at = "settling", !.ref = rows[call[k].tx].ref]
      <4>1. /\ p.at = "settling" /\ p.tx = call[k].tx /\ p.order = call[k].order
            /\ p.ref = rows[p.tx].ref
        BY <1>1 DEF CallStates
      <4>2. Become(k, p)
        BY <2>2
      <4> HIDE DEF p
      <4> QED
        BY <4>1, <4>2
    <3>2. s.tx # 0 /\ s.tx \in 1..Len(rows) /\ Naming(call[k])
      BY <1>1, <1>3, <2>2, <3>1 DEF FindTransaction, At, CallFits, OrderOfCallFits, Naming
    <3>3. s.ref # 0 => PlacedFor(s.ref, s.tx)
      BY <3>1, <3>2 DEF TraceInv, RowsTraced, RowTraced
    <3>4. CallTraced(s)
      BY <1>1, <3>1, <3>2, <3>3 DEF CallTraced, HoldsReference, Accepted, Naming
    <3> QED
      BY <1>3, <3>1, <3>4, ReadsTraced DEF FindTransaction
  <2> QED
    BY <1>3, <2>1, <2>2 DEF FindTransaction
<1>4. CASE WriteSettled(k)
  <2> DEFINE status == IF call[k].ok THEN "COMPLETED" ELSE "FAILED"
             r == [rows[call[k].tx] EXCEPT !.status = status, !.completed = call[k].ok,
                                           !.ref = call[k].ref]
  <2>1. PICK t \in 1..Len(rows) :
          t = call[k].tx /\ rows[t] \in TransactionRows /\ Naming(call[k])
    BY <1>1, <1>4 DEF WriteSettled, At, CallFits, OrderOfCallFits, Naming
  <2>2. WriteRow(t, r) /\ UNCHANGED orders /\ Return(k)
    BY <1>4, <2>1 DEF WriteSettled
  <2>3. call[k].ok \in BOOLEAN /\ call[k].ref \in Nat /\ status \in Statuses
    BY <1>1 DEF CallStates, Statuses
  <2>4. ~ call[k].ok => status = "FAILED"
    OBVIOUS
  <2> HIDE DEF status
  <2>5. /\ r \in TransactionRows
        /\ r.by = rows[t].by /\ r.method = rows[t].method /\ r.coll = rows[t].coll
        /\ r.origin = rows[t].origin /\ r.type = rows[t].type /\ r.ref = call[k].ref
        /\ r.status = status /\ r.completed = call[k].ok
    BY <2>1, <2>3, SettledType DEF TransactionRows
  <2> HIDE DEF r
  <2>6. ~ Mute(t) /\ (r.ref # 0 => PlacedFor(r.ref, t))
    BY <1>1, <1>4, <2>1, <2>5 DEF WriteSettled, At, CallTraced, HoldsReference
  <2>7. r.by = "retry" => Collected(t)
    <3> SUFFICES ASSUME r.by = "retry" PROVE Collected(t)
      OBVIOUS
    <3>1. PICK o \in 1..Len(orders) : o = call[k].order /\ PlacedFor(o, t)
      BY <1>1, <2>1 DEF CallTraced, PlacedFor
    <3>2. orders[o].kind = "collect"
      <4>0. orders[o] \in Orders
        BY <1>1
      <4>1. orders[o].kind \in {"collect", "disburse"}
        BY <4>0 DEF Orders
      <4>2. CASE orders[o].tx = t
        BY <2>5, <4>1, <4>2 DEF IInv, OrdersFit, OrderFits
      <4>3. CASE orders[o].tx # t
        BY <1>1, <2>1, <3>1, <4>3 DEF CallTraced
      <4> QED
        BY <4>2, <4>3
    <3> QED
      BY <3>1, <3>2 DEF PlacedFor, Collected
  <2>8. RowsStay /\ OrdersGrow /\ RowsTraced' /\ OrdersTraced'
    BY <2>2, <2>5, <2>6, <2>7, WriteTraced
  <2> QED
    BY <2>2, <2>8, WritesOn
<1> QED
  BY <1>2, <1>3, <1>4 DEF CallingBack

\* A failure of the database leaves a request with nothing to lean on.
LEMMA DatabaseFailsTraced ==
  ASSUME IInv, IInv', TraceInv, NEW k \in Calls, DatabaseFails(k)
  PROVE  TraceInv'
<1> DEFINE s == [call[k] EXCEPT !.at = "completing", !.ok = FALSE]
<1>1. /\ UNCHANGED <<orders, rows>>
      /\ Return(k) \/ Goto(k, "refusing") \/ Become(k, s)
  BY DEF DatabaseFails
<1>2. Plain(s)
  BY CallFacts DEF CallStates, Plain, HoldsReference, Accepted, Naming
<1> HIDE DEF s
<1> QED
  BY <1>1, <1>2, ReadsOn, PlainTraced, ReadsTraced DEF Stages, PlainStages

\* A provider is done with an order.
LEMMA ProvidersTraced ==
  ASSUME IInv, IInv', TraceInv, Providers
  PROVE  TraceInv'
<1>1. PICK o \in 1..Len(orders), outcome \in {"success", "failed"} :
        /\ orders' = [orders EXCEPT ![o].state = outcome]
        /\ orders[o].state = "pending"
  BY DEF Providers, Settle
<1>2. orders \in Seq(Orders) /\ orders[o] \in Orders
  BY LenProperties DEF IInv, TypeOK, ProviderTypeOK
<1> DEFINE q == [orders[o] EXCEPT !.state = outcome]
<1>3. /\ q \in Orders /\ q.tx = orders[o].tx /\ q.key = orders[o].key
      /\ q.kind = orders[o].kind /\ q.method = orders[o].method
  BY <1>2 DEF Orders
<1>4. orders' = [orders EXCEPT ![o] = q]
  BY <1>1, <1>2
<1> HIDE DEF q
<1>5. RowsStay /\ OrdersGrow /\ RowsTraced' /\ OrdersTraced'
  BY <1>1, <1>3, <1>4, OrderTouched DEF Providers
<1>6. ASSUME NEW k \in Calls PROVE CallTraced(call[k])'
  <2>1. PICK s : s = call[k] /\ s = call'[k]
    BY DEF Providers
  <2>2. CallTraced(s)
    BY <2>1 DEF TraceInv
  <2>3. s.tx \in 1..Len(rows) \/ Plain(s)
    <3>1. s.at = "disbursing" => s.tx \in 1..Len(rows)
      BY <2>1, CallFacts DEF CallFits, RowOfCallFits
    <3> QED
      BY <2>1, <3>1, LeansOnRow
  <2>4. CallTraced(s)'
    BY <1>5, <2>2, <2>3, CallStays
  <2> QED
    BY <2>1, <2>4 DEF CallTraced, HoldsReference, Accepted, Naming
<1> QED
  BY <1>5, <1>6 DEF TraceInv

\* Nothing is traced in the beginning.
LEMMA InitTraced == Init => TraceInv
<1> SUFFICES ASSUME Init PROVE TraceInv
  OBVIOUS
<1>1. Len(orders) = 0 /\ Len(rows) = 0
  BY EmptySeq DEF Init, ProviderInit
<1>2. RowsTraced /\ OrdersTraced
  BY <1>1 DEF RowsTraced, OrdersTraced
<1>3. \A k \in Calls : CallTraced(call[k])
  BY DEF Init, NoCall, CallTraced, HoldsReference, Accepted, Naming
<1> QED
  BY <1>2, <1>3 DEF TraceInv

LEMMA NextTraced == IInv /\ IInv' /\ TraceInv /\ [Next]_vars => TraceInv'
<1> SUFFICES ASSUME IInv, IInv', TraceInv, [Next]_vars PROVE TraceInv'
  OBVIOUS
<1>1. CASE CrashRestart
  <2>1. UNCHANGED <<orders, rows>> /\ \A k \in Calls : call'[k] = NoCall
    BY <1>1 DEF CrashRestart
  <2>2. \A k \in Calls : CallTraced(call[k])'
    BY <2>1 DEF NoCall, CallTraced, HoldsReference, Accepted, Naming
  <2> QED
    BY <2>1, <2>2, NothingTraced DEF TraceInv
<1>2. CASE UNCHANGED vars
  BY <1>2 DEF vars, TraceInv, RowsTraced, RowTraced, OrdersTraced, OrderTraced, Mute, Collected,
              PlacedFor, CallTraced, HoldsReference, Accepted, Naming
<1> QED
  BY <1>1, <1>2, RequestTraced, PayingTraced, ReviewingTraced, WithdrawingTraced,
     RetryingTraced, CallingBackTraced, DatabaseFailsTraced, ProvidersTraced DEF Next

\* One request at a time goes on.
GoesSomewhere(k) == \E s : Become(k, s)

LEMMA EachGoesOn ==
  ASSUME NEW k \in Calls,
         Request(k) \/ Paying(k) \/ Reviewing(k) \/ Withdrawing(k) \/ Retrying(k)
           \/ Cancelling(k) \/ CallingBack(k) \/ DatabaseFails(k)
  PROVE  GoesSomewhere(k)
<1>1. \A s : Become(k, s) => GoesSomewhere(k)
  BY DEF GoesSomewhere
<1>2. ASSUME Return(k) \/ Succeed(k) PROVE GoesSomewhere(k)
  BY <1>1, <1>2 DEF Return, Succeed
<1>3. ASSUME NEW stage, Goto(k, stage) PROVE GoesSomewhere(k)
  BY <1>1, <1>3 DEF Goto
<1>4. ASSUME NEW order, NEW next, NEW otherwise, Ask(k, order, next, otherwise)
      PROVE  GoesSomewhere(k)
  BY <1>1, <1>4 DEF Ask
<1>5. CASE Request(k)
  BY <1>1, <1>5 DEF Request, Arrive, PayCollection, Review, RequestWithdrawal, RetryPayment,
                    CancelTransaction, ReceiveCallback
<1>6. CASE Paying(k)
  BY <1>1, <1>2, <1>3, <1>6 DEF Paying, CheckPayable, SendPayment, BookPayment, MarkPaid,
                                MarkUnpaid
<1>7. CASE Reviewing(k) \/ Cancelling(k)
  BY <1>2, <1>3, <1>7 DEF Reviewing, CheckUnreviewed, WriteReview, Cancelling, CheckPending,
                          WriteCancelled
<1>8. CASE Withdrawing(k)
  BY <1>1, <1>2, <1>3, <1>4, <1>8 DEF Withdrawing, CheckBalance, CreateWithdrawal, Disburse,
                                      WritePending, WriteFailed
<1>9. CASE Retrying(k)
  BY <1>1, <1>2, <1>3, <1>4, <1>9 DEF Retrying, CheckFailed, ResetRow, CreatePayment, Collect,
                                      WriteReference, WriteOutcome
<1>10. CASE CallingBack(k)
  BY <1>1, <1>2, <1>10 DEF CallingBack, MatchReference, FindTransaction, WriteSettled
<1>11. CASE DatabaseFails(k)
  BY <1>1, <1>2, <1>3, <1>11 DEF DatabaseFails
<1> QED
  BY <1>5, <1>6, <1>7, <1>8, <1>9, <1>10, <1>11

THEOREM TracesHold == Spec => [](IInv /\ TraceInv)
BY InitTraced, NextTraced, PaymentsInvariant, PTL DEF Spec

\* What the statistics report as withdrawn was paid out, unless it is the row of a retry, and
\* then a provider accepted to collect it: no callback that is late, delivered twice or about
\* another row, no cancellation and no failure completes a withdrawal that was not paid
\* (processWithdrawal, retryPayment, processMobileMoneyCallback).
THEOREM ReportedIsAlwaysPaidOut == Spec => []ReportedIsPaidOut
<1>1. IInv /\ TraceInv => ReportedIsPaidOut
  <2> SUFFICES ASSUME IInv, TraceInv, NEW t \in 1..Len(rows), rows[t].status = "COMPLETED",
                      rows[t].type = "WITHDRAWAL"
               PROVE  PaidOut(t) \/ (rows[t].by = "retry" /\ Collected(t))
    BY DEF ReportedIsPaidOut, Statistics, CompletedRows, Types
  <2>1. rows[t] \in TransactionRows
    BY LenProperties DEF IInv, TypeOK
  <2>2. rows[t].by \in {"withdraw", "retry"}
    BY <2>1 DEF TransactionRows, TraceInv, RowsTraced, RowTraced
  <2>3. rows[t].by = "withdraw" => PaidOut(t)
    BY DEF IInv, RowsFit, RowFits
  <2>4. rows[t].by = "retry" => Collected(t)
    BY DEF TraceInv, RowsTraced, RowTraced, Settled
  <2> QED
    BY <2>2, <2>3, <2>4
<1> QED
  BY <1>1, TracesHold, PTL

\* A withdrawal completes only if Airtel pays it out, or if it is retried and a provider
\* accepts to collect it: accepted orders of M-Pesa and MTN, and withdrawals of a provider that
\* is not configured, are never COMPLETED otherwise, whatever is cancelled, delivered twice,
\* lost or restarted (processWithdrawal, retryPayment, processMobileMoneyCallback).
THEOREM OnlyAirtelWithdrawalsComplete ==
  Spec => [](\A t \in 1..Len(rows) :
               rows[t].type = "WITHDRAWAL" /\ (rows[t].status = "COMPLETED" \/ rows[t].completed)
                 => \/ rows[t].method = "AIRTEL_MONEY" /\ "AIRTEL_MONEY" \in Configured
                    \/ rows[t].by = "retry" /\ Collected(t))
<1>1. IInv /\ TraceInv =>
        \A t \in 1..Len(rows) :
          rows[t].type = "WITHDRAWAL" /\ (rows[t].status = "COMPLETED" \/ rows[t].completed)
            => \/ rows[t].method = "AIRTEL_MONEY" /\ "AIRTEL_MONEY" \in Configured
               \/ rows[t].by = "retry" /\ Collected(t)
  <2> SUFFICES ASSUME IInv, TraceInv, NEW t \in 1..Len(rows), rows[t].type = "WITHDRAWAL",
                      Settled(rows[t])
               PROVE  \/ rows[t].method = "AIRTEL_MONEY" /\ "AIRTEL_MONEY" \in Configured
                      \/ rows[t].by = "retry" /\ Collected(t)
    BY DEF Settled
  <2>1. rows[t] \in TransactionRows
    BY LenProperties DEF IInv, TypeOK
  <2>2. rows[t].by \in {"withdraw", "retry"}
    BY <2>1 DEF TransactionRows, TraceInv, RowsTraced, RowTraced
  <2>3. ~ Mute(t) /\ (rows[t].by = "retry" => Collected(t))
    BY DEF TraceInv, RowsTraced, RowTraced
  <2> QED
    BY <2>2, <2>3 DEF Mute
<1> QED
  BY <1>1, TracesHold, PTL

\* The step with which a callback leaves "settling" writes one row or none: the row it found.
LEMMA SettlesItsRow ==
  ASSUME IInv, TraceInv, [Next]_vars, NEW k \in Calls, Settling(k),
         NEW t \in 1..Len(rows), rows'[t] # rows[t]
  PROVE  t = call[k].tx
<1>1. ASSUME NEW j \in Calls,
             Request(j) \/ Paying(j) \/ Reviewing(j) \/ Withdrawing(j) \/ Retrying(j)
               \/ Cancelling(j) \/ CallingBack(j) \/ DatabaseFails(j)
      PROVE  j = k
  <2>1. PICK s : Become(j, s)
    BY <1>1, EachGoesOn DEF GoesSomewhere
  <2> QED
    BY <2>1 DEF Become, At, Settling, IInv, TypeOK
<1>2. CASE WriteSettled(k)
  <2>1. PICK r : rows' = [rows EXCEPT ![call[k].tx] = r]
    BY <1>2 DEF WriteSettled, WriteRow
  <2> QED
    BY <2>1 DEF IInv, TypeOK
<1>3. CASE DatabaseFails(k) \/ CrashRestart \/ Providers \/ UNCHANGED vars
  BY <1>3 DEF DatabaseFails, CrashRestart, Providers, vars
<1>4. ASSUME Request(k) \/ Paying(k) \/ Reviewing(k) \/ Withdrawing(k) \/ Retrying(k)
               \/ Cancelling(k) \/ MatchReference(k) \/ FindTransaction(k)
      PROVE  FALSE
  BY <1>4
     DEF At, Settling, Request, Arrive, PayCollection, Review, RequestWithdrawal, RetryPayment,
         CancelTransaction, ReceiveCallback, Paying, CheckPayable, SendPayment, BookPayment,
         MarkPaid, MarkUnpaid, Reviewing, CheckUnreviewed, WriteReview, Cancelling,
         CheckPending, WriteCancelled, Withdrawing, CheckBalance, CreateWithdrawal, Disburse,
         WritePending, WriteFailed, Retrying, CheckFailed, ResetRow, CreatePayment, Collect,
         WriteReference, WriteOutcome, MatchReference, FindTransaction
<1> QED
  BY <1>1, <1>2, <1>3, <1>4 DEF Next, CallingBack

\* However often the providers call back, a callback settles the row its order was placed for
\* or a later retry of that row, never a row of another payment, whatever was retried,
\* cancelled or settled since and whatever copies of its reference retryPayment has made.
THEOREM CallbacksSettleTheirRows == Spec => CallbackSettlesItsRow
<1>1. IInv /\ TraceInv /\ [Next]_vars
        => [\A k \in Calls : Settling(k) =>
              \A t \in 1..Len(rows) : rows'[t] # rows[t] =>
                LET own == orders[call[k].order].tx
                IN  t = own \/ (t > own /\ rows[t].by = "retry" /\ rows[t].origin = rows[own].origin)]_vars
  <2> SUFFICES ASSUME IInv, TraceInv, [Next]_vars, NEW k \in Calls, Settling(k),
                      NEW t \in 1..Len(rows), rows'[t] # rows[t]
               PROVE  \/ t = orders[call[k].order].tx
                      \/ /\ t > orders[call[k].order].tx /\ rows[t].by = "retry"
                         /\ rows[t].origin = rows[orders[call[k].order].tx].origin
    OBVIOUS
  <2>1. t = call[k].tx
    BY SettlesItsRow
  <2>2. PlacedFor(call[k].order, t)
    <3>1. Naming(call[k])
      BY <2>1 DEF Settling, At, Naming
    <3> QED
      BY <2>1, <3>1 DEF TraceInv, CallTraced
  <2>3. PICK o \in 1..Len(orders) : o = call[k].order
    BY <2>2 DEF PlacedFor
  <2>4. orders[o].tx \in 1..Len(rows) /\ Len(rows) \in Nat
    BY LenProperties DEF IInv, TypeOK, OrdersFit, OrderFits
  <2>5. /\ orders[o].tx <= t /\ rows[orders[o].tx].origin = rows[t].origin
    BY <2>2, <2>3 DEF PlacedFor
  <2>6. /\ rows[orders[o].tx].origin \in 1..orders[o].tx
        /\ rows[t].by # "retry" => rows[t].origin = t
    BY <2>4 DEF TraceInv, RowsTraced, RowTraced
  <2> QED
    BY <2>3, <2>4, <2>5, <2>6
<1> QED
  BY <1>1, TracesHold, PTL DEF Spec, CallbackSettlesItsRow
=============================================================================
