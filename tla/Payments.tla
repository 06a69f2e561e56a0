------------------------------ MODULE Payments ------------------------------
(***************************************************************************)
(* Payments and transactions: src/src/services/payment.service.ts, the     *)
(* transfer of stellar.service.ts it pays collections with, and the        *)
(* handlers of controllers/payment.controller.ts that start and answer     *)
(* each request.  Reviews of the collections (waste-collection.service.ts) *)
(* run beside them.                                                        *)
(*                                                                         *)
(* A "call" is one request being served.  As everywhere in the server, an  *)
(* action is what happens between two awaits, and nothing spans two of     *)
(* them: a row is read, something is awaited, the row is written.          *)
(***************************************************************************)
EXTENDS MobileMoney, Service, FiniteSets

CONSTANTS
  Collections,    \* collections waiting for review and payment
  MemoLimit       \* bytes of a text memo on Stellar: 28

ASSUME PaymentAssumption == Nil \notin Collections /\ MemoLimit \in Nat

VARIABLES
  collection,     \* the WasteCollection rows: what is written about payment
  rows,           \* the Transaction rows, in order of creation
  sent,           \* collection -> payments the platform account made for it
  call            \* the requests being served, and their last answers

vars == <<orders, collection, rows, sent, call, budgetVars>>

Statuses == {"PENDING", "PROCESSING", "COMPLETED", "FAILED", "CANCELLED"}

CollectionRows ==
  [verified : BOOLEAN, paymentStatus : {"PENDING", "COMPLETED", "FAILED", "CANCELLED"},
   transactionId : Nat]

\* The transaction types that are ever created: processPayment takes any type, but is
\* called by retryPayment only.
Types == {"WASTE_COLLECTION", "WITHDRAWAL"}

\* ref is metadata.providerReferenceId; completed is whether completedAt is set.  Two
\* fields are history, which the code does not keep: `by` is the operation that created
\* the row, and origin the row whose retries, and retries of retries, led to it.
TransactionRows ==
  [by : {"pay", "withdraw", "retry"}, origin : Nat, type : Types,
   method : Methods \cup {"STELLAR"}, status : Statuses,
   ref : Nat, coll : Collections \cup {Nil}, completed : BOOLEAN]

Stages ==
  {"idle", "paying", "sending", "booking", "marking", "refusing",
   "reviewing", "reviewed", "checking", "creating", "disbursing", "submitted", "failing",
   "retrying", "resetting", "recreating", "collecting", "referencing", "completing",
   "cancelling", "cancelled", "matching", "finding", "settling"}

CallStates ==
  [op : {"none", "pay", "approve", "reject", "withdraw", "retry", "cancel", "callback"},
   at : Stages, coll : Collections \cup {Nil}, tx : Nat, method : Methods,
   order : Nat, ok : BOOLEAN, ref : Nat, told : BOOLEAN]

NoCall == [op |-> "none", at |-> "idle", coll |-> Nil, tx |-> 0, method |-> "MPESA",
           order |-> 0, ok |-> FALSE, ref |-> 0, told |-> FALSE]

TypeOK ==
  /\ ProviderTypeOK
  /\ collection \in [Collections -> CollectionRows]
  /\ rows \in Seq(TransactionRows)
  /\ sent \in [Collections -> Nat]
  /\ call \in [Calls -> CallStates]
  /\ BudgetOK

Init ==
  /\ ProviderInit
  /\ collection = [c \in Collections |->
                     [verified |-> FALSE, paymentStatus |-> "PENDING", transactionId |-> 0]]
  /\ rows = <<>>
  /\ sent = [c \in Collections |-> 0]
  /\ call = [k \in Calls |-> NoCall]
  /\ BudgetInit

-----------------------------------------------------------------------------
(* How a call goes on.                                                     *)

At(k, stage) == call[k].at = stage

Become(k, state) == call' = [call EXCEPT ![k] = state]

Goto(k, stage) == Become(k, [call[k] EXCEPT !.at = stage])

\* The end of a call.  Only a success leaves something the caller can name.
Succeed(k) ==
  Become(k, [NoCall EXCEPT !.op = call[k].op, !.coll = call[k].coll, !.tx = call[k].tx,
                           !.told = TRUE])

Return(k) == Become(k, NoCall)

\* A request arrives for a free slot.
Arrive(k, state) ==
  /\ At(k, "idle") /\ Arriving
  /\ Become(k, state)
  /\ UNCHANGED <<orders, collection, rows, sent>>

WriteRow(t, r) == rows' = [rows EXCEPT ![t] = r]

-----------------------------------------------------------------------------
(* processCollectionPayment                                                *)

PayCollection(k, c) ==
  Arrive(k, [NoCall EXCEPT !.op = "pay", !.at = "paying", !.coll = c])

\* findUnique, and the reasons to refuse.
CheckPayable(k) ==
  LET r == collection[call[k].coll]
  IN  /\ At(k, "paying")
      /\ IF r.paymentStatus = "COMPLETED" \/ ~ r.verified
         THEN Return(k)
         ELSE Goto(k, "sending")
      /\ Working /\ UNCHANGED <<orders, collection, rows, sent>>

\* "Waste Collection: " and the first 20 characters of the collection's id, a uuid.
MemoBytes == 18 + 20

MemoFits == MemoBytes <= MemoLimit

\* sendPayment: load the account, build, sign, submit.  Memo.text throws when the
\* memo is too long.  Horizon may refuse; its answer may be lost, whether or not
\* the payment was made.
SendPayment(k) ==
  LET c == call[k].coll
      pay == sent' = [sent EXCEPT ![c] = @ + 1]
  IN  /\ At(k, "sending")
      /\ \/ MemoFits /\ pay /\ Goto(k, "booking") /\ Working
         \/ ~ MemoFits /\ Goto(k, "refusing") /\ Working /\ UNCHANGED sent
         \/ MemoFits /\ Failing /\ Goto(k, "refusing") /\ UNCHANGED sent
         \/ MemoFits /\ Failing /\ Goto(k, "refusing") /\ pay
      /\ UNCHANGED <<orders, collection, rows>>

\* Mutant of BookPayment: a second payment of a collection is taken for the first.
BookPaymentOnce(k) ==
  LET booked == {t \in 1..Len(rows) : rows[t].by = "pay" /\ rows[t].coll = call[k].coll}
      paid == [by |-> "pay", origin |-> Len(rows) + 1, type |-> "WASTE_COLLECTION",
               method |-> "STELLAR", status |-> "COMPLETED", ref |-> 0,
               coll |-> call[k].coll, completed |-> TRUE]
  IN  /\ At(k, "booking")
      /\ rows' = IF booked = {} THEN Append(rows, paid) ELSE rows
      /\ Become(k, [call[k] EXCEPT !.at = "marking", !.tx = Len(rows')])
      /\ Working /\ UNCHANGED <<orders, collection, sent>>

\* Mutant of BookPayment: the row is created PENDING.
BookPaymentPending(k) ==
  /\ At(k, "booking")
  /\ rows' = Append(rows, [by |-> "pay", origin |-> Len(rows) + 1,
                           type |-> "WASTE_COLLECTION", method |-> "STELLAR",
                           status |-> "PENDING", ref |-> 0, coll |-> call[k].coll, completed |-> FALSE])
  /\ Become(k, [call[k] EXCEPT !.at = "marking", !.tx = Len(rows) + 1])
  /\ Working /\ UNCHANGED <<orders, collection, sent>>

BookPayment(k) ==
  /\ At(k, "booking")
  /\ rows' = Append(rows, [by |-> "pay", origin |-> Len(rows) + 1,
                           type |-> "WASTE_COLLECTION", method |-> "STELLAR",
                           status |-> "COMPLETED", ref |-> 0, coll |-> call[k].coll, completed |-> TRUE])
  /\ Become(k, [call[k] EXCEPT !.at = "marking", !.tx = Len(rows) + 1])
  /\ Working /\ UNCHANGED <<orders, collection, sent>>

MarkPaid(k) ==
  /\ At(k, "marking")
  /\ collection' = [collection EXCEPT ![call[k].coll].paymentStatus = "COMPLETED",
                                      ![call[k].coll].transactionId = call[k].tx]
  /\ Succeed(k)
  /\ Working /\ UNCHANGED <<orders, rows, sent>>

\* Mutant of MarkUnpaid: a status of the rows, not of collections.
MarkUnpaidAsProcessing(k) ==
  /\ At(k, "refusing")
  /\ collection' = [collection EXCEPT ![call[k].coll].paymentStatus = "PROCESSING"]
  /\ Return(k)
  /\ Working /\ UNCHANGED <<orders, rows, sent>>

MarkUnpaid(k) ==
  /\ At(k, "refusing")
  /\ collection' = [collection EXCEPT ![call[k].coll].paymentStatus = "FAILED"]
  /\ Return(k)
  /\ Working /\ UNCHANGED <<orders, rows, sent>>

-----------------------------------------------------------------------------
(* verifyCollection, as far as payment is concerned                        *)

Review(k, c, op) ==
  Arrive(k, [NoCall EXCEPT !.op = op, !.at = "reviewing", !.coll = c])

CheckUnreviewed(k) ==
  /\ At(k, "reviewing")
  /\ IF collection[call[k].coll].verified THEN Return(k) ELSE Goto(k, "reviewed")
  /\ Working /\ UNCHANGED <<orders, collection, rows, sent>>

\* verifiedAt is set by a rejection too.
WriteReview(k) ==
  LET c == call[k].coll
  IN  /\ At(k, "reviewed")
      /\ collection' = [collection EXCEPT ![c].verified = TRUE,
                          ![c].paymentStatus = IF call[k].op = "reject" THEN "CANCELLED" ELSE @]
      /\ Succeed(k)
      /\ Working /\ UNCHANGED <<orders, rows, sent>>

-----------------------------------------------------------------------------
(* processWithdrawal                                                       *)

RequestWithdrawal(k, m) ==
  Arrive(k, [NoCall EXCEPT !.op = "withdraw", !.at = "checking", !.method = m])

\* The wallet and its balance are read, nothing is reserved.
CheckBalance(k) ==
  /\ At(k, "checking")
  /\ Goto(k, "creating") \/ Return(k)
  /\ Working /\ UNCHANGED <<orders, collection, rows, sent>>

CreateWithdrawal(k) ==
  /\ At(k, "creating")
  /\ rows' = Append(rows, [by |-> "withdraw", origin |-> Len(rows) + 1,
                           type |-> "WITHDRAWAL", method |-> call[k].method,
                           status |-> "PROCESSING", ref |-> 0, coll |-> Nil,
                           completed |-> FALSE])
  /\ Become(k, [call[k] EXCEPT !.tx = Len(rows) + 1,
       !.at = IF IsProviderAvailable(call[k].method) THEN "disbursing" ELSE "failing"])
  /\ Working /\ UNCHANGED <<orders, collection, sent>>

\* A provider's answer to an order: accepted; refused; or none, and then the
\* order may have been accepted all the same.
Ask(k, order, next, otherwise) ==
  \/ /\ Accept(order) /\ Working
     /\ Become(k, [call[k] EXCEPT !.at = next, !.ok = TRUE, !.ref = ReferenceId(order)])
  \/ /\ Failing /\ (Accept(order) \/ UNCHANGED orders)
     /\ Become(k, [call[k] EXCEPT !.at = otherwise, !.ok = FALSE])

Disburse(k) ==
  /\ At(k, "disbursing")
  /\ Ask(k, ProviderWithdrawal(call[k].method, call[k].tx), "submitted", "failing")
  /\ UNCHANGED <<collection, rows, sent>>

\* Mutant of WritePending: accepting a withdrawal completes it.
WritePendingAsCompleted(k) ==
  LET t == call[k].tx
  IN  /\ At(k, "submitted")
      /\ WriteRow(t, [rows[t] EXCEPT !.status = "COMPLETED", !.ref = call[k].ref])
      /\ Succeed(k)
      /\ Working /\ UNCHANGED <<orders, collection, sent>>

\* The row becomes PENDING with the provider's reference, whatever happened to
\* it since it was created.
WritePending(k) ==
  LET t == call[k].tx
  IN  /\ At(k, "submitted")
      /\ WriteRow(t, [rows[t] EXCEPT !.status = "PENDING", !.ref = call[k].ref])
      /\ Succeed(k)
      /\ Working /\ UNCHANGED <<orders, collection, sent>>

\* Mutant of WriteFailed: the error is not thrown again.
WriteFailedButSucceed(k) ==
  LET t == call[k].tx
  IN  /\ At(k, "failing")
      /\ WriteRow(t, [rows[t] EXCEPT !.status = "FAILED"])
      /\ Succeed(k)
      /\ Working /\ UNCHANGED <<orders, collection, sent>>

WriteFailed(k) ==
  LET t == call[k].tx
  IN  /\ At(k, "failing")
      /\ WriteRow(t, [rows[t] EXCEPT !.status = "FAILED"])
      /\ Return(k)
      /\ Working /\ UNCHANGED <<orders, collection, sent>>

-----------------------------------------------------------------------------
(* retryPayment, which goes on in processPayment with a new row.  Only     *)
(* rows of mobile money ever fail: a STELLAR row is created COMPLETED.     *)

RetryPayment(k, t) ==
  Arrive(k, [NoCall EXCEPT !.op = "retry", !.at = "retrying", !.tx = t])

CheckFailed(k) ==
  /\ At(k, "retrying")
  /\ IF rows[call[k].tx].status # "FAILED" THEN Return(k)
     ELSE Become(k, [call[k] EXCEPT !.at = "resetting", !.method = rows[call[k].tx].method,
                                      !.ref = rows[call[k].tx].ref])
  /\ Working /\ UNCHANGED <<orders, collection, rows, sent>>

ResetRow(k) ==
  LET t == call[k].tx
  IN  /\ At(k, "resetting")
      /\ WriteRow(t, [rows[t] EXCEPT !.status = "PENDING"])
      /\ Goto(k, "recreating")
      /\ Working /\ UNCHANGED <<orders, collection, sent>>

\* Mutant of CreatePayment: a retry uses the row that failed.
CreatePaymentInPlace(k) ==
  /\ At(k, "recreating")
  /\ Become(k, [call[k] EXCEPT !.ok = FALSE,
       !.at = IF IsProviderAvailable(call[k].method) THEN "collecting" ELSE "completing"])
  /\ Working /\ UNCHANGED <<orders, collection, rows, sent>>

\* The new row has the type and the metadata of the one retried.
CreatePayment(k) ==
  /\ At(k, "recreating")
  /\ rows' = Append(rows, [by |-> "retry", origin |-> rows[call[k].tx].origin,
                           type |-> rows[call[k].tx].type, method |-> call[k].method,
                           status |-> "PENDING", ref |-> call[k].ref, coll |-> Nil, completed |-> FALSE])
  /\ Become(k, [call[k] EXCEPT !.tx = Len(rows) + 1, !.ok = FALSE,
       !.at = IF IsProviderAvailable(call[k].method) THEN "collecting" ELSE "completing"])
  /\ Working /\ UNCHANGED <<orders, collection, sent>>

\* processMobileMoneyPayment: the phone number is read, the provider asked.
Collect(k) ==
  /\ At(k, "collecting")
  /\ Ask(k, ProviderPayment(call[k].method, call[k].tx), "referencing", "completing")
  /\ UNCHANGED <<collection, rows, sent>>

WriteReference(k) ==
  LET t == call[k].tx
  IN  /\ At(k, "referencing")
      /\ WriteRow(t, [rows[t] EXCEPT !.ref = call[k].ref])
      /\ Goto(k, "completing")
      /\ Working /\ UNCHANGED <<orders, collection, sent>>

\* An order that was accepted counts as completed.
WriteOutcome(k) ==
  LET t == call[k].tx
  IN  /\ At(k, "completing")
      /\ WriteRow(t, [rows[t] EXCEPT !.status = IF call[k].ok THEN "COMPLETED" ELSE "FAILED",
                                     !.completed = call[k].ok])
      /\ IF call[k].ok THEN Succeed(k) ELSE Return(k)
      /\ Working /\ UNCHANGED <<orders, collection, sent>>

-----------------------------------------------------------------------------
(* cancelTransaction                                                       *)

CancelTransaction(k, t) ==
  Arrive(k, [NoCall EXCEPT !.op = "cancel", !.at = "cancelling", !.tx = t])

CheckPending(k) ==
  /\ At(k, "cancelling")
  /\ IF rows[call[k].tx].status # "PENDING" THEN Return(k) ELSE Goto(k, "cancelled")
  /\ Working /\ UNCHANGED <<orders, collection, rows, sent>>

WriteCancelled(k) ==
  LET t == call[k].tx
  IN  /\ At(k, "cancelled")
      /\ WriteRow(t, [rows[t] EXCEPT !.status = "CANCELLED"])
      /\ Succeed(k)
      /\ Working /\ UNCHANGED <<orders, collection, sent>>

-----------------------------------------------------------------------------
(* processMobileMoneyCallback.  The provider is answered 200 in any case.  *)

ReceiveCallback(k, o) ==
  /\ At(k, "idle") /\ CallBack(o)
  /\ orders[o].method = "MPESA" => orders[o].key = "reference"
  /\ Become(k, [NoCall EXCEPT !.op = "callback", !.order = o, !.ok = orders[o].state = "success",
       !.at = IF orders[o].method = "MPESA" THEN "matching" ELSE "finding",
       !.tx = IF orders[o].key = "transaction" THEN orders[o].tx ELSE 0])
  /\ Working /\ UNCHANGED <<collection, rows, sent>>

\* Mutant of Matching: the reference is not compared.
MatchingAnyPending(o) ==
  {t \in 1..Len(rows) : /\ rows[t].method = "MPESA" /\ rows[t].status = "PENDING"
                        /\ orders[o].key = "reference"}

\* The pending M-Pesa rows are searched for the one with this reference.
Matching(o) ==
  {t \in 1..Len(rows) : /\ rows[t].method = "MPESA" /\ rows[t].status = "PENDING"
                        /\ orders[o].key = "reference" /\ rows[t].ref = o}

MatchReference(k) ==
  LET found == Matching(call[k].order)
  IN  /\ At(k, "matching")
      /\ IF found = {} THEN Return(k)
         ELSE \E t \in found : Become(k, [call[k] EXCEPT !.at = "finding", !.tx = t])
      /\ Working /\ UNCHANGED <<orders, collection, rows, sent>>

\* findUnique; its metadata is written back with the outcome.
FindTransaction(k) ==
  LET t == call[k].tx
  IN  /\ At(k, "finding")
      /\ IF t = 0 THEN Return(k)
         ELSE Become(k, [call[k] EXCEPT !.at = "settling", !.ref = rows[t].ref])
      /\ Working /\ UNCHANGED <<orders, collection, rows, sent>>

WriteSettled(k) ==
  LET t == call[k].tx
  IN  /\ At(k, "settling")
      /\ WriteRow(t, [rows[t] EXCEPT !.status = IF call[k].ok THEN "COMPLETED" ELSE "FAILED",
                                     !.completed = call[k].ok, !.ref = call[k].ref])
      /\ Return(k)
      /\ Working /\ UNCHANGED <<orders, collection, sent>>

-----------------------------------------------------------------------------
(* What goes wrong.                                                        *)

\* The database fails a read or a write.  Inside the two payment helpers the
\* exception becomes a failed payment; elsewhere the call ends with it, and what
\* was sent or ordered is not booked.
DatabaseFails(k) ==
  /\ call[k].at \notin {"idle", "disbursing"}
  /\ Failing
  /\ IF At(k, "sending") THEN Goto(k, "refusing")
     ELSE IF call[k].at \in {"collecting", "referencing"}
     THEN Become(k, [call[k] EXCEPT !.at = "completing", !.ok = FALSE])
     ELSE Return(k)
  /\ UNCHANGED <<orders, collection, rows, sent>>

\* The server stops and starts again: every call is forgotten.
CrashRestart ==
  /\ Crashing
  /\ call' = [k \in Calls |-> NoCall]
  /\ UNCHANGED <<orders, collection, rows, sent>>

Providers == \E o \in 1..Len(orders) :
  /\ Settle(o)
  /\ UNCHANGED <<collection, rows, sent, call, budgetVars>>

Request(k) ==
  \/ \E c \in Collections : PayCollection(k, c)
  \/ \E c \in Collections, op \in {"approve", "reject"} : Review(k, c, op)
  \/ \E m \in Methods : RequestWithdrawal(k, m)
  \/ \E t \in 1..Len(rows) : RetryPayment(k, t) \/ CancelTransaction(k, t)
  \/ \E o \in 1..Len(orders) : ReceiveCallback(k, o)

Paying(k) ==
  CheckPayable(k) \/ SendPayment(k) \/ BookPayment(k) \/ MarkPaid(k) \/ MarkUnpaid(k)

Reviewing(k) == CheckUnreviewed(k) \/ WriteReview(k)

Withdrawing(k) ==
  CheckBalance(k) \/ CreateWithdrawal(k) \/ Disburse(k) \/ WritePending(k) \/ WriteFailed(k)

Retrying(k) ==
  \/ CheckFailed(k) \/ ResetRow(k) \/ CreatePayment(k) \/ Collect(k)
  \/ WriteReference(k) \/ WriteOutcome(k)

Cancelling(k) == CheckPending(k) \/ WriteCancelled(k)

CallingBack(k) == MatchReference(k) \/ FindTransaction(k) \/ WriteSettled(k)

Next ==
  \/ \E k \in Calls :
       \/ Request(k) \/ Paying(k) \/ Reviewing(k) \/ Withdrawing(k) \/ Retrying(k)
       \/ Cancelling(k) \/ CallingBack(k) \/ DatabaseFails(k)
  \/ Providers \/ CrashRestart

Spec == Init /\ [][Next]_vars

-----------------------------------------------------------------------------
(* getPaymentStatistics and getUserTransactions                            *)

CompletedRows == {t \in 1..Len(rows) : rows[t].status = "COMPLETED"}

\* Only completed rows count; the rows behind each figure, by type and by method.
Statistics ==
  [byType   |-> [y \in Types |-> {t \in CompletedRows : rows[t].type = y}],
   byMethod |-> [m \in Methods \cup {"STELLAR"} |-> {t \in CompletedRows : rows[t].method = m}]]

-----------------------------------------------------------------------------
(* Properties                                                              *)

Booked(c) == {t \in 1..Len(rows) : rows[t].by = "pay" /\ rows[t].coll = c}

Booking(c) == {k \in Calls : At(k, "booking") /\ call[k].coll = c}

\* The platform account pays before anything is written
\* (processCollectionPayment, lines 61-100): every row stands for a payment of
\* its own, and a payment is missing from the rows only while its call is about
\* to book it or because that call failed.
PaymentsAreBooked ==
  \A c \in Collections :
    /\ Cardinality(Booked(c)) + Cardinality(Booking(c)) <= sent[c]
    /\ sent[c] <= Cardinality(Booked(c)) + Cardinality(Booking(c))
                     + faults + crashes * Cardinality(Calls)

\* A collection that is COMPLETED names a completed row of its own payment,
\* whatever reviews, other payments, retries, cancellations and callbacks did
\* meanwhile.
CompletedIsBacked ==
  \A c \in Collections :
    collection[c].paymentStatus = "COMPLETED" =>
      /\ collection[c].transactionId \in Booked(c)
      /\ rows[collection[c].transactionId].status = "COMPLETED"

PaidOut(t) ==
  \E o \in 1..Len(orders) :
    orders[o].tx = t /\ orders[o].kind = "disburse" /\ orders[o].state = "success"

\* A provider accepted to collect the row's amount from its user, for this row or for an
\* earlier one of the same chain of retries.
Collected(t) ==
  \E o \in 1..Len(orders) :
    /\ orders[o].kind = "collect" /\ orders[o].tx <= t
    /\ rows[orders[o].tx].origin = rows[t].origin

\* A withdrawal that the statistics count was paid out: accepting it is not enough, and
\* no late, duplicate or foreign callback completes it.  The one way around is a retry
\* (retryPayment goes on in processPayment, which collects where processWithdrawal
\* disburses), and then a provider did accept to collect.
ReportedIsPaidOut ==
  \A t \in Statistics.byType["WITHDRAWAL"] :
    PaidOut(t) \/ (rows[t].by = "retry" /\ Collected(t))

\* What the statistics report as WITHDRAWAL was cashed out to mobile money (PAYMENTS.md,
\* transaction types and status; MOBILE_MONEY.md, withdrawal flow).
WithdrawnIsPaidOut == \A t \in Statistics.byType["WITHDRAWAL"] : PaidOut(t)

\* No row has two orders of a provider: a retry has a row of its own.
OneOrderPerRow ==
  \A o, p \in 1..Len(orders) : orders[o].tx = orders[p].tx => o = p

Settling(k) == At(k, "settling") /\ ~ At(k, "settling")'

\* A callback, the first or a duplicate, settles the row its order was placed for, or a
\* later retry of it: retryPayment hands the reference of a failed row on, and a second
\* delivery can find the new row by it.  It never settles a row of another payment.
CallbackSettlesItsRow ==
  [][\A k \in Calls : Settling(k) =>
       \A t \in 1..Len(rows) : rows'[t] # rows[t] =>
         LET own == orders[call[k].order].tx
         IN  t = own \/ (t > own /\ rows[t].by = "retry" /\ rows[t].origin = rows[own].origin)]_vars

\* A caller who was told that the payment or the withdrawal went through
\* (payment.controller.ts) finds it in the rows and at the provider.
SuccessIsTrue ==
  \A k \in Calls :
    call[k].told =>
      /\ call[k].op = "pay" => call[k].tx \in Booked(call[k].coll)
      /\ call[k].op = "withdraw" => \E o \in 1..Len(orders) : orders[o].tx = call[k].tx

\* What a provider reported, and was acknowledged for, is not lost again: the
\* withdrawal is COMPLETED or FAILED (MOBILE_MONEY.md, withdrawal flow).
CallbackIsKept ==
  \A t \in 1..Len(rows) : rows[t].by = "withdraw" /\ rows[t].completed
    => rows[t].status = "COMPLETED"
=============================================================================
