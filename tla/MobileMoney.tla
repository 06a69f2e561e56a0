---------------------------- MODULE MobileMoney ----------------------------
(***************************************************************************)
(* The three mobile money providers as the backend talks to them           *)
(* (src/src/services/mobile-money).  A request that is accepted becomes an *)
(* order of the provider.  The provider settles it once, some time later,  *)
(* and may then call back: never, once, or more than once.  What matters   *)
(* of a request is by which key the callback will name it.                 *)
(***************************************************************************)
EXTENDS Naturals, Sequences

CONSTANTS
  Configured,      \* the providers whose credentials are in the environment
  MaxDeliveries    \* how often a provider calls back for one order, at most

Methods == {"MPESA", "MTN_MONEY", "AIRTEL_MONEY"}

ASSUME ProviderAssumption == Configured \subseteq Methods /\ MaxDeliveries \in Nat

VARIABLE orders    \* what the providers accepted, in order

\* How a callback names the transaction it is about: by the transaction's id,
\* by the reference the provider gave the request, or not at all.
Keys == {"transaction", "reference", "none"}

Orders == [tx : Nat, method : Methods, kind : {"collect", "disburse"}, key : Keys,
           referenced : BOOLEAN, state : {"pending", "success", "failed"}, delivered : Nat]

Order(tx, method, kind, key, referenced) ==
  [tx |-> tx, method |-> method, kind |-> kind, key |-> key, referenced |-> referenced,
   state |-> "pending", delivered |-> 0]

-----------------------------------------------------------------------------
(* The requests.  "collect" takes money from the phone's owner, "disburse" *)
(* pays it out.                                                            *)

\* The callback has the CheckoutRequestID, which the answer has too.
StkPush(tx) == Order(tx, "MPESA", "collect", "reference", TRUE)

\* The answer has no reference, and the result is posted to a path that is no route.
B2cPayment(tx) == Order(tx, "MPESA", "disburse", "none", FALSE)

RequestToPay(tx) == Order(tx, "MTN_MONEY", "collect", "transaction", TRUE)

\* The externalId the callback carries is a fresh uuid nobody keeps.
Transfer(tx) == Order(tx, "MTN_MONEY", "disburse", "none", TRUE)

InitiatePayment(tx) == Order(tx, "AIRTEL_MONEY", "collect", "transaction", FALSE)

DisburseFunds(tx) == Order(tx, "AIRTEL_MONEY", "disburse", "transaction", FALSE)

ProviderPayment(method, tx) ==
  CASE method = "MPESA"        -> StkPush(tx)
    [] method = "MTN_MONEY"    -> RequestToPay(tx)
    [] method = "AIRTEL_MONEY" -> InitiatePayment(tx)

ProviderWithdrawal(method, tx) ==
  CASE method = "MPESA"        -> B2cPayment(tx)
    [] method = "MTN_MONEY"    -> Transfer(tx)
    [] method = "AIRTEL_MONEY" -> DisburseFunds(tx)

IsProviderAvailable(method) == method \in Configured

\* The provider takes the order; its reference is its place among the orders.
Accept(order) == orders' = Append(orders, order)

\* result.referenceId of the order taken last, 0 for undefined.
ReferenceId(order) == IF order.referenced THEN Len(orders) + 1 ELSE 0

-----------------------------------------------------------------------------

ProviderInit == orders = <<>>

ProviderTypeOK == orders \in Seq(Orders)

\* A provider is done with an order, for good.
Settle(o) ==
  /\ orders[o].state = "pending"
  /\ \E outcome \in {"success", "failed"} :
       orders' = [orders EXCEPT ![o].state = outcome]

MayCallBack(o) == orders[o].state # "pending" /\ orders[o].delivered < MaxDeliveries

CallBack(o) ==
  /\ MayCallBack(o)
  /\ orders' = [orders EXCEPT ![o].delivered = @ + 1]
=============================================================================
