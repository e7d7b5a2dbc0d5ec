------------------------------ MODULE Platform ------------------------------
(***************************************************************************)
(* The API as a whole: customers, merchant, operator, riders and WeChat    *)
(* Pay send requests; the handlers of the three services run over one      *)
(* database, as many at a time as there are Workers.                       *)
(***************************************************************************)
EXTENDS OrdersService, PaymentsService, RidersService

(* A request arrives (its first read), and a handler goes on. *)
Arrives(w) ==
    \/ \E o \in Orders : OrdersBegin(w, o) \/ PaymentsBegin(w, o)
                           \/ WechatNotifies(w, o)
    \/ \E r \in Riders : RidersBegin(w, r)
Handles(w) == OrdersStep(w) \/ PaymentsStep(w) \/ RidersStep(w)

Next ==
    \/ \E w \in Workers : Arrives(w) \/ Handles(w) \/ Crash(w)
    \/ WechatMoves

Spec == Init /\ [][Next]_vars

(* Handlers run to their end, WeChat settles its refunds and repeats a     *)
(* notification until the API has acknowledged it, which it does once it   *)
(* has booked the payment or the paid-out refund: however often other      *)
(* requests hold the slot or a delivery fails halfway, one gets through.   *)
Fairness ==
    /\ \A w \in Workers :
         /\ WF_vars(Handles(w))
         /\ SF_vars(HandleWechatNotificationWrite(w))
         /\ SF_vars(HandleWechatRefundNotificationWrite(w))
         /\ \A o \in Orders :
              /\ \A t \in TradeNos :
                   SF_vars(/\ payment[o].txn = "none"
                           /\ HandleWechatNotificationRead(w, o, t))
              /\ \A n \in RefundNos :
                   SF_vars(/\ wxRefund[n] = "SUCCESS"
                           /\ HandleWechatRefundNotificationRead(w, o, n))
    /\ \A n \in RefundNos : WF_vars(WechatSettlesRefund(n))

FairSpec == Spec /\ Fairness
----------------------------------------------------------------------------
(* Safety under every interleaving and every crash.                        *)

Fulfilment == {"PICKING_UP", "DELIVERING", "COMPLETED"}
Refunded(o) == refund[o].no # None /\ wxRefund[refund[o].no] # "NONE"

(* The customer's money is with us: WeChat captured the very trade the     *)
(* payment row names, or the test stage's mock payment was confirmed.      *)
Captured(o) ==
    \/ payment[o].txn = "MOCK"
    \/ payment[o].txn = "WX" /\ trade[payment[o].out].state = "SUCCESS"

(* No order enters or is anywhere in fulfilment on a stale or forged view  *)
(* of its payment: its own trade has been captured.                        *)
ProgressIsPaid ==
    \A o \in Orders : order[o].status \in Progress => Captured(o)

(* However many claims and assignments race, an order is taken once: it    *)
(* has one assignment row, that of the rider on the order, who has it for  *)
(* good; and nothing is delivered without a rider.                         *)
TakenOnce ==
    \A o \in Orders :
      /\ assignments[o] = IF order[o].rider = None THEN <<>>
                                                   ELSE <<order[o].rider>>
      /\ order[o].status \in Fulfilment => order[o].rider # None

(* Retries, crashes and concurrent cancellations never have WeChat accept  *)
(* a second refund of an order: every refund it holds is the one the       *)
(* refund row names, of an order whose money was captured.                 *)
RefundsAreRecorded ==
    \A n \in RefundNos : wxRefund[n] # "NONE" =>
      \E o \in Orders : refund[o].no = n /\ Captured(o)

(* The platform keeps the DeliveryContract: paid before dispatched, one     *)
(* rider for good, one refund at most.  captured is what the services have  *)
(* booked, courier the rider on the row, refunded what WeChat holds.        *)
Contract == INSTANCE DeliveryContract WITH
    captured <- {o \in Orders : payment[o].txn # "none"},
    courier  <- [o \in Orders |-> order[o].rider],
    refunded <- {o \in Orders : Refunded(o)}
ContractSpec == Contract!Spec

(* A claim that an Idempotency-Key remembers really happened and still      *)
(* stands: the answer replayed to a retry is true of the order.             *)
ClaimIsRemembered ==
    \A r \in Riders, k \in Keys :
      LET o == idempotency[<<r, k>>] IN o # None => order[o].rider = r

----------------------------------------------------------------------------
(* Properties of the handlers one at a time, with crashes: what the code    *)
(* guarantees when no second request meddles between its awaits.            *)

(* An order's status only moves forward along the flow, or to CANCELLED,    *)
(* and nothing happens to a completed or cancelled order any more.          *)
StatusMovesForward ==
    [][\A o \in Orders : order'[o].status # order[o].status =>
         /\ order[o].status \notin Terminal
         /\ order'[o].status \in
              {"CANCELLED", NextPersistedStatus(order[o].status)}]_order

(* Only finished orders disappear from the customer's list.                 *)
HiddenIsOver ==
    \A o \in Orders : order[o].hidden => order[o].status \in Terminal

(* An order the merchant has accepted is open to the riders: nobody has it  *)
(* yet, so claim and assign are not barred from it for good.                *)
AcceptedIsDispatchable ==
    \A o \in Orders : order[o].status = "ACCEPTED" => order[o].rider = None

(* A quote the customer has confirmed binds the merchant.                   *)
AgreedPriceStands ==
    [][\A o \in Orders : order[o].quote = "ACCEPTED" =>
         order'[o].quote = "ACCEPTED" /\ order'[o].fee = order[o].fee]_order

(* The customer has paid the price that is on the order.                    *)
PaidPriceIsOrderPrice ==
    \A o \in Orders : payment[o].txn = "WX" =>
      trade[payment[o].out].fee = order[o].fee

(* Nothing is owed on an order when no trade of it can be paid any more,    *)
(* and one that was paid has a refund at WeChat.                            *)
NothingOwed(o) ==
    \A t \in TradeNos : trade[t].order = o =>
      /\ trade[t].state # "ISSUED"
      /\ trade[t].state = "SUCCESS" => Refunded(o)

(* cancel leaves nothing owed: the customer who cancels has paid nothing,   *)
(* cannot pay any more, or is being refunded.                               *)
CustomerCancelIsSettled ==
    \A o \in Orders :
      order[o].status = "CANCELLED" /\ order[o].cancelledBy = "customer"
        => NothingOwed(o)

(* No payment is booked on an order that has been cancelled.                *)
NoPaymentAfterCancel ==
    [][\A o \in Orders :
         order[o].status = "CANCELLED" /\ order'[o].status = "CANCELLED"
           /\ order'[o].pay = "PAID" => order[o].pay = "PAID"]_order

(* A rider never carries more orders than the limit.                        *)
WithinCapacity ==
    \A r \in Riders : Cardinality(ActiveOrders(r)) <= RiderMax

(* A rider is online only with an active role.                              *)
OnlineIsActive ==
    \A r \in Riders : rider[r].online => rider[r].role = "ACTIVE"

(* A suspended or resigned rider has no order left to deliver.              *)
InactiveIsFree ==
    \A r \in Riders : rider[r].role # "ACTIVE" => ActiveOrders(r) = {}

----------------------------------------------------------------------------
(* Liveness, under FairSpec.                                                *)

(* Money WeChat has captured is sooner or later booked on its order.        *)
CaptureIsBooked ==
    \A o \in Orders, t \in TradeNos :
      (trade[t].state = "SUCCESS" /\ trade[t].order = o)
        ~> payment[o].txn = "WX"

(* An order that is "refund in progress" when WeChat has paid the refund    *)
(* out is sooner or later recorded as refunded.                             *)
RefundingEnds ==
    \A o \in Orders :
      (/\ order[o].pay = "REFUNDING"
       /\ Refunded(o) /\ wxRefund[refund[o].no] = "SUCCESS")
        ~> order[o].pay = "REFUNDED"
=============================================================================
