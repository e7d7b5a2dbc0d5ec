-------------------------- MODULE SerialInvariant --------------------------
(***************************************************************************)
(* What holds of Platform besides PlatformInvariant!IInv when the handlers *)
(* run one at a time: nobody meddles between the awaits, so what a request *)
(* has read of the rows is still so when it writes.  Each of SerialOrders  *)
(* and SerialMoney is inductive given IInv and those before it.            *)
(***************************************************************************)
EXTENDS PlatformInvariant

OneWorker == \A v, w \in Workers : v = w

(* The order and the rider a request has read are as it read them.          *)
ReadOrder(r) ==
    /\ r.op = "updateStatus"   => InFlow(r.o, r.to)
    /\ r.op = "cancel"         => order[r.o].status \notin Terminal
    /\ r.op = "hide"           => Hideable(r.o)
    /\ r.op = "quote"          => Quotable(r.o)
    /\ r.op = "respondToQuote" => AwaitsAnswer(r.o)
    /\ r.op = "assign" /\ r.pc = "write" => Matches(r.rider, r.o)
    /\ r.op = "riderUpdateStatus" /\ r.pc = "write" =>
         order[r.o].rider = r.rider /\ RiderExpects(order[r.o], r.to)

ReadRider(r) ==
    /\ r.op \in {"claim", "assign"} => ActiveRole(r.rider)
    /\ r.op = "setOnline" /\ r.to = "ONLINE" => MayGoOnline(r.rider)
    /\ r.op = "changeStatus" /\ r.to # "ACTIVE" => MayLeave(r.rider)

(* Nobody has an order before it is dispatched.                             *)
Untaken ==
    \A o \in Orders :
      order[o].status \in {"PENDING", "ACCEPTED"} => order[o].rider = None

Carried ==
    /\ \A r \in Riders : IsFiniteSet(ActiveOrders(r))
    /\ WithinCapacity

SerialOrders ==
    /\ \A w \in Workers : ReadOrder(req[w]) /\ ReadRider(req[w])
    /\ HiddenIsOver
    /\ Untaken
    /\ OnlineIsActive
    /\ InactiveIsFree
    /\ Carried

----------------------------------------------------------------------------
(* The money.  A prepay in flight is for the price of its order, agreed on  *)
(* if it is a merchant's; with WeChat its trade is the one the row names or *)
(* will name.                                                               *)
PriceAgreed(o) == o \in ManualOrders => order[o].quote = "ACCEPTED"

ReadPrepay(r) ==
    r.op = "createPrepay" =>
      /\ order[r.o].status # "CANCELLED"
      /\ PriceAgreed(r.o) /\ r.fee = order[r.o].fee
      /\ isMockPaymentEnabled => r.pc = "savePrepay" /\ r.prepay = None
      /\ r.pc = "requestPrepay" => payment[r.o].status = "NONE"
      /\ r.pc = "savePrepay" /\ ~isMockPaymentEnabled =>
           /\ r.prepay = r.trade
           /\ trade[r.trade].order = r.o /\ trade[r.trade].state # "NONE"
           /\ payment[r.o].status # "NONE" => payment[r.o].out = r.trade

(* A cancellation closes the trade of an order nobody has paid, or refunds  *)
(* one that is paid; when it comes to write, nothing is owed.               *)
Closing == {"closeRead", "closeCall", "closeWrite"}
Refunding == {"refundRead"} \cup RefundSteps

ReadCancel(r) ==
    r.op = "cancel" =>
      /\ r.pc \in Closing => ~Booked(r.o)
      /\ r.pc = "closeCall" => ~isMockPaymentEnabled
      /\ r.pc = "closeWrite" /\ ~isMockPaymentEnabled =>
           trade[payment[r.o].out].state = "CLOSED"
      /\ r.pc \in Refunding => order[r.o].pay = "PAID"
      /\ r.pc = "write" => NothingOwed(r.o)

ReadPayment(r) ==
    /\ r.op = "handleWechatNotification" =>
         trade[payment[r.o].out].fee = payment[r.o].amount
    /\ r.op = "confirmMockPayment" \/ r.pc = "refundMock" =>
         isMockPaymentEnabled
    /\ r.op = "handleWechatRefundNotification" \/ r.pc = "refundPersist" =>
         Refunded(r.o)

(* The trades: none without WeChat; one that can be paid, or was, is the    *)
(* one its order's row names; and a row names its order's own trade.        *)
TradeInv(t) ==
    /\ isMockPaymentEnabled => trade[t].state = "NONE"
    /\ trade[t].state = "NONE" => trade[t].order = None
    /\ \A o \in Orders :
         trade[t].order = o /\ trade[t].state \in {"ISSUED", "SUCCESS"} =>
           payment[o].status # "NONE" /\ payment[o].out = t

RowInv(o) ==
    /\ payment[o].txn = "MOCK" => isMockPaymentEnabled
    /\ payment[o].prepay =
         IF isMockPaymentEnabled \/ payment[o].status = "NONE"
         THEN None ELSE payment[o].out
    /\ payment[o].status \in {"SUCCEEDED", "FAILED", "REFUNDING", "REFUNDED"}
         => Booked(o)
    /\ payment[o].status # "NONE" =>
         /\ PriceAgreed(o) /\ payment[o].amount = order[o].fee
         /\ ~isMockPaymentEnabled =>
              /\ trade[payment[o].out].order = o
              /\ trade[payment[o].out].state \notin {"NONE", "CREATED"}
    /\ order[o].status # "CANCELLED" =>
         /\ Booked(o) => order[o].pay = "PAID"
         /\ ~isMockPaymentEnabled /\ payment[o].status = "CLOSED" =>
              Booked(o) \/ trade[payment[o].out].state = "CLOSED"
    /\ refund[o].status \in {"PROCESSING", "SUCCEEDED"} => Refunded(o)

ReadMoney(r) == ReadPrepay(r) /\ ReadCancel(r) /\ ReadPayment(r)

MoneyRows ==
    /\ \A t \in TradeNos : TradeInv(t)
    /\ \A o \in Orders : RowInv(o)
    /\ PaidPriceIsOrderPrice
    /\ CustomerCancelIsSettled

SerialMoney == MoneyRows /\ \A w \in Workers : ReadMoney(req[w])
=============================================================================
