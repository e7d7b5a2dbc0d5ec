-------------------------- MODULE PaymentsService --------------------------
(***************************************************************************)
(* payments.service.ts: prepay, payment and refund notifications, refunds  *)
(* and the closing of a pending trade, with WeChat Pay itself (external)   *)
(* as far as these handlers can tell.                                      *)
(***************************************************************************)
EXTENDS Store

isMockPaymentEnabled == PaymentMode = "mock"

----------------------------------------------------------------------------
(* Slips a change of this file could make, one per guard or write that a    *)
(* property depends on: each in turn replaces its original to show that the *)
(* checks notice.  No action uses them.                                     *)

(* The payment notification turns away a cancelled order.                   *)
AcceptableIfOpen(o, t) ==
    /\ payment[o].status # "NONE" /\ payment[o].out = t
    /\ trade[t].fee = payment[o].amount
    /\ order[o].status # "CANCELLED"
    /\ payment[o].status # "SUCCEEDED"

(* closePendingPayment does not tell WeChat.                                *)
CloseLocally(o) ==
    IF payment[o].status # "PENDING" THEN "write" ELSE "closeWrite"

(* refundForCancellation does not ask whether the order was paid.           *)
RefundRouteUnchecked(o) ==
    IF order[o].pay = "REFUNDED"   THEN "done"
    ELSE IF payment[o].txn = "MOCK" THEN "refundMock" ELSE "refundLookup"

(* The number drawn is used although the row has another.                   *)
OutRefundNoDrawn(o, drawn) == drawn

(* WeChat's refund_status is stored as it is.                               *)
mapNothing(s) == s

(* persistRefundResult forgets the cancelled order.                         *)
persistRefundOnly(o, s) ==
    /\ refund' = [refund EXCEPT ![o] = [@ EXCEPT !.status = s]]
    /\ payment' = [payment EXCEPT ![o] = [@ EXCEPT !.status =
          IF s = "SUCCEEDED" THEN "REFUNDED" ELSE "FAILED"]]
    /\ UNCHANGED order
----------------------------------------------------------------------------

(* createOutTradeNo and createRefundNo draw a number nobody has drawn. *)
FreshTradeNo(t) ==
    /\ trade[t].state = "NONE"
    /\ \A o \in Orders : payment[o].out # t
    /\ \A w \in Workers : req[w].trade # t
FreshRefundNo(n) ==
    /\ wxRefund[n] = "NONE"
    /\ \A o \in Orders : refund[o].no # n
    /\ \A w \in Workers : req[w].no # n

----------------------------------------------------------------------------
(* POST prepay.  The stored out_trade_no and prepay_id are reused; without *)
(* a payment row new ones are drawn, and the upsert keeps the stored       *)
(* out_trade_no but takes the prepay_id of whoever writes last.            *)
CreatePrepayRead(w, o, t) ==
    LET p == payment[o] IN
    /\ order[o].status # "CANCELLED"
    /\ order[o].pay # "PAID"
    /\ o \in ManualOrders => order[o].quote = "ACCEPTED"
    /\ order[o].fee > 0
    /\ IF p.status = "NONE" THEN FreshTradeNo(t) ELSE t = p.out
    /\ Begin(w, [Idle EXCEPT !.op = "createPrepay", !.o = o,
          !.fee = order[o].fee, !.trade = t, !.prepay = p.prepay,
          !.pc = IF isMockPaymentEnabled \/ p.prepay # None
                 THEN "savePrepay" ELSE "requestPrepay"])
    /\ UNCHANGED <<orderTables, riderTables, paymentTables, wechat>>

RequestWechatPrepay(w) ==
    /\ At(w, "createPrepay", "requestPrepay")
    /\ LET r == req[w] IN
       /\ trade[r.trade].state = "NONE"
       /\ trade' = [trade EXCEPT ![r.trade] =
             [state |-> "CREATED", order |-> r.o, fee |-> r.fee]]
       /\ req' = [req EXCEPT ![w] =
             [@ EXCEPT !.pc = "savePrepay", !.prepay = r.trade]]
    /\ UNCHANGED <<orderTables, riderTables, paymentTables, wxRefund>>

(* The answer carries the payment parameters: from now on the customer can *)
(* pay the trade the prepay_id belongs to.                                 *)
CreatePrepaySave(w) ==
    /\ At(w, "createPrepay", "savePrepay")
    /\ LET r == req[w] IN
       /\ payment' = [payment EXCEPT ![r.o] =
            [@ EXCEPT !.status = "PENDING", !.amount = r.fee,
                      !.prepay = r.prepay,
                      !.out = IF payment[r.o].status = "NONE" THEN r.trade
                              ELSE payment[r.o].out]]
       /\ trade' = [t \in TradeNos |->
             IF t = r.prepay /\ trade[t].state = "CREATED"
             THEN [trade[t] EXCEPT !.state = "ISSUED"] ELSE trade[t]]
    /\ Finish(w)
    /\ UNCHANGED <<orderTables, riderTables, refund, wxRefund>>

----------------------------------------------------------------------------
(* The money has arrived: one transaction writes the payment and the order *)
(* rows, by id, whatever state they are in by now.                         *)
RecordPayment(o, txn) ==
    /\ payment' = [payment EXCEPT ![o] =
         [@ EXCEPT !.status = "SUCCEEDED", !.txn = txn]]
    /\ order' = [order EXCEPT ![o] = [@ EXCEPT !.pay = "PAID"]]

ConfirmMockPaymentRead(w, o) ==
    /\ isMockPaymentEnabled
    /\ order[o].status # "CANCELLED"
    /\ payment[o].status # "NONE"
    /\ Begin(w, [Idle EXCEPT !.op = "confirmMockPayment", !.pc = "write",
                             !.o = o])
    /\ UNCHANGED <<orderTables, riderTables, paymentTables, wechat>>

ConfirmMockPaymentWrite(w) ==
    /\ At(w, "confirmMockPayment", "write")
    /\ RecordPayment(req[w].o, "MOCK")
    /\ Finish(w)
    /\ UNCHANGED <<assignments, riderTables, refund, wechat>>

(* WeChat notifies of a captured trade until it is acknowledged, and may   *)
(* repeat itself later.  The trade is found by the stored out_trade_no.    *)
Acceptable(o, t) ==
    /\ payment[o].status # "NONE" /\ payment[o].out = t
    /\ trade[t].fee = payment[o].amount
    /\ payment[o].status # "SUCCEEDED"

HandleWechatNotificationRead(w, o, t) ==
    /\ trade[t].state = "SUCCESS"
    /\ Acceptable(o, t)
    /\ Begin(w, [Idle EXCEPT !.op = "handleWechatNotification",
                             !.pc = "write", !.o = o])
    /\ UNCHANGED <<orderTables, riderTables, paymentTables, wechat>>

HandleWechatNotificationWrite(w) ==
    /\ At(w, "handleWechatNotification", "write")
    /\ RecordPayment(req[w].o, "WX")
    /\ Finish(w)
    /\ UNCHANGED <<assignments, riderTables, refund, wechat>>

----------------------------------------------------------------------------
(* closePendingPayment, awaited by cancel.  WeChat refuses to close a      *)
(* trade that has been paid; that error ends the cancellation.             *)
CloseRoute(o) ==
    IF payment[o].status # "PENDING" THEN "write"
    ELSE IF isMockPaymentEnabled \/ payment[o].txn = "MOCK"
         THEN "closeWrite" ELSE "closeCall"

ClosePendingPaymentRead(w) ==
    /\ At(w, "cancel", "closeRead")
    /\ Goto(w, CloseRoute(req[w].o))
    /\ UNCHANGED <<orderTables, riderTables, paymentTables, wechat>>

CloseWechatTrade(w) ==
    /\ At(w, "cancel", "closeCall")
    /\ LET t == payment[req[w].o].out IN
       IF trade[t].state = "SUCCESS"
       THEN Finish(w) /\ UNCHANGED trade
       ELSE /\ trade' = [trade EXCEPT ![t] = [@ EXCEPT !.state = "CLOSED"]]
            /\ Goto(w, "closeWrite")
    /\ UNCHANGED <<orderTables, riderTables, paymentTables, wxRefund>>

ClosePendingPaymentWrite(w) ==
    /\ At(w, "cancel", "closeWrite")
    /\ payment' = [payment EXCEPT ![req[w].o] = [@ EXCEPT !.status = "CLOSED"]]
    /\ Goto(w, "write")
    /\ UNCHANGED <<orderTables, riderTables, refund, wechat>>

----------------------------------------------------------------------------
(* refundForCancellation, awaited by cancel and reachable on its own as     *)
(* POST refund.  Its result goes back to cancel, or ends the request.       *)
ReturnRefund(w, result) ==
    req' = [req EXCEPT ![w] =
              IF req[w].op = "cancel"
              THEN [req[w] EXCEPT !.pc = "write", !.to = result, !.no = None]
              ELSE Idle]

RefundBegin(w, o) ==
    /\ Begin(w, [Idle EXCEPT !.op = "refund", !.pc = "refundRead", !.o = o])
    /\ UNCHANGED <<orderTables, riderTables, paymentTables, wechat>>

(* Where the checks on the order and its payment row lead.                  *)
RefundRoute(o) ==
    IF order[o].pay = "REFUNDED"                    THEN "done"
    ELSE IF order[o].pay \notin {"PAID", "REFUNDING"} THEN "throw"
    ELSE IF payment[o].txn = "MOCK"                  THEN "refundMock"
    ELSE IF /\ payment[o].status \in {"SUCCEEDED", "REFUNDING", "FAILED"}
            /\ payment[o].txn # "none" THEN "refundLookup" ELSE "throw"

RefundRead(w) ==
    /\ req[w].pc = "refundRead"
    /\ LET route == RefundRoute(req[w].o) IN
       CASE route = "done"  -> ReturnRefund(w, "REFUNDED")
         [] route = "throw" -> Finish(w)
         [] OTHER           -> Goto(w, route)
    /\ UNCHANGED <<orderTables, riderTables, paymentTables, wechat>>

RefundMockPayment(w) ==
    /\ req[w].pc = "refundMock"
    /\ payment' = [payment EXCEPT ![req[w].o] =
         [@ EXCEPT !.status = "REFUNDED"]]
    /\ ReturnRefund(w, "REFUNDED")
    /\ UNCHANGED <<orderTables, riderTables, refund, wechat>>

RefundLookup(w) ==
    /\ req[w].pc = "refundLookup"
    /\ LET r == refund[req[w].o] IN
       CASE r.status = "SUCCEEDED"  -> ReturnRefund(w, "REFUNDED")
         [] r.status = "PROCESSING" -> ReturnRefund(w, "REFUNDING")
         [] OTHER -> \E n \in RefundNos :
              /\ IF r.no # None THEN n = r.no ELSE FreshRefundNo(n)
              /\ req' = [req EXCEPT ![w] =
                    [@ EXCEPT !.pc = "refundUpsert", !.no = n]]
    /\ UNCHANGED <<orderTables, riderTables, paymentTables, wechat>>

(* The upsert answers with the row, whose out_refund_no is the one in use.  *)
OutRefundNo(o, drawn) == IF refund[o].no = None THEN drawn ELSE refund[o].no

RefundUpsert(w) ==
    /\ req[w].pc = "refundUpsert"
    /\ LET o  == req[w].o
           no == OutRefundNo(o, req[w].no) IN
       /\ refund' = [refund EXCEPT ![o] = [status |-> "CREATED", no |-> no]]
       /\ req' = [req EXCEPT ![w] = [@ EXCEPT !.pc = "refundCall", !.no = no]]
    /\ UNCHANGED <<orderTables, riderTables, payment, wechat>>

mapWechatRefundStatus(s) ==
    CASE s = "SUCCESS"    -> "SUCCEEDED"
      [] s = "PROCESSING" -> "PROCESSING"
      [] OTHER            -> "FAILED"

(* WeChat answers for the refund of that out_refund_no, creating it on the  *)
(* first call.  The answer's refund_status is optional, and the call may    *)
(* fail whether or not WeChat has accepted the refund.                      *)
RequestWechatRefund(w) ==
    /\ req[w].pc = "refundCall"
    /\ LET n == req[w].no IN
       \/ \E s \in IF wxRefund[n] = "NONE" THEN {"PROCESSING", "SUCCESS"}
                                           ELSE {wxRefund[n]} :
            /\ wxRefund' = [wxRefund EXCEPT ![n] = s]
            /\ \/ \E reported \in {s, "none"} :
                    req' = [req EXCEPT ![w] =
                              [@ EXCEPT !.pc = "refundPersist",
                                 !.to = mapWechatRefundStatus(reported)]]
               \/ Goto(w, "refundFailed")
       \/ /\ Goto(w, "refundFailed")
          /\ UNCHANGED wxRefund
    /\ UNCHANGED <<orderTables, riderTables, paymentTables, trade>>

RefundFailed(w) ==
    /\ req[w].pc = "refundFailed"
    /\ refund' = [refund EXCEPT ![req[w].o] = [@ EXCEPT !.status = "FAILED"]]
    /\ Finish(w)
    /\ UNCHANGED <<orderTables, riderTables, payment, wechat>>

(* One transaction: the refund row, the payment row, and the order row if   *)
(* it is already cancelled.                                                 *)
persistRefundResult(o, s) ==
    /\ refund' = [refund EXCEPT ![o] = [@ EXCEPT !.status = s]]
    /\ payment' = [payment EXCEPT ![o] = [@ EXCEPT !.status =
          CASE s = "SUCCEEDED" -> "REFUNDED" [] s = "PROCESSING" -> "REFUNDING"
            [] OTHER -> "FAILED"]]
    /\ order' = [order EXCEPT ![o] = [@ EXCEPT !.pay =
          IF order[o].status # "CANCELLED" THEN order[o].pay
          ELSE IF s = "SUCCEEDED" THEN "REFUNDED" ELSE "REFUNDING"]]

RefundPersist(w) ==
    /\ req[w].pc = "refundPersist"
    /\ persistRefundResult(req[w].o, req[w].to)
    /\ CASE req[w].to = "SUCCEEDED"  -> ReturnRefund(w, "REFUNDED")
         [] req[w].to = "PROCESSING" -> ReturnRefund(w, "REFUNDING")
         [] OTHER                    -> Finish(w)
    /\ UNCHANGED <<assignments, riderTables, wechat>>

(* WeChat notifies once a refund has settled, and repeats itself.           *)
HandleWechatRefundNotificationRead(w, o, n) ==
    /\ wxRefund[n] \in {"SUCCESS", "ABNORMAL"}
    /\ refund[o].no = n
    /\ refund[o].status # "SUCCEEDED"
    /\ Begin(w, [Idle EXCEPT !.op = "handleWechatRefundNotification",
                 !.pc = "write", !.o = o,
                 !.to = mapWechatRefundStatus(wxRefund[n])])
    /\ UNCHANGED <<orderTables, riderTables, paymentTables, wechat>>

HandleWechatRefundNotificationWrite(w) ==
    /\ At(w, "handleWechatRefundNotification", "write")
    /\ persistRefundResult(req[w].o, req[w].to)
    /\ Finish(w)
    /\ UNCHANGED <<assignments, riderTables, wechat>>

----------------------------------------------------------------------------
(* WeChat Pay and the customer's wallet.                                    *)
CustomerPays(t) ==
    /\ trade[t].state = "ISSUED"
    /\ trade' = [trade EXCEPT ![t] = [@ EXCEPT !.state = "SUCCESS"]]
    /\ UNCHANGED <<orderTables, riderTables, paymentTables, wxRefund, req>>

WechatSettlesRefund(n) ==
    /\ wxRefund[n] = "PROCESSING"
    /\ \E s \in {"SUCCESS", "ABNORMAL"} :
          wxRefund' = [wxRefund EXCEPT ![n] = s]
    /\ UNCHANGED <<orderTables, riderTables, paymentTables, trade, req>>

----------------------------------------------------------------------------
PaymentsStep(w) ==
    \/ RequestWechatPrepay(w)     \/ CreatePrepaySave(w)
    \/ ConfirmMockPaymentWrite(w) \/ HandleWechatNotificationWrite(w)
    \/ ClosePendingPaymentRead(w) \/ CloseWechatTrade(w)
    \/ ClosePendingPaymentWrite(w)
    \/ RefundRead(w)    \/ RefundMockPayment(w) \/ RefundLookup(w)
    \/ RefundUpsert(w)  \/ RequestWechatRefund(w)
    \/ RefundFailed(w)  \/ RefundPersist(w)
    \/ HandleWechatRefundNotificationWrite(w)

(* What customers ask, and what WeChat delivers.                            *)
PaymentsBegin(w, o) ==
    \/ \E t \in TradeNos : CreatePrepayRead(w, o, t)
    \/ ConfirmMockPaymentRead(w, o)
    \/ RefundBegin(w, o)

WechatNotifies(w, o) ==
    \/ \E t \in TradeNos : HandleWechatNotificationRead(w, o, t)
    \/ \E n \in RefundNos : HandleWechatRefundNotificationRead(w, o, n)

WechatMoves ==
    \/ \E t \in TradeNos : CustomerPays(t)
    \/ \E n \in RefundNos : WechatSettlesRefund(n)
============================================================================
