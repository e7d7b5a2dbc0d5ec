--------------------------- MODULE OrdersService ---------------------------
(***************************************************************************)
(* orders.service.ts: what a customer and the operator do to an order      *)
(* outside payment.  Every handler reads the row, checks it, and after an  *)
(* await writes it by id alone: nothing ties the write to what was read.   *)
(***************************************************************************)
EXTENDS Store

(* nextOrderStatus over ORDER_STATUS_FLOW; the last status maps to itself. *)
NextPersistedStatus(s) ==
    CASE s = "PENDING"    -> "ACCEPTED"
      [] s = "ACCEPTED"   -> "PICKING_UP"
      [] s = "PICKING_UP" -> "DELIVERING"
      [] s \in {"DELIVERING", "COMPLETED"} -> "COMPLETED"
      [] OTHER -> s

----------------------------------------------------------------------------
(* Slips a change of this file could make, one per guard or write that a    *)
(* property depends on: each in turn replaces its original to show that the *)
(* checks notice.  No action uses them.                                     *)

(* updateStatus forgets that an ended order stays ended.                    *)
InFlowEvenEnded(o, status) ==
    status \in {"CANCELLED", NextPersistedStatus(order[o].status)}

(* updateStatus forgets the payment.                                        *)
MayProgressUnpaid(o) ==
    o \in ManualOrders => order[o].quote = "ACCEPTED"

(* hide asks for a rider instead of an end.                                 *)
HideableOnceTaken(o) == order[o].rider # None

(* quote forgets that an agreed price is final.                             *)
QuotableAgain(o) ==
    o \in ManualOrders /\ order[o].status = "PENDING"

(* respondToQuote lets the customer answer again.                           *)
AwaitsAnyAnswer(o) == o \in ManualOrders
----------------------------------------------------------------------------

(* Operator: PATCH status.  Cancelling is always allowed before the end;   *)
(* progress needs an accepted quote and a paid order, and the step to      *)
(* PICKING_UP belongs to the riders.                                       *)
InFlow(o, status) ==
    /\ order[o].status \notin Terminal
    /\ status \in {"CANCELLED", NextPersistedStatus(order[o].status)}
    /\ ~ (order[o].status = "ACCEPTED" /\ status = "PICKING_UP")

MayProgress(o) ==
    /\ o \in ManualOrders => order[o].quote = "ACCEPTED"
    /\ order[o].pay = "PAID"

UpdateStatusRead(w, o, status) ==
    /\ InFlow(o, status)
    /\ status # "CANCELLED" => MayProgress(o)
    /\ Begin(w, [Idle EXCEPT !.op = "updateStatus", !.pc = "write",
                             !.o = o, !.to = status])
    /\ UNCHANGED <<orderTables, riderTables, paymentTables, wechat>>

UpdateStatusWrite(w) ==
    /\ At(w, "updateStatus", "write")
    /\ LET o == req[w].o IN order' = [order EXCEPT ![o] =
         [@ EXCEPT !.status = req[w].to,
                   !.cancelledBy = IF req[w].to = "CANCELLED" THEN "operator"
                                   ELSE order[o].cancelledBy]]
    /\ Finish(w)
    /\ UNCHANGED <<assignments, riderTables, paymentTables, wechat>>

(* Customer: PATCH cancel.  A paid order is refunded first, an unpaid one  *)
(* has its pending WeChat trade closed first; both are PaymentsService     *)
(* calls, which hand the request back at step "write" with the payment     *)
(* status to record.                                                       *)
CancelRead(w, o) ==
    /\ order[o].status \notin Terminal
    /\ order[o].pay = "PAID" => order[o].status = "PENDING"
    /\ Begin(w, [Idle EXCEPT !.op = "cancel", !.o = o,
          !.pc = IF order[o].pay = "PAID" THEN "refundRead" ELSE "closeRead",
          !.to = IF order[o].pay = "PAID" THEN "none" ELSE "CLOSED"])
    /\ UNCHANGED <<orderTables, riderTables, paymentTables, wechat>>

CancelWrite(w) ==
    /\ At(w, "cancel", "write")
    /\ LET o == req[w].o IN
       /\ order' = [order EXCEPT ![o] =
            [@ EXCEPT !.status = "CANCELLED", !.pay = req[w].to,
                      !.cancelledBy = "customer"]]
       /\ payment' = [payment EXCEPT ![o] =
            [@ EXCEPT !.status = IF payment[o].status = "PENDING"
                                 THEN "CLOSED" ELSE payment[o].status]]
    /\ Finish(w)
    /\ UNCHANGED <<assignments, riderTables, refund, wechat>>

(* Customer: DELETE, which only hides a finished order from lists.         *)
Hideable(o) == order[o].status \in Terminal

HideRead(w, o) ==
    /\ Hideable(o)
    /\ Begin(w, [Idle EXCEPT !.op = "hide", !.pc = "write", !.o = o])
    /\ UNCHANGED <<orderTables, riderTables, paymentTables, wechat>>

HideWrite(w) ==
    /\ At(w, "hide", "write")
    /\ order' = [order EXCEPT ![req[w].o] = [@ EXCEPT !.hidden = TRUE]]
    /\ Finish(w)
    /\ UNCHANGED <<assignments, riderTables, paymentTables, wechat>>

(* Merchant: price a manual order, any number of times until it is agreed. *)
Quotable(o) ==
    /\ o \in ManualOrders
    /\ order[o].status = "PENDING"
    /\ order[o].quote # "ACCEPTED"

QuoteRead(w, o, fee) ==
    /\ Quotable(o)
    /\ Begin(w, [Idle EXCEPT !.op = "quote", !.pc = "write",
                             !.o = o, !.fee = fee])
    /\ UNCHANGED <<orderTables, riderTables, paymentTables, wechat>>

QuoteWrite(w) ==
    /\ At(w, "quote", "write")
    /\ order' = [order EXCEPT ![req[w].o] =
         [@ EXCEPT !.quote = "QUOTED", !.fee = req[w].fee]]
    /\ Finish(w)
    /\ UNCHANGED <<assignments, riderTables, paymentTables, wechat>>

(* Customer: confirm or reject the quote.                                  *)
AwaitsAnswer(o) == o \in ManualOrders /\ order[o].quote = "QUOTED"

RespondToQuoteRead(w, o, decision) ==
    /\ AwaitsAnswer(o)
    /\ Begin(w, [Idle EXCEPT !.op = "respondToQuote", !.pc = "write",
                             !.o = o, !.to = decision])
    /\ UNCHANGED <<orderTables, riderTables, paymentTables, wechat>>

RespondToQuoteWrite(w) ==
    /\ At(w, "respondToQuote", "write")
    /\ order' = [order EXCEPT ![req[w].o] = [@ EXCEPT !.quote = req[w].to]]
    /\ Finish(w)
    /\ UNCHANGED <<assignments, riderTables, paymentTables, wechat>>

----------------------------------------------------------------------------
OrdersStep(w) ==
    \/ UpdateStatusWrite(w)
    \/ CancelWrite(w)
    \/ HideWrite(w)
    \/ QuoteWrite(w)
    \/ RespondToQuoteWrite(w)

OrdersBegin(w, o) ==
    \/ \E status \in OrderStatus : UpdateStatusRead(w, o, status)
    \/ CancelRead(w, o)
    \/ HideRead(w, o)
    \/ \E fee \in Fees : QuoteRead(w, o, fee)
    \/ \E decision \in {"ACCEPTED", "REJECTED"} :
         RespondToQuoteRead(w, o, decision)
============================================================================
