------------------------- MODULE PlatformInvariant -------------------------
(***************************************************************************)
(* The inductive invariant behind the safety properties of Platform: TLC   *)
(* checks it here as an invariant, PlatformProofs proves it.               *)
(***************************************************************************)
EXTENDS Platform

(* What makes the invariants inductive: what each request in flight has    *)
(* learnt from its stale reads is still true, because the facts it relies  *)
(* on (the payment is booked, the trade captured, the rider set, the       *)
(* refund number chosen) are never taken back.                             *)
Booked(o) == payment[o].txn # "none"

RefundSteps == {"refundMock", "refundLookup", "refundUpsert", "refundCall",
                "refundFailed", "refundPersist"}
RefundResult == {"SUCCEEDED", "PROCESSING", "FAILED"}

(* What a request carries, by its handler and step. *)
Typed(r) ==
    /\ r.op = "none" <=> r.pc = "idle"
    /\ r.op \notin {"none", "setOnline", "changeStatus"} => r.o \in Orders
    /\ r.op \in {"setOnline", "changeStatus", "claim", "assign",
                 "riderUpdateStatus"} => r.rider \in Riders
    /\ r.op = "claim" => r.key \in Keys
    /\ r.op = "createPrepay" => r.trade \in TradeNos
    /\ r.op = "changeStatus" => r.to \in {"ACTIVE", "SUSPENDED", "RESIGNED"}
    /\ r.op = "respondToQuote" => r.to \in QuoteStatus
    /\ r.op = "updateStatus" => r.to \in OrderStatus
    /\ r.op = "riderUpdateStatus" =>
         r.to \in {"ARRIVED", "DELIVERING", "COMPLETED"}
    /\ r.op = "cancel"
         /\ r.pc \in {"write", "closeRead", "closeCall", "closeWrite"}
         => r.to \in PaymentStatus \ {"PAID"}
    /\ r.pc \in {"refundRead"} \cup RefundSteps =>
         r.op \in {"cancel", "refund"}
    /\ r.pc = "refundUpsert" => r.no \in RefundNos
    /\ r.pc = "refundPersist" => r.to \in RefundResult
    /\ r.op = "handleWechatRefundNotification" => r.to \in RefundResult

(* What it has read and goes on to act on. *)
SawBooking(r) ==
    \/ r.op = "updateStatus" /\ r.to \in Progress
    \/ r.op = "riderUpdateStatus" /\ r.pc = "write"
    \/ r.op = "handleWechatRefundNotification"
    \/ r.pc \in RefundSteps
SawRider(r) ==
    \/ r.op = "updateStatus" /\ r.to \in Fulfilment
    \/ r.op = "riderUpdateStatus" /\ r.pc = "write"
SawPayment(r) ==
    \/ r.op \in {"confirmMockPayment", "handleWechatNotification"}
    \/ r.op = "cancel" /\ r.pc \in {"closeCall", "closeWrite"}
SawCapture(r) == r.op = "handleWechatNotification"
ChoseRefundNo(r) == r.pc \in {"refundCall", "refundFailed", "refundPersist"}

Knows(r) ==
    /\ SawBooking(r) => Booked(r.o)
    /\ SawRider(r)   => order[r.o].rider # None
    /\ SawPayment(r) => payment[r.o].status # "NONE"
    /\ SawCapture(r) => trade[payment[r.o].out].state = "SUCCESS"
    /\ ChoseRefundNo(r) => refund[r.o].no # None
    /\ r.pc = "refundCall" => r.no = refund[r.o].no

MoneyInv(o) ==
    /\ Booked(o) => Captured(o) /\ payment[o].status # "NONE"
    /\ payment[o].status # "NONE" => payment[o].out \in TradeNos
    /\ order[o].pay = "PAID" => Booked(o)
    /\ order[o].status \in Progress => Booked(o)
    /\ refund[o].no # None => Booked(o)

(* Whatever WeChat holds, some refund row names it. *)
NoStrayRefund ==
    \A n \in RefundNos : wxRefund[n] # "NONE" =>
      \E o \in Orders : refund[o].no = n

TablesInv ==
    /\ \A o \in Orders : MoneyInv(o)
    /\ TakenOnce
    /\ ClaimIsRemembered
    /\ NoStrayRefund

(* The inductive invariant: every row is of its type, every request carries *)
(* what its step needs and knows only what is still true, and the rows of   *)
(* orders, payments, refunds, assignments and claims agree with each other. *)
IInv ==
    /\ TypeOK
    /\ \A w \in Workers : Typed(req[w]) /\ Knows(req[w])
    /\ TablesInv

(* The facts that are never taken back: every step keeps them, so what      *)
(* another request has learnt stays true while it waits.                    *)
Persist ==
    /\ \A o \in Orders :
         /\ Booked(o) => payment'[o].txn # "none"
         /\ payment[o].status # "NONE" => /\ payment'[o].status # "NONE"
                                         /\ payment'[o].out = payment[o].out
         /\ order[o].rider # None => order'[o].rider = order[o].rider
         /\ refund[o].no # None => refund'[o].no = refund[o].no
    /\ \A t \in TradeNos :
         trade[t].state = "SUCCESS" => trade'[t].state = "SUCCESS"
(* A refund number has one holder: among the refund rows, among the        *)
(* requests that have drawn one and not yet stored it, and between the two. *)
Drawn(r) == r.pc = "refundUpsert"
OneHolder ==
    /\ \A o, p \in Orders :
         refund[o].no # None /\ refund[o].no = refund[p].no => o = p
    /\ \A w \in Workers, o \in Orders :
         Drawn(req[w]) /\ refund[o].no = req[w].no => o = req[w].o
    /\ \A v, w \in Workers :
         Drawn(req[v]) /\ Drawn(req[w]) /\ req[v].no = req[w].no
           => req[v].o = req[w].o
=============================================================================
