--------------------------- MODULE PlatformProofs ---------------------------
(***************************************************************************)
(* The safety properties of Platform, for every set of orders, riders and  *)
(* workers, and the proof that it keeps the DeliveryContract.              *)
(***************************************************************************)
EXTENDS PlatformInvariant, SequenceTheorems, TLAPS

----------------------------------------------------------------------------
(* What a waiting request knows survives any step that keeps Persist.       *)
LEMMA KnowsPersists ==
    ASSUME TypeOK, Persist, \A o \in Orders : MoneyInv(o),
           NEW r \in Request, Typed(r), Knows(r)
    PROVE  Knows(r)'
  <1>1. CASE r.op \notin {"none", "setOnline", "changeStatus"}
    <2>1. r.o \in Orders
      BY <1>1 DEF Typed
    <2>2. SawBooking(r) => Booked(r.o)'
      BY <2>1 DEF Knows, Persist, Booked
    <2>3. SawRider(r) => order'[r.o].rider # None
      BY <2>1 DEF Knows, Persist
    <2>4. SawPayment(r) => payment'[r.o].status # "NONE"
      BY <2>1 DEF Knows, Persist
    <2>5. SawCapture(r) => trade'[payment'[r.o].out].state = "SUCCESS"
      BY <2>1 DEF Knows, Persist, MoneyInv, SawCapture, SawPayment
    <2>6. ChoseRefundNo(r) => /\ refund'[r.o].no # None
                              /\ refund'[r.o].no = refund[r.o].no
      BY <2>1 DEF Knows, Persist
    <2>7. r.pc = "refundCall" => r.no = refund'[r.o].no
      BY <2>6 DEF Knows, ChoseRefundNo
    <2> QED
      BY <2>2, <2>3, <2>4, <2>5, <2>6, <2>7 DEF Knows
  <1>2. CASE r.op \in {"none", "setOnline", "changeStatus"}
    BY <1>2 DEF Typed, Knows, SawBooking, SawRider, SawPayment, SawCapture,
                ChoseRefundNo, RefundSteps
  <1> QED BY <1>1, <1>2

(* It is enough to look at the request that moves and at the tables.        *)
LEMMA StepKeeps ==
    ASSUME IInv, Persist, TypeOK', TablesInv', NEW w \in Workers,
           \A v \in Workers \ {w} : req'[v] = req[v],
           Typed(req'[w]), Knows(req[w])'
    PROVE  IInv'
  <1> SUFFICES ASSUME NEW v \in Workers, v # w
               PROVE  Typed(req'[v]) /\ Knows(req[v])'
    BY DEF IInv
  <1>1. req'[v] = req[v] /\ req[v] \in Request
    BY DEF IInv, TypeOK
  <1>2. Typed(req'[v])
    BY <1>1 DEF IInv
  <1>3. Knows(req[v])'
    <2> DEFINE r == req[v]
    <2>1. Typed(r) /\ Knows(r) /\ r \in Request
      BY <1>1 DEF IInv
    <2> QED BY <1>1, KnowsPersists DEF IInv, TablesInv, Knows
  <1> QED BY <1>2, <1>3

TablesUnchanged ==
    UNCHANGED <<orderTables, riderTables, paymentTables, wechat>>

(* A step that changes no table keeps everything said of the tables.        *)
LEMMA TablesStay ==
    ASSUME IInv, TablesUnchanged, req' \in [Workers -> Request]
    PROVE  Persist /\ TypeOK' /\ TablesInv'
  <1> USE DEF TablesUnchanged, orderTables, riderTables, paymentTables, wechat
  <1>1. Persist
    BY DEF Persist, Booked
  <1>2. TypeOK'
    BY DEF IInv, TypeOK
  <1>3. TablesInv'
    BY DEF IInv, TablesInv, MoneyInv, Booked, Captured, TakenOnce,
           ClaimIsRemembered, NoStrayRefund
  <1> QED BY <1>1, <1>2, <1>3

(* The request w becomes r.                                                 *)
LEMMA Becomes ==
    ASSUME TypeOK, NEW w \in Workers, NEW r \in Request,
           req' = [req EXCEPT ![w] = r]
    PROVE  /\ req' \in [Workers -> Request]
           /\ req'[w] = r
           /\ \A v \in Workers \ {w} : req'[v] = req[v]
  BY DEF TypeOK

LEMMA GoOnKeeps ==
    ASSUME IInv, NEW w \in Workers, NEW r \in Request,
           req' = [req EXCEPT ![w] = r], TablesUnchanged, Typed(r), Knows(r)
    PROVE  IInv'
  <1>1. /\ req' \in [Workers -> Request] /\ req'[w] = r
        /\ \A v \in Workers \ {w} : req'[v] = req[v]
    BY Becomes DEF IInv
  <1>2. Persist /\ TypeOK' /\ TablesInv'
    BY <1>1, TablesStay
  <1>3. Knows(r)'
    BY <1>2, KnowsPersists DEF IInv, TablesInv
  <1> QED BY <1>1, <1>2, <1>3, StepKeeps DEF Knows

LEMMA BeginKeeps ==
    ASSUME IInv, NEW w \in Workers, NEW r \in Request, Begin(w, r),
           TablesUnchanged, Typed(r), Knows(r)
    PROVE  IInv'
  BY GoOnKeeps DEF Begin

LEMMA IdleRequest ==
    ASSUME StoreAssumption
    PROVE  Idle \in Request /\ Typed(Idle) /\ Knows(Idle)
  <1>1. Idle \in Request
    BY DEF Idle, Request, Handler, Step, Outcome
  <1>2. Idle.op = "none" /\ Idle.pc = "idle"
    BY DEF Idle
  <1>3. Typed(Idle) /\ Knows(Idle)
    BY <1>2 DEF Typed, Knows, SawBooking, SawRider, SawPayment, SawCapture,
                ChoseRefundNo, RefundSteps
  <1> QED BY <1>1, <1>3

(* A handler that ends after writing the tables.                            *)
LEMMA FinishKeeps ==
    ASSUME StoreAssumption, IInv, NEW w \in Workers, Finish(w), Persist,
           req' \in [Workers -> Request] => TypeOK' /\ TablesInv'
    PROVE  IInv'
  <1> DEFINE r == Idle
  <1>1. r \in Request /\ Typed(r) /\ Knows(r)
    BY IdleRequest
  <1>2. req' = [req EXCEPT ![w] = r]
    BY DEF Finish
  <1> HIDE DEF r
  <1>3. /\ req' \in [Workers -> Request] /\ req'[w] = r
        /\ \A v \in Workers \ {w} : req'[v] = req[v]
    BY <1>1, <1>2, Becomes DEF IInv
  <1>4. TypeOK' /\ TablesInv'
    BY <1>3
  <1>5. Knows(r)'
    BY <1>1, KnowsPersists DEF IInv, TablesInv
  <1> QED BY <1>1, <1>3, <1>4, <1>5, StepKeeps DEF Knows

LEMMA FinishOnlyKeeps ==
    ASSUME StoreAssumption, IInv, NEW w \in Workers, Finish(w), TablesUnchanged
    PROVE  IInv'
  <1>1. Persist
    BY DEF Persist, Booked, TablesUnchanged, orderTables, paymentTables, wechat
  <1> QED BY <1>1, TablesStay, FinishKeeps

----------------------------------------------------------------------------
(* The requests that arrive, in orders.service.ts.                          *)

LEMMA UpdateStatusReadKeeps ==
    ASSUME StoreAssumption, IInv, NEW w \in Workers, NEW o \in Orders,
           NEW status \in OrderStatus, UpdateStatusRead(w, o, status)
    PROVE  IInv'
  <1> DEFINE r == [Idle EXCEPT !.op = "updateStatus", !.pc = "write",
                               !.o = o, !.to = status]
  <1>1. r \in Request
    BY DEF Idle, Request, Handler, Step, Outcome
  <1>2. r.op = "updateStatus" /\ r.pc = "write" /\ r.o = o /\ r.to = status
    BY DEF Idle
  <1>3. status \in Progress => Booked(o)
    BY DEF UpdateStatusRead, MayProgress, IInv, TablesInv, MoneyInv, Progress
  <1>4. status \in Fulfilment => order[o].rider # None
    BY DEF UpdateStatusRead, InFlow, NextPersistedStatus, Terminal, Fulfilment,
           IInv, TablesInv, TakenOnce, TypeOK, OrderRow, OrderStatus, Progress
  <1>5. Begin(w, r) /\ TablesUnchanged
    BY DEF UpdateStatusRead, TablesUnchanged
  <1> HIDE DEF r
  <1>6. Typed(r) /\ Knows(r)
    BY <1>2, <1>3, <1>4 DEF Typed, Knows, SawBooking, SawRider, SawPayment,
       SawCapture, ChoseRefundNo, RefundSteps
  <1> QED BY <1>1, <1>5, <1>6, BeginKeeps

LEMMA CancelReadKeeps ==
    ASSUME StoreAssumption, IInv, NEW w \in Workers, NEW o \in Orders,
           CancelRead(w, o)
    PROVE  IInv'
  <1> DEFINE r == [Idle EXCEPT !.op = "cancel",
                               !.o = o,
                               !.pc = IF order[o].pay = "PAID" THEN "refundRead"
                                      ELSE "closeRead",
                               !.to = IF order[o].pay = "PAID" THEN "none"
                                      ELSE "CLOSED"]
  <1>1. r \in Request
    BY DEF Idle, Request, Handler, Step, Outcome, PaymentStatus
  <1>2. /\ r.op = "cancel" /\ r.o = o /\ r.pc \in {"refundRead", "closeRead"}
        /\ r.pc = "closeRead" => r.to = "CLOSED"
    BY DEF Idle
  <1>3. Begin(w, r) /\ TablesUnchanged
    BY DEF CancelRead, TablesUnchanged
  <1> HIDE DEF r
  <1>4. Typed(r) /\ Knows(r)
    BY <1>2 DEF Typed, Knows, SawBooking, SawRider, SawPayment,
       SawCapture, ChoseRefundNo, RefundSteps, PaymentStatus
  <1> QED BY <1>1, <1>3, <1>4, BeginKeeps

LEMMA HideReadKeeps ==
    ASSUME StoreAssumption, IInv, NEW w \in Workers, NEW o \in Orders,
           HideRead(w, o)
    PROVE  IInv'
  <1> DEFINE r == [Idle EXCEPT !.op = "hide",
                               !.pc = "write",
                               !.o = o]
  <1>1. r \in Request
    BY DEF Idle, Request, Handler, Step, Outcome
  <1>2. r.op = "hide" /\ r.pc = "write" /\ r.o = o
    BY DEF Idle
  <1>3. Begin(w, r) /\ TablesUnchanged
    BY DEF HideRead, TablesUnchanged
  <1> HIDE DEF r
  <1>4. Typed(r) /\ Knows(r)
    BY <1>2 DEF Typed, Knows, SawBooking, SawRider, SawPayment,
       SawCapture, ChoseRefundNo, RefundSteps
  <1> QED BY <1>1, <1>3, <1>4, BeginKeeps

LEMMA QuoteReadKeeps ==
    ASSUME StoreAssumption, IInv, NEW w \in Workers, NEW o \in Orders,
           NEW fee \in Fees,
           QuoteRead(w, o, fee)
    PROVE  IInv'
  <1> DEFINE r == [Idle EXCEPT !.op = "quote",
                               !.pc = "write",
                               !.o = o,
                               !.fee = fee]
  <1>1. r \in Request
    BY DEF Idle, Request, Handler, Step, Outcome
  <1>2. r.op = "quote" /\ r.pc = "write" /\ r.o = o /\ r.fee = fee
    BY DEF Idle
  <1>3. Begin(w, r) /\ TablesUnchanged
    BY DEF QuoteRead, TablesUnchanged
  <1> HIDE DEF r
  <1>4. Typed(r) /\ Knows(r)
    BY <1>2 DEF Typed, Knows, SawBooking, SawRider, SawPayment,
       SawCapture, ChoseRefundNo, RefundSteps
  <1> QED BY <1>1, <1>3, <1>4, BeginKeeps

LEMMA RespondToQuoteReadKeeps ==
    ASSUME StoreAssumption, IInv, NEW w \in Workers, NEW o \in Orders,
           NEW decision \in {"ACCEPTED", "REJECTED"},
           RespondToQuoteRead(w, o, decision)
    PROVE  IInv'
  <1> DEFINE r == [Idle EXCEPT !.op = "respondToQuote",
                               !.pc = "write",
                               !.o = o,
                               !.to = decision]
  <1>1. r \in Request
    BY DEF Idle, Request, Handler, Step, Outcome, QuoteStatus
  <1>2. r.op = "respondToQuote" /\ r.pc = "write" /\ r.o = o /\ r.to = decision
    BY DEF Idle
  <1>3. Begin(w, r) /\ TablesUnchanged
    BY DEF RespondToQuoteRead, TablesUnchanged
  <1> HIDE DEF r
  <1>4. Typed(r) /\ Knows(r)
    BY <1>2 DEF Typed, Knows, SawBooking, SawRider, SawPayment,
       SawCapture, ChoseRefundNo, RefundSteps, QuoteStatus
  <1> QED BY <1>1, <1>3, <1>4, BeginKeeps

----------------------------------------------------------------------------
(* The requests that arrive, in payments.service.ts.                        *)

LEMMA CreatePrepayReadKeeps ==
    ASSUME StoreAssumption, IInv, NEW w \in Workers, NEW o \in Orders,
           NEW t \in TradeNos,
           CreatePrepayRead(w, o, t)
    PROVE  IInv'
  <1> DEFINE r == [Idle EXCEPT !.op = "createPrepay",
                               !.o = o,
                               !.fee = order[o].fee,
                               !.trade = t,
                               !.prepay = payment[o].prepay,
                               !.pc = IF \/ isMockPaymentEnabled
                                         \/ payment[o].prepay # None
                                       THEN "savePrepay" ELSE "requestPrepay"]
  <1>1. r \in Request
    BY DEF Idle, Request, Handler, Step, Outcome, IInv, TypeOK, OrderRow,
       PaymentRow
  <1>2. /\ r.op = "createPrepay" /\ r.o = o /\ r.trade = t
        /\ r.pc \in {"savePrepay", "requestPrepay"}
    BY DEF Idle
  <1>3. Begin(w, r) /\ TablesUnchanged
    BY DEF CreatePrepayRead, TablesUnchanged
  <1> HIDE DEF r
  <1>4. Typed(r) /\ Knows(r)
    BY <1>2 DEF Typed, Knows, SawBooking, SawRider, SawPayment,
       SawCapture, ChoseRefundNo, RefundSteps
  <1> QED BY <1>1, <1>3, <1>4, BeginKeeps

LEMMA ConfirmMockPaymentReadKeeps ==
    ASSUME StoreAssumption, IInv, NEW w \in Workers, NEW o \in Orders,
           ConfirmMockPaymentRead(w, o)
    PROVE  IInv'
  <1> DEFINE r == [Idle EXCEPT !.op = "confirmMockPayment",
                               !.pc = "write",
                               !.o = o]
  <1>1. r \in Request
    BY DEF Idle, Request, Handler, Step, Outcome
  <1>2. r.op = "confirmMockPayment" /\ r.pc = "write" /\ r.o = o
    BY DEF Idle
  <1>3. payment[o].status # "NONE"
    BY DEF ConfirmMockPaymentRead
  <1>4. Begin(w, r) /\ TablesUnchanged
    BY DEF ConfirmMockPaymentRead, TablesUnchanged
  <1> HIDE DEF r
  <1>5. Typed(r) /\ Knows(r)
    BY <1>2, <1>3 DEF Typed, Knows, SawBooking, SawRider, SawPayment,
       SawCapture, ChoseRefundNo, RefundSteps
  <1> QED BY <1>1, <1>4, <1>5, BeginKeeps

LEMMA HandleWechatNotificationReadKeeps ==
    ASSUME StoreAssumption, IInv, NEW w \in Workers, NEW o \in Orders,
           NEW t \in TradeNos,
           HandleWechatNotificationRead(w, o, t)
    PROVE  IInv'
  <1> DEFINE r == [Idle EXCEPT !.op = "handleWechatNotification",
                               !.pc = "write",
                               !.o = o]
  <1>1. r \in Request
    BY DEF Idle, Request, Handler, Step, Outcome
  <1>2. r.op = "handleWechatNotification" /\ r.pc = "write" /\ r.o = o
    BY DEF Idle
  <1>3. payment[o].status # "NONE" /\ trade[payment[o].out].state = "SUCCESS"
    BY DEF HandleWechatNotificationRead, Acceptable
  <1>4. Begin(w, r) /\ TablesUnchanged
    BY DEF HandleWechatNotificationRead, TablesUnchanged
  <1> HIDE DEF r
  <1>5. Typed(r) /\ Knows(r)
    BY <1>2, <1>3 DEF Typed, Knows, SawBooking, SawRider, SawPayment,
       SawCapture, ChoseRefundNo, RefundSteps
  <1> QED BY <1>1, <1>4, <1>5, BeginKeeps

LEMMA HandleWechatRefundNotificationReadKeeps ==
    ASSUME StoreAssumption, IInv, NEW w \in Workers, NEW o \in Orders,
           NEW n \in RefundNos,
           HandleWechatRefundNotificationRead(w, o, n)
    PROVE  IInv'
  <1> DEFINE r == [Idle EXCEPT !.op = "handleWechatRefundNotification",
                               !.pc = "write",
                               !.o = o,
                               !.to = mapWechatRefundStatus(wxRefund[n])]
  <1>1. r \in Request
    BY DEF Idle, Request, Handler, Step, Outcome,
           RefundRecordStatus, mapWechatRefundStatus
  <1>2. r.op = "handleWechatRefundNotification" /\ r.pc = "write" /\ r.o = o
        /\ r.to \in RefundResult
    BY DEF Idle, mapWechatRefundStatus, RefundResult
  <1>3. Booked(o)
    BY DEF HandleWechatRefundNotificationRead, IInv, TablesInv, MoneyInv,
           StoreAssumption
  <1>4. Begin(w, r) /\ TablesUnchanged
    BY DEF HandleWechatRefundNotificationRead, TablesUnchanged
  <1> HIDE DEF r
  <1>5. Typed(r) /\ Knows(r)
    BY <1>2, <1>3 DEF Typed, Knows, SawBooking, SawRider, SawPayment,
       SawCapture, ChoseRefundNo, RefundSteps
  <1> QED BY <1>1, <1>4, <1>5, BeginKeeps

LEMMA RefundBeginKeeps ==
    ASSUME StoreAssumption, IInv, NEW w \in Workers, NEW o \in Orders,
           RefundBegin(w, o)
    PROVE  IInv'
  <1> DEFINE r == [Idle EXCEPT !.op = "refund",
                               !.pc = "refundRead",
                               !.o = o]
  <1>1. r \in Request
    BY DEF Idle, Request, Handler, Step, Outcome
  <1>2. r.op = "refund" /\ r.pc = "refundRead" /\ r.o = o
    BY DEF Idle
  <1>3. Begin(w, r) /\ TablesUnchanged
    BY DEF RefundBegin, TablesUnchanged
  <1> HIDE DEF r
  <1>4. Typed(r) /\ Knows(r)
    BY <1>2 DEF Typed, Knows, SawBooking, SawRider, SawPayment,
       SawCapture, ChoseRefundNo, RefundSteps
  <1> QED BY <1>1, <1>3, <1>4, BeginKeeps

----------------------------------------------------------------------------
(* The requests that arrive, in riders.service.ts.                          *)

LEMMA ClaimReadKeeps ==
    ASSUME StoreAssumption, IInv, NEW w \in Workers, NEW r0 \in Riders,
           NEW o \in Orders,
           NEW k \in Keys,
           ClaimRead(w, r0, o, k)
    PROVE  IInv'
  <1> DEFINE r == [Idle EXCEPT !.op = "claim",
                               !.pc = "claimTx",
                               !.o = o,
                               !.rider = r0,
                               !.key = k]
  <1>1. r \in Request
    BY DEF Idle, Request, Handler, Step, Outcome
  <1>2. /\ r.op = "claim" /\ r.pc = "claimTx" /\ r.o = o
        /\ r.rider = r0 /\ r.key = k
    BY DEF Idle
  <1>3. Begin(w, r) /\ TablesUnchanged
    BY DEF ClaimRead, TablesUnchanged
  <1> HIDE DEF r
  <1>4. Typed(r) /\ Knows(r)
    BY <1>2 DEF Typed, Knows, SawBooking, SawRider, SawPayment,
       SawCapture, ChoseRefundNo, RefundSteps
  <1> QED BY <1>1, <1>3, <1>4, BeginKeeps

LEMMA AssignReadKeeps ==
    ASSUME StoreAssumption, IInv, NEW w \in Workers, NEW r0 \in Riders,
           NEW o \in Orders,
           AssignRead(w, r0, o)
    PROVE  IInv'
  <1> DEFINE r == [Idle EXCEPT !.op = "assign",
                               !.pc = "assignTx",
                               !.o = o,
                               !.rider = r0]
  <1>1. r \in Request
    BY DEF Idle, Request, Handler, Step, Outcome
  <1>2. r.op = "assign" /\ r.pc = "assignTx" /\ r.o = o /\ r.rider = r0
    BY DEF Idle
  <1>3. Begin(w, r) /\ TablesUnchanged
    BY DEF AssignRead, TablesUnchanged
  <1> HIDE DEF r
  <1>4. Typed(r) /\ Knows(r)
    BY <1>2 DEF Typed, Knows, SawBooking, SawRider, SawPayment,
       SawCapture, ChoseRefundNo, RefundSteps
  <1> QED BY <1>1, <1>3, <1>4, BeginKeeps

LEMMA RiderUpdateBeginKeeps ==
    ASSUME StoreAssumption, IInv, NEW w \in Workers, NEW r0 \in Riders,
           NEW o \in Orders,
           NEW status \in {"ARRIVED", "DELIVERING", "COMPLETED"},
           RiderUpdateBegin(w, r0, o, status)
    PROVE  IInv'
  <1> DEFINE r == [Idle EXCEPT !.op = "riderUpdateStatus",
                               !.pc = "ownedOrder",
                               !.o = o,
                               !.rider = r0,
                               !.to = status]
  <1>1. r \in Request
    BY DEF Idle, Request, Handler, Step, Outcome,
           OrderStatus, Progress
  <1>2. /\ r.op = "riderUpdateStatus" /\ r.pc = "ownedOrder" /\ r.o = o
        /\ r.rider = r0 /\ r.to = status
    BY DEF Idle
  <1>3. Begin(w, r) /\ TablesUnchanged
    BY DEF RiderUpdateBegin, TablesUnchanged
  <1> HIDE DEF r
  <1>4. Typed(r) /\ Knows(r)
    BY <1>2 DEF Typed, Knows, SawBooking, SawRider, SawPayment,
       SawCapture, ChoseRefundNo, RefundSteps
  <1> QED BY <1>1, <1>3, <1>4, BeginKeeps

LEMMA SetOnlineReadKeeps ==
    ASSUME StoreAssumption, IInv, NEW w \in Workers, NEW r0 \in Riders,
           NEW online \in {"ONLINE", "OFFLINE"},
           SetOnlineRead(w, r0, online)
    PROVE  IInv'
  <1> DEFINE r == [Idle EXCEPT !.op = "setOnline",
                               !.pc = "write",
                               !.rider = r0,
                               !.to = online]
  <1>1. r \in Request
    BY DEF Idle, Request, Handler, Step, Outcome
  <1>2. r.op = "setOnline" /\ r.pc = "write" /\ r.rider = r0 /\ r.to = online
    BY DEF Idle
  <1>3. Begin(w, r) /\ TablesUnchanged
    BY DEF SetOnlineRead, TablesUnchanged
  <1> HIDE DEF r
  <1>4. Typed(r) /\ Knows(r)
    BY <1>2 DEF Typed, Knows, SawBooking, SawRider, SawPayment,
       SawCapture, ChoseRefundNo, RefundSteps
  <1> QED BY <1>1, <1>3, <1>4, BeginKeeps

LEMMA ChangeStatusReadKeeps ==
    ASSUME StoreAssumption, IInv, NEW w \in Workers, NEW r0 \in Riders,
           NEW role \in {"ACTIVE", "SUSPENDED", "RESIGNED"},
           ChangeStatusRead(w, r0, role)
    PROVE  IInv'
  <1> DEFINE r == [Idle EXCEPT !.op = "changeStatus",
                               !.pc = "write",
                               !.rider = r0,
                               !.to = role]
  <1>1. r \in Request
    BY DEF Idle, Request, Handler, Step, Outcome
  <1>2. r.op = "changeStatus" /\ r.pc = "write" /\ r.rider = r0 /\ r.to = role
    BY DEF Idle
  <1>3. Begin(w, r) /\ TablesUnchanged
    BY DEF ChangeStatusRead, TablesUnchanged
  <1> HIDE DEF r
  <1>4. Typed(r) /\ Knows(r)
    BY <1>2 DEF Typed, Knows, SawBooking, SawRider, SawPayment,
       SawCapture, ChoseRefundNo, RefundSteps
  <1> QED BY <1>1, <1>3, <1>4, BeginKeeps

----------------------------------------------------------------------------
(* The steps that write rows by id.                                         *)

(* The request w goes on as r while the tables change.                      *)
LEMMA MoveKeeps ==
    ASSUME IInv, NEW w \in Workers, NEW r \in Request,
           req' = [req EXCEPT ![w] = r], Typed(r), Knows(r)', Persist,
           req' \in [Workers -> Request] => TypeOK' /\ TablesInv'
    PROVE  IInv'
  <1>1. /\ req' \in [Workers -> Request] /\ req'[w] = r
        /\ \A v \in Workers \ {w} : req'[v] = req[v]
    BY Becomes DEF IInv
  <1> QED BY <1>1, StepKeeps DEF Knows

(* What a write to the rows of an order must respect: the rider, the trade  *)
(* and the refund number stay, a booking stays and is true, and an order    *)
(* makes progress or counts as paid only when booked.                       *)
Allowed(o, ord, pay, ref) ==
    /\ ord.rider = order[o].rider
    /\ ord.status \in Fulfilment => order[o].rider # None
    /\ ord.status \in Progress \/ ord.pay = "PAID" => pay.txn # "none"
    /\ pay.out = payment[o].out
    /\ pay.status = "NONE" <=> payment[o].status = "NONE"
    /\ \/ pay.txn = payment[o].txn
       \/ payment[o].status # "NONE" /\ pay.txn = "MOCK"
       \/ /\ payment[o].status # "NONE" /\ pay.txn = "WX"
          /\ trade[payment[o].out].state = "SUCCESS"
    /\ ref.no = refund[o].no

LEMMA AllowedNow ==
    ASSUME IInv, NEW o \in Orders
    PROVE  Allowed(o, order[o], payment[o], refund[o])
  BY DEF Allowed, IInv, TablesInv, TakenOnce, MoneyInv, Booked

LEMMA RowsKeep ==
    ASSUME IInv, UNCHANGED <<assignments, idempotency, trade, wxRefund>>,
           \A o \in Orders : Allowed(o, order'[o], payment'[o], refund'[o])
    PROVE  Persist /\ TablesInv'
  <1>1. Persist
    BY DEF Allowed, Persist, Booked
  <1>2. ASSUME NEW o \in Orders PROVE MoneyInv(o)'
    BY DEF Allowed, IInv, TablesInv, MoneyInv, Booked, Captured
  <1>3. TakenOnce'
    BY DEF Allowed, IInv, TablesInv, TakenOnce
  <1>4. ClaimIsRemembered'
    BY DEF Allowed, IInv, TypeOK, TablesInv, ClaimIsRemembered
  <1>5. NoStrayRefund'
    <2>1. \A o \in Orders : refund'[o].no = refund[o].no
      BY DEF Allowed
    <2> QED BY <2>1 DEF IInv, TablesInv, NoStrayRefund
  <1> QED BY <1>1, <1>2, <1>3, <1>4, <1>5 DEF TablesInv

(* The rows of one order are replaced, each by itself or by another.        *)
LEMMA RowsWritten ==
    ASSUME IInv, NEW o \in Orders, NEW ord \in OrderRow,
           NEW pay \in PaymentRow, NEW ref \in RefundRow,
           order' = [order EXCEPT ![o] = ord],
           payment' = [payment EXCEPT ![o] = pay],
           refund' = [refund EXCEPT ![o] = ref],
           UNCHANGED <<assignments, riderTables, wechat>>,
           Allowed(o, ord, pay, ref)
    PROVE  /\ Persist /\ TablesInv'
           /\ req' \in [Workers -> Request] => TypeOK'
  <1>1. /\ order' \in [Orders -> OrderRow] /\ order'[o] = ord
        /\ payment' \in [Orders -> PaymentRow] /\ payment'[o] = pay
        /\ refund' \in [Orders -> RefundRow] /\ refund'[o] = ref
        /\ \A x \in Orders \ {o} : /\ order'[x] = order[x]
                                   /\ payment'[x] = payment[x]
                                   /\ refund'[x] = refund[x]
    BY DEF IInv, TypeOK
  <1>2. \A x \in Orders : Allowed(x, order'[x], payment'[x], refund'[x])
    BY <1>1, AllowedNow
  <1>3. Persist /\ TablesInv'
    BY <1>2, RowsKeep DEF riderTables, wechat
  <1> QED BY <1>1, <1>3 DEF IInv, TypeOK, riderTables, wechat

(* A table that stays has its row replaced by itself.                       *)
LEMMA SameRows ==
    ASSUME IInv, NEW o \in Orders
    PROVE  /\ order[o] \in OrderRow /\ order = [order EXCEPT ![o] = order[o]]
           /\ payment[o] \in PaymentRow
           /\ payment = [payment EXCEPT ![o] = payment[o]]
           /\ refund[o] \in RefundRow
           /\ refund = [refund EXCEPT ![o] = refund[o]]
  BY DEF IInv, TypeOK

LEMMA OrderWriteKeeps ==
    ASSUME StoreAssumption, IInv, NEW w \in Workers, Finish(w),
           NEW o \in Orders, NEW ord \in OrderRow,
           order' = [order EXCEPT ![o] = ord],
           Allowed(o, ord, payment[o], refund[o]),
           UNCHANGED <<assignments, riderTables, paymentTables, wechat>>
    PROVE  IInv'
  <1>1. /\ Persist /\ TablesInv'
        /\ req' \in [Workers -> Request] => TypeOK'
    BY SameRows, RowsWritten DEF paymentTables
  <1> QED BY <1>1, FinishKeeps

LEMMA UpdateStatusWriteKeeps ==
    ASSUME StoreAssumption, IInv, NEW w \in Workers, UpdateStatusWrite(w)
    PROVE  IInv'
  <1> DEFINE o   == req[w].o
             s   == req[w].to
             row == [order[o] EXCEPT !.status = s,
                       !.cancelledBy = IF s = "CANCELLED" THEN "operator"
                                       ELSE order[o].cancelledBy]
  <1>1. o \in Orders /\ s \in OrderStatus
    BY DEF UpdateStatusWrite, At, IInv, Typed
  <1>2. order[o] \in OrderRow
    BY <1>1 DEF IInv, TypeOK
  <1>3. row \in OrderRow
    BY <1>1, <1>2 DEF OrderRow
  <1>4. row.status = s /\ row.rider = order[o].rider /\ row.pay = order[o].pay
    BY <1>2 DEF OrderRow
  <1>5. /\ s \in Progress => Booked(o)
        /\ s \in Fulfilment => order[o].rider # None
        /\ order[o].pay = "PAID" => Booked(o)
    BY <1>1 DEF UpdateStatusWrite, At, IInv, Knows, SawBooking, SawRider,
       TablesInv, MoneyInv
  <1>6. order' = [order EXCEPT ![o] = row]
    BY DEF UpdateStatusWrite
  <1> HIDE DEF row
  <1> QED
    BY <1>1, <1>3, <1>4, <1>5, <1>6, AllowedNow, OrderWriteKeeps
       DEF UpdateStatusWrite, Allowed, Booked

LEMMA HideWriteKeeps ==
    ASSUME StoreAssumption, IInv, NEW w \in Workers, HideWrite(w)
    PROVE  IInv'
  <1> DEFINE o   == req[w].o
             row == [order[o] EXCEPT !.hidden = TRUE]
  <1>1. o \in Orders
    BY DEF HideWrite, At, IInv, Typed
  <1>2. order[o] \in OrderRow
    BY <1>1 DEF IInv, TypeOK
  <1>3. /\ row \in OrderRow /\ row.status = order[o].status
        /\ row.rider = order[o].rider /\ row.pay = order[o].pay
    BY <1>2 DEF OrderRow
  <1>4. order' = [order EXCEPT ![o] = row]
    BY DEF HideWrite
  <1> HIDE DEF row
  <1> QED
    BY <1>1, <1>3, <1>4, AllowedNow, OrderWriteKeeps
       DEF HideWrite, Allowed

LEMMA QuoteWriteKeeps ==
    ASSUME StoreAssumption, IInv, NEW w \in Workers, QuoteWrite(w)
    PROVE  IInv'
  <1> DEFINE o   == req[w].o
             fee == req[w].fee
             row == [order[o] EXCEPT !.quote = "QUOTED", !.fee = fee]
  <1>1. o \in Orders /\ fee \in Fees \cup {0}
    BY DEF QuoteWrite, At, IInv, Typed, TypeOK, Request
  <1>2. order[o] \in OrderRow
    BY <1>1 DEF IInv, TypeOK
  <1>3. row \in OrderRow
    BY <1>1, <1>2 DEF OrderRow, QuoteStatus
  <1>4. /\ row.status = order[o].status
        /\ row.rider = order[o].rider /\ row.pay = order[o].pay
    BY <1>2 DEF OrderRow
  <1>5. order' = [order EXCEPT ![o] = row]
    BY DEF QuoteWrite
  <1> HIDE DEF row
  <1> QED
    BY <1>1, <1>3, <1>4, <1>5, AllowedNow, OrderWriteKeeps
       DEF QuoteWrite, Allowed

LEMMA RespondToQuoteWriteKeeps ==
    ASSUME StoreAssumption, IInv, NEW w \in Workers, RespondToQuoteWrite(w)
    PROVE  IInv'
  <1> DEFINE o   == req[w].o
             row == [order[o] EXCEPT !.quote = req[w].to]
  <1>1. o \in Orders /\ req[w].to \in QuoteStatus
    BY DEF RespondToQuoteWrite, At, IInv, Typed
  <1>2. order[o] \in OrderRow
    BY <1>1 DEF IInv, TypeOK
  <1>3. row \in OrderRow
    BY <1>1, <1>2 DEF OrderRow
  <1>4. /\ row.status = order[o].status
        /\ row.rider = order[o].rider /\ row.pay = order[o].pay
    BY <1>2 DEF OrderRow
  <1>5. order' = [order EXCEPT ![o] = row]
    BY DEF RespondToQuoteWrite
  <1> HIDE DEF row
  <1> QED
    BY <1>1, <1>3, <1>4, <1>5, AllowedNow, OrderWriteKeeps
       DEF RespondToQuoteWrite, Allowed

LEMMA CancelWriteKeeps ==
    ASSUME StoreAssumption, IInv, NEW w \in Workers, CancelWrite(w)
    PROVE  IInv'
  <1> DEFINE o   == req[w].o
             s   == req[w].to
             row == [order[o] EXCEPT !.status = "CANCELLED", !.pay = s,
                                     !.cancelledBy = "customer"]
             pay == [payment[o] EXCEPT
                       !.status = IF payment[o].status = "PENDING"
                                  THEN "CLOSED" ELSE payment[o].status]
  <1>1. o \in Orders /\ s \in PaymentStatus \ {"PAID"}
    BY DEF CancelWrite, At, IInv, Typed
  <1>2. order[o] \in OrderRow /\ payment[o] \in PaymentRow
    BY <1>1 DEF IInv, TypeOK
  <1>3. row \in OrderRow
    BY <1>1, <1>2 DEF OrderRow, OrderStatus
  <1>4. row.status = "CANCELLED" /\ row.rider = order[o].rider /\ row.pay = s
    BY <1>2 DEF OrderRow
  <1>5. pay \in PaymentRow
    BY <1>2 DEF PaymentRow, PaymentRecordStatus
  <1>6. /\ pay.out = payment[o].out /\ pay.txn = payment[o].txn
        /\ pay.status = "NONE" <=> payment[o].status = "NONE"
    BY <1>2 DEF PaymentRow
  <1>7. /\ order' = [order EXCEPT ![o] = row]
        /\ payment' = [payment EXCEPT ![o] = pay]
    BY DEF CancelWrite
  <1> HIDE DEF row, pay
  <1>8. Allowed(o, row, pay, refund[o])
    BY <1>1, <1>4, <1>6, AllowedNow DEF Allowed, Fulfilment, Progress
  <1>9. refund[o] \in RefundRow /\ refund' = [refund EXCEPT ![o] = refund[o]]
    BY <1>1, SameRows DEF CancelWrite
  <1>10. /\ Persist /\ TablesInv'
         /\ req' \in [Workers -> Request] => TypeOK'
    BY <1>1, <1>3, <1>5, <1>7, <1>8, <1>9, RowsWritten DEF CancelWrite
  <1> QED BY <1>10, FinishKeeps DEF CancelWrite

----------------------------------------------------------------------------
(* The steps of payments.service.ts that write rows.                        *)

LEMMA RecordPaymentKeeps ==
    ASSUME StoreAssumption, IInv, NEW w \in Workers, Finish(w),
           NEW o \in Orders, NEW txn \in {"MOCK", "WX"},
           payment[o].status # "NONE",
           txn = "WX" => trade[payment[o].out].state = "SUCCESS",
           RecordPayment(o, txn),
           UNCHANGED <<assignments, riderTables, refund, wechat>>
    PROVE  IInv'
  <1> DEFINE ord == [order[o] EXCEPT !.pay = "PAID"]
             pay == [payment[o] EXCEPT !.status = "SUCCEEDED", !.txn = txn]
  <1>1. /\ order[o] \in OrderRow /\ payment[o] \in PaymentRow
        /\ refund[o] \in RefundRow
        /\ refund' = [refund EXCEPT ![o] = refund[o]]
    BY SameRows
  <1>2. /\ ord \in OrderRow /\ ord.status = order[o].status
        /\ ord.rider = order[o].rider
    BY <1>1 DEF OrderRow, PaymentStatus
  <1>3. /\ pay \in PaymentRow /\ pay.status = "SUCCEEDED" /\ pay.txn = txn
        /\ pay.out = payment[o].out
    BY <1>1 DEF PaymentRow, PaymentRecordStatus
  <1>4. /\ order' = [order EXCEPT ![o] = ord]
        /\ payment' = [payment EXCEPT ![o] = pay]
    BY DEF RecordPayment
  <1> HIDE DEF ord, pay
  <1>5. Allowed(o, ord, pay, refund[o])
    BY <1>2, <1>3, AllowedNow DEF Allowed
  <1>6. /\ Persist /\ TablesInv'
        /\ req' \in [Workers -> Request] => TypeOK'
    BY <1>1, <1>2, <1>3, <1>4, <1>5, RowsWritten
  <1> QED BY <1>6, FinishKeeps

LEMMA ConfirmMockPaymentWriteKeeps ==
    ASSUME StoreAssumption, IInv, NEW w \in Workers, ConfirmMockPaymentWrite(w)
    PROVE  IInv'
  <1>1. req[w].o \in Orders /\ payment[req[w].o].status # "NONE"
    BY DEF ConfirmMockPaymentWrite, At, IInv, Typed, Knows, SawPayment
  <1> QED BY <1>1, RecordPaymentKeeps DEF ConfirmMockPaymentWrite

LEMMA HandleWechatNotificationWriteKeeps ==
    ASSUME StoreAssumption, IInv, NEW w \in Workers,
           HandleWechatNotificationWrite(w)
    PROVE  IInv'
  <1>1. /\ req[w].o \in Orders /\ payment[req[w].o].status # "NONE"
        /\ trade[payment[req[w].o].out].state = "SUCCESS"
    BY DEF HandleWechatNotificationWrite, At, IInv, Typed, Knows, SawPayment,
       SawCapture
  <1> QED BY <1>1, RecordPaymentKeeps DEF HandleWechatNotificationWrite

(* persistRefundResult on a booked order.                                   *)
LEMMA PersistRefundKeeps ==
    ASSUME IInv, NEW o \in Orders, Booked(o), NEW s \in RefundResult,
           persistRefundResult(o, s),
           UNCHANGED <<assignments, riderTables, wechat>>
    PROVE  /\ Persist /\ TablesInv'
           /\ req' \in [Workers -> Request] => TypeOK'
  <1> DEFINE p == IF order[o].status # "CANCELLED" THEN order[o].pay
                  ELSE IF s = "SUCCEEDED" THEN "REFUNDED" ELSE "REFUNDING"
             q == CASE s = "SUCCEEDED" -> "REFUNDED"
                    [] s = "PROCESSING" -> "REFUNDING"
                    [] OTHER -> "FAILED"
             ord == [order[o] EXCEPT !.pay = p]
             pay == [payment[o] EXCEPT !.status = q]
             ref == [refund[o] EXCEPT !.status = s]
  <1>1. /\ order[o] \in OrderRow /\ payment[o] \in PaymentRow
        /\ refund[o] \in RefundRow
    BY SameRows
  <1>2. /\ p \in PaymentStatus
        /\ q \in PaymentRecordStatus \ {"NONE"}
    BY <1>1 DEF OrderRow, PaymentStatus, PaymentRecordStatus
  <1>3. /\ order' = [order EXCEPT ![o] = ord]
        /\ payment' = [payment EXCEPT ![o] = pay]
        /\ refund' = [refund EXCEPT ![o] = ref]
    BY DEF persistRefundResult
  <1> HIDE DEF p, q
  <1>4. /\ ord \in OrderRow /\ ord.status = order[o].status
        /\ ord.rider = order[o].rider
    BY <1>1, <1>2 DEF OrderRow
  <1>5. /\ pay \in PaymentRow /\ pay.status = q /\ pay.txn = payment[o].txn
        /\ pay.out = payment[o].out
    BY <1>1, <1>2 DEF PaymentRow
  <1>6. ref \in RefundRow /\ ref.no = refund[o].no
    BY <1>1 DEF RefundRow, RefundRecordStatus, RefundResult
  <1> HIDE DEF ord, pay, ref
  <1>7. payment[o].status # "NONE" /\ payment[o].txn # "none"
    BY DEF IInv, TablesInv, MoneyInv, Booked
  <1>8. Allowed(o, ord, pay, ref)
    BY <1>2, <1>4, <1>5, <1>6, <1>7, AllowedNow DEF Allowed
  <1> QED BY <1>3, <1>4, <1>5, <1>6, <1>8, RowsWritten

LEMMA HandleWechatRefundNotificationWriteKeeps ==
    ASSUME StoreAssumption, IInv, NEW w \in Workers,
           HandleWechatRefundNotificationWrite(w)
    PROVE  IInv'
  <1>1. /\ req[w].o \in Orders /\ Booked(req[w].o)
        /\ req[w].to \in RefundResult
    BY DEF HandleWechatRefundNotificationWrite, At, IInv, Typed, Knows,
       SawBooking
  <1> QED
    BY <1>1, PersistRefundKeeps, FinishKeeps
       DEF HandleWechatRefundNotificationWrite

(* Only the payment row's status changes, to one a row may have.            *)
LEMMA PaymentStatusKeeps ==
    ASSUME IInv, NEW o \in Orders, payment[o].status # "NONE",
           NEW s \in PaymentRecordStatus \ {"NONE"},
           payment' = [payment EXCEPT ![o] = [@ EXCEPT !.status = s]],
           UNCHANGED <<orderTables, riderTables, refund, wechat>>
    PROVE  /\ Persist /\ TablesInv'
           /\ req' \in [Workers -> Request] => TypeOK'
  <1> DEFINE pay == [payment[o] EXCEPT !.status = s]
  <1>1. /\ order[o] \in OrderRow /\ order' = [order EXCEPT ![o] = order[o]]
        /\ payment[o] \in PaymentRow
        /\ refund[o] \in RefundRow
        /\ refund' = [refund EXCEPT ![o] = refund[o]]
    BY SameRows DEF orderTables
  <1>2. /\ pay \in PaymentRow /\ pay.status = s /\ pay.txn = payment[o].txn
        /\ pay.out = payment[o].out
    BY <1>1 DEF PaymentRow
  <1>3. payment' = [payment EXCEPT ![o] = pay]
    OBVIOUS
  <1> HIDE DEF pay
  <1>4. Allowed(o, order[o], pay, refund[o])
    BY <1>2, AllowedNow DEF Allowed
  <1>5. UNCHANGED <<assignments, riderTables, wechat>>
    BY DEF orderTables
  <1> QED BY <1>1, <1>2, <1>3, <1>4, <1>5, RowsWritten

----------------------------------------------------------------------------
(* The steps of payments.service.ts that go on to another step.             *)

(* Goto leaves all of the request but its step.                             *)
MovedTo(q, r, pc) ==
    /\ r.op = q.op /\ r.pc = pc /\ r.o = q.o /\ r.to = q.to /\ r.no = q.no
    /\ r.rider = q.rider /\ r.key = q.key /\ r.trade = q.trade

LEMMA GotoMoves ==
    ASSUME IInv, NEW w \in Workers, NEW pc \in Step, Goto(w, pc)
    PROVE  \E r \in Request : /\ req' = [req EXCEPT ![w] = r]
                              /\ MovedTo(req[w], r, pc)
  <1> DEFINE r == [req[w] EXCEPT !.pc = pc]
  <1>1. req[w] \in Request
    BY DEF IInv, TypeOK
  <1>2. r \in Request /\ MovedTo(req[w], r, pc)
    BY <1>1 DEF Request, MovedTo
  <1>3. req' = [req EXCEPT ![w] = r]
    BY DEF Goto
  <1> HIDE DEF r
  <1> QED BY <1>2, <1>3

LEMMA ClosePendingPaymentReadKeeps ==
    ASSUME StoreAssumption, IInv, NEW w \in Workers, ClosePendingPaymentRead(w)
    PROVE  IInv'
  <1> DEFINE pc == CloseRoute(req[w].o)
  <1>1. /\ pc \in {"write", "closeWrite", "closeCall"}
        /\ pc # "write" => payment[req[w].o].status = "PENDING"
    BY DEF CloseRoute
  <1>2. req[w].op = "cancel" /\ req[w].pc = "closeRead" /\ Goto(w, pc)
    BY DEF ClosePendingPaymentRead, At
  <1> HIDE DEF pc
  <1>3. PICK r \in Request : /\ req' = [req EXCEPT ![w] = r]
                            /\ MovedTo(req[w], r, pc)
    <2>1. pc \in Step
      BY <1>1 DEF Step
    <2> QED BY <1>2, <2>1, GotoMoves
  <1>4. req[w].o \in Orders /\ req[w].to \in PaymentStatus \ {"PAID"}
    BY <1>2 DEF IInv, Typed
  <1>5. Typed(r) /\ Knows(r)
    BY <1>1, <1>2, <1>3, <1>4 DEF MovedTo, Typed, Knows, SawBooking,
       SawRider, SawPayment, SawCapture, ChoseRefundNo, RefundSteps
  <1> QED
    BY <1>3, <1>5, GoOnKeeps DEF ClosePendingPaymentRead, TablesUnchanged

LEMMA ClosePendingPaymentWriteKeeps ==
    ASSUME StoreAssumption, IInv, NEW w \in Workers,
           ClosePendingPaymentWrite(w)
    PROVE  IInv'
  <1> DEFINE o == req[w].o
  <1>1. req[w].op = "cancel" /\ req[w].pc = "closeWrite" /\ Goto(w, "write")
    BY DEF ClosePendingPaymentWrite, At
  <1>2. PICK r \in Request : /\ req' = [req EXCEPT ![w] = r]
                            /\ MovedTo(req[w], r, "write")
    <2>1. "write" \in Step
      BY DEF Step
    <2> QED BY <1>1, <2>1, GotoMoves
  <1>3. /\ o \in Orders /\ req[w].to \in PaymentStatus \ {"PAID"}
        /\ payment[o].status # "NONE"
    BY <1>1 DEF IInv, Typed, Knows, SawPayment
  <1>4. Typed(r) /\ Knows(r)'
    BY <1>1, <1>2, <1>3 DEF MovedTo, Typed, Knows, SawBooking, SawRider,
       SawPayment, SawCapture, ChoseRefundNo, RefundSteps
  <1>5. /\ "CLOSED" \in PaymentRecordStatus \ {"NONE"}
        /\ payment' = [payment EXCEPT ![o] = [@ EXCEPT !.status = "CLOSED"]]
    BY DEF PaymentRecordStatus, ClosePendingPaymentWrite
  <1>6. UNCHANGED <<orderTables, riderTables, refund, wechat>>
    BY DEF ClosePendingPaymentWrite
  <1> HIDE DEF o
  <1>7. /\ Persist /\ TablesInv'
        /\ req' \in [Workers -> Request] => TypeOK'
    BY <1>3, <1>5, <1>6, PaymentStatusKeeps
  <1> QED BY <1>2, <1>4, <1>7, MoveKeeps

(* A refund's result goes back to cancel, or the request ends.              *)
LEMMA ReturnRefundMoves ==
    ASSUME StoreAssumption, IInv, NEW w \in Workers,
           req[w].pc \in {"refundRead"} \cup RefundSteps,
           NEW result \in {"REFUNDED", "REFUNDING"}, ReturnRefund(w, result)
    PROVE  \E r \in Request : /\ req' = [req EXCEPT ![w] = r] /\ Typed(r)
                              /\ Knows(r) /\ Knows(r)'
  <1> DEFINE c == [req[w] EXCEPT !.pc = "write", !.to = result, !.no = None]
  <1>1. req[w] \in Request /\ req[w].op \in {"cancel", "refund"}
        /\ req[w].o \in Orders
    BY DEF IInv, TypeOK, Typed
  <1>2. CASE req[w].op = "cancel"
    <2>1. result \in Outcome /\ "write" \in Step
      BY DEF Outcome, PaymentStatus, Step
    <2>2. /\ c \in Request /\ c.op = "cancel" /\ c.pc = "write"
          /\ c.to = result /\ c.o \in Orders
      BY <1>1, <1>2, <2>1 DEF Request
    <2>3. req' = [req EXCEPT ![w] = c]
      BY <1>2 DEF ReturnRefund
    <2> HIDE DEF c
    <2>4. PICK r \in Request :
            /\ req' = [req EXCEPT ![w] = r] /\ r.op = "cancel"
            /\ r.pc = "write" /\ r.to = result /\ r.o \in Orders
      BY <2>2, <2>3
    <2>5. Typed(r) /\ Knows(r) /\ Knows(r)'
      BY <2>4 DEF Typed, Knows, PaymentStatus, SawBooking, SawRider,
         SawPayment, SawCapture, ChoseRefundNo, RefundSteps
    <2> QED BY <2>4, <2>5
  <1>3. CASE req[w].op # "cancel"
    <2> DEFINE r == Idle
    <2>1. req' = [req EXCEPT ![w] = r]
      BY <1>3 DEF ReturnRefund
    <2>2. /\ r.op = "none" /\ r.pc = "idle"
          /\ r \in Request /\ Typed(r) /\ Knows(r)
      BY IdleRequest DEF Idle
    <2>3. Knows(r)'
      BY DEF Idle, Knows, SawBooking, SawRider, SawPayment,
         SawCapture, ChoseRefundNo, RefundSteps
    <2> HIDE DEF r
    <2> QED BY <2>1, <2>2, <2>3
  <1> QED BY <1>2, <1>3

LEMMA RefundReadKeeps ==
    ASSUME StoreAssumption, IInv, NEW w \in Workers, RefundRead(w)
    PROVE  IInv'
  <1> DEFINE route == RefundRoute(req[w].o)
  <1>1. /\ TablesUnchanged /\ req[w].pc = "refundRead"
        /\ req[w].op \in {"cancel", "refund"}
    BY DEF RefundRead, TablesUnchanged, IInv, Typed
  <1>2. /\ route \in {"done", "throw", "refundMock", "refundLookup"}
        /\ route \in {"refundMock", "refundLookup"} => Booked(req[w].o)
    BY DEF RefundRoute, Booked
  <1>3. /\ route = "done" => ReturnRefund(w, "REFUNDED")
        /\ route = "throw" => Finish(w)
        /\ route \notin {"done", "throw"} => Goto(w, route)
    BY DEF RefundRead
  <1> HIDE DEF route
  <1>4. CASE route = "done"
    BY <1>1, <1>3, <1>4, ReturnRefundMoves, GoOnKeeps
  <1>5. CASE route = "throw"
    BY <1>1, <1>3, <1>5, FinishOnlyKeeps
  <1>6. CASE route \in {"refundMock", "refundLookup"}
    <2>1. route \in Step
      BY <1>6 DEF Step
    <2>2. PICK r \in Request : /\ req' = [req EXCEPT ![w] = r]
                              /\ MovedTo(req[w], r, route)
      BY <1>3, <1>6, <2>1, GotoMoves
    <2>3. req[w].o \in Orders
      BY <1>1 DEF IInv, Typed
    <2>4. Typed(r) /\ Knows(r)
      BY <1>1, <1>2, <1>6, <2>2, <2>3 DEF MovedTo, Typed, Knows, SawBooking,
         SawRider, SawPayment, SawCapture, ChoseRefundNo, RefundSteps
    <2> QED BY <1>1, <2>2, <2>4, GoOnKeeps
  <1> QED BY <1>2, <1>4, <1>5, <1>6

LEMMA RefundMockPaymentKeeps ==
    ASSUME StoreAssumption, IInv, NEW w \in Workers, RefundMockPayment(w)
    PROVE  IInv'
  <1> DEFINE o == req[w].o
  <1>1. req[w].pc = "refundMock" /\ o \in Orders /\ Booked(o)
    BY DEF RefundMockPayment, IInv, Typed, Knows, SawBooking, RefundSteps
  <1>2. payment[o].status # "NONE"
    BY <1>1 DEF IInv, TablesInv, MoneyInv
  <1>3. /\ "REFUNDED" \in PaymentRecordStatus \ {"NONE"}
        /\ payment' = [payment EXCEPT ![o] = [@ EXCEPT !.status = "REFUNDED"]]
    BY DEF PaymentRecordStatus, RefundMockPayment
  <1>4. UNCHANGED <<orderTables, riderTables, refund, wechat>>
    BY DEF RefundMockPayment
  <1>5. PICK r \in Request : /\ req' = [req EXCEPT ![w] = r] /\ Typed(r)
                            /\ Knows(r)'
    BY <1>1, ReturnRefundMoves DEF RefundMockPayment, RefundSteps
  <1> HIDE DEF o
  <1>6. /\ Persist /\ TablesInv'
        /\ req' \in [Workers -> Request] => TypeOK'
    BY <1>1, <1>2, <1>3, <1>4, PaymentStatusKeeps
  <1> QED BY <1>5, <1>6, MoveKeeps

(* A refund number the request goes on with.                                *)
NumberedTo(q, r, pc, n) == r.op = q.op /\ r.pc = pc /\ r.o = q.o /\ r.no = n

LEMMA NumberMoves ==
    ASSUME IInv, NEW w \in Workers, NEW n \in RefundNos, NEW pc \in Step,
           req' = [req EXCEPT ![w] = [@ EXCEPT !.pc = pc, !.no = n]]
    PROVE  \E r \in Request : /\ req' = [req EXCEPT ![w] = r]
                              /\ NumberedTo(req[w], r, pc, n)
  <1> DEFINE r == [req[w] EXCEPT !.pc = pc, !.no = n]
  <1>1. req[w] \in Request
    BY DEF IInv, TypeOK
  <1>2. r \in Request /\ NumberedTo(req[w], r, pc, n)
    BY <1>1 DEF Request, NumberedTo
  <1>3. req' = [req EXCEPT ![w] = r]
    OBVIOUS
  <1> HIDE DEF r
  <1> QED BY <1>2, <1>3

LEMMA RefundLookupKeeps ==
    ASSUME StoreAssumption, IInv, NEW w \in Workers, RefundLookup(w)
    PROVE  IInv'
  <1> DEFINE o == req[w].o
             r0 == refund[o]
  <1>1. /\ req[w].pc = "refundLookup" /\ o \in Orders /\ Booked(o)
        /\ req[w].op \in {"cancel", "refund"}
    BY DEF RefundLookup, IInv, Typed, Knows, SawBooking, RefundSteps
  <1>2. TablesUnchanged
    BY DEF RefundLookup, TablesUnchanged
  <1>3. CASE \E s \in {"REFUNDED", "REFUNDING"} : ReturnRefund(w, s)
    BY <1>1, <1>2, <1>3, ReturnRefundMoves, GoOnKeeps DEF RefundSteps
  <1>4. CASE \E n \in RefundNos : req' = [req EXCEPT ![w] =
                                  [@ EXCEPT !.pc = "refundUpsert", !.no = n]]
    <2>1. PICK n \in RefundNos : req' = [req EXCEPT ![w] =
                                  [@ EXCEPT !.pc = "refundUpsert", !.no = n]]
      BY <1>4
    <2>2. "refundUpsert" \in Step
      BY DEF Step
    <2>3. PICK r \in Request : /\ req' = [req EXCEPT ![w] = r]
                              /\ NumberedTo(req[w], r, "refundUpsert", n)
      BY <2>1, <2>2, NumberMoves
    <2>4. Typed(r) /\ Knows(r)
      BY <1>1, <2>3 DEF NumberedTo, Typed, Knows, SawBooking, SawRider,
         SawPayment, SawCapture, ChoseRefundNo, RefundSteps
    <2> QED BY <1>2, <2>3, <2>4, GoOnKeeps
  <1>5. \/ \E s \in {"REFUNDED", "REFUNDING"} : ReturnRefund(w, s)
        \/ \E n \in RefundNos : req' = [req EXCEPT ![w] =
                                  [@ EXCEPT !.pc = "refundUpsert", !.no = n]]
    <2>1. CASE r0.status = "SUCCEEDED"
      BY <2>1 DEF RefundLookup
    <2>2. CASE r0.status = "PROCESSING"
      BY <2>2 DEF RefundLookup
    <2>3. CASE r0.status \notin {"SUCCEEDED", "PROCESSING"}
      BY <2>3 DEF RefundLookup
    <2> QED BY <2>1, <2>2, <2>3
  <1> QED BY <1>3, <1>4, <1>5

(* Where the refund row of a booked order gets its number.                  *)
LEMMA RefundUpsertTables ==
    ASSUME StoreAssumption, IInv, NEW o \in Orders, Booked(o),
           NEW ref \in RefundRow, refund' = [refund EXCEPT ![o] = ref],
           refund[o].no # None => ref.no = refund[o].no,
           UNCHANGED <<orderTables, riderTables, payment, wechat>>
    PROVE  /\ Persist /\ TablesInv'
           /\ req' \in [Workers -> Request] => TypeOK'
  <1>1. UNCHANGED <<order, assignments, rider, idempotency, payment, trade,
                    wxRefund>>
    BY DEF orderTables, riderTables, wechat
  <1>2. /\ refund' \in [Orders -> RefundRow] /\ refund'[o] = ref
        /\ \A x \in Orders \ {o} : refund'[x] = refund[x]
    BY DEF IInv, TypeOK
  <1>3. Persist
    BY <1>1, <1>2 DEF Persist, Booked
  <1>4. ASSUME NEW x \in Orders PROVE MoneyInv(x)'
    BY <1>1, <1>2 DEF IInv, TablesInv, MoneyInv, Booked, Captured
  <1>5. NoStrayRefund'
    <2> SUFFICES ASSUME NEW n \in RefundNos, wxRefund[n] # "NONE"
                 PROVE  \E x \in Orders : refund'[x].no = n
      BY <1>1 DEF NoStrayRefund
    <2>1. PICK x \in Orders : refund[x].no = n
      BY DEF IInv, TablesInv, NoStrayRefund
    <2>2. refund'[x].no = n
      BY <1>2, <2>1 DEF StoreAssumption
    <2> QED BY <2>2
  <1>6. TakenOnce' /\ ClaimIsRemembered'
    BY <1>1 DEF IInv, TablesInv, TakenOnce, ClaimIsRemembered
  <1> QED BY <1>1, <1>2, <1>3, <1>4, <1>5, <1>6 DEF TablesInv, IInv, TypeOK

LEMMA RefundUpsertKeeps ==
    ASSUME StoreAssumption, IInv, NEW w \in Workers, RefundUpsert(w)
    PROVE  IInv'
  <1> DEFINE o   == req[w].o
             no  == OutRefundNo(o, req[w].no)
             ref == [status |-> "CREATED", no |-> no]
  <1>1. /\ req[w].pc = "refundUpsert" /\ o \in Orders /\ Booked(o)
        /\ req[w].op \in {"cancel", "refund"} /\ req[w].no \in RefundNos
    BY DEF RefundUpsert, IInv, Typed, Knows, SawBooking, RefundSteps
  <1>2. /\ no \in RefundNos
        /\ refund[o].no # None => no = refund[o].no
    BY <1>1 DEF OutRefundNo, IInv, TypeOK, RefundRow
  <1>3. /\ refund' = [refund EXCEPT ![o] = ref]
        /\ req' = [req EXCEPT ![w] = [@ EXCEPT !.pc = "refundCall", !.no = no]]
    BY DEF RefundUpsert
  <1>4. UNCHANGED <<orderTables, riderTables, payment, wechat>>
    BY DEF RefundUpsert
  <1> HIDE DEF no
  <1>5. ref \in RefundRow /\ ref.no = no
    BY <1>2 DEF RefundRow, RefundRecordStatus
  <1> HIDE DEF ref
  <1>6. "refundCall" \in Step
    BY DEF Step
  <1>7. PICK r \in Request : /\ req' = [req EXCEPT ![w] = r]
                            /\ NumberedTo(req[w], r, "refundCall", no)
    BY <1>2, <1>3, <1>6, NumberMoves
  <1>8. payment' = payment /\ refund'[o].no = no /\ no # None
    BY <1>1, <1>2, <1>3, <1>4, <1>5 DEF IInv, TypeOK, StoreAssumption
  <1>9. Typed(r) /\ Knows(r)'
    BY <1>1, <1>7, <1>8 DEF NumberedTo, Typed, Knows, Booked,
         SawBooking, SawRider,
         SawPayment, SawCapture, ChoseRefundNo, RefundSteps
  <1> HIDE DEF o
  <1>10. /\ Persist /\ TablesInv'
         /\ req' \in [Workers -> Request] => TypeOK'
    BY <1>1, <1>2, <1>3, <1>4, <1>5, RefundUpsertTables
  <1> QED BY <1>7, <1>9, <1>10, MoveKeeps

LEMMA RefundFailedKeeps ==
    ASSUME StoreAssumption, IInv, NEW w \in Workers, RefundFailed(w)
    PROVE  IInv'
  <1> DEFINE o   == req[w].o
             ref == [refund[o] EXCEPT !.status = "FAILED"]
  <1>1. o \in Orders /\ Booked(o)
    BY DEF RefundFailed, IInv, Typed, Knows, SawBooking, RefundSteps
  <1>2. refund' = [refund EXCEPT ![o] = ref] /\ refund[o] \in RefundRow
    BY <1>1 DEF RefundFailed, IInv, TypeOK
  <1>3. ref \in RefundRow /\ ref.no = refund[o].no
    BY <1>2 DEF RefundRow, RefundRecordStatus
  <1>4. UNCHANGED <<orderTables, riderTables, payment, wechat>> /\ Finish(w)
    BY DEF RefundFailed
  <1> HIDE DEF o, ref
  <1>5. /\ Persist /\ TablesInv'
        /\ req' \in [Workers -> Request] => TypeOK'
    BY <1>1, <1>2, <1>3, <1>4, RefundUpsertTables
  <1> QED BY <1>4, <1>5, FinishKeeps

LEMMA RefundPersistKeeps ==
    ASSUME StoreAssumption, IInv, NEW w \in Workers, RefundPersist(w)
    PROVE  IInv'
  <1> DEFINE o == req[w].o
             s == req[w].to
  <1>1. /\ o \in Orders /\ Booked(o) /\ s \in RefundResult
        /\ req[w].pc = "refundPersist"
    BY DEF RefundPersist, IInv, Typed, Knows, SawBooking, RefundSteps
  <1>2. /\ persistRefundResult(o, s)
        /\ UNCHANGED <<assignments, riderTables, wechat>>
    BY DEF RefundPersist
  <1>3. \/ \E result \in {"REFUNDED", "REFUNDING"} : ReturnRefund(w, result)
        \/ Finish(w)
    <2>1. CASE s = "SUCCEEDED"
      BY <2>1 DEF RefundPersist
    <2>2. CASE s = "PROCESSING"
      BY <2>2 DEF RefundPersist
    <2>3. CASE s \notin {"SUCCEEDED", "PROCESSING"}
      BY <2>3 DEF RefundPersist
    <2> QED BY <2>1, <2>2, <2>3
  <1> HIDE DEF o, s
  <1>4. /\ Persist /\ TablesInv'
        /\ req' \in [Workers -> Request] => TypeOK'
    BY <1>1, <1>2, PersistRefundKeeps
  <1>5. CASE \E result \in {"REFUNDED", "REFUNDING"} : ReturnRefund(w, result)
    <2>1. PICK r \in Request : /\ req' = [req EXCEPT ![w] = r] /\ Typed(r)
                              /\ Knows(r)'
      BY <1>1, <1>5, ReturnRefundMoves DEF RefundSteps
    <2> QED BY <1>4, <2>1, MoveKeeps
  <1>6. CASE Finish(w)
    BY <1>4, <1>6, FinishKeeps
  <1> QED BY <1>3, <1>5, <1>6

----------------------------------------------------------------------------
(* The steps that reach WeChat, and those of WeChat and the customer.       *)

(* The tables and WeChat move, no request does.                             *)
LEMMA WorldKeeps ==
    ASSUME IInv, Persist, TypeOK', TablesInv', UNCHANGED req
    PROVE  IInv'
  <1> SUFFICES ASSUME NEW v \in Workers
               PROVE  Typed(req'[v]) /\ Knows(req[v])'
    BY DEF IInv
  <1> DEFINE r == req[v]
  <1>1. r \in Request /\ Typed(r) /\ Knows(r) /\ req'[v] = r
    BY DEF IInv, TypeOK
  <1> QED BY <1>1, KnowsPersists DEF IInv, TablesInv, Knows

(* WeChat's view of a refund that a refund row names.                       *)
LEMMA WxRefundTables ==
    ASSUME IInv, NEW n \in RefundNos, NEW s \in WxRefundState,
           NEW o \in Orders, refund[o].no = n,
           wxRefund' = [wxRefund EXCEPT ![n] = s],
           UNCHANGED <<orderTables, riderTables, paymentTables, trade>>
    PROVE  /\ Persist /\ TablesInv'
           /\ req' \in [Workers -> Request] => TypeOK'
  <1>1. UNCHANGED <<order, assignments, rider, idempotency, payment, refund,
                    trade>>
    BY DEF orderTables, riderTables, paymentTables
  <1>2. /\ wxRefund' \in [RefundNos -> WxRefundState]
        /\ \A m \in RefundNos \ {n} : wxRefund'[m] = wxRefund[m]
    BY DEF IInv, TypeOK
  <1>3. Persist
    BY <1>1 DEF Persist, Booked
  <1>4. \A x \in Orders : MoneyInv(x)'
    BY <1>1 DEF IInv, TablesInv, MoneyInv, Booked, Captured
  <1>5. NoStrayRefund'
    BY <1>1, <1>2 DEF IInv, TablesInv, NoStrayRefund
  <1>6. TakenOnce' /\ ClaimIsRemembered'
    BY <1>1 DEF IInv, TablesInv, TakenOnce, ClaimIsRemembered
  <1> QED BY <1>1, <1>2, <1>3, <1>4, <1>5, <1>6 DEF TablesInv, IInv, TypeOK

(* Trades move, but a captured one stays captured.                          *)
LEMMA TradeTables ==
    ASSUME IInv, trade' \in [TradeNos -> Trade],
           \A t \in TradeNos : trade[t].state = "SUCCESS"
                                 => trade'[t].state = "SUCCESS",
           UNCHANGED <<orderTables, riderTables, paymentTables, wxRefund>>
    PROVE  /\ Persist /\ TablesInv'
           /\ req' \in [Workers -> Request] => TypeOK'
  <1>1. UNCHANGED <<order, assignments, rider, idempotency, payment, refund,
                    wxRefund>>
    BY DEF orderTables, riderTables, paymentTables
  <1>2. Persist
    BY <1>1 DEF Persist, Booked
  <1>3. \A x \in Orders : MoneyInv(x)'
    BY <1>1 DEF IInv, TablesInv, MoneyInv, Booked, Captured
  <1>4. NoStrayRefund' /\ TakenOnce' /\ ClaimIsRemembered'
    BY <1>1 DEF IInv, TablesInv, TakenOnce, ClaimIsRemembered, NoStrayRefund
  <1> QED BY <1>1, <1>2, <1>3, <1>4 DEF TablesInv, IInv, TypeOK

LEMMA RequestWechatRefundKeeps ==
    ASSUME StoreAssumption, IInv, NEW w \in Workers, RequestWechatRefund(w)
    PROVE  IInv'
  <1> DEFINE o == req[w].o
             n == req[w].no
  <1>1. /\ req[w].pc = "refundCall" /\ o \in Orders /\ Booked(o)
        /\ req[w].op \in {"cancel", "refund"}
        /\ n = refund[o].no /\ refund[o].no # None
    BY DEF RequestWechatRefund, IInv, Typed, Knows, SawBooking, RefundSteps,
       ChoseRefundNo
  <1>2. n \in RefundNos
    BY <1>1 DEF IInv, TypeOK, RefundRow
  <1>3. UNCHANGED <<orderTables, riderTables, paymentTables, trade>>
    BY DEF RequestWechatRefund
  <1>4. PICK s \in WxRefundState : wxRefund' = [wxRefund EXCEPT ![n] = s]
    <2>1. /\ wxRefund[n] \in WxRefundState
          /\ wxRefund = [wxRefund EXCEPT ![n] = wxRefund[n]]
      BY <1>2 DEF IInv, TypeOK
    <2> QED BY <2>1 DEF RequestWechatRefund, WxRefundState
  <1>5. \/ Goto(w, "refundFailed")
        \/ \E reported \in WxRefundState \cup {"none"} :
             req' = [req EXCEPT ![w] = [@ EXCEPT !.pc = "refundPersist",
                        !.to = mapWechatRefundStatus(reported)]]
    <2>1. wxRefund[n] \in WxRefundState
      BY <1>2 DEF IInv, TypeOK
    <2> QED BY <2>1 DEF RequestWechatRefund, WxRefundState
  <1>6. /\ Persist /\ TablesInv'
        /\ req' \in [Workers -> Request] => TypeOK'
    BY <1>1, <1>2, <1>3, <1>4, WxRefundTables
  <1>7. UNCHANGED <<payment, refund>>
    BY <1>3 DEF paymentTables
  <1>8. PICK r \in Request : /\ req' = [req EXCEPT ![w] = r] /\ Typed(r)
                            /\ Knows(r)'
    <2>1. CASE Goto(w, "refundFailed")
      <3>1. "refundFailed" \in Step
        BY DEF Step
      <3>2. PICK r \in Request : /\ req' = [req EXCEPT ![w] = r]
                                /\ MovedTo(req[w], r, "refundFailed")
        BY <2>1, <3>1, GotoMoves
      <3>3. Typed(r) /\ Knows(r)'
        BY <1>1, <1>7, <3>2 DEF MovedTo, Typed, Knows, Booked, SawBooking,
           SawRider,
         SawPayment, SawCapture, ChoseRefundNo, RefundSteps
      <3> QED BY <3>2, <3>3
    <2>2. CASE \E reported \in WxRefundState \cup {"none"} :
                 req' = [req EXCEPT ![w] = [@ EXCEPT !.pc = "refundPersist",
                           !.to = mapWechatRefundStatus(reported)]]
      <3>1. PICK c \in RefundResult : req' = [req EXCEPT ![w] =
                 [@ EXCEPT !.pc = "refundPersist", !.to = c]]
        BY <2>2 DEF mapWechatRefundStatus, RefundResult
      <3> DEFINE r == [req[w] EXCEPT !.pc = "refundPersist", !.to = c]
      <3>2. req[w] \in Request
        BY DEF IInv, TypeOK
      <3>3. c \in Outcome /\ "refundPersist" \in Step
        BY DEF RefundResult, Outcome, RefundRecordStatus, Step
      <3>4. /\ r \in Request /\ r.op = req[w].op /\ r.pc = "refundPersist"
            /\ r.o = o /\ r.to = c
        BY <3>2, <3>3 DEF Request
      <3>5. req' = [req EXCEPT ![w] = r]
        BY <3>1
      <3> HIDE DEF r
      <3>6. PICK r1 \in Request :
              /\ req' = [req EXCEPT ![w] = r1] /\ r1.op = req[w].op
              /\ r1.pc = "refundPersist" /\ r1.o = o /\ r1.to = c
        BY <3>4, <3>5
      <3>7. Typed(r1) /\ Knows(r1)'
        BY <1>1, <1>7, <3>6 DEF Typed, Knows, Booked, SawBooking, SawRider,
           SawPayment, SawCapture, ChoseRefundNo, RefundSteps
      <3> QED BY <3>6, <3>7
    <2> QED BY <1>5, <2>1, <2>2
  <1> QED BY <1>6, <1>8, MoveKeeps

LEMMA WechatSettlesRefundKeeps ==
    ASSUME StoreAssumption, IInv, NEW n \in RefundNos, WechatSettlesRefund(n)
    PROVE  IInv'
  <1>1. PICK s \in WxRefundState : wxRefund' = [wxRefund EXCEPT ![n] = s]
    BY DEF WechatSettlesRefund, WxRefundState
  <1>2. PICK o \in Orders : refund[o].no = n
    BY DEF WechatSettlesRefund, IInv, TablesInv, NoStrayRefund
  <1>3. /\ UNCHANGED <<orderTables, riderTables, paymentTables, trade>>
        /\ UNCHANGED req
    BY DEF WechatSettlesRefund
  <1>4. /\ Persist /\ TablesInv'
        /\ req' \in [Workers -> Request] => TypeOK'
    BY <1>1, <1>2, <1>3, WxRefundTables
  <1> QED BY <1>3, <1>4, WorldKeeps DEF IInv, TypeOK

LEMMA CustomerPaysKeeps ==
    ASSUME StoreAssumption, IInv, NEW t \in TradeNos, CustomerPays(t)
    PROVE  IInv'
  <1> DEFINE paid == [trade[t] EXCEPT !.state = "SUCCESS"]
  <1>1. trade[t] \in Trade /\ trade' = [trade EXCEPT ![t] = paid]
    BY DEF CustomerPays, IInv, TypeOK
  <1>2. paid \in Trade /\ paid.state = "SUCCESS"
    BY <1>1 DEF Trade, TradeState
  <1> HIDE DEF paid
  <1>3. /\ trade' \in [TradeNos -> Trade]
        /\ \A x \in TradeNos : trade[x].state = "SUCCESS"
                                 => trade'[x].state = "SUCCESS"
    BY <1>1, <1>2 DEF IInv, TypeOK
  <1>4. /\ UNCHANGED <<orderTables, riderTables, paymentTables, wxRefund>>
        /\ UNCHANGED req
    BY DEF CustomerPays
  <1>5. /\ Persist /\ TablesInv'
        /\ req' \in [Workers -> Request] => TypeOK'
    BY <1>3, <1>4, TradeTables
  <1> QED BY <1>4, <1>5, WorldKeeps DEF IInv, TypeOK

LEMMA CloseWechatTradeKeeps ==
    ASSUME StoreAssumption, IInv, NEW w \in Workers, CloseWechatTrade(w)
    PROVE  IInv'
  <1> DEFINE o == req[w].o
             t == payment[o].out
             closed == [trade[t] EXCEPT !.state = "CLOSED"]
  <1>1. /\ req[w].op = "cancel" /\ req[w].pc = "closeCall" /\ o \in Orders
        /\ req[w].to \in PaymentStatus \ {"PAID"}
        /\ payment[o].status # "NONE"
    BY DEF CloseWechatTrade, At, IInv, Typed, Knows, SawPayment
  <1>2. t \in TradeNos
    BY <1>1 DEF IInv, TablesInv, MoneyInv
  <1>3. UNCHANGED <<orderTables, riderTables, paymentTables, wxRefund>>
    BY DEF CloseWechatTrade
  <1>4. CASE trade[t].state = "SUCCESS"
    <2>1. Finish(w) /\ UNCHANGED trade
      BY <1>4 DEF CloseWechatTrade
    <2>2. TablesUnchanged
      BY <1>3, <2>1 DEF TablesUnchanged, wechat
    <2> QED BY <2>1, <2>2, FinishOnlyKeeps
  <1>5. CASE trade[t].state # "SUCCESS"
    <2>1. Goto(w, "closeWrite") /\ trade' = [trade EXCEPT ![t] = closed]
      BY <1>5 DEF CloseWechatTrade
    <2>2. trade[t] \in Trade
      BY <1>2 DEF IInv, TypeOK
    <2>3. closed \in Trade
      BY <2>2 DEF Trade, TradeState
    <2> HIDE DEF closed, t
    <2>4. /\ trade' \in [TradeNos -> Trade]
          /\ \A x \in TradeNos : trade[x].state = "SUCCESS"
                                   => trade'[x].state = "SUCCESS"
      BY <1>2, <1>5, <2>1, <2>3 DEF IInv, TypeOK
    <2>5. /\ Persist /\ TablesInv'
          /\ req' \in [Workers -> Request] => TypeOK'
      BY <1>3, <2>4, TradeTables
    <2>6. "closeWrite" \in Step
      BY DEF Step
    <2>7. PICK r \in Request : /\ req' = [req EXCEPT ![w] = r]
                              /\ MovedTo(req[w], r, "closeWrite")
      BY <2>1, <2>6, GotoMoves
    <2>8. UNCHANGED payment
      BY <1>3 DEF paymentTables
    <2>9. Typed(r) /\ Knows(r)'
      BY <1>1, <2>7, <2>8 DEF MovedTo, Typed, Knows, SawBooking, SawRider,
         SawPayment, SawCapture, ChoseRefundNo, RefundSteps
    <2> QED BY <2>5, <2>7, <2>9, MoveKeeps
  <1> QED BY <1>4, <1>5

LEMMA RequestWechatPrepayKeeps ==
    ASSUME StoreAssumption, IInv, NEW w \in Workers, RequestWechatPrepay(w)
    PROVE  IInv'
  <1> DEFINE q   == req[w]
             new == [state |-> "CREATED", order |-> q.o, fee |-> q.fee]
             r   == [q EXCEPT !.pc = "savePrepay", !.prepay = q.trade]
  <1>1. /\ q.op = "createPrepay" /\ q.o \in Orders /\ q.trade \in TradeNos
        /\ q \in Request
    BY DEF RequestWechatPrepay, At, IInv, Typed, TypeOK
  <1>2. /\ trade[q.trade].state = "NONE"
        /\ trade' = [trade EXCEPT ![q.trade] = new]
        /\ req' = [req EXCEPT ![w] = r]
        /\ UNCHANGED <<orderTables, riderTables, paymentTables, wxRefund>>
    BY DEF RequestWechatPrepay
  <1>3. "savePrepay" \in Step
    BY DEF Step
  <1>4. /\ r \in Request /\ r.op = "createPrepay" /\ r.pc = "savePrepay"
        /\ r.o = q.o /\ r.trade = q.trade
    BY <1>1, <1>3 DEF Request
  <1>5. new \in Trade
    BY <1>1 DEF Trade, TradeState, Request
  <1> HIDE DEF r, new
  <1>6. /\ trade' \in [TradeNos -> Trade]
        /\ \A x \in TradeNos : trade[x].state = "SUCCESS"
                                 => trade'[x].state = "SUCCESS"
    BY <1>1, <1>2, <1>5 DEF IInv, TypeOK
  <1>7. /\ Persist /\ TablesInv'
        /\ req' \in [Workers -> Request] => TypeOK'
    BY <1>2, <1>6, TradeTables
  <1>8. PICK r1 \in Request :
          /\ req' = [req EXCEPT ![w] = r1] /\ r1.op = "createPrepay"
          /\ r1.pc = "savePrepay" /\ r1.o \in Orders /\ r1.trade \in TradeNos
    BY <1>1, <1>2, <1>4
  <1>9. Typed(r1) /\ Knows(r1)'
    BY <1>8 DEF Typed, Knows, SawBooking, SawRider, SawPayment, SawCapture,
       ChoseRefundNo, RefundSteps
  <1> QED BY <1>7, <1>8, <1>9, MoveKeeps

(* The payment row and the trade are saved together.                        *)
LEMMA CreatePrepaySaveKeeps ==
    ASSUME StoreAssumption, IInv, NEW w \in Workers, CreatePrepaySave(w)
    PROVE  IInv'
  <1> DEFINE q   == req[w]
             o   == q.o
             out == IF payment[o].status = "NONE" THEN q.trade
                    ELSE payment[o].out
             pay == [payment[o] EXCEPT !.status = "PENDING",
                       !.amount = q.fee, !.prepay = q.prepay, !.out = out]
  <1>1. /\ o \in Orders /\ q.trade \in TradeNos /\ q \in Request
        /\ payment[o] \in PaymentRow
    BY DEF CreatePrepaySave, At, IInv, Typed, TypeOK
  <1>2. /\ out \in TradeNos
        /\ payment[o].status # "NONE" => out = payment[o].out
    BY <1>1 DEF IInv, TablesInv, MoneyInv
  <1>3. /\ payment' = [payment EXCEPT ![o] = pay]
        /\ trade' = [t \in TradeNos |->
              IF t = q.prepay /\ trade[t].state = "CREATED"
              THEN [trade[t] EXCEPT !.state = "ISSUED"] ELSE trade[t]]
        /\ Finish(w)
    BY DEF CreatePrepaySave
  <1>4. /\ UNCHANGED <<order, assignments, rider, idempotency, refund,
                       wxRefund>>
    BY DEF CreatePrepaySave, orderTables, riderTables
  <1> HIDE DEF out
  <1>5. /\ pay \in PaymentRow /\ pay.status = "PENDING" /\ pay.out = out
        /\ pay.txn = payment[o].txn
    BY <1>1, <1>2 DEF PaymentRow, PaymentRecordStatus, Request
  <1> HIDE DEF pay
  <1>6. /\ payment' \in [Orders -> PaymentRow] /\ payment'[o] = pay
        /\ \A x \in Orders \ {o} : payment'[x] = payment[x]
    BY <1>1, <1>3, <1>5 DEF IInv, TypeOK
  <1>7. \A t \in TradeNos : [trade[t] EXCEPT !.state = "ISSUED"] \in Trade
    <2> SUFFICES ASSUME NEW t \in TradeNos
                 PROVE  [trade[t] EXCEPT !.state = "ISSUED"] \in Trade
      OBVIOUS
    <2>1. trade[t] \in Trade
      BY DEF IInv, TypeOK
    <2> QED BY <2>1 DEF Trade, TradeState
  <1>8. /\ trade' \in [TradeNos -> Trade]
        /\ \A t \in TradeNos : trade[t].state = "SUCCESS"
                                 => trade'[t].state = "SUCCESS"
    BY <1>3, <1>7 DEF IInv, TypeOK
  <1>9. Persist
    BY <1>2, <1>4, <1>5, <1>6, <1>8 DEF Persist, Booked
  <1>10. ASSUME NEW x \in Orders PROVE MoneyInv(x)'
    <2>1. /\ MoneyInv(x) /\ payment'[x].txn = payment[x].txn
          /\ payment'[x].status = "NONE" => payment[x].status = "NONE"
          /\ payment'[x].status # "NONE" => payment'[x].out \in TradeNos
          /\ payment[x].status # "NONE" => payment'[x].out = payment[x].out
      BY <1>2, <1>5, <1>6 DEF IInv, TablesInv, MoneyInv
    <2> QED BY <1>4, <1>8, <2>1 DEF MoneyInv, Booked, Captured
  <1>11. TakenOnce' /\ ClaimIsRemembered' /\ NoStrayRefund'
    BY <1>4 DEF IInv, TablesInv, TakenOnce, ClaimIsRemembered, NoStrayRefund
  <1>12. /\ TablesInv'
         /\ req' \in [Workers -> Request] => TypeOK'
    BY <1>4, <1>6, <1>8, <1>10, <1>11 DEF TablesInv, IInv, TypeOK
  <1> QED BY <1>3, <1>9, <1>12, FinishKeeps

----------------------------------------------------------------------------
(* The steps of riders.service.ts.                                          *)

(* A paid order nobody has is taken, and its claim perhaps remembered.      *)
LEMMA TakeOrderTables ==
    ASSUME StoreAssumption, IInv, NEW o \in Orders, NEW r \in Riders,
           Dispatchable(o), TakeOrder(o, r),
           \/ UNCHANGED idempotency
           \/ \E k \in Keys : /\ idempotency[<<r, k>>] = None
                             /\ idempotency' =
                                  [idempotency EXCEPT ![<<r, k>>] = o],
           UNCHANGED <<rider, paymentTables, wechat>>
    PROVE  /\ Persist /\ TablesInv'
           /\ req' \in [Workers -> Request] => TypeOK'
  <1> DEFINE ord == [order[o] EXCEPT !.rider = r, !.status = "PICKING_UP"]
  <1>1. order[o] \in OrderRow /\ order[o].rider = None /\ order[o].pay = "PAID"
    BY DEF Dispatchable, IInv, TypeOK
  <1>2. /\ ord \in OrderRow /\ ord.rider = r /\ ord.status = "PICKING_UP"
        /\ ord.pay = "PAID"
    BY <1>1 DEF OrderRow, OrderStatus, Progress
  <1>3. /\ order' = [order EXCEPT ![o] = ord]
        /\ assignments' = [assignments EXCEPT ![o] = Append(assignments[o], r)]
    BY DEF TakeOrder, IInv, TypeOK
  <1> HIDE DEF ord
  <1>4. UNCHANGED <<rider, payment, refund, trade, wxRefund>>
    BY DEF paymentTables, wechat
  <1>5. assignments[o] = <<>>
    BY <1>1 DEF IInv, TablesInv, TakenOnce
  <1>6. Append(assignments[o], r) = <<r>> /\ <<r>> \in Seq(Riders)
    BY <1>5
  <1>7. /\ order' \in [Orders -> OrderRow] /\ order'[o] = ord
        /\ assignments' \in [Orders -> Seq(Riders)] /\ assignments'[o] = <<r>>
        /\ \A x \in Orders \ {o} : /\ order'[x] = order[x]
                                   /\ assignments'[x] = assignments[x]
    BY <1>2, <1>3, <1>6 DEF IInv, TypeOK
  <1>8. r # None
    BY DEF StoreAssumption
  <1>9. Persist
    BY <1>1, <1>4, <1>7 DEF Persist, Booked
  <1>10. ASSUME NEW x \in Orders PROVE MoneyInv(x)'
    <2>1. MoneyInv(x) /\ MoneyInv(o)
      BY DEF IInv, TablesInv
    <2> QED BY <1>1, <1>2, <1>4, <1>7, <2>1 DEF MoneyInv, Booked, Captured
  <1>11. TakenOnce'
    BY <1>2, <1>7, <1>8 DEF IInv, TablesInv, TakenOnce
  <1>12. NoStrayRefund'
    BY <1>4 DEF IInv, TablesInv, NoStrayRefund
  <1>13. idempotency' \in [Riders \X Keys -> Orders \cup {None}]
    BY DEF IInv, TypeOK
  <1>14. ClaimIsRemembered'
    <2> SUFFICES ASSUME NEW r1 \in Riders, NEW k1 \in Keys,
                        idempotency'[<<r1, k1>>] # None
                 PROVE  order'[idempotency'[<<r1, k1>>]].rider = r1
      BY DEF ClaimIsRemembered
    <2>1. \/ idempotency'[<<r1, k1>>] = idempotency[<<r1, k1>>]
          \/ idempotency'[<<r1, k1>>] = o /\ r1 = r
      BY DEF IInv, TypeOK
    <2>2. CASE idempotency'[<<r1, k1>>] = idempotency[<<r1, k1>>]
      <3> DEFINE x == idempotency[<<r1, k1>>]
      <3>1. x \in Orders /\ order[x].rider = r1
        BY <2>2 DEF IInv, TypeOK, TablesInv, ClaimIsRemembered
      <3>2. r1 # None
        BY DEF StoreAssumption
      <3>3. x # o
        BY <1>1, <3>1, <3>2
      <3> QED BY <1>7, <2>2, <3>1, <3>3
    <2>3. CASE idempotency'[<<r1, k1>>] = o /\ r1 = r
      BY <1>2, <1>7, <2>3
    <2> QED BY <2>1, <2>2, <2>3
  <1> QED BY <1>4, <1>7, <1>9, <1>10, <1>11, <1>12, <1>13, <1>14
          DEF TablesInv, IInv, TypeOK

LEMMA ClaimTxKeeps ==
    ASSUME StoreAssumption, IInv, NEW w \in Workers, ClaimTx(w)
    PROVE  IInv'
  <1> DEFINE o == req[w].o
             r == req[w].rider
             k == req[w].key
  <1>1. o \in Orders /\ r \in Riders /\ k \in Keys /\ Finish(w)
    BY DEF ClaimTx, At, IInv, Typed
  <1>2. UNCHANGED <<rider, paymentTables, wechat>>
    BY DEF ClaimTx
  <1>3. \/ /\ Dispatchable(o) /\ TakeOrder(o, r)
           /\ idempotency[<<r, k>>] = None
           /\ idempotency' = [idempotency EXCEPT ![<<r, k>>] = o]
        \/ UNCHANGED <<orderTables, idempotency>>
    BY DEF ClaimTx
  <1> HIDE DEF o, r, k
  <1>4. CASE UNCHANGED <<orderTables, idempotency>>
    BY <1>1, <1>2, <1>4, FinishOnlyKeeps DEF TablesUnchanged, riderTables
  <1>5. CASE /\ Dispatchable(o) /\ TakeOrder(o, r)
             /\ idempotency[<<r, k>>] = None
             /\ idempotency' = [idempotency EXCEPT ![<<r, k>>] = o]
    <2>1. /\ Persist /\ TablesInv'
          /\ req' \in [Workers -> Request] => TypeOK'
      BY <1>1, <1>2, <1>5, TakeOrderTables
    <2> QED BY <1>1, <2>1, FinishKeeps
  <1> QED BY <1>3, <1>4, <1>5

LEMMA AssignMatchKeeps ==
    ASSUME StoreAssumption, IInv, NEW w \in Workers, AssignMatch(w)
    PROVE  IInv'
  <1>1. /\ req[w].op = "assign" /\ req[w].pc = "assignTx"
        /\ req[w].o \in Orders /\ req[w].rider \in Riders
        /\ Goto(w, "write") \/ Finish(w)
    BY DEF AssignMatch, At, IInv, Typed
  <1>2. TablesUnchanged
    BY DEF AssignMatch, TablesUnchanged
  <1>3. CASE Finish(w)
    BY <1>2, <1>3, FinishOnlyKeeps
  <1>4. CASE Goto(w, "write")
    <2>1. "write" \in Step
      BY DEF Step
    <2>2. PICK r \in Request : /\ req' = [req EXCEPT ![w] = r]
                              /\ MovedTo(req[w], r, "write")
      BY <1>4, <2>1, GotoMoves
    <2>3. Typed(r) /\ Knows(r)
      BY <1>1, <2>2 DEF MovedTo, Typed, Knows, SawBooking, SawRider,
         SawPayment, SawCapture, ChoseRefundNo, RefundSteps
    <2> QED BY <1>2, <2>2, <2>3, GoOnKeeps
  <1> QED BY <1>1, <1>3, <1>4

LEMMA AssignWriteKeeps ==
    ASSUME StoreAssumption, IInv, NEW w \in Workers, AssignWrite(w)
    PROVE  IInv'
  <1> DEFINE o == req[w].o
             r == req[w].rider
  <1>1. o \in Orders /\ r \in Riders /\ Finish(w)
    BY DEF AssignWrite, At, IInv, Typed
  <1>2. UNCHANGED <<riderTables, paymentTables, wechat>>
    BY DEF AssignWrite
  <1>3. \/ Dispatchable(o) /\ TakeOrder(o, r)
        \/ UNCHANGED orderTables
    BY DEF AssignWrite
  <1> HIDE DEF o, r
  <1>4. CASE UNCHANGED orderTables
    BY <1>1, <1>2, <1>4, FinishOnlyKeeps DEF TablesUnchanged
  <1>5. CASE Dispatchable(o) /\ TakeOrder(o, r)
    <2>1. UNCHANGED idempotency /\ UNCHANGED <<rider, paymentTables, wechat>>
      BY <1>2 DEF riderTables
    <2>2. /\ Persist /\ TablesInv'
          /\ req' \in [Workers -> Request] => TypeOK'
      BY <1>1, <1>5, <2>1, TakeOrderTables
    <2> QED BY <1>1, <2>2, FinishKeeps
  <1> QED BY <1>3, <1>4, <1>5

LEMMA RiderUpdateReadKeeps ==
    ASSUME StoreAssumption, IInv, NEW w \in Workers, RiderUpdateRead(w)
    PROVE  IInv'
  <1> DEFINE o == req[w].o
  <1>1. /\ req[w].op = "riderUpdateStatus" /\ o \in Orders
        /\ req[w].rider \in Riders
        /\ req[w].to \in {"ARRIVED", "DELIVERING", "COMPLETED"}
    BY DEF RiderUpdateRead, At, IInv, Typed
  <1>2. TablesUnchanged
    BY DEF RiderUpdateRead, TablesUnchanged
  <1>3. \/ Finish(w)
        \/ /\ Goto(w, "write")
           /\ order[o].rider = req[w].rider
           /\ order[o].status \in {"PICKING_UP", "DELIVERING"}
    BY DEF RiderUpdateRead, RiderExpects
  <1>4. CASE Finish(w)
    BY <1>2, <1>4, FinishOnlyKeeps
  <1>5. CASE /\ Goto(w, "write")
             /\ order[o].rider = req[w].rider
             /\ order[o].status \in {"PICKING_UP", "DELIVERING"}
    <2>1. "write" \in Step
      BY DEF Step
    <2>2. PICK r \in Request : /\ req' = [req EXCEPT ![w] = r]
                              /\ MovedTo(req[w], r, "write")
      BY <1>5, <2>1, GotoMoves
    <2>3. Booked(o) /\ order[o].rider # None
      BY <1>1, <1>5 DEF IInv, TablesInv, MoneyInv, Progress, StoreAssumption
    <2>4. Typed(r) /\ Knows(r)
      BY <1>1, <2>2, <2>3 DEF MovedTo, Typed, Knows, SawBooking, SawRider,
         SawPayment, SawCapture, ChoseRefundNo, RefundSteps
    <2> QED BY <1>2, <2>2, <2>4, GoOnKeeps
  <1> QED BY <1>3, <1>4, <1>5

LEMMA RiderUpdateWriteKeeps ==
    ASSUME StoreAssumption, IInv, NEW w \in Workers, RiderUpdateWrite(w)
    PROVE  IInv'
  <1> DEFINE o   == req[w].o
             to  == req[w].to
             row == IF to = "ARRIVED" THEN [order[o] EXCEPT !.arrived = TRUE]
                                      ELSE [order[o] EXCEPT !.status = to]
  <1>1. /\ o \in Orders /\ to \in {"ARRIVED", "DELIVERING", "COMPLETED"}
        /\ Booked(o) /\ order[o].rider # None
    BY DEF RiderUpdateWrite, At, IInv, Typed, Knows, SawBooking, SawRider
  <1>2. order[o] \in OrderRow
    BY <1>1 DEF IInv, TypeOK
  <1>3. /\ row \in OrderRow
        /\ row.rider = order[o].rider /\ row.pay = order[o].pay
    BY <1>1, <1>2 DEF OrderRow, OrderStatus, Progress
  <1>4. /\ order' = [order EXCEPT ![o] = row] /\ Finish(w)
        /\ UNCHANGED <<assignments, riderTables, paymentTables, wechat>>
    BY <1>1 DEF RiderUpdateWrite, IInv, TypeOK
  <1>5. row.status = order[o].status \/ row.status \in Fulfilment
    BY <1>1, <1>2 DEF OrderRow, Fulfilment
  <1> HIDE DEF row, o
  <1>6. Allowed(o, row, payment[o], refund[o])
    <2>1. Allowed(o, order[o], payment[o], refund[o])
      BY <1>1, AllowedNow
    <2> QED BY <1>1, <1>3, <1>5, <2>1 DEF Allowed, Booked
  <1> QED BY <1>1, <1>3, <1>4, <1>6, OrderWriteKeeps

(* Only a rider's row changes.                                              *)
LEMMA RiderRowKeeps ==
    ASSUME StoreAssumption, IInv, NEW w \in Workers, Finish(w),
           NEW r \in Riders, NEW row \in RiderRow,
           rider' = [rider EXCEPT ![r] = row],
           UNCHANGED <<orderTables, idempotency, paymentTables, wechat>>
    PROVE  IInv'
  <1>1. UNCHANGED <<order, assignments, idempotency, payment, refund, trade,
                    wxRefund>>
    BY DEF orderTables, paymentTables, wechat
  <1>2. Persist
    BY <1>1 DEF Persist, Booked
  <1>3. TablesInv'
    BY <1>1 DEF IInv, TablesInv, MoneyInv, Booked, Captured, TakenOnce,
       ClaimIsRemembered, NoStrayRefund
  <1>4. req' \in [Workers -> Request] => TypeOK'
    BY <1>1 DEF IInv, TypeOK
  <1> QED BY <1>2, <1>3, <1>4, FinishKeeps

LEMMA SetOnlineWriteKeeps ==
    ASSUME StoreAssumption, IInv, NEW w \in Workers, SetOnlineWrite(w)
    PROVE  IInv'
  <1> DEFINE r   == req[w].rider
             row == [rider[r] EXCEPT !.online = (req[w].to = "ONLINE")]
  <1>1. r \in Riders
    BY DEF SetOnlineWrite, At, IInv, Typed
  <1>2. rider[r] \in RiderRow
    BY <1>1 DEF IInv, TypeOK
  <1>3. row \in RiderRow
    BY <1>2 DEF RiderRow
  <1>4. /\ rider' = [rider EXCEPT ![r] = row] /\ Finish(w)
        /\ UNCHANGED <<orderTables, idempotency, paymentTables, wechat>>
    BY DEF SetOnlineWrite
  <1> HIDE DEF r, row
  <1> QED BY <1>1, <1>3, <1>4, RiderRowKeeps

LEMMA ChangeStatusWriteKeeps ==
    ASSUME StoreAssumption, IInv, NEW w \in Workers, ChangeStatusWrite(w)
    PROVE  IInv'
  <1> DEFINE r   == req[w].rider
             row == [role |-> req[w].to, online |-> FALSE]
  <1>1. r \in Riders /\ req[w].to \in {"ACTIVE", "SUSPENDED", "RESIGNED"}
    BY DEF ChangeStatusWrite, At, IInv, Typed
  <1>2. row \in RiderRow
    BY <1>1 DEF RiderRow
  <1>3. /\ rider' = [rider EXCEPT ![r] = row] /\ Finish(w)
        /\ UNCHANGED <<orderTables, idempotency, paymentTables, wechat>>
    BY DEF ChangeStatusWrite
  <1> HIDE DEF r, row
  <1> QED BY <1>1, <1>2, <1>3, RiderRowKeeps

----------------------------------------------------------------------------
(* All together.                                                            *)

LEMMA InitHolds ==
    ASSUME StoreAssumption, Init
    PROVE  IInv
  <1>1. PICK fee \in Fees : order = [o \in Orders |-> NewOrder(o, fee)]
    BY DEF Init
  <1>2. ASSUME NEW o \in Orders
        PROVE  /\ order[o] \in OrderRow /\ order[o].status = "PENDING"
               /\ order[o].pay = "UNPAID" /\ order[o].rider = None
    BY <1>1 DEF NewOrder, OrderRow, OrderStatus, PaymentStatus, QuoteStatus
  <1>3. \A o \in Orders : /\ payment[o] \in PaymentRow
                          /\ payment[o].txn = "none"
                          /\ payment[o].status = "NONE"
    BY DEF Init, PaymentRow, PaymentRecordStatus
  <1>4. \A o \in Orders : refund[o] \in RefundRow /\ refund[o].no = None
    BY DEF Init, RefundRow, RefundRecordStatus
  <1>5. \A r \in Riders, k \in Keys : idempotency[<<r, k>>] = None
    BY DEF Init
  <1>6. TablesInv
    <2>1. \A o \in Orders : MoneyInv(o)
      BY <1>2, <1>3, <1>4 DEF MoneyInv, Booked, Progress
    <2>2. TakenOnce
      BY <1>2 DEF TakenOnce, Init, Fulfilment
    <2>3. ClaimIsRemembered
      BY <1>5 DEF ClaimIsRemembered
    <2>4. NoStrayRefund
      BY DEF NoStrayRefund, Init
    <2> QED BY <2>1, <2>2, <2>3, <2>4 DEF TablesInv
  <1>7. TypeOK
    <2>1. order \in [Orders -> OrderRow] /\ payment \in [Orders -> PaymentRow]
          /\ refund \in [Orders -> RefundRow]
      BY <1>1, <1>2, <1>3, <1>4 DEF Init
    <2>2. assignments \in [Orders -> Seq(Riders)]
      BY DEF Init
    <2>3. rider \in [Riders -> RiderRow]
      BY DEF Init, RiderRow
    <2>4. /\ trade \in [TradeNos -> Trade]
          /\ wxRefund \in [RefundNos -> WxRefundState]
          /\ idempotency \in [Riders \X Keys -> Orders \cup {None}]
      BY DEF Init, Trade, TradeState, WxRefundState
    <2>5. req \in [Workers -> Request]
      BY IdleRequest DEF Init
    <2> QED BY <2>1, <2>2, <2>3, <2>4, <2>5 DEF TypeOK
  <1>8. \A w \in Workers : Typed(req[w]) /\ Knows(req[w])
    BY IdleRequest DEF Init
  <1> QED BY <1>6, <1>7, <1>8 DEF IInv

LEMMA OrdersKeep ==
    ASSUME StoreAssumption, IInv, NEW w \in Workers,
           OrdersStep(w) \/ \E o \in Orders : OrdersBegin(w, o)
    PROVE  IInv'
  <1>1. CASE OrdersStep(w)
    BY <1>1, UpdateStatusWriteKeeps, CancelWriteKeeps, HideWriteKeeps,
       QuoteWriteKeeps, RespondToQuoteWriteKeeps DEF OrdersStep
  <1>2. CASE \E o \in Orders : OrdersBegin(w, o)
    BY <1>2, UpdateStatusReadKeeps, CancelReadKeeps, HideReadKeeps,
       QuoteReadKeeps, RespondToQuoteReadKeeps DEF OrdersBegin
  <1> QED BY <1>1, <1>2

LEMMA PaymentsKeep ==
    ASSUME StoreAssumption, IInv, NEW w \in Workers,
           \/ PaymentsStep(w)
           \/ \E o \in Orders : PaymentsBegin(w, o) \/ WechatNotifies(w, o)
    PROVE  IInv'
  <1>1. CASE PaymentsStep(w)
    BY <1>1, RequestWechatPrepayKeeps, CreatePrepaySaveKeeps,
       ConfirmMockPaymentWriteKeeps, HandleWechatNotificationWriteKeeps,
       ClosePendingPaymentReadKeeps, CloseWechatTradeKeeps,
       ClosePendingPaymentWriteKeeps, RefundReadKeeps,
       RefundMockPaymentKeeps, RefundLookupKeeps, RefundUpsertKeeps,
       RequestWechatRefundKeeps, RefundFailedKeeps, RefundPersistKeeps,
       HandleWechatRefundNotificationWriteKeeps DEF PaymentsStep
  <1>2. CASE \E o \in Orders : PaymentsBegin(w, o)
    BY <1>2, CreatePrepayReadKeeps, ConfirmMockPaymentReadKeeps,
       RefundBeginKeeps DEF PaymentsBegin
  <1>3. CASE \E o \in Orders : WechatNotifies(w, o)
    BY <1>3, HandleWechatNotificationReadKeeps,
       HandleWechatRefundNotificationReadKeeps DEF WechatNotifies
  <1> QED BY <1>1, <1>2, <1>3

LEMMA RidersKeep ==
    ASSUME StoreAssumption, IInv, NEW w \in Workers,
           RidersStep(w) \/ \E r \in Riders : RidersBegin(w, r)
    PROVE  IInv'
  <1>1. CASE RidersStep(w)
    BY <1>1, ClaimTxKeeps, AssignMatchKeeps, AssignWriteKeeps,
       RiderUpdateReadKeeps, RiderUpdateWriteKeeps, SetOnlineWriteKeeps,
       ChangeStatusWriteKeeps DEF RidersStep
  <1>2. CASE \E r \in Riders : RidersBegin(w, r)
    BY <1>2, ClaimReadKeeps, AssignReadKeeps, RiderUpdateBeginKeeps,
       SetOnlineReadKeeps, ChangeStatusReadKeeps DEF RidersBegin
  <1> QED BY <1>1, <1>2

LEMMA NextKeeps ==
    ASSUME StoreAssumption, IInv, [Next]_vars
    PROVE  IInv'
  <1>1. CASE \E w \in Workers : Arrives(w) \/ Handles(w) \/ Crash(w)
    <2>1. PICK w \in Workers : Arrives(w) \/ Handles(w) \/ Crash(w)
      BY <1>1
    <2>2. CASE Arrives(w)
      BY <2>2, OrdersKeep, PaymentsKeep, RidersKeep DEF Arrives
    <2>3. CASE Handles(w)
      BY <2>3, OrdersKeep, PaymentsKeep, RidersKeep DEF Handles
    <2>4. CASE Crash(w)
      BY <2>4, FinishOnlyKeeps DEF Crash, TablesUnchanged
    <2> QED BY <2>1, <2>2, <2>3, <2>4
  <1>2. CASE WechatMoves
    BY <1>2, CustomerPaysKeeps, WechatSettlesRefundKeeps DEF WechatMoves
  <1>3. CASE UNCHANGED vars
    <2>1. TablesUnchanged /\ UNCHANGED req
      BY <1>3 DEF vars, TablesUnchanged, orderTables, riderTables,
         paymentTables, wechat
    <2> QED BY <2>1, TablesStay, WorldKeeps DEF IInv, TypeOK
  <1> QED BY <1>1, <1>2, <1>3 DEF Next

(* In every reachable state, whatever interleaves and wherever a process    *)
(* dies, the tables agree with each other and with WeChat, and what each    *)
(* request in flight has read and relies on is still true.                  *)
THEOREM Invariance == Spec => []IInv
  <1>1. Init => IInv
    BY StoreAssumption, InitHolds
  <1>2. IInv /\ [Next]_vars => IInv'
    BY StoreAssumption, NextKeeps
  <1> QED BY <1>1, <1>2, PTL DEF Spec

(* Every row holds values its column can hold, every request a step its     *)
(* handler has: no write of one handler stores another's status.            *)
THEOREM TypeCorrect == Spec => []TypeOK
  <1>1. IInv => TypeOK
    BY DEF IInv
  <1> QED BY <1>1, Invariance, PTL

(* No order is accepted, carried or completed (updateStatus, claim, assign  *)
(* and the rider's updates) unless its own trade has been captured.         *)
THEOREM PaidBeforeProgress == Spec => []ProgressIsPaid
  <1>1. IInv => ProgressIsPaid
    BY DEF IInv, TablesInv, MoneyInv, ProgressIsPaid
  <1> QED BY <1>1, Invariance, PTL

(* However many claim and assign transactions race, an order has one        *)
(* assignment row, its rider's, and none is carried without a rider.        *)
THEOREM OneRiderForGood == Spec => []TakenOnce
  <1>1. IInv => TakenOnce
    BY DEF IInv, TablesInv
  <1> QED BY <1>1, Invariance, PTL

(* What rider_idempotency remembers of a claim is true of the order for     *)
(* ever: a replayed answer never speaks of another rider's order.           *)
THEOREM ReplayIsTrue == Spec => []ClaimIsRemembered
  <1>1. IInv => ClaimIsRemembered
    BY DEF IInv, TablesInv
  <1> QED BY <1>1, Invariance, PTL

(* Every refund that WeChat holds is named by the refund row of an order    *)
(* whose money was captured: refundForCancellation and its retries never    *)
(* lose track of an out_refund_no they have used.                           *)
THEOREM EveryRefundRecorded == Spec => []RefundsAreRecorded
  <1>1. IInv => RefundsAreRecorded
    <2> SUFFICES ASSUME IInv, NEW n \in RefundNos, wxRefund[n] # "NONE"
                 PROVE  \E o \in Orders : refund[o].no = n /\ Captured(o)
      BY DEF RefundsAreRecorded
    <2>1. PICK o \in Orders : refund[o].no = n
      BY DEF IInv, TablesInv, NoStrayRefund
    <2>2. Captured(o)
      BY <2>1, StoreAssumption DEF StoreAssumption, IInv, TablesInv, MoneyInv
    <2> QED BY <2>1, <2>2
  <1> QED BY <1>1, Invariance, PTL
=============================================================================
