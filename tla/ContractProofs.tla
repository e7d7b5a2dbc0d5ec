--------------------------- MODULE ContractProofs ---------------------------
(***************************************************************************)
(* Platform implements DeliveryContract, for every set of orders, riders   *)
(* and workers: each of its steps is a capture, a dispatch or a refund of  *)
(* one order, or changes nothing the contract can see.                     *)
(***************************************************************************)
EXTENDS PlatformProofs

----------------------------------------------------------------------------
(* What most steps leave alone: all the contract sees, and the numbers of   *)
(* refunds.                                                                 *)
QuietOrders ==
    \A o \in Orders : /\ payment'[o].txn = payment[o].txn
                      /\ order'[o].rider = order[o].rider
QuietRefunds ==
    /\ \A o \in Orders : refund'[o].no = refund[o].no
    /\ \A n \in RefundNos : (wxRefund'[n] # "NONE") = (wxRefund[n] # "NONE")
    /\ \A w \in Workers : Drawn(req'[w]) => req'[w] = req[w]
Quiet == QuietOrders /\ QuietRefunds

(* The two kinds of steps that change the contract's orders.                *)
Captures(o) ==
    /\ QuietRefunds
    /\ \A p \in Orders : /\ order'[p].rider = order[p].rider
                         /\ p # o => payment'[p].txn = payment[p].txn
    /\ payment'[o].txn # "none"
Takes(o, r) ==
    /\ QuietRefunds
    /\ \A p \in Orders : /\ payment'[p].txn = payment[p].txn
                         /\ p # o => order'[p].rider = order[p].rider
    /\ Booked(o)
    /\ order[o].rider = None /\ order'[o].rider = r

Moves(w, r) == req' = [req EXCEPT ![w] = r]

LEMMA MovesDrawNothing ==
    ASSUME TypeOK, NEW w \in Workers, NEW r, Moves(w, r), ~Drawn(r)
    PROVE  \A v \in Workers : Drawn(req'[v]) => req'[v] = req[v]
  BY DEF TypeOK, Moves

LEMMA FinishDrawsNothing ==
    ASSUME TypeOK, NEW w \in Workers, Finish(w)
    PROVE  \A v \in Workers : Drawn(req'[v]) => req'[v] = req[v]
  <1> DEFINE r == Idle
  <1>1. Moves(w, r) /\ ~Drawn(r)
    BY DEF Finish, Moves, Drawn, Idle
  <1> QED BY <1>1, MovesDrawNothing

LEMMA GotoDrawsNothing ==
    ASSUME TypeOK, NEW w \in Workers, NEW pc, Goto(w, pc), pc # "refundUpsert"
    PROVE  \A v \in Workers : Drawn(req'[v]) => req'[v] = req[v]
  <1>1. req[w] \in Request
    BY DEF TypeOK
  <1> DEFINE r == [req[w] EXCEPT !.pc = pc]
  <1>2. Moves(w, r) /\ ~Drawn(r)
    BY <1>1 DEF Goto, Moves, Drawn, Request
  <1> QED BY <1>2, MovesDrawNothing

LEMMA ReturnDrawsNothing ==
    ASSUME TypeOK, NEW w \in Workers, NEW result, ReturnRefund(w, result)
    PROVE  \A v \in Workers : Drawn(req'[v]) => req'[v] = req[v]
  <1>1. req[w] \in Request
    BY DEF TypeOK
  <1> DEFINE r == IF req[w].op = "cancel"
                  THEN [req[w] EXCEPT !.pc = "write", !.to = result, !.no = None]
                  ELSE Idle
  <1>2. Moves(w, r) /\ ~Drawn(r)
    BY <1>1 DEF ReturnRefund, Moves, Drawn, Request, Idle
  <1> QED BY <1>2, MovesDrawNothing

(* A request that arrives has drawn no refund number.                       *)
LEMMA BeginIsQuiet ==
    ASSUME TypeOK, NEW w \in Workers, NEW r, Begin(w, r), ~Drawn(r),
           TablesUnchanged
    PROVE  Quiet
  <1>1. \A v \in Workers : Drawn(req'[v]) => req'[v] = req[v]
    BY MovesDrawNothing DEF Begin, Moves
  <1> QED BY <1>1 DEF Quiet, QuietOrders, QuietRefunds, TablesUnchanged,
             orderTables, paymentTables, wechat

----------------------------------------------------------------------------
LEMMA OrdersBeginIsQuiet ==
    ASSUME TypeOK, NEW w \in Workers, NEW o \in Orders, OrdersBegin(w, o)
    PROVE  Quiet
  <1> USE DEF Drawn, Idle, TablesUnchanged
  <1>1. ASSUME NEW status \in OrderStatus, UpdateStatusRead(w, o, status)
        PROVE  Quiet
    BY <1>1, BeginIsQuiet DEF UpdateStatusRead
  <1>2. CASE CancelRead(w, o)
    BY <1>2, BeginIsQuiet DEF CancelRead
  <1>3. CASE HideRead(w, o)
    BY <1>3, BeginIsQuiet DEF HideRead
  <1>4. ASSUME NEW fee \in Fees, QuoteRead(w, o, fee)
        PROVE  Quiet
    BY <1>4, BeginIsQuiet DEF QuoteRead
  <1>5. ASSUME NEW decision \in {"ACCEPTED", "REJECTED"},
               RespondToQuoteRead(w, o, decision)
        PROVE  Quiet
    BY <1>5, BeginIsQuiet DEF RespondToQuoteRead
  <1> QED BY <1>1, <1>2, <1>3, <1>4, <1>5 DEF OrdersBegin

LEMMA PaymentsBeginIsQuiet ==
    ASSUME TypeOK, NEW w \in Workers, NEW o \in Orders,
           PaymentsBegin(w, o) \/ WechatNotifies(w, o)
    PROVE  Quiet
  <1> USE DEF Drawn, Idle, TablesUnchanged
  <1>1. ASSUME NEW t \in TradeNos, CreatePrepayRead(w, o, t)
        PROVE  Quiet
    BY <1>1, BeginIsQuiet DEF CreatePrepayRead
  <1>2. CASE ConfirmMockPaymentRead(w, o)
    BY <1>2, BeginIsQuiet DEF ConfirmMockPaymentRead
  <1>3. CASE RefundBegin(w, o)
    BY <1>3, BeginIsQuiet DEF RefundBegin
  <1>4. ASSUME NEW t \in TradeNos, HandleWechatNotificationRead(w, o, t)
        PROVE  Quiet
    BY <1>4, BeginIsQuiet DEF HandleWechatNotificationRead
  <1>5. ASSUME NEW n \in RefundNos, HandleWechatRefundNotificationRead(w, o, n)
        PROVE  Quiet
    BY <1>5, BeginIsQuiet DEF HandleWechatRefundNotificationRead
  <1> QED BY <1>1, <1>2, <1>3, <1>4, <1>5 DEF PaymentsBegin, WechatNotifies

LEMMA RidersBeginIsQuiet ==
    ASSUME TypeOK, NEW w \in Workers, NEW r \in Riders, RidersBegin(w, r)
    PROVE  Quiet
  <1> USE DEF Drawn, Idle, TablesUnchanged
  <1>1. ASSUME NEW o \in Orders, NEW k \in Keys, ClaimRead(w, r, o, k)
        PROVE  Quiet
    BY <1>1, BeginIsQuiet DEF ClaimRead
  <1>2. ASSUME NEW o \in Orders, AssignRead(w, r, o)
        PROVE  Quiet
    BY <1>2, BeginIsQuiet DEF AssignRead
  <1>3. ASSUME NEW o \in Orders,
               NEW status \in {"ARRIVED", "DELIVERING", "COMPLETED"},
               RiderUpdateBegin(w, r, o, status)
        PROVE  Quiet
    BY <1>3, BeginIsQuiet DEF RiderUpdateBegin
  <1>4. ASSUME NEW online \in {"ONLINE", "OFFLINE"}, SetOnlineRead(w, r, online)
        PROVE  Quiet
    BY <1>4, BeginIsQuiet DEF SetOnlineRead
  <1>5. ASSUME NEW role \in {"ACTIVE", "SUSPENDED", "RESIGNED"},
               ChangeStatusRead(w, r, role)
        PROVE  Quiet
    BY <1>5, BeginIsQuiet DEF ChangeStatusRead
  <1> QED BY <1>1, <1>2, <1>3, <1>4, <1>5 DEF RidersBegin

----------------------------------------------------------------------------
(* The steps of handlers that only write what the contract does not see.    *)
LEMMA OrdersStepIsQuiet ==
    ASSUME TypeOK, NEW w \in Workers, req[w].o \in Orders, OrdersStep(w)
    PROVE  Quiet
  <1> USE DEF Quiet, QuietOrders, QuietRefunds, paymentTables, wechat
  <1>1. /\ Finish(w)
        /\ order[req[w].o] \in OrderRow
        /\ payment[req[w].o] \in PaymentRow
    BY DEF OrdersStep, UpdateStatusWrite, CancelWrite, HideWrite, QuoteWrite,
           RespondToQuoteWrite, TypeOK
  <1>2. \A v \in Workers : Drawn(req'[v]) => req'[v] = req[v]
    BY <1>1, FinishDrawsNothing
  <1>3. CASE UpdateStatusWrite(w)
    BY <1>1, <1>2, <1>3 DEF UpdateStatusWrite, TypeOK, OrderRow
  <1>4. CASE CancelWrite(w)
    BY <1>1, <1>2, <1>4 DEF CancelWrite, TypeOK, OrderRow, PaymentRow
  <1>5. CASE HideWrite(w)
    BY <1>1, <1>2, <1>5 DEF HideWrite, TypeOK, OrderRow
  <1>6. CASE QuoteWrite(w)
    BY <1>1, <1>2, <1>6 DEF QuoteWrite, TypeOK, OrderRow
  <1>7. CASE RespondToQuoteWrite(w)
    BY <1>1, <1>2, <1>7 DEF RespondToQuoteWrite, TypeOK, OrderRow
  <1> QED BY <1>3, <1>4, <1>5, <1>6, <1>7 DEF OrdersStep

(* Prepaying, and closing a trade that was not paid.                        *)
LEMMA PrepayIsQuiet ==
    ASSUME TypeOK, NEW w \in Workers, req[w].o \in Orders,
           \/ RequestWechatPrepay(w) \/ CreatePrepaySave(w)
           \/ ClosePendingPaymentRead(w) \/ CloseWechatTrade(w)
           \/ ClosePendingPaymentWrite(w)
    PROVE  Quiet
  <1> USE DEF Quiet, QuietOrders, QuietRefunds, orderTables, paymentTables,
              wechat
  <1>1. payment[req[w].o] \in PaymentRow /\ req[w] \in Request
    BY DEF TypeOK
  <1>2. CASE RequestWechatPrepay(w)
    <2> DEFINE r == [req[w] EXCEPT !.pc = "savePrepay", !.prepay = req[w].trade]
    <2>1. Moves(w, r) /\ ~Drawn(r)
      BY <1>1, <1>2 DEF RequestWechatPrepay, Moves, Drawn, Request
    <2>2. \A v \in Workers : Drawn(req'[v]) => req'[v] = req[v]
      BY <2>1, MovesDrawNothing
    <2> QED BY <1>2, <2>2 DEF RequestWechatPrepay
  <1>3. CASE CreatePrepaySave(w)
    <2>1. \A v \in Workers : Drawn(req'[v]) => req'[v] = req[v]
      BY <1>3, FinishDrawsNothing DEF CreatePrepaySave
    <2> QED BY <1>1, <1>3, <2>1 DEF CreatePrepaySave, TypeOK, PaymentRow
  <1>4. CASE ClosePendingPaymentRead(w)
    <2>1. CloseRoute(req[w].o) # "refundUpsert"
      BY DEF CloseRoute
    <2>2. \A v \in Workers : Drawn(req'[v]) => req'[v] = req[v]
      BY <1>4, <2>1, GotoDrawsNothing DEF ClosePendingPaymentRead
    <2> QED BY <1>4, <2>2 DEF ClosePendingPaymentRead
  <1>5. CASE CloseWechatTrade(w)
    <2>1. \A v \in Workers : Drawn(req'[v]) => req'[v] = req[v]
      BY <1>5, GotoDrawsNothing, FinishDrawsNothing DEF CloseWechatTrade
    <2> QED BY <1>5, <2>1 DEF CloseWechatTrade
  <1>6. CASE ClosePendingPaymentWrite(w)
    <2>1. \A v \in Workers : Drawn(req'[v]) => req'[v] = req[v]
      BY <1>6, GotoDrawsNothing DEF ClosePendingPaymentWrite
    <2> QED BY <1>1, <1>6, <2>1 DEF ClosePendingPaymentWrite, TypeOK, PaymentRow
  <1> QED BY <1>2, <1>3, <1>4, <1>5, <1>6

(* persistRefundResult writes statuses only.                                *)
LEMMA PersistIsQuiet ==
    ASSUME TypeOK, NEW o \in Orders, NEW s, persistRefundResult(o, s)
    PROVE  /\ QuietOrders
           /\ \A p \in Orders : refund'[p].no = refund[p].no
  <1>1. /\ order[o] \in OrderRow /\ payment[o] \in PaymentRow
        /\ refund[o] \in RefundRow
    BY DEF TypeOK
  <1>2. \A p \in Orders : refund'[p].no = refund[p].no
    BY <1>1 DEF persistRefundResult, TypeOK, RefundRow
  <1>3. \A p \in Orders : payment'[p].txn = payment[p].txn
    BY <1>1 DEF persistRefundResult, TypeOK, PaymentRow
  <1>4. \A p \in Orders : order'[p].rider = order[p].rider
    BY <1>1 DEF persistRefundResult, TypeOK, OrderRow
  <1> QED BY <1>2, <1>3, <1>4 DEF QuietOrders

(* What a refund reads and records, apart from the number it uses.          *)
LEMMA RefundStepIsQuiet ==
    ASSUME TypeOK, NEW w \in Workers, req[w].o \in Orders,
           \/ RefundRead(w) \/ RefundMockPayment(w) \/ RefundFailed(w)
           \/ RefundPersist(w) \/ HandleWechatRefundNotificationWrite(w)
    PROVE  Quiet
  <1> USE DEF Quiet, QuietRefunds, orderTables, paymentTables, wechat
  <1>1. payment[req[w].o] \in PaymentRow /\ refund[req[w].o] \in RefundRow
    BY DEF TypeOK
  <1>2. CASE RefundRead(w)
    <2>1. RefundRoute(req[w].o) # "refundUpsert"
      BY DEF RefundRoute
    <2>2. \/ ReturnRefund(w, "REFUNDED") \/ Finish(w)
          \/ Goto(w, RefundRoute(req[w].o))
      BY <1>2 DEF RefundRead, RefundRoute
    <2>3. \A v \in Workers : Drawn(req'[v]) => req'[v] = req[v]
      BY <2>1, <2>2, ReturnDrawsNothing, FinishDrawsNothing, GotoDrawsNothing
    <2> QED BY <1>2, <2>3 DEF RefundRead, QuietOrders
  <1>3. CASE RefundMockPayment(w)
    <2>1. \A v \in Workers : Drawn(req'[v]) => req'[v] = req[v]
      BY <1>3, ReturnDrawsNothing DEF RefundMockPayment
    <2> QED BY <1>1, <1>3, <2>1
            DEF RefundMockPayment, QuietOrders, TypeOK, PaymentRow
  <1>4. CASE RefundFailed(w)
    <2>1. \A v \in Workers : Drawn(req'[v]) => req'[v] = req[v]
      BY <1>4, FinishDrawsNothing DEF RefundFailed
    <2> QED BY <1>1, <1>4, <2>1
            DEF RefundFailed, QuietOrders, TypeOK, RefundRow
  <1>5. CASE RefundPersist(w)
    <2>1. \/ ReturnRefund(w, "REFUNDED") \/ ReturnRefund(w, "REFUNDING")
          \/ Finish(w)
      BY <1>5 DEF RefundPersist
    <2>2. \A v \in Workers : Drawn(req'[v]) => req'[v] = req[v]
      BY <2>1, ReturnDrawsNothing, FinishDrawsNothing
    <2> QED BY <1>5, <2>2, PersistIsQuiet DEF RefundPersist
  <1>6. CASE HandleWechatRefundNotificationWrite(w)
    <2>1. \A v \in Workers : Drawn(req'[v]) => req'[v] = req[v]
      BY <1>6, FinishDrawsNothing DEF HandleWechatRefundNotificationWrite
    <2> QED BY <1>6, <2>1, PersistIsQuiet
            DEF HandleWechatRefundNotificationWrite
  <1> QED BY <1>2, <1>3, <1>4, <1>5, <1>6


----------------------------------------------------------------------------
(* A booking captures one order; claiming and assigning take one.           *)
LEMMA BookingCaptures ==
    ASSUME TypeOK, NEW w \in Workers, req[w].o \in Orders,
           ConfirmMockPaymentWrite(w) \/ HandleWechatNotificationWrite(w)
    PROVE  Captures(req[w].o)
  <1>1. /\ payment[req[w].o] \in PaymentRow /\ order[req[w].o] \in OrderRow
    BY DEF TypeOK
  <1>2. PICK txn \in {"MOCK", "WX"} : RecordPayment(req[w].o, txn)
    BY DEF ConfirmMockPaymentWrite, HandleWechatNotificationWrite
  <1>3. Finish(w) /\ UNCHANGED <<refund, wechat>>
    BY DEF ConfirmMockPaymentWrite, HandleWechatNotificationWrite
  <1>4. QuietRefunds
    BY <1>3, FinishDrawsNothing DEF QuietRefunds, wechat
  <1>5. \A p \in Orders : order'[p].rider = order[p].rider
    BY <1>1, <1>2 DEF RecordPayment, TypeOK, OrderRow
  <1>6. /\ \A p \in Orders : p # req[w].o => payment'[p].txn = payment[p].txn
        /\ payment'[req[w].o].txn # "none"
    BY <1>1, <1>2 DEF RecordPayment, TypeOK, PaymentRow
  <1> QED BY <1>4, <1>5, <1>6 DEF Captures

LEMMA TakingTakes ==
    ASSUME IInv, NEW w \in Workers, NEW o \in Orders, NEW r \in Riders,
           Dispatchable(o), TakeOrder(o, r), Finish(w),
           UNCHANGED <<paymentTables, wechat>>
    PROVE  Takes(o, r)
  <1>1. order[o] \in OrderRow /\ TypeOK
    BY DEF IInv, TypeOK
  <1>2. QuietRefunds
    BY <1>1, FinishDrawsNothing DEF QuietRefunds, paymentTables, wechat
  <1>3. Booked(o) /\ order[o].rider = None
    BY DEF Dispatchable, IInv, TablesInv, MoneyInv
  <1>4. \A p \in Orders : payment'[p].txn = payment[p].txn
    BY DEF paymentTables
  <1>5. /\ \A p \in Orders : p # o => order'[p].rider = order[p].rider
        /\ order'[o].rider = r
    BY <1>1 DEF TakeOrder, TypeOK, OrderRow
  <1> QED BY <1>2, <1>3, <1>4, <1>5 DEF Takes

LEMMA RidersStepKind ==
    ASSUME IInv, NEW w \in Workers, RidersStep(w)
    PROVE  \/ Quiet
           \/ \E o \in Orders, r \in Riders : Takes(o, r)
  <1> USE DEF Quiet, QuietOrders, QuietRefunds, orderTables, paymentTables,
              wechat
  <1>1. TypeOK /\ Typed(req[w])
    BY DEF IInv
  <1>2. CASE ClaimTx(w)
    <2>1. req[w].o \in Orders /\ req[w].rider \in Riders /\ Finish(w)
      BY <1>1, <1>2 DEF ClaimTx, At, Typed
    <2>2. \/ /\ Dispatchable(req[w].o) /\ TakeOrder(req[w].o, req[w].rider)
          \/ UNCHANGED orderTables
      BY <1>2 DEF ClaimTx
    <2>3. CASE UNCHANGED orderTables
      BY <1>1, <1>2, <2>1, <2>3, FinishDrawsNothing DEF ClaimTx
    <2>4. CASE Dispatchable(req[w].o) /\ TakeOrder(req[w].o, req[w].rider)
      BY <1>2, <2>1, <2>4, TakingTakes DEF ClaimTx
    <2> QED BY <2>2, <2>3, <2>4
  <1>3. CASE AssignWrite(w)
    <2>1. req[w].o \in Orders /\ req[w].rider \in Riders /\ Finish(w)
      BY <1>1, <1>3 DEF AssignWrite, At, Typed
    <2>2. \/ Dispatchable(req[w].o) /\ TakeOrder(req[w].o, req[w].rider)
          \/ UNCHANGED orderTables
      BY <1>3 DEF AssignWrite
    <2>3. CASE UNCHANGED orderTables
      BY <1>1, <1>3, <2>1, <2>3, FinishDrawsNothing DEF AssignWrite
    <2>4. CASE Dispatchable(req[w].o) /\ TakeOrder(req[w].o, req[w].rider)
      BY <1>3, <2>1, <2>4, TakingTakes DEF AssignWrite
    <2> QED BY <2>2, <2>3, <2>4
  <1>4. CASE AssignMatch(w) \/ RiderUpdateRead(w)
    BY <1>1, <1>4, FinishDrawsNothing, GotoDrawsNothing
       DEF AssignMatch, RiderUpdateRead
  <1>5. CASE RiderUpdateWrite(w)
    <2>1. order[req[w].o] \in OrderRow
      BY <1>1, <1>5 DEF RiderUpdateWrite, At, Typed, TypeOK
    <2> QED BY <1>1, <1>5, <2>1, FinishDrawsNothing
            DEF RiderUpdateWrite, TypeOK, OrderRow
  <1>6. CASE SetOnlineWrite(w) \/ ChangeStatusWrite(w)
    BY <1>1, <1>6, FinishDrawsNothing DEF SetOnlineWrite, ChangeStatusWrite
  <1> QED BY <1>2, <1>3, <1>4, <1>5, <1>6 DEF RidersStep

----------------------------------------------------------------------------
(* What the contract sees of any step.                                      *)
LEMMA StepKinds ==
    ASSUME IInv, [Next]_vars
    PROVE  \/ Quiet
           \/ \E o \in Orders : Captures(o)
           \/ \E o \in Orders, r \in Riders : Takes(o, r)
           \/ \E w \in Workers : \/ RefundLookup(w) \/ RefundUpsert(w)
                                 \/ RequestWechatRefund(w)
  <1> USE DEF IInv
  <1>1. ASSUME NEW w \in Workers, Arrives(w)
        PROVE  Quiet
    BY <1>1, OrdersBeginIsQuiet, PaymentsBeginIsQuiet, RidersBeginIsQuiet
       DEF Arrives
  <1>2. ASSUME NEW w \in Workers, OrdersStep(w)
        PROVE  Quiet
    <2>1. req[w].o \in Orders
      BY <1>2 DEF Typed, OrdersStep, UpdateStatusWrite, CancelWrite, HideWrite,
                  QuoteWrite, RespondToQuoteWrite, At
    <2> QED BY <1>2, <2>1, OrdersStepIsQuiet
  <1>3. ASSUME NEW w \in Workers, PaymentsStep(w)
        PROVE  \/ Quiet \/ \E o \in Orders : Captures(o)
               \/ RefundLookup(w) \/ RefundUpsert(w) \/ RequestWechatRefund(w)
    <2>1. req[w].op \notin {"none", "setOnline", "changeStatus"}
      <3>1. Typed(req[w])
        OBVIOUS
      <3> QED BY <1>3, <3>1 DEF Typed, RefundSteps, PaymentsStep,
           RequestWechatPrepay, CreatePrepaySave, ConfirmMockPaymentWrite,
           HandleWechatNotificationWrite, ClosePendingPaymentRead,
           CloseWechatTrade, ClosePendingPaymentWrite, RefundRead,
           RefundMockPayment, RefundLookup, RefundUpsert, RequestWechatRefund,
           RefundFailed, RefundPersist, HandleWechatRefundNotificationWrite, At
    <2>2. req[w].o \in Orders
      BY <2>1 DEF Typed
    <2> QED BY <1>3, <2>2, PrepayIsQuiet, RefundStepIsQuiet, BookingCaptures
            DEF PaymentsStep
  <1>4. ASSUME NEW w \in Workers, Crash(w)
        PROVE  Quiet
    BY <1>4, FinishDrawsNothing DEF Crash, Quiet, QuietOrders, QuietRefunds,
       orderTables, paymentTables, wechat
  <1>5. CASE WechatMoves
    BY <1>5 DEF WechatMoves, CustomerPays, WechatSettlesRefund, Quiet,
       QuietOrders, QuietRefunds, orderTables, paymentTables, TypeOK
  <1>6. CASE UNCHANGED vars
    BY <1>6 DEF vars, Quiet, QuietOrders, QuietRefunds, orderTables,
       paymentTables, wechat
  <1> QED BY <1>1, <1>2, <1>3, <1>4, <1>5, <1>6, RidersStepKind
          DEF Next, Handles

----------------------------------------------------------------------------
(* A refund number keeps its one holder.                                    *)
LEMMA QuietKeepsHolder ==
    ASSUME OneHolder, QuietRefunds
    PROVE  OneHolder'
  BY DEF OneHolder, QuietRefunds, Drawn

LEMMA LookupKeepsHolder ==
    ASSUME StoreAssumption, IInv, OneHolder, NEW w \in Workers, RefundLookup(w)
    PROVE  OneHolder'
  <1>1. req[w].o \in Orders /\ req[w] \in Request /\ TypeOK
    BY DEF RefundLookup, IInv, Typed, TypeOK, RefundSteps
  <1>2. UNCHANGED refund
    BY DEF RefundLookup, paymentTables
  <1>3. CASE ReturnRefund(w, "REFUNDED") \/ ReturnRefund(w, "REFUNDING")
    BY <1>1, <1>2, <1>3, ReturnDrawsNothing DEF OneHolder, Drawn
  <1>4. ASSUME NEW n \in RefundNos,
               IF refund[req[w].o].no # None THEN n = refund[req[w].o].no
               ELSE FreshRefundNo(n),
               req' = [req EXCEPT ![w] =
                         [@ EXCEPT !.pc = "refundUpsert", !.no = n]]
        PROVE  OneHolder'
    <2>1. /\ req'[w].pc = "refundUpsert" /\ req'[w].no = n
          /\ req'[w].o = req[w].o
          /\ \A v \in Workers \ {w} : req'[v] = req[v]
      BY <1>1, <1>4 DEF TypeOK, Request
    <2>2. \A o \in Orders : refund[o].no = n => o = req[w].o
      BY <1>1, <1>4 DEF FreshRefundNo, OneHolder
    <2>3. \A v \in Workers \ {w} :
            Drawn(req[v]) /\ req[v].no = n => req[v].o = req[w].o
      BY <1>1, <1>4 DEF FreshRefundNo, OneHolder
    <2> QED BY <1>2, <2>1, <2>2, <2>3 DEF OneHolder, Drawn
  <1> QED BY <1>3, <1>4 DEF RefundLookup

(* The number that RefundUpsert stores for the first time names no refund   *)
(* at WeChat yet.                                                           *)
LEMMA UpsertStores ==
    ASSUME StoreAssumption, IInv, OneHolder, NEW w \in Workers, RefundUpsert(w)
    PROVE  /\ req[w].o \in Orders /\ req[w].no \in RefundNos
           /\ Booked(req[w].o)
           /\ refund'[req[w].o].no
                = OutRefundNo(req[w].o, req[w].no)
           /\ \A p \in Orders : p # req[w].o => refund'[p].no = refund[p].no
           /\ refund[req[w].o].no = None => wxRefund[req[w].no] = "NONE"
           /\ ~Drawn(req'[w])
           /\ \A v \in Workers \ {w} : req'[v] = req[v]
  <1>1. /\ req[w].o \in Orders /\ req[w].no \in RefundNos /\ req[w] \in Request
        /\ Booked(req[w].o)
    BY DEF RefundUpsert, IInv, Typed, TypeOK, RefundSteps, Knows, SawBooking
  <1>2. /\ refund'[req[w].o].no = OutRefundNo(req[w].o, req[w].no)
        /\ \A p \in Orders : p # req[w].o => refund'[p].no = refund[p].no
    BY <1>1 DEF RefundUpsert, IInv, TypeOK
  <1>3. ASSUME refund[req[w].o].no = None
        PROVE  wxRefund[req[w].no] = "NONE"
    BY <1>1, <1>3 DEF IInv, TablesInv, NoStrayRefund, OneHolder, Drawn,
       RefundUpsert, StoreAssumption
  <1>4. ~Drawn(req'[w]) /\ \A v \in Workers \ {w} : req'[v] = req[v]
    BY <1>1 DEF RefundUpsert, IInv, TypeOK, Request, Drawn
  <1> QED BY <1>1, <1>2, <1>3, <1>4

LEMMA UpsertKeepsHolder ==
    ASSUME StoreAssumption, IInv, OneHolder, NEW w \in Workers, RefundUpsert(w)
    PROVE  OneHolder'
  <1> DEFINE o == req[w].o
  <1>1. /\ o \in Orders /\ Drawn(req[w])
        /\ refund'[o].no = OutRefundNo(o, req[w].no)
        /\ \A p \in Orders : p # o => refund'[p].no = refund[p].no
        /\ ~Drawn(req'[w])
        /\ \A v \in Workers \ {w} : req'[v] = req[v]
    BY UpsertStores DEF RefundUpsert, Drawn
  <1> HIDE DEF o
  <1>2. \A p \in Orders : p # o /\ refund[p].no # None =>
          refund[p].no # OutRefundNo(o, req[w].no)
    BY <1>1 DEF OneHolder, OutRefundNo, o
  <1>3. \A v \in Workers \ {w} :
          Drawn(req[v]) /\ req[v].no = OutRefundNo(o, req[w].no)
            => req[v].o = o
    BY <1>1 DEF OneHolder, OutRefundNo, o
  <1>4. \A p, q \in Orders :
          refund'[p].no # None /\ refund'[p].no = refund'[q].no => p = q
    BY <1>1, <1>2 DEF OneHolder
  <1>5. \A v \in Workers, p \in Orders :
          Drawn(req'[v]) /\ refund'[p].no = req'[v].no => p = req'[v].o
    BY <1>1, <1>3 DEF OneHolder
  <1>6. \A u, v \in Workers :
          Drawn(req'[u]) /\ Drawn(req'[v]) /\ req'[u].no = req'[v].no
            => req'[u].o = req'[v].o
    BY <1>1 DEF OneHolder
  <1> QED BY <1>4, <1>5, <1>6 DEF OneHolder, Drawn

LEMMA CallKeepsHolder ==
    ASSUME IInv, OneHolder, NEW w \in Workers, RequestWechatRefund(w)
    PROVE  OneHolder'
  <1>1. req[w] \in Request
    BY DEF IInv, TypeOK
  <1>2. ASSUME NEW s,
               req' = [req EXCEPT ![w] = [@ EXCEPT !.pc = "refundPersist",
                                            !.to = mapWechatRefundStatus(s)]]
        PROVE  \A v \in Workers : Drawn(req'[v]) => req'[v] = req[v]
    <2> DEFINE r == [req[w] EXCEPT !.pc = "refundPersist",
                                   !.to = mapWechatRefundStatus(s)]
    <2>1. Moves(w, r) /\ ~Drawn(r)
      BY <1>1, <1>2 DEF Moves, Drawn, Request
    <2> QED BY <2>1, MovesDrawNothing DEF IInv
  <1>3. \A v \in Workers : Drawn(req'[v]) => req'[v] = req[v]
    BY <1>2, GotoDrawsNothing DEF RequestWechatRefund, IInv
  <1> QED BY <1>3 DEF OneHolder, RequestWechatRefund, paymentTables, Drawn

LEMMA NextKeepsHolder ==
    ASSUME StoreAssumption, IInv, OneHolder, [Next]_vars
    PROVE  OneHolder'
  BY StepKinds, QuietKeepsHolder, LookupKeepsHolder, UpsertKeepsHolder,
     CallKeepsHolder DEF Quiet, Captures, Takes

(* However many refunds of an order and of other orders run at once, with   *)
(* createRefundNo drawing a number before the upsert stores one, and the    *)
(* process dying anywhere: no refund number is used for two orders          *)
(* (payments.service.ts:423-470).                                           *)
THEOREM RefundNoHasOneHolder == Spec => []OneHolder
  <1>1. Init => OneHolder
    BY StoreAssumption DEF Init, OneHolder, Drawn, Idle
  <1>2. IInv /\ OneHolder /\ [Next]_vars => OneHolder'
    BY StoreAssumption, NextKeepsHolder
  <1> QED BY <1>1, <1>2, Invariance, PTL DEF Spec

----------------------------------------------------------------------------
(* Each kind of step is a step of the contract.                             *)
ContractState ==
    UNCHANGED <<{o \in Orders : payment[o].txn # "none"},
                [o \in Orders |-> order[o].rider],
                {o \in Orders : Refunded(o)}>>

(* The numbers in the rows are numbers of refunds.                          *)
LEMMA RefundedStays ==
    ASSUME StoreAssumption, TypeOK, QuietRefunds
    PROVE  {o \in Orders : Refunded(o)}' = {o \in Orders : Refunded(o)}
  <1>1. \A o \in Orders : refund[o].no # None => refund[o].no \in RefundNos
    BY DEF TypeOK, RefundRow
  <1>2. \A o \in Orders : Refunded(o)' = Refunded(o)
    BY <1>1 DEF QuietRefunds, Refunded
  <1> QED BY <1>2

LEMMA QuietStutters ==
    ASSUME StoreAssumption, TypeOK, Quiet
    PROVE  ContractState
  BY RefundedStays DEF Quiet, QuietOrders, ContractState

(* A draw changes no row.                                                   *)
LEMMA LookupStutters ==
    ASSUME NEW w \in Workers, RefundLookup(w)
    PROVE  ContractState
  BY DEF RefundLookup, ContractState, orderTables, paymentTables, wechat,
         Refunded

(* Storing a number starts no refund: WeChat has none of that number.       *)
LEMMA UpsertStutters ==
    ASSUME StoreAssumption, IInv, OneHolder, NEW w \in Workers, RefundUpsert(w)
    PROVE  ContractState
  <1> DEFINE o == req[w].o
  <1>1. /\ o \in Orders
        /\ UNCHANGED <<order, payment, wxRefund>>
        /\ refund'[o].no = OutRefundNo(o, req[w].no)
        /\ \A p \in Orders : p # o => refund'[p].no = refund[p].no
        /\ refund[o].no = None => wxRefund[req[w].no] = "NONE"
    BY UpsertStores DEF RefundUpsert, orderTables, wechat
  <1> HIDE DEF o
  <1>2. \A p \in Orders : Refunded(p)' = Refunded(p)
    BY <1>1 DEF Refunded, OutRefundNo
  <1> QED BY <1>1, <1>2 DEF ContractState

(* WeChat's first answer for a number is the refund of its one holder.      *)
LEMMA CallRefunds ==
    ASSUME StoreAssumption, IInv, OneHolder,
           NEW w \in Workers, RequestWechatRefund(w)
    PROVE  ContractState \/ \E o \in Orders : Contract!Refund(o)
  <1>0. PICK o \in Orders, n \in RefundNos :
          /\ o = req[w].o /\ n = req[w].no
          /\ Booked(o) /\ n = refund[o].no /\ n # None
    <2>1. /\ req[w].o \in Orders /\ Booked(req[w].o)
          /\ req[w].no = refund[req[w].o].no /\ req[w].no # None
      BY DEF RequestWechatRefund, IInv, Typed, Knows, SawBooking, RefundSteps,
             ChoseRefundNo
    <2>2. req[w].no \in RefundNos
      BY <2>1 DEF IInv, TypeOK, RefundRow
    <2> QED BY <2>1, <2>2
  <1>1. Booked(o) /\ n = refund[o].no /\ n # None
    BY <1>0
  <1>3. UNCHANGED <<order, payment, refund>>
    BY DEF RequestWechatRefund, orderTables, paymentTables
  <1>4. CASE UNCHANGED wxRefund
    BY <1>3, <1>4 DEF ContractState, Refunded
  <1>5. ASSUME NEW s \in IF wxRefund[n] = "NONE" THEN {"PROCESSING", "SUCCESS"}
                                                ELSE {wxRefund[n]},
               wxRefund' = [wxRefund EXCEPT ![n] = s]
        PROVE  ContractState \/ Contract!Refund(o)
    <2>1. /\ s # "NONE" /\ wxRefund'[n] = s
          /\ \A m \in RefundNos : m # n => wxRefund'[m] = wxRefund[m]
      BY <1>5 DEF IInv, TypeOK
    <2>2. \A p \in Orders : refund[p].no # None => refund[p].no \in RefundNos
      BY DEF IInv, TypeOK, RefundRow
    <2>3. \A p \in Orders : p # o /\ refund[p].no # None => refund[p].no # n
      BY <1>1 DEF OneHolder
    <2>4. Refunded(o)'
      BY <1>1, <1>3, <2>1 DEF Refunded
    <2>5. \A p \in Orders : p # o => Refunded(p)' = Refunded(p)
      BY <1>3, <2>1, <2>2, <2>3 DEF Refunded
    <2>6. CASE wxRefund[n] = "NONE"
      <3>1. o \notin {p \in Orders : Refunded(p)}
        BY <1>1, <2>6 DEF Refunded
      <3>2. {p \in Orders : Refunded(p)}'
              = {p \in Orders : Refunded(p)} \cup {o}
        BY <1>1, <2>4, <2>5
      <3>3. o \in {p \in Orders : payment[p].txn # "none"}
        BY <1>1 DEF Booked
      <3> QED BY <1>3, <3>1, <3>2, <3>3 DEF Contract!Refund
    <2>7. CASE wxRefund[n] # "NONE"
      <3>1. Refunded(o)
        BY <1>1, <2>7 DEF Refunded
      <3> QED BY <1>3, <2>4, <2>5, <3>1 DEF ContractState
    <2> QED BY <2>6, <2>7
  <1> QED BY <1>0, <1>4, <1>5 DEF RequestWechatRefund

LEMMA CapturesIsCapture ==
    ASSUME StoreAssumption, TypeOK, NEW o \in Orders, Captures(o)
    PROVE  Contract!Capture(o)
  <1>1. {p \in Orders : payment[p].txn # "none"}'
          = {p \in Orders : payment[p].txn # "none"} \cup {o}
    BY DEF Captures
  <1>2. [p \in Orders |-> order[p].rider]' = [p \in Orders |-> order[p].rider]
    BY DEF Captures
  <1>3. {p \in Orders : Refunded(p)}' = {p \in Orders : Refunded(p)}
    BY RefundedStays DEF Captures
  <1> QED BY <1>1, <1>2, <1>3 DEF Contract!Capture

LEMMA TakesIsDispatch ==
    ASSUME StoreAssumption, TypeOK,
           NEW o \in Orders, NEW r \in Riders, Takes(o, r)
    PROVE  Contract!Dispatch(o, r)
  <1>1. {p \in Orders : payment[p].txn # "none"}'
          = {p \in Orders : payment[p].txn # "none"}
    BY DEF Takes
  <1>2. [p \in Orders |-> order[p].rider]'
          = [[p \in Orders |-> order[p].rider] EXCEPT ![o] = r]
    BY DEF Takes
  <1>3. {p \in Orders : Refunded(p)}' = {p \in Orders : Refunded(p)}
    BY RefundedStays DEF Takes
  <1>4. o \in {p \in Orders : payment[p].txn # "none"}
    BY DEF Takes, Booked
  <1>5. [p \in Orders |-> order[p].rider][o] = None
    BY DEF Takes
  <1> QED BY <1>1, <1>2, <1>3, <1>4, <1>5 DEF Contract!Dispatch

LEMMA ContractInit ==
    ASSUME StoreAssumption, Init
    PROVE  Contract!Init
  <1>1. /\ \A o \in Orders : order[o].rider = None
        /\ \A o \in Orders : payment[o].txn = "none" /\ refund[o].no = None
    BY DEF Init, NewOrder
  <1> QED BY <1>1 DEF Contract!Init, Refunded

LEMMA ContractStep ==
    ASSUME StoreAssumption, IInv, OneHolder, [Next]_vars
    PROVE  [Contract!Next]_(Contract!cvars)
  <1>1. TypeOK
    BY DEF IInv
  <1>2. CASE ContractState
    BY <1>2 DEF ContractState, Contract!cvars
  <1>3. ASSUME NEW o \in Orders, Captures(o)
        PROVE  Contract!Next
    BY <1>1, <1>3, CapturesIsCapture DEF Contract!Next
  <1>4. ASSUME NEW o \in Orders, NEW r \in Riders, Takes(o, r)
        PROVE  Contract!Next
    BY <1>1, <1>4, TakesIsDispatch DEF Contract!Next
  <1>5. ASSUME NEW w \in Workers, RequestWechatRefund(w)
        PROVE  ContractState \/ Contract!Next
    BY <1>5, CallRefunds DEF Contract!Next
  <1> QED BY <1>1, <1>2, <1>3, <1>4, <1>5, StepKinds, QuietStutters,
             LookupStutters, UpsertStutters

(* The platform implements the contract: an order is paid before anyone     *)
(* takes it, one rider takes it and keeps it, and its money goes back once  *)
(* at most (riders.service.ts:1217-1270, payments.service.ts:423-470).      *)
THEOREM KeepsContract == Spec => ContractSpec
  <1>1. Init => Contract!Init
    BY StoreAssumption, ContractInit
  <1>2. IInv /\ OneHolder /\ [Next]_vars => [Contract!Next]_(Contract!cvars)
    BY StoreAssumption, ContractStep
  <1> QED BY <1>1, <1>2, Invariance, RefundNoHasOneHolder, PTL
          DEF Spec, ContractSpec, Contract!Spec

=============================================================================
