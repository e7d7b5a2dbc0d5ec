---------------------------- MODULE SerialProofs ----------------------------
(***************************************************************************)
(* What the handlers guarantee when they run one at a time, for every set  *)
(* of orders and riders, with crashes, every answer of WeChat and payments *)
(* and settlements in between: the properties that fail when two handlers  *)
(* interleave.                                                             *)
(***************************************************************************)
EXTENDS SerialInvariant, PlatformProofs, FiniteSetTheorems

----------------------------------------------------------------------------
(* What a step may do to an order, apart from giving it to a rider.         *)
Rests(o) ==
    /\ order'[o].status = order[o].status /\ order'[o].rider = order[o].rider
    /\ order'[o].quote = order[o].quote /\ order'[o].fee = order[o].fee
    /\ order'[o].hidden = order[o].hidden

Proceeds(o) ==
    /\ order[o].status \notin Terminal
    /\ order'[o].status \in {"CANCELLED", NextPersistedStatus(order[o].status)}
    /\ ~(order[o].status = "ACCEPTED" /\ order'[o].status = "PICKING_UP")
    /\ order'[o].rider = order[o].rider /\ order'[o].quote = order[o].quote
    /\ order'[o].fee = order[o].fee /\ order'[o].hidden = order[o].hidden

Hides(o) ==
    /\ order[o].status \in Terminal /\ order'[o].status = order[o].status
    /\ order'[o].rider = order[o].rider /\ order'[o].quote = order[o].quote
    /\ order'[o].fee = order[o].fee

(* The merchant or the customer speaks of a price not agreed on.            *)
Prices(o) ==
    /\ o \in ManualOrders /\ order[o].quote # "ACCEPTED"
    /\ order'[o].status = order[o].status /\ order'[o].rider = order[o].rider
    /\ order'[o].hidden = order[o].hidden

Untaking == \A o \in Orders : Rests(o) \/ Proceeds(o) \/ Hides(o) \/ Prices(o)

Takes(o, r) ==
    /\ order[o].status = "ACCEPTED" /\ order'[o].status = "PICKING_UP"
    /\ order[o].rider = None /\ order'[o].rider = r
    /\ order'[o].quote = order[o].quote /\ order'[o].fee = order[o].fee
    /\ order'[o].hidden = order[o].hidden
    /\ \A p \in Orders \ {o} : order'[p] = order[p]
    /\ ActiveRole(r) /\ Cardinality(ActiveOrders(r)) < RiderMax

(* What it may do to riders: shifts only for the active, and nobody leaves  *)
(* with an order in hand.                                                   *)
Rosters ==
    /\ UNCHANGED order
    /\ \A r \in Riders :
         \/ rider'[r] = rider[r]
         \/ /\ rider'[r].online => rider'[r].role = "ACTIVE"
            /\ rider'[r].role # "ACTIVE" =>
                 ActiveOrders(r) = {} \/ rider[r].role # "ACTIVE"

OrderKinds ==
    \/ UNCHANGED rider /\ Untaking
    \/ UNCHANGED rider /\ \E o \in Orders, r \in Riders : Takes(o, r)
    \/ Rosters

SerialRows == HiddenIsOver /\ Untaken /\ OnlineIsActive /\ InactiveIsFree /\ Carried

----------------------------------------------------------------------------
(* The rows keep their invariants under each kind of step.                  *)
LEMMA UntakingFrees ==
    ASSUME TypeOK, Untaking, NEW r \in Riders
    PROVE  ActiveOrders(r)' \subseteq ActiveOrders(r)
  <1> SUFFICES ASSUME NEW o \in Orders, order'[o].rider = r,
                      order'[o].status \in ACTIVE_STATUSES
               PROVE  order[o].rider = r /\ order[o].status \in ACTIVE_STATUSES
    BY DEF ActiveOrders
  <1>1. order[o].status \in OrderStatus
    BY DEF TypeOK, OrderRow
  <1> QED BY <1>1 DEF Untaking, Rests, Proceeds, Hides, Prices, ACTIVE_STATUSES,
             NextPersistedStatus, Terminal, OrderStatus, Progress

LEMMA UntakingKeepsRows ==
    ASSUME TypeOK, StoreAssumption, SerialRows, UNCHANGED rider, Untaking
    PROVE  SerialRows'
  <1>1. \A r \in Riders : ActiveOrders(r)' \subseteq ActiveOrders(r)
    BY UntakingFrees
  <1>2. HiddenIsOver'
    <2> SUFFICES ASSUME NEW o \in Orders, order'[o].hidden
                 PROVE  order'[o].status \in Terminal
      BY DEF HiddenIsOver
    <2> QED BY DEF SerialRows, HiddenIsOver, Untaking, Rests, Proceeds, Hides, Prices
  <1>3. Untaken'
    <2> SUFFICES ASSUME NEW o \in Orders,
                        order'[o].status \in {"PENDING", "ACCEPTED"}
                 PROVE  order'[o].rider = None
      BY DEF Untaken
    <2>1. order[o].status \in OrderStatus
      BY DEF TypeOK, OrderRow
    <2> QED BY <2>1 DEF SerialRows, Untaken, Untaking, Rests, Proceeds, Hides,
                Prices, NextPersistedStatus, Terminal, OrderStatus, Progress
  <1>4. OnlineIsActive' /\ InactiveIsFree'
    BY <1>1 DEF SerialRows, OnlineIsActive, InactiveIsFree
  <1>5. Carried'
    <2> SUFFICES ASSUME NEW r \in Riders
                 PROVE  /\ IsFiniteSet(ActiveOrders(r)')
                        /\ Cardinality(ActiveOrders(r)') <= RiderMax
      BY DEF Carried, WithinCapacity
    <2>1. /\ IsFiniteSet(ActiveOrders(r))
          /\ Cardinality(ActiveOrders(r)) <= RiderMax
      BY DEF SerialRows, Carried, WithinCapacity
    <2>2. /\ IsFiniteSet(ActiveOrders(r)')
          /\ Cardinality(ActiveOrders(r)') <= Cardinality(ActiveOrders(r))
      BY <1>1, <2>1, FS_Subset
    <2>3. /\ Cardinality(ActiveOrders(r)) \in Nat
          /\ Cardinality(ActiveOrders(r)') \in Nat
      BY <2>1, <2>2, FS_CardinalityType
    <2> QED BY <2>1, <2>2, <2>3, StoreAssumption DEF StoreAssumption
  <1> QED BY <1>2, <1>3, <1>4, <1>5 DEF SerialRows

LEMMA TakingKeepsRows ==
    ASSUME TypeOK, StoreAssumption, SerialRows, UNCHANGED rider,
           NEW o \in Orders, NEW r \in Riders, Takes(o, r)
    PROVE  SerialRows'
  <1> USE DEF Takes
  <1>1. \A q \in Riders \ {r} : ActiveOrders(q)' = ActiveOrders(q)
    <2> SUFFICES ASSUME NEW q \in Riders \ {r}, NEW p \in Orders
                 PROVE  p \in ActiveOrders(q)' <=> p \in ActiveOrders(q)
      BY DEF ActiveOrders
    <2>1. q # None
      BY StoreAssumption DEF StoreAssumption
    <2>2. CASE p = o
      BY <2>1, <2>2 DEF ActiveOrders, ACTIVE_STATUSES
    <2>3. CASE p # o
      BY <2>3 DEF ActiveOrders
    <2> QED BY <2>2, <2>3
  <1>2. ActiveOrders(r)' = ActiveOrders(r) \cup {o}
    <2> SUFFICES ASSUME NEW p \in Orders
                 PROVE  p \in ActiveOrders(r)' <=> p \in ActiveOrders(r) \cup {o}
      BY DEF ActiveOrders
    <2>1. CASE p = o
      BY <2>1 DEF ActiveOrders, ACTIVE_STATUSES
    <2>2. CASE p # o
      BY <2>2 DEF ActiveOrders
    <2> QED BY <2>1, <2>2
  <1>3. HiddenIsOver' /\ Untaken'
    BY DEF SerialRows, HiddenIsOver, Untaken, Terminal
  <1>4. OnlineIsActive' /\ InactiveIsFree'
    BY <1>1 DEF SerialRows, OnlineIsActive, InactiveIsFree, ActiveRole
  <1>5. Carried'
    <2>1. /\ IsFiniteSet(ActiveOrders(r)) /\ o \notin ActiveOrders(r)
          /\ Cardinality(ActiveOrders(r)) < RiderMax
      BY DEF SerialRows, Carried, ActiveOrders, ACTIVE_STATUSES
    <2>2. /\ IsFiniteSet(ActiveOrders(r)')
          /\ Cardinality(ActiveOrders(r)') = Cardinality(ActiveOrders(r)) + 1
      BY <1>2, <2>1, FS_AddElement
    <2>3. Cardinality(ActiveOrders(r)) \in Nat /\ RiderMax \in Nat
      BY <2>1, FS_CardinalityType, StoreAssumption DEF StoreAssumption
    <2>4. Cardinality(ActiveOrders(r)') <= RiderMax
      BY <2>1, <2>2, <2>3
    <2> QED BY <1>1, <2>2, <2>4 DEF SerialRows, Carried, WithinCapacity
  <1> QED BY <1>3, <1>4, <1>5 DEF SerialRows

LEMMA RostersKeepRows ==
    ASSUME SerialRows, Rosters
    PROVE  SerialRows'
  <1>1. \A r \in Riders : ActiveOrders(r)' = ActiveOrders(r)
    BY DEF Rosters, ActiveOrders
  <1>2. HiddenIsOver' /\ Untaken'
    BY DEF SerialRows, Rosters, HiddenIsOver, Untaken
  <1>3. OnlineIsActive' /\ InactiveIsFree'
    BY <1>1 DEF SerialRows, Rosters, OnlineIsActive, InactiveIsFree
  <1>4. Carried'
    BY <1>1 DEF SerialRows, Carried, WithinCapacity
  <1> QED BY <1>2, <1>3, <1>4 DEF SerialRows

LEMMA KindsKeepRows ==
    ASSUME TypeOK, StoreAssumption, SerialRows, OrderKinds
    PROVE  SerialRows'
  BY UntakingKeepsRows, TakingKeepsRows, RostersKeepRows DEF OrderKinds
----------------------------------------------------------------------------
(* Requests.  With one worker the request that moves is the only one.       *)
Reads(w) == ReadOrder(req[w])' /\ ReadRider(req[w])'

LEMMA SameReads ==
    ASSUME UNCHANGED <<order, rider>>, NEW w \in Workers,
           ReadOrder(req'[w]), ReadRider(req'[w])
    PROVE  Reads(w) /\ OrderKinds
  <1>1. ReadOrder(req[w])'
    BY DEF ReadOrder, InFlow, Hideable, Quotable, AwaitsAnswer, Matches, Fits,
           ActiveOrders
  <1>2. ReadRider(req[w])'
    BY DEF ReadRider, ActiveRole, MayGoOnline, MayLeave, ActiveOrders
  <1>3. OrderKinds
    BY DEF OrderKinds, Rosters
  <1> QED BY <1>1, <1>2, <1>3 DEF Reads

LEMMA BeginReads ==
    ASSUME TypeOK, NEW w \in Workers, NEW r, Begin(w, r), TablesUnchanged,
           ReadOrder(r), ReadRider(r)
    PROVE  Reads(w) /\ OrderKinds
  <1>1. req'[w] = r /\ UNCHANGED <<order, rider>>
    BY DEF TypeOK, Begin, TablesUnchanged, orderTables, riderTables
  <1> QED BY <1>1, SameReads

LEMMA FinishReads ==
    ASSUME TypeOK, NEW w \in Workers, Finish(w)
    PROVE  Reads(w)
  <1>1. req'[w] = Idle
    BY DEF TypeOK, Finish
  <1> QED BY <1>1 DEF Reads, ReadOrder, ReadRider, Idle

(* A payment handler reads of its order only that it may be cancelled.      *)
LEMMA PaymentGoesOn ==
    ASSUME TypeOK, UNCHANGED <<order, rider>>, NEW w \in Workers,
           ReadOrder(req[w]), req[w].op \in {"cancel", "refund", "createPrepay"},
           \/ req'[w] = Idle
           \/ req'[w].op = req[w].op /\ req'[w].o = req[w].o
    PROVE  Reads(w) /\ OrderKinds
  <1>1. ReadOrder(req'[w]) /\ ReadRider(req'[w])
    BY DEF ReadOrder, ReadRider, Idle
  <1> QED BY <1>1, SameReads

----------------------------------------------------------------------------
LEMMA OrdersBeginReads ==
    ASSUME TypeOK, NEW w \in Workers, NEW o \in Orders, OrdersBegin(w, o)
    PROVE  Reads(w) /\ OrderKinds
  <1> USE DEF TablesUnchanged, Idle, ReadOrder, ReadRider
  <1>1. ASSUME NEW status \in OrderStatus, UpdateStatusRead(w, o, status)
        PROVE  Reads(w) /\ OrderKinds
    BY <1>1, BeginReads DEF UpdateStatusRead
  <1>2. CASE CancelRead(w, o)
    BY <1>2, BeginReads DEF CancelRead
  <1>3. CASE HideRead(w, o)
    BY <1>3, BeginReads DEF HideRead
  <1>4. ASSUME NEW fee \in Fees, QuoteRead(w, o, fee)
        PROVE  Reads(w) /\ OrderKinds
    BY <1>4, BeginReads DEF QuoteRead
  <1>5. ASSUME NEW decision \in {"ACCEPTED", "REJECTED"},
               RespondToQuoteRead(w, o, decision)
        PROVE  Reads(w) /\ OrderKinds
    BY <1>5, BeginReads DEF RespondToQuoteRead
  <1> QED BY <1>1, <1>2, <1>3, <1>4, <1>5 DEF OrdersBegin

LEMMA PaymentsBeginReads ==
    ASSUME TypeOK, NEW w \in Workers, NEW o \in Orders,
           PaymentsBegin(w, o) \/ WechatNotifies(w, o)
    PROVE  Reads(w) /\ OrderKinds
  <1> USE DEF TablesUnchanged, Idle, ReadOrder, ReadRider
  <1>1. ASSUME NEW t \in TradeNos, CreatePrepayRead(w, o, t)
        PROVE  Reads(w) /\ OrderKinds
    BY <1>1, BeginReads DEF CreatePrepayRead
  <1>2. CASE ConfirmMockPaymentRead(w, o)
    BY <1>2, BeginReads DEF ConfirmMockPaymentRead
  <1>3. CASE RefundBegin(w, o)
    BY <1>3, BeginReads DEF RefundBegin
  <1>4. ASSUME NEW t \in TradeNos, HandleWechatNotificationRead(w, o, t)
        PROVE  Reads(w) /\ OrderKinds
    BY <1>4, BeginReads DEF HandleWechatNotificationRead
  <1>5. ASSUME NEW n \in RefundNos, HandleWechatRefundNotificationRead(w, o, n)
        PROVE  Reads(w) /\ OrderKinds
    BY <1>5, BeginReads DEF HandleWechatRefundNotificationRead
  <1> QED BY <1>1, <1>2, <1>3, <1>4, <1>5 DEF PaymentsBegin, WechatNotifies

LEMMA RidersBeginReads ==
    ASSUME TypeOK, NEW w \in Workers, NEW r \in Riders, RidersBegin(w, r)
    PROVE  Reads(w) /\ OrderKinds
  <1> USE DEF TablesUnchanged, Idle, ReadOrder, ReadRider
  <1>1. ASSUME NEW o \in Orders, NEW k \in Keys, ClaimRead(w, r, o, k)
        PROVE  Reads(w) /\ OrderKinds
    BY <1>1, BeginReads DEF ClaimRead, Available
  <1>2. ASSUME NEW o \in Orders, AssignRead(w, r, o)
        PROVE  Reads(w) /\ OrderKinds
    BY <1>2, BeginReads DEF AssignRead, Available
  <1>3. ASSUME NEW o \in Orders,
               NEW status \in {"ARRIVED", "DELIVERING", "COMPLETED"},
               RiderUpdateBegin(w, r, o, status)
        PROVE  Reads(w) /\ OrderKinds
    BY <1>3, BeginReads DEF RiderUpdateBegin
  <1>4. ASSUME NEW online \in {"ONLINE", "OFFLINE"}, SetOnlineRead(w, r, online)
        PROVE  Reads(w) /\ OrderKinds
    BY <1>4, BeginReads DEF SetOnlineRead
  <1>5. ASSUME NEW role \in {"ACTIVE", "SUSPENDED", "RESIGNED"},
               ChangeStatusRead(w, r, role)
        PROVE  Reads(w) /\ OrderKinds
    BY <1>5, BeginReads DEF ChangeStatusRead
  <1> QED BY <1>1, <1>2, <1>3, <1>4, <1>5 DEF RidersBegin

----------------------------------------------------------------------------
LEMMA OrdersStepReads ==
    ASSUME TypeOK, NEW w \in Workers, Typed(req[w]), ReadOrder(req[w]),
           OrdersStep(w)
    PROVE  Reads(w) /\ OrderKinds
  <1>1. /\ Finish(w) /\ UNCHANGED rider
        /\ req[w].o \in Orders /\ order[req[w].o] \in OrderRow
    BY DEF OrdersStep, UpdateStatusWrite, CancelWrite, HideWrite, QuoteWrite,
           RespondToQuoteWrite, At, Typed, TypeOK, riderTables
  <1>2. Reads(w)
    BY <1>1, FinishReads
  <1>3. \A p \in Orders \ {req[w].o} : order'[p] = order[p]
    BY <1>1 DEF OrdersStep, UpdateStatusWrite, CancelWrite, HideWrite, QuoteWrite,
           RespondToQuoteWrite, TypeOK
  <1>4. CASE UpdateStatusWrite(w)
    <2>1. Proceeds(req[w].o)
      BY <1>1, <1>4 DEF UpdateStatusWrite, At, ReadOrder, InFlow, Proceeds,
         TypeOK, OrderRow
    <2> QED BY <1>1, <1>2, <1>3, <2>1 DEF OrderKinds, Untaking, Rests
  <1>5. CASE CancelWrite(w)
    <2>1. Proceeds(req[w].o)
      BY <1>1, <1>5 DEF CancelWrite, At, ReadOrder, Proceeds, TypeOK, OrderRow
    <2> QED BY <1>1, <1>2, <1>3, <2>1 DEF OrderKinds, Untaking, Rests
  <1>6. CASE HideWrite(w)
    <2>1. Hides(req[w].o)
      BY <1>1, <1>6 DEF HideWrite, At, ReadOrder, Hideable, Hides, TypeOK, OrderRow
    <2> QED BY <1>1, <1>2, <1>3, <2>1 DEF OrderKinds, Untaking, Rests
  <1>7. CASE QuoteWrite(w)
    <2>1. Prices(req[w].o)
      BY <1>1, <1>7 DEF QuoteWrite, At, ReadOrder, Quotable, Prices, TypeOK, OrderRow
    <2> QED BY <1>1, <1>2, <1>3, <2>1 DEF OrderKinds, Untaking, Rests
  <1>8. CASE RespondToQuoteWrite(w)
    <2>1. Prices(req[w].o)
      BY <1>1, <1>8 DEF RespondToQuoteWrite, At, ReadOrder, AwaitsAnswer, Prices,
         TypeOK, OrderRow
    <2> QED BY <1>1, <1>2, <1>3, <2>1 DEF OrderKinds, Untaking, Rests
  <1> QED BY <1>4, <1>5, <1>6, <1>7, <1>8 DEF OrdersStep
(* A payment or a refund is written: the order's payment status may change. *)
LEMMA OnlyPay ==
    ASSUME UNCHANGED rider, NEW o \in Orders,
           \A p \in Orders \ {o} : order'[p] = order[p], Rests(o)
    PROVE  OrderKinds
  BY DEF OrderKinds, Untaking, Rests

LEMMA BookingReads ==
    ASSUME TypeOK, NEW w \in Workers, Typed(req[w]),
           ConfirmMockPaymentWrite(w) \/ HandleWechatNotificationWrite(w)
    PROVE  Reads(w) /\ OrderKinds
  <1>1. /\ Finish(w) /\ UNCHANGED rider /\ req[w].o \in Orders
        /\ order' = [order EXCEPT ![req[w].o] =
                       [order[req[w].o] EXCEPT !.pay = "PAID"]]
    BY DEF ConfirmMockPaymentWrite, HandleWechatNotificationWrite, RecordPayment,
           At, Typed, riderTables
  <1>2. Rests(req[w].o) /\ \A p \in Orders \ {req[w].o} : order'[p] = order[p]
    BY <1>1 DEF TypeOK, OrderRow, Rests
  <1> QED BY <1>1, <1>2, FinishReads, OnlyPay

LEMMA PersistRests ==
    ASSUME TypeOK, NEW o \in Orders, NEW s, persistRefundResult(o, s)
    PROVE  /\ Rests(o)
           /\ \A p \in Orders \ {o} : order'[p] = order[p]
           /\ order[o].status # "CANCELLED" => order'[o].pay = order[o].pay
  BY DEF persistRefundResult, TypeOK, OrderRow, Rests

LEMMA RefundNotificationReads ==
    ASSUME TypeOK, NEW w \in Workers, Typed(req[w]),
           HandleWechatRefundNotificationWrite(w)
    PROVE  Reads(w) /\ OrderKinds
  <1>1. /\ Finish(w) /\ UNCHANGED rider /\ req[w].o \in Orders
        /\ persistRefundResult(req[w].o, req[w].to)
    BY DEF HandleWechatRefundNotificationWrite, At, Typed, riderTables
  <1> QED BY <1>1, FinishReads, PersistRests, OnlyPay

(* The request after a return from a refund.                                *)
LEMMA Returned ==
    ASSUME TypeOK, NEW w \in Workers, NEW result, ReturnRefund(w, result)
    PROVE  \/ req'[w] = Idle
           \/ /\ req[w].op = "cancel" /\ req'[w].op = "cancel"
              /\ req'[w].o = req[w].o /\ req'[w].pc = "write"
              /\ req'[w].to = result
  BY DEF ReturnRefund, TypeOK, Request

LEMMA Went ==
    ASSUME TypeOK, NEW w \in Workers, NEW pc, Goto(w, pc)
    PROVE  req'[w] = [req[w] EXCEPT !.pc = pc]
  BY DEF Goto, TypeOK

LEMMA RefundPersistReads ==
    ASSUME TypeOK, NEW w \in Workers, Typed(req[w]), ReadOrder(req[w]),
           RefundPersist(w)
    PROVE  Reads(w) /\ OrderKinds
  <1>1. /\ UNCHANGED rider /\ req[w].o \in Orders /\ req[w].pc # "idle"
        /\ req[w].op \in {"cancel", "refund"}
        /\ persistRefundResult(req[w].o, req[w].to)
        /\ \/ ReturnRefund(w, "REFUNDED") \/ ReturnRefund(w, "REFUNDING")
           \/ Finish(w)
    BY DEF RefundPersist, Typed, RefundSteps, riderTables
  <1>2. OrderKinds /\ order'[req[w].o].status = order[req[w].o].status
    BY <1>1, PersistRests, OnlyPay DEF Rests
  <1>3. CASE Finish(w)
    BY <1>2, <1>3, FinishReads
  <1>4. CASE req'[w] = Idle
    BY <1>2, <1>4 DEF Reads, ReadOrder, ReadRider, Idle
  <1>5. CASE /\ req[w].op = "cancel" /\ req'[w].op = "cancel"
             /\ req'[w].o = req[w].o
    BY <1>2, <1>5 DEF Reads, ReadOrder, ReadRider
  <1> QED BY <1>1, <1>3, <1>4, <1>5, Returned

LEMMA PaymentsStepReads ==
    ASSUME TypeOK, NEW w \in Workers, Typed(req[w]), ReadOrder(req[w]),
           PaymentsStep(w)
    PROVE  Reads(w) /\ OrderKinds
  <1> USE DEF orderTables, riderTables
  <1>1. CASE ConfirmMockPaymentWrite(w) \/ HandleWechatNotificationWrite(w)
    BY <1>1, BookingReads
  <1>2. CASE HandleWechatRefundNotificationWrite(w)
    BY <1>2, RefundNotificationReads
  <1>3. CASE RefundPersist(w)
    BY <1>3, RefundPersistReads
  <1>4. CASE RequestWechatPrepay(w)
    <2>1. /\ req'[w].op = req[w].op /\ req'[w].o = req[w].o
          /\ req[w].op = "createPrepay" /\ UNCHANGED <<order, rider>>
      BY <1>4 DEF RequestWechatPrepay, At, TypeOK, Request
    <2> QED BY <2>1, PaymentGoesOn
  <1>5. CASE CreatePrepaySave(w)
    <2>1. /\ req'[w] = Idle /\ req[w].op = "createPrepay"
          /\ UNCHANGED <<order, rider>>
      BY <1>5 DEF CreatePrepaySave, At, Finish, TypeOK
    <2> QED BY <2>1, PaymentGoesOn
  <1>6. CASE \/ ClosePendingPaymentRead(w) \/ CloseWechatTrade(w)
             \/ ClosePendingPaymentWrite(w)
    <2>1. /\ UNCHANGED <<order, rider>> /\ req[w].op = "cancel"
          /\ Finish(w) \/ \E pc : Goto(w, pc)
      BY <1>6 DEF ClosePendingPaymentRead, CloseWechatTrade,
                  ClosePendingPaymentWrite, At
    <2>2. \/ req'[w] = Idle
          \/ req'[w].op = req[w].op /\ req'[w].o = req[w].o
      BY <2>1, Went DEF Finish, TypeOK, Request
    <2> QED BY <2>1, <2>2, PaymentGoesOn
  <1>7. CASE \/ RefundRead(w) \/ RefundMockPayment(w) \/ RefundLookup(w)
             \/ RefundUpsert(w) \/ RequestWechatRefund(w) \/ RefundFailed(w)
    <2>1. UNCHANGED <<order, rider>>
      BY <1>7 DEF RefundRead, RefundMockPayment, RefundLookup, RefundUpsert,
                  RequestWechatRefund, RefundFailed
    <2>2. req[w].op \in {"cancel", "refund"}
      BY <1>7 DEF RefundRead, RefundMockPayment, RefundLookup, RefundUpsert,
                  RequestWechatRefund, RefundFailed, Typed, RefundSteps
    <2>3. /\ req[w] \in Request
          /\ \A r : req' = [req EXCEPT ![w] = r] => req'[w] = r
      BY DEF TypeOK
    <2>4. ASSUME \/ \E result : ReturnRefund(w, result)
                 \/ Finish(w)
                 \/ \E pc : Goto(w, pc)
          PROVE  \/ req'[w] = Idle
                 \/ req'[w].op = req[w].op /\ req'[w].o = req[w].o
      <3>1. CASE \E result : ReturnRefund(w, result)
        BY <3>1, Returned
      <3>2. CASE Finish(w)
        BY <3>2 DEF Finish, TypeOK
      <3>3. CASE \E pc : Goto(w, pc)
        <4>1. PICK pc : req'[w] = [req[w] EXCEPT !.pc = pc]
          BY <3>3, Went
        <4> QED BY <2>3, <4>1 DEF Request
      <3> QED BY <2>4, <3>1, <3>2, <3>3
    <2>5. \/ req'[w] = Idle
          \/ req'[w].op = req[w].op /\ req'[w].o = req[w].o
      <3>1. CASE RefundRead(w) \/ RefundMockPayment(w) \/ RefundFailed(w)
        BY <2>4, <3>1 DEF RefundRead, RefundMockPayment, RefundFailed
      <3>2. CASE RefundLookup(w)
        <4>1. CASE ReturnRefund(w, "REFUNDED") \/ ReturnRefund(w, "REFUNDING")
          BY <2>4, <4>1
        <4>2. CASE \E n \in RefundNos : req' = [req EXCEPT ![w] =
                     [req[w] EXCEPT !.pc = "refundUpsert", !.no = n]]
          BY <2>3, <4>2 DEF Request
        <4> QED BY <3>2, <4>1, <4>2 DEF RefundLookup
      <3>3. CASE RefundUpsert(w)
        <4>1. PICK n : req' = [req EXCEPT ![w] =
                         [req[w] EXCEPT !.pc = "refundCall", !.no = n]]
          BY <3>3 DEF RefundUpsert
        <4> QED BY <2>3, <4>1 DEF Request
      <3>4. CASE RequestWechatRefund(w)
        <4>1. CASE Goto(w, "refundFailed")
          BY <2>4, <4>1
        <4>2. CASE \E to : req' = [req EXCEPT ![w] =
                     [req[w] EXCEPT !.pc = "refundPersist", !.to = to]]
          BY <2>3, <4>2 DEF Request
        <4> QED BY <3>4, <4>1, <4>2 DEF RequestWechatRefund
      <3> QED BY <1>7, <3>1, <3>2, <3>3, <3>4
    <2> QED BY <2>1, <2>2, <2>5, PaymentGoesOn
  <1> QED BY <1>1, <1>2, <1>3, <1>4, <1>5, <1>6, <1>7 DEF PaymentsStep

----------------------------------------------------------------------------
LEMMA TakingIsATake ==
    ASSUME TypeOK, UNCHANGED rider, NEW o \in Orders, NEW r \in Riders,
           Matches(r, o), ActiveRole(r), TakeOrder(o, r)
    PROVE  OrderKinds
  <1>1. Takes(o, r)
    BY DEF TakeOrder, Matches, Fits, Takes, TypeOK, OrderRow
  <1> QED BY <1>1 DEF OrderKinds

LEMMA RidersStepReads ==
    ASSUME TypeOK, NEW w \in Workers, Typed(req[w]), ReadOrder(req[w]),
           ReadRider(req[w]), RidersStep(w)
    PROVE  Reads(w) /\ OrderKinds
  <1> USE DEF orderTables, riderTables
  <1>1. CASE ClaimTx(w)
    <2>1. /\ Finish(w) /\ UNCHANGED rider /\ req[w].o \in Orders
          /\ req[w].rider \in Riders /\ ActiveRole(req[w].rider)
      BY <1>1 DEF ClaimTx, At, Typed, ReadRider
    <2>2. \/ UNCHANGED order
          \/ Matches(req[w].rider, req[w].o) /\ TakeOrder(req[w].o, req[w].rider)
      BY <1>1 DEF ClaimTx
    <2>3. CASE UNCHANGED order
      BY <2>1, <2>3, FinishReads DEF OrderKinds, Rosters
    <2> QED BY <2>1, <2>2, <2>3, FinishReads, TakingIsATake
  <1>2. CASE AssignWrite(w)
    <2>1. /\ Finish(w) /\ UNCHANGED rider /\ req[w].o \in Orders
          /\ req[w].rider \in Riders /\ ActiveRole(req[w].rider)
          /\ Matches(req[w].rider, req[w].o)
      BY <1>2 DEF AssignWrite, At, Typed, ReadRider, ReadOrder
    <2>2. UNCHANGED order \/ TakeOrder(req[w].o, req[w].rider)
      BY <1>2 DEF AssignWrite
    <2>3. CASE UNCHANGED order
      BY <2>1, <2>3, FinishReads DEF OrderKinds, Rosters
    <2> QED BY <2>1, <2>2, <2>3, FinishReads, TakingIsATake
  <1>3. CASE AssignMatch(w)
    <2>1. UNCHANGED <<order, rider>>
      BY <1>3 DEF AssignMatch
    <2>2. CASE Matches(req[w].rider, req[w].o)
      <3>1. req'[w] = [req[w] EXCEPT !.pc = "write"] /\ req[w].op = "assign"
        BY <1>3, <2>2, Went DEF AssignMatch, At
      <3>2. /\ req'[w].op = "assign" /\ req'[w].o = req[w].o
            /\ req'[w].rider = req[w].rider
        BY <3>1 DEF TypeOK, Request
      <3>3. ReadOrder(req'[w]) /\ ReadRider(req'[w])
        BY <2>2, <3>1, <3>2 DEF ReadOrder, ReadRider
      <3> QED BY <2>1, <3>3, SameReads
    <2>3. CASE ~Matches(req[w].rider, req[w].o)
      BY <1>3, <2>1, <2>3, FinishReads DEF AssignMatch, OrderKinds, Rosters
    <2> QED BY <2>2, <2>3
  <1>4. CASE RiderUpdateRead(w)
    <2>1. UNCHANGED <<order, rider>>
      BY <1>4 DEF RiderUpdateRead
    <2>2. CASE Goto(w, "write") /\ order[req[w].o].rider = req[w].rider
                 /\ RiderExpects(order[req[w].o], req[w].to)
      <3>1. /\ req'[w] = [req[w] EXCEPT !.pc = "write"]
            /\ req[w].op = "riderUpdateStatus"
        BY <1>4, <2>2, Went DEF RiderUpdateRead, At
      <3>2. /\ req'[w].op = "riderUpdateStatus" /\ req'[w].o = req[w].o
            /\ req'[w].rider = req[w].rider /\ req'[w].to = req[w].to
        BY <3>1 DEF TypeOK, Request
      <3>3. ReadOrder(req'[w]) /\ ReadRider(req'[w])
        BY <2>2, <3>1, <3>2 DEF ReadOrder, ReadRider
      <3> QED BY <2>1, <3>3, SameReads
    <2>3. CASE Finish(w)
      BY <2>1, <2>3, FinishReads DEF OrderKinds, Rosters
    <2> QED BY <1>4, <2>2, <2>3 DEF RiderUpdateRead
  <1>5. CASE RiderUpdateWrite(w)
    <2>1. /\ Finish(w) /\ UNCHANGED rider /\ req[w].o \in Orders
          /\ RiderExpects(order[req[w].o], req[w].to)
          /\ order[req[w].o] \in OrderRow
      BY <1>5 DEF RiderUpdateWrite, At, Typed, ReadOrder, TypeOK
    <2>2. \A p \in Orders \ {req[w].o} : order'[p] = order[p]
      BY <1>5, <2>1 DEF RiderUpdateWrite, TypeOK
    <2>3. Rests(req[w].o) \/ Proceeds(req[w].o)
      BY <1>5, <2>1 DEF RiderUpdateWrite, RiderExpects, Rests, Proceeds,
         NextPersistedStatus, Terminal, TypeOK, OrderRow
    <2> QED BY <2>1, <2>2, <2>3, FinishReads DEF OrderKinds, Untaking, Rests
  <1>6. CASE SetOnlineWrite(w)
    <2>1. /\ Finish(w) /\ UNCHANGED order /\ req[w].rider \in Riders
          /\ req[w].to = "ONLINE" => ActiveRole(req[w].rider)
      BY <1>6 DEF SetOnlineWrite, At, Typed, ReadRider, MayGoOnline
    <2>2. /\ rider[req[w].rider] \in RiderRow
          /\ \A r \in Riders \ {req[w].rider} : rider'[r] = rider[r]
          /\ rider'[req[w].rider].role = rider[req[w].rider].role
          /\ rider'[req[w].rider].online => req[w].to = "ONLINE"
      BY <1>6, <2>1 DEF SetOnlineWrite, TypeOK, RiderRow
    <2>3. Rosters
      BY <2>1, <2>2 DEF Rosters, ActiveRole
    <2> QED BY <2>1, <2>3, FinishReads DEF OrderKinds
  <1>7. CASE ChangeStatusWrite(w)
    <2>1. /\ Finish(w) /\ UNCHANGED order /\ req[w].rider \in Riders
          /\ req[w].to # "ACTIVE" => ActiveOrders(req[w].rider) = {}
      BY <1>7 DEF ChangeStatusWrite, At, Typed, ReadRider, MayLeave
    <2>2. /\ \A r \in Riders \ {req[w].rider} : rider'[r] = rider[r]
          /\ rider'[req[w].rider] = [role |-> req[w].to, online |-> FALSE]
      BY <1>7, <2>1 DEF ChangeStatusWrite, TypeOK
    <2>3. Rosters
      BY <2>1, <2>2 DEF Rosters
    <2> QED BY <2>1, <2>3, FinishReads DEF OrderKinds
  <1> QED BY <1>1, <1>2, <1>3, <1>4, <1>5, <1>6, <1>7 DEF RidersStep

----------------------------------------------------------------------------
LEMMA SerialOrdersInit ==
    ASSUME StoreAssumption, Init
    PROVE  SerialOrders
  <1>1. PICK fee \in Fees : order = [o \in Orders |-> NewOrder(o, fee)]
    BY DEF Init
  <1>2. \A o \in Orders : /\ order[o].status = "PENDING"
                          /\ order[o].rider = None /\ ~order[o].hidden
    BY <1>1 DEF NewOrder
  <1>3. \A r \in Riders : ActiveOrders(r) = {} /\ rider[r].role = "ACTIVE"
    BY <1>2 DEF Init, ActiveOrders, ACTIVE_STATUSES
  <1>4. OnlineIsActive /\ InactiveIsFree
    BY <1>3 DEF OnlineIsActive, InactiveIsFree
  <1>5. HiddenIsOver /\ Untaken
    BY <1>2 DEF HiddenIsOver, Untaken
  <1>6. \A w \in Workers : ReadOrder(req[w]) /\ ReadRider(req[w])
    BY DEF Init, Idle, ReadOrder, ReadRider
  <1>7. Carried
    <2>1. /\ IsFiniteSet({}) /\ Cardinality({}) = 0 /\ 0 <= RiderMax
      BY FS_EmptySet, StoreAssumption DEF StoreAssumption
    <2> QED BY <1>3, <2>1 DEF Carried, WithinCapacity
  <1> QED BY <1>4, <1>5, <1>6, <1>7 DEF SerialOrders

(* The request in flight moves, or the world around it does.                *)
LEMMA WorldReads ==
    ASSUME UNCHANGED <<order, rider, req>>, NEW w \in Workers,
           ReadOrder(req[w]), ReadRider(req[w])
    PROVE  Reads(w) /\ OrderKinds
  <1>1. req'[w] = req[w]
    OBVIOUS
  <1> QED BY <1>1, SameReads

LEMMA WorkerReads ==
    ASSUME TypeOK, NEW w \in Workers, Typed(req[w]), ReadOrder(req[w]),
           ReadRider(req[w]), Arrives(w) \/ Handles(w) \/ Crash(w)
    PROVE  Reads(w) /\ OrderKinds
  <1>1. CASE Arrives(w)
    BY <1>1, OrdersBeginReads, PaymentsBeginReads, RidersBeginReads DEF Arrives
  <1>2. CASE Handles(w)
    BY <1>2, OrdersStepReads, PaymentsStepReads, RidersStepReads DEF Handles
  <1>3. CASE Crash(w)
    <2>1. Finish(w) /\ UNCHANGED <<order, rider>>
      BY <1>3 DEF Crash, orderTables, riderTables
    <2> QED BY <2>1, FinishReads DEF OrderKinds, Rosters
  <1> QED BY <1>1, <1>2, <1>3

LEMMA SerialOrdersStep ==
    ASSUME OneWorker, StoreAssumption, IInv, SerialOrders, [Next]_vars
    PROVE  SerialOrders' /\ (UNCHANGED order \/ OrderKinds)
  <1>1. /\ TypeOK /\ SerialRows
        /\ \A w \in Workers : /\ Typed(req[w]) /\ ReadOrder(req[w])
                              /\ ReadRider(req[w])
    BY DEF IInv, SerialOrders, SerialRows
  <1>2. CASE \E w \in Workers : Arrives(w) \/ Handles(w) \/ Crash(w)
    <2>1. PICK w \in Workers : Arrives(w) \/ Handles(w) \/ Crash(w)
      BY <1>2
    <2>2. Reads(w) /\ OrderKinds
      BY <1>1, <2>1, WorkerReads
    <2>3. \A v \in Workers : Reads(v)
      BY <2>2 DEF OneWorker
    <2>4. SerialRows'
      BY <1>1, <2>2, KindsKeepRows
    <2> QED BY <2>2, <2>3, <2>4 DEF SerialOrders, SerialRows, Reads
  <1>3. CASE WechatMoves \/ UNCHANGED vars
    <2>1. UNCHANGED <<order, rider, req>>
      BY <1>3 DEF WechatMoves, CustomerPays, WechatSettlesRefund, vars,
                  orderTables, riderTables
    <2>2. \A v \in Workers : Reads(v)
      BY <1>1, <2>1, WorldReads
    <2>3. Rosters
      BY <2>1 DEF Rosters
    <2>4. SerialRows'
      BY <1>1, <2>3, RostersKeepRows
    <2> QED BY <2>1, <2>2, <2>4 DEF SerialOrders, SerialRows, Reads
  <1> QED BY <1>2, <1>3 DEF Next

(* With one handler at a time, what a request in flight has read of its     *)
(* order and its rider is still so when it writes, crashes or not.          *)
THEOREM SerialReadsHold ==
    ASSUME OneWorker
    PROVE  Spec => []SerialOrders
  <1>1. Init => SerialOrders
    BY StoreAssumption, SerialOrdersInit
  <1>2. IInv /\ SerialOrders /\ [Next]_vars => SerialOrders'
    BY OneWorker, StoreAssumption, SerialOrdersStep
  <1> QED BY <1>1, <1>2, Invariance, PTL DEF Spec

(* DELETE hides finished orders only: no order still to be delivered        *)
(* disappears from the customer's list.                                     *)
THEOREM HiddenOrdersAreOver ==
    ASSUME OneWorker
    PROVE  Spec => []HiddenIsOver
  <1>1. SerialOrders => HiddenIsOver
    BY DEF SerialOrders
  <1> QED BY <1>1, SerialReadsHold, PTL

(* An accepted order waits for a rider: claim and assign find it untaken.   *)
THEOREM AcceptedOrdersWait ==
    ASSUME OneWorker
    PROVE  Spec => []AcceptedIsDispatchable
  <1>1. SerialOrders => AcceptedIsDispatchable
    BY DEF SerialOrders, Untaken, AcceptedIsDispatchable
  <1> QED BY <1>1, SerialReadsHold, PTL

(* setOnline and changeStatus keep shifts and roles together.               *)
THEOREM OnlineRidersAreActive ==
    ASSUME OneWorker
    PROVE  Spec => []OnlineIsActive
  <1>1. SerialOrders => OnlineIsActive
    BY DEF SerialOrders
  <1> QED BY <1>1, SerialReadsHold, PTL

(* changeStatus never strands an order with a suspended or resigned rider.  *)
THEOREM InactiveRidersAreFree ==
    ASSUME OneWorker
    PROVE  Spec => []InactiveIsFree
  <1>1. SerialOrders => InactiveIsFree
    BY DEF SerialOrders
  <1> QED BY <1>1, SerialReadsHold, PTL

(* No run of claims and assignments gives a rider more orders than          *)
(* RiderProfile.maxActiveOrders.                                            *)
THEOREM RidersKeepTheirLimit ==
    ASSUME OneWorker
    PROVE  Spec => []WithinCapacity
  <1>1. SerialOrders => WithinCapacity
    BY DEF SerialOrders, Carried
  <1> QED BY <1>1, SerialReadsHold, PTL

LEMMA KindsMoveForward ==
    ASSUME TypeOK, OrderKinds, NEW o \in Orders,
           order'[o].status # order[o].status
    PROVE  /\ order[o].status \notin Terminal
           /\ order'[o].status \in
                {"CANCELLED", NextPersistedStatus(order[o].status)}
  <1>1. CASE Untaking
    BY <1>1 DEF Untaking, Rests, Proceeds, Hides, Prices
  <1>2. CASE \E p \in Orders, r \in Riders : Takes(p, r)
    <2>1. PICK p \in Orders, r \in Riders : Takes(p, r)
      BY <1>2
    <2>2. p = o
      BY <2>1 DEF Takes
    <2> QED BY <2>1, <2>2 DEF Takes, Terminal, NextPersistedStatus
  <1> QED BY <1>1, <1>2 DEF OrderKinds, Rosters

LEMMA KindsKeepAgreement ==
    ASSUME TypeOK, OrderKinds, NEW o \in Orders, order[o].quote = "ACCEPTED"
    PROVE  order'[o].quote = "ACCEPTED" /\ order'[o].fee = order[o].fee
  <1>1. CASE Untaking
    BY <1>1 DEF Untaking, Rests, Proceeds, Hides, Prices
  <1>2. CASE \E p \in Orders, r \in Riders : Takes(p, r)
    <2>1. PICK p \in Orders, r \in Riders : Takes(p, r)
      BY <1>2
    <2>2. CASE p = o
      BY <2>1, <2>2 DEF Takes
    <2>3. CASE p # o
      BY <2>1, <2>3 DEF Takes
    <2> QED BY <2>2, <2>3
  <1> QED BY <1>1, <1>2 DEF OrderKinds, Rosters

(* updateStatus, cancel, claim, assign and the rider's reports move an order *)
(* forward along ORDER_STATUS_FLOW or cancel it, and never touch one that    *)
(* has ended.                                                                *)
THEOREM OrdersMoveForward ==
    ASSUME OneWorker
    PROVE  Spec => StatusMovesForward
  <1>1. /\ IInv /\ SerialOrders /\ [Next]_vars
        => [\A o \in Orders : order'[o].status # order[o].status =>
              /\ order[o].status \notin Terminal
              /\ order'[o].status \in
                   {"CANCELLED", NextPersistedStatus(order[o].status)}]_order
    <2> SUFFICES ASSUME IInv, SerialOrders, [Next]_vars, NEW o \in Orders,
                        order'[o].status # order[o].status
                 PROVE  /\ order[o].status \notin Terminal
                        /\ order'[o].status \in
                             {"CANCELLED", NextPersistedStatus(order[o].status)}
      OBVIOUS
    <2> QED BY OneWorker, StoreAssumption, SerialOrdersStep, KindsMoveForward
            DEF IInv
  <1> QED BY <1>1, SerialReadsHold, Invariance, PTL DEF Spec, StatusMovesForward

(* quote and respondToQuote cannot take back a price agreed on.             *)
THEOREM AgreementsBind ==
    ASSUME OneWorker
    PROVE  Spec => AgreedPriceStands
  <1>1. /\ IInv /\ SerialOrders /\ [Next]_vars
        => [\A o \in Orders : order[o].quote = "ACCEPTED" =>
              order'[o].quote = "ACCEPTED" /\ order'[o].fee = order[o].fee]_order
    <2> SUFFICES ASSUME IInv, SerialOrders, [Next]_vars, NEW o \in Orders,
                        order[o].quote = "ACCEPTED", order' # order
                 PROVE  /\ order'[o].quote = "ACCEPTED"
                        /\ order'[o].fee = order[o].fee
      OBVIOUS
    <2> QED BY OneWorker, StoreAssumption, SerialOrdersStep, KindsKeepAgreement
            DEF IInv
  <1> QED BY <1>1, SerialReadsHold, Invariance, PTL DEF Spec, AgreedPriceStands

----------------------------------------------------------------------------
(* The money.  What most writes do to the rows of an order: they move the   *)
(* status of a payment or a refund that is there, and leave an open order   *)
(* its payment, and a price agreed on its value.                            *)
PayRow(o) ==
    /\ payment'[o].out = payment[o].out /\ payment'[o].prepay = payment[o].prepay
    /\ payment'[o].amount = payment[o].amount /\ payment'[o].txn = payment[o].txn
    /\ payment'[o].status = "NONE" <=> payment[o].status = "NONE"
    /\ payment'[o].status \in {"SUCCEEDED", "FAILED", "REFUNDING", "REFUNDED"}
         => Booked(o)
    /\ payment'[o].status = "CLOSED" /\ order'[o].status # "CANCELLED" =>
         \/ payment[o].status = "CLOSED" \/ isMockPaymentEnabled
         \/ trade[payment[o].out].state = "CLOSED"

RefundsRow(o) ==
    /\ refund[o].no # None => refund'[o].no = refund[o].no
    /\ refund'[o].status \in {"PROCESSING", "SUCCEEDED"} =>
         refund'[o].status = refund[o].status \/ Refunded(o)

OrdersRow(o) ==
    /\ order'[o].status # "CANCELLED" =>
         order[o].status # "CANCELLED" /\ order'[o].pay = order[o].pay
    /\ payment[o].status # "NONE" /\ PriceAgreed(o) =>
         order'[o].fee = order[o].fee /\ order'[o].quote = order[o].quote
    /\ order'[o].status = "CANCELLED" /\ order'[o].cancelledBy = "customer" =>
         \/ order[o].status = "CANCELLED" /\ order[o].cancelledBy = "customer"
         \/ NothingOwed(o)

BooksAgree ==
    /\ TypeOK /\ StoreAssumption
    /\ \A o \in Orders : MoneyInv(o)
    /\ MoneyRows

LEMMA RowsKeepMoney ==
    ASSUME BooksAgree, UNCHANGED wechat,
           \A o \in Orders : PayRow(o) /\ RefundsRow(o) /\ OrdersRow(o)
    PROVE  MoneyRows'
  <1>0. UNCHANGED <<trade, wxRefund>>
    BY DEF wechat
  <1>1. ASSUME NEW t \in TradeNos PROVE TradeInv(t)'
    <2>1. TradeInv(t)
      BY DEF BooksAgree, MoneyRows
    <2> QED BY <1>0, <2>1 DEF TradeInv, PayRow, isMockPaymentEnabled
  <1>2. ASSUME NEW o \in Orders, Refunded(o) PROVE Refunded(o)'
    BY <1>0, <1>2 DEF Refunded, RefundsRow
  <1>3. ASSUME NEW o \in Orders PROVE RowInv(o)'
    <2>1. RowInv(o) /\ PayRow(o) /\ RefundsRow(o) /\ OrdersRow(o)
      BY DEF BooksAgree, MoneyRows
    <2>2. Booked(o)' <=> Booked(o)
      BY <2>1 DEF PayRow, Booked
    <2>3. payment'[o].status # "NONE" =>
            PriceAgreed(o)' /\ payment'[o].amount = order'[o].fee
      BY <2>1 DEF RowInv, PayRow, OrdersRow, PriceAgreed
    <2>4. order'[o].status # "CANCELLED" =>
            /\ Booked(o)' => order'[o].pay = "PAID"
            /\ ~isMockPaymentEnabled /\ payment'[o].status = "CLOSED" =>
                 Booked(o)' \/ trade'[payment'[o].out].state = "CLOSED"
      BY <1>0, <2>1, <2>2 DEF RowInv, PayRow, OrdersRow
    <2>5. refund'[o].status \in {"PROCESSING", "SUCCEEDED"} => Refunded(o)'
      BY <1>2, <2>1 DEF RowInv, RefundsRow
    <2>6. /\ payment'[o].txn = "MOCK" => isMockPaymentEnabled
          /\ payment'[o].prepay =
               IF isMockPaymentEnabled \/ payment'[o].status = "NONE"
               THEN None ELSE payment'[o].out
      BY <2>1 DEF RowInv, PayRow
    <2>7. payment'[o].status # "NONE" /\ ~isMockPaymentEnabled =>
            /\ trade'[payment'[o].out].order = o
            /\ trade'[payment'[o].out].state \notin {"NONE", "CREATED"}
      BY <1>0, <2>1 DEF RowInv, PayRow
    <2>8. payment'[o].status \in {"SUCCEEDED", "FAILED", "REFUNDING", "REFUNDED"}
            => Booked(o)'
      BY <2>1, <2>2 DEF PayRow
    <2> QED BY <2>3, <2>4, <2>5, <2>6, <2>7, <2>8
            DEF RowInv, isMockPaymentEnabled
  <1>4. PaidPriceIsOrderPrice'
    <2> SUFFICES ASSUME NEW o \in Orders, payment'[o].txn = "WX"
                 PROVE  trade'[payment'[o].out].fee = order'[o].fee
      BY DEF PaidPriceIsOrderPrice
    <2>1. PayRow(o) /\ OrdersRow(o) /\ RowInv(o) /\ MoneyInv(o)
      BY DEF BooksAgree, MoneyRows
    <2>2. Booked(o)
      BY <2>1 DEF PayRow, Booked
    <2>3. payment[o].status # "NONE" /\ PriceAgreed(o)
      BY <2>1, <2>2 DEF MoneyInv, RowInv
    <2>4. trade[payment[o].out].fee = order[o].fee
      BY <2>1 DEF BooksAgree, MoneyRows, PaidPriceIsOrderPrice, PayRow
    <2> QED BY <1>0, <2>1, <2>3, <2>4 DEF PayRow, OrdersRow
  <1>5. CustomerCancelIsSettled'
    <2> SUFFICES ASSUME NEW o \in Orders, order'[o].status = "CANCELLED",
                        order'[o].cancelledBy = "customer"
                 PROVE  NothingOwed(o)'
      BY DEF CustomerCancelIsSettled
    <2>1. NothingOwed(o)
      BY DEF OrdersRow, BooksAgree, MoneyRows, CustomerCancelIsSettled
    <2> QED BY <1>0, <1>2, <2>1 DEF NothingOwed
  <1> QED BY <1>1, <1>3, <1>4, <1>5 DEF MoneyRows

(* WeChat moves on with a refund, or with a trade.                          *)
LEMMA RefundsGoOn ==
    ASSUME BooksAgree, UNCHANGED <<order, payment, refund, trade>>,
           \A n \in RefundNos : wxRefund[n] # "NONE" => wxRefund'[n] # "NONE"
    PROVE  MoneyRows'
  <1>1. ASSUME NEW o \in Orders, Refunded(o) PROVE Refunded(o)'
    <2>1. refund[o].no \in RefundNos
      BY <1>1 DEF Refunded, BooksAgree, TypeOK, RefundRow
    <2> QED BY <1>1, <2>1 DEF Refunded
  <1>2. ASSUME NEW t \in TradeNos PROVE TradeInv(t)'
    BY DEF BooksAgree, MoneyRows, TradeInv, isMockPaymentEnabled
  <1>3. ASSUME NEW o \in Orders PROVE RowInv(o)'
    <2>1. RowInv(o)
      BY DEF BooksAgree, MoneyRows
    <2> QED BY <1>1, <2>1 DEF RowInv, PriceAgreed, Booked, isMockPaymentEnabled
  <1>4. PaidPriceIsOrderPrice'
    BY DEF BooksAgree, MoneyRows, PaidPriceIsOrderPrice
  <1>5. CustomerCancelIsSettled'
    BY <1>1 DEF BooksAgree, MoneyRows, CustomerCancelIsSettled, NothingOwed
  <1> QED BY <1>2, <1>3, <1>4, <1>5 DEF MoneyRows

TradeGoesOn(t) ==
    /\ trade'[t].order = trade[t].order /\ trade'[t].fee = trade[t].fee
    /\ \/ trade'[t].state = trade[t].state
       \/ trade[t].state = "ISSUED" /\ trade'[t].state = "SUCCESS"
       \/ trade[t].state \notin {"NONE", "SUCCESS"} /\ trade'[t].state = "CLOSED"

LEMMA TradesGoOn ==
    ASSUME BooksAgree, UNCHANGED <<order, payment, refund, wxRefund>>,
           \A t \in TradeNos : TradeGoesOn(t)
    PROVE  MoneyRows'
  <1>1. ASSUME NEW t \in TradeNos PROVE TradeInv(t)'
    <2>1. TradeInv(t) /\ TradeGoesOn(t)
      BY DEF BooksAgree, MoneyRows
    <2> QED BY <2>1 DEF TradeInv, TradeGoesOn, isMockPaymentEnabled
  <1>2. ASSUME NEW o \in Orders PROVE RowInv(o)'
    <2>1. RowInv(o) /\ MoneyInv(o)
      BY DEF BooksAgree, MoneyRows
    <2>2. payment[o].status # "NONE" => TradeGoesOn(payment[o].out)
      BY <2>1 DEF MoneyInv
    <2>3. Refunded(o)' <=> Refunded(o)
      BY DEF Refunded
    <2> QED BY <2>1, <2>2, <2>3
            DEF RowInv, TradeGoesOn, PriceAgreed, Booked, isMockPaymentEnabled
  <1>3. PaidPriceIsOrderPrice'
    <2> SUFFICES ASSUME NEW o \in Orders, payment[o].txn = "WX"
                 PROVE  trade'[payment[o].out].fee = order[o].fee
      BY DEF PaidPriceIsOrderPrice
    <2>1. payment[o].out \in TradeNos
      BY DEF BooksAgree, MoneyInv, Booked
    <2> QED BY <2>1 DEF BooksAgree, MoneyRows, PaidPriceIsOrderPrice, TradeGoesOn
  <1>4. CustomerCancelIsSettled'
    <2> SUFFICES ASSUME NEW o \in Orders, order[o].status = "CANCELLED",
                        order[o].cancelledBy = "customer",
                        NEW t \in TradeNos, trade'[t].order = o
                 PROVE  /\ trade'[t].state # "ISSUED"
                        /\ trade'[t].state = "SUCCESS" => Refunded(o)'
      BY DEF CustomerCancelIsSettled, NothingOwed
    <2> QED BY DEF BooksAgree, MoneyRows, CustomerCancelIsSettled, NothingOwed,
                   TradeGoesOn, Refunded
  <1> QED BY <1>1, <1>2, <1>3, <1>4 DEF MoneyRows

(* WeChat opens a trade for a prepay that no row names yet.                 *)
LEMMA TradeOpens ==
    ASSUME BooksAgree, UNCHANGED <<order, payment, refund, wxRefund>>,
           NEW t \in TradeNos, NEW o \in Orders, NEW fee,
           ~isMockPaymentEnabled, trade[t].state = "NONE",
           trade' = [trade EXCEPT ![t] =
                       [state |-> "CREATED", order |-> o, fee |-> fee]]
    PROVE  MoneyRows'
  <1>0. /\ trade'[t].state = "CREATED" /\ trade'[t].order = o
        /\ \A u \in TradeNos \ {t} : trade'[u] = trade[u]
    BY DEF BooksAgree, TypeOK
  <1>1. ASSUME NEW p \in Orders, payment[p].status # "NONE"
        PROVE  /\ payment[p].out \in TradeNos \ {t}
               /\ trade'[payment[p].out] = trade[payment[p].out]
    <2>1. payment[p].out \in TradeNos
      BY <1>1 DEF BooksAgree, MoneyInv
    <2>2. payment[p].out # t
      BY <1>1 DEF BooksAgree, MoneyRows, RowInv
    <2> QED BY <1>0, <2>1, <2>2
  <1>2. ASSUME NEW u \in TradeNos PROVE TradeInv(u)'
    <2>1. TradeInv(u)
      BY DEF BooksAgree, MoneyRows
    <2>2. CASE u = t
      BY <1>0, <2>2 DEF TradeInv, isMockPaymentEnabled
    <2>3. CASE u # t
      BY <1>0, <2>1, <2>3 DEF TradeInv, isMockPaymentEnabled
    <2> QED BY <2>2, <2>3
  <1>3. ASSUME NEW p \in Orders PROVE RowInv(p)'
    <2>1. RowInv(p)
      BY DEF BooksAgree, MoneyRows
    <2>2. Refunded(p)' <=> Refunded(p)
      BY DEF Refunded
    <2> QED BY <1>1, <2>1, <2>2
            DEF RowInv, PriceAgreed, Booked, isMockPaymentEnabled
  <1>4. PaidPriceIsOrderPrice'
    <2> SUFFICES ASSUME NEW p \in Orders, payment[p].txn = "WX"
                 PROVE  trade'[payment[p].out].fee = order[p].fee
      BY DEF PaidPriceIsOrderPrice
    <2>1. payment[p].status # "NONE"
      BY DEF BooksAgree, MoneyInv, Booked
    <2> QED BY <1>1, <2>1 DEF BooksAgree, MoneyRows, PaidPriceIsOrderPrice
  <1>5. CustomerCancelIsSettled'
    <2> SUFFICES ASSUME NEW p \in Orders, order[p].status = "CANCELLED",
                        order[p].cancelledBy = "customer",
                        NEW u \in TradeNos, trade'[u].order = p
                 PROVE  /\ trade'[u].state # "ISSUED"
                        /\ trade'[u].state = "SUCCESS" => Refunded(p)'
      BY DEF CustomerCancelIsSettled, NothingOwed
    <2>1. CASE u = t
      BY <1>0, <2>1
    <2>2. CASE u # t
      BY <1>0, <2>2 DEF BooksAgree, MoneyRows, CustomerCancelIsSettled,
                        NothingOwed, Refunded
    <2> QED BY <2>1, <2>2
  <1> QED BY <1>2, <1>3, <1>4, <1>5 DEF MoneyRows

(* A prepay is saved: the row takes the trade, which can now be paid.       *)
LEMMA PrepayIsSaved ==
    ASSUME BooksAgree, NEW w \in Workers, req[w] \in Request, Typed(req[w]),
           ReadPrepay(req[w]), CreatePrepaySave(w)
    PROVE  MoneyRows'
  <1>r. PICK r \in Request, o \in Orders : r = req[w] /\ o = r.o
    BY DEF CreatePrepaySave, At, Typed
  <1> DEFINE p == payment[o]
  <1>0. /\ UNCHANGED <<order, refund, wxRefund>>
        /\ r.trade \in TradeNos /\ order[o].status # "CANCELLED"
        /\ PriceAgreed(o) /\ r.fee = order[o].fee
        /\ isMockPaymentEnabled => r.prepay = None
        /\ ~isMockPaymentEnabled =>
             /\ r.prepay = r.trade
             /\ trade[r.trade].order = o /\ trade[r.trade].state # "NONE"
             /\ p.status # "NONE" => p.out = r.trade
    BY <1>r DEF CreatePrepaySave, At, Typed, ReadPrepay, orderTables
  <1>1. /\ payment'[o].status = "PENDING" /\ payment'[o].amount = r.fee
        /\ payment'[o].prepay = r.prepay /\ payment'[o].txn = p.txn
        /\ payment'[o].out = IF p.status = "NONE" THEN r.trade ELSE p.out
        /\ \A q \in Orders \ {o} : payment'[q] = payment[q]
    BY <1>r DEF CreatePrepaySave, BooksAgree, TypeOK, PaymentRow
  <1>2. ASSUME NEW t \in TradeNos
        PROVE  /\ trade'[t].order = trade[t].order /\ trade'[t].fee = trade[t].fee
               /\ \/ trade'[t].state = trade[t].state
                  \/ /\ ~isMockPaymentEnabled /\ t = r.trade
                     /\ trade[t].state = "CREATED" /\ trade'[t].state = "ISSUED"
               /\ ~isMockPaymentEnabled /\ t = r.trade =>
                    trade'[t].state # "CREATED"
    <2>1. trade[t] \in Trade /\ None \notin TradeNos
      BY DEF BooksAgree, TypeOK, StoreAssumption
    <2>2. trade'[t] = IF t = r.prepay /\ trade[t].state = "CREATED"
                      THEN [trade[t] EXCEPT !.state = "ISSUED"] ELSE trade[t]
      BY <1>r DEF CreatePrepaySave
    <2> QED BY <1>0, <2>1, <2>2 DEF Trade
  <1>3. ~isMockPaymentEnabled => payment'[o].out = r.trade
    BY <1>0, <1>1
  <1>4. ASSUME NEW q \in Orders PROVE Refunded(q)' <=> Refunded(q)
    BY <1>0 DEF Refunded
  <1> HIDE DEF p
  <1>5. ASSUME NEW t \in TradeNos PROVE TradeInv(t)'
    <2>1. TradeInv(t) /\ (r.trade = t \/ r.trade # t)
      BY DEF BooksAgree, MoneyRows
    <2>2. isMockPaymentEnabled => trade'[t].state = "NONE"
      BY <1>2, <2>1 DEF TradeInv
    <2>3. trade'[t].state = "NONE" => trade'[t].order = None
      BY <1>2, <2>1 DEF TradeInv
    <2>4. ASSUME NEW q \in Orders, trade'[t].order = q,
                 trade'[t].state \in {"ISSUED", "SUCCESS"}
          PROVE  payment'[q].status # "NONE" /\ payment'[q].out = t
      <3>0. ~isMockPaymentEnabled
        BY <2>2, <2>4
      <3>1. CASE q = o
        BY <1>0, <1>1, <1>2, <1>3, <2>1, <2>4, <3>0, <3>1 DEF TradeInv, p
      <3>2. CASE q # o
        BY <1>0, <1>1, <1>2, <2>1, <2>4, <3>2 DEF TradeInv
      <3> QED BY <3>1, <3>2
    <2> QED BY <2>2, <2>3, <2>4 DEF TradeInv, isMockPaymentEnabled
  <1>6. ASSUME NEW q \in Orders PROVE RowInv(q)'
    <2>1. RowInv(q) /\ MoneyInv(q)
      BY DEF BooksAgree, MoneyRows
    <2>2. CASE q = o
      <3>1. /\ payment'[o].txn = "MOCK" => isMockPaymentEnabled
            /\ payment'[o].prepay =
                 IF isMockPaymentEnabled THEN None ELSE payment'[o].out
        BY <1>0, <1>1, <1>3, <2>1, <2>2 DEF RowInv, p
      <3>2. PriceAgreed(o)' /\ payment'[o].amount = order'[o].fee
        BY <1>0, <1>1 DEF PriceAgreed
      <3>3. ~isMockPaymentEnabled =>
              /\ trade'[payment'[o].out].order = o
              /\ trade'[payment'[o].out].state \notin {"NONE", "CREATED"}
        BY <1>0, <1>2, <1>3
      <3>4. Booked(o)' => order'[o].pay = "PAID"
        BY <1>0, <1>1, <2>1, <2>2 DEF RowInv, Booked, p
      <3>5. refund'[o].status \in {"PROCESSING", "SUCCEEDED"} => Refunded(o)'
        BY <1>0, <1>4, <2>1, <2>2 DEF RowInv
      <3> QED BY <1>1, <2>2, <3>1, <3>2, <3>3, <3>4, <3>5
              DEF RowInv, isMockPaymentEnabled
    <2>3. CASE q # o
      <3>1. payment[q].status # "NONE" => payment[q].out \in TradeNos
        BY <2>1 DEF MoneyInv
      <3>2. payment'[q] = payment[q]
        BY <1>1, <2>3
      <3>3. payment[q].status # "NONE" /\ ~isMockPaymentEnabled =>
              /\ trade'[payment[q].out].order = q
              /\ trade'[payment[q].out].state = trade[payment[q].out].state
        BY <1>0, <1>2, <2>1, <3>1 DEF RowInv
      <3> QED BY <1>0, <1>4, <2>1, <3>2, <3>3
              DEF RowInv, PriceAgreed, Booked, isMockPaymentEnabled
    <2> QED BY <2>2, <2>3
  <1>7. PaidPriceIsOrderPrice'
    <2> SUFFICES ASSUME NEW q \in Orders, payment'[q].txn = "WX"
                 PROVE  trade'[payment'[q].out].fee = order'[q].fee
      BY DEF PaidPriceIsOrderPrice
    <2>1. payment[q].txn = "WX"
      BY <1>1 DEF p
    <2>2. payment[q].status # "NONE" /\ payment[q].out \in TradeNos
      BY <2>1 DEF BooksAgree, MoneyInv, Booked
    <2>3. payment'[q].out = payment[q].out
      BY <1>1, <2>2 DEF p
    <2>4. trade[payment[q].out].fee = order[q].fee
      BY <2>1 DEF BooksAgree, MoneyRows, PaidPriceIsOrderPrice
    <2> QED BY <1>0, <1>2, <2>2, <2>3, <2>4
  <1>8. CustomerCancelIsSettled'
    <2> SUFFICES ASSUME NEW q \in Orders, order[q].status = "CANCELLED",
                        order[q].cancelledBy = "customer",
                        NEW t \in TradeNos, trade'[t].order = q
                 PROVE  /\ trade'[t].state # "ISSUED"
                        /\ trade'[t].state = "SUCCESS" => Refunded(q)'
      BY <1>0 DEF CustomerCancelIsSettled, NothingOwed
    <2>1. NothingOwed(q)
      BY DEF BooksAgree, MoneyRows, CustomerCancelIsSettled
    <2> QED BY <1>0, <1>2, <1>4, <2>1 DEF NothingOwed
  <1> QED BY <1>5, <1>6, <1>7, <1>8 DEF MoneyRows

(* A payment is booked, of a row whose trade was captured at its amount.    *)
LEMMA BookingKeepsMoney ==
    ASSUME BooksAgree, UNCHANGED <<refund, trade, wxRefund>>, NEW o \in Orders,
           NEW txn \in {"MOCK", "WX"}, RecordPayment(o, txn),
           payment[o].status # "NONE",
           txn = "MOCK" => isMockPaymentEnabled,
           txn = "WX" => trade[payment[o].out].fee = payment[o].amount
    PROVE  MoneyRows'
  <1>1. /\ payment'[o].status = "SUCCEEDED" /\ payment'[o].txn = txn
        /\ payment'[o].out = payment[o].out
        /\ payment'[o].prepay = payment[o].prepay
        /\ payment'[o].amount = payment[o].amount
        /\ \A q \in Orders \ {o} : payment'[q] = payment[q]
    BY DEF RecordPayment, BooksAgree, TypeOK, PaymentRow
  <1>2. /\ order'[o].pay = "PAID" /\ order'[o].status = order[o].status
        /\ order'[o].fee = order[o].fee /\ order'[o].quote = order[o].quote
        /\ order'[o].cancelledBy = order[o].cancelledBy
        /\ \A q \in Orders \ {o} : order'[q] = order[q]
    BY DEF RecordPayment, BooksAgree, TypeOK, OrderRow
  <1>3. ASSUME NEW q \in Orders PROVE Refunded(q)' <=> Refunded(q)
    BY DEF Refunded
  <1>4. ASSUME NEW t \in TradeNos PROVE TradeInv(t)'
    <2>1. TradeInv(t)
      BY DEF BooksAgree, MoneyRows
    <2> QED BY <1>1, <2>1 DEF TradeInv, isMockPaymentEnabled
  <1>5. ASSUME NEW q \in Orders PROVE RowInv(q)'
    <2>1. RowInv(q)
      BY DEF BooksAgree, MoneyRows
    <2>2. CASE q = o
      <3>1. Booked(o)'
        BY <1>1 DEF Booked
      <3> QED BY <1>1, <1>2, <1>3, <2>1, <2>2, <3>1
              DEF RowInv, PriceAgreed, isMockPaymentEnabled
    <2>3. CASE q # o
      BY <1>1, <1>2, <1>3, <2>1, <2>3
         DEF RowInv, PriceAgreed, Booked, isMockPaymentEnabled
    <2> QED BY <2>2, <2>3
  <1>6. PaidPriceIsOrderPrice'
    <2>1. RowInv(o)
      BY DEF BooksAgree, MoneyRows
    <2> QED BY <1>1, <1>2, <2>1
            DEF BooksAgree, MoneyRows, PaidPriceIsOrderPrice, RowInv
  <1>7. CustomerCancelIsSettled'
    BY <1>2, <1>3 DEF BooksAgree, MoneyRows, CustomerCancelIsSettled, NothingOwed
  <1> QED BY <1>4, <1>5, <1>6, <1>7 DEF MoneyRows

----------------------------------------------------------------------------
(* What the request in flight knows of the money.                           *)
MoneyHolds(w) == MoneyRows' /\ ReadMoney(req[w])'

LEMMA Indifferent ==
    ASSUME NEW r, r.pc \notin {"refundMock", "refundPersist"},
           r.op \notin {"createPrepay", "cancel", "confirmMockPayment",
                        "handleWechatNotification",
                        "handleWechatRefundNotification"}
    PROVE  ReadMoney(r)
  BY DEF ReadMoney, ReadPrepay, ReadCancel, ReadPayment

LEMMA IdleIsIndifferent ==
    ASSUME NEW w \in Workers, req'[w] = Idle
    PROVE  ReadMoney(req[w])'
  BY DEF Idle, ReadMoney, ReadPrepay, ReadCancel, ReadPayment

(* A step that changes no row, and leaves a request with what is so.        *)
LEMMA OnlyRequests ==
    ASSUME BooksAgree, NEW w \in Workers, TablesUnchanged, ReadMoney(req'[w])
    PROVE  MoneyHolds(w)
  <1>1. UNCHANGED <<order, payment, refund, trade, wxRefund>>
    BY DEF TablesUnchanged, orderTables, paymentTables, wechat
  <1>2. MoneyRows'
    BY <1>1, RefundsGoOn
  <1>3. \A o \in Orders : Refunded(o)' <=> Refunded(o)
    BY <1>1 DEF Refunded
  <1>4. ReadPrepay(req[w])'
    BY <1>1 DEF ReadMoney, ReadPrepay, PriceAgreed, isMockPaymentEnabled
  <1>5. ReadCancel(req[w])'
    BY <1>1 DEF ReadMoney, ReadCancel, Booked, NothingOwed, Refunded,
                isMockPaymentEnabled
  <1>6. ReadPayment(req[w])'
    BY <1>1 DEF ReadMoney, ReadPayment, Refunded, isMockPaymentEnabled
  <1> QED BY <1>2, <1>4, <1>5, <1>6 DEF MoneyHolds, ReadMoney

LEMMA MoneyBegins ==
    ASSUME BooksAgree, NEW w \in Workers, NEW r, Begin(w, r), TablesUnchanged,
           ReadMoney(r)
    PROVE  MoneyHolds(w)
  <1>1. req'[w] = r
    BY DEF BooksAgree, TypeOK, Begin
  <1> QED BY <1>1, OnlyRequests

LEMMA MoneyEnds ==
    ASSUME BooksAgree, NEW w \in Workers, TablesUnchanged, Finish(w)
    PROVE  MoneyHolds(w)
  <1>1. req'[w] = Idle
    BY DEF BooksAgree, TypeOK, Finish
  <1>2. ReadMoney(req'[w])
    BY <1>1, Indifferent DEF Idle
  <1> QED BY <1>2, OnlyRequests

LEMMA EndIsIndifferent ==
    ASSUME BooksAgree, NEW w \in Workers, Finish(w), MoneyRows'
    PROVE  MoneyHolds(w)
  <1>1. req'[w] = Idle
    BY DEF BooksAgree, TypeOK, Finish
  <1> QED BY <1>1, IdleIsIndifferent DEF MoneyHolds

(* When nothing is owed on an order.                                        *)
LEMMA UnpaidIsUnowed ==
    ASSUME BooksAgree, NEW o \in Orders, ~Booked(o),
           order[o].status # "CANCELLED",
           \/ payment[o].status # "PENDING" \/ isMockPaymentEnabled
           \/ trade[payment[o].out].state = "CLOSED"
    PROVE  NothingOwed(o)
  <1> SUFFICES ASSUME NEW t \in TradeNos, trade[t].order = o,
                      trade[t].state \in {"ISSUED", "SUCCESS"}
               PROVE  FALSE
    BY DEF NothingOwed
  <1>1. TradeInv(t) /\ RowInv(o) /\ payment[o] \in PaymentRow
    BY DEF BooksAgree, MoneyRows, TypeOK
  <1>2. ~isMockPaymentEnabled /\ payment[o].status # "NONE" /\ payment[o].out = t
    BY <1>1 DEF TradeInv
  <1> QED BY <1>1, <1>2 DEF RowInv, PaymentRow, PaymentRecordStatus

LEMMA RefundedIsUnowed ==
    ASSUME BooksAgree, NEW o \in Orders, Booked(o),
           isMockPaymentEnabled \/ Refunded(o)
    PROVE  NothingOwed(o)
  <1> SUFFICES ASSUME NEW t \in TradeNos, trade[t].order = o,
                      trade[t].state \in {"ISSUED", "SUCCESS"}
               PROVE  trade[t].state # "ISSUED" /\ Refunded(o)
    BY DEF NothingOwed
  <1>1. TradeInv(t) /\ RowInv(o) /\ MoneyInv(o)
    BY DEF BooksAgree, MoneyRows
  <1>2. ~isMockPaymentEnabled /\ payment[o].out = t
    BY <1>1 DEF TradeInv
  <1>3. trade[t].state = "SUCCESS"
    BY <1>1, <1>2 DEF MoneyInv, Captured, RowInv
  <1> QED BY <1>2, <1>3

----------------------------------------------------------------------------
LEMMA OrdersBeginMoney ==
    ASSUME BooksAgree, NEW w \in Workers, NEW o \in Orders, OrdersBegin(w, o)
    PROVE  MoneyHolds(w)
  <1> USE DEF TablesUnchanged, Idle
  <1>1. ASSUME NEW status \in OrderStatus, UpdateStatusRead(w, o, status)
        PROVE  MoneyHolds(w)
    BY <1>1, MoneyBegins, Indifferent DEF UpdateStatusRead
  <1>2. CASE CancelRead(w, o)
    <2>1. RowInv(o) /\ order[o].status # "CANCELLED"
      BY <1>2 DEF BooksAgree, MoneyRows, CancelRead, Terminal
    <2>2. order[o].pay # "PAID" => ~Booked(o)
      BY <2>1 DEF RowInv
    <2> QED BY <1>2, <2>2, MoneyBegins
            DEF CancelRead, ReadMoney, ReadPrepay, ReadCancel, ReadPayment,
                Closing, Refunding, RefundSteps
  <1>3. CASE HideRead(w, o)
    BY <1>3, MoneyBegins, Indifferent DEF HideRead
  <1>4. ASSUME NEW fee \in Fees, QuoteRead(w, o, fee)
        PROVE  MoneyHolds(w)
    BY <1>4, MoneyBegins, Indifferent DEF QuoteRead
  <1>5. ASSUME NEW decision \in {"ACCEPTED", "REJECTED"},
               RespondToQuoteRead(w, o, decision)
        PROVE  MoneyHolds(w)
    BY <1>5, MoneyBegins, Indifferent DEF RespondToQuoteRead
  <1> QED BY <1>1, <1>2, <1>3, <1>4, <1>5 DEF OrdersBegin

LEMMA PaymentsBeginMoney ==
    ASSUME BooksAgree, NEW w \in Workers, NEW o \in Orders,
           PaymentsBegin(w, o) \/ WechatNotifies(w, o)
    PROVE  MoneyHolds(w)
  <1> USE DEF TablesUnchanged, Idle, ReadMoney, ReadPrepay, ReadCancel,
              ReadPayment
  <1>0. RowInv(o) /\ MoneyInv(o)
    BY DEF BooksAgree, MoneyRows
  <1>1. ASSUME NEW t \in TradeNos, CreatePrepayRead(w, o, t)
        PROVE  MoneyHolds(w)
    <2>1. None \notin TradeNos
      BY DEF BooksAgree, StoreAssumption
    <2> QED BY <1>0, <1>1, <2>1, MoneyBegins
            DEF CreatePrepayRead, RowInv, MoneyInv, PriceAgreed
  <1>2. CASE ConfirmMockPaymentRead(w, o)
    BY <1>2, MoneyBegins DEF ConfirmMockPaymentRead
  <1>3. CASE RefundBegin(w, o)
    BY <1>3, MoneyBegins DEF RefundBegin
  <1>4. ASSUME NEW t \in TradeNos, HandleWechatNotificationRead(w, o, t)
        PROVE  MoneyHolds(w)
    BY <1>4, MoneyBegins DEF HandleWechatNotificationRead, Acceptable
  <1>5. ASSUME NEW n \in RefundNos, HandleWechatRefundNotificationRead(w, o, n)
        PROVE  MoneyHolds(w)
    <2>1. Refunded(o)
      BY <1>5 DEF HandleWechatRefundNotificationRead, Refunded, BooksAgree,
                  StoreAssumption
    <2> QED BY <1>5, <2>1, MoneyBegins DEF HandleWechatRefundNotificationRead
  <1> QED BY <1>1, <1>2, <1>3, <1>4, <1>5 DEF PaymentsBegin, WechatNotifies

LEMMA RidersBeginMoney ==
    ASSUME BooksAgree, NEW w \in Workers, NEW r \in Riders, RidersBegin(w, r)
    PROVE  MoneyHolds(w)
  <1> USE DEF TablesUnchanged, Idle
  <1>1. ASSUME NEW o \in Orders, NEW k \in Keys, ClaimRead(w, r, o, k)
        PROVE  MoneyHolds(w)
    BY <1>1, MoneyBegins, Indifferent DEF ClaimRead
  <1>2. ASSUME NEW o \in Orders, AssignRead(w, r, o)
        PROVE  MoneyHolds(w)
    BY <1>2, MoneyBegins, Indifferent DEF AssignRead
  <1>3. ASSUME NEW o \in Orders,
               NEW status \in {"ARRIVED", "DELIVERING", "COMPLETED"},
               RiderUpdateBegin(w, r, o, status)
        PROVE  MoneyHolds(w)
    BY <1>3, MoneyBegins, Indifferent DEF RiderUpdateBegin
  <1>4. ASSUME NEW online \in {"ONLINE", "OFFLINE"}, SetOnlineRead(w, r, online)
        PROVE  MoneyHolds(w)
    BY <1>4, MoneyBegins, Indifferent DEF SetOnlineRead
  <1>5. ASSUME NEW role \in {"ACTIVE", "SUSPENDED", "RESIGNED"},
               ChangeStatusRead(w, r, role)
        PROVE  MoneyHolds(w)
    BY <1>5, MoneyBegins, Indifferent DEF ChangeStatusRead
  <1> QED BY <1>1, <1>2, <1>3, <1>4, <1>5 DEF RidersBegin

----------------------------------------------------------------------------
(* A handler writes an order and nothing of its payment.                    *)
LEMMA OrderWriteMoney ==
    ASSUME BooksAgree, NEW w \in Workers, NEW o \in Orders, Finish(w),
           UNCHANGED <<payment, refund, trade, wxRefund>>,
           \A p \in Orders \ {o} : order'[p] = order[p], OrdersRow(o)
    PROVE  MoneyHolds(w)
  <1>1. ASSUME NEW p \in Orders PROVE PayRow(p) /\ RefundsRow(p) /\ OrdersRow(p)
    <2>1. RowInv(p)
      BY DEF BooksAgree, MoneyRows
    <2> QED BY <2>1 DEF PayRow, RefundsRow, OrdersRow, RowInv
  <1>2. MoneyRows'
    BY <1>1, RowsKeepMoney DEF wechat
  <1> QED BY <1>2, EndIsIndifferent

LEMMA OrdersStepMoney ==
    ASSUME BooksAgree, NEW w \in Workers, Typed(req[w]), ReadOrder(req[w]),
           ReadMoney(req[w]), OrdersStep(w)
    PROVE  MoneyHolds(w)
  <1> USE DEF orderTables, riderTables, paymentTables, wechat
  <1>1. PICK o \in Orders : o = req[w].o
    BY DEF OrdersStep, UpdateStatusWrite, CancelWrite, HideWrite, QuoteWrite,
           RespondToQuoteWrite, At, Typed
  <1>2. /\ Finish(w) /\ UNCHANGED <<refund, trade, wxRefund>>
        /\ order[o] \in OrderRow /\ order \in [Orders -> OrderRow]
    BY DEF OrdersStep, UpdateStatusWrite, CancelWrite, HideWrite, QuoteWrite,
           RespondToQuoteWrite, BooksAgree, TypeOK
  <1>3. \A p \in Orders \ {o} : order'[p] = order[p]
    BY <1>1, <1>2 DEF OrdersStep, UpdateStatusWrite, CancelWrite, HideWrite,
           QuoteWrite, RespondToQuoteWrite
  <1>4. CASE UpdateStatusWrite(w)
    <2>1. order[o].status \notin Terminal
      BY <1>1, <1>4 DEF UpdateStatusWrite, At, ReadOrder, InFlow
    <2>2. OrdersRow(o)
      BY <1>1, <1>2, <1>4, <2>1
         DEF UpdateStatusWrite, OrdersRow, OrderRow, Terminal
    <2> QED BY <1>2, <1>3, <1>4, <2>2, OrderWriteMoney DEF UpdateStatusWrite
  <1>5. CASE HideWrite(w)
    <2>1. OrdersRow(o)
      BY <1>1, <1>2, <1>5 DEF HideWrite, OrdersRow, OrderRow
    <2> QED BY <1>2, <1>3, <1>5, <2>1, OrderWriteMoney DEF HideWrite
  <1>6. CASE QuoteWrite(w)
    <2>1. ~PriceAgreed(o)
      BY <1>1, <1>6 DEF QuoteWrite, At, ReadOrder, Quotable, PriceAgreed
    <2>2. OrdersRow(o)
      BY <1>1, <1>2, <1>6, <2>1 DEF QuoteWrite, OrdersRow, OrderRow
    <2> QED BY <1>2, <1>3, <1>6, <2>2, OrderWriteMoney DEF QuoteWrite
  <1>7. CASE RespondToQuoteWrite(w)
    <2>1. ~PriceAgreed(o)
      BY <1>1, <1>7 DEF RespondToQuoteWrite, At, ReadOrder, AwaitsAnswer,
                        PriceAgreed
    <2>2. OrdersRow(o)
      BY <1>1, <1>2, <1>7, <2>1 DEF RespondToQuoteWrite, OrdersRow, OrderRow
    <2> QED BY <1>2, <1>3, <1>7, <2>2, OrderWriteMoney DEF RespondToQuoteWrite
  <1>8. CASE CancelWrite(w)
    <2>1. NothingOwed(o)
      BY <1>1, <1>8 DEF CancelWrite, At, ReadMoney, ReadCancel
    <2>2. /\ order'[o].status = "CANCELLED" /\ order'[o].fee = order[o].fee
          /\ order'[o].quote = order[o].quote
      BY <1>1, <1>2, <1>8 DEF CancelWrite, OrderRow
    <2>3. /\ payment'[o].out = payment[o].out
          /\ payment'[o].prepay = payment[o].prepay
          /\ payment'[o].amount = payment[o].amount
          /\ payment'[o].txn = payment[o].txn
          /\ payment'[o].status = IF payment[o].status = "PENDING"
                                  THEN "CLOSED" ELSE payment[o].status
          /\ \A p \in Orders \ {o} : payment'[p] = payment[p]
      BY <1>1, <1>8 DEF CancelWrite, BooksAgree, TypeOK, PaymentRow
    <2>4. ASSUME NEW p \in Orders
          PROVE  PayRow(p) /\ RefundsRow(p) /\ OrdersRow(p)
      <3>1. RowInv(p)
        BY DEF BooksAgree, MoneyRows
      <3>2. RefundsRow(p)
        BY <1>2 DEF RefundsRow
      <3>3. CASE p = o
        <4>1. PayRow(o)
          BY <2>2, <2>3, <3>1, <3>3 DEF PayRow, RowInv
        <4>2. OrdersRow(o)
          BY <2>1, <2>2 DEF OrdersRow
        <4> QED BY <3>2, <3>3, <4>1, <4>2
      <3>4. CASE p # o
        BY <1>3, <2>3, <3>1, <3>2, <3>4 DEF PayRow, OrdersRow, RowInv
      <3> QED BY <3>3, <3>4
    <2>5. MoneyRows'
      BY <1>2, <2>4, RowsKeepMoney
    <2> QED BY <1>2, <2>5, EndIsIndifferent
  <1> QED BY <1>4, <1>5, <1>6, <1>7, <1>8 DEF OrdersStep

LEMMA RidersStepMoney ==
    ASSUME BooksAgree, NEW w \in Workers, Typed(req[w]), ReadOrder(req[w]),
           ReadMoney(req[w]), RidersStep(w)
    PROVE  MoneyHolds(w)
  <1> USE DEF orderTables, riderTables, paymentTables, wechat
  <1>0. order \in [Orders -> OrderRow] /\ req[w] \in Request
    BY DEF BooksAgree, TypeOK
  <1>1. UNCHANGED <<payment, refund, trade, wxRefund>>
    BY DEF RidersStep, ClaimTx, AssignMatch, AssignWrite, RiderUpdateRead,
           RiderUpdateWrite, SetOnlineWrite, ChangeStatusWrite
  <1>2. ASSUME NEW o \in Orders, NEW r, TakeOrder(o, r), Finish(w),
               Dispatchable(o)
        PROVE  MoneyHolds(w)
    <2>1. /\ OrdersRow(o)
          /\ \A p \in Orders \ {o} : order'[p] = order[p]
      BY <1>0, <1>2 DEF TakeOrder, Dispatchable, OrdersRow, OrderRow
    <2> QED BY <1>1, <1>2, <2>1, OrderWriteMoney
  <1>3. ASSUME UNCHANGED order, Finish(w)
        PROVE  MoneyHolds(w)
    <2>1. MoneyRows'
      BY <1>1, <1>3, RefundsGoOn
    <2> QED BY <1>3, <2>1, EndIsIndifferent
  <1>4. CASE ClaimTx(w)
    <2>1. Finish(w) /\ req[w].o \in Orders
      BY <1>4 DEF ClaimTx, At, Typed
    <2>2. \/ UNCHANGED order
          \/ Dispatchable(req[w].o) /\ TakeOrder(req[w].o, req[w].rider)
      BY <1>4 DEF ClaimTx
    <2> QED BY <1>2, <1>3, <2>1, <2>2
  <1>5. CASE AssignWrite(w)
    <2>1. Finish(w) /\ req[w].o \in Orders
      BY <1>5 DEF AssignWrite, At, Typed
    <2>2. \/ UNCHANGED order
          \/ Dispatchable(req[w].o) /\ TakeOrder(req[w].o, req[w].rider)
      BY <1>5 DEF AssignWrite
    <2> QED BY <1>2, <1>3, <2>1, <2>2
  <1>6. CASE AssignMatch(w) \/ RiderUpdateRead(w)
    <2>1. /\ TablesUnchanged
          /\ req[w].op \in {"assign", "riderUpdateStatus"}
          /\ Finish(w) \/ Goto(w, "write")
      BY <1>6 DEF AssignMatch, RiderUpdateRead, At, TablesUnchanged
    <2>2. CASE Goto(w, "write")
      <3>1. req'[w] = [req[w] EXCEPT !.pc = "write"]
        BY <2>2, Went DEF BooksAgree
      <3>2. req'[w].op = req[w].op /\ req'[w].pc = "write"
        BY <1>0, <3>1 DEF Request
      <3>3. ReadMoney(req'[w])
        BY <2>1, <3>2, Indifferent
      <3> QED BY <2>1, <3>3, OnlyRequests
    <2> QED BY <2>1, <2>2, MoneyEnds
  <1>7. CASE RiderUpdateWrite(w)
    <2>1. /\ Finish(w) /\ req[w].o \in Orders
          /\ RiderExpects(order[req[w].o], req[w].to)
      BY <1>7 DEF RiderUpdateWrite, At, Typed, ReadOrder
    <2>2. OrdersRow(req[w].o)
      BY <1>0, <1>7, <2>1 DEF RiderUpdateWrite, RiderExpects, OrdersRow, OrderRow
    <2>3. \A p \in Orders \ {req[w].o} : order'[p] = order[p]
      BY <1>0, <1>7, <2>1 DEF RiderUpdateWrite
    <2> QED BY <1>1, <2>1, <2>2, <2>3, OrderWriteMoney
  <1>8. CASE SetOnlineWrite(w) \/ ChangeStatusWrite(w)
    BY <1>3, <1>8 DEF SetOnlineWrite, ChangeStatusWrite
  <1> QED BY <1>4, <1>5, <1>6, <1>7, <1>8 DEF RidersStep

----------------------------------------------------------------------------
(* How a refund leaves its step: it hands a settled order back to cancel,   *)
(* or ends, or goes on.                                                     *)
LEMMA RefundReturns ==
    ASSUME BooksAgree, NEW w \in Workers, NEW result, ReturnRefund(w, result),
           MoneyRows', NEW o \in Orders, o = req[w].o, NothingOwed(o)'
    PROVE  MoneyHolds(w)
  <1>1. CASE req'[w] = Idle
    BY <1>1, IdleIsIndifferent DEF MoneyHolds
  <1>2. CASE /\ req'[w].op = "cancel" /\ req'[w].o = req[w].o
             /\ req'[w].pc = "write"
    BY <1>2 DEF MoneyHolds, ReadMoney, ReadPrepay, ReadCancel, ReadPayment,
                Closing, Refunding, RefundSteps
  <1> QED BY <1>1, <1>2, Returned DEF BooksAgree

LEMMA RefundGoesOn ==
    ASSUME BooksAgree, NEW w \in Workers, ReadCancel(req[w]), UNCHANGED order,
           MoneyRows', req[w].op \in {"cancel", "refund"},
           req[w].pc \in Refunding, req[w].o \in Orders,
           req'[w].op = req[w].op, req'[w].o = req[w].o,
           req'[w].pc \in RefundSteps,
           req'[w].pc = "refundMock" => isMockPaymentEnabled,
           req'[w].pc = "refundPersist" => Refunded(req[w].o)'
    PROVE  MoneyHolds(w)
  <1>1. ReadCancel(req[w])'
    BY DEF ReadCancel, Closing, Refunding, RefundSteps
  <1>2. ReadPayment(req[w])'
    BY DEF ReadPayment, isMockPaymentEnabled, Refunded
  <1>3. ReadPrepay(req[w])'
    BY DEF ReadPrepay
  <1> QED BY <1>1, <1>2, <1>3 DEF MoneyHolds, ReadMoney

(* What a step of a refund is about, and has learnt.                        *)
LEMMA RefundSubject ==
    ASSUME NEW w \in Workers, Typed(req[w]), Knows(req[w]),
           req[w].pc \in Refunding
    PROVE  /\ req[w].op \in {"cancel", "refund"} /\ req[w].o \in Orders
           /\ req[w].pc # "refundRead" => Booked(req[w].o)
  BY DEF Typed, Knows, SawBooking, Refunding

LEMMA OwedStays ==
    ASSUME NEW o \in Orders, UNCHANGED <<trade, wxRefund>>, NothingOwed(o),
           refund[o].no # None => refund'[o].no = refund[o].no
    PROVE  NothingOwed(o)'
  BY DEF NothingOwed, Refunded

LEMMA PersistMoney ==
    ASSUME BooksAgree, UNCHANGED wechat, NEW o \in Orders, NEW s \in RefundResult,
           Booked(o), Refunded(o), persistRefundResult(o, s)
    PROVE  MoneyRows' /\ NothingOwed(o)'
  <1>1. /\ payment'[o].out = payment[o].out
        /\ payment'[o].prepay = payment[o].prepay
        /\ payment'[o].amount = payment[o].amount
        /\ payment'[o].txn = payment[o].txn
        /\ payment'[o].status \in {"REFUNDED", "REFUNDING", "FAILED"}
        /\ \A p \in Orders \ {o} : payment'[p] = payment[p]
    BY DEF persistRefundResult, BooksAgree, TypeOK, PaymentRow, RefundResult
  <1>2. /\ refund'[o].no = refund[o].no
        /\ \A p \in Orders \ {o} : refund'[p] = refund[p]
    BY DEF persistRefundResult, BooksAgree, TypeOK, RefundRow
  <1>3. /\ order'[o].status = order[o].status /\ order'[o].fee = order[o].fee
        /\ order'[o].quote = order[o].quote
        /\ order'[o].cancelledBy = order[o].cancelledBy
        /\ order[o].status # "CANCELLED" => order'[o].pay = order[o].pay
        /\ \A p \in Orders \ {o} : order'[p] = order[p]
    BY DEF persistRefundResult, BooksAgree, TypeOK, OrderRow
  <1>4. ASSUME NEW p \in Orders PROVE PayRow(p) /\ RefundsRow(p) /\ OrdersRow(p)
    <2>1. RowInv(p) /\ MoneyInv(p)
      BY DEF BooksAgree, MoneyRows
    <2>2. CASE p = o
      BY <1>1, <1>2, <1>3, <2>1, <2>2
         DEF PayRow, RefundsRow, OrdersRow, MoneyInv
    <2>3. CASE p # o
      BY <1>1, <1>2, <1>3, <2>1, <2>3 DEF PayRow, RefundsRow, OrdersRow, RowInv
    <2> QED BY <2>2, <2>3
  <1>5. MoneyRows'
    BY <1>4, RowsKeepMoney
  <1> QED BY <1>2, <1>5, RefundedIsUnowed, OwedStays DEF wechat

----------------------------------------------------------------------------
LEMMA PrepayMoney ==
    ASSUME BooksAgree, NEW w \in Workers, Typed(req[w]), ReadMoney(req[w]),
           RequestWechatPrepay(w) \/ CreatePrepaySave(w)
    PROVE  MoneyHolds(w)
  <1>0. req[w] \in Request /\ ReadPrepay(req[w])
    BY DEF BooksAgree, TypeOK, ReadMoney
  <1>1. CASE CreatePrepaySave(w)
    BY <1>0, <1>1, PrepayIsSaved, EndIsIndifferent DEF CreatePrepaySave
  <1>2. CASE RequestWechatPrepay(w)
    <2>1. PICK r \in Request : r = req[w]
      BY <1>0
    <2>2. /\ r.op = "createPrepay" /\ r.o \in Orders /\ r.trade \in TradeNos
          /\ ~isMockPaymentEnabled /\ PriceAgreed(r.o)
          /\ order[r.o].status # "CANCELLED" /\ r.fee = order[r.o].fee
          /\ payment[r.o].status = "NONE" /\ trade[r.trade].state = "NONE"
      BY <1>0, <1>2, <2>1 DEF RequestWechatPrepay, At, Typed, ReadPrepay
    <2>3. /\ UNCHANGED <<order, payment, refund, wxRefund>>
          /\ trade' = [trade EXCEPT ![r.trade] =
                         [state |-> "CREATED", order |-> r.o, fee |-> r.fee]]
          /\ req'[w] = [r EXCEPT !.pc = "savePrepay", !.prepay = r.trade]
      BY <1>2, <2>1 DEF RequestWechatPrepay, orderTables, paymentTables,
         BooksAgree, TypeOK
    <2>4. MoneyRows'
      BY <2>2, <2>3, TradeOpens
    <2>5. /\ req'[w].op = "createPrepay" /\ req'[w].o = r.o
          /\ req'[w].fee = r.fee /\ req'[w].trade = r.trade
          /\ req'[w].prepay = r.trade /\ req'[w].pc = "savePrepay"
      BY <2>2, <2>3 DEF Request
    <2>6. trade'[r.trade].order = r.o /\ trade'[r.trade].state = "CREATED"
      BY <2>2, <2>3 DEF BooksAgree, TypeOK
    <2>7. ReadPrepay(req[w])'
      BY <2>2, <2>3, <2>5, <2>6
         DEF ReadPrepay, PriceAgreed, isMockPaymentEnabled
    <2>8. ReadCancel(req[w])' /\ ReadPayment(req[w])'
      BY <2>5 DEF ReadCancel, ReadPayment
    <2> QED BY <2>4, <2>7, <2>8 DEF MoneyHolds, ReadMoney
  <1> QED BY <1>1, <1>2

LEMMA BookingMoney ==
    ASSUME BooksAgree, NEW w \in Workers, Typed(req[w]), Knows(req[w]),
           ReadMoney(req[w]),
           ConfirmMockPaymentWrite(w) \/ HandleWechatNotificationWrite(w)
    PROVE  MoneyHolds(w)
  <1>1. /\ Finish(w) /\ req[w].o \in Orders /\ payment[req[w].o].status # "NONE"
        /\ UNCHANGED <<refund, trade, wxRefund>>
    BY DEF ConfirmMockPaymentWrite, HandleWechatNotificationWrite, At, Typed,
           Knows, SawPayment, wechat
  <1>2. CASE ConfirmMockPaymentWrite(w)
    <2>1. isMockPaymentEnabled /\ RecordPayment(req[w].o, "MOCK")
      BY <1>2 DEF ConfirmMockPaymentWrite, At, ReadMoney, ReadPayment
    <2> QED BY <1>1, <2>1, BookingKeepsMoney, EndIsIndifferent
  <1>3. CASE HandleWechatNotificationWrite(w)
    <2>1. /\ trade[payment[req[w].o].out].fee = payment[req[w].o].amount
          /\ RecordPayment(req[w].o, "WX")
      BY <1>3 DEF HandleWechatNotificationWrite, At, ReadMoney, ReadPayment
    <2> QED BY <1>1, <2>1, BookingKeepsMoney, EndIsIndifferent
  <1> QED BY <1>2, <1>3

(* closePendingPayment.                                                     *)
LEMMA ClosingMoney ==
    ASSUME BooksAgree, NEW w \in Workers, Typed(req[w]), Knows(req[w]),
           ReadOrder(req[w]), ReadMoney(req[w]),
           \/ ClosePendingPaymentRead(w) \/ CloseWechatTrade(w)
           \/ ClosePendingPaymentWrite(w)
    PROVE  MoneyHolds(w)
  <1> USE DEF orderTables, riderTables, paymentTables, wechat
  <1>1. PICK o \in Orders : o = req[w].o
    BY DEF ClosePendingPaymentRead, CloseWechatTrade, ClosePendingPaymentWrite,
           At, Typed
  <1>2. /\ req[w] \in Request /\ req[w].op = "cancel" /\ ~Booked(o)
        /\ order[o].status # "CANCELLED" /\ RowInv(o) /\ MoneyInv(o)
        /\ payment[o] \in PaymentRow
        /\ req[w].pc = "closeCall" => ~isMockPaymentEnabled
        /\ req[w].pc = "closeWrite" /\ ~isMockPaymentEnabled =>
             trade[payment[o].out].state = "CLOSED"
        /\ req[w].pc \in {"closeCall", "closeWrite"} =>
             payment[o].status # "NONE"
    BY <1>1 DEF ClosePendingPaymentRead, CloseWechatTrade,
       ClosePendingPaymentWrite, At, ReadMoney, ReadCancel, ReadOrder, Terminal,
       Closing, Knows, SawPayment, BooksAgree, MoneyRows, TypeOK
  <1>3. ASSUME NEW pc, Goto(w, pc)
        PROVE  req'[w].op = "cancel" /\ req'[w].o = o /\ req'[w].pc = pc
    <2>1. req'[w] = [req[w] EXCEPT !.pc = pc]
      BY <1>3, Went DEF BooksAgree
    <2> QED BY <1>1, <1>2, <2>1 DEF Request
  <1>4. CASE ClosePendingPaymentRead(w)
    <2>1. TablesUnchanged /\ Goto(w, CloseRoute(o))
      BY <1>1, <1>4 DEF ClosePendingPaymentRead, TablesUnchanged
    <2>2. payment[o].txn = "MOCK" => isMockPaymentEnabled
      BY <1>2 DEF RowInv
    <2>3. CASE payment[o].status # "PENDING"
      <3>1. CloseRoute(o) = "write" /\ NothingOwed(o)
        BY <1>2, <2>3, UnpaidIsUnowed DEF CloseRoute
      <3>2. req'[w].op = "cancel" /\ req'[w].o = o /\ req'[w].pc = "write"
        BY <1>3, <2>1, <3>1
      <3>3. ReadMoney(req'[w])
        BY <3>1, <3>2 DEF ReadMoney, ReadPrepay, ReadCancel, ReadPayment,
                          Closing, Refunding, RefundSteps
      <3> QED BY <2>1, <3>3, OnlyRequests
    <2>4. CASE payment[o].status = "PENDING"
      <3>1. CloseRoute(o) =
              IF isMockPaymentEnabled THEN "closeWrite" ELSE "closeCall"
        BY <2>2, <2>4 DEF CloseRoute
      <3>2. /\ req'[w].op = "cancel" /\ req'[w].o = o
            /\ req'[w].pc =
                 IF isMockPaymentEnabled THEN "closeWrite" ELSE "closeCall"
        BY <1>3, <2>1, <3>1
      <3>3. ReadMoney(req'[w])
        BY <1>2, <3>2 DEF ReadMoney, ReadPrepay, ReadCancel, ReadPayment,
                          Closing, Refunding, RefundSteps
      <3> QED BY <2>1, <3>3, OnlyRequests
    <2> QED BY <2>3, <2>4
  <1>5. CASE CloseWechatTrade(w)
    <2>1. PICK t \in TradeNos : t = payment[o].out
      BY <1>2, <1>5 DEF MoneyInv, CloseWechatTrade, At
    <2>2. CASE trade[t].state = "SUCCESS"
      <3>1. TablesUnchanged /\ Finish(w)
        BY <1>1, <1>5, <2>1, <2>2 DEF CloseWechatTrade, TablesUnchanged
      <3> QED BY <3>1, MoneyEnds
    <2>3. CASE trade[t].state # "SUCCESS"
      <3>1. /\ UNCHANGED <<order, payment, refund, wxRefund>>
            /\ trade' = [trade EXCEPT ![t] = [trade[t] EXCEPT !.state = "CLOSED"]]
            /\ Goto(w, "closeWrite")
        BY <1>1, <1>5, <2>1, <2>3 DEF CloseWechatTrade
      <3>2. trade \in [TradeNos -> Trade] /\ trade[t] \in Trade
        BY DEF BooksAgree, TypeOK
      <3>3. /\ trade'[t].state = "CLOSED" /\ trade'[t].order = trade[t].order
            /\ trade'[t].fee = trade[t].fee
            /\ \A u \in TradeNos \ {t} : trade'[u] = trade[u]
        BY <3>1, <3>2 DEF Trade
      <3>4. trade[t].state # "NONE"
        BY <1>2, <1>5, <2>1 DEF RowInv, CloseWechatTrade, At
      <3>5. \A u \in TradeNos : TradeGoesOn(u)
        BY <2>3, <3>3, <3>4 DEF TradeGoesOn
      <3>6. MoneyRows'
        BY <3>1, <3>5, TradesGoOn
      <3>7. /\ req'[w].op = "cancel" /\ req'[w].o = o
            /\ req'[w].pc = "closeWrite" /\ ~Booked(o)'
            /\ trade'[payment'[o].out].state = "CLOSED"
        BY <1>2, <1>3, <2>1, <3>1, <3>3 DEF Booked
      <3>8. ReadMoney(req[w])'
        BY <3>7 DEF ReadMoney, ReadPrepay, ReadCancel, ReadPayment, Closing,
                    Refunding, RefundSteps
      <3> QED BY <3>6, <3>8 DEF MoneyHolds
    <2> QED BY <2>2, <2>3
  <1>6. CASE ClosePendingPaymentWrite(w)
    <2>1. /\ UNCHANGED <<order, refund, trade, wxRefund>>
          /\ payment' = [payment EXCEPT ![o] =
                           [payment[o] EXCEPT !.status = "CLOSED"]]
          /\ Goto(w, "write") /\ req[w].pc = "closeWrite"
      BY <1>1, <1>6 DEF ClosePendingPaymentWrite, At
    <2>2. /\ payment'[o].out = payment[o].out
          /\ payment'[o].prepay = payment[o].prepay
          /\ payment'[o].amount = payment[o].amount
          /\ payment'[o].txn = payment[o].txn
          /\ payment'[o].status = "CLOSED"
          /\ \A p \in Orders \ {o} : payment'[p] = payment[p]
      BY <2>1 DEF BooksAgree, TypeOK, PaymentRow
    <2>3. isMockPaymentEnabled \/ trade[payment[o].out].state = "CLOSED"
      BY <1>2, <2>1
    <2>4. ASSUME NEW p \in Orders
          PROVE  PayRow(p) /\ RefundsRow(p) /\ OrdersRow(p)
      <3>1. RowInv(p)
        BY DEF BooksAgree, MoneyRows
      <3>2. RefundsRow(p) /\ OrdersRow(p)
        BY <2>1 DEF RefundsRow, OrdersRow
      <3>3. CASE p = o
        BY <1>2, <2>1, <2>2, <2>3, <3>2, <3>3 DEF PayRow
      <3>4. CASE p # o
        BY <2>2, <3>1, <3>2, <3>4 DEF PayRow, RowInv
      <3> QED BY <3>3, <3>4
    <2>5. MoneyRows'
      BY <2>1, <2>4, RowsKeepMoney
    <2>6. NothingOwed(o)'
      BY <1>2, <2>1, <2>3, UnpaidIsUnowed, OwedStays
    <2>7. req'[w].op = "cancel" /\ req'[w].o = o /\ req'[w].pc = "write"
      BY <1>3, <2>1
    <2>8. ReadMoney(req[w])'
      BY <2>6, <2>7 DEF ReadMoney, ReadPrepay, ReadCancel, ReadPayment, Closing,
                        Refunding, RefundSteps
    <2> QED BY <2>5, <2>8 DEF MoneyHolds
  <1> QED BY <1>4, <1>5, <1>6

(* refundForCancellation.                                                   *)
LEMMA RefundReadMoney ==
    ASSUME BooksAgree, NEW w \in Workers, Typed(req[w]), Knows(req[w]),
           ReadMoney(req[w]), RefundRead(w)
    PROVE  MoneyHolds(w)
  <1>1. PICK o \in Orders : o = req[w].o
    BY RefundSubject DEF RefundRead, Refunding
  <1>2. /\ TablesUnchanged /\ req[w].pc = "refundRead" /\ req[w] \in Request
        /\ req[w].op \in {"cancel", "refund"} /\ ReadCancel(req[w])
    BY RefundSubject DEF RefundRead, TablesUnchanged, Refunding, ReadMoney,
                         BooksAgree, TypeOK
  <1>3. UNCHANGED order /\ MoneyRows'
    <2>1. UNCHANGED <<order, payment, refund, trade, wxRefund>>
      BY <1>2 DEF TablesUnchanged, orderTables, paymentTables, wechat
    <2> QED BY <2>1, RefundsGoOn
  <1>4. CASE RefundRoute(o) = "done"
    <2>1. order[o].pay # "PAID"
      BY <1>4 DEF RefundRoute
    <2>2. req[w].op # "cancel"
      BY <1>1, <1>2, <2>1 DEF ReadCancel, Refunding
    <2>3. Finish(w)
      BY <1>1, <1>4, <2>2 DEF RefundRead, ReturnRefund, Finish
    <2> QED BY <1>2, <2>3, MoneyEnds
  <1>5. CASE RefundRoute(o) = "throw"
    <2>1. Finish(w)
      BY <1>1, <1>5 DEF RefundRead
    <2> QED BY <1>2, <2>1, MoneyEnds
  <1>6. CASE RefundRoute(o) \in {"refundMock", "refundLookup"}
    <2>1. Goto(w, RefundRoute(o))
      BY <1>1, <1>6 DEF RefundRead
    <2>2. req'[w] = [req[w] EXCEPT !.pc = RefundRoute(o)]
      BY <2>1, Went DEF BooksAgree
    <2>3. /\ req'[w].op = req[w].op /\ req'[w].o = req[w].o
          /\ req'[w].pc = RefundRoute(o)
      BY <1>2, <2>2 DEF Request
    <2>4. RefundRoute(o) = "refundMock" => isMockPaymentEnabled
      <3>1. RowInv(o)
        BY DEF BooksAgree, MoneyRows
      <3> QED BY <3>1 DEF RefundRoute, RowInv
    <2> QED BY <1>1, <1>2, <1>3, <1>6, <2>3, <2>4, RefundGoesOn
            DEF RefundSteps, Refunding
  <1> QED BY <1>4, <1>5, <1>6 DEF RefundRoute

LEMMA RefundMockMoney ==
    ASSUME BooksAgree, NEW w \in Workers, Typed(req[w]), Knows(req[w]),
           ReadMoney(req[w]), RefundMockPayment(w)
    PROVE  MoneyHolds(w)
  <1>1. PICK o \in Orders : o = req[w].o /\ Booked(o)
    BY RefundSubject DEF RefundMockPayment, Refunding, RefundSteps
  <1>2. /\ UNCHANGED <<order, refund, trade, wxRefund>>
        /\ payment' = [payment EXCEPT ![o] =
                         [payment[o] EXCEPT !.status = "REFUNDED"]]
        /\ ReturnRefund(w, "REFUNDED") /\ isMockPaymentEnabled
    BY <1>1 DEF RefundMockPayment, orderTables, wechat, ReadMoney, ReadPayment
  <1>3. /\ payment'[o].out = payment[o].out
        /\ payment'[o].prepay = payment[o].prepay
        /\ payment'[o].amount = payment[o].amount
        /\ payment'[o].txn = payment[o].txn
        /\ payment'[o].status = "REFUNDED"
        /\ \A p \in Orders \ {o} : payment'[p] = payment[p]
    BY <1>2 DEF BooksAgree, TypeOK, PaymentRow
  <1>4. ASSUME NEW p \in Orders PROVE PayRow(p) /\ RefundsRow(p) /\ OrdersRow(p)
    <2>1. RowInv(p) /\ MoneyInv(p)
      BY DEF BooksAgree, MoneyRows
    <2>2. RefundsRow(p) /\ OrdersRow(p)
      BY <1>2 DEF RefundsRow, OrdersRow
    <2>3. CASE p = o
      BY <1>1, <1>3, <2>1, <2>2, <2>3 DEF PayRow, MoneyInv
    <2>4. CASE p # o
      BY <1>3, <2>1, <2>2, <2>4 DEF PayRow, RowInv
    <2> QED BY <2>3, <2>4
  <1>5. MoneyRows'
    BY <1>2, <1>4, RowsKeepMoney DEF wechat
  <1>6. NothingOwed(o)'
    BY <1>1, <1>2, RefundedIsUnowed, OwedStays
  <1> QED BY <1>1, <1>2, <1>5, <1>6, RefundReturns

LEMMA RefundLookupMoney ==
    ASSUME BooksAgree, NEW w \in Workers, Typed(req[w]), Knows(req[w]),
           ReadMoney(req[w]), RefundLookup(w)
    PROVE  MoneyHolds(w)
  <1>1. PICK o \in Orders : o = req[w].o /\ Booked(o)
    BY RefundSubject DEF RefundLookup, Refunding, RefundSteps
  <1>2. /\ req[w].op \in {"cancel", "refund"} /\ ReadCancel(req[w])
        /\ req[w].pc = "refundLookup" /\ req[w] \in Request /\ RowInv(o)
        /\ UNCHANGED <<order, payment, refund, trade, wxRefund>>
    BY RefundSubject DEF RefundLookup, Refunding, RefundSteps, ReadMoney,
       BooksAgree, TypeOK, MoneyRows, orderTables, paymentTables, wechat
  <1>3. MoneyRows'
    BY <1>2, RefundsGoOn
  <1>4. CASE refund[o].status \in {"SUCCEEDED", "PROCESSING"}
    <2>1. \E result : ReturnRefund(w, result)
      BY <1>1, <1>4 DEF RefundLookup
    <2>2. Refunded(o)
      BY <1>2, <1>4 DEF RowInv
    <2>3. NothingOwed(o)'
      BY <1>1, <1>2, <2>2, RefundedIsUnowed, OwedStays
    <2> QED BY <1>1, <1>3, <2>1, <2>3, RefundReturns
  <1>5. CASE refund[o].status \notin {"SUCCEEDED", "PROCESSING"}
    <2>1. PICK n : req' = [req EXCEPT ![w] =
                             [req[w] EXCEPT !.pc = "refundUpsert", !.no = n]]
      BY <1>1, <1>5 DEF RefundLookup
    <2>2. /\ req'[w].op = req[w].op /\ req'[w].o = req[w].o
          /\ req'[w].pc = "refundUpsert"
      BY <1>2, <2>1 DEF BooksAgree, TypeOK, Request
    <2> QED BY <1>1, <1>2, <1>3, <2>2, RefundGoesOn DEF RefundSteps, Refunding
  <1> QED BY <1>4, <1>5

(* A step that writes the refund row alone.                                 *)
LEMMA RefundRowMoney ==
    ASSUME BooksAgree, NEW o \in Orders, UNCHANGED <<order, payment, wechat>>,
           \A p \in Orders \ {o} : refund'[p] = refund[p], RefundsRow(o)
    PROVE  MoneyRows'
  <1>1. ASSUME NEW p \in Orders PROVE PayRow(p) /\ RefundsRow(p) /\ OrdersRow(p)
    <2>1. RowInv(p)
      BY DEF BooksAgree, MoneyRows
    <2>2. PayRow(p) /\ OrdersRow(p)
      BY <2>1 DEF PayRow, OrdersRow, RowInv
    <2> QED BY <2>2 DEF RefundsRow
  <1> QED BY <1>1, RowsKeepMoney

LEMMA RefundUpsertMoney ==
    ASSUME BooksAgree, NEW w \in Workers, Typed(req[w]), Knows(req[w]),
           ReadMoney(req[w]), RefundUpsert(w)
    PROVE  MoneyHolds(w)
  <1>1. PICK o \in Orders : o = req[w].o
    BY RefundSubject DEF RefundUpsert, Refunding, RefundSteps
  <1>2. /\ req[w].op \in {"cancel", "refund"} /\ ReadCancel(req[w])
        /\ req[w].pc = "refundUpsert" /\ req[w] \in Request
        /\ UNCHANGED <<order, payment, wechat>>
    BY RefundSubject DEF RefundUpsert, Refunding, RefundSteps, ReadMoney,
       BooksAgree, TypeOK, orderTables
  <1>3. PICK no : /\ no = OutRefundNo(o, req[w].no)
                  /\ refund' = [refund EXCEPT ![o] =
                                  [status |-> "CREATED", no |-> no]]
                  /\ req' = [req EXCEPT ![w] =
                               [req[w] EXCEPT !.pc = "refundCall", !.no = no]]
    BY <1>1 DEF RefundUpsert
  <1>4. /\ refund'[o] = [status |-> "CREATED", no |-> no]
        /\ \A p \in Orders \ {o} : refund'[p] = refund[p]
    BY <1>3 DEF BooksAgree, TypeOK
  <1>5. RefundsRow(o)
    BY <1>3, <1>4 DEF RefundsRow, OutRefundNo
  <1>6. MoneyRows'
    BY <1>2, <1>4, <1>5, RefundRowMoney
  <1>7. /\ req'[w].op = req[w].op /\ req'[w].o = req[w].o
        /\ req'[w].pc = "refundCall"
    BY <1>2, <1>3 DEF BooksAgree, TypeOK, Request
  <1> QED BY <1>1, <1>2, <1>6, <1>7, RefundGoesOn DEF RefundSteps, Refunding

LEMMA RefundFailedMoney ==
    ASSUME BooksAgree, NEW w \in Workers, Typed(req[w]), Knows(req[w]),
           RefundFailed(w)
    PROVE  MoneyHolds(w)
  <1>1. PICK o \in Orders : o = req[w].o
    BY RefundSubject DEF RefundFailed, Refunding, RefundSteps
  <1>2. /\ UNCHANGED <<order, payment, wechat>> /\ Finish(w)
        /\ refund'[o].no = refund[o].no /\ refund'[o].status = "FAILED"
        /\ \A p \in Orders \ {o} : refund'[p] = refund[p]
    BY <1>1 DEF RefundFailed, BooksAgree, TypeOK, RefundRow, orderTables
  <1>3. RefundsRow(o)
    BY <1>2 DEF RefundsRow
  <1> QED BY <1>2, <1>3, RefundRowMoney, EndIsIndifferent

LEMMA RefundCallMoney ==
    ASSUME BooksAgree, NEW w \in Workers, Typed(req[w]), Knows(req[w]),
           ReadMoney(req[w]), RequestWechatRefund(w)
    PROVE  MoneyHolds(w)
  <1>1. PICK o \in Orders : o = req[w].o
    BY RefundSubject DEF RequestWechatRefund, Refunding, RefundSteps
  <1>2. /\ req[w].op \in {"cancel", "refund"} /\ ReadCancel(req[w])
        /\ req[w].pc = "refundCall" /\ req[w] \in Request
        /\ UNCHANGED <<order, payment, refund, trade>>
    BY RefundSubject DEF RequestWechatRefund, Refunding, RefundSteps, ReadMoney,
       BooksAgree, TypeOK, orderTables, paymentTables
  <1>3. PICK n \in RefundNos : n = refund[o].no /\ n # None /\ n = req[w].no
    BY <1>1, <1>2 DEF Knows, ChoseRefundNo, BooksAgree, TypeOK, RefundRow
  <1>4. /\ \A m \in RefundNos : wxRefund[m] # "NONE" => wxRefund'[m] # "NONE"
        /\ \/ /\ Goto(w, "refundFailed")
           \/ /\ wxRefund'[n] # "NONE"
              /\ \E to : req' = [req EXCEPT ![w] =
                           [req[w] EXCEPT !.pc = "refundPersist", !.to = to]]
    <2>1. CASE UNCHANGED wxRefund /\ Goto(w, "refundFailed")
      BY <2>1
    <2>2. CASE ~(UNCHANGED wxRefund /\ Goto(w, "refundFailed"))
      <3>1. PICK s \in IF wxRefund[n] = "NONE" THEN {"PROCESSING", "SUCCESS"}
                                               ELSE {wxRefund[n]} :
              /\ wxRefund' = [wxRefund EXCEPT ![n] = s]
              /\ \/ \E reported \in {s, "none"} :
                      req' = [req EXCEPT ![w] =
                                [req[w] EXCEPT !.pc = "refundPersist",
                                   !.to = mapWechatRefundStatus(reported)]]
                 \/ Goto(w, "refundFailed")
        BY <1>3, <2>2 DEF RequestWechatRefund
      <3>2. s # "NONE" /\ wxRefund'[n] = s
            /\ \A m \in RefundNos \ {n} : wxRefund'[m] = wxRefund[m]
        BY <3>1 DEF BooksAgree, TypeOK
      <3> QED BY <3>1, <3>2
    <2> QED BY <2>1, <2>2
  <1>5. MoneyRows'
    BY <1>2, <1>4, RefundsGoOn
  <1>6. CASE Goto(w, "refundFailed")
    <2>1. req'[w] = [req[w] EXCEPT !.pc = "refundFailed"]
      BY <1>6, Went DEF BooksAgree
    <2>2. /\ req'[w].op = req[w].op /\ req'[w].o = req[w].o
          /\ req'[w].pc = "refundFailed"
      BY <1>2, <2>1 DEF Request
    <2> QED BY <1>1, <1>2, <1>5, <2>2, RefundGoesOn DEF RefundSteps, Refunding
  <1>7. CASE ~Goto(w, "refundFailed")
    <2>1. PICK to : req' = [req EXCEPT ![w] =
                      [req[w] EXCEPT !.pc = "refundPersist", !.to = to]]
      BY <1>4, <1>7
    <2>2. /\ req'[w].op = req[w].op /\ req'[w].o = req[w].o
          /\ req'[w].pc = "refundPersist"
      BY <1>2, <2>1 DEF BooksAgree, TypeOK, Request
    <2>3. Refunded(o)'
      BY <1>2, <1>3, <1>4, <1>7 DEF Refunded
    <2>4. Refunded(req[w].o)'
      BY <1>1, <2>2, <2>3 DEF Refunded
    <2> QED BY <1>1, <1>2, <1>5, <2>2, <2>4, RefundGoesOn
            DEF RefundSteps, Refunding
  <1> QED BY <1>6, <1>7

LEMMA RefundPersistMoney ==
    ASSUME BooksAgree, NEW w \in Workers, Typed(req[w]), Knows(req[w]),
           ReadMoney(req[w]),
           RefundPersist(w) \/ HandleWechatRefundNotificationWrite(w)
    PROVE  MoneyHolds(w)
  <1>1. PICK o \in Orders : /\ o = req[w].o /\ Booked(o)
                            /\ req[w].to \in RefundResult /\ Refunded(o)
    BY RefundSubject DEF RefundPersist, HandleWechatRefundNotificationWrite, At,
       Typed, Knows, SawBooking, Refunding, RefundSteps, ReadMoney, ReadPayment
  <1>2. persistRefundResult(o, req[w].to) /\ UNCHANGED wechat
    BY <1>1 DEF RefundPersist, HandleWechatRefundNotificationWrite
  <1>3. MoneyRows' /\ NothingOwed(o)'
    BY <1>1, <1>2, PersistMoney
  <1>4. Finish(w) \/ \E result : ReturnRefund(w, result)
    BY <1>1 DEF RefundPersist, HandleWechatRefundNotificationWrite, RefundResult
  <1> QED BY <1>1, <1>3, <1>4, EndIsIndifferent, RefundReturns

LEMMA PaymentsStepMoney ==
    ASSUME BooksAgree, NEW w \in Workers, Typed(req[w]), Knows(req[w]),
           ReadOrder(req[w]), ReadMoney(req[w]), PaymentsStep(w)
    PROVE  MoneyHolds(w)
  BY PrepayMoney, BookingMoney, ClosingMoney, RefundReadMoney, RefundMockMoney,
     RefundLookupMoney, RefundUpsertMoney, RefundCallMoney, RefundFailedMoney,
     RefundPersistMoney DEF PaymentsStep

----------------------------------------------------------------------------
LEMMA SerialMoneyInit ==
    ASSUME StoreAssumption, Init
    PROVE  SerialMoney
  <1>1. PICK fee \in Fees : order = [o \in Orders |-> NewOrder(o, fee)]
    BY DEF Init
  <1>2. \A o \in Orders : order[o].status = "PENDING"
    BY <1>1 DEF NewOrder
  <1>3. \A o \in Orders : RowInv(o)
    BY <1>2 DEF Init, RowInv, Booked
  <1>4. \A t \in TradeNos : TradeInv(t)
    BY DEF Init, TradeInv
  <1>5. PaidPriceIsOrderPrice /\ CustomerCancelIsSettled
    BY <1>2 DEF Init, PaidPriceIsOrderPrice, CustomerCancelIsSettled
  <1>6. \A w \in Workers : ReadMoney(req[w])
    BY Indifferent DEF Init, Idle
  <1> QED BY <1>3, <1>4, <1>5, <1>6 DEF SerialMoney, MoneyRows

(* WeChat moves, or nothing does: what requests know is still so.           *)
LEMMA KnownStays ==
    ASSUME BooksAgree, UNCHANGED <<order, payment, refund, req>>,
           \A t \in TradeNos : TradeGoesOn(t),
           \A n \in RefundNos : wxRefund[n] # "NONE" => wxRefund'[n] # "NONE",
           NEW w \in Workers, Typed(req[w]), Knows(req[w]), ReadMoney(req[w])
    PROVE  ReadMoney(req[w])'
  <1>1. \A o \in Orders : Refunded(o) => Refunded(o)'
    BY DEF Refunded, BooksAgree, TypeOK, RefundRow
  <1>2. \A o \in Orders : NothingOwed(o) => NothingOwed(o)'
    BY <1>1 DEF NothingOwed, TradeGoesOn
  <1>3. ASSUME NEW o \in Orders, payment[o].status # "NONE"
        PROVE  payment[o].out \in TradeNos
    BY <1>3 DEF BooksAgree, MoneyInv
  <1>4. ReadPrepay(req[w])'
    <2> SUFFICES ASSUME req[w].op = "createPrepay" PROVE ReadPrepay(req[w])'
      BY DEF ReadPrepay
    <2>1. req[w].trade \in TradeNos /\ req[w].o \in Orders
      BY DEF Typed
    <2>2. /\ trade'[req[w].trade].order = trade[req[w].trade].order
          /\ trade[req[w].trade].state # "NONE" =>
               trade'[req[w].trade].state # "NONE"
      BY <2>1 DEF TradeGoesOn
    <2> QED BY <2>1, <2>2
            DEF ReadMoney, ReadPrepay, PriceAgreed, isMockPaymentEnabled
  <1>5. ReadCancel(req[w])'
    <2> SUFFICES ASSUME req[w].op = "cancel" PROVE ReadCancel(req[w])'
      BY DEF ReadCancel
    <2>1. req[w].o \in Orders
      BY DEF Typed
    <2>2. req[w].pc = "closeWrite" => payment[req[w].o].out \in TradeNos
      BY <1>3, <2>1 DEF Knows, SawPayment
    <2>3. req[w].pc = "closeWrite" /\ ~isMockPaymentEnabled =>
            trade'[payment[req[w].o].out].state = "CLOSED"
      BY <2>2 DEF ReadMoney, ReadCancel, TradeGoesOn
    <2>4. Booked(req[w].o)' <=> Booked(req[w].o)
      BY DEF Booked
    <2>5. req[w].pc = "write" => NothingOwed(req[w].o)'
      <3>1. PICK o \in Orders : o = req[w].o
        BY <2>1
      <3>2. req[w].pc = "write" => NothingOwed(o)'
        BY <1>2, <3>1 DEF ReadMoney, ReadCancel
      <3> QED BY <3>1, <3>2 DEF NothingOwed, Refunded
    <2> QED BY <2>3, <2>4, <2>5 DEF ReadMoney, ReadCancel, isMockPaymentEnabled
  <1>6. ReadPayment(req[w])'
    <2>1. req[w].op = "handleWechatNotification" =>
            trade'[payment[req[w].o].out].fee = payment[req[w].o].amount
      <3>1. req[w].op = "handleWechatNotification" =>
              payment[req[w].o].out \in TradeNos
        BY <1>3 DEF Typed, Knows, SawPayment
      <3> QED BY <3>1 DEF ReadMoney, ReadPayment, TradeGoesOn
    <2>2. req[w].op = "handleWechatRefundNotification"
            \/ req[w].pc = "refundPersist" => Refunded(req[w].o)'
      <3>1. CASE \/ req[w].op = "handleWechatRefundNotification"
                 \/ req[w].pc = "refundPersist"
        <4>1. PICK o \in Orders : o = req[w].o
          BY <3>1 DEF Typed, RefundSteps
        <4>2. Refunded(o)'
          BY <1>1, <3>1, <4>1 DEF ReadMoney, ReadPayment
        <4> QED BY <4>1, <4>2 DEF Refunded
      <3> QED BY <3>1
    <2> QED BY <2>1, <2>2 DEF ReadMoney, ReadPayment, isMockPaymentEnabled
  <1> QED BY <1>4, <1>5, <1>6 DEF ReadMoney

LEMMA WorldMoney ==
    ASSUME BooksAgree, WechatMoves \/ UNCHANGED vars,
           \A w \in Workers : Typed(req[w]) /\ Knows(req[w]) /\ ReadMoney(req[w])
    PROVE  SerialMoney'
  <1> USE DEF orderTables, paymentTables, wechat
  <1>1. CASE \E t \in TradeNos : CustomerPays(t)
    <2>1. PICK t \in TradeNos : CustomerPays(t)
      BY <1>1
    <2>2. UNCHANGED <<order, payment, refund, wxRefund, req>>
      BY <2>1 DEF CustomerPays
    <2>3. /\ trade[t].state = "ISSUED" /\ trade'[t].state = "SUCCESS"
          /\ trade'[t].order = trade[t].order /\ trade'[t].fee = trade[t].fee
          /\ \A u \in TradeNos \ {t} : trade'[u] = trade[u]
      BY <2>1 DEF CustomerPays, BooksAgree, TypeOK, Trade
    <2>4. \A u \in TradeNos : TradeGoesOn(u)
      BY <2>3 DEF TradeGoesOn
    <2> QED BY <2>2, <2>4, TradesGoOn, KnownStays DEF SerialMoney
  <1>2. CASE (\E n \in RefundNos : WechatSettlesRefund(n)) \/ UNCHANGED vars
    <2>1. UNCHANGED <<order, payment, refund, trade, req>>
      BY <1>2 DEF WechatSettlesRefund, vars
    <2>2. \A n \in RefundNos : wxRefund[n] # "NONE" => wxRefund'[n] # "NONE"
      BY <1>2 DEF WechatSettlesRefund, vars, BooksAgree, TypeOK
    <2>3. \A t \in TradeNos : TradeGoesOn(t)
      BY <2>1 DEF TradeGoesOn
    <2> QED BY <2>1, <2>2, <2>3, RefundsGoOn, KnownStays DEF SerialMoney
  <1> QED BY <1>1, <1>2 DEF WechatMoves

LEMMA WorkerMoney ==
    ASSUME BooksAgree, NEW w \in Workers, Typed(req[w]), Knows(req[w]),
           ReadOrder(req[w]), ReadMoney(req[w]),
           Arrives(w) \/ Handles(w) \/ Crash(w)
    PROVE  MoneyHolds(w)
  <1>1. CASE Arrives(w)
    BY <1>1, OrdersBeginMoney, PaymentsBeginMoney, RidersBeginMoney DEF Arrives
  <1>2. CASE Handles(w)
    BY <1>2, OrdersStepMoney, PaymentsStepMoney, RidersStepMoney DEF Handles
  <1>3. CASE Crash(w)
    BY <1>3, MoneyEnds DEF Crash, TablesUnchanged
  <1> QED BY <1>1, <1>2, <1>3

LEMMA SerialMoneyStep ==
    ASSUME OneWorker, StoreAssumption, IInv, SerialOrders, SerialMoney,
           [Next]_vars
    PROVE  SerialMoney'
  <1>1. /\ BooksAgree
        /\ \A w \in Workers : /\ Typed(req[w]) /\ Knows(req[w])
                              /\ ReadOrder(req[w]) /\ ReadMoney(req[w])
    BY DEF BooksAgree, IInv, TablesInv, SerialOrders, SerialMoney
  <1>2. CASE \E w \in Workers : Arrives(w) \/ Handles(w) \/ Crash(w)
    <2>1. PICK w \in Workers : Arrives(w) \/ Handles(w) \/ Crash(w)
      BY <1>2
    <2>2. MoneyHolds(w)
      BY <1>1, <2>1, WorkerMoney
    <2>3. \A v \in Workers : ReadMoney(req[v])'
      BY <2>2 DEF MoneyHolds, OneWorker
    <2> QED BY <2>2, <2>3 DEF MoneyHolds, SerialMoney
  <1>3. CASE WechatMoves \/ UNCHANGED vars
    BY <1>1, <1>3, WorldMoney
  <1> QED BY <1>2, <1>3 DEF Next

(* With one handler at a time, a prepay in flight is for the agreed price   *)
(* of its order, a cancellation has settled what it says it has, and the    *)
(* payment and refund rows agree with WeChat's trades and refunds.          *)
THEOREM SerialMoneyHolds ==
    ASSUME OneWorker
    PROVE  Spec => []SerialMoney
  <1>1. Init => SerialMoney
    BY StoreAssumption, SerialMoneyInit
  <1>2. IInv /\ SerialOrders /\ SerialMoney /\ [Next]_vars => SerialMoney'
    BY OneWorker, StoreAssumption, SerialMoneyStep
  <1> QED BY <1>1, <1>2, Invariance, SerialReadsHold, PTL DEF Spec

(* Whatever was quoted, requoted, retried or crashed in between, what the   *)
(* customer has paid is the price on the order.                             *)
THEOREM PaidWhatWasAgreed ==
    ASSUME OneWorker
    PROVE  Spec => []PaidPriceIsOrderPrice
  <1>1. SerialMoney => PaidPriceIsOrderPrice
    BY DEF SerialMoney, MoneyRows
  <1> QED BY <1>1, SerialMoneyHolds, PTL

(* cancel leaves nothing owed: every trade of the order is closed or never  *)
(* was issued, or its capture has a refund at WeChat.                       *)
THEOREM CancelledIsSettled ==
    ASSUME OneWorker
    PROVE  Spec => []CustomerCancelIsSettled
  <1>1. SerialMoney => CustomerCancelIsSettled
    BY DEF SerialMoney, MoneyRows
  <1> QED BY <1>1, SerialMoneyHolds, PTL
=============================================================================
