------------------------------- MODULE Store -------------------------------
(***************************************************************************)
(* The state every service of server/api shares: the MySQL rows (through   *)
(* Prisma), what WeChat Pay knows, and the HTTP requests in flight.        *)
(*                                                                         *)
(* A handler is an async function.  Between two awaits it runs alone; at   *)
(* an await any other request may run.  A request in flight is therefore a *)
(* record: the handler it executes, the step it will execute next, and     *)
(* what it has read from the database so far (its stale snapshot).  The    *)
(* number of Workers bounds how many handlers are in flight at once: with  *)
(* one worker handlers are serial, with two or more they interleave.       *)
(***************************************************************************)
EXTENDS Naturals, Sequences, FiniteSets

CONSTANTS
    Orders,         \* orders that have been placed
    ManualOrders,   \* those of them priced by a merchant quote (isManualQuote)
    Riders,         \* approved rider profiles
    Keys,           \* Idempotency-Key values a rider's client sends
    Workers,        \* slots for requests in flight
    Traffic,        \* the handlers that clients, operator and WeChat call
    TradeNos,       \* out_trade_no values createOutTradeNo may draw
    RefundNos,      \* out_refund_no values createRefundNo may draw
    Fees,           \* order totals, in fen
    PaymentMode,    \* WECHAT_PAY_MODE: "wechat" or "mock"
    RiderMax,       \* RiderProfile.maxActiveOrders
    PlatformMax,    \* PlatformSetting.riderMaxActiveOrders
    None            \* SQL NULL

VARIABLES
    order,          \* [Orders -> row of table orders]
    assignments,    \* [Orders -> rows of order_assignments, as riders]
    rider,          \* [Riders -> row of rider_profiles]
    idempotency,    \* [Riders \X Keys -> order recorded in rider_idempotency]
    payment,        \* [Orders -> row of payment_records]
    refund,         \* [Orders -> row of refund_records]
    trade,          \* [TradeNos -> trade at WeChat Pay]
    wxRefund,       \* [RefundNos -> refund at WeChat Pay]
    req             \* [Workers -> request in flight]

orderTables   == <<order, assignments>>
riderTables   == <<rider, idempotency>>
paymentTables == <<payment, refund>>
wechat        == <<trade, wxRefund>>
vars == <<order, assignments, rider, idempotency, payment, refund,
          trade, wxRefund, req>>

----------------------------------------------------------------------------
(* The enums of schema.prisma that the code reads or writes.  CREATED of    *)
(* PaymentRecordStatus is never written: "NONE" stands for an absent row.   *)

Progress      == {"ACCEPTED", "PICKING_UP", "DELIVERING", "COMPLETED"}
ACTIVE_STATUSES == {"PICKING_UP", "DELIVERING"}
Terminal      == {"COMPLETED", "CANCELLED"}
OrderStatus   == {"PENDING", "CANCELLED"} \cup Progress
PaymentStatus == {"UNPAID", "PAID", "REFUNDED", "CLOSED", "REFUNDING"}
QuoteStatus   == {"NONE", "PENDING", "QUOTED", "ACCEPTED", "REJECTED"}
PaymentRecordStatus ==
    {"NONE", "PENDING", "SUCCEEDED", "FAILED", "CLOSED", "REFUNDING",
     "REFUNDED"}
RefundRecordStatus == {"NONE", "CREATED", "PROCESSING", "SUCCEEDED", "FAILED"}
TradeState    == {"NONE", "CREATED", "ISSUED", "SUCCESS", "CLOSED"}
WxRefundState == {"NONE", "PROCESSING", "SUCCESS", "ABNORMAL"}

Handler == {"none", "updateStatus", "cancel", "hide", "quote",
            "respondToQuote", "createPrepay", "confirmMockPayment",
            "handleWechatNotification", "handleWechatRefundNotification",
            "refund", "claim", "assign", "riderUpdateStatus", "setOnline",
            "changeStatus"}

Step == {"idle", "write", "requestPrepay", "savePrepay", "closeRead",
         "closeCall", "closeWrite", "refundRead", "refundMock", "refundLookup",
         "refundUpsert", "refundCall", "refundFailed", "refundPersist",
         "claimTx", "assignTx", "ownedOrder"}

(* One field serves every handler's result so far: the status it will write. *)
Outcome == {"none", "ARRIVED", "ONLINE", "OFFLINE", "ACTIVE", "SUSPENDED",
            "RESIGNED"}
             \cup OrderStatus \cup PaymentStatus \cup QuoteStatus
             \cup RefundRecordStatus

OrderRow == [status : OrderStatus, pay : PaymentStatus, quote : QuoteStatus,
             fee : Fees \cup {0}, rider : Riders \cup {None},
             arrived : BOOLEAN, hidden : BOOLEAN,
             cancelledBy : {"none", "customer", "operator"}]
RiderRow == [role : {"ACTIVE", "SUSPENDED", "RESIGNED"}, online : BOOLEAN]
PaymentRow == [status : PaymentRecordStatus, out : TradeNos \cup {None},
               prepay : TradeNos \cup {None}, amount : Fees \cup {0},
               txn : {"none", "MOCK", "WX"}]
RefundRow == [status : RefundRecordStatus, no : RefundNos \cup {None}]
Trade     == [state : TradeState, order : Orders \cup {None},
              fee : Fees \cup {0}]
Request   == [op : Handler, pc : Step, o : Orders \cup {None}, to : Outcome,
              fee : Fees \cup {0}, trade : TradeNos \cup {None},
              prepay : TradeNos \cup {None}, no : RefundNos \cup {None},
              rider : Riders \cup {None}, key : Keys \cup {None}]

ASSUME StoreAssumption ==
    /\ ManualOrders \subseteq Orders
    /\ Fees \subseteq Nat \ {0}
    /\ Fees # {}
    /\ PaymentMode \in {"wechat", "mock"}
    /\ RiderMax \in Nat /\ PlatformMax \in Nat
    /\ Traffic \subseteq Handler \ {"none"}
    /\ None \notin Orders \cup Riders \cup Keys \cup TradeNos \cup RefundNos

(* Every row holds values its columns can hold, and every request in flight *)
(* is one that a handler can have made.                                     *)
TypeOK ==
    /\ order \in [Orders -> OrderRow]
    /\ assignments \in [Orders -> Seq(Riders)]
    /\ rider \in [Riders -> RiderRow]
    /\ idempotency \in [Riders \X Keys -> Orders \cup {None}]
    /\ payment \in [Orders -> PaymentRow]
    /\ refund \in [Orders -> RefundRow]
    /\ trade \in [TradeNos -> Trade]
    /\ wxRefund \in [RefundNos -> WxRefundState]
    /\ req \in [Workers -> Request]

----------------------------------------------------------------------------
Idle == [op |-> "none", pc |-> "idle", o |-> None, to |-> "none", fee |-> 0,
         trade |-> None, prepay |-> None, no |-> None, rider |-> None,
         key |-> None]

(* Every order as create and createFromQuote leave it.  A manual order has  *)
(* no price until the merchant quotes one.                                  *)
NewOrder(o, fee) ==
    [status |-> "PENDING", pay |-> "UNPAID",
     quote |-> IF o \in ManualOrders THEN "PENDING" ELSE "NONE",
     fee |-> IF o \in ManualOrders THEN 0 ELSE fee,
     rider |-> None, arrived |-> FALSE, hidden |-> FALSE,
     cancelledBy |-> "none"]

Init ==
    /\ \E fee \in Fees : order = [o \in Orders |-> NewOrder(o, fee)]
    /\ assignments = [o \in Orders |-> <<>>]
    /\ rider \in [Riders -> [role : {"ACTIVE"}, online : BOOLEAN]]
    /\ idempotency = [rk \in Riders \X Keys |-> None]
    /\ payment = [o \in Orders |-> [status |-> "NONE", out |-> None,
                                    prepay |-> None, amount |-> 0,
                                    txn |-> "none"]]
    /\ refund = [o \in Orders |-> [status |-> "NONE", no |-> None]]
    /\ trade = [t \in TradeNos |->
                  [state |-> "NONE", order |-> None, fee |-> 0]]
    /\ wxRefund = [n \in RefundNos |-> "NONE"]
    /\ req = [w \in Workers |-> Idle]

----------------------------------------------------------------------------
(* The life of a request.  A handler that throws, or returns early without  *)
(* a write, changes no row; only the steps that go on are actions.          *)

At(w, op, pc) == req[w].op = op /\ req[w].pc = pc
Free(w)       == req[w].pc = "idle"
Begin(w, r)   == Free(w) /\ r.op \in Traffic /\ req' = [req EXCEPT ![w] = r]
Goto(w, pc)   == req' = [req EXCEPT ![w] = [@ EXCEPT !.pc = pc]]
Finish(w)     == req' = [req EXCEPT ![w] = Idle]

(* The process dies, the client or WeChat times out, or an awaited call     *)
(* throws: the rest of the handler never runs.  Its committed writes stay.  *)
Crash(w) ==
    /\ ~Free(w)
    /\ Finish(w)
    /\ UNCHANGED <<orderTables, riderTables, paymentTables, wechat>>

(* The number of orders a rider carries (order.count over ACTIVE_STATUSES). *)
ActiveOrders(r) == {o \in Orders : order[o].rider = r
                                     /\ order[o].status \in ACTIVE_STATUSES}
============================================================================
