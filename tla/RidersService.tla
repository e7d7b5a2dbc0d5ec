--------------------------- MODULE RidersService ---------------------------
(***************************************************************************)
(* riders.service.ts: how an accepted order gets its rider and how the     *)
(* rider carries it out, and the rider's own availability.                 *)
(***************************************************************************)
EXTENDS Store

CONSTANT Serves     \* [Riders -> SUBSET Orders]: vehicle and qualification fit

----------------------------------------------------------------------------
(* Slips a change of this file could make, one per guard or write that a    *)
(* property depends on: each in turn replaces its original to show that the *)
(* checks notice.  No action uses them.                                     *)

(* assertMatches does not count the orders the rider has.                   *)
FitsWhateverTheLoad(r, o) == o \in Serves[r]

(* The conditional update becomes an update by id.                          *)
DispatchableById(o) == order[o].pay = "PAID"

(* The update sets the rider but not the status.                            *)
TakeWithoutStatus(o, r) ==
    /\ order' = [order EXCEPT ![o] = [@ EXCEPT !.rider = r]]
    /\ assignments' = [assignments EXCEPT ![o] = Append(@, r)]

(* setOnline does not ask for the role.                                     *)
MayGoOnlineIfFree(r) == ActiveOrders(r) = {}

(* changeStatus looks at the shift, not at the orders.                      *)
MayLeaveOffline(r) == ~rider[r].online
----------------------------------------------------------------------------

(* The lower of the rider's own limit and the platform's, if it has one.   *)
MaxActiveOrders ==
    IF PlatformMax = 0 \/ RiderMax <= PlatformMax THEN RiderMax
                                                  ELSE PlatformMax

(* assertAvailableRider / assertActiveRole *)
ActiveRole(r) == rider[r].role = "ACTIVE"
Available(r)  == ActiveRole(r) /\ rider[r].online

(* assertMatches: the order is open to riders, and it fits this one.       *)
Fits(r, o) ==
    /\ o \in Serves[r]
    /\ Cardinality(ActiveOrders(r)) < RiderMax

Matches(r, o) ==
    /\ order[o].status = "ACCEPTED"
    /\ order[o].pay = "PAID"
    /\ order[o].rider = None
    /\ o \in ManualOrders => order[o].quote = "ACCEPTED"
    /\ Fits(r, o)

(* The conditional update both paths end in, with the assignment row.       *)
Dispatchable(o) ==
    /\ order[o].status = "ACCEPTED"
    /\ order[o].pay = "PAID"
    /\ order[o].rider = None

TakeOrder(o, r) ==
    /\ order' = [order EXCEPT ![o] =
         [@ EXCEPT !.rider = r, !.status = "PICKING_UP"]]
    /\ assignments' = [assignments EXCEPT ![o] = Append(@, r)]

----------------------------------------------------------------------------
(* A rider claims an order from the hall.  The rider row is read before the *)
(* transaction; the transaction is SERIALIZABLE, so it is one step: its     *)
(* count, its order row and its update see the same database.  A key        *)
(* already recorded answers with the stored result and changes nothing.     *)
ClaimRead(w, r, o, k) ==
    /\ Available(r)
    /\ Begin(w, [Idle EXCEPT !.op = "claim", !.pc = "claimTx",
                             !.o = o, !.rider = r, !.key = k])
    /\ UNCHANGED <<orderTables, riderTables, paymentTables, wechat>>

ClaimTx(w) ==
    /\ At(w, "claim", "claimTx")
    /\ LET r == req[w].rider  o == req[w].o  k == req[w].key IN
       IF /\ idempotency[<<r, k>>] = None
          /\ Cardinality(ActiveOrders(r)) < MaxActiveOrders
          /\ Matches(r, o)
          /\ Dispatchable(o)
       THEN /\ TakeOrder(o, r)
            /\ idempotency' = [idempotency EXCEPT ![<<r, k>>] = o]
       ELSE UNCHANGED <<orderTables, idempotency>>
    /\ Finish(w)
    /\ UNCHANGED <<rider, paymentTables, wechat>>

(* The operator assigns an order.  This transaction has the default         *)
(* isolation, so others commit between its reads and its update.            *)
AssignRead(w, r, o) ==
    /\ Available(r)
    /\ Begin(w, [Idle EXCEPT !.op = "assign", !.pc = "assignTx",
                             !.o = o, !.rider = r])
    /\ UNCHANGED <<orderTables, riderTables, paymentTables, wechat>>

AssignMatch(w) ==
    /\ At(w, "assign", "assignTx")
    /\ IF Matches(req[w].rider, req[w].o) THEN Goto(w, "write") ELSE Finish(w)
    /\ UNCHANGED <<orderTables, riderTables, paymentTables, wechat>>

AssignWrite(w) ==
    /\ At(w, "assign", "write")
    /\ IF Dispatchable(req[w].o) THEN TakeOrder(req[w].o, req[w].rider)
                                 ELSE UNCHANGED orderTables
    /\ Finish(w)
    /\ UNCHANGED <<riderTables, paymentTables, wechat>>

----------------------------------------------------------------------------
(* The rider reports progress on an own order: first the role is checked,   *)
(* then the order is read, then it is written by id.                        *)
RiderUpdateBegin(w, r, o, status) ==
    /\ ActiveRole(r)
    /\ Begin(w, [Idle EXCEPT !.op = "riderUpdateStatus", !.pc = "ownedOrder",
                             !.o = o, !.rider = r, !.to = status])
    /\ UNCHANGED <<orderTables, riderTables, paymentTables, wechat>>

RiderExpects(row, status) ==
    \/ status = "ARRIVED"    /\ row.status = "PICKING_UP"
    \/ status = "DELIVERING" /\ row.status = "PICKING_UP" /\ row.arrived
    \/ status = "COMPLETED"  /\ row.status = "DELIVERING"

RiderUpdateRead(w) ==
    /\ At(w, "riderUpdateStatus", "ownedOrder")
    /\ IF /\ order[req[w].o].rider = req[w].rider
          /\ RiderExpects(order[req[w].o], req[w].to)
       THEN Goto(w, "write") ELSE Finish(w)
    /\ UNCHANGED <<orderTables, riderTables, paymentTables, wechat>>

RiderUpdateWrite(w) ==
    /\ At(w, "riderUpdateStatus", "write")
    /\ order' = [order EXCEPT ![req[w].o] =
         IF req[w].to = "ARRIVED" THEN [@ EXCEPT !.arrived = TRUE]
                                  ELSE [@ EXCEPT !.status = req[w].to]]
    /\ Finish(w)
    /\ UNCHANGED <<assignments, riderTables, paymentTables, wechat>>

----------------------------------------------------------------------------
(* The rider's shift, and the operator's suspend / restore / resign, whose  *)
(* count of active orders is taken before the transaction that writes.      *)
MayGoOnline(r) == ActiveRole(r)

SetOnlineRead(w, r, online) ==
    /\ online = "ONLINE" => MayGoOnline(r)
    /\ Begin(w, [Idle EXCEPT !.op = "setOnline", !.pc = "write",
                             !.rider = r, !.to = online])
    /\ UNCHANGED <<orderTables, riderTables, paymentTables, wechat>>

SetOnlineWrite(w) ==
    /\ At(w, "setOnline", "write")
    /\ rider' = [rider EXCEPT ![req[w].rider] =
         [@ EXCEPT !.online = (req[w].to = "ONLINE")]]
    /\ Finish(w)
    /\ UNCHANGED <<orderTables, idempotency, paymentTables, wechat>>

MayLeave(r) == ActiveOrders(r) = {}

ChangeStatusRead(w, r, role) ==
    /\ role # "ACTIVE" => MayLeave(r)
    /\ Begin(w, [Idle EXCEPT !.op = "changeStatus", !.pc = "write",
                             !.rider = r, !.to = role])
    /\ UNCHANGED <<orderTables, riderTables, paymentTables, wechat>>

ChangeStatusWrite(w) ==
    /\ At(w, "changeStatus", "write")
    /\ rider' = [rider EXCEPT ![req[w].rider] =
                   [role |-> req[w].to, online |-> FALSE]]
    /\ Finish(w)
    /\ UNCHANGED <<orderTables, idempotency, paymentTables, wechat>>

----------------------------------------------------------------------------
RidersStep(w) ==
    \/ ClaimTx(w) \/ AssignMatch(w) \/ AssignWrite(w)
    \/ RiderUpdateRead(w) \/ RiderUpdateWrite(w)
    \/ SetOnlineWrite(w) \/ ChangeStatusWrite(w)

RidersBegin(w, r) ==
    \/ \E o \in Orders :
         \/ \E k \in Keys : ClaimRead(w, r, o, k)
         \/ AssignRead(w, r, o)
         \/ \E status \in {"ARRIVED", "DELIVERING", "COMPLETED"} :
              RiderUpdateBegin(w, r, o, status)
    \/ \E online \in {"ONLINE", "OFFLINE"} : SetOnlineRead(w, r, online)
    \/ \E role \in {"ACTIVE", "SUSPENDED", "RESIGNED"} :
         ChangeStatusRead(w, r, role)
============================================================================
