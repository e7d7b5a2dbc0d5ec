-------------------------- MODULE DeliveryContract --------------------------
(***************************************************************************)
(* What the platform promises about an order, whatever its handlers are    *)
(* doing: the order is paid before anyone carries it, one rider takes it   *)
(* and keeps it, and its money goes back at most once and only after it    *)
(* came in.                                                                *)
(***************************************************************************)
CONSTANTS Orders, Riders, None

VARIABLES
    captured,   \* orders whose payment has been recorded
    courier,    \* [Orders -> rider who took the order, or None]
    refunded    \* orders for which WeChat Pay holds a refund

cvars == <<captured, courier, refunded>>

Init ==
    /\ captured = {}
    /\ courier = [o \in Orders |-> None]
    /\ refunded = {}

Capture(o) ==
    /\ captured' = captured \cup {o}
    /\ UNCHANGED <<courier, refunded>>

Dispatch(o, r) ==
    /\ o \in captured
    /\ courier[o] = None
    /\ courier' = [courier EXCEPT ![o] = r]
    /\ UNCHANGED <<captured, refunded>>

Refund(o) ==
    /\ o \in captured \ refunded
    /\ refunded' = refunded \cup {o}
    /\ UNCHANGED <<captured, courier>>

Next == \E o \in Orders :
    \/ Capture(o)
    \/ \E r \in Riders : Dispatch(o, r)
    \/ Refund(o)

Spec == Init /\ [][Next]_cvars
=============================================================================
