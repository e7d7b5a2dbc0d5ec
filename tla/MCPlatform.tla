----------------------------- MODULE MCPlatform -----------------------------
(* Platform on small sets.  Every rider can serve every order, so that the *)
(* races for an order and for a rider's capacity do happen.  Workers, trade *)
(* and refund numbers and riders are interchangeable.                       *)
EXTENDS SerialInvariant, TLC

MCServes == [r \in Riders |-> Orders]
Sym == Permutations(Workers) \cup Permutations(TradeNos)
         \cup Permutations(RefundNos) \cup Permutations(Riders)
=============================================================================
