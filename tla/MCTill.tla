------------------------------- MODULE MCTill -------------------------------
(* Instances of Till for TLC. *)
EXTENDS Till

CONSTANTS t1, t2, a1, a2, a3, b1, p1, p2, d1, d2, r1, r2

(* Three attempts of one ticket, one of another that takes the same two    *)
(* products the other way round.                                           *)
MCTicketOf == [a \in Attempts |-> IF a = b1 THEN t2 ELSE t1]
MCLines == [t \in Tickets |-> IF t = t1 THEN <<p1, p2>> ELSE <<p2, p1>>]
MCFullShelf == [p \in Products |-> 4]
MCShortShelf == [p \in Products |-> IF p = p1 THEN 1 ELSE 2]
MCOpeningCost == [p \in Products |-> 1]
(* A dear delivery, and one whose price nobody knew. *)
MCDeliveryOf == [d \in Deliveries |-> IF d = d1 THEN [product |-> p1, qty |-> 1, cost |-> 4]
                                      ELSE [product |-> p1, qty |-> 2, cost |-> NONE]]
=============================================================================
