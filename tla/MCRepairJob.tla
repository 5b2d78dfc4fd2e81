----------------------------- MODULE MCRepairJob -----------------------------
(* Instances of RepairJob for TLC. *)
EXTENDS RepairJob

CONSTANTS j1, j2, b1, p1, p2, p3, m1, m2

(* Two jobs of one booking: conversions that passed their checks together. *)
MCBookingOf == [j \in Jobs |-> b1]
(* The first may cost 1 or 2; the second is never priced. *)
MCPrices == [j \in Jobs |-> IF j = j1 THEN {1, 2} ELSE {}]
(* Everybody pays for the first: one in two parts, the others at once. *)
MCPaidFor == [p \in Payers |-> j1]
MCCalls == [p \in Payers |->
  CASE p = p1 -> << [tender |-> "cash", amount |-> 1], [tender |-> "card", amount |-> 1] >>
    [] p = p2 -> << [tender |-> "card", amount |-> 1] >>
    [] OTHER  -> << [tender |-> "cash", amount |-> 2] >>]
=============================================================================
