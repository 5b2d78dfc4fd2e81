--------------------------- MODULE PurchasePromise ---------------------------
(***************************************************************************)
(* What buying a device promises its seller (0007_sell.sql l. 47-54): one  *)
(* amount is agreed on, once; money goes out only on an agreement; and a   *)
(* purchase is called off or paid for, for good and never both, however    *)
(* many payouts, links and quotes are on their way.                        *)
(***************************************************************************)
CONSTANTS Requests, Amounts, NONE

VARIABLES
  agreed,  \* per request: the amount agreed on, NONE before
  out,     \* requests on which money went out
  off      \* requests called off by either side

Init == /\ agreed = [r \in Requests |-> NONE]
        /\ out = {}
        /\ off = {}

(* The seller accepts an offer. *)
Agree(r, amount) ==
  /\ agreed[r] = NONE /\ r \notin off
  /\ agreed' = [agreed EXCEPT ![r] = amount]
  /\ UNCHANGED <<out, off>>

(* The shop pays. *)
PayOut(r) ==
  /\ agreed[r] # NONE /\ r \notin off
  /\ out' = out \cup {r}
  /\ UNCHANGED <<agreed, off>>

(* The offer is declined, or the device turned away when it arrives. *)
CallOff(r) ==
  /\ r \notin out
  /\ off' = off \cup {r}
  /\ UNCHANGED <<agreed, out>>

Next == \E r \in Requests :
          \/ \E amount \in Amounts : Agree(r, amount)
          \/ PayOut(r)
          \/ CallOff(r)

Spec == Init /\ [][Next]_<<agreed, out, off>>
=============================================================================
