-------------------------- MODULE OrderPaymentProofs --------------------------
(***************************************************************************)
(* IndInv is an inductive invariant of OrderPayment, and what follows from *)
(* it, for any number of orders, requests and staff.                       *)
(***************************************************************************)
EXTENDS OrderPayment, FiniteSetTheorems, TLAPS

USE OrdersAssumption, TotalAssumption, StockAssumption, RequestsAssumption

(* The type invariant, one half per side of the system.                    *)
RowTypes ==
  /\ status \in [Orders -> Statuses]
  /\ paidAt \subseteq Orders
  /\ stock \in Nat
  /\ returned \in [Orders -> [cancel : Nat, refund : Nat]]

MoneyTypes ==
  /\ recorded \subseteq Orders /\ counter \subseteq Orders
  /\ intent \in [Orders -> {"none", "open", "succeeded"}]
  /\ stripe \in [Orders -> [staff : Nat, auto : Nat, keys : SUBSET [amount : Nat, already : Sums]]]
  /\ ledger \in [Orders -> [card : Nat, other : Nat]]

CallTypes ==
  /\ acked \subseteq Orders /\ alerted \subseteq Orders /\ aborts \in Nat
  /\ event \in [Orders -> {"absent", "open", "processed"}]
  /\ call \in [Calls -> CallStates]
  /\ \A c \in Calls : call[c].pc # "idle" => call[c].order \in Orders
  /\ confirmed \in [Orders -> Nat]

ClerkTypes ==
  /\ clerk \in [Clerks -> ClerkStates]
  /\ \A s \in Clerks : clerk[s].pc # "idle" => clerk[s].order \in Orders

(* TypeOK is its four parts.                                               *)
LEMMA TypeParts == TypeOK <=> RowTypes /\ MoneyTypes /\ CallTypes /\ ClerkTypes
BY DEF TypeOK, RowTypes, MoneyTypes, CallTypes, ClerkTypes

-----------------------------------------------------------------------------
(* The shelf.                                                              *)

(* Orders that hold a unit, and orders a refund has brought one back from. *)
Holders == {o \in Orders : HoldsUnit(o)}
Restocked == {o \in Orders : returned[o].refund = 1}

LEMMA HoldersFinite == IsFiniteSet(Holders) /\ IsFiniteSet(Restocked)
                       /\ Cardinality(Holders) \in Nat /\ Cardinality(Restocked) \in Nat
<1>1. Holders \subseteq Orders /\ Restocked \subseteq Orders
  BY DEF Holders, Restocked
<1>2. IsFiniteSet(Holders) /\ IsFiniteSet(Restocked)
  BY <1>1, FS_Subset
<1> QED BY <1>2, FS_CardinalityType

(* An UPDATE of one order's status keeps the rows well typed, the shelf in *)
(* step with the orders, and only pending orders unpaid.                   *)
LEMMA StatusMoves ==
  ASSUME RowTypes, ShelfMatchesOrders, PendingIsUnpaid,
         NEW o \in Orders, NEW next, UpdateStatus(o, next)
  PROVE  RowTypes' /\ ShelfMatchesOrders' /\ PendingIsUnpaid'
<1> USE DEF RowTypes
<1>1. next \in Statuses \ {"pending"} /\ status[o] \in {"pending", "paid", "ready"}
  BY DEF UpdateStatus, AllowedNext, Statuses
<1>2. status' = [status EXCEPT ![o] = next] /\ status'[o] = next
  BY DEF UpdateStatus
<1>3. \A p \in Orders \ {o} : status'[p] = status[p] /\ returned'[p].refund = returned[p].refund
  BY DEF UpdateStatus
<1>4. returned'[o].refund = returned[o].refund
  BY DEF UpdateStatus
<1>5. RowTypes'
  <2>1. status' \in [Orders -> Statuses] /\ paidAt' \subseteq Orders
    BY <1>1, <1>2 DEF UpdateStatus
  <2>2. stock' \in Nat
    BY DEF UpdateStatus
  <2>3. returned' \in [Orders -> [cancel : Nat, refund : Nat]]
    BY DEF UpdateStatus
  <2> QED BY <2>1, <2>2, <2>3
<1>6. PendingIsUnpaid'
  BY <1>1, <1>2, <1>3 DEF UpdateStatus, PendingIsUnpaid
<1>7. Restocked' = Restocked
  BY <1>3, <1>4 DEF Restocked
<1>8. stock' + Cardinality(Holders') = stock + Cardinality(Holders)
  <2>1. CASE next = "paid"
    <3>1. status[o] = "pending" /\ stock' = stock - 1 /\ stock > 0
      BY <2>1 DEF UpdateStatus, AllowedNext
    <3>2. o \notin Holders /\ Holders' = Holders \union {o}
      BY <3>1, <2>1, <1>2, <1>3 DEF Holders, HoldsUnit, Fulfilled
    <3>3. Cardinality(Holders') = Cardinality(Holders) + 1
      BY <3>2, HoldersFinite, FS_AddElement
    <3> QED BY <3>1, <3>3, HoldersFinite
  <2>2. CASE next = "cancelled" /\ status[o] \in {"paid", "ready"}
    <3>1. stock' = stock + 1
      BY <2>2 DEF UpdateStatus, PutsBack
    <3>2. o \in Holders /\ Holders' = Holders \ {o}
      BY <2>2, <1>2, <1>3 DEF Holders, HoldsUnit, Fulfilled
    <3>3. Cardinality(Holders') = Cardinality(Holders) - 1
      BY <3>2, HoldersFinite, FS_RemoveElement
    <3> QED BY <3>1, <3>3, HoldersFinite
  <2>3. CASE next # "paid" /\ ~(next = "cancelled" /\ status[o] \in {"paid", "ready"})
    <3>1. stock' = stock
      BY <2>3 DEF UpdateStatus, PutsBack
    <3>2. HoldsUnit(o)' <=> HoldsUnit(o)
      BY <2>3, <1>1, <1>2 DEF HoldsUnit, Fulfilled, UpdateStatus, AllowedNext
    <3>3. Holders' = Holders
      BY <3>2, <1>3 DEF Holders, HoldsUnit
    <3> QED BY <3>1, <3>3
  <2> QED BY <2>1, <2>2, <2>3
<1>9. ShelfMatchesOrders'
  BY <1>3, <1>4, <1>7, <1>8, HoldersFinite DEF ShelfMatchesOrders, Holders, Restocked
<1> QED BY <1>5, <1>6, <1>9

(* A refund brings a unit back from an order that had brought back none.   *)
LEMMA RefundRestocks ==
  ASSUME RowTypes, ShelfMatchesOrders, NEW o \in Orders,
         returned[o].refund = 0, stock' = stock + 1, UNCHANGED status,
         returned' = [returned EXCEPT ![o] = [cancel |-> @.cancel, refund |-> @.refund + 1]]
  PROVE  ShelfMatchesOrders'
<1> USE DEF RowTypes
<1>1. Holders' = Holders
  BY DEF Holders, HoldsUnit
<1>2. returned'[o].refund = 1 /\ \A p \in Orders \ {o} : returned'[p] = returned[p]
  OBVIOUS
<1>3. o \notin Restocked /\ Restocked' = Restocked \union {o}
  BY <1>2 DEF Restocked
<1>4. Cardinality(Restocked') = Cardinality(Restocked) + 1
  BY <1>3, HoldersFinite, FS_AddElement
<1>5. stock' + Cardinality(Holders') = OpeningStock + Cardinality(Restocked')
  <2>1. stock + Cardinality(Holders) = OpeningStock + Cardinality(Restocked)
    BY DEF ShelfMatchesOrders, Holders, Restocked
  <2>2. stock' + Cardinality(Holders) = OpeningStock + (Cardinality(Restocked) + 1)
    BY <2>1, HoldersFinite
  <2> QED BY <2>2, <1>1, <1>4
<1>6. \A p \in Orders : returned'[p].refund \in {0, 1}
  BY <1>2 DEF ShelfMatchesOrders
<1> QED BY <1>5, <1>6 DEF ShelfMatchesOrders, Holders, Restocked

-----------------------------------------------------------------------------
(* The invariant, regrouped by the variables its parts read.               *)

RowInv == RowTypes /\ ShelfMatchesOrders /\ PendingIsUnpaid

MoneyInv == MoneyTypes /\ BookedWithinTotal /\ \A o \in Orders : SentBack(o) <= Total

Justified(c) ==
  /\ call[c].pc \notin {"idle", "ask"} => intent[call[c].order] = "succeeded"
  /\ call[c].pc = "cancel" => SentBack(call[c].order) = Total

CallInv == CallTypes /\ \A c \in Calls : Justified(c)

LEMMA Parts ==
  IndInv <=> RowInv /\ MoneyInv /\ CallInv /\ ClerkTypes /\ PaidMeansMoney /\ ConfirmedOnce
BY TypeParts DEF IndInv, RowInv, MoneyInv, CallInv, Justified, CallsAreJustified

LEMMA PartsNext ==
  RowInv' /\ MoneyInv' /\ CallInv' /\ ClerkTypes' /\ PaidMeansMoney' /\ ConfirmedOnce' => IndInv'
BY DEF IndInv, RowInv, MoneyInv, CallInv, Justified, CallsAreJustified, TypeOK,
       RowTypes, MoneyTypes, CallTypes, ClerkTypes

(* The initial states satisfy it.                                          *)
LEMMA Initially == Init => IndInv
<1> SUFFICES ASSUME Init PROVE IndInv
  OBVIOUS
<1> USE DEF Init
<1>1. RowTypes
  BY DEF RowTypes, Statuses
<1>2. ShelfMatchesOrders
  <2>1. Holders = {} /\ Restocked = {}
    BY DEF Holders, HoldsUnit, Fulfilled, Restocked
  <2> QED BY <2>1, FS_EmptySet DEF ShelfMatchesOrders, Holders, Restocked
<1>3. MoneyInv
  BY DEF MoneyInv, MoneyTypes, BookedWithinTotal, Booked, SentBack
<1>4. CallInv
  BY DEF CallInv, CallTypes, Justified, IdleCall, CallStates
<1>5. ClerkTypes
  BY DEF ClerkTypes, IdleClerk, Sums, ClerkStates
<1>6. PendingIsUnpaid /\ PaidMeansMoney /\ ConfirmedOnce
  BY DEF PendingIsUnpaid, PaidMeansMoney, ConfirmedOnce
<1> QED BY <1>1, <1>2, <1>3, <1>4, <1>5, <1>6, Parts DEF RowInv

(* What a step leaves alone keeps its part of the invariant.               *)
LEMMA RowsStay == ASSUME RowInv, UNCHANGED rowVars PROVE RowInv'
BY DEF RowInv, rowVars, RowTypes, ShelfMatchesOrders, HoldsUnit, PendingIsUnpaid

LEMMA MoneyStays ==
  ASSUME MoneyInv, UNCHANGED <<intent, stripe, ledger>>,
         recorded' \subseteq Orders, counter' \subseteq Orders
  PROVE  MoneyInv'
BY DEF MoneyInv, MoneyTypes, BookedWithinTotal, Booked, SentBack

LEMMA CallsStay == ASSUME CallInv, UNCHANGED <<intent, stripe, callVars>> PROVE CallInv'
BY DEF CallInv, CallTypes, callVars, Justified, SentBack

LEMMA ClerksStay == ASSUME ClerkTypes, UNCHANGED clerk PROVE ClerkTypes'
BY DEF ClerkTypes

LEMMA PaidStays ==
  ASSUME PaidMeansMoney, ConfirmedOnce, UNCHANGED <<paidAt, intent, confirmed>>, counter \subseteq counter'
  PROVE  PaidMeansMoney' /\ ConfirmedOnce'
BY DEF PaidMeansMoney, ConfirmedOnce

-----------------------------------------------------------------------------
(* The customer.                                                           *)

LEMMA CustomerKeeps == ASSUME IndInv, NEW o \in Orders, CustomerStep(o) PROVE IndInv'
<1> USE Parts, PartsNext
<1>1. RowInv' /\ ClerkTypes'
  BY RowsStay, ClerksStay DEF CustomerStep, StartPayment, RecordReference, PayByCard
<1>2. CASE RecordReference(o)
  <2>1. MoneyInv'
    BY <1>2, MoneyStays DEF RecordReference, MoneyInv, MoneyTypes
  <2>2. CallInv' /\ PaidMeansMoney' /\ ConfirmedOnce'
    BY <1>2, CallsStay, PaidStays DEF RecordReference, rowVars, callVars
  <2> QED BY <1>1, <2>1, <2>2
<1>3. CASE StartPayment(o) \/ PayByCard(o)
  <2>1. /\ \A p \in Orders : intent[p] = "succeeded" => intent'[p] = "succeeded"
        /\ intent' \in [Orders -> {"none", "open", "succeeded"}]
    BY <1>3 DEF StartPayment, PayByCard, MoneyInv, MoneyTypes
  <2>2. MoneyInv'
    BY <1>3, <2>1 DEF StartPayment, PayByCard, MoneyInv, MoneyTypes, BookedWithinTotal, Booked, SentBack
  <2>3. CallTypes'
    BY <1>3 DEF StartPayment, PayByCard, CallInv, CallTypes, callVars
  <2>4. \A c \in Calls : Justified(c)'
    BY <1>3, <2>1 DEF StartPayment, PayByCard, CallInv, CallTypes, Justified, SentBack, callVars
  <2>5. PaidMeansMoney' /\ ConfirmedOnce'
    BY <1>3, <2>1 DEF StartPayment, PayByCard, PaidMeansMoney, ConfirmedOnce, RowInv, RowTypes, rowVars, callVars
  <2> QED BY <1>1, <2>2, <2>3, <2>4, <2>5 DEF CallInv
<1> QED BY <1>2, <1>3 DEF CustomerStep

-----------------------------------------------------------------------------
(* The webhook and the poll.                                               *)

(* Only calls and their events move.                                       *)
LEMMA RestStays ==
  ASSUME IndInv, UNCHANGED <<rowVars, recorded, intent, stripe, confirmed, clerk, ledger, counter>>
  PROVE  RowInv' /\ ClerkTypes' /\ MoneyInv' /\ PaidMeansMoney' /\ ConfirmedOnce'
<1>1. RowInv' /\ ClerkTypes'
  BY Parts, RowsStay, ClerksStay
<1>2. MoneyInv'
  BY Parts, MoneyStays DEF MoneyInv, MoneyTypes
<1>3. PaidMeansMoney' /\ ConfirmedOnce'
  BY Parts, PaidStays DEF rowVars
<1> QED BY <1>1, <1>2, <1>3

(* A call's record becomes another that is well formed and justified.      *)
LEMMA OneCallMoves ==
  ASSUME CallInv, NEW c \in Calls, NEW r \in CallStates,
         call' = [call EXCEPT ![c] = r],
         r.pc # "idle" => r.order \in Orders,
         r.pc \notin {"idle", "ask"} => intent'[r.order] = "succeeded",
         r.pc = "cancel" => SentBack(r.order)' = Total,
         UNCHANGED intent,
         \A o \in Orders : SentBack(o) = Total => SentBack(o)' = Total,
         acked' \subseteq Orders, alerted' \subseteq Orders, aborts' \in Nat,
         event' \in [Orders -> {"absent", "open", "processed"}],
         confirmed' \in [Orders -> Nat]
  PROVE  CallInv'
<1>1. \A d \in Calls : call'[d] = IF d = c THEN r ELSE call[d]
  BY DEF CallInv, CallTypes
<1>2. CallTypes'
  BY <1>1 DEF CallInv, CallTypes
<1>3. ASSUME NEW d \in Calls PROVE Justified(d)'
  <2>1. CASE d = c
    BY <2>1, <1>1 DEF Justified, SentBack
  <2>2. CASE d # c
    <3>1. call'[d] = call[d] /\ Justified(d)
      BY <2>2, <1>1 DEF CallInv
    <3>2. call[d].pc = "cancel" => call[d].order \in Orders
      BY DEF CallInv, CallTypes
    <3>3. call[d].pc = "cancel" => SentBack(call[d].order)' = Total
      BY <3>1, <3>2 DEF Justified
    <3> QED BY <3>1, <3>3 DEF Justified, SentBack
  <2> QED BY <2>1, <2>2
<1> QED BY <1>2, <1>3 DEF CallInv

(* A call that changes nothing but its own place.                          *)
LEMMA StepKeeps ==
  ASSUME IndInv, NEW c \in Calls, NEW pc, NEW next, Step(c, pc, next), pc # "idle",
         next \in {"idle", "settle", "move", "recheck", "close"},
         next \notin {"idle", "ask"} => intent[call[c].order] = "succeeded"
  PROVE  IndInv'
<1> USE Parts, PartsNext
<1>1. RowInv' /\ ClerkTypes' /\ MoneyInv' /\ PaidMeansMoney' /\ ConfirmedOnce'
  BY RestStays DEF Step
<1> DEFINE r == IF next = "idle" THEN IdleCall ELSE [call[c] EXCEPT !.pc = next]
<1>2. call[c] \in CallStates /\ call[c].order \in Orders
  BY DEF Step, CallInv, CallTypes
<1>3. r \in CallStates /\ (r.pc # "idle" => r.order = call[c].order) /\ r.pc = next
  BY <1>2 DEF CallStates, IdleCall
<1>4. call' = [call EXCEPT ![c] = r]
  BY <1>2 DEF Step, Done, Goto, CallStates
<1>5. CallInv'
  <2> HIDE DEF r
  <2>1. UNCHANGED <<intent, stripe, acked, alerted, aborts, event, confirmed>>
    BY DEF Step
  <2>2. \A o \in Orders : SentBack(o)' = SentBack(o)
    BY <2>1 DEF SentBack
  <2> QED BY <1>2, <1>3, <1>4, <2>1, <2>2, OneCallMoves DEF CallInv, CallTypes
<1> QED BY <1>1, <1>5

LEMMA SettlingSteps ==
  ASSUME IndInv, NEW c \in Calls,
         AskStripe(c) \/ ReadOrder(c) \/ NotPending(c) \/ FoundPaid(c)
  PROVE  IndInv'
<1>1. call[c].pc \notin {"idle", "ask"} => intent[call[c].order] = "succeeded"
  BY Parts DEF CallInv, Justified
<1>2. CASE AskStripe(c)
  BY <1>2, StepKeeps DEF AskStripe
<1>3. CASE ReadOrder(c)
  BY <1>1, <1>3, StepKeeps DEF ReadOrder, AfterSettled, Step
<1>4. CASE NotPending(c)
  BY <1>1, <1>4, StepKeeps DEF NotPending
<1>5. CASE FoundPaid(c)
  BY <1>1, <1>5, StepKeeps DEF FoundPaid, AfterSettled
<1> QED BY <1>2, <1>3, <1>4, <1>5

(* A call starts, or meets a conflict.                                     *)
LEMMA CallStarts ==
  ASSUME IndInv, NEW c \in Calls, NEW o \in Orders, Deliver(c, o) \/ Poll(c, o)
  PROVE  IndInv'
<1> USE Parts, PartsNext
<1>1. RowInv' /\ ClerkTypes' /\ MoneyInv' /\ PaidMeansMoney' /\ ConfirmedOnce'
  BY RestStays DEF Deliver, Poll
<1>2. /\ UNCHANGED <<intent, stripe, alerted, aborts, confirmed>> /\ acked' \subseteq Orders
      /\ event' \in [Orders -> {"absent", "open", "processed"}]
  BY DEF Deliver, Poll, CallInv, CallTypes
<1>3. \A p \in Orders : SentBack(p)' = SentBack(p)
  BY <1>2 DEF SentBack
<1>4. CASE UNCHANGED call
  BY <1>1, <1>2, <1>3, <1>4 DEF CallInv, CallTypes, Justified, SentBack
<1>5. CASE Deliver(c, o) /\ call' = [call EXCEPT ![c] = [pc |-> "settle", order |-> o, conflict |-> FALSE]]
  <2>1. [pc |-> "settle", order |-> o, conflict |-> FALSE] \in CallStates
    BY DEF CallStates
  <2>2. intent[o] = "succeeded"
    BY <1>5 DEF Deliver
  <2>3. CallInv'
    BY <1>2, <1>3, <1>5, <2>1, <2>2, OneCallMoves DEF CallInv, CallTypes
  <2> QED BY <1>1, <2>3
<1>6. CASE Poll(c, o)
  <2>1. [pc |-> "ask", order |-> o, conflict |-> FALSE] \in CallStates
    BY DEF CallStates
  <2>2. CallInv'
    BY <1>2, <1>3, <1>6, <2>1, OneCallMoves DEF CallInv, CallTypes, Poll
  <2> QED BY <1>1, <2>2
<1> QED BY <1>4, <1>5, <1>6 DEF Deliver

LEMMA ConflictKeeps ==
  ASSUME IndInv, NEW c \in Calls, OutOfStock(c) \/ FoundElse(c)
  PROVE  IndInv'
<1> USE Parts, PartsNext
<1>1. PICK pc \in {"move", "recheck"} : Conflict(c, pc)
  BY DEF OutOfStock, FoundElse
<1>2. RowInv' /\ ClerkTypes' /\ MoneyInv' /\ PaidMeansMoney' /\ ConfirmedOnce'
  BY <1>1, RestStays DEF Conflict
<1> DEFINE r == [pc |-> IF c \in Hooks THEN "close" ELSE "refund", order |-> call[c].order, conflict |-> TRUE]
<1>3. r \in CallStates /\ r.order \in Orders /\ intent[r.order] = "succeeded" /\ r.pc # "cancel"
  BY <1>1 DEF CallStates, Conflict, CallInv, CallTypes, Justified
<1>4. /\ UNCHANGED <<intent, stripe, acked, alerted, aborts, event, confirmed>>
      /\ call' = [call EXCEPT ![c] = r]
  BY <1>1 DEF Conflict
<1>5. \A p \in Orders : SentBack(p)' = SentBack(p)
  BY <1>4 DEF SentBack
<1>6. CallInv'
  <2> HIDE DEF r
  <2> QED BY <1>3, <1>4, <1>5, OneCallMoves DEF CallInv, CallTypes
<1> QED BY <1>2, <1>6

LEMMA MovedKeeps == ASSUME IndInv, NEW c \in Calls, Moved(c) PROVE IndInv'
<1> USE Parts, PartsNext
<1> DEFINE o == call[c].order
<1>1. o \in Orders /\ intent[o] = "succeeded" /\ status[o] = "pending"
  BY DEF Moved, CallInv, CallTypes, Justified
<1> HIDE DEF o
<1>2. UpdateStatus(o, "paid") /\ paidAt' = paidAt \union {o} /\ o \notin paidAt
  BY <1>1 DEF Moved, UpdateStatus, RowInv, PendingIsUnpaid, o
<1>3. RowInv'
  BY <1>1, <1>2, StatusMoves DEF RowInv
<1>4. UNCHANGED <<intent, stripe, event, acked, aborts, alerted, clerk, ledger, counter>>
  BY DEF Moved
<1>5. MoneyInv' /\ ClerkTypes'
  <2>1. recorded' \subseteq Orders
    BY <1>1 DEF Moved, MoneyInv, MoneyTypes, o
  <2> QED BY <2>1, <1>4, MoneyStays, ClerksStay DEF MoneyInv, MoneyTypes
<1>6. confirmed' = [confirmed EXCEPT ![o] = @ + 1]
  BY DEF Moved, o
<1>7. PaidMeansMoney'
  BY <1>1, <1>2, <1>4 DEF PaidMeansMoney
<1>8. ConfirmedOnce'
  <2>1. confirmed[o] = 0
    BY <1>1, <1>2 DEF ConfirmedOnce, CallInv, CallTypes
  <2>2. ASSUME NEW p \in Orders PROVE confirmed'[p] <= IF p \in paidAt' THEN 1 ELSE 0
    BY <2>1, <1>1, <1>2, <1>6 DEF ConfirmedOnce, CallInv, CallTypes
  <2> QED BY <2>2 DEF ConfirmedOnce
<1>9. CallInv'
  <2> DEFINE r == IF c \in Hooks THEN [call[c] EXCEPT !.pc = "close"] ELSE IdleCall
  <2>1. call[c] \in CallStates
    BY DEF CallInv, CallTypes
  <2>2. r \in CallStates /\ (r.pc # "idle" => r.order = o) /\ r.pc \in {"idle", "close"}
    BY <2>1 DEF CallStates, IdleCall, o
  <2>3. call' = [call EXCEPT ![c] = r]
    BY <2>1 DEF Moved, Goto, Done, CallStates
  <2>4. \A p \in Orders : SentBack(p)' = SentBack(p)
    BY <1>4 DEF SentBack
  <2>5. confirmed' \in [Orders -> Nat]
    BY <1>1, <1>6 DEF CallInv, CallTypes
  <2> HIDE DEF r
  <2> QED BY <1>1, <1>4, <2>2, <2>3, <2>4, <2>5, OneCallMoves DEF CallInv, CallTypes
<1> QED BY <1>3, <1>5, <1>7, <1>8, <1>9

LEMMA MarkProcessedKeeps ==
  ASSUME IndInv, NEW c \in Calls, NEW written \in BOOLEAN, MarkProcessed(c, written)
  PROVE  IndInv'
<1> USE Parts, PartsNext
<1>1. RowInv' /\ ClerkTypes' /\ MoneyInv' /\ PaidMeansMoney' /\ ConfirmedOnce'
  BY RestStays DEF MarkProcessed
<1> DEFINE r == IF call[c].conflict THEN [call[c] EXCEPT !.pc = "refund"] ELSE IdleCall
<1>2. call[c] \in CallStates /\ call[c].order \in Orders /\ intent[call[c].order] = "succeeded"
  BY DEF MarkProcessed, CallInv, CallTypes, Justified
<1>3. r \in CallStates /\ (r.pc # "idle" => r.order = call[c].order) /\ r.pc # "cancel"
  BY <1>2 DEF CallStates, IdleCall
<1>4. call' = [call EXCEPT ![c] = r]
  BY <1>2 DEF MarkProcessed, Goto, Done, CallStates
<1>5. /\ UNCHANGED <<intent, stripe, alerted, aborts, confirmed>> /\ acked' \subseteq Orders
      /\ event' \in [Orders -> {"absent", "open", "processed"}]
  BY <1>2 DEF MarkProcessed, CallInv, CallTypes
<1>6. \A p \in Orders : SentBack(p)' = SentBack(p)
  BY <1>5 DEF SentBack
<1>7. CallInv'
  <2> HIDE DEF r
  <2> QED BY <1>2, <1>3, <1>4, <1>5, <1>6, OneCallMoves DEF CallInv, CallTypes
<1> QED BY <1>1, <1>7

(* Sending everything back brings what went back to the total.             *)
LEMMA AllGoesBack ==
  ASSUME MoneyInv, NEW o \in Orders, SendAllBack(o),
         UNCHANGED <<intent, ledger, recorded, counter>>
  PROVE  /\ MoneyInv'
         /\ SentBack(o)' = Total
         /\ \A p \in Orders : SentBack(p) = Total => SentBack(p)' = Total
<1> DEFINE n == Total - SentBack(o)
           r == [staff |-> stripe[o].staff, auto |-> stripe[o].auto + n, keys |-> stripe[o].keys]
<1>1. stripe[o].staff \in Nat /\ stripe[o].auto \in Nat /\ SentBack(o) <= Total /\ Total \in Nat
  BY DEF MoneyInv, MoneyTypes
<1>2. n \in Nat
  BY <1>1 DEF SentBack
<1>3. r.staff + r.auto = Total
  BY <1>1 DEF SentBack
<1>4. stripe' = [stripe EXCEPT ![o] = r]
  BY DEF SendAllBack
<1>5. r \in [staff : Nat, auto : Nat, keys : SUBSET [amount : Nat, already : Sums]]
  BY <1>2 DEF MoneyInv, MoneyTypes
<1> HIDE DEF r, n
<1>6. stripe' \in [Orders -> [staff : Nat, auto : Nat, keys : SUBSET [amount : Nat, already : Sums]]]
  BY <1>4, <1>5 DEF MoneyInv, MoneyTypes
<1>7. \A p \in Orders : stripe'[p] = IF p = o THEN r ELSE stripe[p]
  BY <1>4 DEF MoneyInv, MoneyTypes
<1>8. SentBack(o)' = Total /\ \A p \in Orders \ {o} : SentBack(p)' = SentBack(p)
  BY <1>3, <1>7 DEF SentBack
<1>9. MoneyInv'
  BY <1>6, <1>8 DEF MoneyInv, MoneyTypes, BookedWithinTotal, Booked
<1> QED BY <1>8, <1>9

LEMMA RefundKeeps ==
  ASSUME IndInv, NEW c \in Calls, RefundUnfulfillable(c) \/ RefundFails(c)
  PROVE  IndInv'
<1> USE Parts, PartsNext
<1>0. PICK o \in Orders : o = call[c].order
  BY DEF RefundUnfulfillable, RefundFails, CallInv, CallTypes
<1>1. intent[o] = "succeeded" /\ call[c] \in CallStates
  BY <1>0 DEF RefundUnfulfillable, RefundFails, CallInv, CallTypes, Justified
<1>2. UNCHANGED <<rowVars, recorded, intent, event, aborts, confirmed, clerk, ledger, counter>>
  BY DEF RefundUnfulfillable, RefundFails
<1>3. RowInv' /\ ClerkTypes' /\ PaidMeansMoney' /\ ConfirmedOnce'
  BY <1>2, RowsStay, ClerksStay, PaidStays DEF rowVars
<1>4. acked' \subseteq Orders /\ alerted' \subseteq Orders
  BY <1>0 DEF RefundUnfulfillable, RefundFails, Acknowledge, CallInv, CallTypes
<1>5. UNCHANGED stripe \/ SendAllBack(o)
  BY <1>0 DEF RefundUnfulfillable, RefundFails
<1>6. MoneyInv' /\ \A p \in Orders : SentBack(p) = Total => SentBack(p)' = Total
  <2>1. CASE UNCHANGED stripe
    BY <2>1, <1>2, MoneyStays DEF MoneyInv, MoneyTypes, SentBack
  <2>2. CASE SendAllBack(o)
    BY <2>2, <1>1, <1>2, AllGoesBack
  <2> QED BY <1>5, <2>1, <2>2
<1>7. CallInv'
  <2>1. CASE RefundUnfulfillable(c)
    <3> DEFINE q == [call[c] EXCEPT !.pc = "cancel"]
    <3>1. q \in CallStates /\ q.order = o /\ q.pc = "cancel"
      BY <1>0, <1>1 DEF CallStates
    <3>2. call' = [call EXCEPT ![c] = q]
      BY <1>1, <2>1 DEF RefundUnfulfillable, Goto, CallStates
    <3>3. SentBack(o)' = Total
      BY <2>1, <1>0, <1>2, AllGoesBack DEF RefundUnfulfillable
    <3> HIDE DEF q
    <3> QED BY <1>1, <1>2, <1>4, <1>6, <3>1, <3>2, <3>3, OneCallMoves DEF CallInv, CallTypes
  <2>2. CASE RefundFails(c)
    <3>1. IdleCall \in CallStates /\ IdleCall.pc = "idle"
      BY DEF IdleCall, CallStates
    <3>2. call' = [call EXCEPT ![c] = IdleCall]
      BY <2>2 DEF RefundFails, Done
    <3> QED BY <1>2, <1>4, <1>6, <3>1, <3>2, OneCallMoves DEF CallInv, CallTypes
  <2> QED BY <2>1, <2>2
<1> QED BY <1>3, <1>6, <1>7

LEMMA EndKeeps == ASSUME IndInv, NEW c \in Calls, CancelUnfulfillable(c) \/ Abort(c) PROVE IndInv'
<1> USE Parts, PartsNext
<1>1. call[c].order \in Orders
  BY DEF CancelUnfulfillable, Abort, CallInv, CallTypes
<1>2. /\ UNCHANGED <<recorded, intent, stripe, event, confirmed, alerted, clerk, ledger, counter>>
      /\ call' = [call EXCEPT ![c] = IdleCall]
      /\ acked' \subseteq Orders /\ aborts' \in Nat
  BY <1>1 DEF CancelUnfulfillable, Abort, Done, Acknowledge, CallInv, CallTypes
<1>3. UNCHANGED rowVars \/ UpdateStatus(call[c].order, "cancelled")
  BY DEF CancelUnfulfillable, Abort
<1>4. RowInv'
  BY <1>1, <1>3, RowsStay, StatusMoves DEF RowInv
<1>5. UNCHANGED paidAt
  BY <1>3 DEF rowVars, UpdateStatus
<1>6. MoneyInv' /\ ClerkTypes' /\ PaidMeansMoney' /\ ConfirmedOnce'
  BY <1>2, <1>5, MoneyStays, ClerksStay, PaidStays DEF MoneyInv, MoneyTypes
<1>7. IdleCall \in CallStates /\ IdleCall.pc = "idle"
  BY DEF IdleCall, CallStates
<1>8. \A p \in Orders : SentBack(p)' = SentBack(p)
  BY <1>2 DEF SentBack
<1>9. CallInv'
  BY <1>2, <1>7, <1>8, OneCallMoves DEF CallInv, CallTypes
<1> QED BY <1>4, <1>6, <1>9

LEMMA CallStepKeeps == ASSUME IndInv, NEW c \in Calls, CallStep(c) PROVE IndInv'
BY SettlingSteps, MovedKeeps, ConflictKeeps, MarkProcessedKeeps, RefundKeeps, EndKeeps
   DEF CallStep, SettleStep

-----------------------------------------------------------------------------
(* Staff.                                                                  *)

(* Marking an order paid at the counter, and moving it on.                 *)
LEMMA StatusKeeps ==
  ASSUME IndInv, NEW o \in Orders, MarkPaid(o) \/ \E next \in Fulfilled : Fulfil(o, next)
  PROVE  IndInv'
<1> USE Parts, PartsNext
<1>1. PICK next \in {"paid"} \union Fulfilled :
        UpdateStatus(o, next) /\ (next = "paid" => counter' = counter \union {o})
  <2>1. CASE MarkPaid(o)
    BY <2>1 DEF MarkPaid
  <2>2. CASE \E next \in Fulfilled : Fulfil(o, next)
    BY <2>2 DEF Fulfil, Fulfilled
  <2> QED BY <2>1, <2>2
<1>2. RowInv'
  BY <1>1, StatusMoves DEF RowInv
<1>3. /\ UNCHANGED <<recorded, intent, stripe, callVars, clerk, ledger>>
      /\ counter \subseteq counter' /\ counter' \subseteq Orders
  BY DEF MarkPaid, Fulfil, MoneyInv, MoneyTypes
<1>4. MoneyInv' /\ CallInv' /\ ClerkTypes'
  BY <1>3, MoneyStays, CallsStay, ClerksStay DEF MoneyInv, MoneyTypes
<1>5. paidAt' = (IF next = "paid" THEN paidAt \union {o} ELSE paidAt) /\ confirmed' = confirmed
  BY <1>1, <1>3 DEF UpdateStatus, callVars
<1>6. PaidMeansMoney'
  BY <1>1, <1>3, <1>5 DEF PaidMeansMoney
<1>7. ConfirmedOnce'
  <2>1. ASSUME NEW p \in Orders PROVE confirmed'[p] <= IF p \in paidAt' THEN 1 ELSE 0
    BY <1>5 DEF ConfirmedOnce, CallInv, CallTypes
  <2> QED BY <2>1 DEF ConfirmedOnce
<1> QED BY <1>2, <1>4, <1>6, <1>7

(* A staff request reads: only its own record changes.                     *)
LEMMA ReadsKeep ==
  ASSUME IndInv, NEW s \in Clerks,
         \/ \E o \in Orders : ReadForCancel(s, o)
         \/ \E o \in Orders, amount \in Amounts, card \in BOOLEAN, restock \in Restocks :
              ReadForRefund(s, o, amount, card, restock)
         \/ (\E read \in BOOLEAN : ReadKey(s, read)) \/ RefundNotBooked(s)
  PROVE  IndInv'
<1> USE Parts, PartsNext
<1>1. UNCHANGED <<rowVars, recorded, intent, stripe, callVars, ledger, counter>>
  BY DEF ReadForCancel, ReadForRefund, ReadKey, RefundNotBooked
<1>2. RowInv' /\ MoneyInv' /\ CallInv' /\ PaidMeansMoney' /\ ConfirmedOnce'
  <2>1. UNCHANGED <<paidAt, confirmed>>
    BY <1>1 DEF rowVars, callVars
  <2> QED BY <1>1, <2>1, RowsStay, MoneyStays, CallsStay, PaidStays DEF MoneyInv, MoneyTypes
<1>3. ClerkTypes'
  <2>1. CASE \E o \in Orders : ReadForCancel(s, o)
    <3>1. PICK o \in Orders : ReadForCancel(s, o)
      BY <2>1
    <3>2. [IdleClerk EXCEPT !.pc = "cancel", !.order = o] \in ClerkStates
      BY DEF ClerkStates, IdleClerk, Sums
    <3> QED BY <3>1, <3>2 DEF ReadForCancel, ClerkTypes, IdleClerk
  <2>2. CASE \E o \in Orders, amount \in Amounts, card \in BOOLEAN, restock \in Restocks :
              ReadForRefund(s, o, amount, card, restock)
    <3>1. PICK o \in Orders, amount \in Amounts, card \in BOOLEAN, restock \in Restocks :
              ReadForRefund(s, o, amount, card, restock)
      BY <2>2
    <3>2. [pc |-> IF card THEN "key" ELSE "book", order |-> o, amount |-> amount, card |-> card,
           restock |-> restock, already |-> 0] \in ClerkStates
      BY DEF ClerkStates, Sums
    <3> QED BY <3>1, <3>2 DEF ReadForRefund, ClerkTypes
  <2>3. CASE \E read \in BOOLEAN : ReadKey(s, read)
    <3>1. PICK read \in BOOLEAN : ReadKey(s, read)
      BY <2>3
    <3>2. clerk[s].order \in Orders
      BY <3>1 DEF ReadKey, ClerkTypes
    <3>3. (IF read THEN Booked(clerk[s].order) ELSE -1) \in Sums
      <4>1. Booked(clerk[s].order) \in Nat
        BY <3>2 DEF MoneyInv, MoneyTypes, Booked
      <4> QED BY <4>1 DEF Sums
    <3>4. clerk[s] \in ClerkStates
      BY DEF ClerkTypes
    <3> DEFINE k == IF read THEN Booked(clerk[s].order) ELSE -1
    <3>5. clerk' = [clerk EXCEPT ![s] = [clerk[s] EXCEPT !.pc = "stripe", !.already = k]]
      BY <3>1, <3>4 DEF ReadKey, ClerkStates
    <3> HIDE DEF k
    <3>6. [clerk[s] EXCEPT !.pc = "stripe", !.already = k] \in ClerkStates
      BY <3>3, <3>4 DEF ClerkStates, k
    <3> QED BY <3>4, <3>5, <3>6, <3>2 DEF ClerkTypes, ClerkStates
  <2>4. CASE RefundNotBooked(s)
    BY <2>4 DEF RefundNotBooked, ClerkTypes, ClerkStates, IdleClerk, Sums
  <2> QED BY <2>1, <2>2, <2>3, <2>4
<1> QED BY <1>2, <1>3

LEMMA WriteCancelKeeps == ASSUME IndInv, NEW s \in Clerks, WriteCancel(s) PROVE IndInv'
<1> USE Parts, PartsNext
<1>1. PICK o \in Orders : o = clerk[s].order
  BY DEF WriteCancel, ClerkTypes
<1>2. UNCHANGED rowVars \/ UpdateStatus(o, "cancelled")
  BY <1>1 DEF WriteCancel
<1>3. RowInv'
  BY <1>2, RowsStay, StatusMoves DEF RowInv
<1>4. UNCHANGED paidAt
  BY <1>2 DEF rowVars, UpdateStatus
<1>5. UNCHANGED <<recorded, intent, stripe, callVars, ledger, counter>>
  BY DEF WriteCancel
<1>6. MoneyInv' /\ CallInv' /\ PaidMeansMoney' /\ ConfirmedOnce'
  BY <1>4, <1>5, MoneyStays, CallsStay, PaidStays DEF MoneyInv, MoneyTypes, callVars
<1>7. ClerkTypes'
  BY DEF WriteCancel, ClerkTypes, ClerkStates, IdleClerk, Sums
<1> QED BY <1>3, <1>6, <1>7

LEMMA CardRefundKeeps ==
  ASSUME IndInv, NEW s \in Clerks, StripeRefunds(s) \/ StripeFails(s)
  PROVE  IndInv'
<1> USE Parts, PartsNext
<1>1. PICK o \in Orders : o = clerk[s].order
  BY DEF StripeRefunds, StripeFails, ClerkTypes
<1>2. UNCHANGED <<rowVars, recorded, intent, callVars, ledger, counter>>
  BY DEF StripeRefunds, StripeFails
<1>3. clerk[s].amount \in Nat /\ clerk[s].already \in Sums /\ clerk[s] \in ClerkStates
  <2>1. Amounts \union {0} \subseteq Nat
    OBVIOUS
  <2>2. clerk[s] \in ClerkStates
    BY DEF ClerkTypes
  <2> QED BY <2>1, <2>2 DEF ClerkStates
<1>4. RowInv' /\ PaidMeansMoney' /\ ConfirmedOnce'
  <2>1. UNCHANGED <<paidAt, confirmed>>
    BY <1>2 DEF rowVars, callVars
  <2> QED BY <1>2, <2>1, RowsStay, PaidStays
<1>5. ClerkTypes'
  <2>1. [clerk[s] EXCEPT !.pc = "book"] \in ClerkStates /\ IdleClerk \in ClerkStates
    BY <1>3 DEF ClerkStates, IdleClerk, Sums
  <2>2. CASE StripeRefunds(s)
    <3>1. clerk' = [clerk EXCEPT ![s] = [clerk[s] EXCEPT !.pc = "book"]]
      BY <2>2, <1>3 DEF StripeRefunds, ClerkStates
    <3>2. [clerk[s] EXCEPT !.pc = "book"].order = o
      BY <1>1, <1>3 DEF ClerkStates
    <3> QED BY <2>1, <3>1, <3>2 DEF ClerkTypes
  <2>3. CASE StripeFails(s)
    BY <2>1, <2>3 DEF StripeFails, ClerkTypes, IdleClerk
  <2> QED BY <2>2, <2>3
<1>6. MoneyInv' /\ CallInv'
  <2>1. CASE UNCHANGED stripe
    <3>1. recorded' \subseteq Orders /\ counter' \subseteq Orders
      BY <1>2 DEF MoneyInv, MoneyTypes
    <3> QED BY <1>2, <2>1, <3>1, MoneyStays, CallsStay
  <2>2. CASE ~UNCHANGED stripe
    <3> DEFINE n == clerk[s].amount
               r == [staff |-> stripe[o].staff + n, auto |-> stripe[o].auto,
                     keys |-> stripe[o].keys \union {Key(s)}]
    <3>1. SentBack(o) + n <= Total /\ stripe' = [stripe EXCEPT ![o] = r]
      BY <1>1, <2>2 DEF StripeRefunds, StripeFails, CardRefund
    <3>2. n \in Nat
      BY <1>3
    <3>3. r \in [staff : Nat, auto : Nat, keys : SUBSET [amount : Nat, already : Sums]]
      BY <1>3 DEF MoneyInv, MoneyTypes, Key
    <3>4. r.staff + r.auto = SentBack(o) + n
      BY <1>3 DEF MoneyInv, MoneyTypes, SentBack
    <3>5. SentBack(o) \in Nat
      BY DEF MoneyInv, MoneyTypes, SentBack
    <3> HIDE DEF r, n
    <3>6. \A p \in Orders : stripe'[p] = IF p = o THEN r ELSE stripe[p]
      BY <3>1 DEF MoneyInv, MoneyTypes
    <3>7. /\ SentBack(o)' <= Total /\ (SentBack(o) = Total => SentBack(o)' = Total)
          /\ \A p \in Orders \ {o} : SentBack(p)' = SentBack(p)
      <4>1. SentBack(o)' = SentBack(o) + n
        BY <3>4, <3>6 DEF SentBack
      <4> QED BY <4>1, <3>1, <3>2, <3>5, <3>6 DEF SentBack
    <3>8. MoneyInv'
      BY <1>2, <3>1, <3>3, <3>7 DEF MoneyInv, MoneyTypes, BookedWithinTotal, Booked
    <3>9. CallInv'
      <4>1. CallTypes'
        BY <1>2 DEF CallInv, CallTypes, callVars
      <4>2. ASSUME NEW c \in Calls PROVE Justified(c)'
        <5>1. Justified(c) /\ (call[c].pc = "cancel" => call[c].order \in Orders)
          BY DEF CallInv, CallTypes
        <5>2. call[c].pc = "cancel" => SentBack(call[c].order)' = Total
          BY <1>2, <5>1, <3>7 DEF Justified, callVars
        <5> QED BY <1>2, <5>1, <5>2 DEF Justified, callVars
      <4> QED BY <4>1, <4>2 DEF CallInv
    <3> QED BY <3>8, <3>9
  <2> QED BY <2>1, <2>2
<1> QED BY <1>4, <1>5, <1>6

LEMMA WriteRefundKeeps == ASSUME IndInv, NEW s \in Clerks, WriteRefund(s) PROVE IndInv'
<1> USE Parts, PartsNext
<1>1. PICK o \in Orders : o = clerk[s].order
  BY DEF WriteRefund, ClerkTypes
<1>2. UNCHANGED <<status, paidAt, recorded, intent, stripe, callVars, counter>>
  BY DEF WriteRefund
<1>3. clerk[s].amount \in Nat /\ clerk[s].card \in BOOLEAN
  <2>1. Amounts \union {0} \subseteq Nat
    OBVIOUS
  <2> QED BY <2>1 DEF ClerkTypes, ClerkStates
<1>4. CallInv' /\ PaidMeansMoney' /\ ConfirmedOnce'
  BY <1>2, CallsStay, PaidStays DEF callVars
<1>5. ClerkTypes'
  BY DEF WriteRefund, ClerkTypes, ClerkStates, IdleClerk, Sums
<1>6. RowInv'
  <2>1. CASE clerk[s].restock
    <3>1. /\ stock' = stock + 1 /\ returned[o].refund = 0
          /\ returned' = [returned EXCEPT ![o] = [cancel |-> @.cancel, refund |-> @.refund + 1]]
      BY <1>1, <2>1 DEF WriteRefund, Fits
    <3>2. ShelfMatchesOrders'
      BY <1>2, <3>1, RefundRestocks DEF RowInv
    <3>3. RowTypes'
      BY <1>2, <3>1 DEF RowInv, RowTypes
    <3>4. PendingIsUnpaid'
      BY <1>2 DEF RowInv, PendingIsUnpaid
    <3> QED BY <3>2, <3>3, <3>4 DEF RowInv
  <2>2. CASE ~clerk[s].restock
    BY <1>2, <2>2, RowsStay DEF WriteRefund, rowVars
  <2> QED BY <2>1, <2>2
<1>7. MoneyInv'
  <2> DEFINE n == clerk[s].amount
             r == [card  |-> IF clerk[s].card THEN ledger[o].card + n ELSE ledger[o].card,
                   other |-> IF clerk[s].card THEN ledger[o].other ELSE ledger[o].other + n]
  <2>1. Booked(o) + n <= Total /\ ledger' = [ledger EXCEPT ![o] = r]
    BY <1>1 DEF WriteRefund, Fits
  <2>2. r \in [card : Nat, other : Nat] /\ r.card + r.other = Booked(o) + n
    BY <1>3 DEF MoneyInv, MoneyTypes, Booked
  <2> HIDE DEF r, n
  <2>3. \A p \in Orders : ledger'[p] = IF p = o THEN r ELSE ledger[p]
    BY <2>1 DEF MoneyInv, MoneyTypes
  <2>4. BookedWithinTotal'
    BY <2>1, <2>2, <2>3 DEF MoneyInv, BookedWithinTotal, Booked
  <2>5. MoneyTypes'
    BY <1>2, <2>1, <2>2 DEF MoneyInv, MoneyTypes
  <2> QED BY <1>2, <2>4, <2>5 DEF MoneyInv, SentBack
<1> QED BY <1>4, <1>5, <1>6, <1>7

-----------------------------------------------------------------------------
(* The theorems.                                                           *)

LEMMA Inductive == IndInv /\ [Next]_vars => IndInv'
<1> SUFFICES ASSUME IndInv, [Next]_vars PROVE IndInv'
  OBVIOUS
<1>1. ASSUME NEW o \in Orders, CustomerStep(o) \/ MarkPaid(o) \/ \E next \in Fulfilled : Fulfil(o, next)
      PROVE  IndInv'
  BY <1>1, CustomerKeeps, StatusKeeps
<1>2. ASSUME NEW c \in Hooks, NEW o \in Orders, Deliver(c, o) PROVE IndInv'
  BY <1>2, CallStarts DEF Calls
<1>3. ASSUME NEW c \in Polls, NEW o \in Orders, Poll(c, o) PROVE IndInv'
  BY <1>3, CallStarts DEF Calls
<1>4. ASSUME NEW c \in Calls, CallStep(c) \/ Abort(c) PROVE IndInv'
  BY <1>4, CallStepKeeps, EndKeeps
<1>5. ASSUME NEW s \in Clerks, ClerkStep(s) PROVE IndInv'
  BY <1>5, ReadsKeep, WriteCancelKeeps, CardRefundKeeps, WriteRefundKeeps DEF ClerkStep
<1>6. CASE UNCHANGED vars
  <2>1. UNCHANGED <<rowVars, recorded, intent, stripe, callVars, clerk, ledger, counter, confirmed>>
    BY <1>6 DEF vars, callVars
  <2> QED BY <2>1, Parts, PartsNext, RestStays, CallsStay
<1> QED BY <1>1, <1>2, <1>3, <1>4, <1>5, <1>6 DEF Next

(* IndInv holds throughout, for any number of orders, of webhook and poll  *)
(* requests that may be cut short, and of staff requests.                  *)
THEOREM OrdersInvariance == Spec => []IndInv
<1>1. Init => IndInv
  BY Initially
<1>2. IndInv /\ [Next]_vars => IndInv'
  BY Inductive
<1> QED BY <1>1, <1>2, PTL DEF Spec

(* Every variable keeps its type.                                          *)
THEOREM OrdersTypeCorrectness == Spec => []TypeOK
<1>1. IndInv => TypeOK
  BY DEF IndInv
<1> QED BY <1>1, OrdersInvariance, PTL

(* The shelf count agrees with the orders' statuses and the restocked      *)
(* refunds: no unit is sold twice, none is lost.                           *)
THEOREM ShelfNeverDrifts == Spec => []ShelfMatchesOrders
<1>1. IndInv => ShelfMatchesOrders
  BY DEF IndInv
<1> QED BY <1>1, OrdersInvariance, PTL

(* No order becomes paid without a charge or a person's word.              *)
THEOREM PaymentsAreReal == Spec => []PaidMeansMoney
<1>1. IndInv => PaidMeansMoney
  BY DEF IndInv
<1> QED BY <1>1, OrdersInvariance, PTL

(* However webhook, redelivery and poll race, at most one of them confirms *)
(* the order to the customer.                                              *)
THEOREM SettledOnce == Spec => []ConfirmedOnce
<1>1. IndInv => ConfirmedOnce
  BY DEF IndInv
<1> QED BY <1>1, OrdersInvariance, PTL

(* The ledger never holds more refunds of an order than it cost.           *)
THEOREM RefundsAreCapped == Spec => []BookedWithinTotal
<1>1. IndInv => BookedWithinTotal
  BY DEF IndInv
<1> QED BY <1>1, OrdersInvariance, PTL

-----------------------------------------------------------------------------
(* Whoever closes a pending order without being asked by staff has seen    *)
(* the whole charge go back first.                                         *)

LEMMA OnlyRefundsClose ==
  IndInv /\ [Next]_vars =>
    [\A o \in Orders : status[o] = "pending" /\ status'[o] = "cancelled" /\ UNCHANGED clerk
        => SentBack(o) = Total]_vars
<1> SUFFICES ASSUME IndInv, Next, NEW o \in Orders,
                    status[o] = "pending", status'[o] = "cancelled", UNCHANGED clerk
             PROVE  SentBack(o) = Total
  OBVIOUS
<1> USE Parts
<1>1. status \in [Orders -> Statuses]
  BY DEF RowInv, RowTypes
<1>2. ASSUME NEW p, NEW next, UpdateStatus(p, next), next # "cancelled" PROVE FALSE
  BY <1>1, <1>2 DEF UpdateStatus
<1>3. ~UNCHANGED rowVars /\ ~UNCHANGED status
  BY DEF rowVars
<1>4. ASSUME NEW p \in Orders, CustomerStep(p) PROVE FALSE
  BY <1>3, <1>4 DEF CustomerStep, StartPayment, RecordReference, PayByCard
<1>5. ASSUME NEW p \in Orders, MarkPaid(p) \/ \E next \in Fulfilled : Fulfil(p, next) PROVE FALSE
  BY <1>2, <1>5 DEF MarkPaid, Fulfil, Fulfilled
<1>6. ASSUME NEW c, NEW p, Deliver(c, p) \/ Poll(c, p) PROVE FALSE
  BY <1>3, <1>6 DEF Deliver, Poll
<1>7. ASSUME NEW s \in Clerks, ClerkStep(s) PROVE FALSE
  <2>1. CASE WriteCancel(s)
    <3>1. clerk'[s].pc = "idle" /\ clerk[s].pc = "cancel"
      BY <2>1 DEF WriteCancel, ClerkTypes, IdleClerk
    <3> QED BY <3>1
  <2> QED BY <1>3, <1>7, <2>1 DEF ClerkStep, ReadForCancel, ReadForRefund, ReadKey, StripeRefunds,
                                  StripeFails, WriteRefund, RefundNotBooked
<1>8. ASSUME NEW c \in Calls, CallStep(c) \/ Abort(c) PROVE SentBack(o) = Total
  <2>1. CASE CancelUnfulfillable(c)
    <3>1. UpdateStatus(call[c].order, "cancelled")
      BY <1>3, <2>1 DEF CancelUnfulfillable
    <3>2. call[c].order = o
      BY <1>1, <3>1 DEF UpdateStatus
    <3>3. SentBack(call[c].order) = Total
      BY <2>1 DEF CancelUnfulfillable, CallInv, Justified
    <3> QED BY <3>2, <3>3
  <2>2. CASE Moved(c)
    BY <1>2, <2>2 DEF Moved
  <2>3. CASE (CallStep(c) /\ ~CancelUnfulfillable(c) /\ ~Moved(c)) \/ Abort(c)
    BY <1>3, <2>3 DEF CallStep, SettleStep, AskStripe, ReadOrder, NotPending, OutOfStock, FoundPaid, FoundElse,
       Step, Conflict, MarkProcessed, RefundUnfulfillable, RefundFails, Abort
  <2> QED BY <1>8, <2>1, <2>2, <2>3
<1> QED BY <1>4, <1>5, <1>6, <1>7, <1>8 DEF Next

(* A pending order is closed behind the customer's back only after all the *)
(* money charged for it has been sent back.                                *)
THEOREM ClosingRefundsFirst == Spec => ClosedMeansSentBack
<1>1. IndInv /\ [Next]_vars =>
        [\A o \in Orders : status[o] = "pending" /\ status'[o] = "cancelled" /\ UNCHANGED clerk
            => SentBack(o) = Total]_vars
  BY OnlyRefundsClose
<1> QED BY <1>1, OrdersInvariance, PTL DEF Spec, ClosedMeansSentBack
=============================================================================
