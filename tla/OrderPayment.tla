----------------------------- MODULE OrderPayment -----------------------------
(***************************************************************************)
(* Online orders and their money: the orders table with its status trigger,*)
(* the Stripe webhook and the confirmation page's poll that race to settle *)
(* a paid order, the automatic refund of an order that cannot be filled,   *)
(* and the staff who mark orders paid, move, cancel and refund them.       *)
(*                                                                         *)
(* Every order has one line of one unit of the same product and costs      *)
(* Total.  A handler is a chain of steps, one per SQL statement or Stripe  *)
(* call, and any request may be cut short between two of them.  Stripe is  *)
(* external: it charges once per intent, remembers idempotency keys,       *)
(* refunds no more than it charged, may refund and lose the answer, and    *)
(* delivers an event at least once until it is answered with a 2xx.        *)
(***************************************************************************)
EXTENDS Integers, FiniteSets

CONSTANTS
  Orders,       \* rows of orders, created by the checkout and pending
  Hooks,        \* webhook requests the API serves at the same time
  Polls,        \* payment-status requests it serves at the same time
  Clerks,       \* staff requests to cancel or refund, in flight at the same time
  Total,        \* orders.total, in money units
  Amounts,      \* what a refund may be asked for
  Restocks,     \* the values of a refund's `restock` flag
  OpeningStock, \* units on the shelf
  MaxAborts,    \* bound: webhook and poll requests cut short
  NONE

ASSUME TotalAssumption == Total \in Nat \ {0} /\ Amounts \subseteq 1 .. Total
ASSUME StockAssumption == OpeningStock \in Nat /\ MaxAborts \in Nat
ASSUME OrdersAssumption == IsFiniteSet(Orders) /\ NONE \notin Orders
ASSUME RequestsAssumption == Hooks \intersect Polls = {} /\ Restocks \subseteq BOOLEAN

VARIABLES
  status,    \* orders.status
  paidAt,    \* the orders whose paid_at is set
  recorded,  \* the orders whose provider_reference names the intent
  stock,     \* products.stock_qty
  intent,    \* the payment intent at Stripe
  stripe,    \* refunds at Stripe: money sent back by staff and automatically, keys used
  event,     \* the payment_provider_events row of payment_intent.succeeded
  acked,     \* the orders whose event Stripe has a 2xx for
  call,      \* webhook and poll requests
  aborts,    \* how many of them were cut short
  clerk,     \* staff requests
  ledger,    \* refunds rows of an order: money booked to the card, and otherwise
  returned,  \* history: units put back on the shelf, by a cancel and by refunds
  counter,   \* history: orders staff took the money for at the counter
  confirmed, \* history: confirmation emails sent
  alerted    \* history: orders logged as NEEDS A HUMAN

rowVars  == <<status, paidAt, stock, returned>>
callVars == <<event, acked, call, aborts, confirmed, alerted>>
vars == <<rowVars, recorded, intent, stripe, callVars, clerk, ledger, counter>>

Calls == Hooks \union Polls

Statuses == {"pending", "paid", "ready", "shipped", "collected", "cancelled"}
Fulfilled == {"ready", "shipped", "collected"}

IdleCall == [pc |-> "idle", order |-> NONE, conflict |-> FALSE]
CallStates ==
  [pc : {"idle", "ask", "settle", "move", "recheck", "close", "refund", "cancel"},
   order : Orders \union {NONE}, conflict : BOOLEAN]

(* What had been refunded before, or -1 when that could not be read.       *)
Sums == Nat \union {-1}

IdleClerk == [pc |-> "idle", order |-> NONE, amount |-> 0, card |-> FALSE,
              restock |-> FALSE, already |-> 0]
ClerkStates ==
  [pc : {"idle", "cancel", "key", "stripe", "book"}, order : Orders \union {NONE},
   amount : Amounts \union {0}, card : BOOLEAN, restock : BOOLEAN, already : Sums]

SentBack(o) == stripe[o].staff + stripe[o].auto
Booked(o) == ledger[o].card + ledger[o].other

Init ==
  /\ status = [o \in Orders |-> "pending"]
  /\ paidAt = {} /\ recorded = {} /\ counter = {} /\ acked = {} /\ alerted = {}
  /\ stock = OpeningStock
  /\ intent = [o \in Orders |-> "none"]
  /\ stripe = [o \in Orders |-> [staff |-> 0, auto |-> 0, keys |-> {}]]
  /\ event = [o \in Orders |-> "absent"]
  /\ call = [c \in Calls |-> IdleCall] /\ aborts = 0
  /\ clerk = [s \in Clerks |-> IdleClerk]
  /\ ledger = [o \in Orders |-> [card |-> 0, other |-> 0]]
  /\ returned = [o \in Orders |-> [cancel |-> 0, refund |-> 0]]
  /\ confirmed = [o \in Orders |-> 0]

-----------------------------------------------------------------------------
(* UPDATE orders SET status: the trigger checks the move, takes the unit   *)
(* off the shelf when the order becomes paid and puts it back when a paid  *)
(* or ready order is cancelled.  It rejects the statement otherwise.       *)

AllowedNext(s) ==
  CASE s = "pending" -> {"paid", "cancelled"}
    [] s = "paid"    -> {"ready", "shipped", "collected", "cancelled"}
    [] s = "ready"   -> {"shipped", "collected", "cancelled"}
    [] OTHER         -> {}

(* Mutant: every cancelled order gives its unit back.                      *)
PutsBackAlways(o, next) == next = "cancelled" /\ status[o] # "cancelled"

PutsBack(o, next) == next = "cancelled" /\ status[o] \in {"paid", "ready"}

(* Mutant: the shelf is not checked.                                       *)
Oversells(o, next) ==
  /\ next \in AllowedNext(status[o])
  /\ status' = [status EXCEPT ![o] = next]
  /\ paidAt' = IF next = "paid" THEN paidAt \union {o} ELSE paidAt
  /\ stock' = IF next = "paid" THEN stock - 1 ELSE IF PutsBack(o, next) THEN stock + 1 ELSE stock
  /\ UNCHANGED returned

UpdateStatus(o, next) ==
  /\ next \in AllowedNext(status[o])
  /\ next = "paid" => stock > 0
  /\ status' = [status EXCEPT ![o] = next]
  /\ paidAt' = IF next = "paid" THEN paidAt \union {o} ELSE paidAt
  /\ stock' = IF next = "paid" THEN stock - 1 ELSE IF PutsBack(o, next) THEN stock + 1 ELSE stock
  /\ returned' = IF PutsBack(o, next)
                 THEN [returned EXCEPT ![o] = [cancel |-> @.cancel + 1, refund |-> @.refund]]
                 ELSE returned

-----------------------------------------------------------------------------
(* The customer.                                                           *)

(* POST /:reference/payment-intent: one intent per order, by its key.      *)
StartPayment(o) ==
  /\ status[o] = "pending" /\ intent[o] = "none"
  /\ intent' = [intent EXCEPT ![o] = "open"]
  /\ UNCHANGED <<rowVars, recorded, stripe, callVars, clerk, ledger, counter>>

(* ... which is then written to the order, whatever became of it.          *)
RecordReference(o) ==
  /\ intent[o] # "none"
  /\ recorded' = recorded \union {o}
  /\ UNCHANGED <<rowVars, intent, stripe, callVars, clerk, ledger, counter>>

(* Stripe charges the card.  Nothing closes the intent of a cancelled      *)
(* order, so this may come at any time.                                    *)
PayByCard(o) ==
  /\ intent[o] = "open"
  /\ intent' = [intent EXCEPT ![o] = "succeeded"]
  /\ UNCHANGED <<rowVars, recorded, stripe, callVars, clerk, ledger, counter>>

-----------------------------------------------------------------------------
(* The webhook and the poll.                                               *)

(* Mutant: an event seen before is taken to be done.                       *)
DeliverOnce(c, o) ==
  /\ call[c].pc = "idle" /\ intent[o] = "succeeded"
  /\ event' = [event EXCEPT ![o] = IF @ = "absent" THEN "open" ELSE @]
  /\ IF event[o] # "absent"
     THEN acked' = acked \union {o} /\ UNCHANGED call
     ELSE /\ call' = [call EXCEPT ![c] = [pc |-> "settle", order |-> o, conflict |-> FALSE]]
          /\ UNCHANGED acked
  /\ UNCHANGED <<rowVars, recorded, intent, stripe, aborts, confirmed, alerted, clerk, ledger, counter>>

(* Mutant: every event of the intent is acted on.                          *)
DeliverAny(c, o) ==
  /\ call[c].pc = "idle" /\ intent[o] # "none"
  /\ call' = [call EXCEPT ![c] = [pc |-> "settle", order |-> o, conflict |-> FALSE]]
  /\ UNCHANGED <<rowVars, recorded, intent, stripe, event, acked, aborts, confirmed, alerted,
                 clerk, ledger, counter>>

(* POST /webhooks/stripe: record first; an event already processed is      *)
(* answered at once, one recorded and left open is worked on again.        *)
Deliver(c, o) ==
  /\ call[c].pc = "idle" /\ intent[o] = "succeeded"
  /\ event' = [event EXCEPT ![o] = IF @ = "absent" THEN "open" ELSE @]
  /\ IF event[o] = "processed"
     THEN acked' = acked \union {o} /\ UNCHANGED call
     ELSE /\ call' = [call EXCEPT ![c] = [pc |-> "settle", order |-> o, conflict |-> FALSE]]
          /\ UNCHANGED acked
  /\ UNCHANGED <<rowVars, recorded, intent, stripe, aborts, confirmed, alerted, clerk, ledger, counter>>

(* GET /:reference/payment-status of a pending order ...                   *)
Poll(c, o) ==
  /\ call[c].pc = "idle"
  /\ o \in recorded /\ status[o] = "pending"
  /\ call' = [call EXCEPT ![c] = [pc |-> "ask", order |-> o, conflict |-> FALSE]]
  /\ UNCHANGED <<rowVars, recorded, intent, stripe, event, acked, aborts, confirmed, alerted,
                 clerk, ledger, counter>>

Goto(c, pc) == call' = [call EXCEPT ![c].pc = pc]
Done(c) == call' = [call EXCEPT ![c] = IdleCall]

(* Only call[c] moves.                                                     *)
Step(c, pc, next) ==
  /\ call[c].pc = pc
  /\ IF next = "idle" THEN Done(c) ELSE Goto(c, next)
  /\ UNCHANGED <<rowVars, recorded, intent, stripe, event, acked, aborts, confirmed, alerted,
                 clerk, ledger, counter>>

(* Mutant: the poll trusts the page that says it has paid.                 *)
AskTrusting(c) == Step(c, "ask", "settle")

(* ... asks Stripe whether it has been paid.                               *)
AskStripe(c) == Step(c, "ask", IF intent[call[c].order] = "succeeded" THEN "settle" ELSE "idle")

(* settleOrderPaid ends well: the webhook closes its event, the poll is    *)
(* done.                                                                   *)
AfterSettled(c) == IF c \in Hooks THEN "close" ELSE "idle"

(* settleOrderPaid: read the order.                                        *)
ReadOrder(c) ==
  Step(c, "settle", IF status[call[c].order] = "paid" THEN AfterSettled(c) ELSE "move")

(* Mutant: the confirmation goes out whether or not the row moved.         *)
MovedBlindly(c) ==
  LET o == call[c].order IN
  /\ call[c].pc = "move"
  /\ IF status[o] = "pending" THEN UpdateStatus(o, "paid") ELSE UNCHANGED rowVars
  /\ recorded' = recorded \union {o}
  /\ confirmed' = [confirmed EXCEPT ![o] = @ + 1]
  /\ IF c \in Hooks THEN Goto(c, "close") ELSE Done(c)
  /\ UNCHANGED <<intent, stripe, event, acked, aborts, alerted, clerk, ledger, counter>>

(* The move itself, `where status = pending`; whoever makes it sends the   *)
(* confirmation.                                                           *)
Moved(c) ==
  LET o == call[c].order IN
  /\ call[c].pc = "move"
  /\ status[o] = "pending" /\ UpdateStatus(o, "paid")
  /\ recorded' = recorded \union {o}
  /\ confirmed' = [confirmed EXCEPT ![o] = @ + 1]
  /\ IF c \in Hooks THEN Goto(c, "close") ELSE Done(c)
  /\ UNCHANGED <<intent, stripe, event, acked, aborts, alerted, clerk, ledger, counter>>

NotPending(c) ==
  call[c].pc = "move" /\ status[call[c].order] # "pending" /\ Step(c, "move", "recheck")

(* The order cannot become paid: the webhook closes its event and then     *)
(* refunds, the poll refunds.                                              *)
Conflict(c, pc) ==
  /\ call[c].pc = pc
  /\ call' = [call EXCEPT ![c] = [pc |-> IF c \in Hooks THEN "close" ELSE "refund",
                                  order |-> @.order, conflict |-> TRUE]]
  /\ UNCHANGED <<rowVars, recorded, intent, stripe, event, acked, aborts, confirmed, alerted,
                 clerk, ledger, counter>>

(* "Not enough stock", raised inside the trigger.                          *)
OutOfStock(c) ==
  call[c].pc = "move" /\ status[call[c].order] = "pending" /\ stock = 0 /\ Conflict(c, "move")

(* Nothing moved: read again who was first.                                *)
FoundPaid(c) ==
  call[c].pc = "recheck" /\ status[call[c].order] = "paid" /\ Step(c, "recheck", AfterSettled(c))
FoundElse(c) ==
  call[c].pc = "recheck" /\ status[call[c].order] # "paid" /\ Conflict(c, "recheck")

(* markProcessed, whose own failure is ignored.                            *)
MarkProcessed(c, written) ==
  LET o == call[c].order IN
  /\ call[c].pc = "close"
  /\ event' = IF written THEN [event EXCEPT ![o] = "processed"] ELSE event
  /\ IF call[c].conflict
     THEN Goto(c, "refund") /\ UNCHANGED acked
     ELSE Done(c) /\ acked' = acked \union {o}
  /\ UNCHANGED <<rowVars, recorded, intent, stripe, aborts, confirmed, alerted, clerk, ledger, counter>>

(* refundUnfulfillableOrder: everything still at Stripe goes back, once    *)
(* per order; a charge already refunded counts as refunded.                *)
SendAllBack(o) ==
  stripe' = [stripe EXCEPT ![o] = [staff |-> @.staff, auto |-> @.auto + (Total - SentBack(o)),
                                   keys |-> @.keys]]

RefundUnfulfillable(c) ==
  /\ call[c].pc = "refund"
  /\ SendAllBack(call[c].order)
  /\ Goto(c, "cancel")
  /\ UNCHANGED <<rowVars, recorded, intent, event, acked, aborts, confirmed, alerted, clerk, ledger, counter>>

Acknowledge(c) == acked' = IF c \in Hooks THEN acked \union {call[c].order} ELSE acked

(* Mutant: a refund that failed closes the order all the same.             *)
FailsSoftly(c) ==
  /\ call[c].pc = "refund"
  /\ Goto(c, "cancel")
  /\ alerted' = alerted \union {call[c].order}
  /\ UNCHANGED <<rowVars, recorded, intent, stripe, event, acked, aborts, confirmed, clerk, ledger, counter>>

(* Stripe refused, or its answer was lost: log it for a person.            *)
RefundFails(c) ==
  /\ call[c].pc = "refund"
  /\ UNCHANGED stripe \/ SendAllBack(call[c].order)
  /\ Done(c) /\ Acknowledge(c)
  /\ alerted' = alerted \union {call[c].order}
  /\ UNCHANGED <<rowVars, recorded, intent, event, aborts, confirmed, clerk, ledger, counter>>

(* Close the order, `where status = pending`; a failure to is ignored.     *)
CancelUnfulfillable(c) ==
  LET o == call[c].order IN
  /\ call[c].pc = "cancel"
  /\ (status[o] = "pending" /\ UpdateStatus(o, "cancelled")) \/ UNCHANGED rowVars
  /\ Done(c) /\ Acknowledge(c)
  /\ UNCHANGED <<recorded, intent, stripe, event, aborts, confirmed, alerted, clerk, ledger, counter>>

(* The process stops, or the database fails: a webhook gets no 2xx.        *)
Abort(c) ==
  /\ call[c].pc # "idle" /\ aborts < MaxAborts
  /\ aborts' = aborts + 1
  /\ Done(c)
  /\ UNCHANGED <<rowVars, recorded, intent, stripe, event, acked, confirmed, alerted,
                 clerk, ledger, counter>>

-----------------------------------------------------------------------------
(* Staff.                                                                  *)

(* POST /:reference/paid: money that did not arrive through Stripe.        *)
MarkPaid(o) ==
  /\ UpdateStatus(o, "paid")
  /\ counter' = counter \union {o}
  /\ UNCHANGED <<recorded, intent, stripe, callVars, clerk, ledger>>

(* POST /id/:id/status to ready, shipped or collected.                     *)
Fulfil(o, next) ==
  /\ next \in Fulfilled /\ UpdateStatus(o, next)
  /\ UNCHANGED <<recorded, intent, stripe, callVars, clerk, ledger, counter>>

(* POST /id/:id/status to cancelled: a paid order must have been refunded  *)
(* in full ...                                                             *)
ReadForCancel(s, o) ==
  /\ clerk[s].pc = "idle"
  /\ o \in paidAt => Booked(o) >= Total
  /\ clerk' = [clerk EXCEPT ![s] = [IdleClerk EXCEPT !.pc = "cancel", !.order = o]]
  /\ UNCHANGED <<rowVars, recorded, intent, stripe, callVars, ledger, counter>>

(* ... and then the order is cancelled, whatever it is by now.             *)
WriteCancel(s) ==
  LET o == clerk[s].order IN
  /\ clerk[s].pc = "cancel"
  /\ IF "cancelled" \in AllowedNext(status[o]) THEN UpdateStatus(o, "cancelled") ELSE UNCHANGED rowVars
  /\ clerk' = [clerk EXCEPT ![s] = IdleClerk]
  /\ UNCHANGED <<recorded, intent, stripe, callVars, ledger, counter>>

(* POST /pos/refunds of an order: the amount must be left to refund.  A    *)
(* card order may be refunded otherwise too, by an override.               *)
ReadForRefund(s, o, amount, card, restock) ==
  /\ clerk[s].pc = "idle"
  /\ amount + Booked(o) <= Total
  /\ card => o \in recorded
  /\ clerk' = [clerk EXCEPT ![s] =
       [pc |-> IF card THEN "key" ELSE "book", order |-> o, amount |-> amount, card |-> card,
        restock |-> restock, already |-> 0]]
  /\ UNCHANGED <<rowVars, recorded, intent, stripe, callVars, ledger, counter>>

(* What has been refunded so far becomes part of the idempotency key; a    *)
(* failure to read it is not fatal.                                        *)
ReadKey(s, read) ==
  /\ clerk[s].pc = "key"
  /\ clerk' = [clerk EXCEPT ![s].pc = "stripe",
                            ![s].already = IF read THEN Booked(clerk[s].order) ELSE -1]
  /\ UNCHANGED <<rowVars, recorded, intent, stripe, callVars, ledger, counter>>

Key(s) == [amount |-> clerk[s].amount, already |-> clerk[s].already]

(* Stripe refunds, or returns the refund it made under the same key.       *)
CardRefund(s) ==
  LET o == clerk[s].order IN
  IF Key(s) \in stripe[o].keys THEN UNCHANGED stripe
  ELSE /\ intent[o] = "succeeded" /\ SentBack(o) + clerk[s].amount <= Total
       /\ stripe' = [stripe EXCEPT ![o] = [staff |-> @.staff + clerk[s].amount, auto |-> @.auto,
                                           keys |-> @.keys \union {Key(s)}]]

StripeRefunds(s) ==
  /\ clerk[s].pc = "stripe"
  /\ CardRefund(s)
  /\ clerk' = [clerk EXCEPT ![s].pc = "book"]
  /\ UNCHANGED <<rowVars, recorded, intent, callVars, ledger, counter>>

(* Stripe refused, or its answer was lost, or the API stopped.             *)
StripeFails(s) ==
  /\ clerk[s].pc = "stripe"
  /\ UNCHANGED stripe \/ CardRefund(s)
  /\ clerk' = [clerk EXCEPT ![s] = IdleClerk]
  /\ UNCHANGED <<rowVars, recorded, intent, callVars, ledger, counter>>

(* Mutant: create_refund relies on the check its caller made.              *)
FitsUnchecked(s) ==
  clerk[s].restock => returned[clerk[s].order].refund = 0

(* create_refund's checks, made under a lock on the order: no more money   *)
(* than the total, no more units than the order's lines.                   *)
Fits(s) ==
  /\ Booked(clerk[s].order) + clerk[s].amount <= Total
  /\ clerk[s].restock => returned[clerk[s].order].refund = 0

WriteRefund(s) ==
  LET o == clerk[s].order IN
  /\ clerk[s].pc = "book" /\ Fits(s)
  /\ ledger' = [ledger EXCEPT ![o] =
       [card  |-> IF clerk[s].card THEN @.card + clerk[s].amount ELSE @.card,
        other |-> IF clerk[s].card THEN @.other ELSE @.other + clerk[s].amount]]
  /\ IF clerk[s].restock
     THEN /\ stock' = stock + 1
          /\ returned' = [returned EXCEPT ![o] = [cancel |-> @.cancel, refund |-> @.refund + 1]]
     ELSE UNCHANGED <<stock, returned>>
  /\ clerk' = [clerk EXCEPT ![s] = IdleClerk]
  /\ UNCHANGED <<status, paidAt, recorded, intent, stripe, callVars, counter>>

(* The ledger refuses, or cannot be reached.                               *)
RefundNotBooked(s) ==
  /\ clerk[s].pc = "book"
  /\ clerk' = [clerk EXCEPT ![s] = IdleClerk]
  /\ UNCHANGED <<rowVars, recorded, intent, stripe, callVars, ledger, counter>>

-----------------------------------------------------------------------------

CustomerStep(o) == StartPayment(o) \/ RecordReference(o) \/ PayByCard(o)

SettleStep(c) ==
  \/ AskStripe(c) \/ ReadOrder(c)
  \/ Moved(c) \/ NotPending(c) \/ OutOfStock(c)
  \/ FoundPaid(c) \/ FoundElse(c)

CallStep(c) ==
  \/ SettleStep(c)
  \/ \E written \in BOOLEAN : MarkProcessed(c, written)
  \/ RefundUnfulfillable(c) \/ RefundFails(c) \/ CancelUnfulfillable(c)

ClerkStep(s) ==
  \/ \E o \in Orders : ReadForCancel(s, o)
  \/ WriteCancel(s)
  \/ \E o \in Orders, amount \in Amounts, card \in BOOLEAN, restock \in Restocks :
       ReadForRefund(s, o, amount, card, restock)
  \/ \E read \in BOOLEAN : ReadKey(s, read)
  \/ StripeRefunds(s) \/ StripeFails(s)
  \/ WriteRefund(s) \/ RefundNotBooked(s)

Next ==
  \/ \E o \in Orders : CustomerStep(o) \/ MarkPaid(o) \/ \E next \in Fulfilled : Fulfil(o, next)
  \/ \E c \in Hooks, o \in Orders : Deliver(c, o)
  \/ \E c \in Polls, o \in Orders : Poll(c, o)
  \/ \E c \in Calls : CallStep(c) \/ Abort(c)
  \/ \E s \in Clerks : ClerkStep(s)

Spec == Init /\ [][Next]_vars

(* Stripe retries an event it has no 2xx for, however busy the API is, and *)
(* a request that was accepted is worked on.                               *)
Fairness ==
  /\ \A o \in Orders : SF_vars(o \notin acked /\ \E c \in Hooks : Deliver(c, o))
  /\ \A c \in Calls : WF_vars(CallStep(c))

FairSpec == Spec /\ Fairness

-----------------------------------------------------------------------------
(* Properties.                                                             *)

TypeOK ==
  /\ status \in [Orders -> Statuses]
  /\ paidAt \subseteq Orders /\ recorded \subseteq Orders /\ acked \subseteq Orders
  /\ counter \subseteq Orders /\ alerted \subseteq Orders
  /\ stock \in Nat /\ aborts \in Nat
  /\ intent \in [Orders -> {"none", "open", "succeeded"}]
  /\ stripe \in [Orders -> [staff : Nat, auto : Nat, keys : SUBSET [amount : Nat, already : Sums]]]
  /\ event \in [Orders -> {"absent", "open", "processed"}]
  /\ call \in [Calls -> CallStates]
  /\ \A c \in Calls : call[c].pc # "idle" => call[c].order \in Orders
  /\ clerk \in [Clerks -> ClerkStates]
  /\ \A s \in Clerks : clerk[s].pc # "idle" => clerk[s].order \in Orders
  /\ ledger \in [Orders -> [card : Nat, other : Nat]]
  /\ returned \in [Orders -> [cancel : Nat, refund : Nat]]
  /\ confirmed \in [Orders -> Nat]

(* The shelf count agrees with the orders: however settling, cancelling    *)
(* and refunding interleave, exactly the orders that are paid, ready,      *)
(* shipped or collected hold a unit, and a refund brings back at most one. *)
HoldsUnit(o) == status[o] \in {"paid"} \union Fulfilled
ShelfMatchesOrders ==
  /\ stock + Cardinality({o \in Orders : HoldsUnit(o)})
       = OpeningStock + Cardinality({o \in Orders : returned[o].refund = 1})
  /\ \A o \in Orders : returned[o].refund \in {0, 1}

(* An order has been paid only if Stripe has charged its intent or staff   *)
(* took the money, whichever request moved it.                             *)
PaidMeansMoney == \A o \in paidAt : intent[o] = "succeeded" \/ o \in counter

(* "the confirmation email goes out exactly once": never twice, and never  *)
(* for an order that was not paid, though the webhook, its redelivery and  *)
(* the poll race to settle it.                                             *)
ConfirmedOnce == \A o \in Orders : confirmed[o] <= IF o \in paidAt THEN 1 ELSE 0

(* The ledger never holds more refunds than the order cost, though each    *)
(* request made its first check before others were booked.                 *)
BookedWithinTotal == \A o \in Orders : Booked(o) <= Total

(* Only a person closes an unpaid order whose charge has not gone back.    *)
ClosedMeansSentBack ==
  [][\A o \in Orders :
       status[o] = "pending" /\ status'[o] = "cancelled" /\ UNCHANGED clerk
         => SentBack(o) = Total]_vars

(* "Stripe's retry must run the work again, or a charged order would stay  *)
(* unpaid forever": a charge is not left on an untouched order.            *)
Answered(o) ==
  o \in paidAt \/ SentBack(o) = Total \/ o \in alerted \/ event[o] = "processed"
ChargeIsAnswered == \A o \in Orders : intent[o] = "succeeded" ~> Answered(o)

(* "The order never became `paid`, so the shop never booked the takings    *)
(* this would reverse": what is refunded automatically was never paid      *)
(* (unless the customer paid again at the counter).                        *)
(* Not always: see Known divergences in the README.                         *)
AutoRefundMeansNeverPaid ==
  \A o \in Orders : stripe[o].auto > 0 => o \notin paidAt \/ o \in counter

(* "processed_at proves we did something about it": once nobody works on   *)
(* it any more, a processed event's order is paid, refunded or reported.   *)
InHand(o) == \E c \in Calls : call[c].order = o
(* Not always: see Known divergences in the README.                         *)
ProcessedMeansHandled ==
  \A o \in Orders : event[o] = "processed" /\ ~InHand(o)
                       => o \in paidAt \/ SentBack(o) = Total \/ o \in alerted

(* The worse half, says 0076, is when "stock_receive() puts units back on  *)
(* the shelf that were never sold": an order's unit goes back once, by its *)
(* refund or by its cancellation.                                          *)
(* Not always: see Known divergences in the README.                         *)
RestockedOnce == \A o \in Orders : returned[o].cancel + returned[o].refund <= 1

(* "A genuine retry ... Still deduplicated": the ledger does not say more  *)
(* went back to the card than did.                                         *)
(* Not always: see Known divergences in the README.                         *)
BookedMeansSent == \A o \in Orders : ledger[o].card <= stripe[o].staff

-----------------------------------------------------------------------------
(* Why they hold.  An order is marked paid out of "pending" only, which it *)
(* never returns to; who settles it has seen the charge; who closes it has *)
(* sent the money back.                                                    *)

PendingIsUnpaid == \A o \in Orders : status[o] = "pending" => o \notin paidAt

CallsAreJustified ==
  /\ \A c \in Calls :
       /\ call[c].pc \notin {"idle", "ask"} => intent[call[c].order] = "succeeded"
       /\ call[c].pc = "cancel" => SentBack(call[c].order) = Total
  /\ \A o \in Orders : SentBack(o) <= Total

IndInv ==
  /\ TypeOK
  /\ ShelfMatchesOrders
  /\ PaidMeansMoney
  /\ ConfirmedOnce
  /\ BookedWithinTotal
  /\ PendingIsUnpaid
  /\ CallsAreJustified
=============================================================================
