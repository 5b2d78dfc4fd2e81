-------------------------------- MODULE Till --------------------------------
(***************************************************************************)
(* A sale at the counter: POST /pos/sales (routes/pos/sales.ts) with its   *)
(* idempotency key (migration 0110), complete_sale() and the stock trigger *)
(* it fires (0097, 0060, 0128), a delivery booked in without or with a     *)
(* cost (0123), and the refund of a sale (0099).                           *)
(*                                                                         *)
(* A ticket is one distinct content of the till's screen: the browser      *)
(* keeps one key per ticket and sends it again with every attempt.  A line *)
(* is one unit of a product.  The database runs at READ COMMITTED: a       *)
(* statement sees what was committed when it began, a row that was updated *)
(* stays locked until its transaction ends.                                *)
(***************************************************************************)
EXTENDS Integers, Sequences, FiniteSets

CONSTANTS
  Tickets,        \* contents of the till's screen, one idempotency key each
  Attempts,       \* requests to POST /pos/sales; each makes at most one sale
  TicketOf,       \* the ticket an attempt sends
  Products,       \* products on the shelf
  Lines,          \* per ticket, the sequence of products it sells
  OpeningStock,   \* per product, stock_qty before anything happens
  OpeningCost,    \* per product, cost_price before anything happens
  Deliveries,     \* product lines of deliveries booked in
  DeliveryOf,     \* per delivery, its [product, qty, cost]; cost may be NONE
  Refunders,      \* requests that refund a sale
  Amounts,        \* amounts a refund may ask for; a unit sells for 1
  MaxFaults,      \* bound on the faults charged to a ticket
  NONE

Free == "free"      \* no row in sale_idempotency_keys
Held == "held"      \* a row whose sale_id is null

ASSUME TicketAssumption ==
  /\ TicketOf \in [Attempts -> Tickets]
  /\ Lines \in [Tickets -> Seq(Products)]
  /\ \A t \in Tickets : Lines[t] # << >>
ASSUME AttemptAssumption ==
  /\ IsFiniteSet(Attempts)
  /\ Free \notin Attempts /\ Held \notin Attempts /\ NONE \notin Attempts
  /\ NONE \notin Products
ASSUME StockAssumption ==
  /\ OpeningStock \in [Products -> Nat]
  /\ OpeningCost \in [Products -> Nat]
  /\ DeliveryOf \in [Deliveries -> [product : Products, qty : Nat \ {0}, cost : Nat \cup {NONE}]]
  /\ NONE \notin Nat /\ NONE \notin Refunders
  /\ IsFiniteSet(Deliveries) /\ IsFiniteSet(Refunders)
ASSUME BoundAssumption == MaxFaults \in Nat /\ Amounts \subseteq Nat \ {0}

VARIABLES
  key,        \* per ticket: Free, Held, or the sale recorded against its key
  aged,       \* tickets whose held key is more than two minutes old
  pc,         \* per attempt: where its request stands
  at,         \* per attempt: the line complete_sale's second pass is at
  sales,      \* attempts whose sale is committed
  answer,     \* per attempt: the sale its answer names, or NONE
  stock,      \* per product: products.stock_qty
  cost,       \* per product: products.cost_price
  lock,       \* per product: the attempt whose transaction has its row locked
  delivery,   \* per delivery: "new", "read" (cost looked up) or "in"
  readCost,   \* per delivery: the cost receive_goods_in_line uses
  saleLock,   \* per attempt: the refunder that has its sale row locked
  refund,     \* per refunder: "new", "checked" or "over"
  seen,       \* per refunder: what create_refund read under the lock
  refunded,   \* per attempt: sum of the refunds of its sale
  backIn,     \* refund lines put back on the shelf
  faults      \* per ticket: faults that hit an attempt of it

keyVars == <<key, aged>>
saleVars == <<pc, at, sales, answer>>
shelfVars == <<stock, cost, lock>>
deliveryVars == <<delivery, readCost>>
refundVars == <<saleLock, refund, seen, refunded, backIn>>
vars == <<keyVars, saleVars, shelfVars, deliveryVars, refundVars, faults>>

States == {"idle", "clash", "stale", "rekey", "selling", "failed", "record",
           "done", "refused", "gone"}

(* A request that may still commit a sale or free its key. *)
Live(t) == {a \in Attempts : TicketOf[a] = t /\ pc[a] \in {"rekey", "selling", "failed"}}
Recording(t) == {a \in Attempts : TicketOf[a] = t /\ pc[a] = "record"}
SalesOf(t) == {a \in sales : TicketOf[a] = t}

LinesOf(a) == Lines[TicketOf[a]]
(* Units of p a ticket sells; units an attempt's transaction has taken. *)
Units(t, p) == Cardinality({i \in DOMAIN Lines[t] : Lines[t][i] = p})
Taken(a, p) == Cardinality({i \in 1 .. at[a] - 1 : LinesOf(a)[i] = p})
Total(t) == Len(Lines[t])

(* refund_lines of a sale's product with restocked = true. *)
Restocked(a, p) == Cardinality({l \in backIn : l.sale = a /\ l.product = p})

Init ==
  /\ key = [t \in Tickets |-> Free]
  /\ aged = {}
  /\ pc = [a \in Attempts |-> "idle"]
  /\ at = [a \in Attempts |-> 1]
  /\ sales = {}
  /\ answer = [a \in Attempts |-> NONE]
  /\ stock = OpeningStock
  /\ cost = OpeningCost
  /\ lock = [p \in Products |-> NONE]
  /\ delivery = [d \in Deliveries |-> "new"]
  /\ readCost = [d \in Deliveries |-> 0]
  /\ saleLock = [a \in Attempts |-> NONE]
  /\ refund = [r \in Refunders |-> "new"]
  /\ seen = [r \in Refunders |-> [sale |-> NONE, amount |-> 0, back |-> [p \in Products |-> 0]]]
  /\ refunded = [a \in Attempts |-> 0]
  /\ backIn = {}
  /\ faults = [t \in Tickets |-> 0]

Goto(a, l) == pc' = [pc EXCEPT ![a] = l]
Unlocked(a) == [p \in Products |-> IF lock[p] = a THEN NONE ELSE lock[p]]
Fault(t) == faults[t] < MaxFaults /\ faults' = [faults EXCEPT ![t] = @ + 1]

-----------------------------------------------------------------------------
(* The key. *)

(* insert ... on conflict do nothing returning: the row is this attempt's. *)
Reserve(a) ==
  LET t == TicketOf[a] IN
  /\ pc[a] = "idle"
  /\ key[t] = Free
  /\ key' = [key EXCEPT ![t] = Held]
  /\ aged' = aged \ {t}
  /\ Goto(a, "selling")
  /\ UNCHANGED <<at, sales, answer, shelfVars, deliveryVars, refundVars, faults>>

(* Mutant: the insert's result is not looked at. *)
ClashUnseen(a) ==
  /\ pc[a] = "idle"
  /\ key[TicketOf[a]] # Free
  /\ Goto(a, "selling")
  /\ UNCHANGED <<keyVars, at, sales, answer, shelfVars, deliveryVars, refundVars, faults>>

(* The insert found a row: somebody has the key. *)
Clash(a) ==
  /\ pc[a] = "idle"
  /\ key[TicketOf[a]] # Free
  /\ Goto(a, "clash")
  /\ UNCHANGED <<keyVars, at, sales, answer, shelfVars, deliveryVars, refundVars, faults>>

(* A row with a sale answers with it; else the attempt looks for a stale row. *)
FindEarlier(a) ==
  LET t == TicketOf[a] IN
  /\ pc[a] = "clash"
  /\ IF key[t] \in Attempts
       THEN answer' = [answer EXCEPT ![a] = key[t]] /\ Goto(a, "done")
       ELSE Goto(a, "stale") /\ UNCHANGED answer
  /\ UNCHANGED <<keyVars, at, sales, shelfVars, deliveryVars, refundVars, faults>>

(* Mutant: instead of the 409, look again for the sale the key will get.    *)
FreeStaleWaits(a) ==
  LET t == TicketOf[a] IN
  /\ pc[a] = "stale"
  /\ IF key[t] = Held /\ t \in aged
       THEN key' = [key EXCEPT ![t] = Free] /\ aged' = aged \ {t} /\ Goto(a, "rekey")
       ELSE Goto(a, "clash") /\ UNCHANGED keyVars
  /\ UNCHANGED <<at, sales, answer, shelfVars, deliveryVars, refundVars, faults>>

(* Deletes a row without a sale older than two minutes; without one, a 409. *)
FreeStale(a) ==
  LET t == TicketOf[a] IN
  /\ pc[a] = "stale"
  /\ IF key[t] = Held /\ t \in aged
       THEN key' = [key EXCEPT ![t] = Free] /\ aged' = aged \ {t} /\ Goto(a, "rekey")
       ELSE Goto(a, "refused") /\ UNCHANGED keyVars
  /\ UNCHANGED <<at, sales, answer, shelfVars, deliveryVars, refundVars, faults>>

(* The second insert does not look at whether it inserted anything. *)
Rekey(a) ==
  LET t == TicketOf[a] IN
  /\ pc[a] = "rekey"
  /\ IF key[t] = Free
       THEN key' = [key EXCEPT ![t] = Held] /\ aged' = aged \ {t}
       ELSE UNCHANGED keyVars
  /\ Goto(a, "selling")
  /\ UNCHANGED <<at, sales, answer, shelfVars, deliveryVars, refundVars, faults>>

(* Two minutes pass.  complete_sale is one statement of at most a minute, so *)
(* a key that ages under a working attempt is charged to it as a fault.      *)
Age(t) ==
  /\ key[t] = Held /\ t \notin aged
  /\ aged' = aged \cup {t}
  /\ IF Live(t) \cup Recording(t) # {} THEN Fault(t) ELSE UNCHANGED faults
  /\ UNCHANGED <<key, saleVars, shelfVars, deliveryVars, refundVars>>

-----------------------------------------------------------------------------
(* complete_sale, one line at a time. *)

Wants(a) == LinesOf(a)[at[a]]
Consuming(a) == pc[a] = "selling" /\ at[a] <= Len(LinesOf(a))

(* Mutant: the shelf may go one below nothing. *)
ConsumeOneMore(a) ==
  /\ Consuming(a)
  /\ lock[Wants(a)] \in {NONE, a}
  /\ Taken(a, Wants(a)) <= stock[Wants(a)]
  /\ lock' = [lock EXCEPT ![Wants(a)] = a]
  /\ at' = [at EXCEPT ![a] = @ + 1]
  /\ UNCHANGED <<keyVars, pc, sales, answer, stock, cost, deliveryVars, refundVars, faults>>

(* stock_consume: the trigger locks the product's row; the check on         *)
(* stock_qty lets the unit go while one is left.                            *)
Consume(a) ==
  /\ Consuming(a)
  /\ lock[Wants(a)] \in {NONE, a}
  /\ Taken(a, Wants(a)) < stock[Wants(a)]
  /\ lock' = [lock EXCEPT ![Wants(a)] = a]
  /\ at' = [at EXCEPT ![a] = @ + 1]
  /\ UNCHANGED <<keyVars, pc, sales, answer, stock, cost, deliveryVars, refundVars, faults>>

(* Mutant: the handler of the exception keeps what was taken. *)
RollbackKeeps(a) ==
  /\ pc[a] = "selling"
  /\ stock' = [p \in Products |-> stock[p] - Taken(a, p)]
  /\ lock' = Unlocked(a)
  /\ at' = [at EXCEPT ![a] = 1]
  /\ Goto(a, "failed")
  /\ UNCHANGED <<keyVars, sales, answer, cost, deliveryVars, refundVars, faults>>

(* The function raises: everything it did is undone. *)
Rollback(a) ==
  /\ pc[a] = "selling"
  /\ lock' = Unlocked(a)
  /\ at' = [at EXCEPT ![a] = 1]
  /\ Goto(a, "failed")
  /\ UNCHANGED <<keyVars, sales, answer, stock, cost, deliveryVars, refundVars, faults>>

OutOfStock(a) ==
  /\ Consuming(a)
  /\ lock[Wants(a)] \in {NONE, a}
  /\ Taken(a, Wants(a)) >= stock[Wants(a)]
  /\ Rollback(a)

Waits(a) == Consuming(a) /\ lock[Wants(a)] \notin {NONE, a}
(* Transactions that wait for each other in a circle. *)
Circle(s) ==
  /\ \A a \in s : Waits(a) /\ lock[Wants(a)] \in s
  /\ \A b \in s : \E a \in s : lock[Wants(a)] = b

(* The database breaks a circle by failing one of its transactions. *)
DeadlockVictim(a) ==
  /\ \E s \in SUBSET Attempts : a \in s /\ Circle(s)
  /\ Rollback(a)

(* A bad payment split, a constraint, a statement timeout. *)
Refuse(a) == Rollback(a)

CommitSale(a) ==
  /\ pc[a] = "selling"
  /\ at[a] > Len(LinesOf(a))
  /\ sales' = sales \cup {a}
  /\ stock' = [p \in Products |-> stock[p] - Taken(a, p)]
  /\ lock' = Unlocked(a)
  /\ UNCHANGED <<keyVars, at, answer, cost, deliveryVars, refundVars>>

Commit(a) == CommitSale(a) /\ Goto(a, "record") /\ UNCHANGED faults

(* The commit is done, its answer is lost on the way to the API: an error. *)
CommitUnheard(a) == CommitSale(a) /\ Goto(a, "failed") /\ Fault(TicketOf[a])

-----------------------------------------------------------------------------
(* After complete_sale. *)

(* releaseKey deletes the row of the key, whatever it holds by now. *)
Release(a) ==
  LET t == TicketOf[a] IN
  /\ pc[a] = "failed"
  /\ key' = [key EXCEPT ![t] = Free]
  /\ aged' = aged \ {t}
  /\ Goto(a, "refused")
  /\ UNCHANGED <<at, sales, answer, shelfVars, deliveryVars, refundVars, faults>>

(* An error of releaseKey is swallowed. *)
ReleaseFails(a) ==
  /\ pc[a] = "failed"
  /\ Fault(TicketOf[a])
  /\ Goto(a, "refused")
  /\ UNCHANGED <<keyVars, at, sales, answer, shelfVars, deliveryVars, refundVars>>

(* The sale is written on the row of the key, if there is one. *)
Record(a) ==
  LET t == TicketOf[a] IN
  /\ pc[a] = "record"
  /\ key' = IF key[t] = Free THEN key ELSE [key EXCEPT ![t] = a]
  /\ aged' = aged \ {t}
  /\ answer' = [answer EXCEPT ![a] = a]
  /\ Goto(a, "done")
  /\ UNCHANGED <<at, sales, shelfVars, deliveryVars, refundVars, faults>>

(* An error there is logged; the sale is answered all the same. *)
RecordFails(a) ==
  /\ pc[a] = "record"
  /\ Fault(TicketOf[a])
  /\ answer' = [answer EXCEPT ![a] = a]
  /\ Goto(a, "done")
  /\ UNCHANGED <<keyVars, at, sales, shelfVars, deliveryVars, refundVars>>

(* The API process ends: its requests are lost, their transactions undone. *)
Crash ==
  LET working == {t \in Tickets : Live(t) \cup Recording(t) # {}} IN
  /\ working # {}
  /\ \A t \in working : faults[t] < MaxFaults
  /\ faults' = [t \in Tickets |-> IF t \in working THEN faults[t] + 1 ELSE faults[t]]
  /\ pc' = [a \in Attempts |-> IF pc[a] \in {"idle", "done", "refused"} THEN pc[a] ELSE "gone"]
  /\ lock' = [p \in Products |-> NONE]
  /\ delivery' = [d \in Deliveries |-> IF delivery[d] = "read" THEN "new" ELSE delivery[d]]
  /\ saleLock' = [a \in Attempts |-> NONE]
  /\ refund' = [r \in Refunders |-> IF refund[r] = "checked" THEN "over" ELSE refund[r]]
  /\ UNCHANGED <<keyVars, at, sales, answer, stock, cost, readCost, seen, refunded, backIn>>

-----------------------------------------------------------------------------
(* Deliveries. *)

(* No cost given: receive_goods_in_line takes what the product costs now. *)
ReadCost(d) ==
  /\ delivery[d] = "new"
  /\ readCost' = [readCost EXCEPT ![d] = IF DeliveryOf[d].cost = NONE
                                           THEN cost[DeliveryOf[d].product]
                                           ELSE DeliveryOf[d].cost]
  /\ delivery' = [delivery EXCEPT ![d] = "read"]
  /\ UNCHANGED <<keyVars, saleVars, shelfVars, refundVars, faults>>

(* round(x / y) to the nearest, halves up. *)
Rounded(x, y) == (2 * x + y) \div (2 * y)

(* Mutant: what was on the shelf is left out of the divisor. *)
AverageOverNew(qty, old, more, new) == Rounded(qty * old + more * new, more)

(* Weighted average of what was on the shelf and what came in. *)
AverageCost(qty, old, more, new) == Rounded(qty * old + more * new, qty + more)

Receive(d) ==
  LET p == DeliveryOf[d].product
      n == DeliveryOf[d].qty IN
  /\ delivery[d] = "read"
  /\ lock[p] = NONE
  /\ stock' = [stock EXCEPT ![p] = @ + n]
  /\ cost' = [cost EXCEPT ![p] = AverageCost(stock[p], @, n, readCost[d])]
  /\ delivery' = [delivery EXCEPT ![d] = "in"]
  /\ UNCHANGED <<keyVars, saleVars, lock, readCost, refundVars, faults>>

-----------------------------------------------------------------------------
(* Refunds of a sale. *)

(* Mutant: the sale's row is read without FOR UPDATE. *)
RefundUnlocked(r, a) ==
  /\ refund[r] = "new"
  /\ a \in sales
  /\ saleLock' = [saleLock EXCEPT ![a] = r]
  /\ refund' = [refund EXCEPT ![r] = "checked"]
  /\ seen' = [seen EXCEPT ![r] = [sale |-> a, amount |-> refunded[a],
                                  back |-> [p \in Products |-> Restocked(a, p)]]]
  /\ UNCHANGED <<keyVars, saleVars, shelfVars, deliveryVars, refunded, backIn, faults>>

(* create_refund locks the sale's row, then adds up what was given back. *)
RefundLock(r, a) ==
  /\ refund[r] = "new"
  /\ a \in sales
  /\ saleLock[a] = NONE
  /\ saleLock' = [saleLock EXCEPT ![a] = r]
  /\ refund' = [refund EXCEPT ![r] = "checked"]
  /\ seen' = [seen EXCEPT ![r] = [sale |-> a, amount |-> refunded[a],
                                  back |-> [p \in Products |-> Restocked(a, p)]]]
  /\ UNCHANGED <<keyVars, saleVars, shelfVars, deliveryVars, refunded, backIn, faults>>

AmountFits(r, amount) == seen[r].amount + amount <= Total(TicketOf[seen[r].sale])
LineFits(r, p) == seen[r].back[p] + 1 <= Units(TicketOf[seen[r].sale], p)

(* It fits: the refund is written, and its line p restocked unless p is NONE. *)
RefundCommit(r, amount, p) ==
  LET a == seen[r].sale IN
  /\ refund[r] = "checked"
  /\ AmountFits(r, amount)
  /\ p # NONE => LineFits(r, p) /\ lock[p] = NONE
  /\ refunded' = [refunded EXCEPT ![a] = @ + amount]
  /\ backIn' = IF p = NONE THEN backIn ELSE backIn \cup {[by |-> r, sale |-> a, product |-> p]}
  /\ stock' = IF p = NONE THEN stock ELSE [stock EXCEPT ![p] = @ + 1]
  /\ saleLock' = [saleLock EXCEPT ![a] = NONE]
  /\ refund' = [refund EXCEPT ![r] = "over"]
  /\ UNCHANGED <<keyVars, saleVars, cost, lock, deliveryVars, seen, faults>>

(* It does not: the function raises. *)
RefundRaise(r, amount, p) ==
  /\ refund[r] = "checked"
  /\ ~AmountFits(r, amount) \/ (p # NONE /\ ~LineFits(r, p))
  /\ saleLock' = [saleLock EXCEPT ![seen[r].sale] = NONE]
  /\ refund' = [refund EXCEPT ![r] = "over"]
  /\ UNCHANGED <<keyVars, saleVars, shelfVars, deliveryVars, seen, refunded, backIn, faults>>

-----------------------------------------------------------------------------
Handle(a) ==
  \/ FindEarlier(a) \/ FreeStale(a) \/ Rekey(a)
  \/ Consume(a) \/ OutOfStock(a) \/ Commit(a)
  \/ Release(a) \/ Record(a)

Fails(a) == Refuse(a) \/ CommitUnheard(a) \/ ReleaseFails(a) \/ RecordFails(a)

RefundStep(r) ==
  \/ \E a \in Attempts : RefundLock(r, a)
  \/ \E amount \in Amounts, p \in Products \cup {NONE} :
       RefundCommit(r, amount, p) \/ RefundRaise(r, amount, p)

Next ==
  \/ \E a \in Attempts : \/ Reserve(a) \/ Clash(a)
                         \/ Handle(a) \/ DeadlockVictim(a) \/ Fails(a)
  \/ \E t \in Tickets : Age(t)
  \/ \E d \in Deliveries : ReadCost(d) \/ Receive(d)
  \/ \E r \in Refunders : RefundStep(r)
  \/ Crash

Spec == Init /\ [][Next]_vars

(* A request that began is carried on, and the database looks for circles   *)
(* of waiting transactions after deadlock_timeout.                          *)
Fairness == \A a \in Attempts : WF_vars(Handle(a)) /\ WF_vars(DeadlockVictim(a))
FairSpec == Spec /\ Fairness

-----------------------------------------------------------------------------
(* The variables hold what their comments say. *)
TypeOK ==
  /\ key \in [Tickets -> {Free, Held} \cup Attempts]
  /\ aged \in SUBSET Tickets
  /\ pc \in [Attempts -> States]
  /\ at \in [Attempts -> Nat \ {0}]
  /\ sales \in SUBSET Attempts
  /\ answer \in [Attempts -> Attempts \cup {NONE}]
  /\ stock \in [Products -> Nat]
  /\ cost \in [Products -> Nat]
  /\ lock \in [Products -> Attempts \cup {NONE}]
  /\ delivery \in [Deliveries -> {"new", "read", "in"}]
  /\ readCost \in [Deliveries -> Nat]
  /\ saleLock \in [Attempts -> Refunders \cup {NONE}]
  /\ refund \in [Refunders -> {"new", "checked", "over"}]
  /\ seen \in [Refunders -> [sale : Attempts \cup {NONE}, amount : Nat, back : [Products -> Nat]]]
  /\ refunded \in [Attempts -> Nat]
  /\ backIn \in SUBSET [by : Refunders, sale : Attempts, product : Products]
  /\ faults \in [Tickets -> Nat]

(* One ticket becomes one sale, and each fault that hits an attempt of it   *)
(* (a crash, a lost answer, a failed write of the key, a key that ages      *)
(* under its attempt) can make two more: a retry of what was already sold,  *)
(* and a second holder of a freed key (the unchecked re-insert).            *)
SalesBound == \A t \in Tickets : Cardinality(SalesOf(t)) <= 1 + 2 * faults[t]

(* What the shelf holds is what was there, plus the deliveries that are in  *)
(* and the refund lines put back, less the lines of every committed sale,   *)
(* however the transactions of sales, deliveries and refunds interleave.    *)
Sold(p) == {l \in sales \X UNION {DOMAIN Lines[t] : t \in Tickets} :
              l[2] \in DOMAIN LinesOf(l[1]) /\ LinesOf(l[1])[l[2]] = p}
Received(p) == UNION {{d} \X (1 .. DeliveryOf[d].qty) :
                 d \in {e \in Deliveries : delivery[e] = "in" /\ DeliveryOf[e].product = p}}
Back(p) == {l \in backIn : l.product = p}
ShelfMatches ==
  \A p \in Products :
    stock[p] + Cardinality(Sold(p))
      = OpeningStock[p] + Cardinality(Received(p)) + Cardinality(Back(p))

(* Refunds of one sale, however many clerks press the button at once, never *)
(* exceed its total, and never put back more of a product than it sold.     *)
RefundsWithinSale ==
  \A a \in Attempts :
    /\ refunded[a] <= Total(TicketOf[a])
    /\ \A p \in Products : Restocked(a, p) <= Units(TicketOf[a], p)

(* A sale, a refund or a delivery booked in without a price never takes a   *)
(* product's cost outside the prices it was ever bought at.                 *)
Prices(p) == {OpeningCost[p]} \cup
             {DeliveryOf[d].cost : d \in {e \in Deliveries : DeliveryOf[e].product = p
                                                              /\ DeliveryOf[e].cost # NONE}}
CostWithinPrices ==
  \A p \in Products : /\ \E low \in Prices(p) : low <= cost[p]
                      /\ \E high \in Prices(p) : cost[p] <= high

(* An attempt that began is answered or lost with its process: sales that   *)
(* take the same products in opposite orders do not wait for ever.          *)
EveryAttemptEnds ==
  \A a \in Attempts : pc[a] # "idle" ~> pc[a] \in {"done", "refused", "gone"}

(* The key's promise without faults to excuse it (migration 0110, l. 8-10): *)
(* a repeat of the same key returns the sale already made.                  *)
(* Not always: see Known divergences in the README.                         *)
OneSalePerKey == \A t \in Tickets : Cardinality(SalesOf(t)) <= 1
=============================================================================
