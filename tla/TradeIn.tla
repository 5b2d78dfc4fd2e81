------------------------------- MODULE TradeIn -------------------------------
(***************************************************************************)
(* Buying a device in: the request, the quote, the customer's acceptance   *)
(* by a link or through staff, the money paid out and the resale product   *)
(* made of it (routes/sell.routes.ts; migrations 0007, 0097).              *)
(*                                                                         *)
(* A payout request reads the offer, then what was paid before, then       *)
(* inserts; a restock reads its payout, then writes.  Nothing is held in   *)
(* between.  Other requests are single statements, which the row's update  *)
(* lock puts in an order.                                                  *)
(***************************************************************************)
EXTENDS Integers, Sequences, FiniteSets

CONSTANTS
  Requests,    \* sell_requests
  Links,       \* acceptance tokens that may be issued
  Calls,       \* payout and restock requests that may be in flight at once
  Amounts,     \* pence that may be quoted or paid
  Names,       \* names a restocked product may be given, told apart by slugify
  MaxPayouts,  \* bound: rows of trade_in_payouts
  NONE

ASSUME TradeInAssumption ==
  /\ Amounts \subseteq Nat \ {0}
  /\ MaxPayouts \in Nat
  /\ NONE \notin Requests \cup Nat

VARIABLES
  status,   \* per request: sell_requests.status
  offer,    \* per request: quoted_amount, or NONE
  best,     \* per request: the highest amount it was ever quoted
  link,     \* per link: the request it accepts, or NONE before it is issued
  dead,     \* links used or expired
  taken,    \* per request: the amount it was accepted at, NONE before
  payouts,  \* rows of trade_in_payouts, in order
  shelf,    \* <<payout, name>> of the products made by restocking
  call      \* per request in flight: where it stands

requestVars == <<status, offer, best, taken>>
linkVars == <<link, dead>>
payoutVars == <<payouts, shelf>>
vars == <<requestVars, linkVars, payoutVars, call>>

Statuses == {"submitted", "quoted", "accepted", "received", "paid", "declined", "rejected"}
Idle == [pc |-> "idle", for |-> NONE, amount |-> 0, offer |-> NONE, approve |-> FALSE, seen |-> 0]
Amount(p) == payouts[p].amount
PaidFor(r) == {p \in DOMAIN payouts : payouts[p].for = r}

Init ==
  /\ status = [r \in Requests |-> "submitted"]
  /\ offer = [r \in Requests |-> NONE]
  /\ best = [r \in Requests |-> 0]
  /\ link = [t \in Links |-> NONE]
  /\ dead = {}
  /\ taken = [r \in Requests |-> NONE]
  /\ payouts = << >>
  /\ shelf = {}
  /\ call = [c \in Calls |-> Idle]

-----------------------------------------------------------------------------
(* sell_requests_validate_status_transition, before every update. *)

(* Mutant: an accepted offer may be made again. *)
RenegotiableNext(s) ==
  CASE s = "submitted" -> {"quoted", "declined"}
    [] s = "quoted"    -> {"accepted", "declined"}
    [] s = "accepted"  -> {"received", "paid", "quoted"}
    [] s = "received"  -> {"paid", "rejected"}
    [] OTHER           -> {}
(* Mutant: a declined or rejected device can still be paid for. *)
PayableNext(s) ==
  CASE s = "submitted" -> {"quoted", "declined"}
    [] s = "quoted"    -> {"accepted", "declined", "paid"}
    [] s = "accepted"  -> {"received", "paid"}
    [] s = "received"  -> {"paid", "rejected"}
    [] OTHER           -> {}
(* Mutant: a declined request can be quoted again. *)
ReopenedNext(s) ==
  CASE s \in {"submitted", "declined"} -> {"quoted", "declined"}
    [] s = "quoted"    -> {"accepted", "declined"}
    [] s = "accepted"  -> {"received", "paid"}
    [] s = "received"  -> {"paid", "rejected"}
    [] OTHER           -> {}
AllowedNext(s) ==
  CASE s = "submitted" -> {"quoted", "declined"}
    [] s = "quoted"    -> {"accepted", "declined"}
    [] s = "accepted"  -> {"received", "paid"}
    [] s = "received"  -> {"paid", "rejected"}
    [] OTHER           -> {}
MayBecome(r, s) == s = status[r] \/ s \in AllowedNext(status[r])

(* Accepting takes the offer as it is at that moment. *)
Take(r) == taken' = [taken EXCEPT ![r] = offer[r]]

(* POST .../quote: the amount and the status in one update. *)
Quote(r, amount) ==
  /\ MayBecome(r, "quoted")
  /\ status' = [status EXCEPT ![r] = "quoted"]
  /\ offer' = [offer EXCEPT ![r] = amount]
  /\ best' = [best EXCEPT ![r] = IF amount > @ THEN amount ELSE @]
  /\ UNCHANGED <<taken, linkVars, payoutVars, call>>

(* Mutant: staff may also mark a request paid. *)
AnyStatus == {"accepted", "declined", "received", "rejected", "paid"}
(* sellStatusBodySchema: never `paid`, which a payout sets. *)
StaffStatuses == {"accepted", "declined", "received", "rejected"}
SetStatus(r, s) ==
  /\ s \in StaffStatuses
  /\ MayBecome(r, s)
  /\ status' = [status EXCEPT ![r] = s]
  /\ IF s = "accepted" /\ status[r] # "accepted" THEN Take(r) ELSE UNCHANGED taken
  /\ UNCHANGED <<offer, best, linkVars, payoutVars, call>>

-----------------------------------------------------------------------------
(* The acceptance link. *)

(* POST .../accept-token *)
Issue(t, r) ==
  /\ link[t] = NONE
  /\ status[r] = "quoted"
  /\ link' = [link EXCEPT ![t] = r]
  /\ UNCHANGED <<requestVars, dead, payoutVars, call>>

Live(t) == link[t] # NONE /\ t \notin dead

(* redeem_sell_acceptance_token: the token is spent even when the request  *)
(* has moved on, and then nothing else happens.                            *)
Redeem(t) ==
  LET r == link[t] IN
  /\ Live(t)
  /\ dead' = dead \cup {t}
  /\ IF status[r] = "quoted"
       THEN /\ status' = [status EXCEPT ![r] = "accepted"]
            /\ Take(r)
       ELSE UNCHANGED <<status, taken>>
  /\ UNCHANGED <<offer, best, link, payoutVars, call>>

Expire(t) ==
  /\ Live(t)
  /\ dead' = dead \cup {t}
  /\ UNCHANGED <<requestVars, link, payoutVars, call>>

-----------------------------------------------------------------------------
(* POST .../payout and POST /payouts (a walk-in, r = NONE). *)

(* One person's requests and two people's are alike: nothing keeps a second  *)
(* one waiting.  `approve` is an override asked by somebody who may.         *)
ReadOffer(c, r, amount, approve) ==
  /\ call[c].pc = "idle"
  /\ call' = [call EXCEPT ![c] =
       [pc |-> "offer", for |-> r, amount |-> amount, approve |-> approve,
        offer |-> IF r = NONE THEN NONE ELSE offer[r], seen |-> 0]]
  /\ UNCHANGED <<requestVars, linkVars, payoutVars>>

SumOf(S) ==
  LET f[n \in 0 .. Len(payouts)] ==
        IF n = 0 THEN 0 ELSE f[n - 1] + IF n \in S THEN Amount(n) ELSE 0
  IN f[Len(payouts)]

(* Mutant: what was paid on the request before is not counted. *)
BeyondThisAlone(c) == call[c].offer # NONE /\ call[c].amount > call[c].offer
Beyond(c) ==
  call[c].offer # NONE /\ SumOf(PaidFor(call[c].for)) + call[c].amount > call[c].offer

(* payoutExceptions: more than the offer in all, or (short) more cash than *)
(* the drawer should hold; only an approver may pay it then, on purpose:   *)
(* anybody else's `override` is refused, as if it had not been asked.      *)
(* `seen` is history: the rows there were when what was paid was read.     *)
ReadPaid(c, short) ==
  /\ call[c].pc = "offer"
  /\ call' = [call EXCEPT ![c] =
       IF ~Beyond(c) /\ ~short
         THEN [@ EXCEPT !.pc = "clear", !.approve = FALSE, !.seen = Len(payouts)]
       ELSE IF call[c].approve THEN [@ EXCEPT !.pc = "clear", !.seen = Len(payouts)]
       ELSE Idle]
  /\ UNCHANGED <<requestVars, linkVars, payoutVars>>

(* The row keeps -amount, always below zero; here it is what went out.     *)
MoneyOut(n) == n

(* An ordinary payout met an offer and was not approved beyond it.         *)
(* The insert; its trigger moves the request to `paid` or undoes it.       *)
Pay(c) ==
  LET r == call[c].for IN
  /\ call[c].pc = "clear"
  /\ Len(payouts) < MaxPayouts
  /\ r # NONE => MayBecome(r, "paid")
  /\ payouts' = Append(payouts, [for |-> r, amount |-> MoneyOut(call[c].amount),
                                 seen |-> call[c].seen,
                                 ordinary |-> call[c].offer # NONE /\ ~call[c].approve,
                                 restocked |-> FALSE])
  /\ status' = IF r = NONE THEN status ELSE [status EXCEPT ![r] = "paid"]
  /\ call' = [call EXCEPT ![c] = Idle]
  /\ UNCHANGED <<offer, best, taken, linkVars, shelf>>

PayFails(c) ==
  /\ call[c].pc = "clear"
  /\ call' = [call EXCEPT ![c] = Idle]
  /\ UNCHANGED <<requestVars, linkVars, payoutVars>>

-----------------------------------------------------------------------------
(* restock_trade_in. *)

(* It reads the payout without locking it. *)
Look(c, p) ==
  /\ call[c].pc = "idle"
  /\ p \in DOMAIN payouts /\ ~payouts[p].restocked
  /\ call' = [call EXCEPT ![c] = [Idle EXCEPT !.pc = "restock", !.for = p]]
  /\ UNCHANGED <<requestVars, linkVars, payoutVars>>

(* Mutant: the payout is marked in a transaction of its own, first. *)
MarkOnly(c, name) ==
  /\ call[c].pc = "restock"
  /\ <<call[c].for, name>> \notin shelf
  /\ payouts' = [payouts EXCEPT ![call[c].for].restocked = TRUE]
  /\ call' = [call EXCEPT ![c] = Idle]
  /\ UNCHANGED <<requestVars, linkVars, shelf>>

(* Product, stock movement and mark in one transaction.  The slug, the name *)
(* and the payout's id, is unique: an equal one waits and fails.            *)
Restock(c, name) ==
  /\ call[c].pc = "restock"
  /\ <<call[c].for, name>> \notin shelf
  /\ shelf' = shelf \cup {<<call[c].for, name>>}
  /\ payouts' = [payouts EXCEPT ![call[c].for].restocked = TRUE]
  /\ call' = [call EXCEPT ![c] = Idle]
  /\ UNCHANGED <<requestVars, linkVars>>

RestockFails(c) ==
  /\ call[c].pc = "restock"
  /\ call' = [call EXCEPT ![c] = Idle]
  /\ UNCHANGED <<requestVars, linkVars, payoutVars>>

-----------------------------------------------------------------------------
Next ==
  \/ \E r \in Requests :
       \/ \E amount \in Amounts : Quote(r, amount)
       \/ \E s \in Statuses : SetStatus(r, s)
       \/ \E t \in Links : Issue(t, r)
  \/ \E t \in Links : Redeem(t) \/ Expire(t)
  \/ \E c \in Calls :
       \/ \E r \in Requests \cup {NONE}, amount \in Amounts, approve \in BOOLEAN :
            ReadOffer(c, r, amount, approve)
       \/ \E short \in BOOLEAN : ReadPaid(c, short)
       \/ Pay(c) \/ PayFails(c)
       \/ \E p \in DOMAIN payouts : Look(c, p)
       \/ \E name \in Names : Restock(c, name)
       \/ RestockFails(c)

Spec == Init /\ [][Next]_vars

-----------------------------------------------------------------------------
(* The variables hold what their comments say. *)
TypeOK ==
  /\ status \in [Requests -> Statuses]
  /\ offer \in [Requests -> Amounts \cup {NONE}]
  /\ best \in [Requests -> Amounts \cup {0}]
  /\ link \in [Links -> Requests \cup {NONE}]
  /\ dead \in SUBSET {t \in Links : link[t] # NONE}
  /\ taken \in [Requests -> Amounts \cup {NONE}]
  /\ payouts \in Seq([for : Requests \cup {NONE}, amount : Amounts, seen : 0 .. MaxPayouts,
                      ordinary : BOOLEAN, restocked : BOOLEAN])
  /\ Len(payouts) <= MaxPayouts
  /\ shelf \in SUBSET ((1 .. MaxPayouts) \X Names)
  /\ call \in [Calls ->
       [pc : {"idle", "offer", "clear", "restock"}, for : Requests \cup {NONE} \cup 1 .. MaxPayouts,
        amount : Amounts \cup {0}, offer : Amounts \cup {NONE}, approve : BOOLEAN,
        seen : 0 .. MaxPayouts]]

(* Once a customer has accepted, the offer stays the one that was accepted, *)
(* whoever was quoting again at that moment.                                *)
AcceptedOfferStands ==
  \A r \in Requests :
    status[r] \in {"accepted", "received", "paid", "rejected"}
      <=> taken[r] # NONE /\ taken[r] = offer[r]

(* A request reads paid exactly when money went out on it, and money goes   *)
(* out only on an offer that was accepted: not on one declined or rejected  *)
(* while the payout was being checked.                                      *)
PaidMeansMoneyOut ==
  \A r \in Requests :
    /\ status[r] = "paid" <=> PaidFor(r) # {}
    /\ PaidFor(r) # {} => taken[r] # NONE

(* Without an approval, payouts against the offers of a request exceed the  *)
(* highest offer it had only by overlapping.  Take any of them of which     *)
(* each was in the ledger when the next one's request read what had been    *)
(* paid: one person's or several people's, with others in between or at the *)
(* same moment.  Together they stay within that offer.                      *)
(* (A payout that read the request before it was quoted met no offer.)      *)
Ordinary(r) == {p \in PaidFor(r) : payouts[p].ordinary}
Serial(S) == \A p, q \in S : p < q => p <= payouts[q].seen
SerialPayoutsWithinOffer ==
  \A r \in Requests : \A S \in SUBSET Ordinary(r) : Serial(S) => SumOf(S) <= best[r]

(* A payout is marked restocked exactly when stock was made of it.          *)
RestockIsTrue ==
  \A p \in DOMAIN payouts : payouts[p].restocked <=> \E name \in Names : <<p, name>> \in shelf

(* The purchase as the shop promises it: see PurchasePromise.               *)
Called(r) == status[r] \in {"declined", "rejected"}
Promise == INSTANCE PurchasePromise
  WITH agreed <- taken, out <- {r \in Requests : PaidFor(r) # {}},
       off <- {r \in Requests : Called(r)}
KeepsPurchasePromise == Promise!Spec

(* "Refuses to run twice on the same payout" (0007 l. 264): one payout, one *)
(* product.                                                                 *)
(* Not always: see Known divergences in the README.                         *)
OneProductPerPayout ==
  \A a, b \in shelf : a[1] = b[1] => a = b
=============================================================================
