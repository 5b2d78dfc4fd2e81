---------------------------- MODULE TradeInProofs ----------------------------
(* Proofs about TradeIn, for every value of its constants. *)
EXTENDS TradeIn, RunningSums, SequenceTheorems, TLAPS

(* A request is not accepted before it was, and what is quoted has an offer. *)
Agreed == {"accepted", "received", "paid", "rejected"}
OffersInOrder ==
  \A r \in Requests : /\ status[r] \notin Agreed => taken[r] = NONE
                      /\ status[r] = "quoted" => offer[r] # NONE
(* A payout under way has an amount and a purpose, a restock a payout.      *)
CallsKnow ==
  \A c \in Calls :
    /\ call[c].pc \in {"offer", "clear"} =>
         call[c].amount \in Amounts /\ call[c].for \in Requests \cup {NONE}
    /\ call[c].pc = "restock" => call[c].for \in DOMAIN payouts
ShelfIsPaidFor == \A s \in shelf : s[1] \in DOMAIN payouts

RequestInv == OffersInOrder /\ AcceptedOfferStands
StockInv == CallsKnow /\ ShelfIsPaidFor /\ RestockIsTrue
IndInv == TypeOK /\ RequestInv /\ StockInv /\ PaidMeansMoneyOut

Payout == [for : Requests \cup {NONE}, amount : Amounts, seen : 0 .. MaxPayouts,
           ordinary : BOOLEAN, restocked : BOOLEAN]
CallState ==
  [pc : {"idle", "offer", "clear", "restock"}, for : Requests \cup {NONE} \cup 1 .. MaxPayouts,
   amount : Amounts \cup {0}, offer : Amounts \cup {NONE}, approve : BOOLEAN,
   seen : 0 .. MaxPayouts]

-----------------------------------------------------------------------------
LEMMA InitInd == Init => IndInv
<1> SUFFICES ASSUME Init PROVE IndInv
  OBVIOUS
<1> USE TradeInAssumption DEF Init
<1>1. TypeOK
  <2>1. Idle \in CallState
    BY DEF Idle, CallState
  <2>2. call \in [Calls -> CallState]
    BY <2>1
  <2>3. payouts \in Seq(Payout) /\ Len(payouts) = 0
    OBVIOUS
  <2>4. /\ status \in [Requests -> Statuses]
        /\ offer \in [Requests -> Amounts \cup {NONE}]
        /\ best \in [Requests -> Amounts \cup {0}]
        /\ link \in [Links -> Requests \cup {NONE}]
        /\ dead = {} /\ shelf = {}
        /\ taken \in [Requests -> Amounts \cup {NONE}]
    BY DEF Statuses
  <2> QED BY <2>2, <2>3, <2>4 DEF TypeOK, Payout, CallState
<1>2. RequestInv
  BY DEF RequestInv, OffersInOrder, AcceptedOfferStands, Agreed
<1>3. StockInv
  BY DEF StockInv, CallsKnow, ShelfIsPaidFor, RestockIsTrue, Idle
<1>4. PaidMeansMoneyOut
  BY DEF PaidMeansMoneyOut, PaidFor
<1> QED BY <1>1, <1>2, <1>3, <1>4 DEF IndInv

-----------------------------------------------------------------------------
(* What each kind of step does to a call's place. *)

(* A call that moves to a state of the type keeps all of them in it.        *)
LEMMA CallMoves ==
  ASSUME call \in [Calls -> CallState], NEW c \in Calls, NEW v \in CallState,
         call' = [call EXCEPT ![c] = v]
  PROVE  call' \in [Calls -> CallState]
OBVIOUS

LEMMA IdleIsAState == Idle \in CallState
BY TradeInAssumption DEF Idle, CallState

(* The row that restocking marks. *)
LEMMA Marked ==
  ASSUME payouts \in Seq(Payout), NEW p \in DOMAIN payouts,
         payouts' = [payouts EXCEPT ![p].restocked = TRUE]
  PROVE  /\ payouts' \in Seq(Payout)
         /\ Len(payouts') = Len(payouts) /\ DOMAIN payouts' = DOMAIN payouts
         /\ \A q \in DOMAIN payouts : /\ payouts'[q].for = payouts[q].for
                                      /\ q # p => payouts'[q] = payouts[q]
         /\ payouts'[p].restocked = TRUE
<1>1. payouts[p] \in Payout
  OBVIOUS
<1>2. [payouts[p] EXCEPT !.restocked = TRUE] \in Payout
  BY <1>1 DEF Payout
<1>3. payouts' = [payouts EXCEPT ![p] = [payouts[p] EXCEPT !.restocked = TRUE]]
  OBVIOUS
<1>4. payouts' \in Seq(Payout) /\ Len(payouts') = Len(payouts)
  BY <1>2, <1>3, ExceptSeq
<1>5. DOMAIN payouts' = DOMAIN payouts
  BY <1>4, LenProperties
<1>6. \A q \in DOMAIN payouts : q # p => payouts'[q] = payouts[q]
  BY <1>3
<1>7. payouts'[p] = [payouts[p] EXCEPT !.restocked = TRUE]
  BY <1>3
<1>8. payouts'[p].for = payouts[p].for /\ payouts'[p].restocked = TRUE
  BY <1>1, <1>7 DEF Payout
<1> QED BY <1>4, <1>5, <1>6, <1>8

(* The row that a payout adds. *)
LEMMA Added ==
  ASSUME payouts \in Seq(Payout), NEW row \in Payout, payouts' = Append(payouts, row)
  PROVE  /\ payouts' \in Seq(Payout)
         /\ Len(payouts') = Len(payouts) + 1
         /\ DOMAIN payouts' = DOMAIN payouts \cup {Len(payouts) + 1}
         /\ DOMAIN payouts = 1 .. Len(payouts) /\ Len(payouts) \in Nat
         /\ \A q \in DOMAIN payouts : payouts'[q] = payouts[q]
         /\ payouts'[Len(payouts) + 1] = row
<1>1. /\ payouts' \in Seq(Payout) /\ Len(payouts') = Len(payouts) + 1
      /\ DOMAIN payouts = 1 .. Len(payouts) /\ Len(payouts) \in Nat
  BY LenProperties, AppendProperties
<1>2. DOMAIN payouts' = 1 .. Len(payouts')
  BY <1>1, LenProperties
<1>3. \A i \in 1 .. Len(payouts) : payouts'[i] = payouts[i]
  BY <1>1, AppendProperties
<1>4. payouts'[Len(payouts) + 1] = row
  BY <1>1, AppendProperties
<1> QED BY <1>1, <1>2, <1>3, <1>4

-----------------------------------------------------------------------------
(* Types. *)
LEMMA NextTypeOK == ASSUME TypeOK, CallsKnow, [Next]_vars PROVE TypeOK'
<1> USE TradeInAssumption
<1>0. /\ call \in [Calls -> CallState] /\ payouts \in Seq(Payout) /\ Len(payouts) <= MaxPayouts
      /\ DOMAIN payouts \subseteq 1 .. MaxPayouts
      /\ Len(payouts) \in 0 .. MaxPayouts /\ 0 \in 0 .. MaxPayouts
  BY LenProperties DEF TypeOK, CallState, Payout
<1>1. CASE \E r \in Requests :
             \/ \E amount \in Amounts : Quote(r, amount)
             \/ \E s \in Statuses : SetStatus(r, s)
  BY <1>1 DEF TypeOK, Quote, SetStatus, Take, Statuses, requestVars, linkVars, payoutVars
<1>2. CASE \E r \in Requests, t \in Links : Issue(t, r)
  BY <1>2 DEF TypeOK, Issue, requestVars, payoutVars
<1>3. CASE \E t \in Links : Redeem(t) \/ Expire(t)
  BY <1>3 DEF TypeOK, Redeem, Expire, Live, Take, Statuses, requestVars, payoutVars
<1>4. ASSUME UNCHANGED <<requestVars, linkVars, payoutVars>>,
             NEW c \in Calls, NEW v \in CallState, call' = [call EXCEPT ![c] = v]
      PROVE  TypeOK'
  <2>1. call' \in [Calls -> CallState]
    BY <1>0, <1>4, CallMoves
  <2> QED BY <1>4, <2>1 DEF TypeOK, CallState, requestVars, linkVars, payoutVars
<1>5. ASSUME NEW c \in Calls, NEW r \in Requests \cup {NONE}, NEW amount \in Amounts,
             NEW approve \in BOOLEAN, ReadOffer(c, r, amount, approve)
      PROVE  TypeOK'
  <2> DEFINE v == [pc |-> "offer", for |-> r, amount |-> amount, approve |-> approve,
                   offer |-> IF r = NONE THEN NONE ELSE offer[r], seen |-> 0]
  <2>1. v \in CallState
    BY DEF TypeOK, CallState
  <2>2. call' = [call EXCEPT ![c] = v]
    BY <1>5 DEF ReadOffer
  <2> HIDE DEF v
  <2> QED BY <1>4, <1>5, <2>1, <2>2 DEF ReadOffer
<1>6. ASSUME NEW c \in Calls, NEW short \in BOOLEAN, ReadPaid(c, short)
      PROVE  TypeOK'
  <2>1. call[c] \in CallState
    BY <1>0
  <2>2. /\ [call[c] EXCEPT !.pc = "clear", !.approve = FALSE, !.seen = Len(payouts)] \in CallState
        /\ [call[c] EXCEPT !.pc = "clear", !.seen = Len(payouts)] \in CallState
    BY <1>0, <2>1 DEF CallState
  <2>3. PICK v \in CallState : call' = [call EXCEPT ![c] = v]
    <3> DEFINE v == IF ~Beyond(c) /\ ~short THEN [call[c] EXCEPT !.pc = "clear", !.approve = FALSE, !.seen = Len(payouts)]
                    ELSE IF call[c].approve THEN [call[c] EXCEPT !.pc = "clear", !.seen = Len(payouts)]
                    ELSE Idle
    <3>1. v \in CallState
      BY <2>2, IdleIsAState
    <3>2. call' = [call EXCEPT ![c] = v]
      BY <1>6 DEF ReadPaid
    <3> QED BY <3>1, <3>2
  <2> QED BY <1>4, <1>6, <2>3 DEF ReadPaid
<1>7. ASSUME NEW c \in Calls, Pay(c)
      PROVE  TypeOK'
  <2> DEFINE r == call[c].for
             row == [for |-> call[c].for, amount |-> MoneyOut(call[c].amount), seen |-> call[c].seen,
                     ordinary |-> call[c].offer # NONE /\ ~call[c].approve,
                     restocked |-> FALSE]
  <2>1. call[c] \in CallState /\ call[c].amount \in Amounts /\ r \in Requests \cup {NONE}
    BY <1>0, <1>7 DEF Pay, CallsKnow
  <2>2. row \in Payout
    BY <2>1 DEF Payout, CallState, MoneyOut
  <2>3. payouts' = Append(payouts, row) /\ Len(payouts) < MaxPayouts
    BY <1>7 DEF Pay
  <2> HIDE DEF row
  <2>4. payouts' \in Seq(Payout) /\ Len(payouts') <= MaxPayouts
    BY <1>0, <2>2, <2>3, Added
  <2>5. status' \in [Requests -> Statuses]
    BY <1>7, <2>1 DEF Pay, TypeOK, Statuses
  <2>6. call' \in [Calls -> CallState]
    BY <1>0, <1>7, IdleIsAState, CallMoves DEF Pay
  <2> QED BY <1>7, <2>4, <2>5, <2>6 DEF Pay, TypeOK, Payout, CallState, linkVars
<1>8. ASSUME NEW c \in Calls, PayFails(c) \/ RestockFails(c)
      PROVE  TypeOK'
  BY <1>4, <1>8, IdleIsAState DEF PayFails, RestockFails
<1>9. ASSUME NEW c \in Calls, NEW p \in DOMAIN payouts, Look(c, p)
      PROVE  TypeOK'
  <2>1. [Idle EXCEPT !.pc = "restock", !.for = p] \in CallState
    BY <1>0, IdleIsAState DEF Idle, CallState
  <2> QED BY <1>4, <1>9, <2>1 DEF Look
<1>10. ASSUME NEW c \in Calls, NEW name \in Names, Restock(c, name)
       PROVE  TypeOK'
  <2>1. call[c].for \in DOMAIN payouts
    BY <1>10 DEF Restock, CallsKnow
  <2>2. payouts' = [payouts EXCEPT ![call[c].for].restocked = TRUE]
    BY <1>10 DEF Restock
  <2>3. payouts' \in Seq(Payout) /\ Len(payouts') <= MaxPayouts
    BY <1>0, <2>1, <2>2, Marked
  <2>4. shelf' \in SUBSET ((1 .. MaxPayouts) \X Names)
    BY <1>0, <1>10, <2>1 DEF Restock, TypeOK
  <2>5. call' \in [Calls -> CallState]
    BY <1>0, <1>10, IdleIsAState, CallMoves DEF Restock
  <2> QED BY <1>10, <2>3, <2>4, <2>5 DEF Restock, TypeOK, Payout, CallState, requestVars, linkVars
<1>11. CASE UNCHANGED vars
  BY <1>11 DEF TypeOK, vars, requestVars, linkVars, payoutVars
<1> QED BY <1>1, <1>2, <1>3, <1>5, <1>6, <1>7, <1>8, <1>9, <1>10, <1>11 DEF Next

-----------------------------------------------------------------------------
(* Offers.  One step touches one request: what it does to that one.         *)
LEMMA NextRequestInv ==
  ASSUME TypeOK, CallsKnow, RequestInv, [Next]_vars PROVE RequestInv'
<1> USE TradeInAssumption
<1> USE DEF RequestInv, OffersInOrder, AcceptedOfferStands, Agreed
<1>0. /\ status \in [Requests -> Statuses]
      /\ offer \in [Requests -> Amounts \cup {NONE}]
      /\ taken \in [Requests -> Amounts \cup {NONE}]
  BY DEF TypeOK
<1>1. ASSUME NEW r \in Requests, NEW amount \in Amounts, Quote(r, amount)
      PROVE  RequestInv'
  <2>1. status[r] \in {"submitted", "quoted"}
    BY <1>0, <1>1 DEF Quote, MayBecome, AllowedNext, Statuses
  <2>2. amount # NONE
    OBVIOUS
  <2>3. /\ status' = [status EXCEPT ![r] = "quoted"] /\ offer' = [offer EXCEPT ![r] = amount]
        /\ taken' = taken
    BY <1>1 DEF Quote
  <2> QED BY <1>0, <2>1, <2>2, <2>3
<1>2. ASSUME NEW r \in Requests, NEW s \in Statuses, SetStatus(r, s)
      PROVE  RequestInv'
  <2>1. \/ s = status[r]
        \/ status[r] = "submitted" /\ s = "declined"
        \/ status[r] = "quoted" /\ s \in {"accepted", "declined"}
        \/ status[r] = "accepted" /\ s = "received"
        \/ status[r] = "received" /\ s = "rejected"
    BY <1>0, <1>2 DEF SetStatus, StaffStatuses, MayBecome, AllowedNext, Statuses
  <2>2. /\ status' = [status EXCEPT ![r] = s] /\ offer' = offer
        /\ taken' = IF s = "accepted" /\ status[r] # "accepted"
                      THEN [taken EXCEPT ![r] = offer[r]] ELSE taken
    BY <1>2 DEF SetStatus, Take
  <2>3. CASE s = "accepted" /\ status[r] = "quoted"
    BY <1>0, <2>2, <2>3
  <2>4. CASE ~(s = "accepted" /\ status[r] = "quoted")
    <3>1. taken' = taken
      BY <2>1, <2>2, <2>4
    <3>2. s \in Agreed <=> status[r] \in Agreed
      BY <2>1, <2>4
    <3>3. s = "quoted" => status[r] = "quoted"
      BY <2>1
    <3> QED BY <1>0, <2>2, <3>1, <3>2, <3>3
  <2> QED BY <2>3, <2>4
<1>3. ASSUME NEW t \in Links, Redeem(t)
      PROVE  RequestInv'
  <2>1. link[t] \in Requests
    BY <1>3 DEF Redeem, Live, TypeOK
  <2>2. CASE status[link[t]] = "quoted"
    BY <1>0, <1>3, <2>1, <2>2 DEF Redeem, Take
  <2>3. CASE status[link[t]] # "quoted"
    BY <1>3, <2>3 DEF Redeem
  <2> QED BY <2>2, <2>3
<1>4. ASSUME NEW c \in Calls, Pay(c)
      PROVE  RequestInv'
  <2> DEFINE r == call[c].for
  <2>1. offer' = offer /\ taken' = taken
    BY <1>4 DEF Pay
  <2>2. CASE r = NONE
    BY <1>4, <2>1, <2>2 DEF Pay
  <2>3. CASE r # NONE
    <3>1. r \in Requests
      BY <1>4, <2>3 DEF Pay, CallsKnow
    <3>2. status[r] \in {"accepted", "received", "paid"} /\ status' = [status EXCEPT ![r] = "paid"]
      BY <1>0, <1>4, <2>3, <3>1 DEF Pay, MayBecome, AllowedNext, Statuses
    <3> QED BY <1>0, <2>1, <3>1, <3>2
  <2> QED BY <2>2, <2>3
<1>5. ASSUME UNCHANGED <<status, offer, taken>>
      PROVE  RequestInv'
  BY <1>5
<1>6. CASE \/ \E r \in Requests, t \in Links : Issue(t, r)
           \/ \E t \in Links : Expire(t)
           \/ \E c \in Calls :
                \/ \E r \in Requests \cup {NONE}, amount \in Amounts, approve \in BOOLEAN :
                     ReadOffer(c, r, amount, approve)
                \/ \E short \in BOOLEAN : ReadPaid(c, short)
                \/ PayFails(c)
                \/ \E p \in DOMAIN payouts : Look(c, p)
                \/ \E name \in Names : Restock(c, name)
                \/ RestockFails(c)
           \/ UNCHANGED vars
  BY <1>5, <1>6 DEF Issue, Expire, ReadOffer, ReadPaid, PayFails, Look, Restock, RestockFails,
                    requestVars, vars
<1> QED BY <1>1, <1>2, <1>3, <1>4, <1>6 DEF Next

-----------------------------------------------------------------------------
(* Money.  Payouts are never taken away, and each knows its request.        *)
LEMMA NextPaid ==
  ASSUME TypeOK, CallsKnow, RequestInv, PaidMeansMoneyOut, [Next]_vars
  PROVE  PaidMeansMoneyOut'
<1> USE TradeInAssumption
<1>0. /\ status \in [Requests -> Statuses] /\ payouts \in Seq(Payout)
      /\ taken \in [Requests -> Amounts \cup {NONE}]
  BY DEF TypeOK, Payout
<1>1. ASSUME NEW r \in Requests, NEW s \in Statuses, UNCHANGED payouts,
             status[r] # "paid", s # "paid", status' = [status EXCEPT ![r] = s],
             \A q \in Requests : taken[q] # NONE /\ status[q] = "paid" => taken'[q] # NONE
      PROVE  PaidMeansMoneyOut'
  <2>1. \A q \in Requests : PaidFor(q)' = PaidFor(q)
    BY <1>1 DEF PaidFor
  <2>2. \A q \in Requests : status'[q] = "paid" <=> status[q] = "paid"
    BY <1>0, <1>1
  <2> QED BY <1>1, <2>1, <2>2 DEF PaidMeansMoneyOut
<1>2. ASSUME UNCHANGED <<status, taken, payouts>>
      PROVE  PaidMeansMoneyOut'
  BY <1>2 DEF PaidMeansMoneyOut, PaidFor
<1>3. ASSUME NEW r \in Requests, NEW amount \in Amounts, Quote(r, amount)
      PROVE  PaidMeansMoneyOut'
  <2>1. status[r] # "paid"
    BY <1>0, <1>3 DEF Quote, MayBecome, AllowedNext, Statuses
  <2> QED BY <1>1, <1>3, <2>1 DEF Quote, payoutVars, Statuses
<1>4. ASSUME NEW r \in Requests, NEW s \in Statuses, SetStatus(r, s)
      PROVE  PaidMeansMoneyOut'
  <2>1. status[r] # "paid" /\ s # "paid"
    BY <1>0, <1>4 DEF SetStatus, StaffStatuses, MayBecome, AllowedNext, Statuses
  <2>2. \A q \in Requests : status[q] = "paid" => taken'[q] = taken[q]
    BY <1>0, <1>4, <2>1 DEF SetStatus, Take
  <2> QED BY <1>1, <1>4, <2>1, <2>2 DEF SetStatus, payoutVars
<1>5. ASSUME NEW t \in Links, Redeem(t)
      PROVE  PaidMeansMoneyOut'
  <2>1. link[t] \in Requests
    BY <1>5 DEF Redeem, Live, TypeOK
  <2>2. CASE status[link[t]] = "quoted"
    <3>1. \A q \in Requests : status[q] = "paid" => taken'[q] = taken[q]
      BY <1>0, <1>5, <2>1, <2>2 DEF Redeem, Take
    <3> QED BY <1>1, <1>5, <2>1, <2>2, <3>1 DEF Redeem, payoutVars, Statuses
  <2>3. CASE status[link[t]] # "quoted"
    BY <1>2, <1>5, <2>3 DEF Redeem, payoutVars
  <2> QED BY <2>2, <2>3
<1>6. ASSUME NEW c \in Calls, Pay(c)
      PROVE  PaidMeansMoneyOut'
  <2> DEFINE r == call[c].for
             row == [for |-> call[c].for, amount |-> MoneyOut(call[c].amount), seen |-> call[c].seen,
                     ordinary |-> call[c].offer # NONE /\ ~call[c].approve,
                     restocked |-> FALSE]
             n == Len(payouts) + 1
  <2>1. row \in Payout /\ row.for = r /\ r \in Requests \cup {NONE}
    BY <1>6 DEF Pay, CallsKnow, Payout, TypeOK, MoneyOut
  <2>2. payouts' = Append(payouts, row)
    BY <1>6 DEF Pay
  <2>3. taken' = taken
    BY <1>6 DEF Pay
  <2> HIDE DEF row
  <2>4. /\ DOMAIN payouts' = DOMAIN payouts \cup {n}
        /\ \A q \in DOMAIN payouts : payouts'[q] = payouts[q]
        /\ payouts'[n] = row
    BY <1>0, <2>1, <2>2, Added
  <2>5. n \notin DOMAIN payouts
    BY <1>0, LenProperties
  <2>6. \A q \in Requests : PaidFor(q)' = IF q = r THEN PaidFor(q) \cup {n} ELSE PaidFor(q)
    <3> SUFFICES ASSUME NEW q \in Requests
                 PROVE  PaidFor(q)' = IF q = r THEN PaidFor(q) \cup {n} ELSE PaidFor(q)
      OBVIOUS
    <3> HIDE DEF n, r
    <3> QED BY <2>1, <2>4, <2>5 DEF PaidFor
  <2>7. \A q \in Requests : status'[q] = IF q = r THEN "paid" ELSE status[q]
    BY <1>0, <1>6, <2>1 DEF Pay
  <2>8. r # NONE => taken[r] # NONE
    BY <1>0, <1>6, <2>1 DEF Pay, MayBecome, AllowedNext, Statuses, RequestInv, AcceptedOfferStands
  <2> HIDE DEF n, r
  <2> QED BY <2>3, <2>6, <2>7, <2>8 DEF PaidMeansMoneyOut
<1>7. ASSUME NEW c \in Calls, NEW name \in Names, Restock(c, name)
      PROVE  PaidMeansMoneyOut'
  <2>1. /\ DOMAIN payouts' = DOMAIN payouts
        /\ \A q \in DOMAIN payouts : payouts'[q].for = payouts[q].for
    <3>1. call[c].for \in DOMAIN payouts
      BY <1>7 DEF Restock, CallsKnow
    <3>2. payouts' = [payouts EXCEPT ![call[c].for].restocked = TRUE]
      BY <1>7 DEF Restock
    <3> QED BY <1>0, <3>1, <3>2, Marked
  <2>2. \A q \in Requests : PaidFor(q)' = PaidFor(q)
    BY <2>1 DEF PaidFor
  <2> QED BY <1>7, <2>2 DEF Restock, requestVars, PaidMeansMoneyOut
<1>8. CASE \/ \E r \in Requests, t \in Links : Issue(t, r)
           \/ \E t \in Links : Expire(t)
           \/ \E c \in Calls :
                \/ \E r \in Requests \cup {NONE}, amount \in Amounts, approve \in BOOLEAN :
                     ReadOffer(c, r, amount, approve)
                \/ \E short \in BOOLEAN : ReadPaid(c, short)
                \/ PayFails(c)
                \/ \E p \in DOMAIN payouts : Look(c, p)
                \/ RestockFails(c)
           \/ UNCHANGED vars
  BY <1>2, <1>8 DEF Issue, Expire, ReadOffer, ReadPaid, PayFails, Look, RestockFails,
                    requestVars, payoutVars, vars
<1> QED BY <1>3, <1>4, <1>5, <1>6, <1>7, <1>8 DEF Next

-----------------------------------------------------------------------------
(* Stock. *)
LEMMA NextStock ==
  ASSUME TypeOK, StockInv, [Next]_vars PROVE StockInv'
<1> USE TradeInAssumption
<1>0. call \in [Calls -> CallState] /\ payouts \in Seq(Payout)
  BY DEF TypeOK, Payout, CallState
<1>1. ASSUME UNCHANGED payoutVars, NEW c \in Calls, NEW v, call' = [call EXCEPT ![c] = v],
             v.pc \in {"offer", "clear"} => v.amount \in Amounts /\ v.for \in Requests \cup {NONE},
             v.pc = "restock" => v.for \in DOMAIN payouts
      PROVE  StockInv'
  <2>1. \A d \in Calls : call'[d] = IF d = c THEN v ELSE call[d]
    BY <1>0, <1>1
  <2>2. CallsKnow'
    BY <1>1, <2>1 DEF StockInv, CallsKnow, payoutVars
  <2> QED BY <1>1, <2>2 DEF StockInv, ShelfIsPaidFor, RestockIsTrue, payoutVars
<1>2. Idle.pc = "idle"
  BY DEF Idle
<1>3. CASE \/ \E r \in Requests :
                \/ \E amount \in Amounts : Quote(r, amount)
                \/ \E s \in Statuses : SetStatus(r, s)
                \/ \E t \in Links : Issue(t, r)
           \/ \E t \in Links : Redeem(t) \/ Expire(t)
           \/ UNCHANGED vars
  BY <1>3 DEF Quote, SetStatus, Issue, Redeem, Expire, payoutVars, vars, StockInv, CallsKnow,
              ShelfIsPaidFor, RestockIsTrue
<1>4. ASSUME NEW c \in Calls, NEW r \in Requests \cup {NONE}, NEW amount \in Amounts,
             NEW approve \in BOOLEAN, ReadOffer(c, r, amount, approve)
      PROVE  StockInv'
  <2> DEFINE v == [pc |-> "offer", for |-> r, amount |-> amount, approve |-> approve,
                   offer |-> IF r = NONE THEN NONE ELSE offer[r], seen |-> 0]
  <2>1. v.pc = "offer" /\ v.amount = amount /\ v.for = r
    OBVIOUS
  <2>2. call' = [call EXCEPT ![c] = v]
    BY <1>4 DEF ReadOffer
  <2> HIDE DEF v
  <2> QED BY <1>1, <1>4, <2>1, <2>2 DEF ReadOffer
<1>5. ASSUME NEW c \in Calls, NEW short \in BOOLEAN, ReadPaid(c, short)
      PROVE  StockInv'
  <2>1. call[c] \in CallState /\ call[c].amount \in Amounts /\ call[c].for \in Requests \cup {NONE}
    BY <1>0, <1>5 DEF ReadPaid, StockInv, CallsKnow
  <2>2. PICK v : /\ call' = [call EXCEPT ![c] = v]
                 /\ v = Idle \/ (v.pc = "clear" /\ v.amount = call[c].amount /\ v.for = call[c].for)
    <3> DEFINE v == IF ~Beyond(c) /\ ~short THEN [call[c] EXCEPT !.pc = "clear", !.approve = FALSE, !.seen = Len(payouts)]
                    ELSE IF call[c].approve THEN [call[c] EXCEPT !.pc = "clear", !.seen = Len(payouts)]
                    ELSE Idle
    <3>1. v = Idle \/ (v.pc = "clear" /\ v.amount = call[c].amount /\ v.for = call[c].for)
      BY <2>1 DEF CallState
    <3>2. call' = [call EXCEPT ![c] = v]
      BY <1>5 DEF ReadPaid
    <3> QED BY <3>1, <3>2
  <2>3. UNCHANGED payoutVars
    BY <1>5 DEF ReadPaid
  <2>4. /\ v.pc \in {"offer", "clear"} => v.amount \in Amounts /\ v.for \in Requests \cup {NONE}
        /\ v.pc # "restock"
    BY <1>2, <2>1, <2>2
  <2> QED BY <1>1, <2>2, <2>3, <2>4
<1>6. ASSUME NEW c \in Calls, Pay(c)
      PROVE  StockInv'
  <2> DEFINE row == [for |-> call[c].for, amount |-> MoneyOut(call[c].amount), seen |-> call[c].seen,
                     ordinary |-> call[c].offer # NONE /\ ~call[c].approve,
                     restocked |-> FALSE]
             n == Len(payouts) + 1
  <2>1. row \in Payout /\ row.restocked = FALSE
    BY <1>6 DEF Pay, StockInv, CallsKnow, Payout, TypeOK, MoneyOut
  <2>2. payouts' = Append(payouts, row) /\ shelf' = shelf /\ call' = [call EXCEPT ![c] = Idle]
    BY <1>6 DEF Pay
  <2> HIDE DEF row
  <2>3. /\ DOMAIN payouts' = DOMAIN payouts \cup {n}
        /\ \A q \in DOMAIN payouts : payouts'[q] = payouts[q]
        /\ payouts'[n] = row
    BY <1>0, <2>1, <2>2, Added
  <2>4. n \notin DOMAIN payouts
    BY <1>0, LenProperties
  <2> HIDE DEF n
  <2>5. CallsKnow'
    BY <1>0, <1>2, <2>2, <2>3 DEF StockInv, CallsKnow
  <2>6. \A s \in shelf : s[1] \in DOMAIN payouts
    BY DEF StockInv, ShelfIsPaidFor
  <2>7. ShelfIsPaidFor'
    BY <2>2, <2>3, <2>6 DEF ShelfIsPaidFor
  <2>8. \A name \in Names : <<n, name>> \notin shelf
    BY <2>4, <2>6
  <2>9. RestockIsTrue'
    BY <2>1, <2>2, <2>3, <2>8 DEF StockInv, RestockIsTrue
  <2> QED BY <2>5, <2>7, <2>9 DEF StockInv
<1>7. ASSUME NEW c \in Calls, PayFails(c) \/ RestockFails(c)
      PROVE  StockInv'
  BY <1>1, <1>2, <1>7 DEF PayFails, RestockFails
<1>8. ASSUME NEW c \in Calls, NEW p \in DOMAIN payouts, Look(c, p)
      PROVE  StockInv'
  <2> DEFINE v == [Idle EXCEPT !.pc = "restock", !.for = p]
  <2>1. v.pc = "restock" /\ v.for = p
    BY DEF Idle
  <2>2. call' = [call EXCEPT ![c] = v] /\ UNCHANGED payoutVars
    BY <1>8 DEF Look
  <2> HIDE DEF v
  <2> QED BY <1>1, <2>1, <2>2
<1>9. ASSUME NEW c \in Calls, NEW name \in Names, Restock(c, name)
      PROVE  StockInv'
  <2>1. PICK p : p = call[c].for
    OBVIOUS
  <2>2. p \in DOMAIN payouts
    BY <1>9, <2>1 DEF Restock, StockInv, CallsKnow
  <2>3. /\ payouts' = [payouts EXCEPT ![p].restocked = TRUE]
        /\ shelf' = shelf \cup {<<p, name>>} /\ call' = [call EXCEPT ![c] = Idle]
    BY <1>9, <2>1 DEF Restock
  <2>4. /\ DOMAIN payouts' = DOMAIN payouts
        /\ \A q \in DOMAIN payouts : q # p => payouts'[q] = payouts[q]
        /\ payouts'[p].restocked = TRUE
    BY <1>0, <2>2, <2>3, Marked
  <2>5. CallsKnow'
    BY <1>0, <1>2, <2>3, <2>4 DEF StockInv, CallsKnow
  <2>6. ShelfIsPaidFor'
    BY <2>2, <2>3, <2>4 DEF StockInv, ShelfIsPaidFor
  <2>7. RestockIsTrue'
    BY <2>3, <2>4 DEF StockInv, RestockIsTrue
  <2> QED BY <2>5, <2>6, <2>7 DEF StockInv
<1> QED BY <1>3, <1>4, <1>5, <1>6, <1>7, <1>8, <1>9 DEF Next

-----------------------------------------------------------------------------
(* SumOf, over any rows: what it adds up is a running sum. *)

TotalOf(ps, S) ==
  LET f[n \in 0 .. Len(ps)] ==
        IF n = 0 THEN 0 ELSE f[n - 1] + IF n \in S THEN ps[n].amount ELSE 0
  IN f[Len(ps)]
RowOf(ps, S) == [n \in 1 .. Len(ps) |-> IF n \in S THEN ps[n].amount ELSE 0]

LEMMA SumIsTotal ==
  ASSUME NEW S
  PROVE  SumOf(S) = TotalOf(payouts, S) /\ SumOf(S)' = TotalOf(payouts', S)
BY DEF SumOf, TotalOf, Amount

LEMMA TotalRuns ==
  ASSUME NEW ps \in Seq(Payout), NEW S
  PROVE  \E f : IsRun(f, RowOf(ps, S), 0, Len(ps)) /\ TotalOf(ps, S) = f[Len(ps)]
<1> DEFINE g == RowOf(ps, S)
           F == CHOOSE f : f = [n \in 0 .. Len(ps) |->
                  IF n = 0 THEN 0 ELSE f[n - 1] + IF n \in S THEN ps[n].amount ELSE 0]
<1>1. Len(ps) \in Int /\ 0 <= Len(ps) /\ 0 \in Int
  BY LenProperties
<1>2. PICK f : IsRun(f, g, 0, Len(ps))
  <2> HIDE DEF g
  <2> QED BY <1>1, RunExists
<1>3. ASSUME NEW x, NEW n \in 0 .. Len(ps)
      PROVE  (IF n = 0 THEN 0 ELSE x[n - 1] + g[n])
             = IF n = 0 THEN 0 ELSE x[n - 1] + IF n \in S THEN ps[n].amount ELSE 0
  <2>1. CASE n = 0
    BY <2>1
  <2>2. CASE n # 0
    <3>1. n \in 1 .. Len(ps)
      BY <1>1, <2>2
    <3> QED BY <2>2, <3>1 DEF RowOf
  <2> QED BY <2>1, <2>2
<1>4. ASSUME NEW x
      PROVE  IsRun(x, g, 0, Len(ps))
             <=> x = [n \in 0 .. Len(ps) |->
                       IF n = 0 THEN 0 ELSE x[n - 1] + IF n \in S THEN ps[n].amount ELSE 0]
  <2>1. [n \in 0 .. Len(ps) |-> IF n = 0 THEN 0 ELSE x[n - 1] + g[n]]
        = [n \in 0 .. Len(ps) |->
             IF n = 0 THEN 0 ELSE x[n - 1] + IF n \in S THEN ps[n].amount ELSE 0]
    <3> HIDE DEF g
    <3> QED BY <1>3
  <2> QED BY <2>1 DEF IsRun
<1>5. F = [n \in 0 .. Len(ps) |->
            IF n = 0 THEN 0 ELSE F[n - 1] + IF n \in S THEN ps[n].amount ELSE 0]
  <2> HIDE DEF g
  <2> QED BY <1>2, <1>4
<1>6. IsRun(F, g, 0, Len(ps))
  <2> HIDE DEF F, g
  <2> QED BY <1>4, <1>5
<1>7. TotalOf(ps, S) = F[Len(ps)]
  BY DEF TotalOf
<1> QED BY <1>6, <1>7

LEMMA RowInt ==
  ASSUME NEW ps \in Seq(Payout), NEW S, NEW n \in 1 .. Len(ps)
  PROVE  RowOf(ps, S)[n] \in Nat
<1>1. ps[n] \in Payout
  BY LenProperties
<1>2. ps[n].amount \in Nat
  BY <1>1, TradeInAssumption DEF Payout
<1> QED BY <1>2 DEF RowOf

LEMMA TotalInt ==
  ASSUME NEW ps \in Seq(Payout), NEW S
  PROVE  TotalOf(ps, S) \in Int
<1> DEFINE g == RowOf(ps, S)
<1>1. Len(ps) \in Nat /\ Len(ps) \in Int /\ 0 <= Len(ps) /\ 0 \in Int /\ Len(ps) \in 0 .. Len(ps)
  BY LenProperties
<1>2. PICK f : IsRun(f, g, 0, Len(ps)) /\ TotalOf(ps, S) = f[Len(ps)]
  BY TotalRuns
<1>3. \A n \in 0 + 1 .. Len(ps) : g[n] \in Int
  BY RowInt
<1> HIDE DEF g
<1>4. f[Len(ps)] \in Int
  BY <1>1, <1>2, <1>3, RunInt
<1> QED BY <1>2, <1>4

(* Fewer rows, no more money. *)
LEMMA TotalMono ==
  ASSUME NEW ps \in Seq(Payout), NEW S, NEW T, S \subseteq T
  PROVE  TotalOf(ps, S) <= TotalOf(ps, T)
<1> DEFINE g == RowOf(ps, S)
           k == RowOf(ps, T)
<1>1. Len(ps) \in Nat /\ Len(ps) \in Int /\ 0 <= Len(ps) /\ 0 \in Int /\ Len(ps) \in 0 .. Len(ps)
  BY LenProperties
<1>2. PICK f : IsRun(f, g, 0, Len(ps)) /\ TotalOf(ps, S) = f[Len(ps)]
  BY TotalRuns
<1>3. PICK h : IsRun(h, k, 0, Len(ps)) /\ TotalOf(ps, T) = h[Len(ps)]
  BY TotalRuns
<1>4. \A n \in 0 + 1 .. Len(ps) : g[n] \in Int /\ k[n] \in Int /\ g[n] <= k[n]
  <2> SUFFICES ASSUME NEW n \in 1 .. Len(ps)
               PROVE  g[n] \in Int /\ k[n] \in Int /\ g[n] <= k[n]
    OBVIOUS
  <2>1. g[n] \in Nat /\ k[n] \in Nat
    BY RowInt
  <2>2. n \in S => g[n] = k[n]
    BY DEF RowOf
  <2>3. n \notin S => g[n] = 0
    BY DEF RowOf
  <2> HIDE DEF g, k
  <2> QED BY <2>1, <2>2, <2>3
<1> HIDE DEF g, k
<1>5. \A n \in 0 .. Len(ps) : f[n] <= h[n]
  BY <1>1, <1>2, <1>3, <1>4, RunMono
<1> QED BY <1>1, <1>2, <1>3, <1>5

(* The same amounts counted. *)
SameRows(ps, S, qs, T) ==
  /\ Len(qs) = Len(ps)
  /\ \A n \in 1 .. Len(ps) : qs[n].amount = ps[n].amount /\ (n \in S <=> n \in T)
LEMMA TotalSame ==
  ASSUME NEW ps \in Seq(Payout), NEW qs \in Seq(Payout), NEW S, NEW T, SameRows(ps, S, qs, T)
  PROVE  TotalOf(qs, T) = TotalOf(ps, S)
<1> DEFINE g == RowOf(ps, S)
           k == RowOf(qs, T)
<1>1. Len(ps) \in Nat /\ Len(ps) \in Int /\ 0 <= Len(ps) /\ 0 \in Int /\ Len(ps) \in 0 .. Len(ps)
      /\ Len(ps) <= Len(ps)
  BY LenProperties
<1>2. PICK f : IsRun(f, g, 0, Len(ps)) /\ TotalOf(ps, S) = f[Len(ps)]
  BY TotalRuns
<1>3. PICK h : IsRun(h, k, 0, Len(ps)) /\ TotalOf(qs, T) = h[Len(ps)]
  BY TotalRuns DEF SameRows
<1>4. SameSteps(g, k, 0 + 1, Len(ps))
  BY DEF RowOf, SameSteps, SameRows
<1> HIDE DEF g, k
<1>5. f[Len(ps)] = h[Len(ps)]
  BY <1>1, <1>2, <1>3, <1>4, RunAgree
<1> QED BY <1>1, <1>2, <1>3, <1>5

(* One row more. *)
OneRowMore(ps, row, qs) == qs = Append(ps, row)
LEMMA TotalAppend ==
  ASSUME NEW ps \in Seq(Payout), NEW row \in Payout, NEW qs, OneRowMore(ps, row, qs), NEW S
  PROVE  TotalOf(qs, S) = TotalOf(ps, S) + IF Len(ps) + 1 \in S THEN row.amount ELSE 0
<1> DEFINE g == RowOf(ps, S)
           k == RowOf(qs, S)
<1>1. PICK m \in Nat : m = Len(ps)
  BY LenProperties
<1>2. /\ qs \in Seq(Payout) /\ Len(qs) = m + 1 /\ qs[m + 1] = row
      /\ \A n \in 1 .. m : qs[n] = ps[n]
  BY <1>1, AppendProperties DEF OneRowMore
<1>3. m \in Int /\ m + 1 \in Int /\ 0 <= m /\ m <= m /\ m <= m + 1 /\ 0 \in Int /\ 0 <= m + 1
  OBVIOUS
<1>4. PICK f : IsRun(f, g, 0, m) /\ TotalOf(ps, S) = f[m]
  BY <1>1, TotalRuns
<1>5. PICK h : IsRun(h, k, 0, m + 1) /\ TotalOf(qs, S) = h[m + 1]
  BY <1>2, TotalRuns
<1>6. SameSteps(g, k, 0 + 1, m)
  BY <1>1, <1>2 DEF RowOf, SameSteps
<1>7. k[m + 1] = IF Len(ps) + 1 \in S THEN row.amount ELSE 0
  BY <1>1, <1>2 DEF RowOf
<1> HIDE DEF g, k
<1>8. f[m] = h[m]
  BY <1>3, <1>4, <1>5, <1>6, RunAgree
<1>9. h[m + 1] = h[m] + k[m + 1]
  <2>1. m \in 0 .. m + 1 /\ m < m + 1
    OBVIOUS
  <2> QED BY <1>3, <1>5, <2>1, RunStep
<1> QED BY <1>4, <1>5, <1>7, <1>8, <1>9

-----------------------------------------------------------------------------
(* One row's part of a sum. *)
LEMMA TotalSplit ==
  ASSUME NEW ps \in Seq(Payout), NEW S, NEW q \in DOMAIN ps, q \in S
  PROVE  TotalOf(ps, S) = TotalOf(ps, S \ {q}) + ps[q].amount
<1> DEFINE g == RowOf(ps, S \ {q})
           k == RowOf(ps, S)
<1>1. PICK m \in Nat : m = Len(ps) /\ DOMAIN ps = 1 .. m
  BY LenProperties
<1>2. PICK f : IsRun(f, g, 0, m) /\ TotalOf(ps, S \ {q}) = f[m]
  BY <1>1, TotalRuns
<1>3. PICK h : IsRun(h, k, 0, m) /\ TotalOf(ps, S) = h[m]
  BY <1>1, TotalRuns
<1>4. ps[q].amount \in Int
  <2>1. ps[q].amount \in Amounts
    <3>1. ps[q] \in Payout
      OBVIOUS
    <3> QED BY <3>1 DEF Payout
  <2>2. Amounts \subseteq Int
    BY TradeInAssumption
  <2> QED BY <2>1, <2>2
<1>5. OneMore(g, k, q, ps[q].amount, 0 + 1, m)
  <2> SUFFICES ASSUME NEW n \in 1 .. m
               PROVE  g[n] \in Int /\ k[n] = g[n] + At(q, ps[q].amount, n)
    <3>1. 0 + 1 = 1
      OBVIOUS
    <3> HIDE DEF g, k
    <3> QED BY <3>1 DEF OneMore
  <2>1. g[n] \in Int /\ k[n] \in Int
    BY <1>1, RowInt
  <2>2. n = q => g[n] = 0 /\ k[n] = ps[q].amount
    BY <1>1 DEF RowOf
  <2>3. n # q => g[n] = k[n]
    BY <1>1 DEF RowOf
  <2> HIDE DEF g, k
  <2> QED BY <1>4, <2>1, <2>2, <2>3 DEF At
<1>6. 0 \in Int /\ m \in Int /\ 0 <= m /\ q \in 0 + 1 .. m
  BY <1>1
<1> HIDE DEF g, k
<1>7. h[m] = f[m] + ps[q].amount
  BY <1>2, <1>3, <1>4, <1>5, <1>6, RunChange
<1> QED BY <1>2, <1>3, <1>7

-----------------------------------------------------------------------------
(* What was paid on a request in the first k rows. *)
SeenFor(ps, r, k) == {p \in DOMAIN ps : p <= k /\ ps[p].for = r}
SeenTotal(ps, r, k) == TotalOf(ps, SeenFor(ps, r, k))

LEMMA SeenInt ==
  ASSUME NEW ps \in Seq(Payout), NEW r, NEW k
  PROVE  SeenTotal(ps, r, k) \in Int
BY TotalInt DEF SeenTotal

(* A payout made since is not among them. *)
LEMMA SeenAppend ==
  ASSUME NEW ps \in Seq(Payout), NEW row \in Payout, NEW qs, OneRowMore(ps, row, qs), NEW r,
         NEW k \in Nat, k <= Len(ps)
  PROVE  SeenTotal(qs, r, k) = SeenTotal(ps, r, k)
<1>1. PICK m \in Nat : m = Len(ps) /\ DOMAIN ps = 1 .. m
  BY LenProperties
<1>2. /\ qs \in Seq(Payout) /\ Len(qs) = m + 1
      /\ \A n \in 1 .. m : qs[n] = ps[n]
  BY <1>1, AppendProperties DEF OneRowMore
<1>3. DOMAIN qs = 1 .. m + 1
  BY <1>2, LenProperties
<1>4. SeenFor(qs, r, k) = SeenFor(ps, r, k)
  BY <1>1, <1>2, <1>3 DEF SeenFor
<1>5. PICK S : S = SeenFor(ps, r, k)
  OBVIOUS
<1>6. ~(Len(ps) + 1 \in S)
  BY <1>1, <1>5 DEF SeenFor
<1>7. TotalOf(qs, S) = TotalOf(ps, S) + IF Len(ps) + 1 \in S THEN row.amount ELSE 0
  BY TotalAppend
<1>8. TotalOf(ps, S) \in Int
  BY TotalInt
<1> QED BY <1>4, <1>5, <1>6, <1>7, <1>8 DEF SeenTotal

(* Restocking changes no amount, and no request. *)
LEMMA SeenMarked ==
  ASSUME payouts \in Seq(Payout), NEW p \in DOMAIN payouts,
         payouts' = [payouts EXCEPT ![p].restocked = TRUE]
  PROVE  /\ \A r, k : SeenTotal(payouts', r, k) = SeenTotal(payouts, r, k)
         /\ \A q \in DOMAIN payouts :
              /\ payouts'[q].for = payouts[q].for /\ payouts'[q].seen = payouts[q].seen
              /\ payouts'[q].amount = payouts[q].amount /\ payouts'[q].ordinary = payouts[q].ordinary
<1>1. /\ payouts' \in Seq(Payout) /\ Len(payouts') = Len(payouts)
      /\ DOMAIN payouts' = DOMAIN payouts /\ DOMAIN payouts = 1 .. Len(payouts)
      /\ \A q \in DOMAIN payouts : q # p => payouts'[q] = payouts[q]
  BY Marked, LenProperties
<1>2. payouts[p] \in Payout /\ payouts'[p] = [payouts[p] EXCEPT !.restocked = TRUE]
  OBVIOUS
<1>3. /\ payouts'[p].for = payouts[p].for /\ payouts'[p].seen = payouts[p].seen
      /\ payouts'[p].amount = payouts[p].amount /\ payouts'[p].ordinary = payouts[p].ordinary
  BY <1>2 DEF Payout
<1>4. \A q \in DOMAIN payouts :
        /\ payouts'[q].for = payouts[q].for /\ payouts'[q].seen = payouts[q].seen
        /\ payouts'[q].amount = payouts[q].amount /\ payouts'[q].ordinary = payouts[q].ordinary
  BY <1>1, <1>3
<1>5. ASSUME NEW r, NEW k
      PROVE  SeenTotal(payouts', r, k) = SeenTotal(payouts, r, k)
  <2>1. SeenFor(payouts', r, k) = SeenFor(payouts, r, k)
    BY <1>1, <1>4 DEF SeenFor
  <2>2. PICK ps, qs, S :
          /\ ps \in Seq(Payout) /\ qs \in Seq(Payout)
          /\ ps = payouts /\ qs = payouts' /\ S = SeenFor(payouts, r, k)
    BY <1>1
  <2>3. SameRows(ps, S, qs, S) /\ ps \in Seq(Payout) /\ qs \in Seq(Payout)
    BY <1>1, <1>4, <2>2 DEF SameRows
  <2>4. TotalOf(qs, S) = TotalOf(ps, S)
    BY <2>3, TotalSame
  <2> QED BY <2>1, <2>2, <2>4 DEF SeenTotal
<1> QED BY <1>4, <1>5

-----------------------------------------------------------------------------
(* The offer a request has is never above the best it had; neither is the   *)
(* one a call read.  A call cleared without an approval has room for its     *)
(* amount under that offer beside the rows it saw, and so has every row that *)
(* such a call made.                                                         *)
Within(v, ps, b) ==
  v.pc \in {"offer", "clear"} /\ v.offer # NONE =>
    /\ v.for \in Requests /\ v.offer <= b[v.for]
    /\ v.pc = "clear" /\ ~v.approve =>
         v.seen <= Len(ps) /\ SeenTotal(ps, v.for, v.seen) + v.amount <= v.offer
RowWithin(ps, b, q) ==
  ps[q].ordinary =>
    /\ ps[q].for \in Requests /\ ps[q].seen <= Len(ps)
    /\ SeenTotal(ps, ps[q].for, ps[q].seen) + ps[q].amount <= b[ps[q].for]
OffersKnown == \A r \in Requests : offer[r] # NONE => offer[r] <= best[r]
CallBound == \A c \in Calls : Within(call[c], payouts, best)
RowBound == \A q \in DOMAIN payouts : RowWithin(payouts, best, q)
BoundInv == OffersKnown /\ CallBound /\ RowBound

LEMMA InitBound == Init => BoundInv
BY DEF Init, BoundInv, OffersKnown, CallBound, RowBound, Within, Idle

(* The last of some rows. *)
LEMMA LastOf ==
  ASSUME NEW m \in Nat, NEW S, S \subseteq 1 .. m, S # {}
  PROVE  \E q \in S : \A p \in S : p <= q
<1> DEFINE T == {n \in Nat : \E p \in S : n = m - p}
<1>1. T # {} /\ T \subseteq Nat
  <2>1. PICK p \in S : p \in 1 .. m
    OBVIOUS
  <2>2. m - p \in Nat
    BY <2>1
  <2> QED BY <2>1, <2>2
<1>2. PICK n \in T : \A x \in T : n <= x
  <2> HIDE DEF T
  <2> QED BY <1>1, LeastOf
<1>3. PICK q \in S : n = m - q
  OBVIOUS
<1>4. ASSUME NEW p \in S PROVE p <= q
  <2>1. p \in 1 .. m /\ q \in 1 .. m /\ m - p \in Nat
    OBVIOUS
  <2>2. m - q <= m - p
    BY <1>2, <1>3, <2>1
  <2> QED BY <2>1, <2>2
<1> QED BY <1>3, <1>4

(* The last of serial payouts saw the others, so they were part of what it  *)
(* was held to.                                                             *)
LEMMA SerialWithin ==
  ASSUME TypeOK, BoundInv PROVE SerialPayoutsWithinOffer
<1> SUFFICES ASSUME NEW r \in Requests, NEW S \in SUBSET Ordinary(r), Serial(S)
             PROVE  SumOf(S) <= best[r]
  BY DEF SerialPayoutsWithinOffer
<1>1. payouts \in Seq(Payout) /\ best[r] \in Nat
  <2>1. best[r] \in Amounts \cup {0} /\ payouts \in Seq(Payout)
    BY DEF TypeOK, Payout
  <2>2. Amounts \cup {0} \subseteq Nat
    BY TradeInAssumption
  <2> QED BY <2>1, <2>2
<1>2. PICK m \in Nat : m = Len(payouts) /\ DOMAIN payouts = 1 .. m
  BY <1>1, LenProperties
<1>3. SumOf(S) = TotalOf(payouts, S)
  BY SumIsTotal
<1>4. \A q \in S : q \in DOMAIN payouts /\ payouts[q].for = r /\ payouts[q].ordinary
  BY DEF Ordinary, PaidFor
<1>5. CASE S = {}
  <2>1. PICK f : IsRun(f, RowOf(payouts, S), 0, m) /\ TotalOf(payouts, S) = f[m]
    BY <1>1, <1>2, TotalRuns
  <2>2. \A n \in 0 + 1 .. m : RowOf(payouts, S)[n] = 0
    BY <1>2, <1>5 DEF RowOf
  <2>3. PICK g : g = RowOf(payouts, S)
    OBVIOUS
  <2>4. 0 \in Int /\ m \in Int /\ 0 <= m /\ m \in 0 .. m
    OBVIOUS
  <2>5. f[m] = 0
    BY <2>1, <2>2, <2>3, <2>4, RunStill
  <2> QED BY <1>1, <1>3, <2>1, <2>5
<1>6. CASE S # {}
  <2>1. PICK q \in S : \A p \in S : p <= q
    <3>1. S \subseteq 1 .. m
      BY <1>2, <1>4
    <3> QED BY <1>6, <3>1, LastOf
  <2>2. q \in DOMAIN payouts /\ RowWithin(payouts, best, q)
    BY <1>4 DEF BoundInv, RowBound
  <2>3. SeenTotal(payouts, r, payouts[q].seen) + payouts[q].amount <= best[r]
    BY <1>4, <2>2 DEF RowWithin
  <2>4. S \ {q} \subseteq SeenFor(payouts, r, payouts[q].seen)
    <3> SUFFICES ASSUME NEW p \in S, p # q
                 PROVE  p \in SeenFor(payouts, r, payouts[q].seen)
      OBVIOUS
    <3>1. p \in 1 .. m /\ q \in 1 .. m /\ p <= q
      BY <1>2, <1>4, <2>1
    <3>2. p < q
      BY <3>1
    <3>3. p <= payouts[q].seen
      BY <3>2 DEF Serial
    <3> QED BY <1>4, <3>3 DEF SeenFor
  <2>5. TotalOf(payouts, S \ {q}) <= SeenTotal(payouts, r, payouts[q].seen)
    BY <1>1, <2>4, TotalMono DEF SeenTotal
  <2>6. TotalOf(payouts, S) = TotalOf(payouts, S \ {q}) + payouts[q].amount
    BY <1>1, <2>2, TotalSplit
  <2>7. /\ TotalOf(payouts, S \ {q}) \in Int /\ SeenTotal(payouts, r, payouts[q].seen) \in Int
        /\ payouts[q].amount \in Nat
    <3>1. payouts[q] \in Payout
      BY <1>1, <2>2
    <3> QED BY <1>1, <3>1, TotalInt, SeenInt, TradeInAssumption DEF Payout
  <2> QED BY <1>1, <1>3, <2>3, <2>5, <2>6, <2>7
<1> QED BY <1>5, <1>6

LEMMA NextBound ==
  ASSUME TypeOK, CallsKnow, BoundInv, [Next]_vars PROVE BoundInv'
<1> USE TradeInAssumption
<1>0. /\ call \in [Calls -> CallState] /\ payouts \in Seq(Payout) /\ Len(payouts) \in Nat
      /\ best \in [Requests -> Nat] /\ offer \in [Requests -> Amounts \cup {NONE}]
      /\ Amounts \subseteq Nat /\ NONE \notin Amounts /\ Amounts \cup {0} \subseteq Nat
  <2>1. Amounts \subseteq Nat /\ NONE \notin Amounts /\ Amounts \cup {0} \subseteq Nat
    <3>1. Amounts \subseteq Nat
      OBVIOUS
    <3>2. NONE \notin Nat /\ 0 \in Nat
      OBVIOUS
    <3> QED BY <3>1, <3>2
  <2>2. best \in [Requests -> Nat]
    <3>1. best \in [Requests -> Amounts \cup {0}]
      BY DEF TypeOK
    <3> QED BY <2>1, <3>1
  <2> QED BY <2>1, <2>2, LenProperties DEF TypeOK, CallState, Payout
<1>1. /\ \A r \in Requests : offer[r] # NONE => offer[r] <= best[r]
      /\ \A c \in Calls : Within(call[c], payouts, best)
      /\ \A q \in DOMAIN payouts : RowWithin(payouts, best, q)
  BY DEF BoundInv, OffersKnown, CallBound, RowBound
<1>2. ASSUME /\ \A r \in Requests : offer'[r] # NONE => offer'[r] <= best'[r]
             /\ \A c \in Calls : Within(call'[c], payouts', best')
             /\ \A q \in DOMAIN payouts' : RowWithin(payouts', best', q)
      PROVE  BoundInv'
  BY <1>2 DEF BoundInv, OffersKnown, CallBound, RowBound
<1>3. ASSUME UNCHANGED <<offer, best, call, payouts>>
      PROVE  BoundInv'
  <2>1. /\ offer' = offer /\ best' = best /\ call' = call /\ payouts' = payouts
    BY <1>3
  <2> QED BY <1>1, <1>2, <2>1
<1>4. ASSUME UNCHANGED <<offer, best, payouts>>, NEW c \in Calls, NEW v,
             call' = [call EXCEPT ![c] = v], Within(v, payouts, best)
      PROVE  BoundInv'
  <2>1. \A d \in Calls : call'[d] = IF d = c THEN v ELSE call[d]
    BY <1>0, <1>4
  <2>2. \A d \in Calls : Within(call'[d], payouts, best)
    BY <1>1, <1>4, <2>1
  <2>3. /\ offer' = offer /\ best' = best /\ payouts' = payouts
    BY <1>4
  <2> QED BY <1>1, <1>2, <2>2, <2>3
<1>5. Within(Idle, payouts, best)
  BY DEF Within, Idle
<1>6. ASSUME NEW r \in Requests, NEW amount \in Amounts, Quote(r, amount)
      PROVE  BoundInv'
  <2>1. /\ offer' = [offer EXCEPT ![r] = amount] /\ call' = call /\ payouts' = payouts
        /\ best' = [best EXCEPT ![r] = IF amount > best[r] THEN amount ELSE best[r]]
    BY <1>6 DEF Quote, payoutVars
  <2>2. amount \in Nat
    BY <1>0
  <2>3. \A q \in Requests : best[q] \in Nat /\ best'[q] \in Nat /\ best[q] <= best'[q]
    BY <1>0, <2>1, <2>2
  <2>4. \A q \in Requests : offer'[q] # NONE => offer'[q] <= best'[q]
    <3> SUFFICES ASSUME NEW q \in Requests, offer'[q] # NONE
                 PROVE  offer'[q] <= best'[q]
      OBVIOUS
    <3>1. CASE q = r
      BY <1>0, <2>1, <2>2, <3>1
    <3>2. CASE q # r
      <4>1. offer'[q] = offer[q] /\ best'[q] = best[q]
        BY <1>0, <2>1, <3>2
      <4> QED BY <1>1, <4>1
    <3> QED BY <3>1, <3>2
  <2>5. \A c \in Calls : Within(call'[c], payouts', best')
    <3> SUFFICES ASSUME NEW c \in Calls, call[c].pc \in {"offer", "clear"}, call[c].offer # NONE
                 PROVE  Within(call[c], payouts, best')
      BY <2>1 DEF Within
    <3>1. Within(call[c], payouts, best)
      BY <1>1
    <3>2. call[c].for \in Requests /\ call[c].offer <= best[call[c].for]
      BY <3>1 DEF Within
    <3>3. call[c].offer \in Nat
      BY <1>0 DEF CallState
    <3>4. call[c].offer <= best'[call[c].for]
      BY <2>3, <3>2, <3>3
    <3> QED BY <3>1, <3>4 DEF Within
  <2>6. \A q \in DOMAIN payouts' : RowWithin(payouts', best', q)
    <3> SUFFICES ASSUME NEW q \in DOMAIN payouts, payouts[q].ordinary
                 PROVE  RowWithin(payouts, best', q)
      BY <2>1 DEF RowWithin
    <3>1. /\ payouts[q].for \in Requests /\ payouts[q].seen <= Len(payouts)
          /\ SeenTotal(payouts, payouts[q].for, payouts[q].seen) + payouts[q].amount
               <= best[payouts[q].for]
      BY <1>1 DEF RowWithin
    <3>2. SeenTotal(payouts, payouts[q].for, payouts[q].seen) \in Int /\ payouts[q].amount \in Nat
      <4>1. payouts[q] \in Payout
        BY <1>0
      <4>2. payouts[q].amount \in Amounts
        BY <4>1 DEF Payout
      <4> QED BY <1>0, <4>2, SeenInt
    <3>3. SeenTotal(payouts, payouts[q].for, payouts[q].seen) + payouts[q].amount
            <= best'[payouts[q].for]
      BY <2>3, <3>1, <3>2
    <3> QED BY <3>1, <3>3 DEF RowWithin
  <2> QED BY <1>2, <2>4, <2>5, <2>6
<1>7. ASSUME NEW c \in Calls, NEW r \in Requests \cup {NONE}, NEW amount \in Amounts,
             NEW approve \in BOOLEAN, ReadOffer(c, r, amount, approve)
      PROVE  BoundInv'
  <2> DEFINE v == [pc |-> "offer", for |-> r, amount |-> amount, approve |-> approve,
                   offer |-> IF r = NONE THEN NONE ELSE offer[r], seen |-> 0]
  <2>1. Within(v, payouts, best)
    BY <1>1 DEF Within
  <2>2. call' = [call EXCEPT ![c] = v]
    BY <1>7 DEF ReadOffer
  <2>3. UNCHANGED <<offer, best, payouts>>
    BY <1>7 DEF ReadOffer, requestVars, payoutVars
  <2> HIDE DEF v
  <2> QED BY <1>4, <2>1, <2>2, <2>3
<1>8. ASSUME NEW c \in Calls, NEW short \in BOOLEAN, ReadPaid(c, short)
      PROVE  BoundInv'
  <2> DEFINE cleared == [call[c] EXCEPT !.pc = "clear", !.approve = FALSE, !.seen = Len(payouts)]
             beyond  == [call[c] EXCEPT !.pc = "clear", !.seen = Len(payouts)]
  <2>0. call[c] \in CallState /\ call[c].pc = "offer"
    BY <1>0, <1>8 DEF ReadPaid
  <2>1. UNCHANGED <<offer, best, payouts>>
    BY <1>8 DEF ReadPaid, requestVars, payoutVars
  <2>2. Within(call[c], payouts, best)
    BY <1>1
  <2>3. CASE ~Beyond(c) /\ ~short
    <3>1. call' = [call EXCEPT ![c] = cleared]
      BY <1>8, <2>3 DEF ReadPaid
    <3>2. /\ cleared.pc = "clear" /\ cleared.for = call[c].for /\ cleared.offer = call[c].offer
          /\ cleared.amount = call[c].amount /\ cleared.seen = Len(payouts)
      BY <2>0 DEF CallState
    <3>3. call[c].offer # NONE
            => /\ call[c].for \in Requests /\ call[c].offer <= best[call[c].for]
               /\ SeenTotal(payouts, call[c].for, Len(payouts)) + call[c].amount <= call[c].offer
      <4> SUFFICES ASSUME call[c].offer # NONE
                   PROVE  /\ call[c].for \in Requests /\ call[c].offer <= best[call[c].for]
                          /\ SeenTotal(payouts, call[c].for, Len(payouts)) + call[c].amount
                               <= call[c].offer
        OBVIOUS
      <4>1. call[c].for \in Requests /\ call[c].offer <= best[call[c].for]
        BY <2>0, <2>2 DEF Within
      <4>2. ~(TotalOf(payouts, PaidFor(call[c].for)) + call[c].amount > call[c].offer)
        BY <2>3, SumIsTotal DEF Beyond
      <4>3. SeenTotal(payouts, call[c].for, Len(payouts)) = TotalOf(payouts, PaidFor(call[c].for))
        <5>1. \A p \in DOMAIN payouts : p <= Len(payouts)
          BY <1>0, LenProperties
        <5>2. SeenFor(payouts, call[c].for, Len(payouts)) = PaidFor(call[c].for)
          BY <5>1 DEF SeenFor, PaidFor
        <5> QED BY <5>2 DEF SeenTotal
      <4>4. TotalOf(payouts, PaidFor(call[c].for)) \in Int
        BY <1>0, TotalInt
      <4>5. call[c].offer \in Nat /\ call[c].amount \in Nat
        <5>1. call[c].offer \in Amounts \cup {NONE} /\ call[c].amount \in Amounts \cup {0}
          BY <2>0 DEF CallState
        <5> QED BY <1>0, <5>1
      <4> QED BY <4>1, <4>2, <4>3, <4>4, <4>5
    <3>4. Len(payouts) <= Len(payouts)
      BY <1>0
    <3> HIDE DEF cleared
    <3>5. Within(cleared, payouts, best)
      BY <3>2, <3>3, <3>4 DEF Within
    <3> QED BY <1>4, <2>1, <3>1, <3>5
  <2>4. CASE ~(~Beyond(c) /\ ~short) /\ call[c].approve
    <3>1. call' = [call EXCEPT ![c] = beyond]
      BY <1>8, <2>4 DEF ReadPaid
    <3>2. /\ beyond.pc = "clear" /\ beyond.for = call[c].for /\ beyond.offer = call[c].offer
          /\ beyond.approve = call[c].approve
      BY <2>0 DEF CallState
    <3> HIDE DEF beyond
    <3>3. Within(beyond, payouts, best)
      BY <2>0, <2>2, <2>4, <3>2 DEF Within
    <3> QED BY <1>4, <2>1, <3>1, <3>3
  <2>5. CASE ~(~Beyond(c) /\ ~short) /\ ~call[c].approve
    <3>1. call' = [call EXCEPT ![c] = Idle]
      BY <1>8, <2>5 DEF ReadPaid
    <3> QED BY <1>4, <1>5, <2>1, <3>1
  <2> QED BY <2>3, <2>4, <2>5
<1>9. ASSUME NEW c \in Calls, Pay(c)
      PROVE  BoundInv'
  <2>0. PICK row : row = [for |-> call[c].for, amount |-> MoneyOut(call[c].amount),
                          seen |-> call[c].seen,
                          ordinary |-> call[c].offer # NONE /\ ~call[c].approve,
                          restocked |-> FALSE]
    OBVIOUS
  <2>1. call[c] \in CallState /\ call[c].pc = "clear"
        /\ call[c].amount \in Amounts /\ call[c].for \in Requests \cup {NONE}
    BY <1>0, <1>9 DEF Pay, CallsKnow
  <2>2. row \in Payout
    BY <2>0, <2>1 DEF Payout, MoneyOut, CallState
  <2>3. /\ row.for = call[c].for /\ row.seen = call[c].seen /\ row.amount = call[c].amount
        /\ row.ordinary <=> call[c].offer # NONE /\ ~call[c].approve
    BY <2>0 DEF MoneyOut
  <2>4. payouts' = Append(payouts, row)
    BY <1>9, <2>0 DEF Pay
  <2>5. offer' = offer /\ best' = best
    BY <1>9 DEF Pay
  <2>6. \A d \in Calls : call'[d] = IF d = c THEN Idle ELSE call[d]
    BY <1>0, <1>9 DEF Pay
  <2>7. /\ Len(payouts') = Len(payouts) + 1
        /\ DOMAIN payouts' = DOMAIN payouts \cup {Len(payouts) + 1}
        /\ \A q \in DOMAIN payouts : payouts'[q] = payouts[q]
        /\ payouts'[Len(payouts) + 1] = row
    BY <1>0, <2>2, <2>4, Added
  <2>8. \A r : \A k \in Nat : k <= Len(payouts)
                                => SeenTotal(payouts', r, k) = SeenTotal(payouts, r, k)
    <3>1. OneRowMore(payouts, row, payouts')
      BY <2>4 DEF OneRowMore
    <3> QED BY <1>0, <2>2, <3>1, SeenAppend
  <2>9. \A k \in Nat : k <= Len(payouts) => k <= Len(payouts')
    BY <1>0, <2>7
  <2>10. \A d \in Calls : Within(call'[d], payouts', best')
    <3> SUFFICES ASSUME NEW d \in Calls
                 PROVE  Within(call'[d], payouts', best)
      BY <2>5
    <3>1. CASE d = c
      BY <2>6, <3>1 DEF Within, Idle
    <3>2. CASE d # c
      <4>1. call'[d] = call[d] /\ Within(call[d], payouts, best)
        BY <1>1, <2>6, <3>2
      <4>2. call[d].seen \in Nat
        BY <1>0 DEF CallState
      <4> QED BY <2>8, <2>9, <4>1, <4>2 DEF Within
    <3> QED BY <3>1, <3>2
  <2>11. \A q \in DOMAIN payouts : RowWithin(payouts', best', q)
    <3> SUFFICES ASSUME NEW q \in DOMAIN payouts
                 PROVE  RowWithin(payouts', best, q)
      BY <2>5
    <3>1. payouts'[q] = payouts[q] /\ RowWithin(payouts, best, q)
      BY <1>1, <2>7
    <3>2. payouts[q].seen \in Nat
      <4>1. payouts[q] \in Payout
        BY <1>0
      <4> QED BY <4>1 DEF Payout
    <3> QED BY <2>8, <2>9, <3>1, <3>2 DEF RowWithin
  <2>12. RowWithin(payouts', best', Len(payouts) + 1)
    <3> SUFFICES ASSUME row.ordinary
                 PROVE  /\ row.for \in Requests /\ row.seen <= Len(payouts')
                        /\ SeenTotal(payouts', row.for, row.seen) + row.amount <= best[row.for]
      BY <2>5, <2>7 DEF RowWithin
    <3>1. Within(call[c], payouts, best) /\ call[c].offer # NONE /\ ~call[c].approve
      BY <1>1, <2>3
    <3>2. /\ call[c].for \in Requests /\ call[c].offer <= best[call[c].for]
          /\ call[c].seen <= Len(payouts)
          /\ SeenTotal(payouts, call[c].for, call[c].seen) + call[c].amount <= call[c].offer
      BY <2>1, <3>1 DEF Within
    <3>3. call[c].seen \in Nat /\ call[c].offer \in Nat /\ call[c].amount \in Nat
          /\ best[call[c].for] \in Nat
      <4>1. call[c].offer \in Amounts \cup {NONE} /\ call[c].seen \in Nat
        BY <2>1 DEF CallState
      <4> QED BY <1>0, <2>1, <3>1, <3>2, <4>1
    <3>4. SeenTotal(payouts, call[c].for, call[c].seen) \in Int
      BY <1>0, SeenInt
    <3>5. SeenTotal(payouts', call[c].for, call[c].seen)
            = SeenTotal(payouts, call[c].for, call[c].seen)
      BY <2>8, <3>2, <3>3
    <3>6. SeenTotal(payouts', call[c].for, call[c].seen) + call[c].amount <= best[call[c].for]
      BY <3>2, <3>3, <3>4, <3>5
    <3> QED BY <2>3, <2>9, <3>2, <3>3, <3>6
  <2>13. \A q \in DOMAIN payouts' : RowWithin(payouts', best', q)
    BY <2>7, <2>11, <2>12
  <2> QED BY <1>1, <1>2, <2>5, <2>10, <2>13
<1>10. ASSUME NEW c \in Calls, NEW name \in Names, Restock(c, name)
       PROVE  BoundInv'
  <2>1. PICK p : p = call[c].for
    OBVIOUS
  <2>2. p \in DOMAIN payouts
    BY <1>10, <2>1 DEF Restock, CallsKnow
  <2>3. payouts' = [payouts EXCEPT ![p].restocked = TRUE]
    BY <1>10, <2>1 DEF Restock
  <2>4. offer' = offer /\ best' = best
    BY <1>10 DEF Restock, requestVars
  <2>5. \A d \in Calls : call'[d] = IF d = c THEN Idle ELSE call[d]
    BY <1>0, <1>10 DEF Restock
  <2>6. /\ \A r, k : SeenTotal(payouts', r, k) = SeenTotal(payouts, r, k)
        /\ \A q \in DOMAIN payouts :
             /\ payouts'[q].for = payouts[q].for /\ payouts'[q].seen = payouts[q].seen
             /\ payouts'[q].amount = payouts[q].amount /\ payouts'[q].ordinary = payouts[q].ordinary
    BY <1>0, <2>2, <2>3, SeenMarked
  <2>7. Len(payouts') = Len(payouts) /\ DOMAIN payouts' = DOMAIN payouts
    BY <1>0, <2>2, <2>3, Marked
  <2>8. \A d \in Calls : Within(call[d], payouts', best) /\ Within(Idle, payouts', best)
    BY <1>1, <2>6, <2>7 DEF Within, Idle
  <2>9. \A d \in Calls : Within(call'[d], payouts', best')
    BY <2>4, <2>5, <2>8
  <2>10. \A q \in DOMAIN payouts' : RowWithin(payouts', best', q)
    <3> SUFFICES ASSUME NEW q \in DOMAIN payouts
                 PROVE  RowWithin(payouts', best, q)
      BY <2>4, <2>7
    <3>1. RowWithin(payouts, best, q)
      BY <1>1
    <3> QED BY <2>6, <2>7, <3>1 DEF RowWithin
  <2> QED BY <1>1, <1>2, <2>4, <2>9, <2>10
<1>11. ASSUME NEW c \in Calls, NEW p \in DOMAIN payouts, Look(c, p)
       PROVE  BoundInv'
  <2> DEFINE v == [Idle EXCEPT !.pc = "restock", !.for = p]
  <2>1. Within(v, payouts, best)
    BY DEF Within, Idle
  <2>2. call' = [call EXCEPT ![c] = v]
    BY <1>11 DEF Look
  <2>3. UNCHANGED <<offer, best, payouts>>
    BY <1>11 DEF Look, requestVars, payoutVars
  <2> HIDE DEF v
  <2> QED BY <1>4, <2>1, <2>2, <2>3
<1>12. ASSUME NEW c \in Calls, PayFails(c) \/ RestockFails(c)
       PROVE  BoundInv'
  <2>1. call' = [call EXCEPT ![c] = Idle] /\ UNCHANGED <<offer, best, payouts>>
    BY <1>12 DEF PayFails, RestockFails, requestVars, payoutVars
  <2> QED BY <1>4, <1>5, <2>1
<1>13. CASE \/ \E r \in Requests, s \in Statuses : SetStatus(r, s)
            \/ \E r \in Requests, t \in Links : Issue(t, r)
            \/ \E t \in Links : Redeem(t) \/ Expire(t)
            \/ UNCHANGED vars
  BY <1>3, <1>13 DEF SetStatus, Issue, Redeem, Expire, requestVars, payoutVars, vars
<1> QED BY <1>6, <1>7, <1>8, <1>9, <1>10, <1>11, <1>12, <1>13 DEF Next

-----------------------------------------------------------------------------
(* All of the invariant, on every run of the model. *)
THEOREM TradeInInvariance == Spec => []IndInv
<1>1. IndInv /\ [Next]_vars => IndInv'
  BY NextTypeOK, NextRequestInv, NextPaid, NextStock DEF IndInv, StockInv
<1> QED BY <1>1, InitInd, PTL DEF Spec

(* Requests, links, payouts and calls stay within their types.              *)
THEOREM TradeInTypes == Spec => []TypeOK
BY TradeInInvariance, PTL DEF IndInv

(* The offer a customer accepted is the offer for good, for any number of   *)
(* links and of staff quoting, declining and receiving at the same time.    *)
THEOREM AcceptedForGood == Spec => []AcceptedOfferStands
<1>1. IndInv => AcceptedOfferStands
  BY DEF IndInv, RequestInv
<1> QED BY <1>1, TradeInInvariance, PTL

(* `paid` and the ledger agree: the trigger undoes a payout whose request   *)
(* was declined, rejected or not accepted when it was inserted.             *)
THEOREM PaidIsPaidOut == Spec => []PaidMeansMoneyOut
<1>1. IndInv => PaidMeansMoneyOut
  BY DEF IndInv
<1> QED BY <1>1, TradeInInvariance, PTL

(* The restocked mark and the stock made of a payout agree.                 *)
THEOREM RestockedIsOnTheShelf == Spec => []RestockIsTrue
<1>1. IndInv => RestockIsTrue
  BY DEF IndInv, StockInv
<1> QED BY <1>1, TradeInInvariance, PTL

(* Payouts not approved that did not overlap -- each in the ledger when the *)
(* next one's request read what had been paid -- never exceed the best offer *)
(* of their request, whoever made them and whatever was paid, approved or    *)
(* quoted between those reads and the inserts.                               *)
THEOREM SerialPayoutsNeverBeyond == Spec => []SerialPayoutsWithinOffer
<1>1. IndInv /\ BoundInv /\ [Next]_vars => (IndInv /\ BoundInv)'
  BY NextTypeOK, NextRequestInv, NextPaid, NextStock, NextBound DEF IndInv, StockInv
<1>2. IndInv /\ BoundInv => SerialPayoutsWithinOffer
  BY SerialWithin DEF IndInv
<1> QED BY <1>1, <1>2, InitInd, InitBound, PTL DEF Spec

-----------------------------------------------------------------------------
(* The promise to the seller.  What a step does to the three things it is   *)
(* about: one request is agreed on, paid for or called off, or none is.     *)
Out == {r \in Requests : PaidFor(r) # {}}
Off == {r \in Requests : Called(r)}
PaidSet == {r \in Requests : status[r] = "paid"}

LEMMA OutIsPaid ==
  ASSUME PaidMeansMoneyOut PROVE Out = PaidSet
BY DEF PaidMeansMoneyOut, Out, PaidSet

LEMMA OutIsPaidAfter ==
  ASSUME PaidMeansMoneyOut' PROVE Out' = PaidSet'
BY DEF PaidMeansMoneyOut, Out, PaidSet

LEMMA RequestMoves ==
  ASSUME IndInv, [Next]_vars
  PROVE  \/ UNCHANGED <<taken, PaidSet, Off>>
         \/ \E r \in Requests :
              \/ /\ taken[r] = NONE /\ status[r] = "quoted"
                 /\ \E amount \in Amounts : taken' = [taken EXCEPT ![r] = amount]
                 /\ UNCHANGED <<PaidSet, Off>>
              \/ /\ taken[r] # NONE /\ r \notin Off
                 /\ PaidSet' = PaidSet \cup {r}
                 /\ UNCHANGED <<taken, Off>>
              \/ /\ r \notin PaidSet
                 /\ Off' = Off \cup {r}
                 /\ UNCHANGED <<taken, PaidSet>>
<1> USE TradeInAssumption
<1>0. /\ status \in [Requests -> Statuses] /\ taken \in [Requests -> Amounts \cup {NONE}]
      /\ offer \in [Requests -> Amounts \cup {NONE}]
  BY DEF IndInv, TypeOK
<1>1. ASSUME NEW r \in Requests, status[r] = "quoted",
             status' = [status EXCEPT ![r] = "accepted"], Take(r)
      PROVE  /\ taken[r] = NONE
             /\ \E amount \in Amounts : taken' = [taken EXCEPT ![r] = amount]
             /\ UNCHANGED <<PaidSet, Off>>
  <2>1. taken[r] = NONE /\ offer[r] \in Amounts
    BY <1>0, <1>1 DEF IndInv, RequestInv, OffersInOrder, Agreed
  <2>2. taken' = [taken EXCEPT ![r] = offer[r]]
    BY <1>1 DEF Take
  <2>3. \A q \in Requests : /\ status'[q] = "paid" <=> status[q] = "paid"
                            /\ Called(q)' <=> Called(q)
    BY <1>0, <1>1 DEF Called
  <2>4. UNCHANGED <<PaidSet, Off>>
    BY <2>3 DEF PaidSet, Off
  <2> QED BY <2>1, <2>2, <2>4
<1>2. ASSUME NEW r \in Requests, NEW amount \in Amounts, Quote(r, amount)
      PROVE  UNCHANGED <<taken, PaidSet, Off>>
  <2>1. status[r] \in {"submitted", "quoted"} /\ status' = [status EXCEPT ![r] = "quoted"]
    BY <1>0, <1>2 DEF Quote, MayBecome, AllowedNext, Statuses
  <2>2. \A q \in Requests : /\ status'[q] = "paid" <=> status[q] = "paid"
                            /\ Called(q)' <=> Called(q)
    BY <1>0, <2>1 DEF Called
  <2> QED BY <1>2, <2>2 DEF PaidSet, Off, Quote
<1>3. ASSUME NEW r \in Requests, NEW s \in Statuses, SetStatus(r, s)
      PROVE  \/ UNCHANGED <<taken, PaidSet, Off>>
             \/ /\ taken[r] = NONE /\ status[r] = "quoted"
                /\ \E amount \in Amounts : taken' = [taken EXCEPT ![r] = amount]
                /\ UNCHANGED <<PaidSet, Off>>
             \/ /\ r \notin PaidSet
                /\ Off' = Off \cup {r}
                /\ UNCHANGED <<taken, PaidSet>>
  <2>1. \/ s = status[r]
        \/ s = "declined" /\ status[r] \in {"submitted", "quoted"}
        \/ s = "accepted" /\ status[r] = "quoted"
        \/ s = "received" /\ status[r] = "accepted"
        \/ s = "rejected" /\ status[r] = "received"
    BY <1>0, <1>3 DEF SetStatus, StaffStatuses, MayBecome, AllowedNext, Statuses
  <2>2. /\ status' = [status EXCEPT ![r] = s]
        /\ IF s = "accepted" /\ status[r] # "accepted" THEN Take(r) ELSE UNCHANGED taken
    BY <1>3 DEF SetStatus
  <2>3. CASE s = "accepted" /\ status[r] = "quoted"
    BY <1>1, <2>2, <2>3
  <2>4. CASE s = status[r]
    <3>1. status' = status /\ taken' = taken
      BY <1>0, <2>2, <2>4
    <3> QED BY <3>1 DEF PaidSet, Off, Called
  <2>5. CASE s = "received" /\ status[r] = "accepted"
    <3>1. \A q \in Requests : /\ status'[q] = "paid" <=> status[q] = "paid"
                              /\ Called(q)' <=> Called(q)
      BY <1>0, <2>2, <2>5 DEF Called
    <3> QED BY <2>2, <2>5, <3>1 DEF PaidSet, Off
  <2>6. CASE \/ s = "declined" /\ status[r] \in {"submitted", "quoted"}
             \/ s = "rejected" /\ status[r] = "received"
    <3>1. \A q \in Requests : /\ status'[q] = "paid" <=> status[q] = "paid"
                              /\ Called(q)' <=> Called(q) \/ q = r
      BY <1>0, <2>2, <2>6 DEF Called
    <3>2. taken' = taken /\ r \notin PaidSet
      BY <2>2, <2>6 DEF PaidSet
    <3> QED BY <3>1, <3>2 DEF PaidSet, Off
  <2> QED BY <2>1, <2>3, <2>4, <2>5, <2>6
<1>4. ASSUME NEW t \in Links, Redeem(t)
      PROVE  \/ UNCHANGED <<taken, PaidSet, Off>>
             \/ \E r \in Requests :
                  /\ taken[r] = NONE /\ status[r] = "quoted"
                  /\ \E amount \in Amounts : taken' = [taken EXCEPT ![r] = amount]
                  /\ UNCHANGED <<PaidSet, Off>>
  <2>1. link[t] \in Requests
    BY <1>4 DEF Redeem, Live, IndInv, TypeOK
  <2>2. CASE status[link[t]] = "quoted"
    BY <1>1, <1>4, <2>1, <2>2 DEF Redeem
  <2>3. CASE status[link[t]] # "quoted"
    BY <1>4, <2>3 DEF Redeem, PaidSet, Off, Called
  <2> QED BY <2>2, <2>3
<1>5. ASSUME NEW c \in Calls, Pay(c)
      PROVE  \/ UNCHANGED <<taken, PaidSet, Off>>
             \/ \E r \in Requests : /\ taken[r] # NONE /\ r \notin Off
                                    /\ PaidSet' = PaidSet \cup {r}
                                    /\ UNCHANGED <<taken, Off>>
  <2> DEFINE r == call[c].for
  <2>1. CASE r = NONE
    BY <1>5, <2>1 DEF Pay, PaidSet, Off, Called
  <2>2. CASE r # NONE
    <3>1. r \in Requests
      BY <1>5, <2>2 DEF Pay, IndInv, StockInv, CallsKnow
    <3>2. status[r] \in {"accepted", "received", "paid"} /\ status' = [status EXCEPT ![r] = "paid"]
      BY <1>0, <1>5, <2>2, <3>1 DEF Pay, MayBecome, AllowedNext, Statuses
    <3>3. taken[r] # NONE /\ taken' = taken
      BY <1>5, <3>1, <3>2 DEF Pay, IndInv, RequestInv, AcceptedOfferStands
    <3>4. \A q \in Requests : /\ status'[q] = "paid" <=> status[q] = "paid" \/ q = r
                              /\ Called(q)' <=> Called(q)
      BY <1>0, <3>1, <3>2 DEF Called
    <3>5. r \notin Off /\ UNCHANGED Off /\ PaidSet' = PaidSet \cup {r}
      BY <3>1, <3>2, <3>4 DEF Off, PaidSet, Called
    <3> QED BY <3>1, <3>3, <3>5
  <2> QED BY <2>1, <2>2
<1>6. ASSUME UNCHANGED <<status, taken>>
      PROVE  UNCHANGED <<taken, PaidSet, Off>>
  BY <1>6 DEF PaidSet, Off, Called
<1>7. CASE \/ \E r \in Requests, t \in Links : Issue(t, r)
           \/ \E t \in Links : Expire(t)
           \/ \E c \in Calls :
                \/ \E r \in Requests \cup {NONE}, amount \in Amounts, approve \in BOOLEAN :
                     ReadOffer(c, r, amount, approve)
                \/ \E short \in BOOLEAN : ReadPaid(c, short)
                \/ PayFails(c)
                \/ \E p \in DOMAIN payouts : Look(c, p)
                \/ \E name \in Names : Restock(c, name)
                \/ RestockFails(c)
           \/ UNCHANGED vars
  <2>1. UNCHANGED <<status, taken>>
    BY <1>7 DEF Issue, Expire, ReadOffer, ReadPaid, PayFails, Look, Restock, RestockFails,
                requestVars, vars
  <2> QED BY <1>6, <2>1
<1> QED BY <1>2, <1>3, <1>4, <1>5, <1>7 DEF Next

(* Buying a device implements the promise to its seller: whatever calls,    *)
(* links and payouts overlap, every step agrees once, pays what was agreed  *)
(* on, calls off what was not paid for, or is invisible to the promise.     *)
THEOREM SellersAreKeptTo == Spec => KeepsPurchasePromise
<1>1. Init => Promise!Init
  <2> SUFFICES ASSUME Init PROVE Promise!Init
    OBVIOUS
  <2>1. Out = {} /\ Off = {} /\ taken = [r \in Requests |-> NONE]
    BY DEF Init, Out, Off, PaidFor, Called
  <2> QED BY <2>1 DEF Promise!Init, Out, Off
<1>2. ASSUME IndInv, IndInv', [Next]_vars
      PROVE  [Promise!Next]_<<taken, {r \in Requests : PaidFor(r) # {}}, {r \in Requests : Called(r)}>>
  <2>1. Out = PaidSet /\ Out' = PaidSet'
    BY <1>2, OutIsPaid, OutIsPaidAfter DEF IndInv
  <2>2. CASE UNCHANGED <<taken, PaidSet, Off>>
    BY <2>1, <2>2 DEF Out, Off
  <2>3. ASSUME NEW r \in Requests, NEW amount \in Amounts, taken[r] = NONE, status[r] = "quoted",
               taken' = [taken EXCEPT ![r] = amount], UNCHANGED <<PaidSet, Off>>
        PROVE  Promise!Agree(r, amount)
    <3>1. r \notin Off /\ UNCHANGED <<Out, Off>>
      BY <2>1, <2>3 DEF Off, Called
    <3> QED BY <2>3, <3>1 DEF Promise!Agree, Out, Off
  <2>4. ASSUME NEW r \in Requests, taken[r] # NONE, r \notin Off, PaidSet' = PaidSet \cup {r},
               UNCHANGED <<taken, Off>>
        PROVE  Promise!PayOut(r)
    <3>1. Out' = Out \cup {r}
      BY <2>1, <2>4
    <3> QED BY <2>4, <3>1 DEF Promise!PayOut, Out, Off
  <2>5. ASSUME NEW r \in Requests, r \notin PaidSet, Off' = Off \cup {r}, UNCHANGED <<taken, PaidSet>>
        PROVE  Promise!CallOff(r)
    <3>1. r \notin Out /\ Out' = Out
      BY <2>1, <2>5
    <3> QED BY <2>5, <3>1 DEF Promise!CallOff, Out, Off
  <2> QED BY <1>2, <2>2, <2>3, <2>4, <2>5, RequestMoves DEF Promise!Next
<1> QED BY <1>1, <1>2, TradeInInvariance, PTL DEF Spec, KeepsPurchasePromise, Promise!Spec
=============================================================================
