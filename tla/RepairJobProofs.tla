--------------------------- MODULE RepairJobProofs ---------------------------
(* Proofs about RepairJob, for every value of its constants. *)
EXTENDS RepairJob, TLAPS

(* A request that began is about a job that exists, and has payments left   *)
(* to insert when it is about to.                                           *)
CallsLeft ==
  \A p \in Payers :
    /\ pc[p] \in {"idle", "checked"} => call[p] = 0
    /\ pc[p] = "paying" => call[p] < Len(Calls[p])
    /\ pc[p] # "idle" => status[PaidFor[p]] # "none"

(* What record_job_payment added up counts payments that are there or its   *)
(* own, and the first price it compared with still stands.                  *)
InsertedIsCounted ==
  \A p \in Payers :
    pc[p] = "inserted" =>
      LET j == PaidFor[p] IN
      /\ seen[p].total \in 1 .. Sum(paid[j]) + Sum(own[p])
      /\ seen[p].price > 0 => Price(j) # NONE /\ (revised[j] = NONE => quoted[j] = seen[p].price)

NewIsFresh == \A j \in Jobs : status[j] = "none" => payStatus[j] = "unpaid" /\ calledOff[j] = "no"
CancelledIsCalledOff == \A j \in Jobs : status[j] = "cancelled" => calledOff[j] # "no"

(* A cancellation past its UPDATE holds the row; what it found to give back *)
(* is so until it commits.                                                  *)
DueIs(f, g, h) == \A t \in Tenders : f[t] = AtLeastNone(g[t] - h[t])
HoldsRow(m) ==
  /\ at[m] \in {"checked", "updated", "refunding"} => job[m] \in Jobs /\ status[job[m]] # "none"
  /\ at[m] \in {"updated", "refunding"} => lock[job[m]] = m
  /\ at[m] = "refunding" => DueIs(due[m], paid[job[m]], refunded[job[m]])
CancelHoldsRow == \A m \in Staff : HoldsRow(m)

PayerInv == CallsLeft /\ InsertedIsCounted
JobInv == NewIsFresh /\ CancelledIsCalledOff /\ HandedOverIsPaid /\ PaymentStatusIsEarned
StaffInv == CancelHoldsRow /\ RefundsWithinPaid
IndInv == TypeOK /\ PayerInv /\ JobInv /\ StaffInv /\ BookingShowsAJob

Stages == {"idle", "checked", "inserted", "paying", "paid", "refused"}
Statuses == {"none", "new", "in_progress", "waiting_approval", "done", "sent_back", "collected",
             "cancelled"}
BookingStatuses == {"received", "in_progress", "ready", "dispatched", "cancelled"}

-----------------------------------------------------------------------------
(* Sums over the payment methods. *)
LEMMA SumType == ASSUME NEW f \in [Tenders -> Nat] PROVE Sum(f) \in Nat
BY DEF Sum, Tenders

LEMMA PlusSum ==
  ASSUME NEW f \in [Tenders -> Nat], NEW g \in [Tenders -> Nat]
  PROVE  Plus(f, g) \in [Tenders -> Nat] /\ Sum(Plus(f, g)) = Sum(f) + Sum(g)
BY DEF Sum, Tenders, Plus

LEMMA AddedSum ==
  ASSUME NEW f \in [Tenders -> Nat], NEW t \in Tenders, NEW n \in Nat \ {0}
  PROVE  /\ [f EXCEPT ![t] = @ + n] \in [Tenders -> Nat]
         /\ Sum([f EXCEPT ![t] = @ + n]) = Sum(f) + n
BY DEF Sum, Tenders

LEMMA ElementOf == ASSUME NEW S, NEW s \in Seq(S), NEW i \in 1 .. Len(s) PROVE s[i] \in S
OBVIOUS

(* A call of a request names a tender and a sum above nothing.              *)
LEMMA CallOf ==
  ASSUME NEW s \in Seq([tender : Tenders, amount : Nat \ {0}]), NEW i \in 1 .. Len(s)
  PROVE  s[i] \in [tender : Tenders, amount : Nat \ {0}]
<1> DEFINE R == [tender : Tenders, amount : Nat \ {0}]
<1>1. s \in Seq(R)
  OBVIOUS
<1> HIDE DEF R
<1>2. s[i] \in R
  BY <1>1, ElementOf
<1> QED BY <1>2 DEF R

LEMMA PriceType == ASSUME TypeOK, NEW j \in Jobs PROVE Price(j) \in Nat \cup {NONE}
BY DEF TypeOK, Price

-----------------------------------------------------------------------------
LEMMA InitInd == Init => IndInv
<1> SUFFICES ASSUME Init PROVE IndInv
  OBVIOUS
<1> USE BenchAssumption, MoneyAssumption DEF Init
<1>0. Nothing \in [Tenders -> Nat] /\ Sum(Nothing) = 0 /\ \A t \in Tenders : Nothing[t] = 0
  BY DEF Nothing, Sum, Tenders
<1>1. TypeOK
  BY <1>0 DEF TypeOK
<1>2. PayerInv
  BY DEF PayerInv, CallsLeft, InsertedIsCounted
<1>3. JobInv
  BY <1>0 DEF JobInv, NewIsFresh, CancelledIsCalledOff, HandedOverIsPaid, PaymentStatusIsEarned
<1>4. StaffInv
  BY <1>0 DEF StaffInv, CancelHoldsRow, HoldsRow, RefundsWithinPaid
<1>5. BookingShowsAJob
  BY DEF BookingShowsAJob, JobsOf
<1> QED BY <1>1, <1>2, <1>3, <1>4, <1>5 DEF IndInv

-----------------------------------------------------------------------------
(* What the steps do, for the lemmas that follow. *)

(* Work at the bench touches one job, and neither money nor requests.       *)
LEMMA WorkFacts ==
  ASSUME TypeOK, NEW j \in Jobs, Work(j)
  PROVE  /\ UNCHANGED <<payStatus, deposit, moneyVars, lock, payerVars, staffVars>>
         /\ \A i \in Jobs :
              /\ i # j => status'[i] = status[i]
              /\ status[i] # "none" => status'[i] # "none" /\ quoted'[i] = quoted[i]
              /\ \/ revised'[i] = revised[i]
                 \/ revised'[i] \in Nat /\ status'[i] = "waiting_approval"
              /\ \/ calledOff'[i] = calledOff[i]
                 \/ calledOff'[i] = "keep" /\ status'[i] = "cancelled" /\ status[i] # "none"
              /\ status'[i] = "cancelled" => status[i] = "cancelled" \/ calledOff'[i] = "keep"
              /\ status'[i] \in {"sent_back", "collected"} =>
                   status[i] # "none" /\ (status[i] \in {status'[i], "cancelled"} \/ ~Owes(i))
<1> USE BenchAssumption, MoneyAssumption
<1>0. /\ status \in [Jobs -> Statuses] /\ quoted \in [Jobs -> Nat \cup {NONE}]
      /\ revised \in [Jobs -> Nat \cup {NONE}] /\ calledOff \in [Jobs -> {"no", "refund", "keep"}]
  BY DEF TypeOK, Statuses
<1>1. CASE ConvertLook(j)
  BY <1>1 DEF ConvertLook, jobVars
<1>2. ASSUME NEW price, Convert(j, price) \/ Create(j, price) PROVE BookedIn(j, price)
  BY <1>2 DEF Convert, Create
<1>3. CASE \E price \in Prices[j] \cup {NONE} : Convert(j, price) \/ Create(j, price)
  <2>1. PICK price : BookedIn(j, price)
    BY <1>2, <1>3
  <2> QED BY <1>0, <2>1 DEF BookedIn
<1>4. CASE \E yes \in BOOLEAN : Start(j, yes)
  BY <1>0, <1>4 DEF Start, Move
<1>5. ASSUME NEW price \in Prices[j], Revise(j, price)
      PROVE  /\ status' = [status EXCEPT ![j] = "waiting_approval"] /\ status[j] # "none"
             /\ revised' = [revised EXCEPT ![j] = price] /\ price \in Nat
             /\ UNCHANGED <<quoted, payStatus, deposit, calledOff, moneyVars, lock, payerVars,
                            staffVars>>
  BY <1>0, <1>5 DEF Revise, Move
<1>6. CASE \E price \in Prices[j] : Revise(j, price)
  <2>1. PICK price \in Prices[j] : Revise(j, price)
    BY <1>6
  <2> QED BY <1>0, <1>5, <2>1
<1>7. CASE Finish(j)
  BY <1>0, <1>7 DEF Finish, Move
<1>8. CASE HandOver(j)
  BY <1>0, <1>8 DEF HandOver, Move
<1>9. CASE PostBack(j)
  BY <1>0, <1>9 DEF PostBack, Move
<1>10. CASE CancelKeeping(j)
  BY <1>0, <1>10 DEF CancelKeeping, Cancellable
<1> QED BY <1>1, <1>3, <1>4, <1>6, <1>7, <1>8, <1>9, <1>10 DEF Work

(* An insert that stands adds one payment of the request to its own.        *)
LEMMA InsertFacts ==
  ASSUME TypeOK, CallsLeft, NEW p \in Payers, Insert(p)
  PROVE  \/ Undo(p)
         \/ \E mine \in [Tenders -> Nat] :
              LET j == PaidFor[p] IN
              /\ pc[p] \in {"checked", "paying"} /\ Goto(p, "inserted")
              /\ Sum(mine) >= 1
              /\ own' = [own EXCEPT ![p] = mine]
              /\ call' = [call EXCEPT ![p] = @ + 1]
              /\ seen' = [seen EXCEPT ![p] =
                   [total |-> Sum(paid[j]) + Sum(mine),
                    price |-> IF Price(j) = NONE THEN 0 ELSE Price(j)]]
              /\ UNCHANGED <<jobVars, bookingVars, moneyVars, lock, draft, staffVars>>
<1> USE BenchAssumption, MoneyAssumption
<1> DEFINE c == Calls[p][call[p] + 1]
           mine == [own[p] EXCEPT ![c.tender] = @ + c.amount]
<1>1. call[p] \in Nat /\ call[p] < Len(Calls[p])
  <2>1. Calls[p] \in Seq([tender : Tenders, amount : Nat \ {0}]) /\ Calls[p] # << >>
    OBVIOUS
  <2>2. Len(Calls[p]) \in Nat \ {0}
    BY <2>1
  <2>3. call[p] \in Nat
    BY DEF TypeOK
  <2> QED BY <2>2, <2>3 DEF Insert, CallsLeft
<1>2. c \in [tender : Tenders, amount : Nat \ {0}]
  <2>1. Calls[p] \in Seq([tender : Tenders, amount : Nat \ {0}])
    OBVIOUS
  <2>2. call[p] + 1 \in 1 .. Len(Calls[p])
    BY <1>1, <2>1
  <2>3. Calls[p][call[p] + 1] \in [tender : Tenders, amount : Nat \ {0}]
    <3> HIDE DEF c, mine
    <3> QED BY <2>1, <2>2, CallOf
  <2> QED BY <2>3
<1>3. own[p] \in [Tenders -> Nat]
  BY DEF TypeOK
<1>4. c.tender \in Tenders /\ c.amount \in Nat \ {0}
  BY <1>2
<1>5. mine \in [Tenders -> Nat] /\ Sum(mine) >= 1
  <2> HIDE DEF c
  <2>1. Sum(own[p]) \in Nat
    BY <1>3, SumType
  <2>2. mine \in [Tenders -> Nat] /\ Sum(mine) = Sum(own[p]) + c.amount
    BY <1>3, <1>4, AddedSum
  <2> QED BY <1>4, <2>1, <2>2
<1>6. \/ Undo(p)
      \/ /\ pc[p] \in {"checked", "paying"} /\ Goto(p, "inserted")
         /\ own' = [own EXCEPT ![p] = mine]
         /\ call' = [call EXCEPT ![p] = @ + 1]
         /\ seen' = [seen EXCEPT ![p] =
              [total |-> Sum(paid[PaidFor[p]]) + Sum(mine),
               price |-> IF Price(PaidFor[p]) = NONE THEN 0 ELSE Price(PaidFor[p])]]
         /\ UNCHANGED <<jobVars, bookingVars, moneyVars, lock, draft, staffVars>>
  BY DEF Insert
<1> HIDE DEF mine
<1> QED BY <1>5, <1>6

(* An update fails, makes way for the next call, or commits.                *)
Goes(p) ==
  LET j == PaidFor[p] IN
  /\ Goto(p, "paying") /\ call[p] < Len(Calls[p])
  /\ lock' = [lock EXCEPT ![j] = p]
  /\ draft' = [draft EXCEPT ![p] = WrittenDeposit(p)]
  /\ UNCHANGED <<jobVars, bookingVars, moneyVars, own, call, seen, staffVars>>
Commits(p) ==
  LET j == PaidFor[p] IN
  /\ Goto(p, "paid")
  /\ paid' = [paid EXCEPT ![j] = Plus(@, own[p])]
  /\ own' = [own EXCEPT ![p] = Nothing]
  /\ payStatus' = [payStatus EXCEPT ![j] = IF Covers(p) THEN "paid" ELSE "deposit_paid"]
  /\ deposit' = [deposit EXCEPT ![j] = WrittenDeposit(p)]
  /\ lock' = [lock EXCEPT ![j] = NONE]
  /\ UNCHANGED <<status, quoted, revised, approved, calledOff, bookingVars, refunded,
                 call, seen, draft, staffVars>>

LEMMA UpdateFacts ==
  ASSUME TypeOK, NEW p \in Payers, Update(p)
  PROVE  /\ pc[p] = "inserted" /\ lock[PaidFor[p]] \in {NONE, p}
         /\ Undo(p) \/ Goes(p) \/ Commits(p)
         /\ WrittenDeposit(p) \in Nat
         /\ WrittenDeposit(p) = seen[p].total \/ Covers(p)
<1> USE BenchAssumption, MoneyAssumption
<1>1. WrittenDeposit(p) \in Nat
  BY DEF TypeOK, WrittenDeposit
<1>2. WrittenDeposit(p) = seen[p].total \/ Covers(p)
  BY DEF WrittenDeposit
<1> QED BY <1>1, <1>2 DEF Update, Goes, Commits

-----------------------------------------------------------------------------
(* Types. *)

LEMMA SyncType ==
  ASSUME TypeOK, NEW j \in Jobs, NEW s, Sync(j, s)
  PROVE  booking' \in [Bookings -> BookingStatuses]
BY DEF Sync, BookingStatus, TypeOK, BookingStatuses

LEMMA WorkTypes == ASSUME TypeOK, NEW j \in Jobs, Work(j) PROVE TypeOK'
<1> USE BenchAssumption, MoneyAssumption
<1>1. CASE ConvertLook(j)
  BY <1>1 DEF ConvertLook, jobVars, moneyVars, payerVars, staffVars, TypeOK
<1>2. CASE \E price \in Prices[j] \cup {NONE} : Convert(j, price) \/ Create(j, price)
  <2>1. PICK price \in Prices[j] \cup {NONE} : Convert(j, price) \/ Create(j, price)
    BY <1>2
  <2>2. price \in Nat \cup {NONE} /\ BookedIn(j, price)
    BY <2>1 DEF Convert, Create
  <2>3. booking' \in [Bookings -> BookingStatuses]
    <3>1. CASE Create(j, price)
      BY <3>1 DEF Create, TypeOK, BookingStatuses
    <3>2. CASE Convert(j, price)
      <4>1. booking' = [booking EXCEPT ![BookingOf[j]] =
              IF booking[BookingOf[j]] = "received" THEN "in_progress" ELSE booking[BookingOf[j]]]
        BY <3>2 DEF Convert
      <4>2. booking \in [Bookings -> BookingStatuses]
        BY DEF TypeOK, BookingStatuses
      <4> QED BY <4>1, <4>2 DEF BookingStatuses
    <3> QED BY <2>1, <3>1, <3>2
  <2> QED BY <2>2, <2>3 DEF BookedIn, moneyVars, payerVars, staffVars, TypeOK, BookingStatuses
<1>3. ASSUME NEW from, NEW to \in Statuses, Move(j, from, to),
             approved' \in SUBSET Jobs, revised' \in [Jobs -> Nat \cup {NONE}]
      PROVE  TypeOK'
  <2>1. booking' \in [Bookings -> BookingStatuses]
    BY <1>3, SyncType DEF Move
  <2> QED BY <1>3, <2>1 DEF Move, moneyVars, payerVars, staffVars, TypeOK, BookingStatuses, Statuses
<1>4. CASE \E yes \in BOOLEAN : Start(j, yes)
  <2>1. PICK yes \in BOOLEAN : Start(j, yes)
    BY <1>4
  <2>2. approved \in SUBSET Jobs /\ revised \in [Jobs -> Nat \cup {NONE}]
    BY DEF TypeOK
  <2>3. approved' \in SUBSET Jobs /\ revised' \in [Jobs -> Nat \cup {NONE}]
    BY <2>1, <2>2 DEF Start
  <2>4. \E from : Move(j, from, "in_progress")
    BY <2>1 DEF Start
  <2> QED BY <1>3, <2>3, <2>4 DEF Statuses
<1>5. CASE \E price \in Prices[j] : Revise(j, price)
  <2>1. PICK price \in Prices[j] : Revise(j, price)
    BY <1>5
  <2>2. price \in Nat
    OBVIOUS
  <2> QED BY <1>3, <2>1, <2>2 DEF Revise, Statuses, TypeOK
<1>6. CASE Finish(j)
  BY <1>3, <1>6 DEF Finish, Statuses, TypeOK
<1>7. CASE HandOver(j)
  BY <1>3, <1>7 DEF HandOver, Statuses, TypeOK
<1>8. CASE PostBack(j)
  BY <1>3, <1>8 DEF PostBack, Statuses, TypeOK
<1>9. CASE CancelKeeping(j)
  <2>1. booking' \in [Bookings -> BookingStatuses]
    BY <1>9, SyncType DEF CancelKeeping
  <2> QED BY <1>9, <2>1 DEF CancelKeeping, moneyVars, payerVars, staffVars, TypeOK, BookingStatuses
<1> QED BY <1>1, <1>2, <1>4, <1>5, <1>6, <1>7, <1>8, <1>9 DEF Work

LEMMA UndoTypes == ASSUME TypeOK, NEW p \in Payers, Undo(p) PROVE TypeOK'
<1>1. Nothing \in [Tenders -> Nat]
  BY DEF Nothing
<1> QED BY <1>1, BenchAssumption
        DEF Undo, Goto, jobVars, bookingVars, moneyVars, staffVars, TypeOK

LEMMA PayerTypes ==
  ASSUME TypeOK, CallsLeft, NEW p \in Payers, Check(p) \/ Pay(p) \/ PayFails(p) PROVE TypeOK'
<1> USE BenchAssumption, MoneyAssumption
<1>0. Nothing \in [Tenders -> Nat] /\ PaidFor[p] \in Jobs /\ paid[PaidFor[p]] \in [Tenders -> Nat]
      /\ own[p] \in [Tenders -> Nat]
  BY DEF Nothing, TypeOK
<1>1. CASE Check(p)
  BY <1>1 DEF Check, Goto, jobVars, bookingVars, moneyVars, staffVars, TypeOK
<1>2. CASE PayFails(p)
  BY <1>2, UndoTypes DEF PayFails
<1>3. ASSUME Insert(p), ~Undo(p) PROVE TypeOK'
  <2>1. PICK mine \in [Tenders -> Nat] :
          /\ Goto(p, "inserted")
          /\ own' = [own EXCEPT ![p] = mine]
          /\ call' = [call EXCEPT ![p] = @ + 1]
          /\ seen' = [seen EXCEPT ![p] =
               [total |-> Sum(paid[PaidFor[p]]) + Sum(mine),
                price |-> IF Price(PaidFor[p]) = NONE THEN 0 ELSE Price(PaidFor[p])]]
          /\ UNCHANGED <<jobVars, bookingVars, moneyVars, lock, draft, staffVars>>
    BY <1>3, InsertFacts
  <2>2. Sum(paid[PaidFor[p]]) + Sum(mine) \in Nat
    <3>1. Sum(paid[PaidFor[p]]) \in Nat
      BY <1>0, SumType
    <3>2. Sum(mine) \in Nat
      BY SumType
    <3> QED BY <3>1, <3>2
  <2>3. (IF Price(PaidFor[p]) = NONE THEN 0 ELSE Price(PaidFor[p])) \in Nat
    BY <1>0, PriceType
  <2>4. seen' \in [Payers -> [total : Nat, price : Nat]]
    BY <2>1, <2>2, <2>3 DEF TypeOK
  <2>5. own' \in [Payers -> [Tenders -> Nat]] /\ call' \in [Payers -> Nat]
    <3>1. own \in [Payers -> [Tenders -> Nat]] /\ call \in [Payers -> Nat]
      BY DEF TypeOK
    <3>2. own' = [own EXCEPT ![p] = mine] /\ call' = [call EXCEPT ![p] = call[p] + 1]
      BY <2>1
    <3>3. call[p] + 1 \in Nat
      BY <3>1
    <3> QED BY <3>1, <3>2, <3>3
  <2> QED BY <2>1, <2>4, <2>5 DEF Goto, jobVars, bookingVars, moneyVars, staffVars, TypeOK
<1>4. ASSUME Update(p), Goes(p) PROVE TypeOK'
  <2>1. WrittenDeposit(p) \in Nat
    BY <1>4, UpdateFacts
  <2> QED BY <1>0, <1>4, <2>1 DEF Goes, Goto, jobVars, bookingVars, moneyVars, staffVars, TypeOK
<1>5. ASSUME Update(p), Commits(p) PROVE TypeOK'
  <2>1. WrittenDeposit(p) \in Nat
    BY <1>5, UpdateFacts
  <2>2. Plus(paid[PaidFor[p]], own[p]) \in [Tenders -> Nat]
    BY <1>0, PlusSum
  <2>3. paid' \in [Jobs -> [Tenders -> Nat]] /\ own' \in [Payers -> [Tenders -> Nat]]
    BY <1>0, <1>5, <2>2 DEF Commits, TypeOK
  <2>4. payStatus' \in [Jobs -> {"unpaid", "deposit_paid", "paid"}] /\ deposit' \in [Jobs -> Nat]
        /\ lock' \in [Jobs -> Payers \cup Staff \cup {NONE}] /\ pc' \in [Payers -> Stages]
    BY <1>0, <1>5, <2>1 DEF Commits, Goto, TypeOK, Stages
  <2> QED BY <1>5, <2>3, <2>4 DEF Commits, bookingVars, staffVars, TypeOK, Stages
<1> QED BY <1>1, <1>2, <1>3, <1>4, <1>5, UndoTypes, UpdateFacts DEF Pay

LEMMA StaffTypes ==
  ASSUME TypeOK, CancelHoldsRow, NEW m \in Staff,
         Cancel(m) \/ CancelFails(m) \/ \E j \in Jobs : CancelCheck(m, j)
  PROVE  TypeOK'
<1> USE BenchAssumption, MoneyAssumption
<1>1. CASE \E j \in Jobs : CancelCheck(m, j)
  BY <1>1 DEF CancelCheck, jobVars, bookingVars, moneyVars, payerVars, TypeOK
<1>2. CASE CancelUpdate(m)
  BY <1>2 DEF CancelUpdate, jobVars, bookingVars, moneyVars, payerVars, TypeOK
<1>3. CASE CancelRead(m)
  <2>1. job[m] \in Jobs
    BY <1>3 DEF CancelRead, CancelHoldsRow, HoldsRow
  <2>2. \A t \in Tenders : AtLeastNone(paid[job[m]][t] - refunded[job[m]][t]) \in Nat
    BY <2>1 DEF AtLeastNone, TypeOK
  <2>3. due' \in [Staff -> [Tenders -> Nat]]
    BY <1>3, <2>2 DEF CancelRead, TypeOK
  <2> QED BY <1>3, <2>3 DEF CancelRead, jobVars, bookingVars, moneyVars, payerVars, TypeOK
<1>4. CASE CancelCommit(m)
  <2>1. job[m] \in Jobs
    BY <1>4 DEF CancelCommit, CancelHoldsRow, HoldsRow
  <2>2. Plus(refunded[job[m]], due[m]) \in [Tenders -> Nat]
    BY <2>1, PlusSum DEF TypeOK
  <2>3. refunded' \in [Jobs -> [Tenders -> Nat]]
    BY <1>4, <2>1, <2>2 DEF CancelCommit, TypeOK
  <2>4. booking' \in [Bookings -> BookingStatuses]
    BY <1>4, <2>1, SyncType DEF CancelCommit
  <2> QED BY <1>4, <2>1, <2>3, <2>4 DEF CancelCommit, RowFree, payerVars, TypeOK, BookingStatuses
<1>5. CASE CancelFails(m)
  BY <1>5 DEF CancelFails, RowFree, jobVars, bookingVars, moneyVars, payerVars, TypeOK
<1> QED BY <1>1, <1>2, <1>3, <1>4, <1>5 DEF Cancel

LEMMA NextTypeOK ==
  ASSUME TypeOK, CallsLeft, CancelHoldsRow, [Next]_vars PROVE TypeOK'
<1>1. CASE UNCHANGED vars
  BY <1>1 DEF vars, jobVars, bookingVars, moneyVars, payerVars, staffVars, TypeOK
<1> QED BY <1>1, WorkTypes, PayerTypes, StaffTypes DEF Next, Victim

-----------------------------------------------------------------------------
(* Requests that pay. *)

LEMMA UndoPayers ==
  ASSUME TypeOK, PayerInv, NEW p \in Payers, pc[p] # "idle", Undo(p) PROVE PayerInv'
<1>1. \A q \in Payers : pc'[q] = IF q = p THEN "refused" ELSE pc[q]
  BY DEF Undo, Goto, TypeOK
<1>2. \A q \in Payers : q # p => own'[q] = own[q]
  BY DEF Undo, TypeOK
<1>3. UNCHANGED <<status, quoted, revised, paid, call, seen>>
  BY DEF Undo, jobVars, moneyVars
<1>4. pc[p] # "idle" => status[PaidFor[p]] # "none"
  BY DEF PayerInv, CallsLeft
<1> QED BY <1>1, <1>2, <1>3, <1>4 DEF PayerInv, CallsLeft, InsertedIsCounted, Price

LEMMA NextPayers ==
  ASSUME TypeOK, PayerInv, CancelHoldsRow, [Next]_vars PROVE PayerInv'
<1> USE BenchAssumption, MoneyAssumption
<1>0. /\ \A p \in Payers : PaidFor[p] \in Jobs
      /\ pc \in [Payers -> Stages] /\ call \in [Payers -> Nat]
      /\ own \in [Payers -> [Tenders -> Nat]] /\ paid \in [Jobs -> [Tenders -> Nat]]
      /\ seen \in [Payers -> [total : Nat, price : Nat]]
  BY DEF TypeOK, Stages
<1>1. ASSUME NEW j \in Jobs, Work(j) PROVE PayerInv'
  <2>1. /\ UNCHANGED <<moneyVars, payerVars>>
        /\ \A i \in Jobs :
             status[i] # "none" =>
               /\ status'[i] # "none" /\ quoted'[i] = quoted[i]
               /\ revised'[i] = revised[i] \/ revised'[i] \in Nat
    BY <1>1, WorkFacts
  <2>2. CallsLeft'
    BY <1>0, <2>1 DEF PayerInv, CallsLeft, payerVars
  <2>3. InsertedIsCounted'
    BY <1>0, <2>1 DEF PayerInv, CallsLeft, InsertedIsCounted, Price, payerVars, moneyVars
  <2> QED BY <2>2, <2>3 DEF PayerInv
<1>2. ASSUME NEW p \in Payers, Check(p) PROVE PayerInv'
  <2>1. /\ \A q \in Payers : q # p => pc'[q] = pc[q]
        /\ pc'[p] \in {"checked", "refused"} /\ pc[p] = "idle" /\ status[PaidFor[p]] # "none"
    BY <1>0, <1>2 DEF Check, Goto
  <2>2. UNCHANGED <<status, quoted, revised, paid, call, seen, own>>
    BY <1>2 DEF Check, jobVars, moneyVars
  <2> QED BY <2>1, <2>2 DEF PayerInv, CallsLeft, InsertedIsCounted, Price
<1>3. ASSUME NEW p \in Payers, PayFails(p) PROVE PayerInv'
  BY <1>3, UndoPayers DEF PayFails
<1>4. ASSUME NEW p \in Payers, Insert(p), ~Undo(p) PROVE PayerInv'
  <2> DEFINE j == PaidFor[p]
  <2>1. PICK mine \in [Tenders -> Nat] :
          /\ pc[p] \in {"checked", "paying"} /\ Goto(p, "inserted")
          /\ Sum(mine) >= 1
          /\ own' = [own EXCEPT ![p] = mine]
          /\ call' = [call EXCEPT ![p] = @ + 1]
          /\ seen' = [seen EXCEPT ![p] =
               [total |-> Sum(paid[j]) + Sum(mine),
                price |-> IF Price(j) = NONE THEN 0 ELSE Price(j)]]
          /\ UNCHANGED <<jobVars, bookingVars, moneyVars, lock, draft, staffVars>>
    BY <1>4, InsertFacts DEF PayerInv
  <2>2. UNCHANGED <<status, quoted, revised, paid>>
    BY <2>1 DEF jobVars, moneyVars
  <2>3. \A q \in Payers : q # p => /\ pc'[q] = pc[q] /\ call'[q] = call[q]
                                   /\ own'[q] = own[q] /\ seen'[q] = seen[q]
    BY <1>0, <2>1 DEF Goto
  <2>4. /\ pc'[p] = "inserted" /\ own'[p] = mine /\ seen'[p].total = Sum(paid[j]) + Sum(mine)
        /\ seen'[p].price = IF Price(j) = NONE THEN 0 ELSE Price(j)
    BY <1>0, <2>1 DEF Goto
  <2>5. Sum(paid[j]) \in Nat /\ Sum(mine) \in Nat
    BY <1>0, SumType
  <2>6. seen'[p].total \in 1 .. Sum(paid[j]) + Sum(mine)
    BY <2>1, <2>4, <2>5
  <2>7. seen'[p].price > 0 =>
          Price(j) # NONE /\ (revised[j] = NONE => quoted[j] = seen'[p].price)
    <3>1. CASE Price(j) = NONE
      BY <2>4, <3>1
    <3>2. CASE Price(j) # NONE
      BY <2>4, <3>2 DEF Price
    <3> QED BY <3>1, <3>2
  <2>8. CallsLeft'
    BY <2>1, <2>2, <2>3, <2>4 DEF PayerInv, CallsLeft
  <2>9. InsertedIsCounted'
    <3> SUFFICES ASSUME NEW q \in Payers, pc'[q] = "inserted"
                 PROVE  /\ seen'[q].total \in 1 .. Sum(paid[PaidFor[q]]) + Sum(own'[q])
                        /\ seen'[q].price > 0 =>
                             /\ Price(PaidFor[q]) # NONE
                             /\ revised[PaidFor[q]] = NONE => quoted[PaidFor[q]] = seen'[q].price
      BY <2>2 DEF InsertedIsCounted, Price
    <3>1. CASE q = p
      BY <2>4, <2>6, <2>7, <3>1
    <3>2. CASE q # p
      BY <2>3, <3>2 DEF PayerInv, InsertedIsCounted
    <3> QED BY <3>1, <3>2
  <2> QED BY <2>8, <2>9 DEF PayerInv
<1>5. ASSUME NEW p \in Payers, Insert(p), Undo(p) PROVE PayerInv'
  <2>1. pc[p] # "idle"
    BY <1>5 DEF Insert
  <2> QED BY <1>5, <2>1, UndoPayers
<1>6. ASSUME NEW p \in Payers, Update(p), Goes(p) PROVE PayerInv'
  <2>1. /\ \A q \in Payers : q # p => pc'[q] = pc[q]
        /\ pc'[p] = "paying" /\ pc[p] = "inserted" /\ call[p] < Len(Calls[p])
    BY <1>0, <1>6, UpdateFacts DEF Goes, Goto
  <2>2. UNCHANGED <<status, quoted, revised, paid, call, seen, own>>
    BY <1>6 DEF Goes, jobVars, moneyVars
  <2> QED BY <2>1, <2>2 DEF PayerInv, CallsLeft, InsertedIsCounted, Price
<1>7. ASSUME NEW p \in Payers, Update(p), Commits(p) PROVE PayerInv'
  <2>1. /\ \A q \in Payers : q # p => pc'[q] = pc[q] /\ own'[q] = own[q]
        /\ pc'[p] = "paid" /\ pc[p] = "inserted"
    <3>1. pc' = [pc EXCEPT ![p] = "paid"] /\ own' = [own EXCEPT ![p] = Nothing]
      BY <1>7 DEF Commits, Goto
    <3>2. pc[p] = "inserted"
      BY <1>7, UpdateFacts
    <3> QED BY <1>0, <3>1, <3>2
  <2>2. UNCHANGED <<status, quoted, revised, call, seen>>
    BY <1>7 DEF Commits
  <2>3. \A i \in Jobs : /\ Sum(paid[i]) \in Nat /\ Sum(paid'[i]) \in Nat
                        /\ Sum(paid[i]) <= Sum(paid'[i])
    <3> SUFFICES ASSUME NEW i \in Jobs
                 PROVE  Sum(paid[i]) \in Nat /\ Sum(paid'[i]) \in Nat /\ Sum(paid[i]) <= Sum(paid'[i])
      OBVIOUS
    <3>1. paid'[i] = IF i = PaidFor[p] THEN Plus(paid[i], own[p]) ELSE paid[i]
      BY <1>0, <1>7 DEF Commits
    <3>2. Sum(paid[i]) \in Nat /\ Sum(own[p]) \in Nat
      BY <1>0, SumType
    <3>3. Sum(Plus(paid[i], own[p])) = Sum(paid[i]) + Sum(own[p])
      BY <1>0, PlusSum
    <3> QED BY <3>1, <3>2, <3>3
  <2>4. CallsLeft'
    BY <2>1, <2>2 DEF PayerInv, CallsLeft
  <2>5. InsertedIsCounted'
    <3> SUFFICES ASSUME NEW q \in Payers, pc'[q] = "inserted"
                 PROVE  /\ seen[q].total \in 1 .. Sum(paid'[PaidFor[q]]) + Sum(own'[q])
                        /\ seen[q].price > 0 =>
                             /\ Price(PaidFor[q]) # NONE
                             /\ revised[PaidFor[q]] = NONE => quoted[PaidFor[q]] = seen[q].price
      BY <2>2 DEF InsertedIsCounted, Price
    <3>1. q # p /\ pc[q] = "inserted" /\ own'[q] = own[q] /\ PaidFor[q] \in Jobs
      BY <1>0, <2>1
    <3>2. Sum(own[q]) \in Nat
      BY <1>0, SumType
    <3>3. seen[q].total \in 1 .. Sum(paid[PaidFor[q]]) + Sum(own[q])
      BY <3>1 DEF PayerInv, InsertedIsCounted
    <3>4. seen[q].total \in 1 .. Sum(paid'[PaidFor[q]]) + Sum(own'[q])
      BY <2>3, <3>1, <3>2, <3>3
    <3> QED BY <3>1, <3>4 DEF PayerInv, InsertedIsCounted
  <2> QED BY <2>4, <2>5 DEF PayerInv
<1>8. ASSUME NEW p \in Payers, Update(p), Undo(p) PROVE PayerInv'
  <2>1. pc[p] # "idle"
    BY <1>8 DEF Update
  <2> QED BY <1>8, <2>1, UndoPayers
<1>9. ASSUME NEW m \in Staff, CancelCommit(m) PROVE PayerInv'
  <2>1. job[m] \in Jobs /\ status' = [status EXCEPT ![job[m]] = "cancelled"]
    BY <1>9 DEF CancelCommit, CancelHoldsRow, HoldsRow
  <2>2. \A i \in Jobs : status[i] # "none" => status'[i] # "none"
    BY <2>1 DEF TypeOK
  <2>3. UNCHANGED <<quoted, revised, paid, payerVars>>
    BY <1>9 DEF CancelCommit
  <2> QED BY <1>0, <2>2, <2>3 DEF PayerInv, CallsLeft, InsertedIsCounted, Price, payerVars
<1>10. ASSUME UNCHANGED <<status, quoted, revised, paid, payerVars>> PROVE PayerInv'
  BY <1>10 DEF PayerInv, CallsLeft, InsertedIsCounted, Price, payerVars
<1>11. ASSUME NEW m \in Staff,
              \/ CancelUpdate(m) \/ CancelRead(m) \/ CancelFails(m)
              \/ \E j \in Jobs : CancelCheck(m, j)
       PROVE  PayerInv'
  BY <1>10, <1>11 DEF CancelUpdate, CancelRead, CancelFails, CancelCheck, jobVars, moneyVars
<1>12. CASE UNCHANGED vars
  BY <1>10, <1>12 DEF vars, jobVars, moneyVars
<1> QED BY <1>1, <1>2, <1>3, <1>4, <1>5, <1>6, <1>7, <1>8, <1>9, <1>11, <1>12, UpdateFacts
        DEF Next, Pay, Cancel, Victim

-----------------------------------------------------------------------------
(* Jobs. *)

LEMMA JobsFrame ==
  ASSUME JobInv, UNCHANGED <<status, quoted, revised, payStatus, deposit, calledOff, paid>>
  PROVE  JobInv'
BY DEF JobInv, NewIsFresh, CancelledIsCalledOff, HandedOverIsPaid, PaymentStatusIsEarned, Owes, Price

LEMMA WorkJobs == ASSUME TypeOK, JobInv, NEW j \in Jobs, Work(j) PROVE JobInv'
<1> USE BenchAssumption
<1>1. UNCHANGED <<payStatus, deposit, paid>>
  BY WorkFacts DEF moneyVars
<1>2. ASSUME NEW i \in Jobs
      PROVE  /\ status[i] # "none" => status'[i] # "none" /\ quoted'[i] = quoted[i]
             /\ \/ revised'[i] = revised[i]
                \/ revised'[i] \in Nat /\ status'[i] = "waiting_approval"
             /\ \/ calledOff'[i] = calledOff[i]
                \/ calledOff'[i] = "keep" /\ status'[i] = "cancelled" /\ status[i] # "none"
             /\ status'[i] = "cancelled" => status[i] = "cancelled" \/ calledOff'[i] = "keep"
             /\ status'[i] \in {"sent_back", "collected"} =>
                  status[i] # "none" /\ (status[i] \in {status'[i], "cancelled"} \/ ~Owes(i))
  BY WorkFacts
<1>3. NewIsFresh'
  BY <1>1, <1>2 DEF JobInv, NewIsFresh
<1>4. CancelledIsCalledOff'
  BY <1>2 DEF JobInv, CancelledIsCalledOff
<1>5. HandedOverIsPaid'
  <2> SUFFICES ASSUME NEW i \in Jobs, status'[i] \in {"sent_back", "collected"}, calledOff'[i] = "no"
               PROVE  ~Owes(i)'
    BY DEF HandedOverIsPaid
  <2>1. calledOff[i] = "no" /\ revised'[i] = revised[i]
    BY <1>2
  <2>2. ~Owes(i) /\ status[i] # "none"
    <3>1. CASE status[i] = status'[i]
      BY <2>1, <3>1 DEF JobInv, HandedOverIsPaid
    <3>2. CASE status[i] = "cancelled"
      BY <2>1, <3>2 DEF JobInv, CancelledIsCalledOff
    <3>3. CASE status[i] \notin {status'[i], "cancelled"}
      BY <1>2, <3>3
    <3> QED BY <1>2, <3>1, <3>2, <3>3
  <2> QED BY <1>1, <1>2, <2>1, <2>2 DEF Owes, Price
<1>6. PaymentStatusIsEarned'
  <2> SUFFICES ASSUME NEW i \in Jobs
               PROVE  /\ payStatus[i] = "paid" =>
                           Price(i)' # NONE /\ (revised'[i] = NONE => Sum(paid[i]) >= quoted'[i])
                      /\ payStatus[i] = "deposit_paid" => deposit[i] \in 1 .. Sum(paid[i])
                      /\ payStatus[i] = "unpaid" => Sum(paid[i]) = 0
    BY <1>1 DEF PaymentStatusIsEarned
  <2>1. payStatus[i] = "paid" => status[i] # "none"
    BY DEF JobInv, NewIsFresh
  <2>2. payStatus[i] = "paid" =>
          Price(i)' # NONE /\ (revised'[i] = NONE => Sum(paid[i]) >= quoted'[i])
    BY <1>2, <2>1 DEF JobInv, PaymentStatusIsEarned, Price
  <2> QED BY <2>2 DEF JobInv, PaymentStatusIsEarned
<1> QED BY <1>3, <1>4, <1>5, <1>6 DEF JobInv

(* A payment that commits: what is written on the job is earned.            *)
LEMMA CommitJobs ==
  ASSUME TypeOK, PayerInv, JobInv, NEW p \in Payers, Update(p), Commits(p) PROVE JobInv'
<1> USE BenchAssumption, MoneyAssumption
<1>0. PICK j \in Jobs : j = PaidFor[p]
  OBVIOUS
<1>1. /\ paid \in [Jobs -> [Tenders -> Nat]] /\ own[p] \in [Tenders -> Nat]
      /\ payStatus \in [Jobs -> {"unpaid", "deposit_paid", "paid"}] /\ deposit \in [Jobs -> Nat]
      /\ seen[p].total \in Nat /\ seen[p].price \in Nat /\ quoted \in [Jobs -> Nat \cup {NONE}]
  BY DEF TypeOK
<1>2. UNCHANGED <<status, quoted, revised, calledOff>>
  BY DEF Commits
<1>3. /\ \A i \in Jobs : i # j => /\ paid'[i] = paid[i] /\ payStatus'[i] = payStatus[i]
                                  /\ deposit'[i] = deposit[i]
      /\ paid'[j] = Plus(paid[j], own[p])
      /\ payStatus'[j] = IF Covers(p) THEN "paid" ELSE "deposit_paid"
      /\ deposit'[j] = WrittenDeposit(p)
  BY <1>0, <1>1 DEF Commits
<1>4. /\ Sum(paid[j]) \in Nat /\ Sum(own[p]) \in Nat
      /\ Sum(paid'[j]) = Sum(paid[j]) + Sum(own[p])
  <2>1. paid[j] \in [Tenders -> Nat] /\ own[p] \in [Tenders -> Nat]
    BY <1>1
  <2>2. Sum(paid[j]) \in Nat /\ Sum(own[p]) \in Nat
    BY <2>1, SumType
  <2>3. Sum(Plus(paid[j], own[p])) = Sum(paid[j]) + Sum(own[p])
    BY <2>1, PlusSum
  <2> QED BY <1>3, <2>2, <2>3
<1>5. /\ status[j] # "none" /\ pc[p] = "inserted"
      /\ seen[p].total \in 1 .. Sum(paid'[j])
      /\ seen[p].price > 0 => Price(j) # NONE /\ (revised[j] = NONE => quoted[j] = seen[p].price)
  BY <1>0, <1>4, UpdateFacts DEF PayerInv, CallsLeft, InsertedIsCounted
<1>6. NewIsFresh'
  BY <1>2, <1>3, <1>5 DEF JobInv, NewIsFresh
<1>7. CancelledIsCalledOff'
  BY <1>2 DEF JobInv, CancelledIsCalledOff
<1>8. HandedOverIsPaid'
  <2> SUFFICES ASSUME NEW i \in Jobs, status[i] \in {"sent_back", "collected"}, calledOff[i] = "no"
               PROVE  ~Owes(i)'
    BY <1>2 DEF HandedOverIsPaid
  <2>1. ~Owes(i)
    BY DEF JobInv, HandedOverIsPaid
  <2>2. CASE i # j
    BY <1>2, <1>3, <2>1, <2>2 DEF Owes, Price
  <2>3. CASE i = j
    <3>1. Price(i) \in Nat \cup {NONE} /\ Price(i)' = Price(i)
      BY <1>2, PriceType DEF Price
    <3> QED BY <1>4, <2>1, <2>3, <3>1 DEF Owes
  <2> QED BY <2>2, <2>3
<1>9. PaymentStatusIsEarned'
  <2> SUFFICES ASSUME NEW i \in Jobs
               PROVE  /\ payStatus'[i] = "paid" =>
                           Price(i) # NONE /\ (revised[i] = NONE => Sum(paid'[i]) >= quoted[i])
                      /\ payStatus'[i] = "deposit_paid" => deposit'[i] \in 1 .. Sum(paid'[i])
                      /\ payStatus'[i] = "unpaid" => Sum(paid'[i]) = 0
    BY <1>2 DEF PaymentStatusIsEarned, Price
  <2>1. CASE i # j
    BY <1>3, <2>1 DEF JobInv, PaymentStatusIsEarned
  <2>2. CASE i = j /\ Covers(p)
    <3>1. seen[p].price > 0 /\ seen[p].total >= seen[p].price
      BY <2>2 DEF Covers
    <3>2. revised[j] = NONE => Sum(paid'[j]) >= quoted[j]
      <4>1. ASSUME revised[j] = NONE PROVE Sum(paid'[j]) >= quoted[j]
        <5>1. quoted[j] = seen[p].price
          BY <1>5, <3>1, <4>1
        <5>2. seen[p].price <= seen[p].total /\ seen[p].total <= Sum(paid'[j])
          BY <1>1, <1>5, <3>1
        <5>3. Sum(paid'[j]) \in Nat
          BY <1>4
        <5>4. seen[p].price \in Nat /\ seen[p].total \in Nat
          BY <1>1
        <5> QED BY <5>1, <5>2, <5>3, <5>4
      <4> QED BY <4>1
    <3> QED BY <1>3, <1>5, <2>2, <3>1, <3>2
  <2>3. CASE i = j /\ ~Covers(p)
    <3>1. deposit'[j] = seen[p].total
      BY <1>3, <2>3 DEF WrittenDeposit
    <3> QED BY <1>3, <1>5, <2>3, <3>1
  <2> QED BY <2>1, <2>2, <2>3
<1> QED BY <1>6, <1>7, <1>8, <1>9 DEF JobInv

LEMMA NextJobs ==
  ASSUME TypeOK, PayerInv, JobInv, CancelHoldsRow, [Next]_vars PROVE JobInv'
<1> USE BenchAssumption, MoneyAssumption
<1>1. ASSUME NEW p \in Payers, Undo(p) PROVE JobInv'
  BY <1>1, JobsFrame DEF Undo, jobVars, moneyVars
<1>2. ASSUME NEW p \in Payers, Check(p) PROVE JobInv'
  BY <1>2, JobsFrame DEF Check, jobVars, moneyVars
<1>3. ASSUME NEW p \in Payers, Insert(p), ~Undo(p) PROVE JobInv'
  <2>1. UNCHANGED <<jobVars, moneyVars>>
    BY <1>3, InsertFacts DEF PayerInv
  <2> QED BY <2>1, JobsFrame DEF jobVars, moneyVars
<1>4. ASSUME NEW p \in Payers, Update(p) PROVE JobInv'
  <2>1. CASE Goes(p)
    BY <2>1, JobsFrame DEF Goes, jobVars, moneyVars
  <2> QED BY <1>1, <1>4, <2>1, UpdateFacts, CommitJobs
<1>5. ASSUME NEW m \in Staff, CancelCommit(m) PROVE JobInv'
  <2>1. PICK j \in Jobs : j = job[m] /\ status[j] # "none"
    BY <1>5 DEF CancelCommit, CancelHoldsRow, HoldsRow
  <2>2. /\ \A i \in Jobs : i # j => status'[i] = status[i] /\ calledOff'[i] = calledOff[i]
        /\ status'[j] = "cancelled" /\ calledOff'[j] = "refund"
    BY <1>5, <2>1 DEF CancelCommit, TypeOK
  <2>3. UNCHANGED <<quoted, revised, payStatus, deposit, paid>>
    BY <1>5 DEF CancelCommit
  <2>4. NewIsFresh' /\ CancelledIsCalledOff'
    BY <2>2, <2>3 DEF JobInv, NewIsFresh, CancelledIsCalledOff
  <2>5. HandedOverIsPaid'
    BY <2>2, <2>3 DEF JobInv, HandedOverIsPaid, Owes, Price
  <2>6. PaymentStatusIsEarned'
    BY <2>3 DEF JobInv, PaymentStatusIsEarned, Price
  <2> QED BY <2>4, <2>5, <2>6 DEF JobInv
<1>6. ASSUME NEW m \in Staff,
             \/ CancelUpdate(m) \/ CancelRead(m) \/ CancelFails(m)
             \/ \E j \in Jobs : CancelCheck(m, j)
      PROVE  JobInv'
  BY <1>6, JobsFrame DEF CancelUpdate, CancelRead, CancelFails, CancelCheck, jobVars, moneyVars
<1>7. CASE UNCHANGED vars
  BY <1>7, JobsFrame DEF vars, jobVars, moneyVars
<1> QED BY <1>1, <1>2, <1>3, <1>4, <1>5, <1>6, <1>7, WorkJobs
        DEF Next, Pay, PayFails, Cancel, Victim

-----------------------------------------------------------------------------
(* Cancellations. *)

LEMMA StaffFrame ==
  ASSUME StaffInv, UNCHANGED <<moneyVars, lock, staffVars>>,
         \A j \in Jobs : status[j] # "none" => status'[j] # "none"
  PROVE  StaffInv'
BY DEF StaffInv, CancelHoldsRow, HoldsRow, RefundsWithinPaid, moneyVars, staffVars

(* What payments do to a row that a cancellation holds: nothing.            *)
LEMMA PaymentsKeepOff ==
  ASSUME TypeOK, StaffInv, NEW p \in Payers, UNCHANGED <<status, refunded, staffVars>>,
         \A j \in Jobs : lock[j] \in Staff => lock'[j] = lock[j] /\ paid'[j] = paid[j],
         \A j \in Jobs, t \in Tenders : paid[j][t] <= paid'[j][t],
         paid' \in [Jobs -> [Tenders -> Nat]]
  PROVE  StaffInv'
<1>1. CancelHoldsRow'
  BY DEF StaffInv, CancelHoldsRow, HoldsRow, staffVars
<1>2. RefundsWithinPaid'
  <2> SUFFICES ASSUME NEW j \in Jobs, NEW t \in Tenders PROVE refunded[j][t] <= paid'[j][t]
    BY DEF RefundsWithinPaid
  <2>1. refunded[j][t] \in Nat /\ paid[j][t] \in Nat /\ paid'[j][t] \in Nat
    BY DEF TypeOK
  <2> QED BY <2>1 DEF StaffInv, RefundsWithinPaid
<1> QED BY <1>1, <1>2 DEF StaffInv

LEMMA PayerKeepsStaff ==
  ASSUME TypeOK, PayerInv, StaffInv, NEW p \in Payers, Check(p) \/ Pay(p) \/ PayFails(p)
  PROVE  StaffInv'
<1> USE BenchAssumption, MoneyAssumption
<1>0. lock \in [Jobs -> Payers \cup Staff \cup {NONE}] /\ paid \in [Jobs -> [Tenders -> Nat]]
      /\ own[p] \in [Tenders -> Nat]
  BY DEF TypeOK
<1>1. CASE Check(p)
  BY <1>1, StaffFrame DEF Check, jobVars
<1>2. ASSUME Undo(p) PROVE StaffInv'
  <2>1. \A j \in Jobs : lock[j] \in Staff => lock'[j] = lock[j] /\ paid'[j] = paid[j]
    BY <1>2 DEF Undo, moneyVars
  <2>2. UNCHANGED <<status, refunded, paid, staffVars>>
    BY <1>2 DEF Undo, moneyVars, jobVars
  <2>3. \A j \in Jobs, t \in Tenders : paid[j][t] <= paid'[j][t]
    BY <1>0, <2>2
  <2> QED BY <1>0, <2>1, <2>2, <2>3, PaymentsKeepOff
<1>3. ASSUME Insert(p), ~Undo(p) PROVE StaffInv'
  <2>1. UNCHANGED <<jobVars, moneyVars, lock, staffVars>>
    BY <1>3, InsertFacts DEF PayerInv
  <2> QED BY <2>1, StaffFrame DEF jobVars
<1>4. ASSUME Update(p), Goes(p) PROVE StaffInv'
  <2>1. lock[PaidFor[p]] \in {NONE, p}
    BY <1>4, UpdateFacts
  <2>2. UNCHANGED <<status, refunded, paid, staffVars>>
    BY <1>4 DEF Goes, moneyVars, jobVars
  <2>3. \A j \in Jobs : lock[j] \in Staff => lock'[j] = lock[j] /\ paid'[j] = paid[j]
    BY <1>0, <1>4, <2>1, <2>2 DEF Goes
  <2>4. \A j \in Jobs, t \in Tenders : paid[j][t] <= paid'[j][t]
    BY <1>0, <2>2
  <2> QED BY <1>0, <2>2, <2>3, <2>4, PaymentsKeepOff
<1>5. ASSUME Update(p), Commits(p) PROVE StaffInv'
  <2>1. lock[PaidFor[p]] \in {NONE, p}
    BY <1>5, UpdateFacts
  <2>2. UNCHANGED <<status, refunded, staffVars>>
    BY <1>5 DEF Commits
  <2>3. \A j \in Jobs : lock[j] \in Staff => lock'[j] = lock[j] /\ paid'[j] = paid[j]
    BY <1>0, <1>5, <2>1 DEF Commits
  <2>4. Plus(paid[PaidFor[p]], own[p]) \in [Tenders -> Nat]
    BY <1>0, PlusSum
  <2>5. paid' \in [Jobs -> [Tenders -> Nat]]
    BY <1>0, <1>5, <2>4 DEF Commits
  <2>6. ASSUME NEW j \in Jobs, NEW t \in Tenders PROVE paid[j][t] <= paid'[j][t]
    <3>1. CASE j = PaidFor[p]
      <4>1. paid'[j] = Plus(paid[j], own[p])
        BY <1>0, <1>5, <3>1 DEF Commits
      <4>2. paid'[j][t] = paid[j][t] + own[p][t]
        BY <4>1 DEF Plus
      <4>3. paid[j][t] \in Nat /\ own[p][t] \in Nat
        BY <1>0
      <4> QED BY <4>2, <4>3
    <3>2. CASE j # PaidFor[p]
      BY <1>0, <1>5, <3>2 DEF Commits
    <3> QED BY <3>1, <3>2
  <2> QED BY <2>2, <2>3, <2>5, <2>6, PaymentsKeepOff
<1> QED BY <1>1, <1>2, <1>3, <1>4, <1>5, UpdateFacts DEF Pay, PayFails

(* A cancellation that commits gives back exactly what was still there.     *)
LEMMA CommitReturns ==
  ASSUME TypeOK, StaffInv, NEW m \in Staff, CancelCommit(m)
  PROVE  /\ job[m] \in Jobs
         /\ refunded' = [refunded EXCEPT ![job[m]] = paid[job[m]]]
         /\ paid' = paid /\ job' = job
<1> DEFINE j == job[m]
<1>1. /\ j \in Jobs
      /\ \A t \in Tenders : due[m][t] = AtLeastNone(paid[j][t] - refunded[j][t])
      /\ \A t \in Tenders : refunded[j][t] <= paid[j][t]
  BY DEF CancelCommit, StaffInv, CancelHoldsRow, HoldsRow, DueIs, RefundsWithinPaid
<1>2. paid[j] \in [Tenders -> Nat] /\ refunded[j] \in [Tenders -> Nat]
  BY <1>1 DEF TypeOK
<1>3. \A t \in Tenders : refunded[j][t] + due[m][t] = paid[j][t]
  BY <1>1, <1>2 DEF AtLeastNone
<1>4. Plus(refunded[j], due[m]) = paid[j]
  BY <1>2, <1>3 DEF Plus
<1> QED BY <1>1, <1>4 DEF CancelCommit

LEMMA NextStaff ==
  ASSUME TypeOK, PayerInv, StaffInv, [Next]_vars PROVE StaffInv'
<1> USE BenchAssumption, MoneyAssumption
<1>0. /\ at \in [Staff -> {"idle", "checked", "updated", "refunding", "cancelled"}]
      /\ lock \in [Jobs -> Payers \cup Staff \cup {NONE}] /\ job \in [Staff -> Jobs \cup {NONE}]
      /\ due \in [Staff -> [Tenders -> Nat]] /\ status \in [Jobs -> Statuses]
      /\ paid \in [Jobs -> [Tenders -> Nat]] /\ refunded \in [Jobs -> [Tenders -> Nat]]
  BY DEF TypeOK, Statuses
<1>1. ASSUME NEW j \in Jobs, Work(j) PROVE StaffInv'
  BY <1>1, WorkFacts, StaffFrame
<1>2. ASSUME NEW m \in Staff, NEW j \in Jobs, CancelCheck(m, j) PROVE StaffInv'
  <2>1. /\ \A n \in Staff : n # m => at'[n] = at[n] /\ job'[n] = job[n]
        /\ at'[m] = "checked" /\ job'[m] = j /\ status[j] # "none"
    BY <1>0, <1>2 DEF CancelCheck
  <2>2. UNCHANGED <<status, paid, refunded, lock, due>>
    BY <1>2 DEF CancelCheck, jobVars, moneyVars
  <2>3. ASSUME NEW n \in Staff PROVE HoldsRow(n)'
    <3>1. HoldsRow(n)
      BY DEF StaffInv, CancelHoldsRow
    <3> QED BY <2>1, <2>2, <3>1 DEF HoldsRow
  <2> QED BY <2>2, <2>3 DEF StaffInv, CancelHoldsRow, RefundsWithinPaid
<1>3. ASSUME NEW m \in Staff, CancelUpdate(m) PROVE StaffInv'
  <2>1. /\ \A n \in Staff : n # m => at'[n] = at[n]
        /\ at'[m] = "updated" /\ at[m] = "checked" /\ job[m] \in Jobs /\ status[job[m]] # "none"
    BY <1>0, <1>3 DEF CancelUpdate, StaffInv, CancelHoldsRow, HoldsRow
  <2>2. UNCHANGED <<status, paid, refunded, job, due>>
    BY <1>3 DEF CancelUpdate, jobVars, moneyVars
  <2>3. lock[job[m]] = NONE /\ lock'[job[m]] = m /\ \A j \in Jobs : j # job[m] => lock'[j] = lock[j]
    BY <1>0, <1>3, <2>1 DEF CancelUpdate
  <2>4. \A n \in Staff : n # NONE
    OBVIOUS
  <2>5. ASSUME NEW n \in Staff PROVE HoldsRow(n)'
    <3>1. HoldsRow(n)
      BY DEF StaffInv, CancelHoldsRow
    <3>2. CASE n = m
      BY <2>1, <2>2, <2>3, <3>2 DEF HoldsRow
    <3>3. CASE n # m
      BY <2>1, <2>2, <2>3, <2>4, <3>1, <3>3 DEF HoldsRow
    <3> QED BY <3>2, <3>3
  <2> QED BY <2>2, <2>5 DEF StaffInv, CancelHoldsRow, RefundsWithinPaid
<1>4. ASSUME NEW m \in Staff, CancelRead(m) PROVE StaffInv'
  <2>1. /\ \A n \in Staff : n # m => at'[n] = at[n] /\ due'[n] = due[n]
        /\ at'[m] = "refunding" /\ at[m] = "updated"
        /\ DueIs(due'[m], paid[job[m]], refunded[job[m]])
    BY <1>0, <1>4 DEF CancelRead, DueIs
  <2>2. UNCHANGED <<status, paid, refunded, job, lock>>
    BY <1>4 DEF CancelRead, jobVars, moneyVars
  <2>3. ASSUME NEW n \in Staff PROVE HoldsRow(n)'
    <3>1. HoldsRow(n)
      BY DEF StaffInv, CancelHoldsRow
    <3>2. CASE n = m
      <4>1. HoldsRow(m)
        BY DEF StaffInv, CancelHoldsRow
      <4> QED BY <2>1, <2>2, <3>2, <4>1 DEF HoldsRow
    <3>3. CASE n # m
      BY <2>1, <2>2, <3>1, <3>3 DEF HoldsRow
    <3> QED BY <3>2, <3>3
  <2> QED BY <2>2, <2>3 DEF StaffInv, CancelHoldsRow, RefundsWithinPaid
<1>5. ASSUME NEW m \in Staff, at'[m] \in {"idle", "cancelled"},
             \A n \in Staff : n # m => at'[n] = at[n],
             RowFree(m), UNCHANGED <<paid, job, due>>,
             \A j \in Jobs : status[j] # "none" => status'[j] # "none",
             \A j \in Jobs : lock[j] \in Staff \ {m} => refunded'[j] = refunded[j],
             \A j \in Jobs, t \in Tenders : refunded'[j][t] <= paid[j][t]
      PROVE  StaffInv'
  <2>1. \A n \in Staff, j \in Jobs : n # m /\ lock[j] = n => lock'[j] = n /\ refunded'[j] = refunded[j]
    BY <1>5 DEF RowFree
  <2>2. ASSUME NEW n \in Staff PROVE HoldsRow(n)'
    <3>1. HoldsRow(n)
      BY DEF StaffInv, CancelHoldsRow
    <3>2. CASE n = m
      BY <1>5, <3>2 DEF HoldsRow
    <3>3. CASE n # m
      <4>1. at'[n] = at[n] /\ job'[n] = job[n] /\ due'[n] = due[n]
        BY <1>5, <3>3
      <4>2. at[n] \in {"updated", "refunding"} =>
              lock'[job[n]] = n /\ refunded'[job[n]] = refunded[job[n]]
        BY <2>1, <3>1, <3>3 DEF HoldsRow
      <4> QED BY <1>5, <3>1, <4>1, <4>2 DEF HoldsRow
    <3> QED BY <3>2, <3>3
  <2> QED BY <1>5, <2>2 DEF StaffInv, CancelHoldsRow, RefundsWithinPaid
<1>6. ASSUME NEW m \in Staff, CancelCommit(m) PROVE StaffInv'
  <2>1. /\ job[m] \in Jobs /\ refunded' = [refunded EXCEPT ![job[m]] = paid[job[m]]]
        /\ lock[job[m]] = m
    BY <1>6, CommitReturns DEF StaffInv, CancelHoldsRow, HoldsRow, CancelCommit
  <2>2. /\ at'[m] = "cancelled" /\ \A n \in Staff : n # m => at'[n] = at[n]
        /\ \A j \in Jobs : status[j] # "none" => status'[j] # "none"
    BY <1>0, <1>6, <2>1 DEF CancelCommit
  <2>3. \A j \in Jobs : lock[j] \in Staff \ {m} => refunded'[j] = refunded[j]
    BY <1>0, <2>1
  <2>4. ASSUME NEW j \in Jobs, NEW t \in Tenders PROVE refunded'[j][t] <= paid[j][t]
    <3>1. paid[j][t] \in Nat
      BY <1>0
    <3>2. CASE j = job[m]
      BY <1>0, <2>1, <3>1, <3>2
    <3>3. CASE j # job[m]
      BY <1>0, <2>1, <3>3 DEF StaffInv, RefundsWithinPaid
    <3> QED BY <3>2, <3>3
  <2> QED BY <1>5, <1>6, <2>2, <2>3, <2>4 DEF CancelCommit
<1>7. ASSUME NEW m \in Staff, CancelFails(m) PROVE StaffInv'
  <2>1. at'[m] = "idle" /\ \A n \in Staff : n # m => at'[n] = at[n]
    BY <1>0, <1>7 DEF CancelFails
  <2>2. UNCHANGED <<status, paid, refunded, job, due>>
    BY <1>7 DEF CancelFails, jobVars, moneyVars
  <2>3. \A j \in Jobs, t \in Tenders : refunded'[j][t] <= paid[j][t]
    BY <2>2 DEF StaffInv, RefundsWithinPaid
  <2> QED BY <1>5, <1>7, <2>1, <2>2, <2>3 DEF CancelFails
<1>8. CASE UNCHANGED vars
  BY <1>8, StaffFrame DEF vars, jobVars
<1> QED BY <1>1, <1>2, <1>3, <1>4, <1>6, <1>7, <1>8, PayerKeepsStaff DEF Next, Cancel, Victim

-----------------------------------------------------------------------------
(* Bookings. *)

(* A job that moves carries its booking along, unless that is cancelled.    *)
LEMMA SyncKeeps ==
  ASSUME TypeOK, JobInv, BookingShowsAJob, NEW j \in Jobs, NEW to \in Statuses \ {"none", "new"},
         status[j] # "none", status' = [status EXCEPT ![j] = to], Sync(j, to),
         IF to = "cancelled" THEN calledOff'[j] # "no" ELSE calledOff'[j] = calledOff[j],
         \A i \in Jobs : i # j => calledOff'[i] = calledOff[i]
  PROVE  BookingShowsAJob'
<1> SUFFICES ASSUME NEW b \in Bookings
             PROVE  /\ booking'[b] = "cancelled" <=> \E i \in JobsOf(b)' : calledOff'[i] # "no"
                    /\ booking'[b] = "received" => \A i \in JobsOf(b)' : status'[i] = "new"
                    /\ booking'[b] \notin {"received", "cancelled"} =>
                         \E i \in JobsOf(b)' : BookingStatus(status'[i]) = booking'[b]
  BY DEF BookingShowsAJob
<1>1. /\ booking[b] = "cancelled" <=> \E i \in JobsOf(b) : calledOff[i] # "no"
      /\ booking[b] = "received" => \A i \in JobsOf(b) : status[i] = "new"
      /\ booking[b] \notin {"received", "cancelled"} =>
           \E i \in JobsOf(b) : BookingStatus(status[i]) = booking[b]
  BY DEF BookingShowsAJob
<1>2. status'[j] = to /\ \A i \in Jobs : i # j => status'[i] = status[i]
  BY DEF TypeOK
<1>3. JobsOf(b)' = JobsOf(b)
  BY <1>2 DEF JobsOf
<1>4. booking'[b] = IF b = BookingOf[j] /\ status[j] # to /\ booking[b] # "cancelled"
                      THEN BookingStatus(to) ELSE booking[b]
  BY DEF Sync
<1>5. /\ BookingStatus(to) # "received"
      /\ BookingStatus(to) = "cancelled" <=> to = "cancelled"
  BY DEF BookingStatus, Statuses
<1>6. JobsOf(b) \subseteq Jobs /\ (b = BookingOf[j] <=> j \in JobsOf(b))
  BY DEF JobsOf
<1>7. CASE j \notin JobsOf(b)
  <2>1. booking'[b] = booking[b]
    BY <1>4, <1>6, <1>7
  <2>2. \A i \in JobsOf(b) : status'[i] = status[i] /\ calledOff'[i] = calledOff[i]
    BY <1>2, <1>6, <1>7
  <2> QED BY <1>1, <1>3, <2>1, <2>2
<1>8. CASE j \in JobsOf(b) /\ to = "cancelled"
  <2>1. booking'[b] = "cancelled"
    <3>1. CASE status[j] = "cancelled"
      <4>1. calledOff[j] # "no"
        BY <3>1 DEF JobInv, CancelledIsCalledOff
      <4> QED BY <1>1, <1>4, <1>8, <4>1
    <3>2. CASE status[j] # "cancelled"
      BY <1>4, <1>5, <1>6, <1>8, <3>2
    <3> QED BY <3>1, <3>2
  <2> QED BY <1>3, <1>8, <2>1
<1>9. CASE j \in JobsOf(b) /\ to # "cancelled"
  <2>1. \A i \in JobsOf(b) : calledOff'[i] = calledOff[i]
    BY <1>6, <1>9
  <2>2. booking'[b] = "cancelled" <=> booking[b] = "cancelled"
    BY <1>4, <1>5, <1>9
  <2>3. booking'[b] # "received"
    <3>1. booking[b] = "received" => status[j] = "new"
      BY <1>1, <1>9
    <3>2. to # "new"
      OBVIOUS
    <3> QED BY <1>4, <1>5, <1>6, <1>9, <3>1, <3>2
  <2>4. booking'[b] # "cancelled" =>
          \E i \in JobsOf(b) : BookingStatus(status'[i]) = booking'[b]
    <3>1. CASE status[j] = to /\ booking[b] # "cancelled"
      <4>1. booking'[b] = booking[b] /\ \A i \in JobsOf(b) : status'[i] = status[i]
        BY <1>2, <1>4, <1>6, <3>1
      <4> QED BY <1>1, <2>3, <3>1, <4>1
    <3>2. CASE status[j] # to /\ booking[b] # "cancelled"
      <4>1. booking'[b] = BookingStatus(status'[j])
        BY <1>2, <1>4, <1>6, <1>9, <3>2
      <4> QED BY <1>9, <4>1
    <3> QED BY <2>2, <3>1, <3>2
  <2> QED BY <1>1, <1>3, <2>1, <2>2, <2>3, <2>4
<1> QED BY <1>7, <1>8, <1>9

(* A job that is booked in is new, and its booking is under way.            *)
LEMMA BookedInShows ==
  ASSUME TypeOK, JobInv, BookingShowsAJob, NEW j \in Jobs, NEW price, BookedIn(j, price),
         \/ booking' = booking
         \/ booking' = [booking EXCEPT ![BookingOf[j]] =
                          IF booking[BookingOf[j]] = "received" THEN "in_progress"
                          ELSE booking[BookingOf[j]]]
  PROVE  BookingShowsAJob'
<1> SUFFICES ASSUME NEW b \in Bookings
             PROVE  /\ booking'[b] = "cancelled" <=> \E i \in JobsOf(b)' : calledOff'[i] # "no"
                    /\ booking'[b] = "received" => \A i \in JobsOf(b)' : status'[i] = "new"
                    /\ booking'[b] \notin {"received", "cancelled"} =>
                         \E i \in JobsOf(b)' : BookingStatus(status'[i]) = booking'[b]
  BY DEF BookingShowsAJob
<1>1. /\ booking[b] = "cancelled" <=> \E i \in JobsOf(b) : calledOff[i] # "no"
      /\ booking[b] = "received" => \A i \in JobsOf(b) : status[i] = "new"
      /\ booking[b] \notin {"received", "cancelled"} =>
           \E i \in JobsOf(b) : BookingStatus(status[i]) = booking[b]
  BY DEF BookingShowsAJob
<1>2. /\ status[j] = "none" /\ status'[j] = "new" /\ calledOff' = calledOff /\ calledOff[j] = "no"
      /\ \A i \in Jobs : i # j => status'[i] = status[i]
  BY DEF BookedIn, TypeOK, JobInv, NewIsFresh
<1>3. /\ \A i \in JobsOf(b)' : i \in JobsOf(b) \/ i = j
      /\ \A i \in JobsOf(b) : i \in JobsOf(b)' /\ i # j /\ i \in Jobs
      /\ b = BookingOf[j] => j \in JobsOf(b)'
  BY <1>2 DEF JobsOf
<1>4. \/ booking'[b] = booking[b]
      \/ b = BookingOf[j] /\ booking[b] = "received" /\ booking'[b] = "in_progress"
  BY DEF TypeOK
<1>5. BookingStatus("new") = "in_progress"
  BY DEF BookingStatus
<1>6. booking'[b] = "cancelled" <=> \E i \in JobsOf(b)' : calledOff'[i] # "no"
  BY <1>1, <1>2, <1>3, <1>4
<1>7. booking'[b] = "received" => \A i \in JobsOf(b)' : status'[i] = "new"
  BY <1>1, <1>2, <1>3, <1>4
<1>8. booking'[b] \notin {"received", "cancelled"} =>
        \E i \in JobsOf(b)' : BookingStatus(status'[i]) = booking'[b]
  <2>1. CASE booking'[b] = booking[b]
    BY <1>1, <1>2, <1>3, <2>1
  <2>2. CASE b = BookingOf[j] /\ booking'[b] = "in_progress"
    BY <1>2, <1>3, <1>5, <2>2
  <2> QED BY <1>4, <2>1, <2>2
<1> QED BY <1>6, <1>7, <1>8

LEMMA BookingFrame ==
  ASSUME BookingShowsAJob, UNCHANGED <<status, calledOff, booking>> PROVE BookingShowsAJob'
BY DEF BookingShowsAJob, JobsOf

LEMMA NextBookings ==
  ASSUME TypeOK, PayerInv, JobInv, StaffInv, BookingShowsAJob, [Next]_vars PROVE BookingShowsAJob'
<1> USE BenchAssumption, MoneyAssumption
<1>1. ASSUME NEW j \in Jobs, ConvertLook(j) PROVE BookingShowsAJob'
  BY <1>1, BookingFrame DEF ConvertLook, jobVars
<1>2. ASSUME NEW j \in Jobs, NEW price, Convert(j, price) \/ Create(j, price)
      PROVE  BookingShowsAJob'
  BY <1>2, BookedInShows DEF Convert, Create
<1>3. ASSUME NEW j \in Jobs, NEW from, NEW to \in Statuses \ {"none", "new", "cancelled"},
             status[j] # "none", Move(j, from, to)
      PROVE  BookingShowsAJob'
  BY <1>3, SyncKeeps DEF Move
<1>4. ASSUME NEW j \in Jobs, NEW yes, Start(j, yes) PROVE BookingShowsAJob'
  BY <1>3, <1>4 DEF Start, Move, Statuses
<1>5. ASSUME NEW j \in Jobs, NEW price, Revise(j, price) PROVE BookingShowsAJob'
  BY <1>3, <1>5 DEF Revise, Move, Statuses
<1>6. ASSUME NEW j \in Jobs, Finish(j) \/ HandOver(j) \/ PostBack(j) PROVE BookingShowsAJob'
  BY <1>3, <1>6 DEF Finish, HandOver, PostBack, Move, Statuses
<1>7. ASSUME NEW j \in Jobs, CancelKeeping(j) PROVE BookingShowsAJob'
  <2>1. calledOff' = [calledOff EXCEPT ![j] = "keep"] /\ status[j] # "none" /\ Sync(j, "cancelled")
        /\ status' = [status EXCEPT ![j] = "cancelled"]
    BY <1>7 DEF CancelKeeping, Cancellable
  <2>2. calledOff'[j] # "no" /\ \A i \in Jobs : i # j => calledOff'[i] = calledOff[i]
    BY <2>1 DEF TypeOK
  <2>3. "cancelled" \in Statuses \ {"none", "new"}
    BY DEF Statuses
  <2> QED BY <2>1, <2>2, <2>3, SyncKeeps
<1>8. ASSUME NEW m \in Staff, CancelCommit(m) PROVE BookingShowsAJob'
  <2>1. PICK j \in Jobs : j = job[m] /\ status[j] # "none"
    BY <1>8 DEF CancelCommit, StaffInv, CancelHoldsRow, HoldsRow
  <2>2. calledOff' = [calledOff EXCEPT ![j] = "refund"] /\ Sync(j, "cancelled")
        /\ status' = [status EXCEPT ![j] = "cancelled"]
    BY <1>8, <2>1 DEF CancelCommit
  <2>3. calledOff'[j] # "no" /\ \A i \in Jobs : i # j => calledOff'[i] = calledOff[i]
    BY <2>2 DEF TypeOK
  <2>4. "cancelled" \in Statuses \ {"none", "new"}
    BY DEF Statuses
  <2> QED BY <2>1, <2>2, <2>3, <2>4, SyncKeeps
<1>9. ASSUME NEW p \in Payers, Check(p) \/ Pay(p) \/ PayFails(p) PROVE BookingShowsAJob'
  <2>1. UNCHANGED <<status, calledOff, booking>>
    <3>1. CASE Check(p)
      BY <3>1 DEF Check, jobVars, bookingVars
    <3>2. CASE Undo(p)
      BY <3>2 DEF Undo, jobVars, bookingVars
    <3>3. CASE Insert(p) /\ ~Undo(p)
      <4>1. UNCHANGED <<jobVars, bookingVars>>
        BY <3>3, InsertFacts DEF PayerInv
      <4> QED BY <4>1 DEF jobVars, bookingVars
    <3>4. CASE Goes(p) \/ Commits(p)
      BY <3>4 DEF Goes, Commits, jobVars, bookingVars
    <3> QED BY <1>9, <3>1, <3>2, <3>3, <3>4, UpdateFacts DEF Pay, PayFails
  <2> QED BY <2>1, BookingFrame
<1>10. ASSUME NEW m \in Staff,
              \/ CancelUpdate(m) \/ CancelRead(m) \/ CancelFails(m)
              \/ \E j \in Jobs : CancelCheck(m, j)
       PROVE  BookingShowsAJob'
  BY <1>10, BookingFrame DEF CancelUpdate, CancelRead, CancelFails, CancelCheck, jobVars, bookingVars
<1>11. CASE UNCHANGED vars
  BY <1>11, BookingFrame DEF vars, jobVars, bookingVars
<1> QED BY <1>1, <1>2, <1>4, <1>5, <1>6, <1>7, <1>8, <1>9, <1>10, <1>11
        DEF Next, Work, Cancel, Victim

-----------------------------------------------------------------------------
LEMMA NextInd == IndInv /\ [Next]_vars => IndInv'
BY NextTypeOK, NextPayers, NextJobs, NextStaff, NextBookings DEF IndInv, PayerInv, StaffInv

(* All of the invariant, on every run of the model. *)
THEOREM RepairJobInvariance == Spec => []IndInv
BY InitInd, NextInd, PTL DEF Spec

(* Jobs, bookings, payments and requests stay within their types.           *)
THEOREM RepairJobTypes == Spec => []TypeOK
<1>1. IndInv => TypeOK
  BY DEF IndInv
<1> QED BY <1>1, RepairJobInvariance, PTL

(* A repaired device that left the shop is paid for, for any number of      *)
(* payments, revisions and cancellations under way when it left.            *)
THEOREM HandedOverPaid == Spec => []HandedOverIsPaid
<1>1. IndInv => HandedOverIsPaid
  BY DEF IndInv, JobInv
<1> QED BY <1>1, RepairJobInvariance, PTL

(* By each method no more goes back than came in: a cancellation holds the  *)
(* row from its update, and the payments it adds up hold still until then.  *)
THEOREM RefundsCovered == Spec => []RefundsWithinPaid
<1>1. IndInv => RefundsWithinPaid
  BY DEF IndInv, StaffInv
<1> QED BY <1>1, RepairJobInvariance, PTL

(* payment_status says no more than the payments do.                        *)
THEOREM StatusEarned == Spec => []PaymentStatusIsEarned
<1>1. IndInv => PaymentStatusIsEarned
  BY DEF IndInv, JobInv
<1> QED BY <1>1, RepairJobInvariance, PTL

(* What the website shows of a booking is true of one of its jobs.          *)
THEOREM BookingsFollow == Spec => []BookingShowsAJob
<1>1. IndInv => BookingShowsAJob
  BY DEF IndInv
<1> QED BY <1>1, RepairJobInvariance, PTL

(* A cancellation that refunds gives back every committed payment.          *)
THEOREM CancelGivesAllBack == Spec => CancelReturnsPaid
<1>1. IndInv /\ [Next]_vars =>
        [\A m \in Staff : at[m] = "refunding" /\ at'[m] = "cancelled"
           => refunded'[job[m]] = paid'[job[m]]]_vars
  <2> SUFFICES ASSUME IndInv, Next, NEW m \in Staff, at[m] = "refunding", at'[m] = "cancelled"
               PROVE  refunded'[job[m]] = paid'[job[m]]
    OBVIOUS
  <2> USE BenchAssumption
  <2>0. at \in [Staff -> {"idle", "checked", "updated", "refunding", "cancelled"}]
        /\ refunded \in [Jobs -> [Tenders -> Nat]] /\ TypeOK /\ CallsLeft /\ StaffInv
    BY DEF IndInv, TypeOK, PayerInv
  <2>1. CASE CancelCommit(m)
    BY <2>0, <2>1, CommitReturns
  <2>2. ASSUME at'[m] = at[m] PROVE FALSE
    BY <2>2
  <2>3. ASSUME NEW n \in Staff, n # m,
               Cancel(n) \/ CancelFails(n) \/ \E j \in Jobs : CancelCheck(n, j)
        PROVE  FALSE
    BY <2>0, <2>2, <2>3 DEF Cancel, CancelUpdate, CancelRead, CancelCommit, CancelFails, CancelCheck
  <2>4. ASSUME CancelUpdate(m) \/ CancelRead(m) \/ CancelFails(m)
                 \/ \E j \in Jobs : CancelCheck(m, j)
        PROVE  FALSE
    BY <2>0, <2>4 DEF CancelUpdate, CancelRead, CancelFails, CancelCheck
  <2>5. ASSUME NEW j \in Jobs, Work(j) PROVE FALSE
    BY <2>0, <2>2, <2>5, WorkFacts DEF staffVars
  <2>6. ASSUME NEW p \in Payers, Check(p) \/ Pay(p) \/ PayFails(p) PROVE FALSE
    <3>1. CASE Check(p) \/ Undo(p) \/ Goes(p) \/ Commits(p)
      BY <2>2, <3>1 DEF Check, Undo, Goes, Commits, staffVars
    <3>2. CASE Insert(p) /\ ~Undo(p)
      <4>1. UNCHANGED staffVars
        BY <2>0, <3>2, InsertFacts
      <4> QED BY <2>2, <4>1 DEF staffVars
    <3> QED BY <2>0, <2>6, <3>1, <3>2, UpdateFacts DEF Pay, PayFails
  <2> QED BY <2>1, <2>3, <2>4, <2>5, <2>6 DEF Next, Cancel, Victim
<1> QED BY <1>1, RepairJobInvariance, PTL DEF Spec, CancelReturnsPaid
=============================================================================
