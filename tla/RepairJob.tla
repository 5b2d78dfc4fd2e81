------------------------------ MODULE RepairJob ------------------------------
(***************************************************************************)
(* A repair on the bench: its status, its price, the payments taken at the *)
(* till and the refunds of a cancellation, and the website's booking that  *)
(* follows it (routes/jobs.routes.ts, routes/pos/job-payments.ts,          *)
(* repairs.routes.ts; migrations 0051, 0081, 0097, 0099, 0101, 0109).      *)
(*                                                                         *)
(* The database runs at READ COMMITTED.  An UPDATE of a job holds its row  *)
(* until the transaction ends; an INSERT into job_payments shares the row  *)
(* as a foreign key, which an UPDATE of another transaction allows and the *)
(* FOR UPDATE of create_refund does not.  What a transaction wrote shows   *)
(* when it commits.                                                        *)
(***************************************************************************)
EXTENDS Integers, Sequences

CONSTANTS
  Jobs,         \* jobs that may be booked in
  Bookings,     \* requests made on the website
  BookingOf,    \* per job, the booking it is for, or NONE
  Converted,    \* jobs made by convert_booking_to_job; the others by POST /jobs
  MailIn,       \* jobs with source = mail_in
  Prices,       \* per job, prices it may be given; none is below the list's floor
  Payers,       \* requests that take a payment for a job
  PaidFor,      \* per payer, the job
  Calls,        \* per payer, its [tender, amount] payments in order
  AtTill,       \* payers through POST /pos/job-payments; else POST /jobs/:id/payments
  Staff,        \* people who cancel jobs
  Trusted,      \* those among them with returns.manage
  NONE

\* Two payment methods stand for all four: the code treats them alike.
Tenders == {"cash", "card"}

ASSUME BenchAssumption ==
  /\ BookingOf \in [Jobs -> Bookings \cup {NONE}]
  /\ Converted \subseteq MailIn /\ MailIn \subseteq Jobs
  /\ \A j \in Converted : BookingOf[j] # NONE
  /\ NONE \notin Bookings \cup Payers \cup Staff \cup Jobs \cup Nat
  /\ Payers \cap Staff = {}
ASSUME MoneyAssumption ==
  /\ Prices \in [Jobs -> SUBSET Nat]
  /\ PaidFor \in [Payers -> Jobs]
  /\ Calls \in [Payers -> Seq([tender : Tenders, amount : Nat \ {0}])]
  /\ \A p \in Payers : Calls[p] # << >>
  /\ AtTill \subseteq Payers /\ Trusted \subseteq Staff

VARIABLES
  status,     \* per job: jobs.status, "none" before it exists
  quoted,     \* per job: quoted_price
  revised,    \* per job: revised_quote
  approved,   \* jobs with revised_quote_approved_by set
  payStatus,  \* per job: payment_status
  deposit,    \* per job: deposit_amount
  calledOff,  \* per job: "no", or how it was cancelled: "refund" or "keep" its money
  booking,    \* per booking: bookings.status
  looked,     \* jobs whose conversion has passed its checks
  paid,       \* per job and tender: sum of its job_payments
  refunded,   \* per job and tender: sum of its refunds
  lock,       \* per job: the transaction that has updated its row, or NONE
  pc,         \* per payer: where its request stands
  own,        \* per payer and tender: what its open transaction has inserted
  call,       \* per payer: payments inserted by it
  seen,       \* per payer: the total and the price record_job_payment read
  draft,      \* per payer: the deposit_amount its transaction has written
  at,         \* per member of staff: where the cancelling request stands
  job,        \* per member of staff: the job it cancels
  due         \* per member of staff and tender: what it found to give back

jobVars == <<status, quoted, revised, approved, payStatus, deposit, calledOff>>
bookingVars == <<booking, looked>>
moneyVars == <<paid, refunded>>
payerVars == <<pc, own, call, seen, draft>>
staffVars == <<at, job, due>>
vars == <<jobVars, bookingVars, moneyVars, lock, payerVars, staffVars>>

Nothing == [t \in Tenders |-> 0]
Plus(f, g) == [t \in Tenders |-> f[t] + g[t]]
Sum(f) == f["cash"] + f["card"]

(* coalesce(revised_quote, quoted_price) *)
Price(j) == IF revised[j] # NONE THEN revised[j] ELSE quoted[j]
Owes(j) == Price(j) # NONE /\ Sum(paid[j]) < Price(j)
JobsOf(b) == {j \in Jobs : BookingOf[j] = b /\ status[j] # "none"}

Init ==
  /\ status = [j \in Jobs |-> "none"]
  /\ quoted = [j \in Jobs |-> NONE]
  /\ revised = [j \in Jobs |-> NONE]
  /\ approved = {}
  /\ payStatus = [j \in Jobs |-> "unpaid"]
  /\ deposit = [j \in Jobs |-> 0]
  /\ calledOff = [j \in Jobs |-> "no"]
  /\ booking = [b \in Bookings |-> "received"]
  /\ looked = {}
  /\ paid = [j \in Jobs |-> Nothing]
  /\ refunded = [j \in Jobs |-> Nothing]
  /\ lock = [j \in Jobs |-> NONE]
  /\ pc = [p \in Payers |-> "idle"]
  /\ own = [p \in Payers |-> Nothing]
  /\ call = [p \in Payers |-> 0]
  /\ seen = [p \in Payers |-> [total |-> 0, price |-> 0]]
  /\ draft = [p \in Payers |-> 0]
  /\ at = [m \in Staff |-> "idle"]
  /\ job = [m \in Staff |-> NONE]
  /\ due = [m \in Staff |-> Nothing]

-----------------------------------------------------------------------------
(* Booking in. *)

(* convert_booking_to_job looks at the booking and at its jobs, unlocked. *)
ConvertLook(j) ==
  /\ j \in Converted \ looked
  /\ JobsOf(BookingOf[j]) = {}
  /\ booking[BookingOf[j]] # "cancelled"
  /\ looked' = looked \cup {j}
  /\ UNCHANGED <<jobVars, booking, moneyVars, lock, payerVars, staffVars>>

BookedIn(j, price) ==
  /\ status[j] = "none"
  /\ status' = [status EXCEPT ![j] = "new"]
  /\ quoted' = [quoted EXCEPT ![j] = price]
  /\ UNCHANGED <<revised, approved, payStatus, deposit, calledOff, looked, moneyVars, lock,
                 payerVars, staffVars>>

(* The conversion inserts the job and claims the request if nobody has. *)
Convert(j, price) ==
  /\ j \in looked
  /\ BookedIn(j, price)
  /\ booking' = [booking EXCEPT ![BookingOf[j]] = IF @ = "received" THEN "in_progress" ELSE @]

(* POST /jobs; a booking it names is left as it is. *)
Create(j, price) ==
  /\ j \notin Converted
  /\ BookedIn(j, price)
  /\ UNCHANGED booking

-----------------------------------------------------------------------------
(* POST /jobs/:id/status, all but a cancellation: one UPDATE with its       *)
(* triggers.  The handler's own checks only refuse earlier.                 *)

(* Mutant: the two lists of statuses are taken for one. *)
SameStatus(s) == s
BookingStatus(s) ==
  CASE s = "done" -> "ready"
    [] s \in {"sent_back", "collected"} -> "dispatched"
    [] s = "cancelled" -> "cancelled"
    [] OTHER -> "in_progress"

(* Mutant: a cancelled request comes back to life. *)
SyncAlways(j, s) ==
  booking' = [b \in Bookings |-> IF b = BookingOf[j] /\ status[j] # s
                                   THEN BookingStatus(s) ELSE booking[b]]

(* jobs_sync_booking_status: a changed status goes on to the booking, unless *)
(* that is cancelled.                                                        *)
Sync(j, s) ==
  booking' = [b \in Bookings |-> IF b = BookingOf[j] /\ status[j] # s /\ booking[b] # "cancelled"
                                   THEN BookingStatus(s) ELSE booking[b]]

Move(j, from, to) ==
  /\ lock[j] = NONE
  /\ status[j] \in from
  /\ status' = [status EXCEPT ![j] = to]
  /\ Sync(j, to)
  /\ UNCHANGED <<quoted, payStatus, deposit, calledOff, looked, moneyVars, lock, payerVars, staffVars>>

(* Work starts or goes on; yes is the request's `approved`.  The approval   *)
(* of an earlier quote is never taken away.                                 *)
Start(j, yes) ==
  /\ Move(j, {"new", "in_progress", "waiting_approval"}, "in_progress")
  /\ approved' = IF yes THEN approved \cup {j} ELSE approved
  /\ status[j] = "waiting_approval" => j \in approved'
  /\ UNCHANGED revised

(* jobs_deposit_not_over_price holds the new quote above the deposit. *)
Revise(j, price) ==
  /\ Move(j, {"in_progress", "waiting_approval"}, "waiting_approval")
  /\ deposit[j] <= price
  /\ revised' = [revised EXCEPT ![j] = price]
  /\ UNCHANGED approved

Finish(j) ==
  /\ Move(j, {"in_progress"}, "done")
  /\ UNCHANGED <<revised, approved>>

(* Mutant: the payment status is taken for what is owed. *)
HandOverByStatus(j) ==
  /\ Move(j, {"done"}, IF j \in MailIn THEN "sent_back" ELSE "collected")
  /\ Price(j) # NONE => payStatus[j] = "paid"
  /\ UNCHANGED <<revised, approved>>

(* validate_job_handover_is_paid *)
HandOver(j) ==
  /\ Move(j, {"done"}, IF j \in MailIn THEN "sent_back" ELSE "collected")
  /\ ~Owes(j)
  /\ UNCHANGED <<revised, approved>>

(* The device of a cancelled repair goes home by post, whatever is owed. *)
PostBack(j) ==
  /\ j \in MailIn
  /\ Move(j, {"cancelled"}, "sent_back")
  /\ UNCHANGED <<revised, approved>>

-----------------------------------------------------------------------------
(* Taking a payment. *)

Goto(p, l) == pc' = [pc EXCEPT ![p] = l]
CallsTotal(p) ==
  LET f[i \in 0 .. Len(Calls[p])] == IF i = 0 THEN 0 ELSE f[i - 1] + Calls[p][i].amount
  IN f[Len(Calls[p])]

(* POST /pos/job-payments refuses a cancelled job, one without a price, and *)
(* more than is owed, on what it reads first (the status, then the figures: *)
(* one step here); the older route checks none.                             *)
Check(p) ==
  LET j == PaidFor[p] IN
  /\ pc[p] = "idle"
  /\ status[j] # "none"
  /\ Goto(p, IF p \in AtTill => /\ status[j] # "cancelled"
                                /\ Owes(j)
                                /\ Sum(paid[j]) + CallsTotal(p) <= Price(j)
               THEN "checked" ELSE "refused")
  /\ UNCHANGED <<jobVars, bookingVars, moneyVars, lock, own, call, seen, draft, staffVars>>

(* Mutant: a lock that outlives its transaction. *)
UndoKeepsLock(p) ==
  /\ Goto(p, "refused")
  /\ own' = [own EXCEPT ![p] = Nothing]
  /\ UNCHANGED <<jobVars, bookingVars, moneyVars, lock, call, seen, draft, staffVars>>

(* The transaction fails: nothing of it stays. *)
Undo(p) ==
  /\ Goto(p, "refused")
  /\ own' = [own EXCEPT ![p] = Nothing]
  /\ lock' = [j \in Jobs |-> IF lock[j] = p THEN NONE ELSE lock[j]]
  /\ UNCHANGED <<jobVars, bookingVars, moneyVars, call, seen, draft, staffVars>>

(* record_job_payment: insert, then add up and compare with the price.  It  *)
(* sees committed payments and its own.                                     *)
Insert(p) ==
  LET j == PaidFor[p]
      c == Calls[p][call[p] + 1]
      mine == [own[p] EXCEPT ![c.tender] = @ + c.amount]
      total == Sum(paid[j]) + Sum(mine)
      target == IF Price(j) = NONE THEN 0 ELSE Price(j) IN
  /\ pc[p] \in {"checked", "paying"}
  /\ IF target > 0 /\ total > target
       THEN Undo(p)
       ELSE /\ Goto(p, "inserted")
            /\ own' = [own EXCEPT ![p] = mine]
            /\ call' = [call EXCEPT ![p] = @ + 1]
            /\ seen' = [seen EXCEPT ![p] = [total |-> total, price |-> target]]
            /\ UNCHANGED <<jobVars, bookingVars, moneyVars, lock, draft, staffVars>>

(* Mutant: a job without a price counts as paid. *)
CoversNothing(p) == seen[p].total >= seen[p].price
Covers(p) == seen[p].price > 0 /\ seen[p].total >= seen[p].price
WrittenDeposit(p) ==
  IF ~Covers(p) THEN seen[p].total
  ELSE IF lock[PaidFor[p]] = p THEN draft[p] ELSE deposit[PaidFor[p]]
(* jobs_deposit_not_over_price, on the row as it is now. *)
DepositFits(p) == Price(PaidFor[p]) # NONE => WrittenDeposit(p) <= Price(PaidFor[p])

(* It updates the job by what it read before; the last call commits. *)
Update(p) ==
  LET j == PaidFor[p] IN
  /\ pc[p] = "inserted"
  /\ lock[j] \in {NONE, p}
  /\ IF ~DepositFits(p)
       THEN Undo(p)
       ELSE IF call[p] < Len(Calls[p])
       THEN /\ Goto(p, "paying")
            /\ lock' = [lock EXCEPT ![j] = p]
            /\ draft' = [draft EXCEPT ![p] = WrittenDeposit(p)]
            /\ UNCHANGED <<jobVars, bookingVars, moneyVars, own, call, seen, staffVars>>
       ELSE /\ Goto(p, "paid")
            /\ paid' = [paid EXCEPT ![j] = Plus(@, own[p])]
            /\ own' = [own EXCEPT ![p] = Nothing]
            /\ payStatus' = [payStatus EXCEPT ![j] = IF Covers(p) THEN "paid" ELSE "deposit_paid"]
            /\ deposit' = [deposit EXCEPT ![j] = WrittenDeposit(p)]
            /\ lock' = [lock EXCEPT ![j] = NONE]
            /\ UNCHANGED <<status, quoted, revised, approved, calledOff, bookingVars, refunded,
                           call, seen, draft, staffVars>>

(* A card limit, a statement timeout, a process that ends. *)
PayFails(p) == pc[p] \in {"checked", "inserted", "paying"} /\ Undo(p)

-----------------------------------------------------------------------------
(* POST /jobs/:id/status with cancelled. *)

Cancellable == {"new", "in_progress", "waiting_approval"}

(* Without returns.manage only a job without payments may be cancelled. *)
CancelCheck(m, j) ==
  /\ at[m] \in {"idle", "cancelled"}
  /\ status[j] # "none"
  /\ m \in Trusted \/ Sum(paid[j]) = 0
  /\ at' = [at EXCEPT ![m] = "checked"]
  /\ job' = [job EXCEPT ![m] = j]
  /\ UNCHANGED <<jobVars, bookingVars, moneyVars, lock, payerVars, due>>

(* Mutant: the payments are added up before the row is held. *)
CancelUnlocked(m) ==
  /\ at[m] = "checked"
  /\ lock[job[m]] = NONE
  /\ status[job[m]] \in Cancellable \cup {"cancelled"}
  /\ at' = [at EXCEPT ![m] = "updated"]
  /\ UNCHANGED <<jobVars, bookingVars, moneyVars, lock, payerVars, job, due>>

(* The UPDATE holds the row from here; its triggers refuse a job that is    *)
(* done or gone, and let a cancelled one be cancelled again.                *)
CancelUpdate(m) ==
  /\ at[m] = "checked"
  /\ lock[job[m]] = NONE
  /\ status[job[m]] \in Cancellable \cup {"cancelled"}
  /\ at' = [at EXCEPT ![m] = "updated"]
  /\ lock' = [lock EXCEPT ![job[m]] = m]
  /\ UNCHANGED <<jobVars, bookingVars, moneyVars, payerVars, job, due>>

AtLeastNone(n) == IF n > 0 THEN n ELSE 0

(* Mutant: all of it goes back in cash. *)
CancelReadCash(m) ==
  /\ at[m] = "updated"
  /\ due' = [due EXCEPT ![m] =
       [t \in Tenders |-> IF t = "cash" THEN AtLeastNone(Sum(paid[job[m]]) - Sum(refunded[job[m]]))
                          ELSE 0]]
  /\ at' = [at EXCEPT ![m] = "refunding"]
  /\ UNCHANGED <<jobVars, bookingVars, moneyVars, lock, payerVars, job>>

(* Per payment method, what was paid and not given back yet. *)
CancelRead(m) ==
  /\ at[m] = "updated"
  /\ due' = [due EXCEPT ![m] = [t \in Tenders |-> AtLeastNone(paid[job[m]][t] - refunded[job[m]][t])]]
  /\ at' = [at EXCEPT ![m] = "refunding"]
  /\ UNCHANGED <<jobVars, bookingVars, moneyVars, lock, payerVars, job>>

(* create_refund takes the row FOR UPDATE: it waits for open payments. *)
Blocked(m) ==
  /\ at[m] = "refunding"
  /\ Sum(due[m]) > 0
  /\ \E p \in Payers : PaidFor[p] = job[m] /\ pc[p] = "inserted"

RowFree(m) == lock' = [j \in Jobs |-> IF lock[j] = m THEN NONE ELSE lock[j]]

CancelCommit(m) ==
  LET j == job[m] IN
  /\ at[m] = "refunding"
  /\ ~Blocked(m)
  /\ Sum(refunded[j]) + Sum(due[m]) <= Sum(paid[j])
  /\ refunded' = [refunded EXCEPT ![j] = Plus(@, due[m])]
  /\ status' = [status EXCEPT ![j] = "cancelled"]
  /\ calledOff' = [calledOff EXCEPT ![j] = "refund"]
  /\ Sync(j, "cancelled")
  /\ RowFree(m)
  /\ at' = [at EXCEPT ![m] = "cancelled"]
  /\ UNCHANGED <<quoted, revised, approved, payStatus, deposit, looked, paid, payerVars, job, due>>

(* The move is refused, or the transaction fails. *)
CancelFails(m) ==
  /\ at[m] \in {"checked", "updated", "refunding"}
  /\ RowFree(m)
  /\ at' = [at EXCEPT ![m] = "idle"]
  /\ UNCHANGED <<jobVars, bookingVars, moneyVars, payerVars, job, due>>

(* refundPayments = false: the status moves and nothing goes back. *)
CancelKeeping(j) ==
  /\ lock[j] = NONE
  /\ status[j] \in Cancellable
  /\ status' = [status EXCEPT ![j] = "cancelled"]
  /\ calledOff' = [calledOff EXCEPT ![j] = "keep"]
  /\ Sync(j, "cancelled")
  /\ UNCHANGED <<quoted, revised, approved, payStatus, deposit, looked, moneyVars, lock,
                 payerVars, staffVars>>

(* A payment that waits for the row and a cancellation that waits for the   *)
(* payment: the database fails one of them.                                 *)
Victim(m, p) ==
  /\ Blocked(m)
  /\ PaidFor[p] = job[m] /\ pc[p] = "inserted" /\ lock[job[m]] = m
  /\ PayFails(p) \/ CancelFails(m)

-----------------------------------------------------------------------------
Work(j) ==
  \/ ConvertLook(j)
  \/ \E price \in Prices[j] \cup {NONE} : Convert(j, price) \/ Create(j, price)
  \/ \E yes \in BOOLEAN : Start(j, yes)
  \/ \E price \in Prices[j] : Revise(j, price)
  \/ Finish(j) \/ HandOver(j) \/ PostBack(j) \/ CancelKeeping(j)

Pay(p) == Insert(p) \/ Update(p)
Cancel(m) == CancelUpdate(m) \/ CancelRead(m) \/ CancelCommit(m)

Next ==
  \/ \E j \in Jobs : Work(j)
  \/ \E p \in Payers : Check(p) \/ Pay(p) \/ PayFails(p)
  \/ \E m \in Staff : Cancel(m) \/ CancelFails(m) \/ \E j \in Jobs : CancelCheck(m, j)
  \/ \E m \in Staff, p \in Payers : Victim(m, p)

Spec == Init /\ [][Next]_vars

(* A request that began is carried on; a row's waiting updates get it in    *)
(* their order, so none is passed over for ever; deadlocks are looked for.  *)
Fairness ==
  /\ \A p \in Payers : WF_vars(Insert(p)) /\ SF_vars(Update(p))
  /\ \A m \in Staff : WF_vars(CancelRead(m) \/ CancelCommit(m))
  /\ \A m \in Staff, p \in Payers : WF_vars(Victim(m, p))
FairSpec == Spec /\ Fairness

-----------------------------------------------------------------------------
(* The variables hold what their comments say. *)
TypeOK ==
  /\ status \in [Jobs -> {"none", "new", "in_progress", "waiting_approval", "done",
                          "sent_back", "collected", "cancelled"}]
  /\ quoted \in [Jobs -> Nat \cup {NONE}]
  /\ revised \in [Jobs -> Nat \cup {NONE}]
  /\ approved \in SUBSET Jobs
  /\ payStatus \in [Jobs -> {"unpaid", "deposit_paid", "paid"}]
  /\ deposit \in [Jobs -> Nat]
  /\ calledOff \in [Jobs -> {"no", "refund", "keep"}]
  /\ booking \in [Bookings -> {"received", "in_progress", "ready", "dispatched", "cancelled"}]
  /\ looked \in SUBSET Jobs
  /\ paid \in [Jobs -> [Tenders -> Nat]]
  /\ refunded \in [Jobs -> [Tenders -> Nat]]
  /\ lock \in [Jobs -> Payers \cup Staff \cup {NONE}]
  /\ pc \in [Payers -> {"idle", "checked", "inserted", "paying", "paid", "refused"}]
  /\ own \in [Payers -> [Tenders -> Nat]]
  /\ call \in [Payers -> Nat]
  /\ seen \in [Payers -> [total : Nat, price : Nat]]
  /\ draft \in [Payers -> Nat]
  /\ at \in [Staff -> {"idle", "checked", "updated", "refunding", "cancelled"}]
  /\ job \in [Staff -> Jobs \cup {NONE}]
  /\ due \in [Staff -> [Tenders -> Nat]]

(* A device that left the shop after its repair is paid for in full at the  *)
(* price it has: no payment, revision or cancellation that was under way    *)
(* when it was handed over undoes that.                                     *)
HandedOverIsPaid ==
  \A j \in Jobs :
    status[j] \in {"sent_back", "collected"} /\ calledOff[j] = "no" => ~Owes(j)

(* By each payment method, what went back never exceeds what came in by it, *)
(* however cancellations and payments of the job overlap.                   *)
RefundsWithinPaid ==
  \A j \in Jobs, t \in Tenders : refunded[j][t] <= paid[j][t]

(* payment_status is earned by payments that count: `paid` takes a price    *)
(* and, while it is the first one, payments up to it; `deposit_paid` shows  *)
(* no more than was paid; `unpaid` hides no payment.                        *)
PaymentStatusIsEarned ==
  \A j \in Jobs :
    /\ payStatus[j] = "paid" =>
         Price(j) # NONE /\ (revised[j] = NONE => Sum(paid[j]) >= quoted[j])
    /\ payStatus[j] = "deposit_paid" => deposit[j] \in 1 .. Sum(paid[j])
    /\ payStatus[j] = "unpaid" => Sum(paid[j]) = 0

(* What the customer sees of a booking is true of one of its jobs, and it   *)
(* reads cancelled for good once any of them was called off, even when two  *)
(* conversions at once made two jobs of it.                                 *)
BookingShowsAJob ==
  \A b \in Bookings :
    /\ booking[b] = "cancelled" <=> \E j \in JobsOf(b) : calledOff[j] # "no"
    /\ booking[b] = "received" => \A j \in JobsOf(b) : status[j] = "new"
    /\ booking[b] \notin {"received", "cancelled"} =>
         \E j \in JobsOf(b) : BookingStatus(status[j]) = booking[b]

(* When a cancellation that refunds commits, every payment of the job that  *)
(* is committed has gone back by the method it came in.                     *)
CancelReturnsPaid ==
  [][\A m \in Staff : at[m] = "refunding" /\ at'[m] = "cancelled"
        => refunded'[job[m]] = paid'[job[m]]]_vars

(* A payment that passed the first checks is taken or refused: payments and *)
(* cancellations that wait for each other do not wait for ever.             *)
PaymentsEnd == \A p \in Payers : pc[p] = "checked" ~> pc[p] \in {"paid", "refused"}

(* What the comment in jobs.routes.ts (l. 492-493) says: a job never reads  *)
(* cancelled while its money still sits in the takings.                     *)
(* Not always: see Known divergences in the README.                         *)
CancelledKeepsNoMoney ==
  \A j \in Jobs : status[j] = "cancelled" /\ calledOff[j] = "refund" => refunded[j] = paid[j]

(* record_job_payment "raises when cumulative payments would exceed the     *)
(* job's price" (jobs.routes.ts l. 695-696): no payment takes them past it. *)
(* Not always: see Known divergences in the README.                         *)
PaymentsWithinPrice ==
  [][\A j \in Jobs :
       Sum(paid[j]) < Sum(paid'[j]) /\ Price(j) # NONE => Sum(paid'[j]) <= Price(j)]_vars
=============================================================================
