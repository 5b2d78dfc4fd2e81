------------------------------ MODULE PettyCash ------------------------------
(***************************************************************************)
(* The petty cash tin of one shop: slips in and out, the day close that    *)
(* counts it, and money in booked ahead (routes/pos/cash.ts,               *)
(* routes/pos/day-close.ts, lib/pettyCash.ts; migrations 0008, 0121,       *)
(* 0128), from the day it became a pot of its own.                         *)
(*                                                                         *)
(* Slips are taken one at a time under an advisory lock.  The close, a     *)
(* booking and its cancellation hold no lock, and each reads the date      *)
(* before it writes; midnight comes when it comes.                         *)
(***************************************************************************)
EXTENDS Integers, FiniteSets

CONSTANTS
  WeekLen,   \* days in a week: seven, in the shop
  LastDay,   \* bound: the last trading day
  Clerks,    \* slip requests that may be in flight at once
  Closers,   \* requests that close a day
  Bookings,  \* scheduled entries
  Amounts,   \* pence of a slip or a booking
  MaxSlips,  \* bound: slips begun
  NONE

ASSUME PettyCashAssumption ==
  /\ WeekLen \in Nat \ {0} /\ LastDay \in Nat /\ MaxSlips \in Nat
  /\ Amounts \subseteq Nat \ {0}
  /\ NONE \notin Clerks \cup Int
  /\ IsFiniteSet(Clerks)

VARIABLES
  day,      \* shop_day(now()); day 0 is a Monday
  ins,      \* per day: sum of its petty_in entries
  outs,     \* per day: sum of its petty_out entries
  counted,  \* per day: petty_cash_counted of its close, or NONE
  lock,     \* the slip that holds pg_advisory_xact_lock, or NONE
  slip,     \* per slip in flight: where the request stands
  close,    \* per closer: the day it read, the count it was sent, slips since
  booked,   \* per booking: where it stands, and the date a request on it read
  slips,    \* slips begun
  tin,      \* what the tin holds, or should if it could be below zero
  missed,   \* slips of the week that no later day's opening will show
  late,     \* this week a cancellation or a close landed after its midnight
  after,    \* per day: slips recorded on it after its close
  waited    \* per day: its slips that stood before the check at its midnight

bookVars == <<ins, outs, counted>>
requestVars == <<slip, close, booked>>
ghostVars == <<tin, missed, late, after, waited>>
vars == <<day, bookVars, lock, requestVars, slips, ghostVars>>

Days == 0 .. LastDay
NoSlip == [pc |-> "idle", date |-> 0, x |-> 0]
NoClose == [pc |-> "idle", day |-> 0, count |-> 0, since |-> 0]
NoBooking == [pc |-> "no", day |-> 0, amount |-> 0, read |-> 0]

Init ==
  /\ day = 0
  /\ ins = [d \in Days |-> 0]
  /\ outs = [d \in Days |-> 0]
  /\ counted = [d \in Days |-> NONE]
  /\ lock = NONE
  /\ slip = [k \in Clerks |-> NoSlip]
  /\ close = [c \in Closers |-> NoClose]
  /\ booked = [b \in Bookings |-> NoBooking]
  /\ slips = 0
  /\ tin = 0
  /\ missed = 0
  /\ late = FALSE
  /\ after = [d \in Days |-> 0]
  /\ waited = [d \in Days |-> 0]

-----------------------------------------------------------------------------
(* pettyCashDay. *)

MondayOf(d) == d - (d % WeekLen)

(* The closes of the week before d that counted the tin.                   *)
ClosesBefore(d) == {e \in Days : MondayOf(d) <= e /\ e < d /\ counted[e] # NONE}
LastClose(d) == CHOOSE e \in ClosesBefore(d) : \A f \in ClosesBefore(d) : f <= e

(* Mutant: the closed day's own slips count again on top of its count.     *)
FromCloseDay(d) == IF ClosesBefore(d) = {} THEN MondayOf(d) ELSE LastClose(d)
EntriesFrom(d) == IF ClosesBefore(d) = {} THEN MondayOf(d) ELSE LastClose(d) + 1
Base(d) == IF ClosesBefore(d) = {} THEN 0 ELSE counted[LastClose(d)]

Net(from, to) ==
  LET f[d \in -1 .. LastDay] ==
        IF d = -1 THEN 0 ELSE f[d - 1] + IF from <= d /\ d <= to THEN ins[d] - outs[d] ELSE 0
  IN f[LastDay]
Expected(d) == Base(d) + Net(EntriesFrom(d), d)

(* What the next day of the week would carry on from. *)
Books == IF counted[day] # NONE THEN counted[day] ELSE Expected(day)

-----------------------------------------------------------------------------
(* An entry of x pence dated e is written or taken away.                   *)

SameWeek(d, e) == MondayOf(d) = MondayOf(e)
Counted(e) == \E f \in e .. day : counted[f] # NONE

Entered(e, x) ==
  /\ tin' = IF e <= day THEN tin + x ELSE tin
  /\ missed' = IF e <= day /\ (~SameWeek(e, day) \/ Counted(e)) THEN missed + x ELSE missed
  /\ close' = [c \in Closers |->
       IF close[c].pc = "read" /\ e <= close[c].day THEN [close[c] EXCEPT !.since = @ + x]
       ELSE close[c]]

-----------------------------------------------------------------------------
(* POST /pos/cash with petty_in (x > 0) or petty_out (x < 0). *)

(* The transaction begins: now() and so the entry's date are of this time. *)
Begin(k, x) ==
  /\ slip[k].pc = "idle"
  /\ slips < MaxSlips
  /\ slip' = [slip EXCEPT ![k] = [pc |-> "wait", date |-> day, x |-> x]]
  /\ slips' = slips + 1
  /\ UNCHANGED <<day, bookVars, lock, close, booked, ghostVars>>

(* Mutant: no lock is taken. *)
NoLock(k) ==
  /\ slip[k].pc = "wait"
  /\ slip' = [slip EXCEPT ![k].pc = "locked"]
  /\ UNCHANGED <<day, bookVars, lock, close, booked, slips, ghostVars>>
Lock(k) ==
  /\ slip[k].pc = "wait"
  /\ lock = NONE
  /\ lock' = k
  /\ slip' = [slip EXCEPT ![k].pc = "locked"]
  /\ UNCHANGED <<day, bookVars, close, booked, slips, ghostVars>>

Release(k) == lock' = IF lock = k THEN NONE ELSE lock

(* `today` is read afresh; a closed day, or more than the tin holds, is    *)
(* refused.                                                                *)
Check(k) ==
  /\ slip[k].pc = "locked"
  /\ IF counted[day] # NONE \/ (slip[k].x < 0 /\ Expected(day) < - slip[k].x)
       THEN slip' = [slip EXCEPT ![k] = NoSlip] /\ Release(k)
       ELSE slip' = [slip EXCEPT ![k].pc = "checked"] /\ UNCHANGED lock
  /\ UNCHANGED <<day, bookVars, close, booked, slips, ghostVars>>

(* Mutant: money out is stored with its sign. *)
Signed(x) == x
(* An entry's amount is positive; its kind says which way it went.         *)
AmountOut(x) == - x

Record(k) ==
  LET e == slip[k].date
      x == slip[k].x IN
  /\ slip[k].pc = "checked"
  /\ IF x > 0 THEN ins' = [ins EXCEPT ![e] = @ + x] /\ UNCHANGED outs
              ELSE outs' = [outs EXCEPT ![e] = @ + AmountOut(x)] /\ UNCHANGED ins
  /\ Entered(e, x)
  /\ after' = IF counted[e] # NONE THEN [after EXCEPT ![e] = @ + 1] ELSE after
  /\ slip' = [slip EXCEPT ![k] = NoSlip]
  /\ Release(k)
  /\ UNCHANGED <<day, counted, booked, slips, late, waited>>

SlipFails(k) ==
  /\ slip[k].pc \in {"locked", "checked"}
  /\ slip' = [slip EXCEPT ![k] = NoSlip]
  /\ Release(k)
  /\ UNCHANGED <<day, bookVars, close, booked, slips, ghostVars>>

-----------------------------------------------------------------------------
(* POST /pos/day-close, with the count staff made of the tin.              *)

CloseRead(c) ==
  /\ close[c].pc = "idle" /\ tin >= 0
  /\ close' = [close EXCEPT ![c] = [pc |-> "read", day |-> day, count |-> tin, since |-> 0]]
  /\ UNCHANGED <<day, bookVars, lock, slip, booked, slips, ghostVars>>

(* Nothing before the insert looks for an earlier close: the unique key    *)
(* refuses a second one.  It decides what later days open with only when   *)
(* it is the week's last.                                                  *)
CloseInsert(c) ==
  LET d == close[c].day IN
  /\ close[c].pc = "read"
  /\ close' = [close EXCEPT ![c] = NoClose]
  /\ IF counted[d] # NONE
       THEN UNCHANGED <<counted, missed, late>>
       ELSE /\ counted' = [counted EXCEPT ![d] = close[c].count]
            /\ missed' = IF SameWeek(d, day) /\ ~Counted(d) THEN close[c].since ELSE missed
            /\ late' = (late \/ d < day)
  /\ UNCHANGED <<day, ins, outs, lock, slip, booked, slips, tin, after, waited>>

-----------------------------------------------------------------------------
(* POST and DELETE /pos/petty-cash/scheduled. *)

Book(b, d, amount) ==
  /\ booked[b].pc = "no"
  /\ d > day
  /\ booked' = [booked EXCEPT ![b] = [pc |-> "checked", day |-> d, amount |-> amount, read |-> day]]
  /\ UNCHANGED <<day, bookVars, lock, slip, close, slips, ghostVars>>

BookInsert(b) ==
  LET e == booked[b].day IN
  /\ booked[b].pc = "checked"
  /\ booked' = [booked EXCEPT ![b].pc = "in", ![b].read = 0]
  /\ ins' = [ins EXCEPT ![e] = @ + booked[b].amount]
  /\ Entered(e, booked[b].amount)
  /\ UNCHANGED <<day, outs, counted, lock, slip, slips, late, after, waited>>

Cancel(b) ==
  /\ booked[b].pc = "in"
  /\ booked' = [booked EXCEPT ![b].pc = "cancelling", ![b].read = day]
  /\ UNCHANGED <<day, bookVars, lock, slip, close, slips, ghostVars>>

(* Mutant: a booking whose day has come can be cancelled. *)
AnyDay(b) == TRUE
StillAhead(b) == booked[b].day > booked[b].read

CancelDelete(b) ==
  LET e == booked[b].day IN
  /\ booked[b].pc = "cancelling"
  /\ IF StillAhead(b)
       THEN /\ booked' = [booked EXCEPT ![b].pc = "gone", ![b].read = 0]
            /\ ins' = [ins EXCEPT ![e] = @ - booked[b].amount]
            /\ Entered(e, - booked[b].amount)
            /\ late' = (late \/ (booked[b].read < day /\ e <= day))
       ELSE /\ booked' = [booked EXCEPT ![b].pc = "in", ![b].read = 0]
            /\ UNCHANGED <<ins, tin, missed, close, late>>
  /\ UNCHANGED <<day, outs, counted, lock, slip, slips, after, waited>>

-----------------------------------------------------------------------------
(* On a Monday the books start again at nothing but that day's entries.    *)
(* A slip begun today keeps today's date, and will find tomorrow open.      *)
BeforeCheck == {k \in Clerks : slip[k].pc \in {"wait", "locked"} /\ slip[k].date = day}

Midnight ==
  /\ day < LastDay
  /\ day' = day + 1
  /\ IF MondayOf(day + 1) = day + 1
       THEN tin' = ins[day + 1] - outs[day + 1] /\ missed' = 0 /\ late' = FALSE
       ELSE tin' = tin + ins[day + 1] - outs[day + 1] /\ UNCHANGED <<missed, late>>
  /\ waited' = [waited EXCEPT ![day] = Cardinality(BeforeCheck)]
  /\ UNCHANGED <<bookVars, lock, requestVars, slips, after>>

Next ==
  \/ \E k \in Clerks :
       \/ \E a \in Amounts : Begin(k, a) \/ Begin(k, -a)
       \/ Lock(k) \/ Check(k) \/ Record(k) \/ SlipFails(k)
  \/ \E c \in Closers : CloseRead(c) \/ CloseInsert(c)
  \/ \E b \in Bookings :
       \/ \E d \in Days, a \in Amounts : Book(b, d, a)
       \/ BookInsert(b) \/ Cancel(b) \/ CancelDelete(b)
  \/ Midnight

Spec == Init /\ [][Next]_vars

-----------------------------------------------------------------------------
(* The variables hold what their comments say. *)
TypeOK ==
  /\ day \in Days
  /\ ins \in [Days -> Nat] /\ outs \in [Days -> Nat]
  /\ counted \in [Days -> Nat \cup {NONE}]
  /\ lock \in Clerks \cup {NONE}
  /\ slip \in [Clerks -> [pc : {"idle", "wait", "locked", "checked"}, date : Days, x : Int]]
  /\ close \in [Closers -> [pc : {"idle", "read"}, day : Days, count : Nat, since : Int]]
  /\ booked \in [Bookings ->
       [pc : {"no", "checked", "in", "cancelling", "gone"}, day : Days, amount : Nat, read : Days]]
  /\ slips \in 0 .. MaxSlips
  /\ tin \in Int /\ missed \in Int /\ late \in BOOLEAN
  /\ after \in [Days -> Nat] /\ waited \in [Days -> Nat]

(* What the books say the tin holds is what it holds, day after day and     *)
(* across closes, but for the slips that came in after the count of their   *)
(* day was taken: those, and only those, are lost to the days that follow.  *)
BooksMatchTin == tin = Books + missed

(* "Two Petty Cash Outs at once cannot both spend the same money" (cash.ts  *)
(* l. 34): the day's balance goes below zero only when a cancellation or a  *)
(* close that had read the date lands after midnight.                       *)
NeverOverspent == Expected(day) < 0 => late

(* After a day is closed at most one more slip is recorded on it before its *)
(* midnight, the one that had been checked by then; and once midnight is     *)
(* past, besides that one, only those that stood before the check as it      *)
(* struck: they keep their date, and the check looks at the new day.         *)
StragglersBounded == \A d \in Days : after[d] <= 1 + waited[d]

(* "The close already counted the tin; a slip after it would vanish from     *)
(* the next day" (cash.ts l. 47): no slip is recorded on a closed day.       *)
(* Not always: see Known divergences in the README.                          *)
NoSlipAfterClose == \A d \in Days : after[d] = 0
=============================================================================
