--------------------------- MODULE PettyCashProofs ---------------------------
(* Proofs about PettyCash, for every value of its constants. *)
EXTENDS PettyCash, RunningSums, FiniteSetTheorems, TLAPS

SlipStates == [pc : {"idle", "wait", "locked", "checked"}, date : Days, x : Int]
CloseStates == [pc : {"idle", "read"}, day : Days, count : Nat, since : Int]
BookingStates ==
  [pc : {"no", "checked", "in", "cancelling", "gone"}, day : Days, amount : Nat, read : Days]

(* TypeOK without the sign of a day's money in: that a booking is taken     *)
(* away only after it was added is a fact about sums (Covered, below).      *)
Types ==
  /\ day \in Days
  /\ ins \in [Days -> Int] /\ outs \in [Days -> Nat]
  /\ counted \in [Days -> Nat \cup {NONE}]
  /\ lock \in Clerks \cup {NONE}
  /\ slip \in [Clerks -> SlipStates]
  /\ close \in [Closers -> CloseStates]
  /\ booked \in [Bookings -> BookingStates]
  /\ slips \in 0 .. MaxSlips
  /\ tin \in Int /\ missed \in Int /\ late \in BOOLEAN
  /\ after \in [Days -> Nat] /\ waited \in [Days -> Nat]

(* A slip past the advisory lock holds it, and no slip is dated ahead.      *)
SlipsInTurn ==
  \A k \in Clerks : /\ slip[k].pc \in {"locked", "checked"} => lock = k
                    /\ slip[k].date <= day

IndInv == Types /\ SlipsInTurn

-----------------------------------------------------------------------------
LEMMA InitInd == Init => IndInv
<1> SUFFICES ASSUME Init PROVE IndInv
  OBVIOUS
<1> USE PettyCashAssumption DEF Init
<1>0. 0 \in Days /\ Days \subseteq Nat
  BY DEF Days
<1>1. NoSlip \in SlipStates /\ NoClose \in CloseStates /\ NoBooking \in BookingStates
  BY <1>0 DEF NoSlip, NoClose, NoBooking, SlipStates, CloseStates, BookingStates
<1>2. Types
  <2>1. /\ day \in Days /\ slips \in 0 .. MaxSlips /\ lock \in Clerks \cup {NONE}
        /\ tin \in Int /\ missed \in Int /\ late \in BOOLEAN
    <3>1. day \in Days /\ tin \in Int /\ missed \in Int
      BY <1>0
    <3>2. slips \in 0 .. MaxSlips
      BY SMT
    <3>3. lock \in Clerks \cup {NONE}
      OBVIOUS
    <3>4. late \in BOOLEAN
      BY Zenon
    <3> QED BY <3>1, <3>2, <3>3, <3>4
  <2>2. /\ ins \in [Days -> Int] /\ outs \in [Days -> Nat] /\ after \in [Days -> Nat]
        /\ waited \in [Days -> Nat]
        /\ counted \in [Days -> Nat \cup {NONE}]
    OBVIOUS
  <2>3. /\ slip \in [Clerks -> SlipStates] /\ close \in [Closers -> CloseStates]
        /\ booked \in [Bookings -> BookingStates]
    BY <1>1
  <2> QED BY <2>1, <2>2, <2>3 DEF Types
<1>3. SlipsInTurn
  BY DEF SlipsInTurn, NoSlip
<1> QED BY <1>2, <1>3 DEF IndInv

(* A clerk's slip that takes another state of the type. *)
LEMMA SlipMoves ==
  ASSUME slip \in [Clerks -> SlipStates], NEW k \in Clerks, NEW v \in SlipStates,
         slip' = [slip EXCEPT ![k] = v]
  PROVE  slip' \in [Clerks -> SlipStates] /\ \A j \in Clerks : slip'[j] = IF j = k THEN v ELSE slip[j]
OBVIOUS

(* An entry leaves the ghosts and the closes within their types. *)
LEMMA EnteredTypes ==
  ASSUME Types, NEW e, NEW x \in Int, Entered(e, x)
  PROVE  tin' \in Int /\ missed' \in Int /\ close' \in [Closers -> CloseStates]
<1>1. tin' \in Int /\ missed' \in Int
  BY DEF Types, Entered
<1>2. ASSUME NEW c \in Closers PROVE [close[c] EXCEPT !.since = @ + x] \in CloseStates
  BY DEF Types, CloseStates
<1>3. close' \in [Closers -> CloseStates]
  BY <1>2 DEF Types, Entered
<1> QED BY <1>1, <1>3

-----------------------------------------------------------------------------
(* One kind of step at a time. *)

(* Slips that move without an entry: Begin, Lock, Check, SlipFails.         *)
LEMMA SlipStep ==
  ASSUME IndInv, NEW k \in Clerks,
         \/ \E x \in Int : Begin(k, x)
         \/ Lock(k) \/ Check(k) \/ SlipFails(k)
  PROVE  IndInv'
<1> USE PettyCashAssumption
<1>0. Days \subseteq Nat /\ day \in Days /\ slip \in [Clerks -> SlipStates] /\ slip[k] \in SlipStates
  BY DEF IndInv, Types, Days
<1>1. NoSlip \in SlipStates /\ NoSlip.pc = "idle" /\ NoSlip.date = 0
  BY <1>0 DEF NoSlip, SlipStates, Days
<1>2. ASSUME NEW v \in SlipStates, slip' = [slip EXCEPT ![k] = v], v.date <= day,
             v.pc \in {"locked", "checked"} => lock' = k,
             \A j \in Clerks : j # k /\ lock = j => lock' = j,
             lock' \in Clerks \cup {NONE}, slips' \in 0 .. MaxSlips,
             UNCHANGED <<day, bookVars, close, booked, ghostVars>>
      PROVE  IndInv'
  <2>1. slip' \in [Clerks -> SlipStates] /\ \A j \in Clerks : slip'[j] = IF j = k THEN v ELSE slip[j]
    BY <1>0, <1>2, SlipMoves
  <2>2. Types'
    BY <1>2, <2>1 DEF IndInv, Types, bookVars, ghostVars
  <2>3. SlipsInTurn'
    BY <1>2, <2>1 DEF IndInv, SlipsInTurn
  <2> QED BY <2>2, <2>3 DEF IndInv
<1>3. slips \in 0 .. MaxSlips /\ lock \in Clerks \cup {NONE}
  BY DEF IndInv, Types
<1>4. ASSUME NEW x \in Int, Begin(k, x) PROVE IndInv'
  <2> DEFINE v == [pc |-> "wait", date |-> day, x |-> x]
  <2>1. v \in SlipStates /\ v.date <= day /\ v.pc = "wait"
    BY <1>0 DEF SlipStates
  <2>2. slip' = [slip EXCEPT ![k] = v] /\ slips' \in 0 .. MaxSlips
    BY <1>3, <1>4 DEF Begin
  <2> HIDE DEF v
  <2> QED BY <1>2, <1>3, <1>4, <2>1, <2>2 DEF Begin
<1>5. ASSUME Lock(k) PROVE IndInv'
  <2>1. PICK v : v = [slip[k] EXCEPT !.pc = "locked"]
    OBVIOUS
  <2>2. v \in SlipStates /\ v.date = slip[k].date /\ v.pc = "locked"
    BY <1>0, <2>1 DEF SlipStates
  <2>3. slip' = [slip EXCEPT ![k] = v]
    BY <1>5, <2>1 DEF Lock
  <2>4. slip[k].date <= day /\ NONE \notin Clerks
    BY DEF IndInv, SlipsInTurn
  <2> QED BY <1>2, <1>3, <1>5, <2>2, <2>3, <2>4 DEF Lock
<1>6. ASSUME Release(k), slip' = [slip EXCEPT ![k] = NoSlip], UNCHANGED slips,
             UNCHANGED <<day, bookVars, close, booked, ghostVars>>
      PROVE  IndInv'
  <2>1. NoSlip.date <= day /\ NoSlip.pc \notin {"locked", "checked"}
    BY <1>0, <1>1
  <2>2. lock' \in Clerks \cup {NONE} /\ \A j \in Clerks : j # k /\ lock = j => lock' = j
    BY <1>3, <1>6 DEF Release
  <2>3. slips' \in 0 .. MaxSlips
    BY <1>3, <1>6
  <2> QED BY <1>1, <1>2, <1>6, <2>1, <2>2, <2>3
<1>7. ASSUME Check(k), slip' = [slip EXCEPT ![k].pc = "checked"], UNCHANGED lock
      PROVE  IndInv'
  <2>1. PICK v : v = [slip[k] EXCEPT !.pc = "checked"]
    OBVIOUS
  <2>2. v \in SlipStates /\ v.date = slip[k].date /\ v.pc = "checked"
    BY <1>0, <2>1 DEF SlipStates
  <2>3. slip' = [slip EXCEPT ![k] = v]
    BY <1>7, <2>1
  <2>4. slip[k].date <= day /\ lock = k
    BY <1>7 DEF Check, IndInv, SlipsInTurn
  <2> QED BY <1>2, <1>3, <1>7, <2>2, <2>3, <2>4 DEF Check
<1>8. ASSUME Check(k) PROVE IndInv'
  BY <1>6, <1>7, <1>8 DEF Check
<1>9. ASSUME SlipFails(k) PROVE IndInv'
  BY <1>6, <1>9 DEF SlipFails
<1> QED BY <1>4, <1>5, <1>8, <1>9

(* A slip is recorded. *)
LEMMA RecordStep ==
  ASSUME IndInv, NEW k \in Clerks, Record(k) PROVE IndInv'
<1> USE PettyCashAssumption
<1> DEFINE e == slip[k].date
           x == slip[k].x
<1>0. /\ Days \subseteq Nat /\ day \in Days /\ slip \in [Clerks -> SlipStates]
      /\ slip[k] \in SlipStates /\ e \in Days /\ x \in Int
  <2>1. Days \subseteq Nat
    BY DEF Days
  <2>2. day \in Days /\ slip \in [Clerks -> SlipStates] /\ slip[k] \in SlipStates
    BY DEF IndInv, Types
  <2>3. slip[k].date \in Days /\ slip[k].x \in Int
    BY <2>2 DEF SlipStates
  <2> QED BY <2>1, <2>2, <2>3
<1>1. lock = k /\ slip[k].pc = "checked" /\ \A j \in Clerks : slip[j].pc = "checked" => j = k
  BY DEF Record, IndInv, SlipsInTurn
<1>2. NoSlip \in SlipStates /\ NoSlip.pc = "idle" /\ NoSlip.date = 0
  BY <1>0 DEF NoSlip, SlipStates, Days
<1>3. slip' = [slip EXCEPT ![k] = NoSlip] /\ lock' = NONE
  BY <1>1 DEF Record, Release
<1>4. slip' \in [Clerks -> SlipStates] /\ \A j \in Clerks : slip'[j] = IF j = k THEN NoSlip ELSE slip[j]
  BY <1>0, <1>2, <1>3, SlipMoves
<1>5. tin' \in Int /\ missed' \in Int /\ close' \in [Closers -> CloseStates]
  BY <1>0, EnteredTypes DEF Record, IndInv
<1>6. ins' \in [Days -> Int] /\ outs' \in [Days -> Nat]
  <2>1. ins \in [Days -> Int] /\ outs \in [Days -> Nat]
    BY DEF IndInv, Types
  <2>2. CASE x > 0
    BY <1>0, <2>1, <2>2 DEF Record
  <2>3. CASE ~(x > 0)
    <3>0. \A n \in Int : ~(n > 0) => -n \in Nat
      OBVIOUS
    <3>1. AmountOut(x) \in Nat /\ outs[e] \in Nat /\ outs[e] + AmountOut(x) \in Nat
      <4>1. x \in Int /\ e \in Days
        BY <1>0
      <4>2. outs[e] \in Nat
        BY <2>1, <4>1
      <4> HIDE DEF x, e
      <4>3. AmountOut(x) \in Nat
        BY <2>3, <3>0, <4>1 DEF AmountOut
      <4> QED BY <4>2, <4>3
    <3>2. ins' = ins /\ outs' = [outs EXCEPT ![e] = @ + AmountOut(x)]
      BY <2>3 DEF Record
    <3> QED BY <1>0, <2>1, <3>1, <3>2
  <2> QED BY <2>2, <2>3
<1>7. after' \in [Days -> Nat] /\ day' = day
  <2>1. after \in [Days -> Nat] /\ \A n \in Nat : n + 1 \in Nat
    BY DEF IndInv, Types
  <2> QED BY <1>0, <2>1 DEF Record
<1>8. Types'
  BY <1>3, <1>4, <1>5, <1>6, <1>7 DEF Record, IndInv, Types
<1>9. SlipsInTurn'
  BY <1>0, <1>1, <1>2, <1>3, <1>4, <1>7 DEF IndInv, SlipsInTurn
<1> QED BY <1>8, <1>9 DEF IndInv

(* Steps that leave the slips alone. *)
LEMMA OtherSteps ==
  ASSUME IndInv, Types', UNCHANGED <<slip, lock>>, day' = day \/ day' = day + 1
  PROVE  IndInv'
<1>0. Days \subseteq Nat /\ day \in Days /\ day' \in Days
      /\ slip \in [Clerks -> SlipStates]
  <2>1. Days \subseteq Nat
    BY PettyCashAssumption DEF Days
  <2>2. day \in Days /\ slip \in [Clerks -> SlipStates]
    BY DEF IndInv, Types
  <2>3. day' \in Days
    BY DEF Types
  <2> QED BY <2>1, <2>2, <2>3
<1>1. ASSUME NEW k \in Clerks PROVE slip[k].date \in Nat
  BY <1>0 DEF SlipStates
<1>2. SlipsInTurn'
  <2>1. day \in Nat /\ day' \in Nat /\ day <= day'
    BY <1>0
  <2>2. SlipsInTurn
    BY DEF IndInv
  <2> SUFFICES ASSUME NEW k \in Clerks
               PROVE  /\ slip[k].pc \in {"locked", "checked"} => lock = k
                      /\ slip[k].date <= day'
    BY DEF SlipsInTurn
  <2>3. slip[k].date \in Nat /\ slip[k].date <= day
    BY <1>1, <2>2 DEF SlipsInTurn
  <2>4. slip[k].pc \in {"locked", "checked"} => lock = k
    BY <2>2 DEF SlipsInTurn
  <2> QED BY <2>1, <2>3, <2>4
<1> QED BY <1>2 DEF IndInv

LEMMA NextInd == IndInv /\ [Next]_vars => IndInv'
<1> SUFFICES ASSUME IndInv, [Next]_vars PROVE IndInv'
  OBVIOUS
<1> USE PettyCashAssumption
<1>0. Days \subseteq Nat /\ Types
  BY DEF IndInv, Days
<1>1. ASSUME NEW k \in Clerks, NEW a \in Amounts, Begin(k, a) \/ Begin(k, -a) PROVE IndInv'
  <2>1. a \in Int /\ -a \in Int
    OBVIOUS
  <2> QED BY <1>1, <2>1, SlipStep
<1>2. ASSUME NEW k \in Clerks, Lock(k) \/ Check(k) \/ SlipFails(k) PROVE IndInv'
  BY <1>2, SlipStep
<1>3. ASSUME NEW k \in Clerks, Record(k) PROVE IndInv'
  BY <1>3, RecordStep
<1>4. ASSUME NEW c \in Closers, CloseRead(c) PROVE IndInv'
  <2> DEFINE v == [pc |-> "read", day |-> day, count |-> tin, since |-> 0]
  <2>1. v \in CloseStates
    BY <1>0, <1>4 DEF Types, CloseStates, CloseRead
  <2>2. close' = [close EXCEPT ![c] = v]
    BY <1>4 DEF CloseRead
  <2> HIDE DEF v
  <2>3. Types'
    BY <1>0, <1>4, <2>1, <2>2 DEF Types, CloseRead, bookVars, ghostVars
  <2> QED BY <1>4, <2>3, OtherSteps DEF CloseRead, bookVars, ghostVars
<1>5. ASSUME NEW c \in Closers, CloseInsert(c) PROVE IndInv'
  <2>1. close[c] \in CloseStates /\ close[c].day \in Days /\ close[c].count \in Nat
        /\ close[c].since \in Int
    BY <1>0 DEF Types, CloseStates
  <2>2. NoClose \in CloseStates
    BY <1>0 DEF NoClose, CloseStates, Days
  <2>3. close' \in [Closers -> CloseStates]
    BY <1>0, <1>5, <2>2 DEF Types, CloseInsert
  <2>4. /\ counted' \in [Days -> Nat \cup {NONE}] /\ missed' \in Int /\ late' \in BOOLEAN
        /\ \A d \in Days : counted[d] # NONE => counted'[d] # NONE
    <3>1. CASE counted[close[c].day] # NONE
      BY <1>0, <1>5, <3>1 DEF Types, CloseInsert
    <3>2. CASE counted[close[c].day] = NONE
      BY <1>0, <1>5, <2>1, <3>2 DEF Types, CloseInsert
    <3> QED BY <3>1, <3>2
  <2>5. Types'
    BY <1>0, <1>5, <2>3, <2>4 DEF Types, CloseInsert
  <2> QED BY <1>5, <2>4, <2>5, OtherSteps DEF CloseInsert
<1>6. ASSUME NEW b \in Bookings, NEW d \in Days, NEW a \in Amounts, Book(b, d, a) PROVE IndInv'
  <2> DEFINE v == [pc |-> "checked", day |-> d, amount |-> a, read |-> day]
  <2>1. v \in BookingStates
    BY <1>0 DEF Types, BookingStates
  <2>2. booked' = [booked EXCEPT ![b] = v]
    BY <1>6 DEF Book
  <2> HIDE DEF v
  <2>3. Types'
    BY <1>0, <1>6, <2>1, <2>2 DEF Types, Book, bookVars, ghostVars
  <2> QED BY <1>6, <2>3, OtherSteps DEF Book, bookVars, ghostVars
<1>7. ASSUME NEW b \in Bookings PROVE booked[b] \in BookingStates /\ booked[b].day \in Days
                                      /\ booked[b].amount \in Nat
  BY <1>0 DEF Types, BookingStates
<1>8. ASSUME NEW b \in Bookings, BookInsert(b) PROVE IndInv'
  <2>0. 0 \in Days
    BY DEF Days
  <2>1. [booked[b] EXCEPT !.pc = "in", !.read = 0] \in BookingStates
    BY <1>7, <2>0 DEF BookingStates
  <2>2. booked' \in [Bookings -> BookingStates]
    BY <1>0, <1>8, <2>1 DEF BookInsert, Types
  <2>3. tin' \in Int /\ missed' \in Int /\ close' \in [Closers -> CloseStates]
    BY <1>0, <1>7, <1>8, EnteredTypes DEF BookInsert
  <2>4. ins' \in [Days -> Int]
    BY <1>0, <1>7, <1>8 DEF BookInsert, Types
  <2>5. Types'
    BY <1>0, <1>8, <2>2, <2>3, <2>4 DEF Types, BookInsert
  <2> QED BY <1>8, <2>5, OtherSteps DEF BookInsert
<1>9. ASSUME NEW b \in Bookings, Cancel(b) PROVE IndInv'
  <2>1. PICK v : v = [booked[b] EXCEPT !.pc = "cancelling", !.read = day]
    OBVIOUS
  <2>2. v \in BookingStates
    BY <1>0, <1>7, <2>1 DEF Types, BookingStates
  <2>3. booked' = [booked EXCEPT ![b] = v]
    BY <1>9, <2>1 DEF Cancel
  <2>4. booked' \in [Bookings -> BookingStates]
    BY <1>0, <2>2, <2>3 DEF Types
  <2>5. UNCHANGED <<day, ins, outs, counted, lock, slip, close, slips, tin, missed, late, after,
                  waited>>
    BY <1>9 DEF Cancel, bookVars, ghostVars
  <2>6. Types'
    BY <1>0, <2>4, <2>5 DEF Types
  <2> QED BY <2>5, <2>6, OtherSteps
<1>10. ASSUME NEW b \in Bookings, CancelDelete(b) PROVE IndInv'
  <2>0. 0 \in Days
    BY DEF Days
  <2>1. [booked[b] EXCEPT !.pc = "gone", !.read = 0] \in BookingStates
        /\ [booked[b] EXCEPT !.pc = "in", !.read = 0] \in BookingStates
    BY <1>7, <2>0 DEF BookingStates
  <2>2. booked' \in [Bookings -> BookingStates]
    BY <1>0, <1>10, <2>1 DEF CancelDelete, Types
  <2>3. CASE StillAhead(b)
    <3>1. -booked[b].amount \in Int
      BY <1>7
    <3>2. tin' \in Int /\ missed' \in Int /\ close' \in [Closers -> CloseStates]
      BY <1>0, <1>10, <2>3, <3>1, EnteredTypes DEF CancelDelete
    <3>3. ins' \in [Days -> Int] /\ late' \in BOOLEAN
      BY <1>0, <1>7, <1>10, <2>3 DEF CancelDelete, Types
    <3>4. Types'
      BY <1>0, <1>10, <2>2, <3>2, <3>3 DEF Types, CancelDelete
    <3> QED BY <1>10, <3>4, OtherSteps DEF CancelDelete
  <2>4. CASE ~StillAhead(b)
    <3>1. Types'
      BY <1>0, <1>10, <2>2, <2>4 DEF Types, CancelDelete
    <3> QED BY <1>10, <3>1, OtherSteps DEF CancelDelete
  <2> QED BY <2>3, <2>4
<1>11. CASE Midnight
  <2>1. day' = day + 1 /\ day' \in Days
    BY <1>0, <1>11 DEF Midnight, Types, Days
  <2>2. ins[day + 1] - outs[day + 1] \in Int
    <3>1. day + 1 \in Days
      BY <2>1
    <3>2. ins[day + 1] \in Int /\ outs[day + 1] \in Nat
      BY <1>0, <3>1 DEF Types
    <3> QED BY <3>2
  <2>3. tin' \in Int /\ missed' \in Int /\ late' \in BOOLEAN
    <3>1. tin \in Int /\ missed \in Int /\ late \in BOOLEAN /\ ins[day + 1] \in Int /\ outs[day + 1] \in Int
      BY <1>0, <2>1 DEF Types
    <3>2. CASE MondayOf(day + 1) = day + 1
      <4>1. tin' = ins[day + 1] - outs[day + 1] /\ missed' = 0 /\ late' = FALSE
        BY <1>11, <3>2 DEF Midnight
      <4>2. tin' \in Int /\ missed' \in Int
        BY <2>2, <4>1
      <4>3. late' \in BOOLEAN
        BY <4>1, Zenon
      <4> QED BY <4>2, <4>3
    <3>3. CASE MondayOf(day + 1) # day + 1
      <4>1. tin' = tin + ins[day + 1] - outs[day + 1] /\ missed' = missed /\ late' = late
        BY <1>11, <3>3 DEF Midnight
      <4>2. tin' \in Int
        BY <3>1, <4>1
      <4> QED BY <3>1, <4>1, <4>2
    <3> QED BY <3>2, <3>3
  <2>4. waited' \in [Days -> Nat]
    <3>1. BeforeCheck \subseteq Clerks /\ IsFiniteSet(Clerks)
      BY DEF BeforeCheck
    <3>2. Cardinality(BeforeCheck) \in Nat
      BY <3>1, FS_Subset, FS_CardinalityType
    <3> QED BY <1>0, <1>11, <3>2 DEF Midnight, Types
  <2>5. Types'
    BY <1>0, <1>11, <2>1, <2>3, <2>4 DEF Midnight, Types, bookVars, requestVars
  <2> QED BY <1>11, <2>1, <2>5, OtherSteps DEF Midnight, bookVars, requestVars
<1>12. CASE UNCHANGED vars
  <2>1. Types'
    BY <1>0, <1>12 DEF Types, vars, bookVars, requestVars, ghostVars
  <2> QED BY <1>12, <2>1, OtherSteps DEF vars, bookVars, requestVars, ghostVars
<1> QED BY <1>1, <1>2, <1>3, <1>4, <1>5, <1>6, <1>8, <1>9, <1>10, <1>11, <1>12 DEF Next

-----------------------------------------------------------------------------
(* All of the invariant, on every run of the model. *)
THEOREM PettyCashInvariance == Spec => []IndInv
BY InitInd, NextInd, PTL DEF Spec

-----------------------------------------------------------------------------
(* Slips on a closed day.  The one that came before midnight was the only   *)
(* one checked by then: none is left, and the close keeps others from being *)
(* checked.  Of a day that is past, those still to come count as well.      *)
Dated(sl, d) == {k \in Clerks : sl[k].pc # "idle" /\ sl[k].date = d}
NoneLeft ==
  after[day] > 0 =>
    /\ counted[day] # NONE
    /\ \A k \in Clerks : slip[k].pc = "checked" => slip[k].date # day
StragglerInv ==
  /\ \A d \in Days : d > day => after[d] = 0
  /\ \A d \in Days : d >= day => waited[d] = 0
  /\ after[day] <= 1
  /\ NoneLeft
  /\ \A d \in Days : d < day => after[d] + Cardinality(Dated(slip, d)) <= 1 + waited[d]

LEMMA DatedFinite ==
  ASSUME NEW sl, NEW d
  PROVE  IsFiniteSet(Dated(sl, d)) /\ Cardinality(Dated(sl, d)) \in Nat
<1>1. Dated(sl, d) \subseteq Clerks /\ IsFiniteSet(Clerks)
  BY PettyCashAssumption DEF Dated
<1> QED BY <1>1, FS_Subset, FS_CardinalityType

LEMMA StragglerFacts ==
  ASSUME IndInv
  PROVE  /\ day \in Days /\ Days \subseteq Nat /\ slip \in [Clerks -> SlipStates]
         /\ after \in [Days -> Nat] /\ waited \in [Days -> Nat]
<1>1. Days \subseteq Nat
  BY PettyCashAssumption DEF Days
<1> QED BY <1>1 DEF IndInv, Types

LEMMA InitStraggler == Init => StragglerInv
<1> SUFFICES ASSUME Init PROVE StragglerInv
  OBVIOUS
<1>1. day = 0 /\ 0 \in Days /\ Days \subseteq Nat
  BY PettyCashAssumption DEF Init, Days
<1>2. \A d \in Days : after[d] = 0 /\ waited[d] = 0 /\ ~(d < 0)
  BY <1>1 DEF Init
<1> QED BY <1>1, <1>2 DEF StragglerInv, NoneLeft

(* A slip that moves on, or ends without an entry. *)
LEMMA StragglerMove ==
  ASSUME IndInv, StragglerInv, NEW k \in Clerks, NEW v, slip' = [slip EXCEPT ![k] = v],
         v.pc # "idle" => v.date = day \/ (slip[k].pc # "idle" /\ v.date = slip[k].date),
         v.pc = "checked" => counted[day] = NONE,
         UNCHANGED <<day, counted, after, waited>>
  PROVE  StragglerInv'
<1>0. /\ day \in Days /\ Days \subseteq Nat /\ after \in [Days -> Nat] /\ waited \in [Days -> Nat]
      /\ slip \in [Clerks -> SlipStates]
  BY StragglerFacts
<1>1. /\ day' = day /\ counted' = counted /\ after' = after /\ waited' = waited
      /\ \A j \in Clerks : slip'[j] = IF j = k THEN v ELSE slip[j]
  BY <1>0
<1>2. NoneLeft'
  BY <1>1 DEF StragglerInv, NoneLeft
<1>3. ASSUME NEW d \in Days, d < day
      PROVE  after[d] + Cardinality(Dated(slip', d)) <= 1 + waited[d]
  <2>1. d # day
    BY <1>0, <1>3
  <2>2. Dated(slip', d) \subseteq Dated(slip, d)
    BY <1>1, <2>1 DEF Dated
  <2>3. PICK m \in Nat, n \in Nat :
          m = Cardinality(Dated(slip', d)) /\ n = Cardinality(Dated(slip, d)) /\ m <= n
    <3>1. /\ IsFiniteSet(Dated(slip, d)) /\ Cardinality(Dated(slip, d)) \in Nat
          /\ Cardinality(Dated(slip', d)) \in Nat
      BY DatedFinite
    <3>2. Cardinality(Dated(slip', d)) <= Cardinality(Dated(slip, d))
      BY <2>2, <3>1, FS_Subset
    <3> QED BY <3>1, <3>2
  <2>4. after[d] + n <= 1 + waited[d]
    BY <1>3, <2>3 DEF StragglerInv
  <2>5. after[d] \in Nat /\ waited[d] \in Nat
    BY <1>0
  <2>6. after[d] + m <= 1 + waited[d]
    BY <2>3, <2>4, <2>5
  <2> QED BY <2>3, <2>6
<1> QED BY <1>1, <1>2, <1>3 DEF StragglerInv

(* A slip is recorded: one more of its day if that is closed, and one fewer  *)
(* to come.                                                                 *)
LEMMA StragglerRecord ==
  ASSUME IndInv, StragglerInv, NEW k \in Clerks, Record(k)
  PROVE  StragglerInv'
<1>0. /\ day \in Days /\ Days \subseteq Nat /\ after \in [Days -> Nat] /\ waited \in [Days -> Nat]
      /\ slip \in [Clerks -> SlipStates]
  BY StragglerFacts
<1>1. slip[k].pc = "checked" /\ slip[k].date <= day /\ \A j \in Clerks : slip[j].pc = "checked" => j = k
  BY DEF Record, IndInv, SlipsInTurn
<1>2. PICK e \in Days : e = slip[k].date
  <2>1. slip[k] \in SlipStates
    BY <1>0
  <2> QED BY <2>1 DEF SlipStates
<1>3. /\ day' = day /\ counted' = counted /\ waited' = waited
      /\ slip' = [slip EXCEPT ![k] = NoSlip]
      /\ after' = IF counted[e] # NONE THEN [after EXCEPT ![e] = @ + 1] ELSE after
  BY <1>2 DEF Record
<1>4. CASE counted[e] = NONE
  <2>1. NoSlip.pc = "idle" /\ UNCHANGED <<day, counted, after, waited>>
    BY <1>3, <1>4 DEF NoSlip
  <2> QED BY <1>3, <2>1, StragglerMove
<1>5. CASE counted[e] # NONE
  <2>1. \A d \in Days : after'[d] = IF d = e THEN after[d] + 1 ELSE after[d]
    BY <1>0, <1>3, <1>5
  <2>2. \A j \in Clerks : slip'[j] = IF j = k THEN NoSlip ELSE slip[j]
    BY <1>0, <1>3
  <2>3. \A j \in Clerks : slip'[j].pc # "checked"
    BY <1>1, <2>2 DEF NoSlip
  <2>4. \A d \in Days : d > day => after'[d] = 0
    <3>1. \A d \in Days : d > day => d # e
      BY <1>0, <1>1, <1>2
    <3> QED BY <2>1, <3>1 DEF StragglerInv
  <2>5. after'[day] <= 1
    <3>1. CASE e = day
      <4>1. ~(after[day] > 0)
        BY <1>1, <1>2, <3>1 DEF StragglerInv, NoneLeft
      <4>2. after[day] = 0
        BY <1>0, <4>1
      <4> QED BY <1>0, <2>1, <3>1, <4>2
    <3>2. CASE e # day
      BY <1>0, <2>1, <3>2 DEF StragglerInv
    <3> QED BY <3>1, <3>2
  <2>6. NoneLeft'
    <3>1. after'[day] > 0 => counted[day] # NONE
      BY <1>0, <1>5, <2>1 DEF StragglerInv, NoneLeft
    <3> QED BY <1>3, <2>3, <3>1 DEF NoneLeft
  <2>7. ASSUME NEW d \in Days, d < day
        PROVE  after'[d] + Cardinality(Dated(slip', d)) <= 1 + waited[d]
    <3>1. after[d] + Cardinality(Dated(slip, d)) <= 1 + waited[d]
      BY <2>7 DEF StragglerInv
    <3>2. CASE d = e
      <4>1. Dated(slip', d) = Dated(slip, d) \ {k} /\ k \in Dated(slip, d)
        BY <1>1, <1>2, <2>2, <3>2 DEF Dated, NoSlip
      <4>2. PICK m \in Nat, n \in Nat :
              m = Cardinality(Dated(slip', d)) /\ n = Cardinality(Dated(slip, d)) /\ m = n - 1
        <5>1. Cardinality(Dated(slip, d) \ {k}) = Cardinality(Dated(slip, d)) - 1
          BY <4>1, DatedFinite, FS_RemoveElement
        <5> QED BY <4>1, <5>1, DatedFinite
      <4>3. after[d] \in Nat /\ waited[d] \in Nat /\ after'[d] = after[d] + 1
        BY <1>0, <2>1, <3>2
      <4>4. after[d] + n <= 1 + waited[d]
        BY <3>1, <4>2
      <4>5. (after[d] + 1) + m <= 1 + waited[d]
        BY <4>2, <4>3, <4>4
      <4> QED BY <4>2, <4>3, <4>5
    <3>3. CASE d # e
      <4>1. Dated(slip', d) = Dated(slip, d)
        BY <1>2, <2>2, <3>3 DEF Dated, NoSlip
      <4> QED BY <2>1, <3>1, <3>3, <4>1
    <3> QED BY <3>2, <3>3
  <2> QED BY <1>3, <2>4, <2>5, <2>6, <2>7 DEF StragglerInv
<1> QED BY <1>4, <1>5

(* Midnight: the day's slips that are under way may all still come, at most  *)
(* one of them checked, and that one only if none has come yet.              *)
LEMMA StragglerMidnight ==
  ASSUME IndInv, StragglerInv, Midnight
  PROVE  StragglerInv'
<1>0. /\ day \in Days /\ Days \subseteq Nat /\ after \in [Days -> Nat] /\ waited \in [Days -> Nat]
      /\ slip \in [Clerks -> SlipStates]
  BY StragglerFacts
<1>1. /\ day' = day + 1 /\ slip' = slip /\ after' = after
      /\ waited' = [waited EXCEPT ![day] = Cardinality(BeforeCheck)]
  BY DEF Midnight, requestVars
<1>2. day + 1 \in Days
  BY <1>0, PettyCashAssumption DEF Midnight, Days
<1>3. PICK t \in Days : t = day + 1 /\ t > day
  BY <1>0, <1>2
<1>4. \A d \in Days : waited'[d] = IF d = day THEN Cardinality(BeforeCheck) ELSE waited[d]
  BY <1>0, <1>1
<1>5. after[t] = 0 /\ \A d \in Days : d > t => after[d] = 0
  <2>1. \A d \in Days : d > t => d > day
    BY <1>0, <1>3
  <2> QED BY <1>3, <2>1 DEF StragglerInv
<1>6. \A d \in Days : d >= t => waited'[d] = 0
  <2>1. \A d \in Days : d >= t => d >= day /\ d # day
    BY <1>0, <1>3
  <2> QED BY <1>4, <2>1 DEF StragglerInv
<1>7. NoneLeft'
  BY <1>1, <1>3, <1>5 DEF NoneLeft
<1>8. ASSUME NEW d \in Days, d < t
      PROVE  after[d] + Cardinality(Dated(slip, d)) <= 1 + waited'[d]
  <2>1. CASE d # day
    <3>1. d < day
      BY <1>0, <1>3, <1>8, <2>1
    <3> QED BY <1>4, <2>1, <3>1 DEF StragglerInv
  <2>2. CASE d = day
    <3>1. BeforeCheck \subseteq Clerks /\ IsFiniteSet(Clerks)
      BY PettyCashAssumption DEF BeforeCheck
    <3>2. PICK w \in Nat : w = Cardinality(BeforeCheck) /\ IsFiniteSet(BeforeCheck)
      BY <3>1, FS_Subset, FS_CardinalityType
    <3>3. after[day] \in Nat /\ after[day] <= 1
      BY <1>0 DEF StragglerInv
    <3>4. \A k \in Clerks : slip[k].pc \in {"idle", "wait", "locked", "checked"}
      <4>1. \A k \in Clerks : slip[k] \in SlipStates
        BY <1>0
      <4> QED BY <4>1 DEF SlipStates
    <3>5. CASE after[day] > 0
      <4>1. \A k \in Clerks : slip[k].pc = "checked" => slip[k].date # day
        BY <3>5 DEF StragglerInv, NoneLeft
      <4>2. Dated(slip, day) = BeforeCheck
        BY <3>4, <4>1 DEF Dated, BeforeCheck
      <4> QED BY <1>4, <2>2, <3>2, <3>3, <4>2
    <3>6. CASE ~(after[day] > 0)
      <4>1. Dated(slip, day) \subseteq BeforeCheck \cup {lock}
        <5>1. \A k \in Clerks : slip[k].pc = "checked" => lock = k
          BY DEF IndInv, SlipsInTurn
        <5> QED BY <3>4, <5>1 DEF Dated, BeforeCheck
      <4>2. /\ IsFiniteSet(BeforeCheck \cup {lock})
            /\ Cardinality(BeforeCheck \cup {lock}) = w \/ Cardinality(BeforeCheck \cup {lock}) = w + 1
        BY <3>2, FS_AddElement
      <4>3. Cardinality(Dated(slip, day)) <= Cardinality(BeforeCheck \cup {lock})
        BY <4>1, <4>2, FS_Subset
      <4>4. PICK n \in Nat : n = Cardinality(Dated(slip, day))
        BY DatedFinite
      <4>5. n <= w + 1
        BY <3>2, <4>2, <4>3, <4>4
      <4>6. after[day] = 0
        BY <3>3, <3>6
      <4> QED BY <1>4, <2>2, <3>2, <4>4, <4>5, <4>6
    <3> QED BY <3>5, <3>6
  <2> QED BY <2>1, <2>2
<1>9. after[t] <= 1
  BY <1>5
<1> QED BY <1>1, <1>3, <1>5, <1>6, <1>7, <1>8, <1>9 DEF StragglerInv

LEMMA NextStraggler == IndInv /\ StragglerInv /\ [Next]_vars => StragglerInv'
<1> SUFFICES ASSUME IndInv, StragglerInv, [Next]_vars PROVE StragglerInv'
  OBVIOUS
<1>0. /\ day \in Days /\ slip \in [Clerks -> SlipStates] /\ counted \in [Days -> Nat \cup {NONE}]
      /\ NONE \notin Nat
  <2>1. NONE \notin Nat
    <3>1. NONE \notin Int
      BY PettyCashAssumption
    <3> QED BY <3>1
  <2> QED BY <2>1 DEF IndInv, Types
<1>1. ASSUME UNCHANGED <<day, slip, after, waited>>,
             \A d \in Days : counted[d] # NONE => counted'[d] # NONE
      PROVE  StragglerInv'
  <2>1. NoneLeft'
    BY <1>0, <1>1 DEF StragglerInv, NoneLeft
  <2> QED BY <1>1, <2>1 DEF StragglerInv
<1>2. ASSUME NEW k \in Clerks, NEW x, Begin(k, x) PROVE StragglerInv'
  <2> DEFINE v == [pc |-> "wait", date |-> day, x |-> x]
  <2>1. slip' = [slip EXCEPT ![k] = v] /\ v.pc = "wait" /\ v.date = day
    BY <1>2 DEF Begin
  <2> HIDE DEF v
  <2> QED BY <1>2, <2>1, StragglerMove DEF Begin, bookVars, ghostVars
<1>3. ASSUME NEW k \in Clerks, Lock(k) PROVE StragglerInv'
  <2>1. PICK v : v = [slip[k] EXCEPT !.pc = "locked"]
    OBVIOUS
  <2>2. v.pc = "locked" /\ v.date = slip[k].date
    BY <1>0, <2>1 DEF SlipStates
  <2>3. slip' = [slip EXCEPT ![k] = v] /\ slip[k].pc = "wait"
    BY <1>3, <2>1 DEF Lock
  <2> QED BY <1>3, <2>2, <2>3, StragglerMove DEF Lock, bookVars, ghostVars
<1>4. ASSUME NEW k \in Clerks, slip' = [slip EXCEPT ![k] = NoSlip],
             UNCHANGED <<day, counted, after, waited>>
      PROVE  StragglerInv'
  <2>1. NoSlip.pc = "idle"
    BY DEF NoSlip
  <2> QED BY <1>4, <2>1, StragglerMove
<1>5. ASSUME NEW k \in Clerks, Check(k) PROVE StragglerInv'
  <2>1. CASE counted[day] # NONE \/ (slip[k].x < 0 /\ Expected(day) < - slip[k].x)
    BY <1>4, <1>5, <2>1 DEF Check, bookVars, ghostVars
  <2>2. CASE ~(counted[day] # NONE \/ (slip[k].x < 0 /\ Expected(day) < - slip[k].x))
    <3>1. PICK v : v = [slip[k] EXCEPT !.pc = "checked"]
      OBVIOUS
    <3>2. v.pc = "checked" /\ v.date = slip[k].date
      BY <1>0, <3>1 DEF SlipStates
    <3>3. slip' = [slip EXCEPT ![k] = v] /\ slip[k].pc = "locked" /\ counted[day] = NONE
      BY <1>5, <2>2, <3>1 DEF Check
    <3> QED BY <1>5, <3>2, <3>3, StragglerMove DEF Check, bookVars, ghostVars
  <2> QED BY <2>1, <2>2
<1>6. ASSUME NEW k \in Clerks, SlipFails(k) PROVE StragglerInv'
  BY <1>4, <1>6 DEF SlipFails, bookVars, ghostVars
<1>7. ASSUME NEW c \in Closers, CloseInsert(c) PROVE StragglerInv'
  <2>1. close[c].count \in Nat
    <3>1. close[c] \in CloseStates
      BY DEF IndInv, Types
    <3> QED BY <3>1 DEF CloseStates
  <2>2. \A d \in Days : counted[d] # NONE => counted'[d] # NONE
    <3>1. CASE counted[close[c].day] # NONE
      BY <1>7, <3>1 DEF CloseInsert
    <3>2. CASE counted[close[c].day] = NONE
      BY <1>0, <1>7, <2>1, <3>2 DEF CloseInsert
    <3> QED BY <3>1, <3>2
  <2> QED BY <1>1, <1>7, <2>2 DEF CloseInsert
<1>8. CASE \/ \E c \in Closers : CloseRead(c)
           \/ \E b \in Bookings : \/ \E d \in Days, a \in Amounts : Book(b, d, a)
                                  \/ BookInsert(b) \/ Cancel(b) \/ CancelDelete(b)
           \/ UNCHANGED vars
  <2>1. UNCHANGED <<day, slip, after, waited, counted>>
    BY <1>8 DEF CloseRead, Book, BookInsert, Cancel, CancelDelete, vars, bookVars, requestVars, ghostVars
  <2> QED BY <1>1, <2>1
<1>9. ASSUME NEW k \in Clerks, Record(k) PROVE StragglerInv'
  BY <1>9, StragglerRecord
<1>10. CASE Midnight
  BY <1>10, StragglerMidnight
<1> QED BY <1>2, <1>3, <1>5, <1>6, <1>7, <1>8, <1>9, <1>10 DEF Next

(* However many slips are in flight and however often the day is closed, at  *)
(* most one follows a day's close before midnight -- the advisory lock lets  *)
(* one past the check at a time, and the check looks for the close -- and    *)
(* after midnight no more than stood before the check as it struck.          *)
THEOREM StragglersAreBounded == Spec => []StragglersBounded
<1>1. IndInv /\ StragglerInv => StragglersBounded
  <2> SUFFICES ASSUME IndInv, StragglerInv, NEW d \in Days PROVE after[d] <= 1 + waited[d]
    BY DEF StragglersBounded
  <2>1. day \in Nat /\ d \in Nat /\ after[d] \in Nat /\ waited[d] \in Nat
    BY StragglerFacts
  <2>2. CASE d > day
    BY <2>1, <2>2 DEF StragglerInv
  <2>3. CASE d = day
    BY <2>1, <2>3 DEF StragglerInv
  <2>4. CASE d < day
    <3>1. Cardinality(Dated(slip, d)) \in Nat
      BY DatedFinite
    <3>2. after[d] + Cardinality(Dated(slip, d)) <= 1 + waited[d]
      BY <2>4 DEF StragglerInv
    <3> QED BY <2>1, <3>1, <3>2
  <2> QED BY <2>1, <2>2, <2>3, <2>4
<1>2. StragglerInv /\ IndInv /\ [Next]_vars => StragglerInv'
  BY NextStraggler
<1> QED BY <1>1, <1>2, InitStraggler, PettyCashInvariance, PTL DEF Spec

-----------------------------------------------------------------------------
(* The calendar. *)

(* The Monday of a day is the only multiple of the week's length less than a *)
(* week before it.                                                           *)
LEMMA MondayIs ==
  ASSUME NEW d \in Nat
  PROVE  /\ \E q \in Nat : MondayOf(d) = q * WeekLen
         /\ MondayOf(d) \in Nat /\ MondayOf(d) <= d /\ d < MondayOf(d) + WeekLen
         /\ \A q \in Nat : q * WeekLen <= d /\ d < q * WeekLen + WeekLen => MondayOf(d) = q * WeekLen
<1>1. WeekLen \in Nat /\ WeekLen > 0
  BY PettyCashAssumption
<1>2. PICK w \in Nat : w = WeekLen /\ w > 0
  BY <1>1
<1>3. d \div w \in Nat /\ d % w \in 0 .. w - 1 /\ d = w * (d \div w) + (d % w)
  BY <1>2
<1>4. PICK q \in Nat, r \in 0 .. w - 1 : q = d \div w /\ r = d % w
  BY <1>3
<1>5. d = w * q + r
  BY <1>3, <1>4
<1>6. d = q * WeekLen + r /\ MondayOf(d) = d - r /\ r < WeekLen
  BY <1>2, <1>4, <1>5 DEF MondayOf
<1>7. q * WeekLen \in Nat
  BY <1>1
<1>8. MondayOf(d) = q * WeekLen
  BY <1>6, <1>7
<1>9. ASSUME NEW p \in Nat, p * WeekLen <= d, d < p * WeekLen + WeekLen PROVE p = q
  <2>1. p * WeekLen \in Nat
    BY <1>1
  <2>2. CASE p < q
    <3>1. (p + 1) * WeekLen <= q * WeekLen
      BY <1>1, <2>2
    <3>2. (p + 1) * WeekLen = p * WeekLen + WeekLen
      BY <1>1
    <3> QED BY <1>1, <1>6, <1>7, <1>9, <2>1, <3>1, <3>2
  <2>3. CASE q < p
    <3>1. (q + 1) * WeekLen <= p * WeekLen
      BY <1>1, <2>3
    <3>2. (q + 1) * WeekLen = q * WeekLen + WeekLen
      BY <1>1
    <3> QED BY <1>1, <1>6, <1>7, <1>9, <2>1, <3>1, <3>2
  <2> QED BY <2>2, <2>3
<1>10. MondayOf(d) \in Nat /\ MondayOf(d) <= d /\ d < MondayOf(d) + WeekLen
  BY <1>1, <1>6, <1>7, <1>8
<1> QED BY <1>8, <1>9, <1>10

(* An earlier day is of the same week when it is not before its Monday. *)
LEMMA WeekOf ==
  ASSUME NEW d \in Nat, NEW e \in Nat, e <= d
  PROVE  SameWeek(e, d) <=> MondayOf(d) <= e
<1>1. PICK q \in Nat : MondayOf(d) = q * WeekLen
  BY MondayIs
<1>2. /\ MondayOf(d) \in Nat /\ d < MondayOf(d) + WeekLen /\ MondayOf(e) <= e
      /\ WeekLen \in Nat
  BY MondayIs, PettyCashAssumption
<1>3. ASSUME MondayOf(d) <= e PROVE MondayOf(e) = MondayOf(d)
  <2>1. q * WeekLen <= e /\ e < q * WeekLen + WeekLen
    BY <1>1, <1>2, <1>3
  <2> QED BY <1>1, <2>1, MondayIs
<1>4. ASSUME MondayOf(e) = MondayOf(d) PROVE MondayOf(d) <= e
  BY <1>2, <1>4
<1> QED BY <1>3, <1>4 DEF SameWeek

(* The next day is a Monday or of the same week. *)
LEMMA NextMonday ==
  ASSUME NEW d \in Nat
  PROVE  MondayOf(d + 1) = d + 1 \/ MondayOf(d + 1) = MondayOf(d)
<1>1. d + 1 \in Nat /\ d <= d + 1
  OBVIOUS
<1>2. MondayOf(d + 1) \in Nat /\ MondayOf(d + 1) <= d + 1
  BY <1>1, MondayIs
<1>3. CASE MondayOf(d + 1) <= d
  BY <1>1, <1>3, WeekOf DEF SameWeek
<1>4. CASE ~(MondayOf(d + 1) <= d)
  BY <1>2, <1>4
<1> QED BY <1>3, <1>4

-----------------------------------------------------------------------------
(* Net, over any books: what it adds up is a running sum. *)

NetOf(i, o, from, to) ==
  LET f[d \in -1 .. LastDay] ==
        IF d = -1 THEN 0 ELSE f[d - 1] + IF from <= d /\ d <= to THEN i[d] - o[d] ELSE 0
  IN f[LastDay]
DayOf(i, o, from, to) == [d \in Days |-> IF from <= d /\ d <= to THEN i[d] - o[d] ELSE 0]

LEMMA NetRuns ==
  ASSUME NEW i, NEW o, NEW from, NEW to
  PROVE  \E f : IsRun(f, DayOf(i, o, from, to), -1, LastDay) /\ NetOf(i, o, from, to) = f[LastDay]
<1> DEFINE g == DayOf(i, o, from, to)
           h == [d \in -1 .. LastDay |-> 0]
           F == CHOOSE f : f = [d \in -1 .. LastDay |->
                  IF d = -1 THEN 0
                  ELSE f[d - 1] + IF from <= d /\ d <= to THEN i[d] - o[d] ELSE 0]
<1>1. LastDay \in Int /\ -1 <= LastDay /\ -1 \in Int
  BY PettyCashAssumption
<1>2. PICK f : IsRun(f, g, -1, LastDay)
  <2> HIDE DEF g
  <2> QED BY <1>1, RunExists
<1>3. ASSUME NEW x, NEW d \in -1 .. LastDay
      PROVE  (IF d = -1 THEN 0 ELSE x[d - 1] + g[d])
             = IF d = -1 THEN 0
               ELSE x[d - 1] + IF from <= d /\ d <= to THEN i[d] - o[d] ELSE 0
  <2>1. CASE d = -1
    BY <2>1
  <2>2. CASE d # -1
    <3>1. d \in Days
      BY <1>1, <2>2 DEF Days
    <3> QED BY <2>2, <3>1 DEF DayOf
  <2> QED BY <2>1, <2>2
<1>4. ASSUME NEW x
      PROVE  IsRun(x, g, -1, LastDay)
             <=> x = [d \in -1 .. LastDay |->
                       IF d = -1 THEN 0
                       ELSE x[d - 1] + IF from <= d /\ d <= to THEN i[d] - o[d] ELSE 0]
  <2>1. [d \in -1 .. LastDay |-> IF d = -1 THEN 0 ELSE x[d - 1] + g[d]]
        = [d \in -1 .. LastDay |->
             IF d = -1 THEN 0
             ELSE x[d - 1] + IF from <= d /\ d <= to THEN i[d] - o[d] ELSE 0]
    <3> HIDE DEF g
    <3> QED BY <1>3
  <2> QED BY <2>1 DEF IsRun
<1>5. F = [d \in -1 .. LastDay |->
            IF d = -1 THEN 0
            ELSE F[d - 1] + IF from <= d /\ d <= to THEN i[d] - o[d] ELSE 0]
  <2> HIDE DEF g
  <2> QED BY <1>2, <1>4
<1>6. IsRun(F, g, -1, LastDay)
  <2> HIDE DEF F, g
  <2> QED BY <1>4, <1>5
<1>7. NetOf(i, o, from, to) = F[LastDay]
  BY DEF NetOf
<1> QED BY <1>6, <1>7

LEMMA DayInt ==
  ASSUME NEW i \in [Days -> Int], NEW o \in [Days -> Int], NEW from, NEW to, NEW d \in Days
  PROVE  DayOf(i, o, from, to)[d] \in Int
<1>1. i[d] \in Int /\ o[d] \in Int
  OBVIOUS
<1>2. i[d] - o[d] \in Int
  BY <1>1
<1> QED BY <1>2 DEF DayOf

LEMMA NetInt ==
  ASSUME NEW i \in [Days -> Int], NEW o \in [Days -> Int], NEW from, NEW to
  PROVE  NetOf(i, o, from, to) \in Int
<1> DEFINE g == DayOf(i, o, from, to)
<1>1. LastDay \in Nat /\ LastDay \in Int /\ -1 <= LastDay /\ -1 \in Int /\ LastDay \in -1 .. LastDay
  BY PettyCashAssumption
<1>2. PICK f : IsRun(f, g, -1, LastDay) /\ NetOf(i, o, from, to) = f[LastDay]
  BY NetRuns
<1>3. \A d \in -1 + 1 .. LastDay : g[d] \in Int
  BY DayInt DEF Days
<1> HIDE DEF g
<1>4. f[LastDay] \in Int
  BY <1>1, <1>2, <1>3, RunInt
<1> QED BY <1>2, <1>4

(* x more on one day: x more over the days that take it in, on either way of  *)
(* bounding them.                                                             *)
LEMMA NetChange ==
  ASSUME NEW i \in [Days -> Int], NEW o \in [Days -> Int],
         NEW j \in [Days -> Int], NEW p \in [Days -> Int],
         NEW from \in Int, NEW to \in Int, NEW from2 \in Int, NEW to2 \in Int,
         NEW e \in Days, NEW x \in Int,
         OneMore(DayOf(i, o, from, to), DayOf(j, p, from2, to2), e, x, 0, LastDay)
  PROVE  NetOf(j, p, from2, to2) = NetOf(i, o, from, to) + x
<1> DEFINE g == DayOf(i, o, from, to)
           k == DayOf(j, p, from2, to2)
<1>0. PICK lo \in Int : lo = -1
  OBVIOUS
<1>1. LastDay \in Nat /\ LastDay \in Int /\ lo <= LastDay /\ LastDay \in lo .. LastDay
      /\ e \in lo + 1 .. LastDay
  BY <1>0, PettyCashAssumption DEF Days
<1>2. PICK f : IsRun(f, g, lo, LastDay) /\ NetOf(i, o, from, to) = f[LastDay]
  BY <1>0, NetRuns
<1>3. PICK h : IsRun(h, k, lo, LastDay) /\ NetOf(j, p, from2, to2) = h[LastDay]
  BY <1>0, NetRuns
<1>4. OneMore(g, k, e, x, lo + 1, LastDay)
  BY <1>0
<1> HIDE DEF g, k
<1> QED BY <1>1, <1>2, <1>3, <1>4, RunChange

(* No days, no net. *)
LEMMA NetNone ==
  ASSUME NEW i, NEW o, NEW from \in Int, NEW to \in Int, to < from
  PROVE  NetOf(i, o, from, to) = 0
<1> DEFINE g == DayOf(i, o, from, to)
<1>1. LastDay \in Nat /\ LastDay \in Int /\ -1 <= LastDay /\ -1 \in Int /\ LastDay \in -1 .. LastDay
  BY PettyCashAssumption
<1>2. PICK f : IsRun(f, g, -1, LastDay) /\ NetOf(i, o, from, to) = f[LastDay]
  BY NetRuns
<1>3. \A d \in -1 + 1 .. LastDay : g[d] = 0
  <2> SUFFICES ASSUME NEW d \in -1 + 1 .. LastDay PROVE g[d] = 0
    OBVIOUS
  <2>1. d \in Days /\ ~(from <= d /\ d <= to)
    BY <1>1 DEF Days
  <2> QED BY <2>1 DEF DayOf
<1> HIDE DEF g
<1>4. \A d \in -1 .. LastDay : f[d] = 0
  BY <1>1, <1>2, <1>3, RunStill
<1> QED BY <1>1, <1>2, <1>4

(* x more on the day e. *)
OneEntry(i, o, j, p, e, x) == \A d \in Days : j[d] - p[d] = i[d] - o[d] + At(e, x, d)

LEMMA NetEntry ==
  ASSUME NEW i \in [Days -> Int], NEW o \in [Days -> Int],
         NEW j \in [Days -> Int], NEW p \in [Days -> Int],
         NEW e \in Days, NEW x \in Int,
         OneEntry(i, o, j, p, e, x),
         NEW from \in Int, NEW to \in Int
  PROVE  NetOf(j, p, from, to) = NetOf(i, o, from, to) + IF from <= e /\ e <= to THEN x ELSE 0
<1>1. PICK y \in Int : y = IF from <= e /\ e <= to THEN x ELSE 0
  OBVIOUS
<1>2. ASSUME NEW d \in Days
      PROVE  DayOf(j, p, from, to)[d] = DayOf(i, o, from, to)[d] + At(e, y, d)
  <2>1. i[d] \in Int /\ o[d] \in Int
    OBVIOUS
  <2>2. i[d] - o[d] \in Int
    BY <2>1
  <2>3. j[d] - p[d] = i[d] - o[d] + IF d = e THEN x ELSE 0
    BY DEF OneEntry, At
  <2>4. CASE d = e
    BY <1>1, <2>2, <2>3, <2>4 DEF DayOf, At
  <2>5. CASE d # e
    BY <1>1, <2>2, <2>3, <2>5 DEF DayOf, At
  <2> QED BY <2>4, <2>5
<1>3. OneMore(DayOf(i, o, from, to), DayOf(j, p, from, to), e, y, 0, LastDay)
  BY <1>2, DayInt DEF OneMore, Days
<1>4. NetOf(j, p, from, to) = NetOf(i, o, from, to) + y
  BY <1>1, <1>3, NetChange
<1> QED BY <1>1, <1>4

(* One day more. *)
LEMMA NetNext ==
  ASSUME NEW i \in [Days -> Int], NEW o \in [Days -> Int],
         NEW from \in Int, NEW to \in Int, from <= to + 1, to + 1 \in Days
  PROVE  NetOf(i, o, from, to + 1) = NetOf(i, o, from, to) + i[to + 1] - o[to + 1]
<1>1. PICK e \in Days : e = to + 1
  OBVIOUS
<1>2. i[e] \in Int /\ o[e] \in Int /\ e \in Int
  BY PettyCashAssumption DEF Days
<1>3. PICK x \in Int : x = i[e] - o[e]
  BY <1>2
<1>4. ASSUME NEW d \in Days
      PROVE  DayOf(i, o, from, e)[d] = DayOf(i, o, from, to)[d] + At(e, x, d)
  <2>1. d \in Int
    BY PettyCashAssumption DEF Days
  <2>2. i[d] \in Int /\ o[d] \in Int
    OBVIOUS
  <2>3. i[d] - o[d] \in Int
    BY <2>2
  <2>4. CASE d = e
    <3>1. from <= d /\ d <= e /\ ~(d <= to)
      BY <1>1, <2>1, <2>4
    <3> QED BY <1>3, <2>4, <3>1 DEF DayOf, At
  <2>5. CASE d # e
    <3>1. d <= e <=> d <= to
      BY <1>1, <2>1, <2>5
    <3> QED BY <2>3, <2>5, <3>1 DEF DayOf, At
  <2> QED BY <2>4, <2>5
<1>5. OneMore(DayOf(i, o, from, to), DayOf(i, o, from, e), e, x, 0, LastDay)
  BY <1>4, DayInt DEF OneMore, Days
<1>6. NetOf(i, o, from, e) = NetOf(i, o, from, to) + x
  BY <1>2, <1>5, NetChange
<1>7. NetOf(i, o, from, to) \in Int
  BY NetInt
<1> QED BY <1>1, <1>2, <1>3, <1>6, <1>7

-----------------------------------------------------------------------------
(* pettyCashDay, over any books: what a day carries on from. *)

ClosesOf(ct, d) == {e \in Days : MondayOf(d) <= e /\ e < d /\ ct[e] # NONE}
LastOf(ct, d) == CHOOSE e \in ClosesOf(ct, d) : \A f \in ClosesOf(ct, d) : f <= e
FromOf(ct, d) == IF ClosesOf(ct, d) = {} THEN MondayOf(d) ELSE LastOf(ct, d) + 1
BaseOf(ct, d) == IF ClosesOf(ct, d) = {} THEN 0 ELSE ct[LastOf(ct, d)]
ExpectedOf(i, o, ct, d) == BaseOf(ct, d) + NetOf(i, o, FromOf(ct, d), d)
BooksOf(i, o, ct, d) == IF ct[d] # NONE THEN ct[d] ELSE ExpectedOf(i, o, ct, d)

LEMMA TheseBooks ==
  /\ Books = BooksOf(ins, outs, counted, day) /\ Books' = BooksOf(ins', outs', counted', day')
  /\ Expected(day) = ExpectedOf(ins, outs, counted, day)
  /\ Expected(day)' = ExpectedOf(ins', outs', counted', day')
  /\ EntriesFrom(day) = FromOf(counted, day) /\ EntriesFrom(day)' = FromOf(counted', day')
BY DEF Books, Expected, Base, EntriesFrom, LastClose, ClosesBefore, Net,
       BooksOf, ExpectedOf, BaseOf, FromOf, LastOf, ClosesOf, NetOf

(* From the last count of m .. t - 1 on, or from m on when there is none. *)
Opens(ct, m, t, from, base) ==
  \/ from = m /\ base = 0 /\ \A e \in Days : m <= e /\ e < t => ct[e] = NONE
  \/ \E l \in Days : /\ m <= l /\ l < t /\ ct[l] # NONE /\ from = l + 1 /\ base = ct[l]
                     /\ \A e \in Days : l < e /\ e < t => ct[e] = NONE

LEMMA OpensExists ==
  ASSUME NEW ct \in [Days -> Nat \cup {NONE}], NEW m \in Nat, NEW t \in Nat, m <= t
  PROVE  \E from \in Nat, base \in Nat : m <= from /\ from <= t /\ Opens(ct, m, t, from, base)
<1> DEFINE S == {u \in m .. t : \E from \in Nat, base \in Nat :
                   m <= from /\ from <= u /\ Opens(ct, m, u, from, base)}
<1>0. Days \subseteq Nat
  BY PettyCashAssumption DEF Days
<1>1. m \in S
  <2>1. Opens(ct, m, m, m, 0)
    BY <1>0 DEF Opens
  <2> QED BY <2>1
<1>2. ASSUME NEW u \in m .. t, u < t, u \in S PROVE u + 1 \in S
  <2>1. PICK from \in Nat, base \in Nat : m <= from /\ from <= u /\ Opens(ct, m, u, from, base)
    BY <1>2
  <2>2. u + 1 \in m .. t /\ u \in Nat
    BY <1>2
  <2>3. ASSUME NEW e \in Days PROVE e < u + 1 <=> e < u \/ e = u
    BY <1>0, <2>2
  <2>4. CASE u \notin Days \/ ct[u] = NONE
    <3>1. \A e \in Days : e < u + 1 /\ ~(e < u) => ct[e] = NONE
      BY <2>3, <2>4
    <3>2. Opens(ct, m, u + 1, from, base)
      BY <2>1, <2>2, <2>3, <3>1, <1>0 DEF Opens
    <3>3. from <= u + 1
      BY <2>1, <2>2
    <3> QED BY <2>1, <2>2, <3>2, <3>3
  <2>5. CASE u \in Days /\ ct[u] # NONE
    <3>1. ct[u] \in Nat /\ u + 1 \in Nat /\ m <= u /\ u < u + 1 /\ m <= u + 1 /\ u + 1 <= u + 1
      BY <2>2, <2>5
    <3>2. \A e \in Days : ~(u < e /\ e < u + 1)
      BY <1>0, <2>2
    <3>3. Opens(ct, m, u + 1, u + 1, ct[u])
      BY <2>5, <3>1, <3>2 DEF Opens
    <3> QED BY <2>2, <3>1, <3>3
  <2> QED BY <2>4, <2>5
<1>3. m .. t \subseteq S
  <2> HIDE DEF S
  <2> QED BY <1>1, <1>2, Climb
<1>4. t \in S
  BY <1>3
<1> QED BY <1>4

LEMMA ExpectedIs ==
  ASSUME NEW ct \in [Days -> Nat \cup {NONE}], NEW d \in Days, NEW from, NEW base,
         Opens(ct, MondayOf(d), d, from, base), NEW i, NEW o
  PROVE  FromOf(ct, d) = from /\ ExpectedOf(i, o, ct, d) = base + NetOf(i, o, from, d)
<1>0. Days \subseteq Nat
  BY PettyCashAssumption DEF Days
<1>1. CASE from = MondayOf(d) /\ base = 0 /\ \A e \in Days : MondayOf(d) <= e /\ e < d => ct[e] = NONE
  <2>1. ClosesOf(ct, d) = {}
    BY <1>1 DEF ClosesOf
  <2>2. FromOf(ct, d) = from /\ BaseOf(ct, d) = base
    BY <1>1, <2>1 DEF FromOf, BaseOf
  <2> QED BY <2>2 DEF ExpectedOf
<1>2. ASSUME NEW l \in Days, MondayOf(d) <= l, l < d, ct[l] # NONE, from = l + 1, base = ct[l],
             \A e \in Days : l < e /\ e < d => ct[e] = NONE
      PROVE  FromOf(ct, d) = from /\ ExpectedOf(i, o, ct, d) = base + NetOf(i, o, from, d)
  <2>1. l \in ClosesOf(ct, d) /\ \A f \in ClosesOf(ct, d) : f <= l
    <3>1. l \in ClosesOf(ct, d)
      BY <1>2 DEF ClosesOf
    <3>2. ASSUME NEW f \in ClosesOf(ct, d) PROVE f <= l
      <4>1. f \in Days /\ f \in Nat /\ l \in Nat /\ f < d /\ ct[f] # NONE
        BY <1>0 DEF ClosesOf
      <4>2. ~(l < f)
        BY <1>2, <4>1
      <4> QED BY <4>1, <4>2
    <3> QED BY <3>1, <3>2
  <2>2. LastOf(ct, d) \in ClosesOf(ct, d) /\ \A f \in ClosesOf(ct, d) : f <= LastOf(ct, d)
    BY <2>1 DEF LastOf
  <2>3. LastOf(ct, d) = l
    <3>1. LastOf(ct, d) \in Nat /\ l \in Nat /\ LastOf(ct, d) <= l /\ l <= LastOf(ct, d)
      BY <1>0, <2>1, <2>2 DEF ClosesOf
    <3> QED BY <3>1
  <2>4. FromOf(ct, d) = from /\ BaseOf(ct, d) = base
    BY <1>2, <2>1, <2>3 DEF FromOf, BaseOf
  <2> QED BY <2>4 DEF ExpectedOf
<1> QED BY <1>1, <1>2 DEF Opens

LEMMA BooksIs ==
  ASSUME NEW ct \in [Days -> Nat \cup {NONE}], NEW d \in Days, NEW from, NEW base,
         Opens(ct, MondayOf(d), d + 1, from, base), NEW i, NEW o
  PROVE  BooksOf(i, o, ct, d) = base + NetOf(i, o, from, d)
<1>0. Days \subseteq Nat /\ d \in Nat /\ MondayOf(d) \in Nat /\ MondayOf(d) <= d
  BY PettyCashAssumption, MondayIs DEF Days
<1>1. \A e \in Days : e < d => e < d + 1
  BY <1>0
<1>2. CASE ct[d] = NONE
  <2>1. Opens(ct, MondayOf(d), d, from, base)
    <3>1. CASE from = MondayOf(d) /\ base = 0 /\ \A e \in Days : MondayOf(d) <= e /\ e < d + 1 => ct[e] = NONE
      BY <1>1, <3>1 DEF Opens
    <3>2. ASSUME NEW l \in Days, MondayOf(d) <= l, l < d + 1, ct[l] # NONE, from = l + 1, base = ct[l],
                 \A e \in Days : l < e /\ e < d + 1 => ct[e] = NONE
          PROVE  Opens(ct, MondayOf(d), d, from, base)
      <4>1. l < d
        BY <1>0, <1>2, <3>2
      <4>2. \A e \in Days : l < e /\ e < d => ct[e] = NONE
        BY <1>1, <3>2
      <4> QED BY <3>2, <4>1, <4>2 DEF Opens
    <3> QED BY <3>1, <3>2 DEF Opens
  <2>2. ExpectedOf(i, o, ct, d) = base + NetOf(i, o, from, d)
    BY <2>1, ExpectedIs
  <2> QED BY <1>2, <2>2 DEF BooksOf
<1>3. CASE ct[d] # NONE
  <2>1. d \in Days /\ MondayOf(d) <= d /\ d < d + 1
    BY <1>0
  <2>2. PICK l \in Days : /\ l < d + 1 /\ from = l + 1 /\ base = ct[l]
                          /\ \A e \in Days : l < e /\ e < d + 1 => ct[e] = NONE
    BY <1>3, <2>1 DEF Opens
  <2>3. l = d
    BY <1>0, <1>3, <2>1, <2>2
  <2>4. NetOf(i, o, from, d) = 0
    BY <1>0, <2>2, <2>3, NetNone
  <2>5. ct[d] \in Nat
    BY <1>3
  <2> QED BY <1>3, <2>2, <2>3, <2>4, <2>5 DEF BooksOf
<1> QED BY <1>2, <1>3

-----------------------------------------------------------------------------
(* Books and tin. *)

(* No day is closed ahead of time, and none holds money out.                *)
Ahead == \A d \in Days : d > day => counted[d] = NONE /\ outs[d] = 0

(* A close on its way that still falls in this week: the tin holds the      *)
(* count it carries, the entries after its day, and those of its day and    *)
(* before that came since.                                                  *)
CloseHolds ==
  \A c \in Closers : close[c].pc = "read" =>
    /\ close[c].day <= day
    /\ SameWeek(close[c].day, day) =>
         tin = close[c].count + Net(close[c].day + 1, day) + close[c].since

BooksInv == Ahead /\ CloseHolds /\ BooksMatchTin

LEMMA NetIs ==
  ASSUME NEW from, NEW to
  PROVE  Net(from, to) = NetOf(ins, outs, from, to) /\ Net(from, to)' = NetOf(ins', outs', from, to)
BY DEF Net, NetOf

LEMMA BooksFacts ==
  ASSUME Types
  PROVE  /\ Days \subseteq Nat /\ day \in Days /\ day \in Nat /\ tin \in Int /\ missed \in Int
         /\ ins \in [Days -> Int] /\ outs \in [Days -> Int]
         /\ counted \in [Days -> Nat \cup {NONE}]
         /\ MondayOf(day) \in Nat /\ MondayOf(day) <= day
         /\ \A c \in Closers : /\ close[c].day \in Nat /\ close[c].day \in Days
                               /\ close[c].count \in Int /\ close[c].since \in Int
<1>1. Days \subseteq Nat /\ day \in Days /\ tin \in Int /\ missed \in Int
      /\ counted \in [Days -> Nat \cup {NONE}]
  BY PettyCashAssumption DEF Types, Days
<1>2. ins \in [Days -> Int] /\ outs \in [Days -> Int]
  BY DEF Types
<1>3. MondayOf(day) \in Nat /\ MondayOf(day) <= day
  BY <1>1, MondayIs
<1>4. ASSUME NEW c \in Closers
      PROVE  /\ close[c].day \in Nat /\ close[c].day \in Days
             /\ close[c].count \in Int /\ close[c].since \in Int
  <2>1. close[c] \in CloseStates
    BY DEF Types
  <2>2. close[c].day \in Days /\ close[c].count \in Nat /\ close[c].since \in Int
    BY <2>1 DEF CloseStates
  <2>3. close[c].day \in Nat
    BY <1>1, <2>2
  <2>4. close[c].count \in Int
    BY <2>2
  <2> QED BY <2>2, <2>3, <2>4
<1> QED BY <1>1, <1>2, <1>3, <1>4

(* An entry dated at or after the day the books carry on from counts; one   *)
(* before it is missed.                                                     *)
LEMMA EntryCounts ==
  ASSUME Types, NEW from \in Nat, NEW base \in Nat,
         Opens(counted, MondayOf(day), day + 1, from, base), MondayOf(day) <= from,
         NEW e \in Days, e <= day
  PROVE  from <= e <=> SameWeek(e, day) /\ ~Counted(e)
<1>1. /\ Days \subseteq Nat /\ day \in Nat /\ e \in Nat /\ MondayOf(day) \in Nat
      /\ SameWeek(e, day) <=> MondayOf(day) <= e
  BY BooksFacts, WeekOf
<1>2. \A f \in Days : f < day + 1 <=> f <= day
  BY <1>1
<1>3. e .. day \subseteq Days
  <2>1. LastDay \in Nat /\ day <= LastDay
    BY PettyCashAssumption DEF Types, Days
  <2> QED BY <1>1, <2>1 DEF Days
<1>4. CASE from = MondayOf(day) /\ \A f \in Days : MondayOf(day) <= f /\ f < day + 1 => counted[f] = NONE
  <2>1. ASSUME from <= e PROVE ~Counted(e)
    <3>1. \A f \in e .. day : f \in Days /\ MondayOf(day) <= f /\ f < day + 1
      BY <1>1, <1>3, <1>4, <2>1
    <3> QED BY <1>4, <3>1 DEF Counted
  <2> QED BY <1>1, <1>4, <2>1
<1>5. ASSUME NEW l \in Days, MondayOf(day) <= l, l < day + 1, counted[l] # NONE, from = l + 1,
             \A f \in Days : l < f /\ f < day + 1 => counted[f] = NONE
      PROVE  from <= e <=> SameWeek(e, day) /\ ~Counted(e)
  <2>1. ASSUME from <= e PROVE MondayOf(day) <= e /\ ~Counted(e)
    <3>1. \A f \in e .. day : f \in Days /\ l < f /\ f < day + 1
      BY <1>1, <1>3, <1>5, <2>1
    <3> QED BY <1>1, <1>5, <2>1, <3>1 DEF Counted
  <2>2. ASSUME ~(from <= e) PROVE Counted(e)
    <3>1. l \in e .. day
      BY <1>1, <1>5, <2>2
    <3> QED BY <1>5, <3>1 DEF Counted
  <2> QED BY <1>1, <2>1, <2>2
<1> QED BY <1>4, <1>5 DEF Opens

LEMMA EntryBooks ==
  ASSUME Types, BooksInv, Types', NEW e \in Days, NEW x \in Int, Entered(e, x),
         UNCHANGED <<day, counted>>, \A d \in Days : d > day => outs'[d] = 0,
         OneEntry(ins, outs, ins', outs', e, x)
  PROVE  BooksInv'
<1>0. /\ Days \subseteq Nat /\ day \in Days /\ day \in Nat /\ tin \in Int /\ missed \in Int
      /\ ins \in [Days -> Int] /\ outs \in [Days -> Int] /\ e \in Nat
      /\ ins' \in [Days -> Int] /\ outs' \in [Days -> Int]
      /\ counted \in [Days -> Nat \cup {NONE}]
      /\ MondayOf(day) \in Nat /\ MondayOf(day) <= day /\ day + 1 \in Nat /\ MondayOf(day) <= day + 1
  <2>1. ins' \in [Days -> Int] /\ outs' \in [Days -> Int]
    BY DEF Types
  <2> QED BY <2>1, BooksFacts
<1>1. ASSUME NEW from \in Int, NEW to \in Int
      PROVE  /\ NetOf(ins, outs, from, to) \in Int
             /\ NetOf(ins', outs', from, to)
                = NetOf(ins, outs, from, to) + IF from <= e /\ e <= to THEN x ELSE 0
  <2>1. NetOf(ins, outs, from, to) \in Int
    BY <1>0, NetInt
  <2>2. NetOf(ins', outs', from, to)
        = NetOf(ins, outs, from, to) + IF from <= e /\ e <= to THEN x ELSE 0
    BY <1>0, NetEntry
  <2> QED BY <2>1, <2>2
<1>2. Ahead'
  BY DEF BooksInv, Ahead
<1>3. CloseHolds'
  <2> SUFFICES ASSUME NEW c \in Closers, close'[c].pc = "read"
               PROVE  /\ close'[c].day <= day
                      /\ SameWeek(close'[c].day, day) =>
                           tin' = close'[c].count + NetOf(ins', outs', close'[c].day + 1, day) + close'[c].since
    BY NetIs DEF CloseHolds, SameWeek
  <2>1. /\ close'[c].pc = close[c].pc /\ close'[c].day = close[c].day /\ close'[c].count = close[c].count
        /\ close'[c].since = IF e <= close[c].day THEN close[c].since + x ELSE close[c].since
    <3>1. close[c] \in CloseStates
      BY DEF Types
    <3>2. close'[c] = IF close[c].pc = "read" /\ e <= close[c].day
                        THEN [close[c] EXCEPT !.since = @ + x] ELSE close[c]
      BY DEF Entered
    <3>3. CASE close[c].pc = "read" /\ e <= close[c].day
      BY <3>1, <3>2, <3>3 DEF CloseStates
    <3>4. CASE ~(close[c].pc = "read" /\ e <= close[c].day)
      BY <3>2, <3>4
    <3> QED BY <3>3, <3>4
  <2>2. PICK D \in Nat, C \in Int, s \in Int : D = close[c].day /\ C = close[c].count /\ s = close[c].since
    BY BooksFacts
  <2>3. D <= day /\ (SameWeek(D, day) => tin = C + NetOf(ins, outs, D + 1, day) + s)
    BY <2>1, <2>2, NetIs DEF BooksInv, CloseHolds
  <2>4. tin' = IF e <= day THEN tin + x ELSE tin
    BY DEF Entered
  <2>5. /\ NetOf(ins, outs, D + 1, day) \in Int
        /\ NetOf(ins', outs', D + 1, day)
           = NetOf(ins, outs, D + 1, day) + IF D + 1 <= e /\ e <= day THEN x ELSE 0
    <3>1. D + 1 \in Int /\ day \in Int
      BY <1>0, <2>2
    <3> QED BY <1>1, <3>1
  <2>6. PICK n \in Int, m \in Int : n = NetOf(ins, outs, D + 1, day) /\ m = NetOf(ins', outs', D + 1, day)
    <3>1. (IF D + 1 <= e /\ e <= day THEN x ELSE 0) \in Int
      OBVIOUS
    <3> QED BY <2>5, <3>1
  <2>7. ASSUME SameWeek(D, day) PROVE tin' = C + m + IF e <= D THEN s + x ELSE s
    <3>1. tin = C + n + s /\ m = n + IF D + 1 <= e /\ e <= day THEN x ELSE 0
      BY <2>3, <2>5, <2>6, <2>7
    <3>2. CASE e <= D
      <4>1. e <= day /\ ~(D + 1 <= e)
        BY <1>0, <2>2, <2>3, <3>2
      <4> QED BY <1>0, <2>4, <3>1, <3>2, <4>1
    <3>3. CASE D < e /\ e <= day
      <4>1. D + 1 <= e /\ ~(e <= D)
        BY <1>0, <2>2, <3>3
      <4> QED BY <1>0, <2>4, <3>1, <3>3, <4>1
    <3>4. CASE day < e
      <4>1. ~(e <= day) /\ ~(e <= D)
        BY <1>0, <2>2, <2>3, <3>4
      <4> QED BY <1>0, <2>4, <3>1, <4>1
    <3> QED BY <1>0, <2>2, <3>2, <3>3, <3>4
  <2> QED BY <2>1, <2>2, <2>3, <2>6, <2>7
<1>4. BooksMatchTin'
  <2>1. PICK from \in Nat, base \in Nat :
          MondayOf(day) <= from /\ from <= day + 1 /\ Opens(counted, MondayOf(day), day + 1, from, base)
    BY <1>0, OpensExists
  <2>2. /\ Books = base + NetOf(ins, outs, from, day)
        /\ Books' = base + NetOf(ins', outs', from, day)
    BY <1>0, <2>1, BooksIs, TheseBooks
  <2>3. tin = Books + missed
    BY DEF BooksInv, BooksMatchTin
  <2>4. PICK n \in Int : n = NetOf(ins, outs, from, day)
    BY <1>0, <1>1
  <2>5. NetOf(ins', outs', from, day) = n + IF from <= e /\ e <= day THEN x ELSE 0
    <3>1. from \in Int /\ day \in Int
      BY <1>0
    <3> QED BY <1>1, <2>4, <3>1
  <2>6. CASE e <= day
    <3>1. from <= e <=> SameWeek(e, day) /\ ~Counted(e)
      BY <2>1, <2>6, EntryCounts
    <3>2. tin' = tin + x /\ missed' = IF from <= e THEN missed ELSE missed + x
      BY <2>6, <3>1 DEF Entered
    <3>3. tin' = Books' + missed'
      BY <1>0, <2>2, <2>3, <2>4, <2>5, <2>6, <3>2
    <3> QED BY <3>3 DEF BooksMatchTin
  <2>7. CASE ~(e <= day)
    <3>1. tin' = tin /\ missed' = missed
      BY <2>7 DEF Entered
    <3>2. tin' = Books' + missed'
      BY <1>0, <2>2, <2>3, <2>4, <2>5, <2>7, <3>1
    <3> QED BY <3>2 DEF BooksMatchTin
  <2> QED BY <2>6, <2>7
<1> QED BY <1>2, <1>3, <1>4 DEF BooksInv

(* The steps that write or take away an entry. *)
LEMMA RecordEnters ==
  ASSUME IndInv, NEW k \in Clerks, Record(k)
  PROVE  /\ slip[k].date \in Days /\ slip[k].x \in Int /\ slip[k].date <= day
         /\ OneEntry(ins, outs, ins', outs', slip[k].date, slip[k].x)
         /\ \A d \in Days : d # slip[k].date => outs'[d] = outs[d]
<1>1. slip[k].date \in Days /\ slip[k].x \in Int /\ slip[k].date <= day
  <2>1. slip[k] \in SlipStates
    BY DEF IndInv, Types
  <2> QED BY <2>1 DEF IndInv, SlipsInTurn, SlipStates
<1>2. PICK e \in Days, x \in Int : e = slip[k].date /\ x = slip[k].x
  BY <1>1
<1>3. ins \in [Days -> Int] /\ outs \in [Days -> Nat]
  BY DEF IndInv, Types
<1>4. CASE x > 0
  <2>1. ins' = [ins EXCEPT ![e] = @ + x] /\ outs' = outs
    BY <1>2, <1>4 DEF Record
  <2>2. ASSUME NEW d \in Days PROVE ins'[d] - outs'[d] = ins[d] - outs[d] + At(e, x, d)
    <3>1. ins[d] \in Int /\ outs[d] \in Int /\ ins'[d] = IF d = e THEN ins[d] + x ELSE ins[d]
      BY <1>3, <2>1
    <3> QED BY <2>1, <3>1 DEF At
  <2> QED BY <1>1, <1>2, <2>1, <2>2 DEF OneEntry
<1>5. CASE ~(x > 0)
  <2>1. outs' = [outs EXCEPT ![e] = @ + (-x)] /\ ins' = ins
    BY <1>2, <1>5 DEF Record, AmountOut
  <2>2. ASSUME NEW d \in Days PROVE ins'[d] - outs'[d] = ins[d] - outs[d] + At(e, x, d)
    <3>1. ins[d] \in Int /\ outs[d] \in Int /\ outs'[d] = IF d = e THEN outs[d] + (-x) ELSE outs[d]
      BY <1>3, <2>1
    <3> QED BY <2>1, <3>1 DEF At
  <2>3. \A d \in Days : d # e => outs'[d] = outs[d]
    BY <1>3, <2>1
  <2> QED BY <1>1, <1>2, <2>2, <2>3 DEF OneEntry
<1> QED BY <1>4, <1>5

LEMMA BookingFacts ==
  ASSUME Types, NEW b \in Bookings
  PROVE  booked[b] \in BookingStates /\ booked[b].day \in Days /\ booked[b].amount \in Nat
         /\ booked[b].read \in Days
<1>1. booked[b] \in BookingStates
  BY DEF Types
<1> QED BY <1>1 DEF BookingStates

LEMMA InsMove ==
  ASSUME Types, NEW e \in Days, NEW x \in Int, ins' = [ins EXCEPT ![e] = @ + x], UNCHANGED outs
  PROVE  OneEntry(ins, outs, ins', outs', e, x)
<1>1. ins \in [Days -> Int] /\ outs \in [Days -> Nat]
  BY DEF Types
<1>2. ASSUME NEW d \in Days PROVE ins'[d] - outs'[d] = ins[d] - outs[d] + At(e, x, d)
  <2>1. ins[d] \in Int /\ outs[d] \in Int /\ ins'[d] = IF d = e THEN ins[d] + x ELSE ins[d]
    BY <1>1
  <2> QED BY <2>1 DEF At
<1> QED BY <1>2 DEF OneEntry

LEMMA CancelEnters ==
  ASSUME Types, NEW b \in Bookings, CancelDelete(b), StillAhead(b)
  PROVE  OneEntry(ins, outs, ins', outs', booked[b].day, - booked[b].amount)
<1>1. PICK e \in Days, a \in Nat : e = booked[b].day /\ a = booked[b].amount
  BY BookingFacts
<1>2. ins' = [ins EXCEPT ![e] = @ - a] /\ UNCHANGED outs
  BY <1>1 DEF CancelDelete
<1>3. ins[e] \in Int /\ ins[e] - a = ins[e] + (-a) /\ -a \in Int
  BY DEF Types
<1>4. ins' = [ins EXCEPT ![e] = @ + (-a)]
  BY <1>2, <1>3
<1>5. OneEntry(ins, outs, ins', outs', e, -a)
  BY <1>2, <1>3, <1>4, InsMove
<1> QED BY <1>1, <1>5

(* A step that leaves the books, the tin and the closes as they are. *)
LEMMA BooksStill ==
  ASSUME BooksInv, UNCHANGED <<day, ins, outs, counted, tin, missed, close>>
  PROVE  BooksInv'
<1>1. Books' = Books /\ \A d, e \in Int : Net(d, e)' = Net(d, e)
  BY TheseBooks, NetIs
<1>2. Ahead' /\ BooksMatchTin'
  BY <1>1 DEF BooksInv, Ahead, BooksMatchTin
<1>3. ASSUME NEW c \in Closers PROVE Net(close[c].day + 1, day)' = Net(close[c].day + 1, day)
  BY NetIs
<1>4. CloseHolds'
  BY <1>3 DEF BooksInv, CloseHolds, SameWeek
<1> QED BY <1>2, <1>4 DEF BooksInv

(* A count is taken: it is what the tin holds. *)
LEMMA CloseReadBooks ==
  ASSUME IndInv, BooksInv, NEW c \in Closers, CloseRead(c)
  PROVE  BooksInv'
<1>0. Types
  BY DEF IndInv
<1>1. UNCHANGED <<day, ins, outs, counted, tin, missed>>
  BY DEF CloseRead, bookVars, ghostVars
<1>2. Ahead' /\ BooksMatchTin'
  BY <1>1, TheseBooks DEF BooksInv, Ahead, BooksMatchTin
<1>3. CloseHolds'
  <2> SUFFICES ASSUME NEW j \in Closers, close'[j].pc = "read"
               PROVE  /\ close'[j].day <= day
                      /\ SameWeek(close'[j].day, day) =>
                           tin = close'[j].count + NetOf(ins, outs, close'[j].day + 1, day) + close'[j].since
    BY <1>1, NetIs DEF CloseHolds, SameWeek
  <2>1. CASE j = c
    <3>1. close'[j] = [pc |-> "read", day |-> day, count |-> tin, since |-> 0]
      BY <1>0, <2>1 DEF CloseRead, Types
    <3>2. day \in Nat /\ tin \in Int /\ NetOf(ins, outs, day + 1, day) = 0
      BY <1>0, BooksFacts, NetNone
    <3> QED BY <3>1, <3>2
  <2>2. CASE j # c
    <3>1. close'[j] = close[j]
      BY <1>0, <2>2 DEF CloseRead, Types
    <3> QED BY <3>1, NetIs DEF BooksInv, CloseHolds
  <2> QED BY <2>1, <2>2
<1> QED BY <1>2, <1>3 DEF BooksInv

(* The close lands: this week's books carry on from its count when no later *)
(* day has one.                                                             *)
LEMMA CloseInsertBooks ==
  ASSUME IndInv, BooksInv, Types', NEW c \in Closers, CloseInsert(c)
  PROVE  BooksInv'
<1>0. /\ Types /\ Days \subseteq Nat /\ day \in Days /\ day \in Nat /\ tin \in Int /\ missed \in Int
      /\ ins \in [Days -> Int] /\ outs \in [Days -> Int]
      /\ counted \in [Days -> Nat \cup {NONE}] /\ counted' \in [Days -> Nat \cup {NONE}]
      /\ MondayOf(day) \in Nat /\ MondayOf(day) <= day /\ day + 1 \in Nat /\ MondayOf(day) <= day + 1
  <2>1. Types
    BY DEF IndInv
  <2>2. counted' \in [Days -> Nat \cup {NONE}]
    BY DEF Types
  <2> QED BY <2>1, <2>2, BooksFacts
<1>1. UNCHANGED <<day, ins, outs, tin>> /\ close[c].pc = "read" /\ close' = [close EXCEPT ![c] = NoClose]
  BY DEF CloseInsert
<1>2. PICK d \in Days, C \in Int, s \in Int : d = close[c].day /\ C = close[c].count /\ s = close[c].since
  BY <1>0, BooksFacts
<1>3. d <= day /\ d \in Nat /\ (SameWeek(d, day) => tin = C + NetOf(ins, outs, d + 1, day) + s)
  BY <1>0, <1>1, <1>2, NetIs DEF BooksInv, CloseHolds
<1>4. CloseHolds'
  <2> SUFFICES ASSUME NEW j \in Closers, close'[j].pc = "read"
               PROVE  /\ close'[j].day <= day
                      /\ SameWeek(close'[j].day, day) =>
                           tin = close'[j].count + NetOf(ins, outs, close'[j].day + 1, day) + close'[j].since
    BY <1>1, NetIs DEF CloseHolds, SameWeek
  <2>1. j # c
    BY <1>0, <1>1 DEF Types, NoClose
  <2>2. close'[j] = close[j]
    BY <1>0, <1>1, <2>1 DEF Types
  <2> QED BY <2>2, NetIs DEF BooksInv, CloseHolds
<1>5. CASE counted[d] # NONE
  <2>1. UNCHANGED <<counted, missed>>
    BY <1>2, <1>5 DEF CloseInsert
  <2>2. Ahead' /\ BooksMatchTin'
    BY <1>1, <2>1, TheseBooks DEF BooksInv, Ahead, BooksMatchTin
  <2> QED BY <1>4, <2>2 DEF BooksInv
<1>6. CASE counted[d] = NONE
  <2>1. /\ counted' = [counted EXCEPT ![d] = C]
        /\ missed' = IF SameWeek(d, day) /\ ~Counted(d) THEN s ELSE missed
    BY <1>2, <1>6 DEF CloseInsert
  <2>2. \A e \in Days : counted'[e] = IF e = d THEN C ELSE counted[e]
    BY <1>0, <2>1
  <2>3. Ahead'
    <3>1. \A e \in Days : e > day => e # d
      BY <1>0, <1>3
    <3> QED BY <1>1, <2>2, <3>1 DEF BooksInv, Ahead
  <2>4. PICK from \in Nat, base \in Nat :
          MondayOf(day) <= from /\ from <= day + 1 /\ Opens(counted, MondayOf(day), day + 1, from, base)
    BY <1>0, OpensExists
  <2>5. Books = base + NetOf(ins, outs, from, day)
    BY <1>0, <2>4, BooksIs, TheseBooks
  <2>6. from <= d <=> SameWeek(d, day) /\ ~Counted(d)
    BY <1>0, <1>3, <2>4, EntryCounts
  <2>7. \A e \in Days : e \in Nat /\ (e < day + 1 <=> e <= day)
    BY <1>0
  <2>8. CASE SameWeek(d, day) /\ ~Counted(d)
    <3>1. MondayOf(day) <= d
      BY <1>0, <1>3, <2>8, WeekOf
    <3>2. ASSUME NEW e \in Days, d < e, e < day + 1 PROVE counted'[e] = NONE
      <4>1. e \in d .. day /\ e # d
        BY <1>0, <1>3, <2>7, <3>2
      <4> QED BY <2>2, <2>8, <4>1 DEF Counted
    <3>3. C \in Nat /\ NONE \notin Nat
      <4>1. close[c] \in CloseStates
        BY <1>0 DEF Types
      <4> QED BY <1>2, <4>1, PettyCashAssumption DEF CloseStates
    <3>4. counted'[d] = C /\ C # NONE /\ d < day + 1
      BY <1>0, <1>3, <2>2, <3>3
    <3>5. Opens(counted', MondayOf(day), day + 1, d + 1, C)
      BY <3>1, <3>2, <3>4 DEF Opens
    <3>6. Books' = C + NetOf(ins, outs, d + 1, day)
      BY <1>0, <1>1, <3>5, BooksIs, TheseBooks
    <3>7. tin' = Books' + missed'
      <4>1. NetOf(ins, outs, d + 1, day) \in Int
        BY <1>0, NetInt
      <4> QED BY <1>1, <1>3, <2>1, <2>8, <3>6, <4>1
    <3> QED BY <1>4, <2>3, <3>7 DEF BooksInv, BooksMatchTin
  <2>9. CASE ~(SameWeek(d, day) /\ ~Counted(d))
    <3>1. ~(from <= d) /\ d < from
      BY <1>0, <1>3, <2>4, <2>6, <2>9
    <3>2. Opens(counted', MondayOf(day), day + 1, from, base)
      <4>1. CASE from = MondayOf(day) /\ base = 0
                 /\ \A e \in Days : MondayOf(day) <= e /\ e < day + 1 => counted[e] = NONE
        <5>1. \A e \in Days : MondayOf(day) <= e => e # d
          BY <1>3, <3>1, <4>1
        <5> QED BY <2>2, <4>1, <5>1 DEF Opens
      <4>2. ASSUME NEW l \in Days, MondayOf(day) <= l, l < day + 1, counted[l] # NONE, from = l + 1,
                   base = counted[l],
                   \A e \in Days : l < e /\ e < day + 1 => counted[e] = NONE
            PROVE  Opens(counted', MondayOf(day), day + 1, from, base)
        <5>1. l # d /\ \A e \in Days : l < e => e # d
          BY <1>0, <1>3, <1>6, <3>1, <4>2
        <5> QED BY <2>2, <4>2, <5>1 DEF Opens
      <4> QED BY <2>4, <4>1, <4>2 DEF Opens
    <3>3. Books' = base + NetOf(ins, outs, from, day)
      BY <1>0, <1>1, <3>2, BooksIs, TheseBooks
    <3>4. tin' = Books' + missed'
      BY <1>1, <2>1, <2>5, <2>9, <3>3 DEF BooksInv, BooksMatchTin
    <3> QED BY <1>4, <2>3, <3>4 DEF BooksInv, BooksMatchTin
  <2> QED BY <2>8, <2>9
<1> QED BY <1>5, <1>6

(* Midnight: on a Monday the books start again, on other days they go on.   *)
LEMMA MidnightBooks ==
  ASSUME IndInv, BooksInv, Types', Midnight
  PROVE  BooksInv'
<1>0. /\ Types /\ Days \subseteq Nat /\ day \in Days /\ day \in Nat /\ tin \in Int /\ missed \in Int
      /\ ins \in [Days -> Int] /\ outs \in [Days -> Int]
      /\ counted \in [Days -> Nat \cup {NONE}]
      /\ MondayOf(day) \in Nat /\ MondayOf(day) <= day /\ day + 1 \in Nat /\ MondayOf(day) <= day + 1
  BY BooksFacts DEF IndInv
<1>1. /\ day' = day + 1 /\ day + 1 \in Days
      /\ ins' = ins /\ outs' = outs /\ counted' = counted /\ close' = close
  BY <1>0, PettyCashAssumption DEF Midnight, bookVars, requestVars, Days
<1>2. PICK t \in Days : t = day + 1 /\ t \in Nat
  BY <1>0, <1>1
<1>3. PICK p \in Int : p = ins[t] - outs[t] /\ ins[t] \in Int /\ outs[t] \in Int
  BY <1>0
<1>4. \A e \in Days : e \in Nat /\ (e > t => e > day) /\ (e < t <=> e <= day) /\ (e < t + 1 <=> e <= t)
  BY <1>0, <1>2
<1>5. Ahead' /\ counted[t] = NONE /\ outs[t] = 0
  BY <1>0, <1>1, <1>2, <1>4 DEF BooksInv, Ahead
<1>6. \A c \in Closers : close[c].pc = "read" => close[c].day <= day
  BY DEF BooksInv, CloseHolds
<1>7. /\ Books' = BooksOf(ins, outs, counted, t)
      /\ Books = BooksOf(ins, outs, counted, day)
  BY <1>1, <1>2, TheseBooks
<1>8. CASE MondayOf(t) = t
  <2>1. tin' = p /\ missed' = 0
    BY <1>2, <1>3, <1>8 DEF Midnight
  <2>2. CloseHolds'
    <3> SUFFICES ASSUME NEW c \in Closers, close[c].pc = "read"
                 PROVE  close[c].day <= t /\ ~SameWeek(close[c].day, t)
      BY <1>1, <1>2 DEF CloseHolds, SameWeek
    <3>1. close[c].day \in Nat /\ close[c].day <= day
      BY <1>0, <1>6, BooksFacts
    <3>2. close[c].day <= t /\ ~(t <= close[c].day)
      BY <1>0, <1>2, <3>1
    <3> QED BY <1>2, <1>8, <3>1, <3>2, WeekOf
  <2>3. Opens(counted, MondayOf(t), t + 1, t, 0)
    <3>1. \A e \in Days : t <= e /\ e < t + 1 => e = t
      BY <1>2, <1>4
    <3> QED BY <1>5, <1>8, <3>1 DEF Opens
  <2>4. Books' = 0 + NetOf(ins, outs, t, t)
    BY <1>0, <1>2, <1>7, <2>3, BooksIs
  <2>5. NetOf(ins, outs, t, day + 1) = NetOf(ins, outs, t, day) + ins[day + 1] - outs[day + 1]
    BY <1>0, <1>1, <1>2, NetNext
  <2>6. NetOf(ins, outs, t, day) = 0
    BY <1>0, <1>2, NetNone
  <2>7. tin' = Books' + missed'
    BY <1>2, <1>3, <2>1, <2>4, <2>5, <2>6
  <2> QED BY <1>5, <2>2, <2>7 DEF BooksInv, BooksMatchTin
<1>9. CASE MondayOf(t) # t
  <2>1. MondayOf(t) = MondayOf(day)
    BY <1>0, <1>2, <1>9, NextMonday
  <2>2. tin' = tin + p /\ missed' = missed
    BY <1>0, <1>2, <1>3, <1>9 DEF Midnight
  <2>3. ASSUME NEW from \in Int, from <= t
        PROVE  NetOf(ins, outs, from, t) = NetOf(ins, outs, from, day) + p
               /\ NetOf(ins, outs, from, day) \in Int
    <3>1. day \in Int /\ from <= day + 1
      BY <1>0, <1>2, <2>3
    <3>2. NetOf(ins, outs, from, day) \in Int
      BY <1>0, NetInt
    <3>3. NetOf(ins, outs, from, day + 1) = NetOf(ins, outs, from, day) + ins[day + 1] - outs[day + 1]
      BY <1>0, <1>1, <3>1, NetNext
    <3> QED BY <1>2, <1>3, <3>2, <3>3
  <2>4. CloseHolds'
    <3> SUFFICES ASSUME NEW c \in Closers, close[c].pc = "read"
                 PROVE  /\ close[c].day <= t
                        /\ SameWeek(close[c].day, t) =>
                             tin' = close[c].count + NetOf(ins, outs, close[c].day + 1, t) + close[c].since
      BY <1>1, <1>2, NetIs DEF CloseHolds, SameWeek
    <3>1. PICK d \in Nat, C \in Int, s \in Int : d = close[c].day /\ C = close[c].count /\ s = close[c].since
      BY <1>0, BooksFacts
    <3>2. d <= day /\ (SameWeek(d, day) => tin = C + NetOf(ins, outs, d + 1, day) + s)
      BY <3>1, NetIs DEF BooksInv, CloseHolds
    <3>3. d <= t /\ d + 1 <= t /\ d + 1 \in Int
      BY <1>0, <1>2, <3>2
    <3>4. SameWeek(d, t) => SameWeek(d, day)
      BY <2>1 DEF SameWeek
    <3>5. NetOf(ins, outs, d + 1, t) = NetOf(ins, outs, d + 1, day) + p
          /\ NetOf(ins, outs, d + 1, day) \in Int
      BY <2>3, <3>3
    <3> QED BY <1>0, <1>3, <2>2, <3>1, <3>2, <3>3, <3>4, <3>5
  <2>5. PICK from \in Nat, base \in Nat :
          MondayOf(day) <= from /\ from <= day + 1 /\ Opens(counted, MondayOf(day), day + 1, from, base)
    BY <1>0, OpensExists
  <2>6. Books = base + NetOf(ins, outs, from, day)
    BY <1>0, <1>7, <2>5, BooksIs
  <2>7. Opens(counted, MondayOf(t), t + 1, from, base)
    <3>1. \A e \in Days : e < t + 1 => e < day + 1 \/ counted[e] = NONE
      <4> SUFFICES ASSUME NEW e \in Days, e < t + 1, ~(e < day + 1) PROVE counted[e] = NONE
        OBVIOUS
      <4>1. e = t
        BY <1>0, <1>2, <1>4
      <4> QED BY <1>5, <4>1
    <3>2. \A e \in Days : e < day + 1 => e < t + 1
      BY <1>0, <1>2, <1>4
    <3> QED BY <2>1, <2>5, <3>1, <3>2 DEF Opens
  <2>8. Books' = base + NetOf(ins, outs, from, t)
    BY <1>0, <1>7, <2>7, BooksIs
  <2>9. NetOf(ins, outs, from, t) = NetOf(ins, outs, from, day) + p /\ NetOf(ins, outs, from, day) \in Int
    BY <1>0, <1>2, <2>3, <2>5
  <2>10. tin' = Books' + missed'
    <3>1. tin = Books + missed
      BY DEF BooksInv, BooksMatchTin
    <3> QED BY <1>0, <2>2, <2>6, <2>8, <2>9, <3>1
  <2> QED BY <1>5, <2>4, <2>10 DEF BooksInv, BooksMatchTin
<1> QED BY <1>8, <1>9

LEMMA InitBooks == Init => BooksInv
<1> SUFFICES ASSUME Init PROVE BooksInv
  OBVIOUS
<1>0. Types /\ Days \subseteq Nat /\ day \in Days /\ day \in Nat
  BY InitInd, BooksFacts DEF IndInv
<1>1. day = 0 /\ tin = 0 /\ missed = 0 /\ \A d \in Days : counted[d] = NONE /\ ins[d] = 0 /\ outs[d] = 0
  BY DEF Init
<1>2. Ahead
  BY <1>1 DEF Ahead
<1>3. CloseHolds
  BY DEF CloseHolds, Init, NoClose
<1>4. BooksMatchTin
  <2>1. MondayOf(day) = 0
    BY <1>0, <1>1, MondayIs
  <2>2. Opens(counted, MondayOf(day), day + 1, 0, 0)
    BY <1>1, <2>1 DEF Opens
  <2>3. Books = 0 + NetOf(ins, outs, 0, day)
    BY <1>0, <2>2, BooksFacts, BooksIs, TheseBooks
  <2>4. /\ NetOf(ins, outs, 0, -1 + 1) = NetOf(ins, outs, 0, -1) + ins[-1 + 1] - outs[-1 + 1]
        /\ NetOf(ins, outs, 0, -1) = 0
    <3>1. ins \in [Days -> Int] /\ outs \in [Days -> Int] /\ -1 + 1 \in Days /\ 0 <= -1 + 1 /\ -1 < 0
          /\ -1 \in Int /\ 0 \in Int
      BY <1>0, <1>1, BooksFacts
    <3>2. NetOf(ins, outs, 0, -1) = 0
      BY <3>1, NetNone
    <3>3. NetOf(ins, outs, 0, -1 + 1) = NetOf(ins, outs, 0, -1) + ins[-1 + 1] - outs[-1 + 1]
      BY <3>1, NetNext
    <3> QED BY <3>2, <3>3
  <2>5. ins[0] = 0 /\ outs[0] = 0
    BY <1>0, <1>1
  <2> QED BY <1>1, <2>3, <2>4, <2>5 DEF BooksMatchTin
<1> QED BY <1>2, <1>3, <1>4 DEF BooksInv

LEMMA NextBooks == IndInv /\ IndInv' /\ BooksInv /\ [Next]_vars => BooksInv'
<1> SUFFICES ASSUME IndInv, IndInv', BooksInv, [Next]_vars PROVE BooksInv'
  OBVIOUS
<1>0. Types /\ Types' /\ Ahead
  BY DEF IndInv, BooksInv
<1>1. ASSUME NEW k \in Clerks, NEW x, Begin(k, x) PROVE BooksInv'
  BY <1>1, BooksStill DEF Begin, bookVars, ghostVars
<1>2. ASSUME NEW k \in Clerks, Lock(k) \/ Check(k) \/ SlipFails(k) PROVE BooksInv'
  BY <1>2, BooksStill DEF Lock, Check, SlipFails, bookVars, ghostVars
<1>3. ASSUME NEW k \in Clerks, Record(k) PROVE BooksInv'
  <2>1. PICK e \in Days, x \in Int : e = slip[k].date /\ x = slip[k].x
    BY <1>3, RecordEnters
  <2>2. Entered(e, x) /\ UNCHANGED <<day, counted>>
    BY <1>3, <2>1 DEF Record
  <2>3. e <= day /\ OneEntry(ins, outs, ins', outs', e, x) /\ \A d \in Days : d # e => outs'[d] = outs[d]
    BY <1>3, <2>1, RecordEnters
  <2>4. \A d \in Days : d > day => outs'[d] = 0
    <3>1. \A d \in Days : d > day => d # e
      BY <1>0, <2>3, BooksFacts
    <3> QED BY <1>0, <2>3, <3>1 DEF Ahead
  <2> QED BY <1>0, <2>2, <2>3, <2>4, EntryBooks
<1>4. ASSUME NEW c \in Closers, CloseRead(c) PROVE BooksInv'
  BY <1>4, CloseReadBooks
<1>5. ASSUME NEW c \in Closers, CloseInsert(c) PROVE BooksInv'
  BY <1>0, <1>5, CloseInsertBooks
<1>6. ASSUME NEW b \in Bookings, NEW d, NEW a, Book(b, d, a) \/ Cancel(b) PROVE BooksInv'
  BY <1>6, BooksStill DEF Book, Cancel, bookVars, ghostVars
<1>7. ASSUME NEW b \in Bookings, BookInsert(b) PROVE BooksInv'
  <2>1. PICK e \in Days, x \in Int : e = booked[b].day /\ x = booked[b].amount
    BY <1>0, BookingFacts
  <2>2. Entered(e, x) /\ UNCHANGED <<day, counted, outs>> /\ ins' = [ins EXCEPT ![e] = @ + x]
    BY <1>7, <2>1 DEF BookInsert
  <2>3. OneEntry(ins, outs, ins', outs', e, x)
    BY <1>0, <2>2, InsMove
  <2>4. \A d \in Days : d > day => outs'[d] = 0
    BY <1>0, <2>2 DEF Ahead
  <2> QED BY <1>0, <2>2, <2>3, <2>4, EntryBooks
<1>8. ASSUME NEW b \in Bookings, CancelDelete(b) PROVE BooksInv'
  <2>1. CASE StillAhead(b)
    <3>1. PICK e \in Days, x \in Int : e = booked[b].day /\ x = - booked[b].amount
      BY <1>0, BookingFacts
    <3>2. Entered(e, x) /\ UNCHANGED <<day, counted, outs>>
      BY <1>8, <2>1, <3>1 DEF CancelDelete
    <3>3. OneEntry(ins, outs, ins', outs', e, x)
      BY <1>0, <1>8, <2>1, <3>1, CancelEnters
    <3>4. \A d \in Days : d > day => outs'[d] = 0
      BY <1>0, <3>2 DEF Ahead
    <3> QED BY <1>0, <3>2, <3>3, <3>4, EntryBooks
  <2>2. CASE ~StillAhead(b)
    BY <1>8, <2>2, BooksStill DEF CancelDelete
  <2> QED BY <2>1, <2>2
<1>9. CASE Midnight
  BY <1>0, <1>9, MidnightBooks
<1>10. CASE UNCHANGED vars
  BY <1>10, BooksStill DEF vars, bookVars, requestVars, ghostVars
<1> QED BY <1>1, <1>2, <1>3, <1>4, <1>5, <1>6, <1>7, <1>8, <1>9, <1>10 DEF Next

(* The tin, the books and the closes on their way agree, on every run. *)
THEOREM BooksInvariance == Spec => []BooksInv
BY InitInd, InitBooks, NextInd, NextBooks, PettyCashInvariance, PTL DEF Spec

-----------------------------------------------------------------------------
(* A day's money in covers the bookings it holds: one element a penny, so   *)
(* that a set's cardinality stands for their sum.                           *)
Held(b) == booked[b].pc \in {"in", "cancelling"}
Pence(d) == {p \in Bookings \X Nat :
               Held(p[1]) /\ booked[p[1]].day = d /\ p[2] \in 1 .. booked[p[1]].amount}
PenceOf(b, a) == {p \in {b} \X Nat : p[2] \in 1 .. a}
Covered == \A d \in Days : IsFiniteSet(Pence(d)) /\ Cardinality(Pence(d)) <= ins[d]

LEMMA PenceCount ==
  ASSUME NEW b, NEW a \in Nat
  PROVE  IsFiniteSet(PenceOf(b, a)) /\ Cardinality(PenceOf(b, a)) = a
<1> DEFINE f == [n \in 1 .. a |-> <<b, n>>]
<1>1. f \in Bijection(1 .. a, PenceOf(b, a))
  <2>1. f \in Injection(1 .. a, PenceOf(b, a))
    BY DEF Injection, IsInjective, PenceOf
  <2>2. f \in Surjection(1 .. a, PenceOf(b, a))
    <3>1. ASSUME NEW p \in PenceOf(b, a) PROVE \E n \in 1 .. a : f[n] = p
      <4>1. p = <<b, p[2]>> /\ p[2] \in 1 .. a
        BY DEF PenceOf
      <4> QED BY <4>1
    <3>2. f \in [1 .. a -> PenceOf(b, a)]
      BY DEF PenceOf
    <3> QED BY <3>1, <3>2 DEF Surjection
  <2> QED BY <2>1, <2>2 DEF Bijection
<1>2. ExistsBijection(1 .. a, PenceOf(b, a))
  BY <1>1 DEF ExistsBijection
<1>3. IsFiniteSet(1 .. a) /\ Cardinality(1 .. a) = a
  BY FS_Interval
<1> QED BY <1>2, <1>3, FS_Bijection

(* A booking is put on its day, or taken off it. *)
LEMMA PenceMove ==
  ASSUME Types, Types', NEW b \in Bookings,
         \A c \in Bookings : c # b => booked'[c] = booked[c],
         booked'[b].day = booked[b].day, booked'[b].amount = booked[b].amount,
         NEW d \in Days
  PROVE  /\ booked[b].day # d => Pence(d)' = Pence(d)
         /\ booked[b].day = d /\ ~Held(b) /\ Held(b)' =>
              /\ Pence(d)' = Pence(d) \cup PenceOf(b, booked[b].amount)
              /\ Pence(d) \cap PenceOf(b, booked[b].amount) = {}
         /\ booked[b].day = d /\ Held(b) /\ ~Held(b)' =>
              /\ Pence(d) = Pence(d)' \cup PenceOf(b, booked[b].amount)
              /\ Pence(d)' \cap PenceOf(b, booked[b].amount) = {}
         /\ Held(b)' = Held(b) => Pence(d)' = Pence(d)
BY DEF Pence, PenceOf, Held

LEMMA CoveredStill ==
  ASSUME Types, Covered, Types', \A b \in Bookings : Held(b)' = Held(b),
         \A b \in Bookings : Held(b) =>
           booked'[b].day = booked[b].day /\ booked'[b].amount = booked[b].amount,
         \A d \in Days : ins[d] <= ins'[d]
  PROVE  Covered'
<1>1. ASSUME NEW d \in Days PROVE IsFiniteSet(Pence(d))' /\ Cardinality(Pence(d))' <= ins'[d]
  <2>1. Pence(d)' = Pence(d)
    BY DEF Pence
  <2>2. IsFiniteSet(Pence(d)) /\ Cardinality(Pence(d)) <= ins[d] /\ ins[d] <= ins'[d]
    BY DEF Covered
  <2>3. Cardinality(Pence(d)) \in Nat
    BY <2>2, FS_CardinalityType
  <2>4. ins[d] \in Int /\ ins'[d] \in Int
    BY DEF Types
  <2>5. Cardinality(Pence(d)) <= ins'[d]
    BY <2>2, <2>3, <2>4
  <2> QED BY <2>1, <2>2, <2>5
<1> QED BY <1>1 DEF Covered

LEMMA InitCovered == Init => Covered
<1> SUFFICES ASSUME Init, NEW d \in Days PROVE IsFiniteSet(Pence(d)) /\ Cardinality(Pence(d)) <= ins[d]
  BY DEF Covered
<1>1. Pence(d) = {}
  BY DEF Init, Pence, Held, NoBooking
<1>2. ins[d] = 0
  BY DEF Init
<1> QED BY <1>1, <1>2, FS_EmptySet

LEMMA NextCovered == IndInv /\ IndInv' /\ Covered /\ [Next]_vars => Covered'
<1> SUFFICES ASSUME IndInv, IndInv', Covered, [Next]_vars PROVE Covered'
  OBVIOUS
<1>0. Types /\ Types' /\ ins \in [Days -> Int]
  BY DEF IndInv, Types
<1>1. ASSUME UNCHANGED <<ins, booked>> PROVE Covered'
  <2>1. \A d \in Days : ins[d] <= ins'[d]
    BY <1>0, <1>1
  <2> QED BY <1>0, <1>1, <2>1, CoveredStill DEF Held
<1>2. ASSUME NEW k \in Clerks, NEW x, Begin(k, x) PROVE Covered'
  BY <1>1, <1>2 DEF Begin, bookVars
<1>3. ASSUME NEW k \in Clerks, Lock(k) \/ Check(k) \/ SlipFails(k) PROVE Covered'
  BY <1>1, <1>3 DEF Lock, Check, SlipFails, bookVars
<1>4. ASSUME NEW k \in Clerks, Record(k) PROVE Covered'
  <2>1. PICK e \in Days, x \in Int : e = slip[k].date /\ x = slip[k].x
    BY <1>4, RecordEnters
  <2>2. \A d \in Days : ins[d] <= ins'[d]
    <3>1. CASE x > 0
      <4>1. ins' = [ins EXCEPT ![e] = @ + x]
        BY <1>4, <2>1, <3>1 DEF Record
      <4>2. ASSUME NEW d \in Days PROVE ins[d] <= ins'[d]
        <5>1. ins[d] \in Int /\ ins'[d] = IF d = e THEN ins[d] + x ELSE ins[d]
          BY <1>0, <4>1
        <5> QED BY <3>1, <5>1
      <4> QED BY <4>2
    <3>2. CASE ~(x > 0)
      BY <1>0, <1>4, <2>1, <3>2 DEF Record
    <3> QED BY <3>1, <3>2
  <2>3. booked' = booked
    BY <1>4 DEF Record
  <2> QED BY <1>0, <2>2, <2>3, CoveredStill DEF Held
<1>5. ASSUME NEW c \in Closers, CloseRead(c) \/ CloseInsert(c) PROVE Covered'
  BY <1>1, <1>5 DEF CloseRead, CloseInsert, bookVars
<1>6. ASSUME NEW b \in Bookings, NEW d, NEW a, Book(b, d, a) PROVE Covered'
  <2>1. booked' = [booked EXCEPT ![b] = [pc |-> "checked", day |-> d, amount |-> a, read |-> day]]
        /\ booked[b].pc = "no" /\ ins' = ins
    BY <1>6 DEF Book, bookVars
  <2>2. \A c \in Bookings : booked'[c] = IF c = b THEN [pc |-> "checked", day |-> d, amount |-> a, read |-> day]
                                         ELSE booked[c]
    BY <1>0, <2>1 DEF Types
  <2>3. ~Held(b) /\ ~Held(b)'
    BY <2>1, <2>2 DEF Held
  <2>4. \A c \in Bookings : c # b => booked'[c] = booked[c]
    BY <2>2
  <2>5. \A d1 \in Days : ins[d1] <= ins'[d1]
    BY <1>0, <2>1
  <2>6. \A c \in Bookings : /\ Held(c)' = Held(c)
                            /\ Held(c) => booked'[c].day = booked[c].day /\ booked'[c].amount = booked[c].amount
    <3> SUFFICES ASSUME NEW c \in Bookings
                 PROVE /\ Held(c)' = Held(c)
                       /\ Held(c) => booked'[c].day = booked[c].day /\ booked'[c].amount = booked[c].amount
      OBVIOUS
    <3>1. CASE c = b
      BY <2>3, <3>1 DEF Held
    <3>2. CASE c # b
      BY <2>4, <3>2 DEF Held
    <3> QED BY <3>1, <3>2
  <2> QED BY <1>0, <2>5, <2>6, CoveredStill
<1>7. ASSUME NEW b \in Bookings, Cancel(b) PROVE Covered'
  <2>1. booked' = [booked EXCEPT ![b].pc = "cancelling", ![b].read = day] /\ booked[b].pc = "in" /\ ins' = ins
    BY <1>7 DEF Cancel, bookVars
  <2>2. booked[b] \in BookingStates
    BY <1>0 DEF Types
  <2>3. /\ booked'[b].pc = "cancelling" /\ booked'[b].day = booked[b].day
        /\ booked'[b].amount = booked[b].amount
        /\ \A c \in Bookings : c # b => booked'[c] = booked[c]
    BY <1>0, <2>1, <2>2 DEF Types, BookingStates
  <2>4. \A d \in Days : ins[d] <= ins'[d]
    BY <1>0, <2>1
  <2>5. \A c \in Bookings : /\ Held(c)' = Held(c)
                            /\ Held(c) => booked'[c].day = booked[c].day /\ booked'[c].amount = booked[c].amount
    <3> SUFFICES ASSUME NEW c \in Bookings
                 PROVE /\ Held(c)' = Held(c)
                       /\ Held(c) => booked'[c].day = booked[c].day /\ booked'[c].amount = booked[c].amount
      OBVIOUS
    <3>1. CASE c = b
      BY <2>1, <2>3, <3>1 DEF Held
    <3>2. CASE c # b
      BY <2>3, <3>2 DEF Held
    <3> QED BY <3>1, <3>2
  <2> QED BY <1>0, <2>4, <2>5, CoveredStill
<1>8. ASSUME NEW b \in Bookings, BookInsert(b) PROVE Covered'
  <2>1. PICK e \in Days, a \in Nat : e = booked[b].day /\ a = booked[b].amount
    BY <1>0, BookingFacts
  <2>2. booked' = [booked EXCEPT ![b].pc = "in", ![b].read = 0] /\ booked[b].pc = "checked"
        /\ ins' = [ins EXCEPT ![e] = @ + a]
    BY <1>8, <2>1 DEF BookInsert
  <2>3. booked[b] \in BookingStates
    BY <1>0 DEF Types
  <2>4. /\ booked'[b].pc = "in" /\ booked'[b].day = booked[b].day
        /\ booked'[b].amount = booked[b].amount
        /\ \A c \in Bookings : c # b => booked'[c] = booked[c]
    BY <1>0, <2>2, <2>3 DEF Types, BookingStates
  <2>5. ~Held(b) /\ Held(b)'
    BY <2>2, <2>4 DEF Held
  <2> SUFFICES ASSUME NEW d \in Days PROVE IsFiniteSet(Pence(d)') /\ Cardinality(Pence(d)') <= ins'[d]
    BY DEF Covered
  <2>6. IsFiniteSet(Pence(d)) /\ Cardinality(Pence(d)) <= ins[d] /\ Cardinality(Pence(d)) \in Nat /\ ins[d] \in Int
    BY <1>0, FS_CardinalityType DEF Covered
  <2>7. CASE d = e
    <3>1. Pence(d)' = Pence(d) \cup PenceOf(b, a) /\ Pence(d) \cap PenceOf(b, a) = {}
      BY <1>0, <2>1, <2>4, <2>5, <2>7, PenceMove
    <3>2. IsFiniteSet(PenceOf(b, a)) /\ Cardinality(PenceOf(b, a)) = a
      BY PenceCount
    <3>3. IsFiniteSet(Pence(d)') /\ Cardinality(Pence(d)') = Cardinality(Pence(d)) + a
      <4>1. Cardinality({}) = 0
        BY FS_EmptySet
      <4>2. /\ IsFiniteSet(Pence(d) \cup PenceOf(b, a))
            /\ Cardinality(Pence(d) \cup PenceOf(b, a))
               = Cardinality(Pence(d)) + Cardinality(PenceOf(b, a)) - Cardinality(Pence(d) \cap PenceOf(b, a))
        BY <2>6, <3>2, FS_Union
      <4> QED BY <2>6, <3>1, <3>2, <4>1, <4>2
    <3>4. ins'[d] = ins[d] + a
      BY <1>0, <2>2, <2>7
    <3> QED BY <2>6, <3>3, <3>4
  <2>8. CASE d # e
    <3>1. Pence(d)' = Pence(d)
      BY <1>0, <2>1, <2>4, <2>8, PenceMove
    <3>2. ins'[d] = ins[d]
      BY <1>0, <2>2, <2>8
    <3> QED BY <2>6, <3>1, <3>2
  <2> QED BY <2>7, <2>8
<1>9. ASSUME NEW b \in Bookings, CancelDelete(b) PROVE Covered'
  <2>1. PICK e \in Days, a \in Nat : e = booked[b].day /\ a = booked[b].amount
    BY <1>0, BookingFacts
  <2>2. booked[b] \in BookingStates /\ booked[b].pc = "cancelling"
    BY <1>0, <1>9 DEF Types, CancelDelete
  <2>3. /\ booked'[b].day = booked[b].day /\ booked'[b].amount = booked[b].amount
        /\ booked'[b].pc = IF StillAhead(b) THEN "gone" ELSE "in"
        /\ \A c \in Bookings : c # b => booked'[c] = booked[c]
    <3>1. CASE StillAhead(b)
      <4>1. booked' = [booked EXCEPT ![b].pc = "gone", ![b].read = 0]
        BY <1>9, <3>1 DEF CancelDelete
      <4> QED BY <1>0, <2>2, <3>1, <4>1 DEF Types, BookingStates
    <3>2. CASE ~StillAhead(b)
      <4>1. booked' = [booked EXCEPT ![b].pc = "in", ![b].read = 0]
        BY <1>9, <3>2 DEF CancelDelete
      <4> QED BY <1>0, <2>2, <3>2, <4>1 DEF Types, BookingStates
    <3> QED BY <3>1, <3>2
  <2> SUFFICES ASSUME NEW d \in Days PROVE IsFiniteSet(Pence(d)') /\ Cardinality(Pence(d)') <= ins'[d]
    BY DEF Covered
  <2>4. IsFiniteSet(Pence(d)) /\ Cardinality(Pence(d)) <= ins[d] /\ Cardinality(Pence(d)) \in Nat /\ ins[d] \in Int
    BY <1>0, FS_CardinalityType DEF Covered
  <2>5. CASE ~StillAhead(b)
    <3>1. Held(b)' = Held(b)
      BY <2>2, <2>3, <2>5 DEF Held
    <3>2. Pence(d)' = Pence(d)
      BY <1>0, <2>3, <3>1, PenceMove
    <3>3. ins' = ins
      BY <1>9, <2>5 DEF CancelDelete
    <3> QED BY <2>4, <3>2, <3>3
  <2>6. CASE StillAhead(b) /\ d # e
    <3>1. Pence(d)' = Pence(d)
      BY <1>0, <2>1, <2>3, <2>6, PenceMove
    <3>2. ins' = [ins EXCEPT ![e] = @ - a]
      BY <1>9, <2>1, <2>6 DEF CancelDelete
    <3>3. ins'[d] = ins[d]
      BY <1>0, <2>6, <3>2
    <3> QED BY <2>4, <3>1, <3>3
  <2>7. CASE StillAhead(b) /\ d = e
    <3>1. Held(b) /\ ~Held(b)'
      BY <2>2, <2>3, <2>7 DEF Held
    <3>2. Pence(d) = Pence(d)' \cup PenceOf(b, a) /\ Pence(d)' \cap PenceOf(b, a) = {}
      BY <1>0, <2>1, <2>3, <2>7, <3>1, PenceMove
    <3>3. IsFiniteSet(PenceOf(b, a)) /\ Cardinality(PenceOf(b, a)) = a
      BY PenceCount
    <3>4. IsFiniteSet(Pence(d)') /\ Cardinality(Pence(d)') \in Nat
      <4>1. Pence(d)' \in SUBSET Pence(d)
        BY <3>2
      <4>2. IsFiniteSet(Pence(d)')
        BY <2>4, <4>1, FS_Subset
      <4> QED BY <4>2, FS_CardinalityType
    <3>5. Cardinality(Pence(d)) = Cardinality(Pence(d)') + a
      <4>1. Cardinality({}) = 0
        BY FS_EmptySet
      <4>2. Cardinality(Pence(d)' \cup PenceOf(b, a))
            = Cardinality(Pence(d)') + Cardinality(PenceOf(b, a)) - Cardinality(Pence(d)' \cap PenceOf(b, a))
        BY <3>3, <3>4, FS_Union
      <4>3. /\ Cardinality(Pence(d)) = Cardinality(Pence(d)' \cup PenceOf(b, a))
            /\ Cardinality(Pence(d)' \cap PenceOf(b, a)) = 0
        BY <3>2, <4>1
      <4>4. PICK n \in Nat : n = Cardinality(Pence(d)')
        BY <3>4
      <4> QED BY <3>3, <4>2, <4>3, <4>4
    <3>6. ins' = [ins EXCEPT ![e] = @ - a]
      BY <1>9, <2>1, <2>7 DEF CancelDelete
    <3>7. ins'[d] = ins[d] - a
      BY <1>0, <2>7, <3>6
    <3> QED BY <2>4, <3>4, <3>5, <3>7
  <2> QED BY <2>5, <2>6, <2>7
<1>10. CASE Midnight
  BY <1>1, <1>10 DEF Midnight, bookVars, requestVars
<1>11. CASE UNCHANGED vars
  BY <1>1, <1>11 DEF vars, bookVars, requestVars
<1> QED BY <1>2, <1>3, <1>4, <1>5, <1>6, <1>7, <1>8, <1>9, <1>10, <1>11 DEF Next

LEMMA CoveredTyped == Types /\ Covered => TypeOK
<1> SUFFICES ASSUME Types, Covered PROVE TypeOK
  OBVIOUS
<1>1. ASSUME NEW d \in Days PROVE ins[d] \in Nat
  <2>1. IsFiniteSet(Pence(d)) /\ Cardinality(Pence(d)) <= ins[d] /\ ins[d] \in Int
    BY DEF Types, Covered
  <2>2. Cardinality(Pence(d)) \in Nat
    BY <2>1, FS_CardinalityType
  <2> QED BY <2>1, <2>2
<1>2. ins \in [Days -> Nat]
  BY <1>1 DEF Types
<1> QED BY <1>2 DEF Types, TypeOK, SlipStates, CloseStates, BookingStates

(* The types hold, a day's money in among them: it is never less than the    *)
(* bookings it holds, so no cancellation takes it below nothing.             *)
THEOREM PettyCashTyped == Spec => []TypeOK
<1>1. Spec => []Covered
  BY InitCovered, NextCovered, PettyCashInvariance, PTL DEF Spec
<1>2. IndInv => Types
  BY DEF IndInv
<1> QED BY <1>1, <1>2, CoveredTyped, PettyCashInvariance, PTL

-----------------------------------------------------------------------------
(* The day's balance. *)

(* Until a cancellation or a close comes late, today's balance is not below *)
(* zero, nor will it be when the slip that has been checked is recorded.    *)
Spendable ==
  ~late =>
    /\ Expected(day) >= 0
    /\ \A k \in Clerks :
         slip[k].pc = "checked" /\ slip[k].x < 0 /\ EntriesFrom(day) <= slip[k].date =>
           Expected(day) + slip[k].x >= 0

LEMMA ExpectedFacts ==
  ASSUME Types
  PROVE  \E from \in Nat, base \in Nat :
           /\ MondayOf(day) <= from /\ from <= day /\ Opens(counted, MondayOf(day), day, from, base)
           /\ EntriesFrom(day) = from /\ Expected(day) = base + NetOf(ins, outs, from, day)
           /\ NetOf(ins, outs, from, day) \in Int
<1>1. /\ MondayOf(day) \in Nat /\ day \in Nat /\ day \in Days /\ MondayOf(day) <= day
      /\ counted \in [Days -> Nat \cup {NONE}] /\ ins \in [Days -> Int] /\ outs \in [Days -> Int]
  BY BooksFacts
<1>2. PICK from \in Nat, base \in Nat :
        MondayOf(day) <= from /\ from <= day /\ Opens(counted, MondayOf(day), day, from, base)
  BY <1>1, OpensExists
<1>3. EntriesFrom(day) = from /\ Expected(day) = base + NetOf(ins, outs, from, day)
  BY <1>1, <1>2, ExpectedIs, TheseBooks
<1>4. NetOf(ins, outs, from, day) \in Int
  BY <1>1, NetInt
<1> QED BY <1>2, <1>3, <1>4

(* A step of the same day, with the same closes before it. *)
LEMMA SpendStep ==
  ASSUME IndInv, Types', Spendable, day' = day, late => late',
         \A e \in Days : e < day => counted'[e] = counted[e],
         NEW e \in Days, NEW x \in Int, OneEntry(ins, outs, ins', outs', e, x),
         ~late' /\ EntriesFrom(day) <= e /\ e <= day => Expected(day) + x >= 0,
         \A k \in Clerks : slip'[k].pc = "checked" /\ slip'[k].x < 0 =>
           \/ ~(EntriesFrom(day) <= slip'[k].date)
           \/ /\ slip[k].pc = "checked" /\ slip'[k].x = slip[k].x /\ slip'[k].date = slip[k].date
              /\ x >= 0 \/ late' \/ e > day
           \/ x = 0 /\ Expected(day) + slip'[k].x >= 0,
         \A k \in Clerks : slip'[k].x \in Int
  PROVE  Spendable'
<1>0. /\ Types /\ Days \subseteq Nat /\ day \in Nat /\ day \in Days /\ e \in Nat
      /\ counted' \in [Days -> Nat \cup {NONE}]
      /\ ins \in [Days -> Int] /\ outs \in [Days -> Int]
      /\ ins' \in [Days -> Int] /\ outs' \in [Days -> Int]
  <2>1. ins' \in [Days -> Int] /\ outs' \in [Days -> Int] /\ counted' \in [Days -> Nat \cup {NONE}]
    BY DEF Types
  <2> QED BY <2>1, BooksFacts DEF IndInv
<1>1. PICK from \in Nat, base \in Nat :
        /\ MondayOf(day) <= from /\ from <= day /\ Opens(counted, MondayOf(day), day, from, base)
        /\ EntriesFrom(day) = from /\ Expected(day) = base + NetOf(ins, outs, from, day)
        /\ NetOf(ins, outs, from, day) \in Int
  BY <1>0, ExpectedFacts
<1>2. Opens(counted', MondayOf(day), day, from, base)
  BY <1>1 DEF Opens
<1>3. EntriesFrom(day)' = from /\ Expected(day)' = base + NetOf(ins', outs', from, day)
  BY <1>0, <1>2, ExpectedIs, TheseBooks
<1>4. NetOf(ins', outs', from, day)
      = NetOf(ins, outs, from, day) + IF from <= e /\ e <= day THEN x ELSE 0
  <2>1. from \in Int /\ day \in Int
    BY <1>0
  <2> QED BY <1>0, <2>1, NetEntry
<1>5. PICK E \in Int, F \in Int : E = Expected(day) /\ F = Expected(day)'
                                  /\ F = E + IF from <= e /\ e <= day THEN x ELSE 0
  <2>1. PICK n \in Int : n = NetOf(ins, outs, from, day)
    BY <1>1
  <2>2. PICK y \in Int : y = IF from <= e /\ e <= day THEN x ELSE 0
    OBVIOUS
  <2>3. Expected(day) = base + n /\ Expected(day)' = base + (n + y)
    BY <1>1, <1>3, <1>4, <2>1, <2>2
  <2>4. base + n \in Int /\ base + (n + y) = (base + n) + y
    OBVIOUS
  <2> QED BY <2>2, <2>3, <2>4
<1>6. SUFFICES ASSUME ~late'
      PROVE  /\ F >= 0
             /\ \A k \in Clerks :
                  slip'[k].pc = "checked" /\ slip'[k].x < 0 /\ from <= slip'[k].date => F + slip'[k].x >= 0
  BY <1>3, <1>5 DEF Spendable
<1>7. /\ E >= 0
      /\ \A k \in Clerks :
           slip[k].pc = "checked" /\ slip[k].x < 0 /\ from <= slip[k].date => E + slip[k].x >= 0
  BY <1>1, <1>5, <1>6 DEF Spendable
<1>8. F >= 0
  BY <1>0, <1>1, <1>5, <1>6, <1>7
<1>9. ASSUME NEW k \in Clerks, slip'[k].pc = "checked", slip'[k].x < 0, from <= slip'[k].date
      PROVE  F + slip'[k].x >= 0
  <2>1. slip'[k].x \in Int
    OBVIOUS
  <2>2. CASE /\ slip[k].pc = "checked" /\ slip'[k].x = slip[k].x /\ slip'[k].date = slip[k].date
             /\ x >= 0 \/ late' \/ e > day
    <3>1. E + slip'[k].x >= 0
      BY <1>7, <1>9, <2>2
    <3>2. F >= E
      BY <1>0, <1>5, <1>6, <2>2
    <3> QED BY <2>1, <3>1, <3>2
  <2>3. CASE x = 0 /\ Expected(day) + slip'[k].x >= 0
    <3>1. F = E
      BY <1>5, <2>3
    <3> QED BY <1>5, <2>3, <3>1
  <2> QED BY <1>1, <1>9, <2>2, <2>3
<1> QED BY <1>8, <1>9

LEMMA NoEntry ==
  ASSUME Types, UNCHANGED <<ins, outs>>, NEW e \in Days
  PROVE  OneEntry(ins, outs, ins', outs', e, 0)
<1>1. ASSUME NEW d \in Days PROVE ins'[d] - outs'[d] = ins[d] - outs[d] + At(e, 0, d)
  <2>1. ins[d] \in Int /\ outs[d] \in Int
    BY DEF Types
  <2> QED BY <2>1 DEF At
<1> QED BY <1>1 DEF OneEntry

(* Midnight: no slip yet is of the new day, and the day opens with what was *)
(* counted, or with a balance that was not below zero.                      *)
LEMMA MidnightSpend ==
  ASSUME IndInv, TypeOK, Ahead, Spendable, Midnight
  PROVE  Spendable'
<1>0. /\ Types /\ Days \subseteq Nat /\ day \in Days /\ day \in Nat
      /\ ins \in [Days -> Int] /\ outs \in [Days -> Int]
      /\ counted \in [Days -> Nat \cup {NONE}]
      /\ MondayOf(day) \in Nat /\ MondayOf(day) <= day
  BY BooksFacts DEF IndInv
<1>1. /\ day' = day + 1 /\ day + 1 \in Days
      /\ ins' = ins /\ outs' = outs /\ counted' = counted /\ slip' = slip
  BY <1>0, PettyCashAssumption DEF Midnight, bookVars, requestVars, Days
<1>2. PICK t \in Days : t = day + 1 /\ t \in Nat
  BY <1>0, <1>1
<1>3. PICK p \in Nat : p = ins[t] /\ outs[t] = 0
  <2>1. t > day
    BY <1>0, <1>2
  <2>2. ins[t] \in Nat
    BY DEF TypeOK
  <2> QED BY <2>1, <2>2 DEF Ahead
<1>4. /\ Expected(day)' = ExpectedOf(ins, outs, counted, t)
      /\ EntriesFrom(day)' = FromOf(counted, t)
  BY <1>1, <1>2, TheseBooks
<1>5. ASSUME NEW from \in Int, from <= t
      PROVE  NetOf(ins, outs, from, t) = NetOf(ins, outs, from, day) + p
             /\ NetOf(ins, outs, from, day) \in Int
  <2>1. day \in Int /\ from <= day + 1
    BY <1>0, <1>2, <1>5
  <2>2. NetOf(ins, outs, from, day) \in Int
    BY <1>0, NetInt
  <2>3. NetOf(ins, outs, from, day + 1) = NetOf(ins, outs, from, day) + ins[day + 1] - outs[day + 1]
    BY <1>0, <1>1, <2>1, NetNext
  <2> QED BY <1>2, <1>3, <2>2, <2>3
<1>6. NetOf(ins, outs, t, t) = p
  <2>1. NetOf(ins, outs, t, day) = 0
    BY <1>0, <1>2, NetNone
  <2>2. t \in Int /\ t <= t
    BY <1>2
  <2> QED BY <1>5, <2>1, <2>2
<1>7. ASSUME NEW k \in Clerks PROVE ~(t <= slip[k].date) /\ slip[k].date \in Nat
  <2>1. slip[k] \in SlipStates
    BY <1>0 DEF Types
  <2>2. slip[k].date \in Nat /\ slip[k].date <= day
    BY <1>0, <2>1 DEF SlipStates, IndInv, SlipsInTurn
  <2> QED BY <1>0, <1>2, <2>2
<1>8. \A e \in Days : e \in Nat /\ (e < t <=> e <= day)
  BY <1>0, <1>2
(* The day carries on from a count, or from a Monday: only its own money in. *)
<1>9. ASSUME NEW base \in Nat, Opens(counted, MondayOf(t), t, t, base) PROVE Spendable'
  <2>1. Expected(day)' = base + p /\ EntriesFrom(day)' = t
    BY <1>0, <1>4, <1>6, <1>9, ExpectedIs
  <2>2. Expected(day)' >= 0
    BY <2>1
  <2> QED BY <1>1, <1>7, <2>1, <2>2 DEF Spendable
<1>10. CASE MondayOf(t) = t
  <2>1. Opens(counted, MondayOf(t), t, t, 0)
    <3>1. \A e \in Days : ~(t <= e /\ e < t)
      BY <1>2, <1>8
    <3> QED BY <1>10, <3>1 DEF Opens
  <2> QED BY <1>9, <2>1
<1>11. CASE MondayOf(t) # t /\ counted[day] # NONE
  <2>1. MondayOf(t) = MondayOf(day)
    BY <1>0, <1>2, <1>11, NextMonday
  <2>2. counted[day] \in Nat /\ day < t /\ \A e \in Days : ~(day < e /\ e < t)
    BY <1>0, <1>2, <1>8, <1>11
  <2>3. Opens(counted, MondayOf(t), t, t, counted[day])
    BY <1>0, <1>2, <1>11, <2>1, <2>2 DEF Opens
  <2> QED BY <1>9, <2>2, <2>3
<1>12. CASE MondayOf(t) # t /\ counted[day] = NONE
  <2>1. MondayOf(t) = MondayOf(day)
    BY <1>0, <1>2, <1>12, NextMonday
  <2>2. late' = late
    BY <1>2, <1>12 DEF Midnight
  <2>3. PICK from \in Nat, base \in Nat :
          /\ MondayOf(day) <= from /\ from <= day /\ Opens(counted, MondayOf(day), day, from, base)
          /\ EntriesFrom(day) = from /\ Expected(day) = base + NetOf(ins, outs, from, day)
          /\ NetOf(ins, outs, from, day) \in Int
    BY <1>0, ExpectedFacts
  <2>4. Opens(counted, MondayOf(t), t, from, base)
    <3>1. \A e \in Days : e < t => e < day \/ counted[e] = NONE
      <4> SUFFICES ASSUME NEW e \in Days, e < t, ~(e < day) PROVE counted[e] = NONE
        OBVIOUS
      <4>1. e = day
        BY <1>0, <1>8
      <4> QED BY <1>12, <4>1
    <3>2. \A e \in Days : e < day => e < t
      BY <1>0, <1>8
    <3> QED BY <2>1, <2>3, <3>1, <3>2 DEF Opens
  <2>5. Expected(day)' = base + NetOf(ins, outs, from, t) /\ EntriesFrom(day)' = from
    BY <1>0, <1>4, <2>4, ExpectedIs
  <2>6. NetOf(ins, outs, from, t) = NetOf(ins, outs, from, day) + p
    <3>1. from \in Int /\ from <= t
      BY <1>0, <1>2, <2>3
    <3> QED BY <1>5, <3>1
  <2>7. PICK n \in Int : n = NetOf(ins, outs, from, day)
    BY <2>3
  <2>8. PICK E \in Int : E = Expected(day) /\ Expected(day)' = E + p
    <3>1. Expected(day) = base + n /\ Expected(day)' = base + (n + p)
      BY <2>3, <2>5, <2>6, <2>7
    <3>2. base + n \in Int /\ base + (n + p) = (base + n) + p
      OBVIOUS
    <3> QED BY <3>1, <3>2
  <2> SUFFICES ASSUME ~late
               PROVE  /\ E + p >= 0
                      /\ \A k \in Clerks :
                           slip[k].pc = "checked" /\ slip[k].x < 0 /\ from <= slip[k].date =>
                             (E + p) + slip[k].x >= 0
    BY <1>1, <2>2, <2>5, <2>8 DEF Spendable
  <2>9. E >= 0
    BY <2>8 DEF Spendable
  <2>10. ASSUME NEW k \in Clerks, slip[k].pc = "checked", slip[k].x < 0, from <= slip[k].date
         PROVE  (E + p) + slip[k].x >= 0
    <3>1. E + slip[k].x >= 0
      BY <2>3, <2>8, <2>10 DEF Spendable
    <3>2. slip[k] \in SlipStates
      BY <1>0 DEF Types
    <3>3. slip[k].x \in Int
      BY <3>2 DEF SlipStates
    <3> QED BY <3>1, <3>3
  <2> QED BY <2>9, <2>10
<1> QED BY <1>10, <1>11, <1>12

LEMMA InitSpend == Init => Spendable
<1> SUFFICES ASSUME Init PROVE Spendable
  OBVIOUS
<1>0. Types /\ BooksInv
  BY InitInd, InitBooks DEF IndInv
<1>1. Expected(day) = 0
  <2>1. counted[day] = NONE /\ tin = 0 /\ missed = 0
    BY <1>0 DEF Init, Types
  <2>2. Books = Expected(day)
    BY <2>1 DEF Books
  <2>3. PICK from \in Nat, base \in Nat :
          /\ Expected(day) = base + NetOf(ins, outs, from, day)
          /\ NetOf(ins, outs, from, day) \in Int
    BY <1>0, ExpectedFacts
  <2>4. Expected(day) \in Int
    BY <2>3
  <2>5. tin = Books + missed
    BY <1>0 DEF BooksInv, BooksMatchTin
  <2> QED BY <2>1, <2>2, <2>4, <2>5
<1>2. \A k \in Clerks : slip[k].pc = "idle"
  BY DEF Init, NoSlip
<1> QED BY <1>1, <1>2 DEF Spendable

LEMMA NextSpend == IndInv /\ IndInv' /\ TypeOK /\ Ahead /\ Spendable /\ [Next]_vars => Spendable'
<1> SUFFICES ASSUME IndInv, IndInv', TypeOK, Ahead, Spendable, [Next]_vars PROVE Spendable'
  OBVIOUS
<1>0. /\ Types /\ Types' /\ Days \subseteq Nat /\ day \in Days /\ day \in Nat
      /\ slip \in [Clerks -> SlipStates] /\ ins \in [Days -> Nat]
  <2>1. Types /\ Types' /\ slip \in [Clerks -> SlipStates]
    BY DEF IndInv, Types
  <2> QED BY <2>1, BooksFacts DEF TypeOK
<1>1. ASSUME NEW k \in Clerks PROVE slip[k].x \in Int /\ slip'[k].x \in Int /\ slip[k].date \in Nat
                                    /\ slip'[k].date \in Nat
  <2>1. slip[k] \in SlipStates /\ slip'[k] \in SlipStates
    BY <1>0 DEF Types
  <2> QED BY <1>0, <2>1 DEF SlipStates
<1>2. Expected(day) \in Int
  <2>1. PICK from \in Nat, base \in Nat :
          /\ Expected(day) = base + NetOf(ins, outs, from, day)
          /\ NetOf(ins, outs, from, day) \in Int
    BY <1>0, ExpectedFacts
  <2> QED BY <2>1
(* The books as they were: only a check can let a slip through. *)
<1>3. ASSUME UNCHANGED <<day, ins, outs, counted, late>>,
             \A k \in Clerks : slip'[k].pc = "checked" =>
               \/ slip[k].pc = "checked" /\ slip'[k].x = slip[k].x /\ slip'[k].date = slip[k].date
               \/ slip'[k].x < 0 => Expected(day) + slip'[k].x >= 0
      PROVE  Spendable'
  <2>1. OneEntry(ins, outs, ins', outs', day, 0)
    BY <1>0, <1>3, NoEntry
  <2>2. ~late' /\ EntriesFrom(day) <= day /\ day <= day => Expected(day) + 0 >= 0
    BY <1>2, <1>3 DEF Spendable
  <2>3. 0 \in Int /\ 0 >= 0
    OBVIOUS
  <2> QED BY <1>0, <1>1, <1>3, <2>1, <2>2, <2>3, SpendStep
<1>4. ASSUME NEW k \in Clerks, NEW x, Begin(k, x) PROVE Spendable'
  <2>1. \A j \in Clerks : slip'[j] = IF j = k THEN [pc |-> "wait", date |-> day, x |-> x] ELSE slip[j]
    BY <1>0, <1>4 DEF Begin
  <2>2. \A j \in Clerks : slip'[j].pc = "checked" => slip'[j] = slip[j]
    BY <2>1
  <2> QED BY <1>3, <1>4, <2>2 DEF Begin, bookVars, ghostVars
<1>5. ASSUME NEW k \in Clerks, Lock(k) PROVE Spendable'
  <2>1. slip' = [slip EXCEPT ![k].pc = "locked"]
    BY <1>5 DEF Lock
  <2>2. slip[k] \in SlipStates
    BY <1>0
  <2>3. slip'[k].pc = "locked" /\ \A j \in Clerks : j # k => slip'[j] = slip[j]
    BY <1>0, <2>1, <2>2 DEF SlipStates
  <2>4. \A j \in Clerks : slip'[j].pc = "checked" => slip'[j] = slip[j]
    BY <2>3
  <2> QED BY <1>3, <1>5, <2>4 DEF Lock, bookVars, ghostVars
<1>6. ASSUME NEW k \in Clerks, SlipFails(k) PROVE Spendable'
  <2>1. \A j \in Clerks : slip'[j] = IF j = k THEN NoSlip ELSE slip[j]
    BY <1>0, <1>6 DEF SlipFails
  <2>2. \A j \in Clerks : slip'[j].pc = "checked" => slip'[j] = slip[j]
    BY <2>1 DEF NoSlip
  <2> QED BY <1>3, <1>6, <2>2 DEF SlipFails, bookVars, ghostVars
<1>7. ASSUME NEW k \in Clerks, Check(k) PROVE Spendable'
  <2>1. CASE counted[day] # NONE \/ (slip[k].x < 0 /\ Expected(day) < - slip[k].x)
    <3>1. \A j \in Clerks : slip'[j] = IF j = k THEN NoSlip ELSE slip[j]
      BY <1>0, <1>7, <2>1 DEF Check
    <3>2. \A j \in Clerks : slip'[j].pc = "checked" => slip'[j] = slip[j]
      BY <3>1 DEF NoSlip
    <3> QED BY <1>3, <1>7, <3>2 DEF Check, bookVars, ghostVars
  <2>2. CASE ~(counted[day] # NONE \/ (slip[k].x < 0 /\ Expected(day) < - slip[k].x))
    <3>1. slip' = [slip EXCEPT ![k].pc = "checked"]
      BY <1>7, <2>2 DEF Check
    <3>2. slip[k] \in SlipStates
      BY <1>0
    <3>3. slip'[k].x = slip[k].x /\ \A j \in Clerks : j # k => slip'[j] = slip[j]
      BY <1>0, <3>1, <3>2 DEF SlipStates
    <3>4. slip'[k].x < 0 => Expected(day) + slip'[k].x >= 0
      BY <1>1, <1>2, <2>2, <3>3
    <3> QED BY <1>3, <1>7, <3>3, <3>4 DEF Check, bookVars, ghostVars
  <2> QED BY <2>1, <2>2
<1>8. ASSUME NEW k \in Clerks, Record(k) PROVE Spendable'
  <2>1. PICK e \in Days, x \in Int : e = slip[k].date /\ x = slip[k].x
    BY <1>8, RecordEnters
  <2>2. OneEntry(ins, outs, ins', outs', e, x) /\ e <= day
    BY <1>8, <2>1, RecordEnters
  <2>3. UNCHANGED <<day, counted, late>> /\ slip[k].pc = "checked"
    BY <1>8 DEF Record
  <2>4. \A j \in Clerks : slip'[j].pc # "checked"
    <3>1. \A j \in Clerks : slip'[j] = IF j = k THEN NoSlip ELSE slip[j]
      BY <1>0, <1>8 DEF Record
    <3>2. \A j \in Clerks : slip[j].pc = "checked" => j = k
      BY <2>3 DEF IndInv, SlipsInTurn
    <3> QED BY <3>1, <3>2 DEF NoSlip
  <2>5. ~late' /\ EntriesFrom(day) <= e /\ e <= day => Expected(day) + x >= 0
    BY <1>2, <2>1, <2>3 DEF Spendable
  <2> QED BY <1>0, <1>1, <2>2, <2>3, <2>4, <2>5, SpendStep
<1>9. ASSUME NEW c \in Closers, CloseRead(c) PROVE Spendable'
  BY <1>3, <1>9 DEF CloseRead, bookVars, ghostVars
<1>10. ASSUME NEW c \in Closers, CloseInsert(c) PROVE Spendable'
  <2>1. UNCHANGED <<day, ins, outs, slip>>
    BY <1>10 DEF CloseInsert
  <2>2. PICK d \in Days : d = close[c].day
    BY <1>0, BooksFacts
  <2>3. CASE counted[d] # NONE
    BY <1>3, <1>10, <2>1, <2>2, <2>3 DEF CloseInsert
  <2>4. CASE counted[d] = NONE
    <3>1. counted' = [counted EXCEPT ![d] = close[c].count] /\ late' = (late \/ d < day)
      BY <1>10, <2>2, <2>4 DEF CloseInsert
    <3>2. CASE d < day
      <4>1. late'
        BY <3>1, <3>2
      <4> QED BY <4>1 DEF Spendable
    <3>3. CASE ~(d < day)
      <4>1. \A e \in Days : e < day => counted'[e] = counted[e]
        BY <1>0, <3>1, <3>3 DEF Types
      <4>2. late' <=> late
        BY <3>1, <3>3
      <4>3. OneEntry(ins, outs, ins', outs', day, 0)
        BY <1>0, <2>1, NoEntry
      <4>4. ~late' /\ EntriesFrom(day) <= day /\ day <= day => Expected(day) + 0 >= 0
        BY <1>2, <4>2 DEF Spendable
      <4>5. 0 \in Int /\ 0 >= 0
        OBVIOUS
      <4> QED BY <1>0, <1>1, <2>1, <4>1, <4>2, <4>3, <4>4, <4>5, SpendStep
    <3> QED BY <3>2, <3>3
  <2> QED BY <2>3, <2>4
<1>11. ASSUME NEW b \in Bookings, NEW d, NEW a, Book(b, d, a) \/ Cancel(b) PROVE Spendable'
  BY <1>3, <1>11 DEF Book, Cancel, bookVars, ghostVars
<1>12. ASSUME NEW b \in Bookings, BookInsert(b) PROVE Spendable'
  <2>1. PICK e \in Days, x \in Int : e = booked[b].day /\ x = booked[b].amount /\ x >= 0
    <3>1. booked[b].day \in Days /\ booked[b].amount \in Nat
      BY <1>0, BookingFacts
    <3> QED BY <3>1
  <2>2. UNCHANGED <<day, counted, outs, slip, late>> /\ ins' = [ins EXCEPT ![e] = @ + x]
    BY <1>12, <2>1 DEF BookInsert
  <2>3. OneEntry(ins, outs, ins', outs', e, x)
    BY <1>0, <2>2, InsMove
  <2>4. ~late' /\ EntriesFrom(day) <= e /\ e <= day => Expected(day) + x >= 0
    BY <1>2, <2>1, <2>2 DEF Spendable
  <2> QED BY <1>0, <1>1, <2>1, <2>2, <2>3, <2>4, SpendStep
<1>13. ASSUME NEW b \in Bookings, CancelDelete(b) PROVE Spendable'
  <2>1. CASE ~StillAhead(b)
    BY <1>3, <1>13, <2>1 DEF CancelDelete
  <2>2. CASE StillAhead(b)
    <3>1. PICK e \in Days, x \in Int : e = booked[b].day /\ x = - booked[b].amount
      <4>1. booked[b].day \in Days /\ booked[b].amount \in Nat
        BY <1>0, BookingFacts
      <4>2. - booked[b].amount \in Int
        BY <4>1
      <4> QED BY <4>1, <4>2
    <3>2. UNCHANGED <<day, counted, outs, slip>> /\ late' = (late \/ (booked[b].read < day /\ e <= day))
      BY <1>13, <2>2, <3>1 DEF CancelDelete
    <3>3. OneEntry(ins, outs, ins', outs', e, x)
      BY <1>0, <1>13, <2>2, <3>1, CancelEnters
    <3>4. ASSUME ~late' PROVE e > day
      <4>1. booked[b].read \in Nat /\ e \in Nat /\ e > booked[b].read
        BY <1>0, <2>2, <3>1, BookingFacts DEF StillAhead
      <4>2. ~(booked[b].read < day /\ e <= day)
        BY <3>2, <3>4
      <4> QED BY <1>0, <4>1, <4>2
    <3>5. e \in Nat /\ (late => late')
      BY <1>0, <3>2
    <3>6. ~late' /\ EntriesFrom(day) <= e /\ e <= day => Expected(day) + x >= 0
      BY <1>0, <3>4, <3>5
    <3>7. x >= 0 \/ late' \/ e > day
      BY <3>4
    <3> QED BY <1>0, <1>1, <3>2, <3>3, <3>5, <3>6, <3>7, SpendStep
  <2> QED BY <2>1, <2>2
<1>14. CASE Midnight
  BY <1>14, MidnightSpend
<1>15. CASE UNCHANGED vars
  BY <1>3, <1>15 DEF vars, bookVars, requestVars, ghostVars
<1> QED BY <1>4, <1>5, <1>6, <1>7, <1>8, <1>9, <1>10, <1>11, <1>12, <1>13, <1>14, <1>15 DEF Next

(* Until a close or a cancellation comes late the day can pay the slip that  *)
(* has been checked, on every run.                                           *)
THEOREM SpendInvariance == Spec => []Spendable
<1>1. BooksInv => Ahead
  BY DEF BooksInv
<1> QED BY <1>1, InitSpend, NextSpend, PettyCashInvariance, BooksInvariance, PettyCashTyped, PTL DEF Spec

(* The books show what the tin holds, but for the slips that came in after   *)
(* the count of their day was taken, for every week and every number of      *)
(* clerks, closes and bookings.                                              *)
THEOREM PettyCashBooksMatch == Spec => []BooksMatchTin
<1>1. BooksInv => BooksMatchTin
  BY DEF BooksInv
<1> QED BY <1>1, BooksInvariance, PTL

(* No two slips spend the same money: a day goes below zero only when a       *)
(* close or a cancellation that had read the date lands after midnight.       *)
THEOREM PettyCashNeverOverspent == Spec => []NeverOverspent
<1>1. IndInv /\ Spendable => NeverOverspent
  <2> SUFFICES ASSUME IndInv, Spendable, ~late PROVE ~(Expected(day) < 0)
    BY DEF NeverOverspent
  <2>1. Types
    BY DEF IndInv
  <2>2. PICK from \in Nat, base \in Nat :
          /\ Expected(day) = base + NetOf(ins, outs, from, day)
          /\ NetOf(ins, outs, from, day) \in Int
    BY <2>1, ExpectedFacts
  <2>3. Expected(day) \in Int /\ Expected(day) >= 0
    BY <2>2 DEF Spendable
  <2> QED BY <2>3
<1> QED BY <1>1, SpendInvariance, PettyCashInvariance, PTL
=============================================================================
