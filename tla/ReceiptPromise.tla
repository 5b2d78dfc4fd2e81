--------------------------- MODULE ReceiptPromise ---------------------------
(***************************************************************************)
(* What the print queue promises about one receipt (0033_print_queue.sql): *)
(* at most once, plus a question to a person.  There is no agent, token,   *)
(* message, marker or clock here; only what the shop sees of the receipt,  *)
(* the paper in its hand and the answers its people give.                  *)
(***************************************************************************)
EXTENDS Naturals

CONSTANT Staff

VARIABLES
  shown,    \* what the queue says of the receipt
  printed,  \* copies on paper
  asked,    \* how often a person asked for another copy
  answer    \* what each person was asked and is about to answer

vars == <<shown, printed, asked, answer>>

(* Nobody holds a copy too many, so one may come out. *)
Owed == printed <= asked

Init ==
  /\ shown = "queued" /\ printed = 0 /\ asked = 0
  /\ answer = [s \in Staff |-> "none"]

(* A till PC takes the receipt off the queue. *)
Take ==
  /\ shown = "queued" /\ shown' = "leased"
  /\ UNCHANGED <<printed, asked, answer>>

(* Paper comes out, whatever has become of the row since. *)
PaperOut ==
  /\ printed' = printed + 1 /\ Owed
  /\ UNCHANGED <<shown, asked, answer>>

(* The PC's word closes it only while the PC has it out, and is true. *)
Confirm ==
  /\ shown = "leased" /\ shown' = "printed"
  /\ printed > 0
  /\ UNCHANGED <<printed, asked, answer>>

(* Nobody's word: a question, an end, or another try while a copy is owed. *)
(* What is printed or deleted is not touched.                              *)
Return ==
  /\ shown' # shown /\ shown \notin {"printed", "deleted"}
  /\ shown' \in {"unconfirmed", "failed"} \/ (shown' = "queued" /\ Owed)
  /\ UNCHANGED <<printed, asked, answer>>

(* A person is asked ...                                                   *)
Question(s) ==
  /\ shown \in {"unconfirmed", "failed"} /\ answer[s] = "none"
  /\ \E said \in {"it printed", "print it again"} : answer' = [answer EXCEPT ![s] = said]
  /\ UNCHANGED <<shown, printed, asked>>

(* ... and answers, perhaps after things have moved on.  An answer about a *)
(* receipt that is out, or gone, counts for nothing.                       *)
Reply(s) ==
  /\ answer[s] # "none" /\ answer' = [answer EXCEPT ![s] = "none"]
  /\ \/ shown \in {"leased", "deleted"} /\ UNCHANGED <<shown, asked>>
     \/ /\ shown \notin {"leased", "deleted"}
        /\ \/ answer[s] = "it printed" /\ shown' = "printed" /\ asked' = asked
           \/ answer[s] = "print it again" /\ shown' = "queued" /\ asked' = asked + 1
  /\ UNCHANGED printed

(* Old receipts are cleared away, and do not come back. *)
Discard ==
  /\ shown' = "deleted"
  /\ UNCHANGED <<printed, asked, answer>>

Next ==
  \/ Take \/ PaperOut \/ Confirm \/ Return \/ Discard
  \/ \E s \in Staff : Question(s) \/ Reply(s)

Spec == Init /\ [][Next]_vars
=============================================================================
