------------------------------ MODULE PrintWake ------------------------------
(***************************************************************************)
(* How a queued print job reaches a waiting agent: the long poll, the      *)
(* announcements inside one API process, the slow timer behind them, and   *)
(* the sweeps that age jobs out of the queue and delete them               *)
(* (routes/print.routes.ts, lib/printNotify.ts, lib/printRetention.ts;     *)
(* migrations 0033, 0090).                                                 *)
(*                                                                         *)
(* What happens to a job between its lease and its paper is PrintQueue's;  *)
(* here a lease just ends in one of the ways it can.  One agent loop, one  *)
(* shop, one target: each has its own channel and they do not meet.        *)
(***************************************************************************)
EXTENDS Naturals

CONSTANTS
  Jobs,         \* rows of print_jobs
  Processes,    \* API processes behind the one address
  Requests,     \* GET /print/jobs/next requests that may be open at once
  MaxNaps,      \* waits of SAFETY_POLL_MS in one request's waitSeconds
  MaxQueued,    \* bound: times one job may enter the queue
  MaxCrashes,   \* bound: API processes that die
  NONE

ASSUME PrintWakeAssumption ==
  /\ NONE \notin Jobs \cup Processes
  /\ MaxNaps \in Nat /\ MaxQueued \in Nat /\ MaxCrashes \in Nat

VARIABLES
  status,   \* per job: print_jobs.status, "none" before and "deleted" after it exists
  age,      \* per job: 0, 1 past the stale window, 2 past print_job_retention_days
  queuedBy, \* per job: times it entered the queue
  news,     \* <<process, job>>: committed, notifyPrintJob not called yet
  bus,      \* per process: requests listening on its event bus
  req,      \* per request: where its handler stands
  inHand,   \* leased jobs whose agent received them
  due,      \* jobs the running purge has listed and not deleted yet
  reopened, \* of those listed, the jobs requeued since
  crashes

jobVars == <<status, age, queuedBy>>
purgeVars == <<due, reopened>>
vars == <<jobVars, news, bus, req, inHand, purgeVars, crashes>>

NoRequest == [pc |-> "none", on |-> NONE, gone |-> FALSE, naps |-> 0, job |-> NONE]

Init ==
  /\ status = [j \in Jobs |-> "none"]
  /\ age = [j \in Jobs |-> 0]
  /\ queuedBy = [j \in Jobs |-> 0]
  /\ news = {}
  /\ bus = [i \in Processes |-> {}]
  /\ req = [q \in Requests |-> NoRequest]
  /\ inHand = {}
  /\ due = {}
  /\ reopened = {}
  /\ crashes = 0

-----------------------------------------------------------------------------
(* Into the queue.  The row commits first and is announced after, inside   *)
(* the process that wrote it.                                              *)

Queue(j) ==
  /\ queuedBy[j] < MaxQueued
  /\ status' = [status EXCEPT ![j] = "queued"]
  /\ queuedBy' = [queuedBy EXCEPT ![j] = @ + 1]
  /\ reopened' = IF j \in due THEN reopened \cup {j} ELSE reopened

Enqueue(j, i) ==
  /\ status[j] = "none"
  /\ Queue(j)
  /\ news' = news \cup {<<i, j>>}
  /\ UNCHANGED <<age, bus, req, inHand, due, crashes>>

(* POST /print/jobs/:id/resolve: staff answer an unconfirmed or failed job. *)
Reprint(j, i) ==
  /\ status[j] \in {"unconfirmed", "failed"}
  /\ Queue(j)
  /\ news' = news \cup {<<i, j>>}
  /\ UNCHANGED <<age, bus, req, inHand, due, crashes>>

SayPrinted(j) ==
  /\ status[j] \in {"unconfirmed", "failed"}
  /\ status' = [status EXCEPT ![j] = "printed"]
  /\ UNCHANGED <<age, queuedBy, news, bus, req, inHand, purgeVars, crashes>>

(* notifyPrintJob wakes the listeners of its own process and no other.     *)
Announce(i, j) ==
  /\ <<i, j>> \in news
  /\ news' = news \ {<<i, j>>}
  /\ req' = [q \in Requests |->
               IF q \in bus[i] THEN [req[q] EXCEPT !.pc = "claim"] ELSE req[q]]
  /\ bus' = [bus EXCEPT ![i] = {}]
  /\ UNCHANGED <<jobVars, inHand, purgeVars, crashes>>

-----------------------------------------------------------------------------
(* GET /print/jobs/next. *)

(* The agent's loop: the next request once it has none it still waits for. *)
Open(q, i) ==
  /\ req[q].pc = "none"
  /\ \A r \in Requests : req[r].pc = "none" \/ req[r].gone
  /\ req' = [req EXCEPT ![q] = [pc |-> "claim", on |-> i, gone |-> FALSE, naps |-> MaxNaps,
                                job |-> NONE]]
  /\ UNCHANGED <<jobVars, news, bus, inHand, purgeVars, crashes>>

(* The connection drops; the handler hears of it (req.on 'close').         *)
Disconnect(q) ==
  /\ req[q].pc # "none"
  /\ req' = [req EXCEPT ![q].gone = TRUE]
  /\ UNCHANGED <<jobVars, news, bus, inHand, purgeVars, crashes>>

(* claim_print_job leases the oldest queued job, here any.  The loop claims *)
(* at its top, before it looks whether the client is still there.           *)
Claim(q) ==
  /\ req[q].pc = "claim"
  /\ \/ \E j \in Jobs :
          /\ status[j] = "queued"
          /\ status' = [status EXCEPT ![j] = "leased"]
          /\ req' = [req EXCEPT ![q].pc = "answer", ![q].job = j]
     \/ /\ \A j \in Jobs : status[j] # "queued"
        /\ req' = [req EXCEPT ![q].pc = "empty"]
        /\ UNCHANGED status
  /\ UNCHANGED <<age, queuedBy, news, bus, inHand, purgeVars, crashes>>

(* res.json: the job arrives unless nobody listens any more.               *)
Answer(q) ==
  /\ req[q].pc = "answer"
  /\ inHand' = IF req[q].gone \/ status[req[q].job] # "leased" THEN inHand
               ELSE inHand \cup {req[q].job}
  /\ req' = [req EXCEPT ![q] = NoRequest]
  /\ UNCHANGED <<jobVars, news, bus, purgeVars, crashes>>

(* Mutant: a request has no deadline. *)
NeverOver(q) == req[q].gone
Over(q) == req[q].gone \/ req[q].naps = 0

(* 204: the client has gone or its time is up.                             *)
GiveUp(q) ==
  /\ req[q].pc = "empty"
  /\ Over(q)
  /\ req' = [req EXCEPT ![q] = NoRequest]
  /\ UNCHANGED <<jobVars, news, bus, inHand, purgeVars, crashes>>

(* waitForPrintJob: from here, and not before, it hears announcements.     *)
Park(q) ==
  /\ req[q].pc = "empty"
  /\ ~Over(q)
  /\ req' = [req EXCEPT ![q].pc = "parked"]
  /\ bus' = [bus EXCEPT ![req[q].on] = @ \cup {q}]
  /\ UNCHANGED <<jobVars, news, inHand, purgeVars, crashes>>

(* Mutant: the listener of a request that ended this way stays.            *)
FinishLeaks(q) == UNCHANGED bus
(* finish() takes the listener off on every way out.                       *)
Finish(q) == bus' = [bus EXCEPT ![req[q].on] = @ \ {q}]

(* Mutant: "Deleting the timer would work perfectly on one instance and    *)
(* lose jobs silently on two."                                             *)
NoTimer(q) == req[q].pc = "parked" /\ req[q].gone /\ UNCHANGED vars
(* Mutant: the deadline is set anew on every turn of the loop.              *)
TimerRenews(q) ==
  /\ req[q].pc = "parked"
  /\ req' = [req EXCEPT ![q].pc = "claim", ![q].naps = MaxNaps]
  /\ Finish(q)
  /\ UNCHANGED <<jobVars, news, inHand, purgeVars, crashes>>
Timer(q) ==
  /\ req[q].pc = "parked"
  /\ req' = [req EXCEPT ![q].pc = "claim", ![q].naps = @ - 1]
  /\ Finish(q)
  /\ UNCHANGED <<jobVars, news, inHand, purgeVars, crashes>>

AbortCheck(q) ==
  /\ req[q].pc = "parked" /\ req[q].gone
  /\ req' = [req EXCEPT ![q].pc = "claim"]
  /\ Finish(q)
  /\ UNCHANGED <<jobVars, news, inHand, purgeVars, crashes>>

(* An API process dies with its requests, its bus and what it had not said. *)
Crash(i) ==
  /\ crashes < MaxCrashes
  /\ crashes' = crashes + 1
  /\ req' = [q \in Requests |-> IF req[q].on = i THEN NoRequest ELSE req[q]]
  /\ bus' = [bus EXCEPT ![i] = {}]
  /\ news' = {n \in news : n[1] # i}
  /\ UNCHANGED <<jobVars, inHand, purgeVars>>

-----------------------------------------------------------------------------
(* Out of the lease: acknowledged, failed, or expired. *)

Settled(j, s) ==
  /\ status' = [status EXCEPT ![j] = s]
  /\ UNCHANGED <<queuedBy, reopened>>

(* POST .../ack and .../fail; a requeued job is announced.                 *)
AgentEnds(j, i) ==
  /\ j \in inHand /\ status[j] = "leased"
  /\ \/ \E s \in {"printed", "unconfirmed", "failed"} : Settled(j, s) /\ UNCHANGED news
     \/ Queue(j) /\ news' = news \cup {<<i, j>>}
  /\ inHand' = inHand \ {j}
  /\ UNCHANGED <<age, bus, req, due, crashes>>

(* expire_print_leases, from any process; it announces nothing.            *)
LeaseExpires(j) ==
  /\ status[j] = "leased"
  /\ Queue(j) \/ \E s \in {"unconfirmed", "failed"} : Settled(j, s)
  /\ inHand' = inHand \ {j}
  /\ UNCHANGED <<age, news, bus, req, due, crashes>>

-----------------------------------------------------------------------------
(* Ageing, staleness and the purge (scripts/purge-print-jobs.ts). *)

Age(j) ==
  /\ status[j] \notin {"none", "deleted"} /\ age[j] < 2
  /\ age' = [age EXCEPT ![j] = @ + 1]
  /\ UNCHANGED <<status, queuedBy, news, bus, req, inHand, purgeVars, crashes>>

(* expire_stale_print_jobs; both windows are shorter than retention.       *)
Stale(j) == status[j] = "queued" /\ age[j] > 0
ExpireStale ==
  /\ \E j \in Jobs : Stale(j)
  /\ status' = [j \in Jobs |-> IF Stale(j) THEN "failed" ELSE status[j]]
  /\ UNCHANGED <<age, queuedBy, news, bus, req, inHand, purgeVars, crashes>>

(* Mutant: everything old is due, whatever it waits for.                   *)
DueWhateverStatus(j) == status[j] \notin {"none", "deleted"} /\ age[j] = 2
DueForDeletion(j) == status[j] \in {"printed", "failed"} /\ age[j] = 2

(* print_jobs_due_for_deletion lists them; one DELETE by id follows each.  *)
ListDue ==
  /\ due = {} /\ \E j \in Jobs : DueForDeletion(j)
  /\ due' = {j \in Jobs : DueForDeletion(j)}
  /\ reopened' = {}
  /\ UNCHANGED <<jobVars, news, bus, req, inHand, crashes>>

Delete(j) ==
  /\ j \in due
  /\ status' = [status EXCEPT ![j] = "deleted"]
  /\ due' = due \ {j}
  /\ reopened' = reopened \ {j}
  /\ inHand' = inHand \ {j}
  /\ UNCHANGED <<age, queuedBy, news, bus, req, crashes>>

(* A DELETE that fails is counted and left for the next run.               *)
DeleteFails(j) ==
  /\ j \in due
  /\ due' = due \ {j}
  /\ reopened' = reopened \ {j}
  /\ UNCHANGED <<jobVars, news, bus, req, inHand, crashes>>

-----------------------------------------------------------------------------
Poll(q) == Claim(q) \/ Answer(q) \/ GiveUp(q) \/ Park(q)

Next ==
  \/ \E j \in Jobs, i \in Processes :
       Enqueue(j, i) \/ Reprint(j, i) \/ Announce(i, j) \/ AgentEnds(j, i)
  \/ \E j \in Jobs : SayPrinted(j) \/ LeaseExpires(j) \/ Age(j) \/ Delete(j) \/ DeleteFails(j)
  \/ \E q \in Requests, i \in Processes : Open(q, i)
  \/ \E q \in Requests : Poll(q) \/ Disconnect(q) \/ Timer(q) \/ AbortCheck(q)
  \/ \E i \in Processes : Crash(i)
  \/ ExpireStale \/ ListDue

Spec == Init /\ [][Next]_vars

(* The agent's loop runs while the shop is open, a request that was        *)
(* accepted is worked on, and timers fire.  Nothing makes an announcement  *)
(* arrive, a connection last, or a sweep run.                              *)
Fairness ==
  /\ WF_vars(\E q \in Requests, i \in Processes : Open(q, i))
  /\ \A q \in Requests : WF_vars(Poll(q)) /\ WF_vars(Timer(q)) /\ WF_vars(AbortCheck(q))
FairSpec == Spec /\ Fairness

-----------------------------------------------------------------------------
Statuses == {"none", "queued", "leased", "unconfirmed", "printed", "failed", "deleted"}
RequestStates ==
  [pc : {"none", "claim", "answer", "empty", "parked"}, on : Processes \cup {NONE},
   gone : BOOLEAN, naps : 0 .. MaxNaps, job : Jobs \cup {NONE}]

(* The variables hold what their comments say. *)
TypeOK ==
  /\ status \in [Jobs -> Statuses]
  /\ age \in [Jobs -> 0 .. 2]
  /\ queuedBy \in [Jobs -> 0 .. MaxQueued]
  /\ news \in SUBSET (Processes \X Jobs)
  /\ bus \in [Processes -> SUBSET Requests]
  /\ req \in [Requests -> RequestStates]
  /\ inHand \in SUBSET Jobs
  /\ due \in SUBSET Jobs
  /\ reopened \in SUBSET due
  /\ crashes \in 0 .. MaxCrashes

(* "The listener is removed on every exit path": the listeners of a process *)
(* are exactly its parked requests, whether they woke by an announcement,   *)
(* by the timer or because the client left, and nothing survives a crash.   *)
(* Each of them still has time to wait.                                     *)
ListenersAreParked ==
  /\ \A i \in Processes : bus[i] = {q \in Requests : req[q].pc = "parked" /\ req[q].on = i}
  /\ \A q \in Requests : req[q].pc = "parked" => req[q].naps > 0

(* The purge deletes a job that still waits for the printer or for a person *)
(* only if it was put back in the queue after the purge had listed it.      *)
PurgeTakesFinished ==
  [][\A j \in Jobs :
       status'[j] = "deleted" /\ status[j] \notin {"printed", "failed", "deleted"}
         => j \in reopened]_vars

(* "The timer is the correctness guarantee": a queued job leaves the queue  *)
(* though its announcement went to another process, came between a claim    *)
(* and the wait, died with the process, or was never made.                  *)
JobIsSeen == \A j \in Jobs : status[j] = "queued" ~> status[j] # "queued"

(* Every request ends, with a job or without: none holds its handler on.    *)
RequestsEnd == \A q \in Requests : req[q].pc = "claim" ~> req[q].pc = "none"

(* "Aborts the moment the client disconnects" (print.routes.ts l. 231): a   *)
(* handler that has heard its client leave takes no job.  It does (README). *)
GoneTakesNoJob ==
  [][\A q \in Requests : req[q].gone /\ req[q].pc = "claim" => req'[q].pc # "answer"]_vars

-----------------------------------------------------------------------------
(* Why they hold: a request that is open runs in some process, one that     *)
(* answers has a job, and what the purge has listed is finished until       *)
(* somebody puts it back.                                                   *)
OpenRequestsRun ==
  \A q \in Requests : /\ req[q].pc # "none" => req[q].on \in Processes
                      /\ req[q].pc = "answer" => req[q].job \in Jobs
ListedIsFinished == \A j \in due : status[j] \in {"printed", "failed"} \/ j \in reopened

IndInv == TypeOK /\ ListenersAreParked /\ OpenRequestsRun /\ ListedIsFinished
=============================================================================
