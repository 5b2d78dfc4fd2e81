------------------------------ MODULE PrintQueue ------------------------------
(***************************************************************************)
(* The print queue of one shop: the print_jobs table and the API handlers  *)
(* that move its rows, the agents on the till PCs that lease jobs and put  *)
(* paper out, the staff who answer the "did it print?" question, and the   *)
(* housekeeping script that reclaims leases and purges old rows.           *)
(*                                                                         *)
(* The API is a set of handlers whose SQL statements interleave freely: a  *)
(* handler that reads a row and later writes it is two actions.  A request *)
(* may be lost, its reply may be lost, and one the client has given up on  *)
(* may still be processed later.  A till PC may be switched off at any     *)
(* step; what survives is the marker files on its disk.                    *)
(*                                                                         *)
(* Time is not modelled: any lease may have run out when the sweep looks,  *)
(* any queued job may be stale, any terminal job may be past retention.    *)
(***************************************************************************)
EXTENDS Naturals, FiniteSets

CONSTANTS
  Jobs,         \* row ids, in the order they are inserted (created_at)
  Receipts,     \* the jobs whose target is the receipt printer
  Agents,       \* rows of print_agents, one per issued token
  Hosts,        \* till PCs running the agent
  TokenOf,      \* the agent whose token each PC's config file holds
  Staff,        \* people answering the attention list
  MaxAttempts,  \* print_jobs.max_attempts
  MaxBoots,     \* bound: restarts of each till PC
  MaxAnswers,   \* bound: answers staff ever give
  NONE          \* SQL null

ASSUME JobsAssumption == Jobs \subseteq Nat /\ Receipts \subseteq Jobs
ASSUME TokenAssumption == TokenOf \in [Hosts -> Agents]
ASSUME BoundsAssumption ==
  MaxAttempts \in Nat \ {0} /\ MaxBoots \in [Hosts -> Nat] /\ MaxAnswers \in Nat
ASSUME NoneAssumption == NONE \notin Jobs /\ NONE \notin Agents

VARIABLES
  status,     \* print_jobs.status, "absent" before the insert, "deleted" after the purge
  owner,      \* print_jobs.lease_owner
  attempts,   \* print_jobs.attempts: claims so far, so also the number of the latest lease
  issued,     \* the agents that have been created
  primary,    \* the agent with is_primary, or NONE
  revoked,    \* the agents with revoked_at set
  worker,     \* one PrintWorker per PC and target
  marker,     \* marker files on each PC's disk
  recovery,   \* recoverOrphanedMarkers on each PC
  boot,       \* how often each PC has been restarted
  requests,   \* ack and fail requests the API has not finished with
  decision,   \* each person's /resolve request between its SELECT and its UPDATE
  answers,    \* how many /resolve requests have been made
  due,        \* rows the running purge has listed and not yet deleted
  prints,     \* history: how often each job's bytes went to a printer
  paper,      \* history: the leases under which they went
  refused,    \* history: the leases reported as never having reached a printer
  requeued,   \* history: the refusals that put the job back on the queue
  reprints    \* history: how often a person put the job back on the queue

jobVars   == <<status, owner, attempts>>
agentVars == <<issued, primary, revoked>>
hostVars  == <<worker, marker, recovery, boot>>
staffVars == <<decision, answers>>
histVars  == <<prints, paper, refused, requeued, reprints>>
vars == <<jobVars, agentVars, hostVars, requests, staffVars, due, histVars>>

-----------------------------------------------------------------------------

Targets  == {"receipt", "label"}
Statuses == {"absent", "queued", "leased", "printed", "unconfirmed", "failed", "deleted"}
Replies  == {"none", "ok", "gone"}

Target(j) == IF j \in Receipts THEN "receipt" ELSE "label"

Workers == [pc : {"idle", "claimed", "marked", "sent", "acking", "reporting"},
            job : Jobs \union {NONE}, lease : Nat, reached : BOOLEAN, reply : Replies]

IdleWorker == [pc |-> "idle", job |-> NONE, lease |-> 0, reached |-> FALSE, reply |-> "none"]

(* Only `op`, `job`, `reached` and the token travel on the wire.  The rest  *)
(* says which send this is (no handler reads it) and how far it has got.   *)
Requests == [op : {"ack", "fail"}, by : {"worker", "recovery"}, host : Hosts, boot : Nat,
             job : Jobs, lease : Nat, reached : BOOLEAN,
             stage : {"sent", "read"}, next : Statuses]

Request(op, by, h, j, n, reached) ==
  [op |-> op, by |-> by, host |-> h, boot |-> boot[h], job |-> j, lease |-> n,
   reached |-> reached, stage |-> "sent", next |-> "queued"]

Recoveries == [todo : SUBSET Jobs, cur : Jobs \union {NONE}, reply : Replies]

IdleRecovery == [todo |-> {}, cur |-> NONE, reply |-> "none"]

Decisions == [job : Jobs, printed : BOOLEAN]

(* Where a job goes when its lease ends without paper: back on the queue   *)
(* while attempts remain.                                                  *)
RetryOnceMore(j) == IF attempts[j] <= MaxAttempts THEN "queued" ELSE "failed"
RetryOrFail(j) == IF attempts[j] < MaxAttempts THEN "queued" ELSE "failed"

(* requireAgent, and the ownership test that /fail repeats.                *)
Authentic(h) == TokenOf[h] \in issued \ revoked
HoldsLease(h, j) == status[j] = "leased" /\ owner[j] = TokenOf[h]

Init ==
  /\ status = [j \in Jobs |-> "absent"]
  /\ owner = [j \in Jobs |-> NONE]
  /\ attempts = [j \in Jobs |-> 0]
  /\ issued = {} /\ primary = NONE /\ revoked = {}
  /\ worker = [w \in Hosts \X Targets |-> IdleWorker]
  /\ marker = [h \in Hosts |-> {}]
  /\ recovery = [h \in Hosts |-> IdleRecovery]
  /\ boot = [h \in Hosts |-> 0]
  /\ requests = {}
  /\ decision = [s \in Staff |-> NONE] /\ answers = 0
  /\ due = {}
  /\ prints = [j \in Jobs |-> 0]
  /\ paper = [j \in Jobs |-> {}]
  /\ refused = [j \in Jobs |-> {}]
  /\ requeued = [j \in Jobs |-> {}]
  /\ reprints = [j \in Jobs |-> 0]

-----------------------------------------------------------------------------
(* Owner: issuing and revoking agent tokens.                               *)

(* POST /agents {primary}, first statement: demote whoever is primary.     *)
DemotePrimary ==
  /\ primary # NONE
  /\ primary' = NONE
  /\ UNCHANGED <<jobVars, issued, revoked, hostVars, requests, staffVars, due, histVars>>

(* POST /agents, the insert.  A second primary violates the unique index.  *)
IssueAgent(a, isPrimary) ==
  /\ a \notin issued
  /\ isPrimary => primary = NONE
  /\ issued' = issued \union {a}
  /\ primary' = IF isPrimary THEN a ELSE primary
  /\ UNCHANGED <<jobVars, revoked, hostVars, requests, staffVars, due, histVars>>

(* POST /agents/:id/revoke.                                                *)
RevokeAgent(a) ==
  /\ a \in issued \ revoked
  /\ revoked' = revoked \union {a}
  /\ primary' = IF primary = a THEN NONE ELSE primary
  /\ UNCHANGED <<jobVars, issued, hostVars, requests, staffVars, due, histVars>>

-----------------------------------------------------------------------------
(* Enqueueing and claiming.                                                *)

(* POST /jobs.  The unique dedupe_key makes a second press of the button a *)
(* no-op that answers with the existing row, so only the insert is a step. *)
Enqueue(j) ==
  /\ status[j] = "absent"
  /\ \A i \in Jobs : i < j => status[i] # "absent"
  /\ status' = [status EXCEPT ![j] = "queued"]
  /\ UNCHANGED <<owner, attempts, agentVars, hostVars, requests, staffVars, due, histVars>>

(* Mutant: the claim does not count itself.                                *)
ClaimedUncounted(a, t, j) ==
  /\ a = primary
  /\ status[j] = "queued" /\ Target(j) = t
  /\ status' = [status EXCEPT ![j] = "leased"]
  /\ owner' = [owner EXCEPT ![j] = a]
  /\ UNCHANGED attempts

(* claim_print_job: only the primary, and the oldest queued job first.     *)
ClaimedBy(a, t, j) ==
  /\ a = primary
  /\ status[j] = "queued" /\ Target(j) = t
  /\ \A i \in Jobs : (status[i] = "queued" /\ Target(i) = t) => j <= i
  /\ status' = [status EXCEPT ![j] = "leased"]
  /\ owner' = [owner EXCEPT ![j] = a]
  /\ attempts' = [attempts EXCEPT ![j] = @ + 1]

(* Mutant: an empty answer is handled as if it were a job.                 *)
ClaimUnchecked(h, t, j) ==
  /\ worker[<<h, t>>].pc = "idle" /\ status[j] # "queued"
  /\ worker' = [worker EXCEPT ![<<h, t>>].pc = "claimed"]
  /\ UNCHANGED <<jobVars, agentVars, marker, recovery, boot, requests, staffVars, due, histVars>>

(* GET /jobs/next answered in time: the worker's loop has a job to handle. *)
Claim(h, t, j) ==
  /\ worker[<<h, t>>].pc = "idle"
  /\ ClaimedBy(TokenOf[h], t, j)
  /\ worker' = [worker EXCEPT ![<<h, t>>] =
       [pc |-> "claimed", job |-> j, lease |-> attempts[j] + 1,
        reached |-> FALSE, reply |-> "none"]]
  /\ UNCHANGED <<agentVars, marker, recovery, boot, requests, staffVars, due, histVars>>

(* The same claim when the answer never arrives: the connection dropped,   *)
(* the client timed out or the PC lost power while the poll was parked.    *)
ClaimLost(a, t, j) ==
  /\ ClaimedBy(a, t, j)
  /\ UNCHANGED <<agentVars, hostVars, requests, staffVars, due, histVars>>

-----------------------------------------------------------------------------
(* The worker: render, marker, send, report, in that order.                *)

(* The job was not printed and the worker can prove it: report             *)
(* reachedPrinter = false.                                                 *)
ReportUnprinted(h, t) ==
  LET w == worker[<<h, t>>] IN
  /\ worker' = [worker EXCEPT ![<<h, t>>] =
       [w EXCEPT !.pc = "reporting", !.reached = FALSE]]
  /\ requests' = requests \union {Request("fail", "worker", h, w.job, w.lease, FALSE)}
  /\ refused' = [refused EXCEPT ![w.job] = @ \union {w.lease}]
  /\ UNCHANGED <<jobVars, agentVars, marker, recovery, boot, staffVars, due,
                 prints, paper, requeued, reprints>>

(* Rendering threw, or the marker could not be written.                    *)
CannotPrepare(h, t) == worker[<<h, t>>].pc = "claimed" /\ ReportUnprinted(h, t)

(* The transport failed at a stage before any byte could leave.            *)
TransportRefuses(h, t) == worker[<<h, t>>].pc = "marked" /\ ReportUnprinted(h, t)

(* writeMarker: fsync and rename, before a single byte is sent.            *)
WriteMarker(h, t) ==
  /\ worker[<<h, t>>].pc = "claimed"
  /\ worker' = [worker EXCEPT ![<<h, t>>].pc = "marked"]
  /\ marker' = [marker EXCEPT ![h] = @ \union {worker[<<h, t>>].job}]
  /\ UNCHANGED <<jobVars, agentVars, recovery, boot, requests, staffVars, due, histVars>>

(* The transport hands the bytes to the printer.                           *)
BytesLeave(h, t) ==
  LET w == worker[<<h, t>>] IN
  /\ w.pc = "marked"
  /\ worker' = [worker EXCEPT ![<<h, t>>].pc = "sent"]
  /\ prints' = [prints EXCEPT ![w.job] = @ + 1]
  /\ paper' = [paper EXCEPT ![w.job] = @ \union {w.lease}]
  /\ UNCHANGED <<jobVars, agentVars, marker, recovery, boot, requests, staffVars, due,
                 refused, requeued, reprints>>

(* Mutant: success is reported although nothing was sent.                  *)
SucceedsBlank(h, t) ==
  LET w == worker[<<h, t>>] IN
  /\ w.pc \in {"marked", "sent"}
  /\ worker' = [worker EXCEPT ![<<h, t>>].pc = "acking"]
  /\ requests' = requests \union {Request("ack", "worker", h, w.job, w.lease, TRUE)}
  /\ UNCHANGED <<jobVars, agentVars, marker, recovery, boot, staffVars, due, histVars>>

(* The transport reports success: POST /jobs/:id/ack.                      *)
TransportSucceeds(h, t) ==
  LET w == worker[<<h, t>>] IN
  /\ w.pc = "sent"
  /\ worker' = [worker EXCEPT ![<<h, t>>].pc = "acking"]
  /\ requests' = requests \union {Request("ack", "worker", h, w.job, w.lease, TRUE)}
  /\ UNCHANGED <<jobVars, agentVars, marker, recovery, boot, staffVars, due, histVars>>

(* Mutant: a throw is taken to mean that nothing was printed.              *)
UnsureMeansUnprinted(h, t) ==
  worker[<<h, t>>].pc \in {"marked", "sent"} /\ ReportUnprinted(h, t)

(* The transport threw, or failed at a stage that may have written.        *)
TransportUnsure(h, t) ==
  LET w == worker[<<h, t>>] IN
  /\ w.pc \in {"marked", "sent"}
  /\ worker' = [worker EXCEPT ![<<h, t>>] =
       [w EXCEPT !.pc = "reporting", !.reached = TRUE]]
  /\ requests' = requests \union {Request("fail", "worker", h, w.job, w.lease, TRUE)}
  /\ UNCHANGED <<jobVars, agentVars, marker, recovery, boot, staffVars, due, histVars>>

(* The API answered, with 200 or with 409: the marker has done its work.   *)
WorkerAnswered(h, t) ==
  LET w == worker[<<h, t>>] IN
  /\ w.pc \in {"acking", "reporting"}
  /\ w.reply # "none"
  /\ worker' = [worker EXCEPT ![<<h, t>>] = IdleWorker]
  /\ marker' = [marker EXCEPT ![h] = @ \ {w.job}]
  /\ UNCHANGED <<jobVars, agentVars, recovery, boot, requests, staffVars, due, histVars>>

(* Mutant: the marker is cleared whether or not the report got through.    *)
GivesUpUnmarked(h, t) ==
  LET w == worker[<<h, t>>] IN
  /\ w.pc \in {"acking", "reporting"}
  /\ worker' = [worker EXCEPT ![<<h, t>>] = IdleWorker]
  /\ marker' = [marker EXCEPT ![h] = @ \ {w.job}]
  /\ UNCHANGED <<jobVars, agentVars, recovery, boot, requests, staffVars, due, histVars>>

(* Timeout, connection error, 401 or 500: the worker moves on, and keeps   *)
(* the marker unless it knows nothing was printed.  The request may still  *)
(* be processed.                                                           *)
WorkerGivesUp(h, t) ==
  LET w == worker[<<h, t>>] IN
  /\ w.pc \in {"acking", "reporting"}
  /\ worker' = [worker EXCEPT ![<<h, t>>] = IdleWorker]
  /\ marker' = IF w.pc = "reporting" /\ ~w.reached
               THEN [marker EXCEPT ![h] = @ \ {w.job}] ELSE marker
  /\ UNCHANGED <<jobVars, agentVars, recovery, boot, requests, staffVars, due, histVars>>

-----------------------------------------------------------------------------
(* Power cut and restart.  While it is off a PC takes no step, so the two  *)
(* are one action: memory is lost, the markers stay and are listed for     *)
(* recovery, which then runs alongside the workers.                        *)

Restart(h) ==
  /\ boot[h] < MaxBoots[h]
  /\ boot' = [boot EXCEPT ![h] = @ + 1]
  /\ worker' = [w \in Hosts \X Targets |-> IF w[1] = h THEN IdleWorker ELSE worker[w]]
  /\ recovery' = [recovery EXCEPT ![h] = [IdleRecovery EXCEPT !.todo = marker[h]]]
  /\ UNCHANGED <<jobVars, agentVars, marker, requests, staffVars, due, histVars>>

(* recoverOrphanedMarkers: report the next marker as "may have printed".   *)
RecoverMarker(h, j) ==
  /\ recovery[h].cur = NONE
  /\ j \in recovery[h].todo
  /\ recovery' = [recovery EXCEPT ![h] =
       [todo |-> @.todo \ {j}, cur |-> j, reply |-> "none"]]
  /\ requests' = requests \union {Request("fail", "recovery", h, j, 0, TRUE)}
  /\ UNCHANGED <<jobVars, agentVars, worker, marker, boot, staffVars, due, histVars>>

RecoveryAnswered(h) ==
  /\ recovery[h].cur # NONE
  /\ recovery[h].reply # "none"
  /\ marker' = [marker EXCEPT ![h] = @ \ {recovery[h].cur}]
  /\ recovery' = [recovery EXCEPT ![h] = [todo |-> @.todo, cur |-> NONE, reply |-> "none"]]
  /\ UNCHANGED <<jobVars, agentVars, worker, boot, requests, staffVars, due, histVars>>

(* Unreachable or unauthorised: keep the marker and go on to the next one. *)
RecoveryGivesUp(h) ==
  /\ recovery[h].cur # NONE
  /\ recovery' = [recovery EXCEPT ![h] = [todo |-> @.todo, cur |-> NONE, reply |-> "none"]]
  /\ UNCHANGED <<jobVars, agentVars, worker, marker, boot, requests, staffVars, due, histVars>>

-----------------------------------------------------------------------------
(* The API's side of ack and fail.                                         *)

(* The answer reaches whoever still waits for exactly this request.        *)
WorkerAwaits(r, h, t) ==
  /\ r.by = "worker" /\ r.host = h /\ Target(r.job) = t
  /\ worker[<<h, t>>].pc \in {"acking", "reporting"}
  /\ worker[<<h, t>>].job = r.job /\ worker[<<h, t>>].lease = r.lease

RecoveryAwaits(r, h) ==
  r.by = "recovery" /\ r.host = h /\ r.boot = boot[h] /\ recovery[h].cur = r.job

Answer(r, reply) ==
  /\ requests' = requests \ {r}
  /\ worker' = [w \in Hosts \X Targets |->
       IF WorkerAwaits(r, w[1], w[2]) THEN [worker[w] EXCEPT !.reply = reply] ELSE worker[w]]
  /\ recovery' = [h \in Hosts |->
       IF RecoveryAwaits(r, h) THEN [recovery[h] EXCEPT !.reply = reply] ELSE recovery[h]]
  /\ UNCHANGED <<marker, boot>>

(* The request is lost, refused with 401, or cut off by an API restart.    *)
LoseRequest(r) ==
  /\ requests' = requests \ {r}
  /\ UNCHANGED <<jobVars, agentVars, hostVars, staffVars, due, histVars>>

(* Mutant: the UPDATE forgets that the agent must still hold the lease.    *)
ServeAckUnleased(r) ==
  /\ r.op = "ack" /\ Authentic(r.host)
  /\ status' = [status EXCEPT ![r.job] = IF @ = "deleted" THEN @ ELSE "printed"]
  /\ owner' = [owner EXCEPT ![r.job] = NONE]
  /\ Answer(r, "ok")
  /\ UNCHANGED <<attempts, agentVars, staffVars, due, histVars>>

(* POST /jobs/:id/ack: one conditional UPDATE.                             *)
ServeAck(r) ==
  /\ r.op = "ack" /\ Authentic(r.host)
  /\ IF HoldsLease(r.host, r.job)
     THEN /\ status' = [status EXCEPT ![r.job] = "printed"]
          /\ owner' = [owner EXCEPT ![r.job] = NONE]
          /\ Answer(r, "ok")
     ELSE /\ UNCHANGED <<status, owner>>
          /\ Answer(r, "gone")
  /\ UNCHANGED <<attempts, agentVars, staffVars, due, histVars>>

(* POST /jobs/:id/fail reads the row and decides its next status ...       *)
NextAfterFail(r) ==
  IF r.reached /\ r.job \in Receipts THEN "unconfirmed" ELSE RetryOrFail(r.job)

ReadFail(r) ==
  /\ r.op = "fail" /\ r.stage = "sent" /\ Authentic(r.host)
  /\ HoldsLease(r.host, r.job)
  /\ requests' = (requests \ {r}) \union
                 {[r EXCEPT !.stage = "read", !.next = NextAfterFail(r)]}
  /\ UNCHANGED <<jobVars, agentVars, hostVars, staffVars, due, histVars>>

RejectFail(r) ==
  /\ r.op = "fail" /\ r.stage = "sent" /\ Authentic(r.host)
  /\ ~HoldsLease(r.host, r.job)
  /\ Answer(r, "gone")
  /\ UNCHANGED <<jobVars, agentVars, staffVars, due, histVars>>

(* ... and then writes it by id alone.  On a row that has become "printed" *)
(* the printed_at constraint rejects the UPDATE and the API answers 500;   *)
(* on a deleted row it changes nothing and the API answers 200.            *)
WriteFail(r) ==
  /\ r.stage = "read"
  /\ status[r.job] \notin {"printed", "deleted"}
  /\ status' = [status EXCEPT ![r.job] = r.next]
  /\ owner' = [owner EXCEPT ![r.job] = NONE]
  /\ requeued' = IF r.next = "queued" /\ ~r.reached
                 THEN [requeued EXCEPT ![r.job] = @ \union {r.lease}] ELSE requeued
  /\ Answer(r, "ok")
  /\ UNCHANGED <<attempts, agentVars, staffVars, due, prints, paper, refused, reprints>>

WriteFailIgnored(r) ==
  /\ r.stage = "read" /\ status[r.job] \in {"printed", "deleted"}
  /\ Answer(r, IF status[r.job] = "deleted" THEN "ok" ELSE "none")
  /\ UNCHANGED <<jobVars, agentVars, staffVars, due, histVars>>

-----------------------------------------------------------------------------
(* Staff: POST /jobs/:id/resolve, again a read and a later write by id.    *)

ReadForResolve(s, j, printed) ==
  /\ decision[s] = NONE /\ answers < MaxAnswers
  /\ status[j] \in {"unconfirmed", "failed"}
  /\ decision' = [decision EXCEPT ![s] = [job |-> j, printed |-> printed]]
  /\ answers' = answers + 1
  /\ UNCHANGED <<jobVars, agentVars, hostVars, requests, due, histVars>>

(* The UPDATE leaves the lease columns alone, so on a row that has been    *)
(* leased meanwhile the lease constraint rejects it.                       *)
WriteResolve(s) ==
  /\ decision[s] # NONE
  /\ LET j == decision[s].job IN
     IF status[j] \in {"leased", "deleted"}
     THEN UNCHANGED <<status, reprints>>
     ELSE /\ status' = [status EXCEPT ![j] = IF decision[s].printed THEN "printed" ELSE "queued"]
          /\ reprints' = IF decision[s].printed THEN reprints
                         ELSE [reprints EXCEPT ![j] = @ + 1]
  /\ decision' = [decision EXCEPT ![s] = NONE]
  /\ UNCHANGED <<owner, attempts, agentVars, hostVars, requests, answers, due,
                 prints, paper, refused, requeued>>

-----------------------------------------------------------------------------
(* The housekeeping script: leases, then stale jobs, then the purge.       *)

(* Mutants: the sweep requeues receipts too; it forgets the labels.        *)
ExpireAlike(j) ==
  /\ status[j] = "leased"
  /\ status' = [status EXCEPT ![j] = RetryOrFail(j)]
  /\ owner' = [owner EXCEPT ![j] = NONE]
  /\ UNCHANGED <<attempts, agentVars, hostVars, requests, staffVars, due, histVars>>

ExpireReceipts(j) ==
  /\ status[j] = "leased" /\ j \in Receipts
  /\ status' = [status EXCEPT ![j] = "unconfirmed"]
  /\ owner' = [owner EXCEPT ![j] = NONE]
  /\ UNCHANGED <<attempts, agentVars, hostVars, requests, staffVars, due, histVars>>

(* expire_print_leases, on one row it covers.                              *)
ExpireLease(j) ==
  /\ status[j] = "leased"
  /\ status' = [status EXCEPT ![j] = IF j \in Receipts THEN "unconfirmed" ELSE RetryOrFail(j)]
  /\ owner' = [owner EXCEPT ![j] = NONE]
  /\ UNCHANGED <<attempts, agentVars, hostVars, requests, staffVars, due, histVars>>

(* expire_stale_print_jobs, on one row it covers.                          *)
ExpireStale(j) ==
  /\ status[j] = "queued"
  /\ status' = [status EXCEPT ![j] = "failed"]
  /\ UNCHANGED <<owner, attempts, agentVars, hostVars, requests, staffVars, due, histVars>>

(* purgeExpiredPrintJobs lists the terminal rows past retention ...        *)
PurgeList(rows) ==
  /\ due = {} /\ rows # {}
  /\ \A j \in rows : status[j] \in {"printed", "failed"}
  /\ due' = rows
  /\ UNCHANGED <<jobVars, agentVars, hostVars, requests, staffVars, histVars>>

(* ... and deletes them one by one, by id; a failed delete is skipped.     *)
PurgeDelete(j) ==
  /\ j \in due
  /\ due' = due \ {j}
  /\ status' = [status EXCEPT ![j] = "deleted"]
  /\ owner' = [owner EXCEPT ![j] = NONE]
  /\ UNCHANGED <<attempts, agentVars, hostVars, requests, staffVars, histVars>>

PurgeSkip(j) ==
  /\ j \in due
  /\ due' = due \ {j}
  /\ UNCHANGED <<jobVars, agentVars, hostVars, requests, staffVars, histVars>>

-----------------------------------------------------------------------------

AdminStep == DemotePrimary \/ \E a \in Agents :
  RevokeAgent(a) \/ \E isPrimary \in BOOLEAN : IssueAgent(a, isPrimary)

WorkerStep(h, t) ==
  \/ \E j \in Jobs : Claim(h, t, j)
  \/ CannotPrepare(h, t) \/ WriteMarker(h, t)
  \/ TransportRefuses(h, t) \/ BytesLeave(h, t)
  \/ TransportSucceeds(h, t) \/ TransportUnsure(h, t)
  \/ WorkerAnswered(h, t) \/ WorkerGivesUp(h, t)

RecoveryStep(h) ==
  Restart(h) \/ RecoveryAnswered(h) \/ RecoveryGivesUp(h) \/ \E j \in Jobs : RecoverMarker(h, j)

HostStep(h) == RecoveryStep(h) \/ \E t \in Targets : WorkerStep(h, t)

RequestStep(r) ==
  LoseRequest(r) \/ ServeAck(r) \/ ReadFail(r) \/ RejectFail(r)
    \/ WriteFail(r) \/ WriteFailIgnored(r)

StaffStep(s) == WriteResolve(s) \/ \E j \in Jobs, printed \in BOOLEAN : ReadForResolve(s, j, printed)

SweepStep(j) == ExpireLease(j) \/ ExpireStale(j) \/ PurgeDelete(j) \/ PurgeSkip(j)

Next ==
  \/ AdminStep
  \/ \E j \in Jobs : Enqueue(j) \/ SweepStep(j)
  \/ \E a \in Agents, t \in Targets, j \in Jobs : ClaimLost(a, t, j)
  \/ \E h \in Hosts : HostStep(h)
  \/ \E r \in requests : RequestStep(r)
  \/ \E s \in Staff : StaffStep(s)
  \/ \E rows \in SUBSET Jobs : PurgeList(rows)

(* The script is scheduled every two minutes whatever the till PCs do, and *)
(* time passes: an open lease runs out and a queued job becomes stale.     *)
Fairness == \A j \in Jobs : WF_vars(ExpireLease(j)) /\ WF_vars(ExpireStale(j))

Spec == Init /\ [][Next]_vars
FairSpec == Spec /\ Fairness

-----------------------------------------------------------------------------
(* Properties.                                                             *)

TypeOK ==
  /\ status \in [Jobs -> Statuses]
  /\ owner \in [Jobs -> Agents \union {NONE}]
  /\ attempts \in [Jobs -> Nat]
  /\ issued \subseteq Agents /\ primary \in Agents \union {NONE} /\ revoked \subseteq Agents
  /\ worker \in [Hosts \X Targets -> Workers]
  /\ \A w \in Hosts \X Targets : worker[w].pc # "idle" => worker[w].job \in Jobs
  /\ marker \in [Hosts -> SUBSET Jobs]
  /\ recovery \in [Hosts -> Recoveries]
  /\ boot \in [Hosts -> Nat]
  /\ requests \subseteq Requests
  /\ decision \in [Staff -> Decisions \union {NONE}] /\ answers \in Nat
  /\ due \subseteq Jobs
  /\ prints \in [Jobs -> Nat]
  /\ paper \in [Jobs -> SUBSET Nat]
  /\ refused \in [Jobs -> SUBSET Nat]
  /\ requeued \in [Jobs -> SUBSET Nat]
  /\ reprints \in [Jobs -> Nat]

(* "A receipt must never print twice": whatever is lost, delayed, crashed  *)
(* or raced, a receipt's bytes go to a printer once, and once more for each *)
(* time a person put it back on the queue.                                 *)
ReceiptPrintBound == \A j \in Receipts : prints[j] <= 1 + reprints[j]

(* max_attempts caps the automatic retries of a receipt, although /fail    *)
(* compares it with an attempts count it read earlier.                     *)
ReceiptRetryBound == \A j \in Receipts : attempts[j] <= MaxAttempts + reprints[j]

(* reachedPrinter = false is never said of a lease whose bytes went out.   *)
RefusalsAreTrue == \A j \in Jobs : paper[j] \intersect refused[j] = {}

(* "Marker absent => bytes cannot have reached the printer": while the     *)
(* lease a job was printed under is still open at the server, some PC's    *)
(* disk remembers it.                                                      *)
(* Not always: see Known divergences in the README.                         *)
OpenPrintIsMarked ==
  \A j \in Jobs : status[j] = "leased" /\ attempts[j] \in paper[j]
                   => \E h \in Hosts : j \in marker[h]

(* The same, for the first lease of a job.                                 *)
FirstPrintIsMarked ==
  \A j \in Jobs : status[j] = "leased" /\ attempts[j] = 1 /\ prints[j] > 0
                   => \E h \in Hosts : j \in marker[h]

(* An agent's word closes a job as printed only if paper came out.         *)
AckMeansPaper ==
  [][\A j \in Jobs : status[j] = "leased" /\ status'[j] = "printed" => prints[j] > 0]_vars

(* "Receipts become unconfirmed and are NEVER auto-requeued": only a       *)
(* person's answer moves one back to the queue.                            *)
(* Not always: see Known divergences in the README.                         *)
UnconfirmedWaitsForStaff ==
  [][\A j \in Receipts : status[j] = "unconfirmed" /\ status'[j] = "queued"
                          => reprints'[j] > reprints[j]]_vars

(* No job hangs: the sweeps alone bring every job that is waiting or       *)
(* leased to an end that somebody can see.                                 *)
Settled(j) == status[j] \in {"printed", "unconfirmed", "failed", "deleted"}
JobSettles == \A j \in Jobs : status[j] \in {"queued", "leased"} ~> Settled(j)

(* What the schema promises of a receipt, as a specification of its own:   *)
(* paper comes out only while a copy is owed; without a person a receipt   *)
(* goes back on the queue only while one is owed, and is closed as printed *)
(* only by the PC that has it out, after paper; what is printed or deleted *)
(* stays so for everybody but a person.  The queue implements it.  (A step *)
(* that leaves alone all the mapping reads is a stutter of the promise; to *)
(* say so first saves TLC from trying every action of it.)                 *)
Shown(j) == IF status[j] = "absent" THEN "queued" ELSE status[j]
Said(s, j) ==
  IF decision[s] = NONE \/ decision[s].job # j THEN "none"
  ELSE IF decision[s].printed THEN "it printed" ELSE "print it again"
Promise(j) == INSTANCE ReceiptPromise
  WITH shown   <- Shown(j),
       printed <- prints[j],
       asked   <- reprints[j],
       answer  <- [s \in Staff |-> Said(s, j)]
KeepsReceiptPromise ==
  /\ \A j \in Receipts : Promise(j)!Init
  /\ [][\A j \in Receipts :
          \/ UNCHANGED <<status[j], prints[j], reprints[j], decision>>
          \/ [Promise(j)!Next]_(Promise(j)!vars)]_vars

-----------------------------------------------------------------------------
(* Why the bounds hold.  Every lease ends in paper, in a refusal or in     *)
(* nothing; every claim but the first is paid for by a person or by a      *)
(* refusal that put the job back; so paper is at most one more than the    *)
(* people's answers.                                                       *)

Undecided(w) == worker[w].pc \in {"claimed", "marked"}

(* A worker that may still print holds a lease nobody else holds and whose *)
(* fate is open.                                                           *)
LeasesAreExclusive ==
  /\ \A w \in Hosts \X Targets : Undecided(w) =>
       LET j == worker[w].job  n == worker[w].lease IN
       n \in (1 .. attempts[j]) \ (paper[j] \union refused[j])
  /\ \A v, w \in Hosts \X Targets :
       Undecided(v) /\ Undecided(w) /\ worker[v].job = worker[w].job
         /\ worker[v].lease = worker[w].lease => v = w

LeasesAreAccounted ==
  \A j \in Jobs :
    /\ paper[j] \subseteq 1 .. attempts[j] /\ refused[j] \subseteq 1 .. attempts[j]
    /\ paper[j] \intersect refused[j] = {}
    /\ requeued[j] \subseteq refused[j]
    /\ prints[j] = Cardinality(paper[j])

(* A refusal travels once: the request carrying it has not been counted.   *)
IsRefusal(r) == r.op = "fail" /\ ~r.reached
RefusalsAreFresh ==
  /\ \A r \in requests : IsRefusal(r) => r.lease \in refused[r.job] \ requeued[r.job]
  /\ \A r, q \in requests :
       IsRefusal(r) /\ IsRefusal(q) /\ r.job = q.job /\ r.lease = q.lease => r = q

(* What /fail has decided and not yet written.                             *)
PendingWritesAreSane ==
  \A r \in requests : r.stage = "read" =>
    /\ r.op = "fail" /\ r.next \in {"queued", "failed", "unconfirmed"}
    /\ r.next = "queued" /\ r.job \in Receipts => ~r.reached /\ r.lease < MaxAttempts

Unclaimed(j) == IF status[j] \in {"absent", "queued"} THEN 1 ELSE 0

ClaimsArePaidFor ==
  \A j \in Receipts :
    /\ attempts[j] + Unclaimed(j) <= 1 + reprints[j] + Cardinality(requeued[j])
    /\ requeued[j] \subseteq 1 .. (MaxAttempts - 1)

IndInv ==
  /\ TypeOK
  /\ LeasesAreExclusive
  /\ LeasesAreAccounted
  /\ RefusalsAreFresh
  /\ PendingWritesAreSane
  /\ ClaimsArePaidFor
=============================================================================
