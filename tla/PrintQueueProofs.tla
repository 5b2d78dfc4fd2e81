-------------------------- MODULE PrintQueueProofs --------------------------
(* Proofs about PrintQueue, for every value of its constants. *)
EXTENDS PrintQueue, FiniteSetTheorems, TLAPS

(* Sets of lease numbers are finite and no larger than the last number.    *)
LEMMA LeaseSet ==
  ASSUME NEW n \in Nat, NEW S, S \subseteq 1 .. n
  PROVE  IsFiniteSet(S) /\ Cardinality(S) \in Nat /\ Cardinality(S) <= n
<1>1. IsFiniteSet(1 .. n) /\ Cardinality(1 .. n) = n
  BY FS_Interval
<1>2. IsFiniteSet(S) /\ Cardinality(S) <= Cardinality(1 .. n)
  BY <1>1, FS_Subset
<1>3. Cardinality(S) \in Nat
  BY <1>2, FS_CardinalityType
<1> QED BY <1>1, <1>2, <1>3

LEMMA InitTypeOK == Init => TypeOK
  BY JobsAssumption, NoneAssumption
  DEF Init, TypeOK, Workers, IdleWorker, Recoveries, IdleRecovery, Requests, Statuses, Replies, Targets

LEMMA NextTypeOK == ASSUME TypeOK, [Next]_vars PROVE TypeOK'
<1> USE JobsAssumption, TokenAssumption, BoundsAssumption, NoneAssumption
    DEF TypeOK, vars, jobVars, agentVars, hostVars, staffVars, histVars
<1>1. CASE AdminStep
  BY <1>1 DEF AdminStep, DemotePrimary, IssueAgent, RevokeAgent
<1>2. ASSUME NEW j \in Jobs, Enqueue(j) \/ SweepStep(j) PROVE TypeOK'
  <2>1. CASE Enqueue(j)
    BY <2>1 DEF Enqueue, Statuses
  <2>4. CASE ExpireStale(j)
    BY <2>4 DEF ExpireStale, Statuses
  <2>5. CASE PurgeSkip(j)
    BY <2>5 DEF PurgeSkip, Statuses
  <2>2. CASE ExpireLease(j)
    BY <2>2 DEF ExpireLease, RetryOrFail, Statuses
  <2>3. CASE PurgeDelete(j)
    BY <2>3 DEF PurgeDelete, Statuses
  <2> QED BY <1>2, <2>1, <2>2, <2>3, <2>4, <2>5 DEF SweepStep
<1>3. ASSUME NEW a \in Agents, NEW t \in Targets, NEW j \in Jobs, ClaimLost(a, t, j) PROVE TypeOK'
  BY <1>3 DEF ClaimLost, ClaimedBy, Statuses
<1>4. ASSUME NEW h \in Hosts, RecoveryStep(h) PROVE TypeOK'
  <2>1. CASE Restart(h)
    BY <1>4, <2>1 DEF Restart, Recoveries, IdleRecovery, Replies, Workers, IdleWorker
  <2>2. CASE RecoveryAnswered(h)
    BY <1>4, <2>2 DEF RecoveryAnswered, Recoveries, Replies
  <2>3. CASE RecoveryGivesUp(h)
    <3>1. recovery' \in [Hosts -> Recoveries]
      BY <2>3 DEF RecoveryGivesUp, Recoveries, Replies
    <3> QED BY <2>3, <3>1 DEF RecoveryGivesUp
  <2>4. ASSUME NEW j \in Jobs, RecoverMarker(h, j) PROVE TypeOK'
    <3>1. recovery' \in [Hosts -> Recoveries]
      BY <2>4 DEF RecoverMarker, Recoveries, Replies
    <3>2. Request("fail", "recovery", h, j, 0, TRUE) \in Requests
      BY DEF Request, Requests, Statuses
    <3> QED BY <2>4, <3>1, <3>2 DEF RecoverMarker
  <2> QED BY <1>4, <2>1, <2>2, <2>3, <2>4 DEF RecoveryStep
<1>5. ASSUME NEW h \in Hosts, NEW t \in Targets, WorkerStep(h, t) PROVE TypeOK'
  <2> DEFINE w == worker[<<h, t>>]
  <2>0. <<h, t>> \in Hosts \X Targets /\ w \in Workers
    OBVIOUS
  <2>1. ASSUME NEW x \in Workers, x.pc # "idle" => x.job \in Jobs,
               worker' = [worker EXCEPT ![<<h, t>>] = x]
        PROVE /\ worker' \in [Hosts \X Targets -> Workers]
              /\ \A v \in Hosts \X Targets : worker'[v].pc # "idle" => worker'[v].job \in Jobs
    BY <2>1
  <2>2. ASSUME NEW op \in {"ack", "fail"}, NEW reached \in BOOLEAN, w.pc # "idle"
        PROVE Request(op, "worker", h, w.job, w.lease, reached) \in Requests
    BY <2>0, <2>2 DEF Request, Requests, Statuses, Workers
  <2>3. ASSUME NEW j \in Jobs, Claim(h, t, j) PROVE TypeOK'
    <3> DEFINE x == [pc |-> "claimed", job |-> j, lease |-> attempts[j] + 1,
                     reached |-> FALSE, reply |-> "none"]
    <3>1. x \in Workers
      BY DEF Workers, Replies
    <3>2. worker' = [worker EXCEPT ![<<h, t>>] = x]
      BY <2>3 DEF Claim
    <3> QED BY <2>1, <2>3, <3>1, <3>2 DEF Claim, ClaimedBy, Statuses
  <2>4. CASE ReportUnprinted(h, t) /\ w.pc # "idle"
    <3> DEFINE x == [w EXCEPT !.pc = "reporting", !.reached = FALSE]
    <3>1. x \in Workers /\ x.job = w.job
      BY <2>0 DEF Workers
    <3>2. worker' = [worker EXCEPT ![<<h, t>>] = x]
      BY <2>4 DEF ReportUnprinted
    <3>3. w.lease \in Nat
      BY <2>0 DEF Workers
    <3>4. worker' \in [Hosts \X Targets -> Workers]
          /\ \A v \in Hosts \X Targets : worker'[v].pc # "idle" => worker'[v].job \in Jobs
      BY <2>1, <2>4, <3>1, <3>2
    <3>5. requests' \subseteq Requests
      BY <2>2, <2>4 DEF ReportUnprinted
    <3>6. refused' \in [Jobs -> SUBSET Nat]
      BY <2>4, <3>3 DEF ReportUnprinted
    <3> QED BY <2>4, <3>4, <3>5, <3>6 DEF ReportUnprinted
  <2>5. CASE WriteMarker(h, t)
    <3> DEFINE x == [w EXCEPT !.pc = "marked"]
    <3>1. x \in Workers /\ x.job = w.job
      BY <2>0 DEF Workers
    <3>2. worker' = [worker EXCEPT ![<<h, t>>] = x]
      BY <2>5 DEF WriteMarker
    <3>3. w.pc # "idle"
      BY <2>5 DEF WriteMarker
    <3>4. worker' \in [Hosts \X Targets -> Workers]
          /\ \A v \in Hosts \X Targets : worker'[v].pc # "idle" => worker'[v].job \in Jobs
      BY <2>1, <3>1, <3>2, <3>3
    <3>5. marker' \in [Hosts -> SUBSET Jobs]
      BY <2>5, <3>3 DEF WriteMarker
    <3> QED BY <2>5, <3>4, <3>5 DEF WriteMarker
  <2>6. CASE BytesLeave(h, t)
    <3> DEFINE x == [w EXCEPT !.pc = "sent"]
    <3>1. x \in Workers /\ x.job = w.job
      BY <2>0 DEF Workers
    <3>2. worker' = [worker EXCEPT ![<<h, t>>] = x]
      BY <2>6 DEF BytesLeave
    <3>3. w.lease \in Nat
      BY <2>0 DEF Workers
    <3>4. prints' \in [Jobs -> Nat]
      BY <2>6 DEF BytesLeave
    <3>5. paper' \in [Jobs -> SUBSET Nat]
      <4>1. paper' = [paper EXCEPT ![w.job] = @ \union {w.lease}]
        BY <2>6 DEF BytesLeave
      <4>2. \A j \in Jobs : paper[j] \union {w.lease} \in SUBSET Nat
        BY <3>3
      <4> QED BY <4>1, <4>2
    <3> QED BY <2>0, <2>1, <2>6, <3>1, <3>2, <3>4, <3>5 DEF BytesLeave
  <2>7. CASE TransportSucceeds(h, t)
    <3> DEFINE x == [w EXCEPT !.pc = "acking"]
    <3>1. x \in Workers /\ x.job = w.job
      BY <2>0 DEF Workers
    <3>2. worker' = [worker EXCEPT ![<<h, t>>] = x]
      BY <2>7 DEF TransportSucceeds
    <3> QED BY <2>0, <2>1, <2>2, <2>7, <3>1, <3>2 DEF TransportSucceeds
  <2>8. CASE TransportUnsure(h, t)
    <3> DEFINE x == [w EXCEPT !.pc = "reporting", !.reached = TRUE]
    <3>1. x \in Workers /\ x.job = w.job
      BY <2>0 DEF Workers
    <3>2. worker' = [worker EXCEPT ![<<h, t>>] = x]
      BY <2>8 DEF TransportUnsure
    <3> QED BY <2>0, <2>1, <2>2, <2>8, <3>1, <3>2 DEF TransportUnsure
  <2>9. CASE WorkerAnswered(h, t) \/ WorkerGivesUp(h, t)
    <3>1. IdleWorker \in Workers /\ IdleWorker.pc = "idle"
      BY DEF IdleWorker, Workers, Replies
    <3>2. worker' = [worker EXCEPT ![<<h, t>>] = IdleWorker]
      BY <2>9 DEF WorkerAnswered, WorkerGivesUp
    <3>3. marker' = [marker EXCEPT ![h] = @ \ {w.job}] \/ marker' = marker
      BY <2>9 DEF WorkerAnswered, WorkerGivesUp
    <3>4. marker' \in [Hosts -> SUBSET Jobs]
      BY <3>3
    <3> QED BY <2>1, <2>9, <3>1, <3>2, <3>4 DEF WorkerAnswered, WorkerGivesUp
  <2>10. CASE \E j \in Jobs : Claim(h, t, j)
    BY <2>3, <2>10
  <2> QED BY <1>5, <2>4, <2>5, <2>6, <2>7, <2>8, <2>9, <2>10
    DEF WorkerStep, CannotPrepare, TransportRefuses
<1>6. ASSUME NEW r \in requests, RequestStep(r) PROVE TypeOK'
  <2>1. CASE LoseRequest(r)
    BY <2>1 DEF LoseRequest
  <2> DEFINE reply == IF status[r.job] = "deleted" THEN "ok" ELSE "none"
  <2>2. ASSUME NEW x \in Replies, Answer(r, x)
        PROVE /\ worker' \in [Hosts \X Targets -> Workers]
              /\ \A w \in Hosts \X Targets : worker'[w].pc # "idle" => worker'[w].job \in Jobs
              /\ recovery' \in [Hosts -> Recoveries]
              /\ marker' = marker /\ boot' = boot /\ requests' \subseteq Requests
    <3>1. \A w \in Hosts \X Targets :
            /\ [worker[w] EXCEPT !.reply = x] \in Workers
            /\ [worker[w] EXCEPT !.reply = x].pc = worker[w].pc
            /\ [worker[w] EXCEPT !.reply = x].job = worker[w].job
      <4> TAKE w \in Hosts \X Targets
      <4> HIDE DEF TypeOK
      <4>1. worker[w] \in Workers
        BY DEF TypeOK
      <4> QED BY <2>2, <4>1 DEF Workers
    <3>2. \A h \in Hosts : [recovery[h] EXCEPT !.reply = x] \in Recoveries
      <4> TAKE h \in Hosts
      <4> HIDE DEF TypeOK
      <4>1. recovery[h] \in Recoveries
        BY DEF TypeOK
      <4> QED BY <2>2, <4>1 DEF Recoveries
    <3> QED BY <2>2, <3>1, <3>2 DEF Answer
  <2>3. CASE ServeAck(r)
    BY <2>2, <2>3 DEF ServeAck, Replies, Statuses, Requests
  <2>4. CASE ReadFail(r)
    <3>1. NextAfterFail(r) \in Statuses
      BY DEF NextAfterFail, RetryOrFail, Statuses
    <3>2. [r EXCEPT !.stage = "read", !.next = NextAfterFail(r)] \in Requests
      <4>1. r \in Requests
        OBVIOUS
      <4> HIDE DEF TypeOK
      <4> QED BY <3>1, <4>1 DEF Requests
    <3>3. requests' \subseteq Requests
      BY <2>4, <3>2 DEF ReadFail
    <3> QED BY <2>4, <3>3 DEF ReadFail
  <2>5. CASE RejectFail(r)
    BY <2>2, <2>5 DEF RejectFail, Replies
  <2>6. CASE WriteFail(r)
    <3>1. r.next \in Statuses /\ r.lease \in Nat /\ r.job \in Jobs
      BY DEF Requests
    <3>2. status' \in [Jobs -> Statuses] /\ owner' \in [Jobs -> Agents \union {NONE}]
      BY <2>6, <3>1 DEF WriteFail
    <3>3. requeued' = requeued \/ requeued' = [requeued EXCEPT ![r.job] = @ \union {r.lease}]
      BY <2>6 DEF WriteFail
    <3>4. requeued' \in [Jobs -> SUBSET Nat]
      BY <3>1, <3>3
    <3> QED BY <2>2, <2>6, <3>2, <3>4 DEF WriteFail, Replies
  <2>7. CASE WriteFailIgnored(r)
    BY <2>2, <2>7 DEF WriteFailIgnored, Replies
  <2> QED BY <1>6, <2>1, <2>3, <2>4, <2>5, <2>6, <2>7 DEF RequestStep
<1>7. ASSUME NEW s \in Staff, StaffStep(s) PROVE TypeOK'
  <2>1. CASE WriteResolve(s)
    BY <2>1 DEF WriteResolve, Decisions, Statuses
  <2>2. ASSUME NEW j \in Jobs, NEW printed \in BOOLEAN, ReadForResolve(s, j, printed) PROVE TypeOK'
    BY <2>2 DEF ReadForResolve, Decisions
  <2> QED BY <1>7, <2>1, <2>2 DEF StaffStep
<1>8. ASSUME NEW rows \in SUBSET Jobs, PurgeList(rows) PROVE TypeOK'
  BY <1>8 DEF PurgeList
<1>9. CASE UNCHANGED vars
  BY <1>9
<1> QED BY <1>1, <1>2, <1>3, <1>4, <1>5, <1>6, <1>7, <1>8, <1>9 DEF Next, HostStep

-----------------------------------------------------------------------------
(* The inductive invariant.  Most steps are quiet: they record no paper,   *)
(* no refusal and no claim, let no worker become undecided, add no request *)
(* that matters and put a receipt back on the queue only for a person.     *)

Quiet ==
  /\ UNCHANGED <<attempts, prints, paper, refused, requeued>>
  /\ \A w \in Hosts \X Targets : Undecided(w)' =>
       /\ Undecided(w)
       /\ worker'[w].job = worker[w].job /\ worker'[w].lease = worker[w].lease
  /\ \A r \in requests' : IsRefusal(r) \/ r.stage = "read" => r \in requests
  /\ \A j \in Receipts : Unclaimed(j)' + reprints[j] <= Unclaimed(j) + reprints'[j]

LEMMA QuietPreserves ==
  ASSUME IndInv, TypeOK', Quiet
  PROVE IndInv'
<1> USE JobsAssumption
<1>1. LeasesAreExclusive'
  <2>1. UNCHANGED <<attempts, paper, refused>>
    BY DEF Quiet
  <2>2. \A w \in Hosts \X Targets : Undecided(w)' =>
             Undecided(w) /\ worker'[w].job = worker[w].job /\ worker'[w].lease = worker[w].lease
    BY DEF Quiet
  <2>3. LeasesAreExclusive
    BY DEF IndInv
  <2> QED BY <2>1, <2>2, <2>3 DEF LeasesAreExclusive
<1>2. LeasesAreAccounted'
  BY DEF IndInv, Quiet, LeasesAreAccounted
<1>3. RefusalsAreFresh'
  BY DEF IndInv, Quiet, RefusalsAreFresh
<1>4. PendingWritesAreSane'
  BY DEF IndInv, Quiet, PendingWritesAreSane
<1>5. ClaimsArePaidFor'
  <2> SUFFICES ASSUME NEW j \in Receipts
               PROVE attempts[j] + Unclaimed(j)' <= 1 + reprints'[j] + Cardinality(requeued[j])
    BY DEF IndInv, Quiet, ClaimsArePaidFor
  <2>1. requeued[j] \subseteq 1 .. (MaxAttempts - 1)
        /\ attempts[j] + Unclaimed(j) <= 1 + reprints[j] + Cardinality(requeued[j])
    BY DEF IndInv, ClaimsArePaidFor
  <2>2. Cardinality(requeued[j]) \in Nat
    <3>1. MaxAttempts - 1 \in Nat
      BY BoundsAssumption
    <3> QED BY <2>1, <3>1, LeaseSet
  <2>3. Unclaimed(j) \in Nat /\ Unclaimed(j)' \in Nat
    BY DEF Unclaimed
  <2>4. attempts[j] \in Nat /\ reprints[j] \in Nat /\ reprints'[j] \in Nat
    BY DEF IndInv, TypeOK
  <2>5. Unclaimed(j)' + reprints[j] <= Unclaimed(j) + reprints'[j]
    BY DEF Quiet
  <2> QED BY <2>1, <2>2, <2>3, <2>4, <2>5
<1> QED BY <1>1, <1>2, <1>3, <1>4, <1>5 DEF IndInv

LEMMA InitIndInv == Init => IndInv
<1> SUFFICES ASSUME Init PROVE IndInv
  OBVIOUS
<1>1. TypeOK
  BY InitTypeOK
<1>2. LeasesAreExclusive /\ RefusalsAreFresh /\ PendingWritesAreSane
  BY DEF Init, LeasesAreExclusive, RefusalsAreFresh, PendingWritesAreSane, Undecided, IdleWorker
<1>3. LeasesAreAccounted /\ ClaimsArePaidFor
  BY FS_EmptySet, JobsAssumption DEF Init, LeasesAreAccounted, ClaimsArePaidFor, Unclaimed
<1> QED BY <1>1, <1>2, <1>3 DEF IndInv

(* A claim opens a lease with a number never used before.                  *)
LEMMA ClaimPreserves ==
  ASSUME IndInv, TypeOK', NEW a, NEW t \in Targets, NEW j \in Jobs, ClaimedBy(a, t, j),
         UNCHANGED <<requests, histVars>>,
         \/ UNCHANGED worker
         \/ \E h \in Hosts : worker' = [worker EXCEPT ![<<h, t>>] =
              [pc |-> "claimed", job |-> j, lease |-> attempts[j] + 1,
               reached |-> FALSE, reply |-> "none"]]
  PROVE IndInv'
<1> USE JobsAssumption DEF ClaimedBy, histVars
<1>0. TypeOK /\ attempts[j] \in Nat /\ attempts'[j] = attempts[j] + 1
      /\ \A i \in Jobs : i # j => attempts'[i] = attempts[i]
  BY DEF IndInv, TypeOK
<1>1. LeasesAreExclusive'
  <2>1. LeasesAreExclusive /\ LeasesAreAccounted
    BY DEF IndInv
  <2>2. \A i \in Jobs : attempts[i] \in Nat /\ attempts'[i] \in Nat /\ attempts'[i] >= attempts[i]
    BY <1>0 DEF TypeOK
  <2>3. \A w \in Hosts \X Targets : Undecided(w) => worker[w].job \in Jobs
    BY <1>0 DEF TypeOK, Undecided
  <2>4. CASE UNCHANGED worker
    BY <2>1, <2>2, <2>3, <2>4 DEF LeasesAreExclusive, Undecided
  <2>5. ASSUME NEW h \in Hosts, worker' = [worker EXCEPT ![<<h, t>>] =
              [pc |-> "claimed", job |-> j, lease |-> attempts[j] + 1,
               reached |-> FALSE, reply |-> "none"]]
        PROVE LeasesAreExclusive'
    <3> DEFINE me == <<h, t>>
    <3>1. me \in Hosts \X Targets /\ worker'[me].job = j /\ worker'[me].lease = attempts[j] + 1
      BY <1>0, <2>5 DEF TypeOK
    <3>2. \A w \in Hosts \X Targets : w # me => worker'[w] = worker[w]
      BY <1>0, <2>5 DEF TypeOK
    <3>3. attempts[j] + 1 \in (1 .. attempts'[j]) \ (paper[j] \union refused[j])
      BY <1>0, <2>1 DEF LeasesAreAccounted
    <3>4. \A w \in Hosts \X Targets : w # me /\ Undecided(w) /\ worker[w].job = j
             => worker[w].lease # attempts[j] + 1
      BY <1>0, <2>1 DEF LeasesAreExclusive
    <3>5. ASSUME NEW w \in Hosts \X Targets, Undecided(w)'
          PROVE worker'[w].lease \in (1 .. attempts'[worker'[w].job])
                   \ (paper[worker'[w].job] \union refused[worker'[w].job])
      BY <2>1, <2>2, <2>3, <3>1, <3>2, <3>3, <3>5 DEF LeasesAreExclusive, Undecided
    <3>6. ASSUME NEW v \in Hosts \X Targets, NEW w \in Hosts \X Targets, Undecided(v)', Undecided(w)',
                 worker'[v].job = worker'[w].job, worker'[v].lease = worker'[w].lease
          PROVE v = w
      BY <2>1, <3>1, <3>2, <3>4, <3>6 DEF LeasesAreExclusive, Undecided
    <3> QED BY <3>5, <3>6 DEF LeasesAreExclusive
  <2> QED BY <2>4, <2>5
<1>2. LeasesAreAccounted'
  BY <1>0 DEF IndInv, TypeOK, LeasesAreAccounted
<1>3. RefusalsAreFresh' /\ PendingWritesAreSane'
  BY DEF IndInv, RefusalsAreFresh, PendingWritesAreSane
<1>4. ClaimsArePaidFor'
  <2> SUFFICES ASSUME NEW i \in Receipts
               PROVE attempts'[i] + Unclaimed(i)' <= 1 + reprints[i] + Cardinality(requeued[i])
    BY DEF IndInv, ClaimsArePaidFor
  <2>1. attempts[i] + Unclaimed(i) <= 1 + reprints[i] + Cardinality(requeued[i])
    BY DEF IndInv, ClaimsArePaidFor
  <2>2. attempts[i] \in Nat
    BY <1>0 DEF TypeOK
  <2>3. attempts'[i] + Unclaimed(i)' = attempts[i] + Unclaimed(i)
    BY <1>0, <2>2 DEF Unclaimed, TypeOK
  <2> QED BY <2>1, <2>3
<1> QED BY <1>1, <1>2, <1>3, <1>4 DEF IndInv

(* A lease is refused at most once, and never after paper.                 *)
LEMMA RefusalPreserves ==
  ASSUME IndInv, TypeOK', NEW h \in Hosts, NEW t \in Targets,
         Undecided(<<h, t>>), ReportUnprinted(h, t)
  PROVE IndInv'
<1> DEFINE me == <<h, t>>
           w == worker[me]
           new == Request("fail", "worker", h, w.job, w.lease, FALSE)
<1>0. /\ TypeOK /\ me \in Hosts \X Targets /\ w.job \in Jobs
      /\ w.lease \in (1 .. attempts[w.job]) \ (paper[w.job] \union refused[w.job])
      /\ UNCHANGED <<attempts, status, prints, paper, requeued, reprints>>
      /\ refused' = [refused EXCEPT ![w.job] = @ \union {w.lease}]
      /\ requests' = requests \union {new}
  BY DEF IndInv, TypeOK, LeasesAreExclusive, Undecided, ReportUnprinted, jobVars
<1>1. LeasesAreExclusive'
  <2>1. ~Undecided(me)'
    BY <1>0 DEF ReportUnprinted, Undecided, TypeOK
  <2>2. \A v \in Hosts \X Targets : v # me => worker'[v] = worker[v]
    BY <1>0 DEF ReportUnprinted, TypeOK
  <2>3. \A v \in Hosts \X Targets : v # me /\ Undecided(v) /\ worker[v].job = w.job
           => worker[v].lease # w.lease
    BY <1>0 DEF IndInv, LeasesAreExclusive
  <2>4. \A v \in Hosts \X Targets : Undecided(v) => worker[v].job \in Jobs
    BY <1>0 DEF TypeOK, Undecided
  <2>5. ASSUME NEW v \in Hosts \X Targets, Undecided(v)'
        PROVE /\ v # me /\ Undecided(v) /\ worker'[v] = worker[v]
              /\ worker[v].lease \in (1 .. attempts[worker[v].job])
                   \ (paper[worker[v].job] \union refused'[worker[v].job])
    <3>1. v # me /\ Undecided(v) /\ worker'[v] = worker[v]
      BY <2>1, <2>2, <2>5 DEF Undecided
    <3>2. worker[v].lease \in (1 .. attempts[worker[v].job])
                   \ (paper[worker[v].job] \union refused[worker[v].job])
      BY <3>1 DEF IndInv, LeasesAreExclusive
    <3> QED BY <1>0, <2>3, <2>4, <3>1, <3>2 DEF TypeOK
  <2> QED BY <1>0, <2>5 DEF IndInv, LeasesAreExclusive
<1>2. LeasesAreAccounted'
  <2> SUFFICES ASSUME NEW j \in Jobs
               PROVE /\ paper[j] \subseteq 1 .. attempts[j] /\ refused'[j] \subseteq 1 .. attempts[j]
                     /\ paper[j] \intersect refused'[j] = {}
                     /\ requeued[j] \subseteq refused'[j]
                     /\ prints[j] = Cardinality(paper[j])
    BY <1>0 DEF LeasesAreAccounted
  <2>1. refused'[j] = IF j = w.job THEN refused[j] \union {w.lease} ELSE refused[j]
    BY <1>0 DEF TypeOK
  <2> QED BY <1>0, <2>1 DEF IndInv, LeasesAreAccounted
<1>3. RefusalsAreFresh'
  <2>1. new.lease = w.lease /\ new.job = w.job /\ new.stage = "sent"
    BY DEF Request
  <2>2. \A r \in requests : r.job \in Jobs
    BY <1>0 DEF TypeOK, Requests
  <2>3. \A r \in requests : IsRefusal(r) /\ r.job = w.job => r.lease # w.lease
    BY <1>0 DEF IndInv, RefusalsAreFresh
  <2>4. w.lease \notin requeued[w.job]
    BY <1>0 DEF IndInv, LeasesAreAccounted
  <2>5. \A r \in requests' : IsRefusal(r) => r.lease \in refused'[r.job] \ requeued[r.job]
    <3>1. refused'[w.job] = refused[w.job] \union {w.lease}
          /\ \A j \in Jobs : refused[j] \subseteq refused'[j]
      BY <1>0 DEF TypeOK
    <3> QED BY <1>0, <2>1, <2>2, <2>4, <3>1 DEF IndInv, RefusalsAreFresh
  <2>6. \A r, q \in requests' :
          IsRefusal(r) /\ IsRefusal(q) /\ r.job = q.job /\ r.lease = q.lease => r = q
    <3> HIDE DEF new
    <3>1. \A r, q \in requests :
            IsRefusal(r) /\ IsRefusal(q) /\ r.job = q.job /\ r.lease = q.lease => r = q
      BY DEF IndInv, RefusalsAreFresh
    <3> QED BY <1>0, <2>1, <2>3, <3>1
  <2> QED BY <1>0, <2>5, <2>6 DEF RefusalsAreFresh
<1>4. PendingWritesAreSane'
  BY <1>0 DEF IndInv, PendingWritesAreSane, Request
<1>5. ClaimsArePaidFor'
  BY <1>0 DEF IndInv, ClaimsArePaidFor, Unclaimed
<1> QED BY <1>1, <1>2, <1>3, <1>4, <1>5 DEF IndInv

(* Paper is counted once per lease.                                        *)
LEMMA PaperPreserves ==
  ASSUME IndInv, TypeOK', NEW h \in Hosts, NEW t \in Targets, BytesLeave(h, t)
  PROVE IndInv'
<1> DEFINE me == <<h, t>>
           w == worker[me]
<1>0. /\ TypeOK /\ me \in Hosts \X Targets /\ w.job \in Jobs /\ Undecided(me)
      /\ w.lease \in (1 .. attempts[w.job]) \ (paper[w.job] \union refused[w.job])
      /\ UNCHANGED <<attempts, status, refused, requeued, reprints, requests>>
      /\ paper' = [paper EXCEPT ![w.job] = @ \union {w.lease}]
      /\ prints' = [prints EXCEPT ![w.job] = @ + 1]
  BY DEF IndInv, TypeOK, LeasesAreExclusive, Undecided, BytesLeave, jobVars
<1>1. \A j \in Jobs : /\ paper'[j] = IF j = w.job THEN paper[j] \union {w.lease} ELSE paper[j]
                      /\ prints'[j] = IF j = w.job THEN prints[j] + 1 ELSE prints[j]
  BY <1>0 DEF TypeOK
<1>2. LeasesAreExclusive'
  <2>1. ~Undecided(me)'
    BY <1>0 DEF BytesLeave, Undecided, TypeOK
  <2>2. \A v \in Hosts \X Targets : v # me => worker'[v] = worker[v]
    BY <1>0 DEF BytesLeave, TypeOK
  <2>3. \A v \in Hosts \X Targets : v # me /\ Undecided(v) /\ worker[v].job = w.job
           => worker[v].lease # w.lease
    BY <1>0 DEF IndInv, LeasesAreExclusive
  <2>4. \A v \in Hosts \X Targets : Undecided(v) => worker[v].job \in Jobs
    BY <1>0 DEF TypeOK, Undecided
  <2>5. ASSUME NEW v \in Hosts \X Targets, Undecided(v)'
        PROVE /\ v # me /\ Undecided(v) /\ worker'[v] = worker[v]
              /\ worker[v].lease \in (1 .. attempts[worker[v].job])
                   \ (paper'[worker[v].job] \union refused[worker[v].job])
    <3>1. v # me /\ Undecided(v) /\ worker'[v] = worker[v]
      BY <2>1, <2>2, <2>5 DEF Undecided
    <3>2. worker[v].lease \in (1 .. attempts[worker[v].job])
                   \ (paper[worker[v].job] \union refused[worker[v].job])
      BY <3>1 DEF IndInv, LeasesAreExclusive
    <3>3. CASE worker[v].job = w.job
      <4>1. paper'[worker[v].job] = paper[worker[v].job] \union {w.lease}
        BY <1>0, <1>1, <3>3
      <4>2. worker[v].lease # w.lease
        BY <2>3, <3>1, <3>3
      <4> QED BY <3>1, <3>2, <4>1, <4>2
    <3>4. CASE worker[v].job # w.job
      BY <1>1, <2>4, <3>1, <3>2, <3>4
    <3> QED BY <3>3, <3>4
  <2> QED BY <1>0, <2>5 DEF IndInv, LeasesAreExclusive
<1>3. LeasesAreAccounted'
  <2> SUFFICES ASSUME NEW j \in Jobs
               PROVE /\ paper'[j] \subseteq 1 .. attempts[j] /\ refused[j] \subseteq 1 .. attempts[j]
                     /\ paper'[j] \intersect refused[j] = {}
                     /\ requeued[j] \subseteq refused[j]
                     /\ prints'[j] = Cardinality(paper'[j])
    BY <1>0 DEF LeasesAreAccounted
  <2>1. /\ paper[j] \subseteq 1 .. attempts[j] /\ refused[j] \subseteq 1 .. attempts[j]
        /\ paper[j] \intersect refused[j] = {}
        /\ requeued[j] \subseteq refused[j]
        /\ prints[j] = Cardinality(paper[j])
    BY DEF IndInv, LeasesAreAccounted
  <2>2. IsFiniteSet(paper[j])
    <3>1. attempts[j] \in Nat
      BY <1>0 DEF TypeOK
    <3> QED BY <2>1, <3>1, LeaseSet
  <2>3. CASE j = w.job
    <3>1. Cardinality(paper[j] \union {w.lease}) = Cardinality(paper[j]) + 1
      BY <1>0, <2>2, <2>3, FS_AddElement
    <3>2. w.lease \in 1 .. attempts[j] /\ w.lease \notin refused[j]
      BY <1>0, <2>3
    <3>3. paper'[j] = paper[j] \union {w.lease} /\ prints'[j] = prints[j] + 1
      BY <1>1, <2>3
    <3> QED BY <2>1, <3>1, <3>2, <3>3
  <2>4. CASE j # w.job
    BY <1>1, <2>1, <2>4
  <2> QED BY <2>3, <2>4
<1>4. RefusalsAreFresh' /\ PendingWritesAreSane' /\ ClaimsArePaidFor'
  BY <1>0 DEF IndInv, RefusalsAreFresh, PendingWritesAreSane, ClaimsArePaidFor, Unclaimed
<1> QED BY <1>2, <1>3, <1>4 DEF IndInv

(* What /fail decides to write respects the attempts it read.              *)
LEMMA ReadFailPreserves ==
  ASSUME IndInv, TypeOK', NEW r \in requests, ReadFail(r)
  PROVE IndInv'
<1> DEFINE q == [r EXCEPT !.stage = "read", !.next = NextAfterFail(r)]
<1>0. /\ TypeOK /\ r \in Requests /\ r.op = "fail" /\ r.job \in Jobs
      /\ requests' = (requests \ {r}) \union {q}
      /\ UNCHANGED <<attempts, status, worker, prints, paper, refused, requeued, reprints>>
  BY DEF IndInv, TypeOK, ReadFail, Requests, jobVars, hostVars, histVars
<1>1. /\ q.op = "fail" /\ q.job = r.job /\ q.lease = r.lease /\ q.reached = r.reached
      /\ q.stage = "read" /\ q.next = NextAfterFail(r)
  BY <1>0 DEF Requests
<1>2. LeasesAreExclusive' /\ LeasesAreAccounted' /\ ClaimsArePaidFor'
  BY <1>0 DEF IndInv, LeasesAreExclusive, LeasesAreAccounted, ClaimsArePaidFor, Undecided, Unclaimed
<1>3. RefusalsAreFresh'
  <2>1. IsRefusal(q) <=> IsRefusal(r)
    BY <1>0, <1>1 DEF IsRefusal
  <2>2. \A p \in requests' : IsRefusal(p) => p.lease \in refused[p.job] \ requeued[p.job]
    BY <1>0, <1>1, <2>1 DEF IndInv, RefusalsAreFresh
  <2>3. \A p \in requests : IsRefusal(p) /\ IsRefusal(r) /\ p.job = r.job /\ p.lease = r.lease => p = r
    BY DEF IndInv, RefusalsAreFresh
  <2>4. \A p, s \in requests' :
          IsRefusal(p) /\ IsRefusal(s) /\ p.job = s.job /\ p.lease = s.lease => p = s
    <3> SUFFICES ASSUME NEW p \in requests', NEW s \in requests', IsRefusal(p), IsRefusal(s),
                        p.job = s.job, p.lease = s.lease
                 PROVE p = s
      OBVIOUS
    <3>1. CASE p = q \/ s = q
      BY <1>0, <1>1, <2>1, <2>3, <3>1
    <3>2. CASE p # q /\ s # q
      BY <1>0, <3>2 DEF IndInv, RefusalsAreFresh
    <3> QED BY <3>1, <3>2
  <2> QED BY <1>0, <2>2, <2>4 DEF RefusalsAreFresh
<1>4. PendingWritesAreSane'
  <2>1. q.next \in {"queued", "failed", "unconfirmed"}
    BY <1>1 DEF NextAfterFail, RetryOrFail
  <2>2. ASSUME q.next = "queued", q.job \in Receipts
        PROVE ~q.reached /\ q.lease < MaxAttempts
    <3>1. ~r.reached /\ attempts[r.job] < MaxAttempts
      BY <1>1, <2>2 DEF NextAfterFail, RetryOrFail
    <3>2. r.lease \in 1 .. attempts[r.job]
      BY <1>0, <3>1 DEF IndInv, RefusalsAreFresh, LeasesAreAccounted, IsRefusal
    <3>3. attempts[r.job] \in Nat
      BY <1>0 DEF TypeOK
    <3> QED BY <1>1, <3>1, <3>2, <3>3, BoundsAssumption
  <2> QED BY <1>0, <1>1, <2>1, <2>2 DEF IndInv, PendingWritesAreSane
<1> QED BY <1>2, <1>3, <1>4 DEF IndInv

(* Putting a job back on the queue uses up the refusal that asked for it.  *)
LEMMA WriteFailPreserves ==
  ASSUME IndInv, TypeOK', NEW r \in requests, WriteFail(r)
  PROVE IndInv'
<1>0. /\ TypeOK /\ r \in Requests /\ r.job \in Jobs /\ r.op = "fail" /\ r.stage = "read"
      /\ r.next \in {"queued", "failed", "unconfirmed"}
      /\ requests' = requests \ {r}
      /\ UNCHANGED <<attempts, prints, paper, refused, reprints>>
      /\ status' = [status EXCEPT ![r.job] = r.next]
      /\ requeued' = IF r.next = "queued" /\ ~r.reached
                     THEN [requeued EXCEPT ![r.job] = @ \union {r.lease}] ELSE requeued
  BY DEF IndInv, TypeOK, WriteFail, Requests, Answer, PendingWritesAreSane
<1>1. \A w \in Hosts \X Targets :
        worker'[w].pc = worker[w].pc /\ worker'[w].job = worker[w].job /\ worker'[w].lease = worker[w].lease
  <2> TAKE w \in Hosts \X Targets
  <2>1. worker[w] \in Workers
    BY <1>0 DEF TypeOK
  <2>2. worker'[w] = worker[w] \/ worker'[w] = [worker[w] EXCEPT !.reply = "ok"]
    BY DEF WriteFail, Answer
  <2> QED BY <2>1, <2>2 DEF Workers
<1>2. \A j \in Jobs : /\ requeued[j] \subseteq requeued'[j]
                      /\ requeued'[j] \subseteq requeued[j] \union {r.lease}
                      /\ requeued'[j] # requeued[j] => j = r.job /\ IsRefusal(r) /\ r.next = "queued"
  BY <1>0 DEF TypeOK, IsRefusal
<1>3. IsRefusal(r) => r.lease \in refused[r.job] \ requeued[r.job]
  BY DEF IndInv, RefusalsAreFresh
<1>4. LeasesAreExclusive'
  BY <1>0, <1>1 DEF IndInv, LeasesAreExclusive, Undecided
<1>5. LeasesAreAccounted'
  BY <1>0, <1>2, <1>3 DEF IndInv, LeasesAreAccounted
<1>6. RefusalsAreFresh'
  <2>1. \A q \in requests' : q \in requests /\ q # r /\ q.job \in Jobs
    BY <1>0 DEF TypeOK, Requests
  <2>2. \A q \in requests' : IsRefusal(q) => q.lease \in refused[q.job] \ requeued'[q.job]
    BY <1>2, <2>1 DEF IndInv, RefusalsAreFresh
  <2> QED BY <1>0, <2>1, <2>2 DEF IndInv, RefusalsAreFresh
<1>7. PendingWritesAreSane'
  BY <1>0 DEF IndInv, PendingWritesAreSane
<1>8. ClaimsArePaidFor'
  <2> SUFFICES ASSUME NEW j \in Receipts
               PROVE /\ attempts[j] + Unclaimed(j)' <= 1 + reprints[j] + Cardinality(requeued'[j])
                     /\ requeued'[j] \subseteq 1 .. (MaxAttempts - 1)
    BY <1>0 DEF ClaimsArePaidFor
  <2>0. j \in Jobs /\ attempts[j] \in Nat /\ reprints[j] \in Nat
    BY <1>0, JobsAssumption DEF TypeOK
  <2>1. /\ attempts[j] + Unclaimed(j) <= 1 + reprints[j] + Cardinality(requeued[j])
        /\ requeued[j] \subseteq 1 .. (MaxAttempts - 1)
    BY DEF IndInv, ClaimsArePaidFor
  <2>2. IsFiniteSet(requeued[j]) /\ Cardinality(requeued[j]) \in Nat
    <3>1. MaxAttempts - 1 \in Nat
      BY BoundsAssumption
    <3> QED BY <2>1, <3>1, LeaseSet
  <2>3. CASE j = r.job /\ r.next = "queued"
    <3>1. ~r.reached /\ r.lease < MaxAttempts
      BY <1>0, <2>3 DEF IndInv, PendingWritesAreSane
    <3>2. r.lease \in refused[j] \ requeued[j] /\ requeued'[j] = requeued[j] \union {r.lease}
      BY <1>0, <1>3, <2>0, <2>3, <3>1 DEF IsRefusal, TypeOK
    <3>3. Cardinality(requeued'[j]) = Cardinality(requeued[j]) + 1
      BY <2>2, <3>2, FS_AddElement
    <3>4. r.lease \in 1 .. (MaxAttempts - 1)
      <4>1. r.lease \in 1 .. attempts[j]
        BY <2>0, <3>2 DEF IndInv, LeasesAreAccounted
      <4> QED BY <2>0, <3>1, <4>1, BoundsAssumption
    <3>5. Unclaimed(j) \in {0, 1} /\ Unclaimed(j)' \in {0, 1}
      BY DEF Unclaimed
    <3> QED BY <2>0, <2>1, <2>2, <3>2, <3>3, <3>4, <3>5
  <2>4. CASE ~(j = r.job /\ r.next = "queued")
    <3>1. requeued'[j] = requeued[j]
      BY <1>2, <2>0, <2>4
    <3>2. Unclaimed(j)' <= Unclaimed(j) /\ Unclaimed(j) \in Nat /\ Unclaimed(j)' \in Nat
      BY <1>0, <2>0, <2>4 DEF Unclaimed, TypeOK
    <3> QED BY <2>0, <2>1, <2>2, <3>1, <3>2
  <2> QED BY <2>3, <2>4
<1> QED BY <1>4, <1>5, <1>6, <1>7, <1>8 DEF IndInv

-----------------------------------------------------------------------------

(* An answer changes no worker that may still print, and adds no request.  *)
LEMMA AnswerIsQuiet ==
  ASSUME TypeOK, NEW r \in requests, NEW x, Answer(r, x)
  PROVE  /\ \A w \in Hosts \X Targets : Undecided(w)' =>
              /\ Undecided(w)
              /\ worker'[w].job = worker[w].job /\ worker'[w].lease = worker[w].lease
         /\ requests' \subseteq requests
<1>1. ASSUME NEW w \in Hosts \X Targets
      PROVE worker'[w].pc = worker[w].pc /\ worker'[w].job = worker[w].job
            /\ worker'[w].lease = worker[w].lease
  <2>1. worker[w] \in Workers
    BY DEF TypeOK
  <2>2. worker'[w] = worker[w] \/ worker'[w] = [worker[w] EXCEPT !.reply = x]
    BY DEF Answer
  <2> QED BY <2>1, <2>2 DEF Workers
<1> QED BY <1>1 DEF Answer, Undecided

(* Nor does a step that leaves the jobs, the workers and the history alone. *)
LEMMA IdleIsQuiet ==
  ASSUME TypeOK, UNCHANGED <<status, attempts, worker, histVars>>, requests' \subseteq requests
  PROVE  Quiet
<1>1. \A j \in Receipts : reprints[j] \in Nat /\ Unclaimed(j) \in Nat
  BY JobsAssumption DEF TypeOK, Unclaimed
<1> QED BY <1>1 DEF Quiet, Undecided, Unclaimed, histVars

LEMMA NextIndInv == ASSUME IndInv, [Next]_vars PROVE IndInv'
<1>0. TypeOK /\ TypeOK'
  BY NextTypeOK DEF IndInv
<1> USE DEF vars, jobVars, agentVars, hostVars, staffVars, histVars
<1>1. CASE AdminStep
  <2>1. Quiet
    BY <1>0, <1>1, IdleIsQuiet DEF AdminStep, DemotePrimary, IssueAgent, RevokeAgent
  <2> QED BY <1>0, <2>1, QuietPreserves
<1>2. ASSUME NEW j \in Jobs, Enqueue(j) \/ SweepStep(j) PROVE IndInv'
  <2>1. \A i \in Receipts : Unclaimed(i)' <= Unclaimed(i)
    BY <1>0, <1>2, JobsAssumption DEF Enqueue, SweepStep, ExpireLease, ExpireStale, PurgeDelete, PurgeSkip,
       Unclaimed, TypeOK
  <2>2. Quiet
    <3>1. UNCHANGED <<hostVars, requests, histVars, attempts>>
      BY <1>2 DEF Enqueue, SweepStep, ExpireLease, ExpireStale, PurgeDelete, PurgeSkip
    <3>2. \A i \in Receipts : reprints[i] \in Nat /\ Unclaimed(i) \in Nat /\ Unclaimed(i)' \in Nat
      BY <1>0, JobsAssumption DEF TypeOK, Unclaimed
    <3> QED BY <2>1, <3>1, <3>2 DEF Quiet, Undecided
  <2> QED BY <1>0, <2>2, QuietPreserves
<1>3. ASSUME NEW a \in Agents, NEW t \in Targets, NEW j \in Jobs, ClaimLost(a, t, j) PROVE IndInv'
  BY <1>0, <1>3, ClaimPreserves DEF ClaimLost
<1>4. ASSUME NEW h \in Hosts, RecoveryStep(h) PROVE IndInv'
  <2>1. \A r \in requests' : IsRefusal(r) \/ r.stage = "read" => r \in requests
    BY <1>4 DEF RecoveryStep, Restart, RecoverMarker, RecoveryAnswered, RecoveryGivesUp, Request, IsRefusal
  <2>2. \A w \in Hosts \X Targets : worker'[w] = worker[w] \/ worker'[w] = IdleWorker
    <3>1. worker' = worker \/ worker' = [w \in Hosts \X Targets |-> IF w[1] = h THEN IdleWorker ELSE worker[w]]
      BY <1>4 DEF RecoveryStep, Restart, RecoverMarker, RecoveryAnswered, RecoveryGivesUp
    <3> QED BY <3>1
  <2>3. \A w \in Hosts \X Targets : Undecided(w)' =>
              Undecided(w) /\ worker'[w].job = worker[w].job /\ worker'[w].lease = worker[w].lease
    BY <2>2 DEF Undecided, IdleWorker
  <2>4. UNCHANGED <<jobVars, histVars>>
    BY <1>4 DEF RecoveryStep, Restart, RecoverMarker, RecoveryAnswered, RecoveryGivesUp
  <2>5. Quiet
    BY <1>0, <2>1, <2>3, <2>4, JobsAssumption DEF Quiet, TypeOK, Unclaimed
  <2> QED BY <1>0, <2>5, QuietPreserves
<1>5. ASSUME NEW h \in Hosts, NEW t \in Targets, WorkerStep(h, t) PROVE IndInv'
  <2> DEFINE me == <<h, t>>
             w == worker[me]
  <2>0. me \in Hosts \X Targets
    OBVIOUS
  <2>1. CASE \E j \in Jobs : Claim(h, t, j)
    BY <1>0, <2>1, ClaimPreserves DEF Claim
  <2>2. CASE CannotPrepare(h, t) \/ TransportRefuses(h, t)
    BY <1>0, <2>2, RefusalPreserves DEF CannotPrepare, TransportRefuses, Undecided
  <2>3. CASE BytesLeave(h, t)
    BY <1>0, <2>3, PaperPreserves
  <2>4. CASE WriteMarker(h, t) \/ TransportSucceeds(h, t) \/ TransportUnsure(h, t)
             \/ WorkerAnswered(h, t) \/ WorkerGivesUp(h, t)
    <3>1. \A r \in requests' : IsRefusal(r) \/ r.stage = "read" => r \in requests
      BY <2>4 DEF WriteMarker, TransportSucceeds, TransportUnsure, WorkerAnswered, WorkerGivesUp,
         Request, IsRefusal
    <3>2. \A v \in Hosts \X Targets : v # me => worker'[v] = worker[v]
      BY <1>0, <2>4 DEF WriteMarker, TransportSucceeds, TransportUnsure, WorkerAnswered, WorkerGivesUp, TypeOK
    <3>3. Undecided(me)' => /\ Undecided(me)
                            /\ worker'[me].job = w.job /\ worker'[me].lease = w.lease
      <4>1. CASE WriteMarker(h, t)
        <5>1. worker'[me] = [w EXCEPT !.pc = "marked"] /\ w.pc = "claimed" /\ w \in Workers
          BY <1>0, <2>0, <4>1 DEF WriteMarker, TypeOK
        <5> QED BY <5>1 DEF Workers, Undecided
      <4>2. CASE TransportSucceeds(h, t) \/ TransportUnsure(h, t)
        <5>1. worker \in [Hosts \X Targets -> Workers] /\ w \in Workers
          BY <1>0, <2>0 DEF TypeOK
        <5>2. CASE TransportSucceeds(h, t)
          <6>1. worker'[me] = [w EXCEPT !.pc = "acking"]
            BY <2>0, <5>1, <5>2 DEF TransportSucceeds
          <6> QED BY <5>1, <6>1 DEF Workers, Undecided
        <5>3. CASE TransportUnsure(h, t)
          <6>1. worker'[me] = [w EXCEPT !.pc = "reporting", !.reached = TRUE]
            BY <2>0, <5>1, <5>3 DEF TransportUnsure
          <6> QED BY <5>1, <6>1 DEF Workers, Undecided
        <5> QED BY <4>2, <5>2, <5>3
      <4>3. CASE WorkerAnswered(h, t) \/ WorkerGivesUp(h, t)
        <5>1. worker'[me].pc = "idle"
          BY <1>0, <2>0, <4>3 DEF WorkerAnswered, WorkerGivesUp, TypeOK, IdleWorker
        <5> QED BY <5>1 DEF Undecided
      <4> QED BY <2>4, <4>1, <4>2, <4>3
    <3>4. UNCHANGED <<jobVars, histVars>>
      BY <2>4 DEF WriteMarker, TransportSucceeds, TransportUnsure, WorkerAnswered, WorkerGivesUp
    <3>5. \A v \in Hosts \X Targets : Undecided(v)' =>
            Undecided(v) /\ worker'[v].job = worker[v].job /\ worker'[v].lease = worker[v].lease
      BY <3>2, <3>3 DEF Undecided
    <3>6. \A i \in Receipts : reprints[i] \in Nat /\ Unclaimed(i) \in Nat
      BY <1>0, JobsAssumption DEF TypeOK, Unclaimed
    <3>7. Quiet
      BY <3>1, <3>4, <3>5, <3>6 DEF Quiet, Unclaimed
    <3> QED BY <1>0, <3>7, QuietPreserves
  <2> QED BY <1>5, <2>1, <2>2, <2>3, <2>4 DEF WorkerStep
<1>6. ASSUME NEW r \in requests, RequestStep(r) PROVE IndInv'
  <2>1. CASE ReadFail(r)
    BY <1>0, <2>1, ReadFailPreserves
  <2>2. CASE WriteFail(r)
    BY <1>0, <2>2, WriteFailPreserves
  <2>3. CASE LoseRequest(r)
    <3>1. Quiet
      BY <1>0, <2>3, IdleIsQuiet DEF LoseRequest
    <3> QED BY <1>0, <3>1, QuietPreserves
  <2>4. CASE ServeAck(r) \/ RejectFail(r) \/ WriteFailIgnored(r)
    <3>1. \E x : Answer(r, x)
      BY <2>4 DEF ServeAck, RejectFail, WriteFailIgnored
    <3>2. UNCHANGED <<attempts, histVars>>
      BY <2>4 DEF ServeAck, RejectFail, WriteFailIgnored
    <3>3. \A i \in Receipts : Unclaimed(i)' <= Unclaimed(i)
      BY <1>0, <2>4, JobsAssumption DEF ServeAck, RejectFail, WriteFailIgnored, HoldsLease, Unclaimed, TypeOK
    <3>4. \A i \in Receipts : reprints[i] \in Nat /\ Unclaimed(i) \in Nat /\ Unclaimed(i)' \in Nat
      BY <1>0, JobsAssumption DEF TypeOK, Unclaimed
    <3>5. Quiet
      BY <1>0, <3>1, <3>2, <3>3, <3>4, AnswerIsQuiet DEF Quiet
    <3> QED BY <1>0, <3>5, QuietPreserves
  <2> QED BY <1>6, <2>1, <2>2, <2>3, <2>4 DEF RequestStep
<1>7. ASSUME NEW s \in Staff, StaffStep(s) PROVE IndInv'
  <2>1. UNCHANGED <<hostVars, requests, attempts, prints, paper, refused, requeued>>
    BY <1>7 DEF StaffStep, WriteResolve, ReadForResolve
  <2>2. \A i \in Receipts : Unclaimed(i)' + reprints[i] <= Unclaimed(i) + reprints'[i]
    <3> SUFFICES ASSUME NEW i \in Receipts
                 PROVE Unclaimed(i)' + reprints[i] <= Unclaimed(i) + reprints'[i]
      OBVIOUS
    <3>1. i \in Jobs /\ reprints[i] \in Nat /\ Unclaimed(i) \in {0, 1} /\ Unclaimed(i)' \in {0, 1}
      BY <1>0, JobsAssumption DEF TypeOK, Unclaimed
    <3>2. CASE \E j \in Jobs, printed \in BOOLEAN : ReadForResolve(s, j, printed)
      BY <3>1, <3>2 DEF ReadForResolve, Unclaimed
    <3>3. CASE WriteResolve(s)
      <4>1. CASE UNCHANGED <<status, reprints>>
        BY <3>1, <4>1 DEF Unclaimed
      <4>2. CASE /\ status' = [status EXCEPT ![decision[s].job] = "printed"] /\ reprints' = reprints
        BY <1>0, <3>1, <4>2 DEF Unclaimed, TypeOK
      <4>3. CASE /\ status' = [status EXCEPT ![decision[s].job] = "queued"]
                 /\ reprints' = [reprints EXCEPT ![decision[s].job] = @ + 1]
        BY <1>0, <3>1, <4>3 DEF Unclaimed, TypeOK
      <4> QED BY <3>3, <4>1, <4>2, <4>3 DEF WriteResolve
    <3> QED BY <1>7, <3>2, <3>3 DEF StaffStep
  <2>3. Quiet
    BY <2>1, <2>2 DEF Quiet, Undecided
  <2> QED BY <1>0, <2>3, QuietPreserves
<1>8. ASSUME NEW rows \in SUBSET Jobs, PurgeList(rows) PROVE IndInv'
  <2>1. Quiet
    BY <1>0, <1>8, IdleIsQuiet DEF PurgeList
  <2> QED BY <1>0, <2>1, QuietPreserves
<1>9. CASE UNCHANGED vars
  <2>1. Quiet
    BY <1>0, <1>9, IdleIsQuiet
  <2> QED BY <1>0, <2>1, QuietPreserves
<1> QED BY <1>1, <1>2, <1>3, <1>4, <1>5, <1>6, <1>7, <1>8, <1>9 DEF Next, HostStep

(* IndInv holds throughout.                                                *)
THEOREM Invariance == Spec => []IndInv
<1>1. Init => IndInv
  BY InitIndInv
<1>2. IndInv /\ [Next]_vars => IndInv'
  BY NextIndInv
<1> QED BY <1>1, <1>2, PTL DEF Spec

-----------------------------------------------------------------------------
(* Every variable keeps its type.                                          *)
THEOREM TypeCorrectness == Spec => []TypeOK
<1>1. IndInv => TypeOK
  BY DEF IndInv
<1> QED BY <1>1, Invariance, PTL

LEMMA DisjointUnion ==
  ASSUME NEW S, NEW T, IsFiniteSet(S), IsFiniteSet(T), S \intersect T = {}
  PROVE  /\ IsFiniteSet(S \union T)
         /\ Cardinality(S \union T) = Cardinality(S) + Cardinality(T)
<1>1. /\ IsFiniteSet(S \union T)
      /\ Cardinality(S \union T) = Cardinality(S) + Cardinality(T) - Cardinality(S \intersect T)
  BY FS_Union
<1>2. Cardinality(S \intersect T) = 0
  BY FS_EmptySet
<1>3. Cardinality(S) \in Nat /\ Cardinality(T) \in Nat
  BY FS_CardinalityType
<1> QED BY <1>1, <1>2, <1>3

(* A claim is paid for: leases bound the paper, people bound the leases.   *)
LEMMA PaperIsPaidFor ==
  ASSUME IndInv, NEW j \in Receipts
  PROVE  /\ Cardinality(paper[j]) + Cardinality(refused[j]) <= attempts[j]
         /\ attempts[j] + Unclaimed(j) <= 1 + reprints[j] + Cardinality(requeued[j])
         /\ Cardinality(requeued[j]) <= Cardinality(refused[j])
         /\ Cardinality(requeued[j]) <= MaxAttempts - 1
         /\ attempts[j] \in Nat /\ reprints[j] \in Nat /\ Unclaimed(j) \in Nat
         /\ Cardinality(paper[j]) \in Nat /\ Cardinality(refused[j]) \in Nat
         /\ Cardinality(requeued[j]) \in Nat
<1>0. j \in Jobs /\ attempts[j] \in Nat /\ reprints[j] \in Nat /\ Unclaimed(j) \in Nat
  BY JobsAssumption DEF IndInv, TypeOK, Unclaimed
<1>1. /\ paper[j] \subseteq 1 .. attempts[j] /\ refused[j] \subseteq 1 .. attempts[j]
      /\ paper[j] \intersect refused[j] = {}
      /\ requeued[j] \subseteq refused[j]
  BY <1>0 DEF IndInv, LeasesAreAccounted
<1>2. /\ IsFiniteSet(paper[j]) /\ Cardinality(paper[j]) \in Nat
      /\ IsFiniteSet(refused[j]) /\ Cardinality(refused[j]) \in Nat
  BY <1>0, <1>1, LeaseSet
<1>3. Cardinality(paper[j] \union refused[j]) = Cardinality(paper[j]) + Cardinality(refused[j])
  BY <1>1, <1>2, DisjointUnion
<1>4. Cardinality(paper[j] \union refused[j]) <= attempts[j]
  <2>1. paper[j] \union refused[j] \subseteq 1 .. attempts[j]
    BY <1>1
  <2> QED BY <1>0, <2>1, LeaseSet
<1>5. Cardinality(requeued[j]) <= Cardinality(refused[j])
  BY <1>1, <1>2, FS_Subset
<1>6. Cardinality(requeued[j]) <= MaxAttempts - 1 /\ Cardinality(requeued[j]) \in Nat
  <2>1. MaxAttempts - 1 \in Nat /\ requeued[j] \subseteq 1 .. (MaxAttempts - 1)
    BY BoundsAssumption DEF IndInv, ClaimsArePaidFor
  <2> QED BY <2>1, LeaseSet
<1>7. attempts[j] + Unclaimed(j) <= 1 + reprints[j] + Cardinality(requeued[j])
  BY DEF IndInv, ClaimsArePaidFor
<1> QED BY <1>0, <1>2, <1>3, <1>4, <1>5, <1>6, <1>7

(* However requests are lost, delayed or raced and PCs crash, a receipt is *)
(* printed at most once more than a person asked for it again.             *)
THEOREM AtMostOncePerRequest == Spec => []ReceiptPrintBound
<1>1. ASSUME IndInv PROVE ReceiptPrintBound
  <2> SUFFICES ASSUME NEW j \in Receipts PROVE prints[j] <= 1 + reprints[j]
    BY DEF ReceiptPrintBound
  <2>1. prints[j] = Cardinality(paper[j])
    BY <1>1, JobsAssumption DEF IndInv, LeasesAreAccounted
  <2> QED BY <1>1, <2>1, PaperIsPaidFor
<1> QED BY <1>1, Invariance, PTL

(* The queue retries a receipt on its own at most MaxAttempts - 1 times.   *)
THEOREM RetriesAreBounded == Spec => []ReceiptRetryBound
<1>1. ASSUME IndInv PROVE ReceiptRetryBound
  <2> SUFFICES ASSUME NEW j \in Receipts PROVE attempts[j] <= MaxAttempts + reprints[j]
    BY DEF ReceiptRetryBound
  <2> QED BY <1>1, PaperIsPaidFor, BoundsAssumption
<1> QED BY <1>1, Invariance, PTL

(* reachedPrinter = false is true whenever it is said.                     *)
THEOREM RefusalsNeverPrinted == Spec => []RefusalsAreTrue
<1>1. IndInv => RefusalsAreTrue
  BY DEF IndInv, LeasesAreAccounted, RefusalsAreTrue
<1> QED BY <1>1, Invariance, PTL

(* Only the transport's send puts paper out, and only /resolve asks again. *)
LEMMA HistoryMoves ==
  ASSUME TypeOK, [Next]_vars
  PROVE  \/ UNCHANGED <<prints, reprints>>
         \/ \E h \in Hosts, t \in Targets : BytesLeave(h, t)
         \/ /\ prints' = prints
            /\ \E j \in Jobs : reprints' = [reprints EXCEPT ![j] = @ + 1]
<1> USE DEF vars, histVars
<1>1. CASE AdminStep
  BY <1>1 DEF AdminStep, DemotePrimary, IssueAgent, RevokeAgent
<1>2. ASSUME NEW j \in Jobs, Enqueue(j) \/ SweepStep(j) PROVE UNCHANGED <<prints, reprints>>
  BY <1>2 DEF Enqueue, SweepStep, ExpireLease, ExpireStale, PurgeDelete, PurgeSkip
<1>3. ASSUME NEW a \in Agents, NEW t \in Targets, NEW j \in Jobs, ClaimLost(a, t, j)
      PROVE UNCHANGED <<prints, reprints>>
  BY <1>3 DEF ClaimLost
<1>4. ASSUME NEW h \in Hosts, RecoveryStep(h) PROVE UNCHANGED <<prints, reprints>>
  BY <1>4 DEF RecoveryStep, Restart, RecoverMarker, RecoveryAnswered, RecoveryGivesUp
<1>5. ASSUME NEW h \in Hosts, NEW t \in Targets, WorkerStep(h, t), ~BytesLeave(h, t)
      PROVE UNCHANGED <<prints, reprints>>
  BY <1>5 DEF WorkerStep, Claim, CannotPrepare, WriteMarker, TransportRefuses, ReportUnprinted,
     TransportSucceeds, TransportUnsure, WorkerAnswered, WorkerGivesUp
<1>6. ASSUME NEW r \in requests, RequestStep(r) PROVE UNCHANGED <<prints, reprints>>
  BY <1>6 DEF RequestStep, LoseRequest, ServeAck, ReadFail, RejectFail, WriteFail, WriteFailIgnored
<1>7. ASSUME NEW s \in Staff, StaffStep(s)
      PROVE /\ prints' = prints
            /\ \/ reprints' = reprints
               \/ \E j \in Jobs : reprints' = [reprints EXCEPT ![j] = @ + 1]
  BY <1>7 DEF StaffStep, WriteResolve, ReadForResolve, TypeOK, Decisions
<1>8. ASSUME NEW rows \in SUBSET Jobs, PurgeList(rows) PROVE UNCHANGED <<prints, reprints>>
  BY <1>8 DEF PurgeList
<1> QED BY <1>1, <1>2, <1>3, <1>4, <1>5, <1>6, <1>7, <1>8 DEF Next, HostStep

-----------------------------------------------------------------------------
(* What the steps of a worker, and an answer, do to the workers.            *)

OthersStay(me) == \A v \in Hosts \X Targets : v # me => worker'[v] = worker[v]
Moved(me, pc) ==
  /\ OthersStay(me)
  /\ worker'[me].pc = pc
  /\ worker'[me].job = worker[me].job /\ worker'[me].lease = worker[me].lease
  /\ worker'[me].reply = worker[me].reply

LEMMA WorkerMoves ==
  ASSUME TypeOK, NEW h \in Hosts, NEW t \in Targets
  PROVE  LET me == <<h, t>> IN
         /\ \A j \in Jobs : Claim(h, t, j) =>
              /\ OthersStay(me)
              /\ worker'[me] = [pc |-> "claimed", job |-> j, lease |-> attempts[j] + 1,
                                reached |-> FALSE, reply |-> "none"]
         /\ ReportUnprinted(h, t) => Moved(me, "reporting")
         /\ WriteMarker(h, t) => Moved(me, "marked")
         /\ BytesLeave(h, t) => Moved(me, "sent")
         /\ TransportSucceeds(h, t) => Moved(me, "acking")
         /\ TransportUnsure(h, t) => Moved(me, "reporting") /\ worker'[me].reached
         /\ WorkerAnswered(h, t) \/ WorkerGivesUp(h, t) => OthersStay(me) /\ worker'[me].pc = "idle"
<1> DEFINE me == <<h, t>>
           w == worker[me]
<1>0. worker \in [Hosts \X Targets -> Workers] /\ me \in Hosts \X Targets
  BY DEF TypeOK
<1>1. ASSUME NEW x, worker' = [worker EXCEPT ![me] = x]
      PROVE  OthersStay(me) /\ worker'[me] = x
  BY <1>0, <1>1 DEF OthersStay
<1>2. w \in Workers
  BY <1>0
<1>3. ASSUME NEW x, worker' = [worker EXCEPT ![me] = x], NEW pc,
             x.pc = pc, x.job = w.job, x.lease = w.lease, x.reply = w.reply
      PROVE  Moved(me, pc)
  BY <1>1, <1>3 DEF Moved
<1>4. ASSUME NEW j \in Jobs, Claim(h, t, j)
      PROVE  /\ OthersStay(me)
             /\ worker'[me] = [pc |-> "claimed", job |-> j, lease |-> attempts[j] + 1,
                               reached |-> FALSE, reply |-> "none"]
  BY <1>1, <1>4 DEF Claim
<1>5. ASSUME ReportUnprinted(h, t) PROVE Moved(me, "reporting")
  <2> DEFINE x == [w EXCEPT !.pc = "reporting", !.reached = FALSE]
  <2>1. x.pc = "reporting" /\ x.job = w.job /\ x.lease = w.lease /\ x.reply = w.reply
    BY <1>2 DEF Workers
  <2>2. worker' = [worker EXCEPT ![me] = x]
    BY <1>5 DEF ReportUnprinted
  <2> HIDE DEF x
  <2> QED BY <1>3, <2>1, <2>2
<1>6. ASSUME NEW pc, worker' = [worker EXCEPT ![me].pc = pc] PROVE Moved(me, pc)
  <2> DEFINE x == [w EXCEPT !.pc = pc]
  <2>1. x.pc = pc /\ x.job = w.job /\ x.lease = w.lease /\ x.reply = w.reply
    BY <1>2 DEF Workers
  <2>2. worker' = [worker EXCEPT ![me] = x]
    BY <1>6
  <2> HIDE DEF x
  <2> QED BY <1>3, <2>1, <2>2
<1>7. /\ WriteMarker(h, t) => Moved(me, "marked")
      /\ BytesLeave(h, t) => Moved(me, "sent")
      /\ TransportSucceeds(h, t) => Moved(me, "acking")
  BY <1>6 DEF WriteMarker, BytesLeave, TransportSucceeds
<1>8. ASSUME TransportUnsure(h, t) PROVE Moved(me, "reporting") /\ worker'[me].reached
  <2> DEFINE x == [w EXCEPT !.pc = "reporting", !.reached = TRUE]
  <2>1. x.pc = "reporting" /\ x.job = w.job /\ x.lease = w.lease /\ x.reply = w.reply /\ x.reached
    BY <1>2 DEF Workers
  <2>2. worker' = [worker EXCEPT ![me] = x]
    BY <1>8 DEF TransportUnsure
  <2> HIDE DEF x
  <2> QED BY <1>1, <1>3, <2>1, <2>2
<1>9. ASSUME WorkerAnswered(h, t) \/ WorkerGivesUp(h, t)
      PROVE  OthersStay(me) /\ worker'[me].pc = "idle"
  <2>1. worker' = [worker EXCEPT ![me] = IdleWorker]
    BY <1>9 DEF WorkerAnswered, WorkerGivesUp
  <2> QED BY <1>1, <2>1 DEF IdleWorker
<1> QED BY <1>4, <1>5, <1>7, <1>8, <1>9

LEMMA AnswerMoves ==
  ASSUME TypeOK, NEW r \in requests, NEW x, Answer(r, x)
  PROVE  /\ \A w \in Hosts \X Targets :
              /\ worker'[w].pc = worker[w].pc /\ worker'[w].job = worker[w].job
              /\ worker'[w].lease = worker[w].lease /\ worker'[w].reached = worker[w].reached
              /\ ~WorkerAwaits(r, w[1], w[2]) => worker'[w].reply = worker[w].reply
         /\ \A h \in Hosts :
              /\ recovery'[h].todo = recovery[h].todo /\ recovery'[h].cur = recovery[h].cur
              /\ ~RecoveryAwaits(r, h) => recovery'[h].reply = recovery[h].reply
         /\ requests' \subseteq requests /\ marker' = marker
<1>1. \A w \in Hosts \X Targets : worker[w] \in Workers
  BY DEF TypeOK
<1>2. \A h \in Hosts : recovery[h] \in Recoveries
  BY DEF TypeOK
<1>3. ASSUME NEW w \in Hosts \X Targets
      PROVE  /\ worker'[w].pc = worker[w].pc /\ worker'[w].job = worker[w].job
             /\ worker'[w].lease = worker[w].lease /\ worker'[w].reached = worker[w].reached
             /\ ~WorkerAwaits(r, w[1], w[2]) => worker'[w].reply = worker[w].reply
  <2>1. worker'[w] = IF WorkerAwaits(r, w[1], w[2])
                       THEN [worker[w] EXCEPT !.reply = x] ELSE worker[w]
    BY DEF Answer
  <2>2. worker[w] \in Workers
    BY <1>1
  <2> QED BY <2>1, <2>2 DEF Workers
<1>4. ASSUME NEW h \in Hosts
      PROVE  /\ recovery'[h].todo = recovery[h].todo /\ recovery'[h].cur = recovery[h].cur
             /\ ~RecoveryAwaits(r, h) => recovery'[h].reply = recovery[h].reply
  <2>1. recovery'[h] = IF RecoveryAwaits(r, h)
                         THEN [recovery[h] EXCEPT !.reply = x] ELSE recovery[h]
    BY DEF Answer
  <2>2. recovery[h] \in Recoveries
    BY <1>2
  <2> QED BY <2>1, <2>2 DEF Recoveries
<1> QED BY <1>3, <1>4 DEF Answer

-----------------------------------------------------------------------------
(* Paper before the word.  A worker that has sent, and every ack on its way, *)
(* is about a job that was printed.                                          *)
AckInv ==
  /\ \A w \in Hosts \X Targets : worker[w].pc \in {"sent", "acking"} => prints[worker[w].job] > 0
  /\ \A r \in requests : r.op = "ack" => prints[r.job] > 0

LEMMA PrintsGrow ==
  ASSUME TypeOK, [Next]_vars PROVE \A j \in Jobs : prints[j] > 0 => prints'[j] > 0
<1>1. \A j \in Jobs : prints[j] \in Nat
  BY DEF TypeOK
<1>2. ASSUME NEW h \in Hosts, NEW t \in Targets, BytesLeave(h, t)
      PROVE  \A j \in Jobs : prints[j] > 0 => prints'[j] > 0
  BY <1>1, <1>2 DEF BytesLeave, TypeOK
<1> QED BY <1>2, HistoryMoves

LEMMA NextAck ==
  ASSUME TypeOK, PendingWritesAreSane, AckInv, [Next]_vars PROVE AckInv'
<1>0. /\ \A j \in Jobs : prints[j] > 0 => prints'[j] > 0
      /\ \A w \in Hosts \X Targets : worker[w].pc # "idle" => worker[w].job \in Jobs
      /\ \A r \in requests : r.job \in Jobs
  BY PrintsGrow DEF TypeOK, Requests
<1>1. ASSUME \A w \in Hosts \X Targets : worker'[w].pc \in {"sent", "acking"} =>
               \/ worker[w].pc \in {"sent", "acking"} /\ worker'[w].job = worker[w].job
               \/ prints'[worker'[w].job] > 0,
             \A r \in requests' : r.op = "ack" => r \in requests \/ prints'[r.job] > 0
      PROVE  AckInv'
  <2>1. ASSUME NEW w \in Hosts \X Targets, worker'[w].pc \in {"sent", "acking"}
        PROVE  prints'[worker'[w].job] > 0
    BY <1>0, <1>1, <2>1 DEF AckInv
  <2>2. ASSUME NEW r \in requests', r.op = "ack"
        PROVE  prints'[r.job] > 0
    BY <1>0, <1>1, <2>2 DEF AckInv
  <2> QED BY <2>1, <2>2 DEF AckInv
<1>2. ASSUME worker' = worker, requests' \subseteq requests
      PROVE  AckInv'
  BY <1>1, <1>2
<1>3. CASE \/ AdminStep
           \/ \E j \in Jobs : Enqueue(j) \/ SweepStep(j)
           \/ \E a \in Agents, t \in Targets, j \in Jobs : ClaimLost(a, t, j)
           \/ \E h \in Hosts : RecoveryAnswered(h) \/ RecoveryGivesUp(h)
           \/ \E r \in requests : LoseRequest(r)
           \/ \E s \in Staff : StaffStep(s)
           \/ \E rows \in SUBSET Jobs : PurgeList(rows)
           \/ UNCHANGED vars
  <2>1. worker' = worker /\ requests' \subseteq requests
    BY <1>3 DEF AdminStep, DemotePrimary, IssueAgent, RevokeAgent, Enqueue, SweepStep, ExpireLease,
       ExpireStale, PurgeDelete, PurgeSkip, ClaimLost, RecoveryAnswered, RecoveryGivesUp,
       LoseRequest, StaffStep, WriteResolve, ReadForResolve, PurgeList, vars, hostVars
  <2> QED BY <1>2, <2>1
<1>4. ASSUME NEW h \in Hosts, Restart(h) PROVE AckInv'
  <2>1. \A w \in Hosts \X Targets : worker'[w] = worker[w] \/ worker'[w].pc = "idle"
    BY <1>4 DEF Restart, IdleWorker
  <2>2. requests' = requests
    BY <1>4 DEF Restart
  <2> QED BY <1>1, <2>1, <2>2
<1>5. ASSUME NEW h \in Hosts, NEW j \in Jobs, RecoverMarker(h, j) PROVE AckInv'
  <2>1. worker' = worker /\ \A r \in requests' : r \in requests \/ r.op = "fail"
    BY <1>5 DEF RecoverMarker, Request
  <2> QED BY <1>1, <2>1
<1>6. ASSUME NEW h \in Hosts, NEW t \in Targets, WorkerStep(h, t) PROVE AckInv'
  <2> DEFINE me == <<h, t>>
  <2>0. me \in Hosts \X Targets
    OBVIOUS
  <2>1. ASSUME OthersStay(me), worker'[me].pc \notin {"sent", "acking"},
               \A r \in requests' : r \in requests \/ r.op = "fail"
        PROVE  AckInv'
    BY <1>1, <2>1 DEF OthersStay
  <2>2. ASSUME NEW j \in Jobs, Claim(h, t, j) PROVE AckInv'
    <3>1. requests' = requests
      BY <2>2 DEF Claim
    <3>2. OthersStay(me)
          /\ worker'[me] = [pc |-> "claimed", job |-> j, lease |-> attempts[j] + 1,
                            reached |-> FALSE, reply |-> "none"]
      BY <2>2, WorkerMoves
    <3>3. worker'[me].pc = "claimed"
      BY <3>2
    <3> QED BY <2>1, <3>1, <3>2, <3>3
  <2>3. CASE ReportUnprinted(h, t)
    <3>1. \A r \in requests' : r \in requests \/ r.op = "fail"
      BY <2>3 DEF ReportUnprinted, Request
    <3> QED BY <2>1, <2>3, <3>1, WorkerMoves DEF Moved
  <2>4. CASE WriteMarker(h, t)
    <3>1. requests' = requests
      BY <2>4 DEF WriteMarker
    <3> QED BY <2>1, <2>4, <3>1, WorkerMoves DEF Moved
  <2>5. CASE BytesLeave(h, t)
    <3>1. Moved(me, "sent")
      BY <2>5, WorkerMoves
    <3>2. /\ requests' = requests /\ worker[me].job \in Jobs
          /\ prints' = [prints EXCEPT ![worker[me].job] = @ + 1]
      BY <1>0, <2>5 DEF BytesLeave
    <3>3. prints'[worker'[me].job] > 0
      BY <3>1, <3>2 DEF Moved, TypeOK
    <3> QED BY <1>1, <3>1, <3>2, <3>3 DEF Moved, OthersStay
  <2>6. CASE TransportSucceeds(h, t)
    <3>1. Moved(me, "acking")
      BY <2>6, WorkerMoves
    <3>2. /\ worker[me].pc = "sent"
          /\ \A r \in requests' : r \in requests \/ r.job = worker[me].job
      BY <2>6 DEF TransportSucceeds, Request
    <3>3. prints'[worker[me].job] > 0
      BY <1>0, <2>0, <3>2 DEF AckInv
    <3> QED BY <1>1, <3>1, <3>2, <3>3 DEF Moved, OthersStay
  <2>7. CASE TransportUnsure(h, t)
    <3>1. \A r \in requests' : r \in requests \/ r.op = "fail"
      BY <2>7 DEF TransportUnsure, Request
    <3> QED BY <2>1, <2>7, <3>1, WorkerMoves DEF Moved
  <2>8. CASE WorkerAnswered(h, t) \/ WorkerGivesUp(h, t)
    <3>1. requests' = requests
      BY <2>8 DEF WorkerAnswered, WorkerGivesUp
    <3> QED BY <2>1, <2>8, <3>1, WorkerMoves
  <2> QED BY <1>6, <2>2, <2>3, <2>4, <2>5, <2>6, <2>7, <2>8
      DEF WorkerStep, CannotPrepare, TransportRefuses
<1>7. ASSUME NEW r \in requests, NEW x, Answer(r, x) PROVE AckInv'
  BY <1>1, <1>7, AnswerMoves
<1>8. ASSUME NEW r \in requests, ReadFail(r) PROVE AckInv'
  <2>1. r \in Requests
    BY DEF TypeOK
  <2>2. [r EXCEPT !.stage = "read", !.next = NextAfterFail(r)].op = "fail"
    BY <1>8, <2>1 DEF ReadFail, Requests
  <2>3. worker' = worker
    BY <1>8 DEF ReadFail, hostVars
  <2>4. \A q \in requests' : q \in requests \/ q.op = "fail"
    BY <1>8, <2>2 DEF ReadFail
  <2> QED BY <1>1, <2>3, <2>4
<1>9. CASE \E r \in requests : ServeAck(r) \/ RejectFail(r) \/ WriteFail(r) \/ WriteFailIgnored(r)
  BY <1>7, <1>9 DEF ServeAck, RejectFail, WriteFail, WriteFailIgnored
<1> QED BY <1>3, <1>4, <1>5, <1>6, <1>8, <1>9 DEF Next, HostStep, RecoveryStep, RequestStep

(* Only an ack closes an open lease as printed. *)
LEMMA ClosedByAck ==
  ASSUME TypeOK, PendingWritesAreSane, [Next]_vars, NEW j \in Jobs,
         status[j] = "leased", status'[j] = "printed"
  PROVE  \E r \in requests : r.op = "ack" /\ r.job = j
<1>0. status \in [Jobs -> Statuses]
  BY DEF TypeOK
<1>1. CASE \/ AdminStep
           \/ \E h \in Hosts : HostStep(h)
           \/ \E r \in requests : \/ LoseRequest(r) \/ ReadFail(r) \/ RejectFail(r)
                                  \/ WriteFailIgnored(r)
           \/ \E rows \in SUBSET Jobs : PurgeList(rows)
           \/ UNCHANGED vars
  <2>1. ASSUME NEW h \in Hosts, NEW t \in Targets, WorkerStep(h, t)
        PROVE  status'[j] # "printed"
    BY <1>0, <2>1 DEF WorkerStep, Claim, ClaimedBy, CannotPrepare, TransportRefuses, ReportUnprinted,
       WriteMarker, BytesLeave, TransportSucceeds, TransportUnsure, WorkerAnswered, WorkerGivesUp,
       jobVars
  <2>2. ASSUME NEW h \in Hosts, RecoveryStep(h)
        PROVE  status' = status
    BY <2>2 DEF RecoveryStep, Restart, RecoverMarker, RecoveryAnswered, RecoveryGivesUp, jobVars
  <2>3. CASE AdminStep
    BY <2>3 DEF AdminStep, DemotePrimary, IssueAgent, RevokeAgent, jobVars
  <2>4. CASE \E rows \in SUBSET Jobs : PurgeList(rows)
    BY <2>4 DEF PurgeList, jobVars
  <2>5. CASE \E r \in requests : \/ LoseRequest(r) \/ ReadFail(r) \/ RejectFail(r)
                                 \/ WriteFailIgnored(r)
    BY <2>5 DEF LoseRequest, ReadFail, RejectFail, WriteFailIgnored, jobVars
  <2>6. CASE UNCHANGED vars
    BY <2>6 DEF vars, jobVars
  <2> QED BY <1>1, <2>1, <2>2, <2>3, <2>4, <2>5, <2>6 DEF HostStep
<1>2. ASSUME NEW i \in Jobs, Enqueue(i) \/ SweepStep(i)
      PROVE  status'[j] # "printed"
  BY <1>0, <1>2 DEF Enqueue, SweepStep, ExpireLease, ExpireStale, PurgeDelete, PurgeSkip,
                    RetryOrFail, jobVars
<1>3. ASSUME NEW a \in Agents, NEW t \in Targets, NEW i \in Jobs, ClaimLost(a, t, i)
      PROVE  status'[j] # "printed"
  BY <1>0, <1>3 DEF ClaimLost, ClaimedBy
<1>4. ASSUME NEW s \in Staff, StaffStep(s)
      PROVE  status'[j] # "printed"
  <2>1. CASE WriteResolve(s)
    BY <1>0, <2>1 DEF WriteResolve
  <2>2. CASE \E i \in Jobs, printed \in BOOLEAN : ReadForResolve(s, i, printed)
    BY <2>2 DEF ReadForResolve, jobVars
  <2> QED BY <1>4, <2>1, <2>2 DEF StaffStep
<1>5. ASSUME NEW r \in requests, WriteFail(r)
      PROVE  status'[j] # "printed"
  BY <1>0, <1>5 DEF WriteFail, PendingWritesAreSane
<1>6. ASSUME NEW r \in requests, ServeAck(r)
      PROVE  r.op = "ack" /\ r.job = j
  <2>1. r.op = "ack"
    BY <1>6 DEF ServeAck
  <2>2. r.job # j => status'[j] = status[j]
    BY <1>0, <1>6 DEF ServeAck
  <2> QED BY <2>1, <2>2
<1> QED BY <1>1, <1>2, <1>3, <1>4, <1>5, <1>6 DEF Next, RequestStep

(* However acks are lost, delayed or repeated, and whatever the sweep and    *)
(* the staff do meanwhile, an open lease is closed as printed only when the  *)
(* job's bytes went to a printer.                                            *)
THEOREM AckIsPaper == Spec => AckMeansPaper
<1>1. Init => AckInv
  BY DEF Init, AckInv, IdleWorker
<1>2. IndInv /\ AckInv /\ [Next]_vars => (IndInv /\ AckInv)'
  BY NextIndInv, NextAck DEF IndInv
<1>3. IndInv /\ AckInv /\ [Next]_vars
        => [\A j \in Jobs : status[j] = "leased" /\ status'[j] = "printed" => prints[j] > 0]_vars
  <2> SUFFICES ASSUME IndInv, AckInv, [Next]_vars, NEW j \in Jobs,
                      status[j] = "leased", status'[j] = "printed"
               PROVE  prints[j] > 0
    OBVIOUS
  <2>1. PICK r \in requests : r.op = "ack" /\ r.job = j
    BY ClosedByAck DEF IndInv
  <2> QED BY <2>1 DEF AckInv
<1> QED BY <1>1, <1>2, <1>3, InitIndInv, PTL DEF Spec, AckMeansPaper

-----------------------------------------------------------------------------
(* The promise.  What a step does to one receipt is a step of its promise,  *)
(* or does not show in it.                                                  *)
Kept(j) == [Promise(j)!Next]_(Promise(j)!vars)

(* A copy is owed to a receipt on the queue, and to one in the hands of a   *)
(* worker that may still print it.                                          *)
LEMMA WaitingIsOwed ==
  ASSUME IndInv, NEW j \in Receipts, status[j] \in {"absent", "queued"}
  PROVE  prints[j] <= reprints[j]
<1>1. prints[j] = Cardinality(paper[j]) /\ Unclaimed(j) = 1
  BY JobsAssumption DEF IndInv, LeasesAreAccounted, Unclaimed
<1> QED BY <1>1, PaperIsPaidFor

(* The same as a predicate, for the state after a step.                     *)
QueuedOwed == \A j \in Receipts : status[j] = "queued" => prints[j] <= reprints[j]

LEMMA UndecidedIsOwed ==
  ASSUME IndInv, NEW w \in Hosts \X Targets, Undecided(w), worker[w].job \in Receipts
  PROVE  prints[worker[w].job] <= reprints[worker[w].job]
<1> DEFINE j == worker[w].job
           n == worker[w].lease
           both == paper[j] \union refused[j]
<1>0. j \in Jobs /\ attempts[j] \in Nat
  BY JobsAssumption DEF IndInv, TypeOK
<1>1. n \in (1 .. attempts[j]) \ both
  BY DEF IndInv, LeasesAreExclusive
<1>2. /\ paper[j] \subseteq 1 .. attempts[j] /\ refused[j] \subseteq 1 .. attempts[j]
      /\ paper[j] \intersect refused[j] = {} /\ prints[j] = Cardinality(paper[j])
  BY <1>0 DEF IndInv, LeasesAreAccounted
<1>3. /\ IsFiniteSet(paper[j]) /\ Cardinality(paper[j]) \in Nat
      /\ IsFiniteSet(refused[j]) /\ Cardinality(refused[j]) \in Nat
  BY <1>0, <1>2, LeaseSet
<1>4. IsFiniteSet(both) /\ Cardinality(both) = Cardinality(paper[j]) + Cardinality(refused[j])
  BY <1>2, <1>3, DisjointUnion
<1>5. Cardinality(both \union {n}) = Cardinality(both) + 1
  BY <1>1, <1>4, FS_AddElement
<1>6. Cardinality(both \union {n}) <= attempts[j]
  <2>1. both \union {n} \subseteq 1 .. attempts[j]
    BY <1>1, <1>2
  <2> QED BY <1>0, <2>1, LeaseSet
<1>7. Cardinality(paper[j]) + Cardinality(refused[j]) + 1 <= attempts[j]
  BY <1>4, <1>5, <1>6
<1> QED BY <1>0, <1>2, <1>3, <1>7, PaperIsPaidFor

LEMMA KeptQuiet ==
  ASSUME NEW j, Shown(j)' = Shown(j), prints'[j] = prints[j], reprints'[j] = reprints[j],
         decision' = decision
  PROVE  Kept(j)
<1>1. \A s \in Staff : Said(s, j)' = Said(s, j)
  BY DEF Said
<1> QED BY <1>1 DEF Kept, Promise!vars

(* The row alone moves: the four ways the promise lets it.                  *)
LEMMA KeptMove ==
  ASSUME NEW j, prints'[j] = prints[j], reprints'[j] = reprints[j], decision' = decision,
         \/ Shown(j)' = Shown(j)
         \/ Shown(j) = "queued" /\ Shown(j)' = "leased"
         \/ Shown(j) = "leased" /\ Shown(j)' = "printed" /\ prints[j] > 0
         \/ /\ Shown(j) \notin {"printed", "deleted"}
            /\ \/ Shown(j)' \in {"unconfirmed", "failed"}
               \/ Shown(j)' = "queued" /\ prints[j] <= reprints[j]
         \/ Shown(j)' = "deleted"
  PROVE  Kept(j)
<1>1. CASE Shown(j)' = Shown(j)
  BY <1>1, KeptQuiet
<1>2. \A s \in Staff : Said(s, j)' = Said(s, j)
  BY DEF Said
<1>3. UNCHANGED <<prints[j], reprints[j], [s \in Staff |-> Said(s, j)]>>
  BY <1>2
<1>4. CASE Shown(j) = "queued" /\ Shown(j)' = "leased"
  BY <1>3, <1>4 DEF Kept, Promise!Next, Promise!Take
<1>5. CASE Shown(j) = "leased" /\ Shown(j)' = "printed" /\ prints[j] > 0
  BY <1>3, <1>5 DEF Kept, Promise!Next, Promise!Confirm
<1>6. CASE /\ Shown(j)' # Shown(j) /\ Shown(j) \notin {"printed", "deleted"}
           /\ \/ Shown(j)' \in {"unconfirmed", "failed"}
              \/ Shown(j)' = "queued" /\ prints[j] <= reprints[j]
  BY <1>3, <1>6 DEF Kept, Promise!Next, Promise!Return, Promise!Owed
<1>7. CASE Shown(j)' = "deleted"
  BY <1>3, <1>7 DEF Kept, Promise!Next, Promise!Discard
<1> QED BY <1>1, <1>4, <1>5, <1>6, <1>7

LEMMA PaperKept ==
  ASSUME IndInv, NEW h \in Hosts, NEW t \in Targets, BytesLeave(h, t), NEW j \in Receipts
  PROVE  Kept(j)
<1> DEFINE me == <<h, t>>
           i == worker[me].job
<1>1. /\ TypeOK /\ j \in Jobs /\ me \in Hosts \X Targets
      /\ Undecided(me) /\ i \in Jobs
      /\ prints' = [prints EXCEPT ![i] = @ + 1]
      /\ UNCHANGED <<status, reprints, decision>>
  BY JobsAssumption DEF IndInv, BytesLeave, Undecided, TypeOK, jobVars, staffVars
<1>2. CASE i # j
  <2>1. prints'[j] = prints[j]
    BY <1>1, <1>2 DEF TypeOK
  <2> QED BY <1>1, <2>1, KeptMove DEF Shown
<1>3. CASE i = j
  <2>1. prints[j] <= reprints[j]
    BY <1>1, <1>3, UndecidedIsOwed
  <2>2. prints'[j] = prints[j] + 1
    BY <1>1, <1>3 DEF TypeOK
  <2>3. \A s \in Staff : Said(s, j)' = Said(s, j)
    BY <1>1 DEF Said
  <2>4. UNCHANGED <<Shown(j), reprints[j], [s \in Staff |-> Said(s, j)]>>
    BY <1>1, <2>3 DEF Shown
  <2> QED BY <2>1, <2>2, <2>4 DEF Kept, Promise!Next, Promise!PaperOut, Promise!Owed
<1> QED BY <1>2, <1>3

LEMMA RequestKept ==
  ASSUME IndInv, QueuedOwed', AckInv, NEW r \in requests, RequestStep(r), NEW j \in Receipts
  PROVE  Kept(j)
<1>0. TypeOK /\ j \in Jobs /\ r \in Requests /\ r.job \in Jobs
  BY JobsAssumption DEF IndInv, TypeOK, Requests
<1>1. UNCHANGED <<prints, reprints, decision>>
  BY DEF RequestStep, LoseRequest, ServeAck, ReadFail, RejectFail, WriteFail, WriteFailIgnored,
     histVars, staffVars
<1>2. CASE UNCHANGED status
  BY <1>1, <1>2, KeptMove DEF Shown
<1>3. CASE ServeAck(r) /\ HoldsLease(r.host, r.job)
  <2>1. status[r.job] = "leased" /\ status' = [status EXCEPT ![r.job] = "printed"] /\ r.op = "ack"
    BY <1>3 DEF ServeAck, HoldsLease
  <2>2. prints[r.job] > 0
    BY <2>1 DEF AckInv
  <2> QED BY <1>0, <1>1, <2>1, <2>2, KeptMove DEF Shown, TypeOK
<1>4. CASE WriteFail(r)
  <2>1. /\ status[r.job] \notin {"printed", "deleted"}
        /\ status' = [status EXCEPT ![r.job] = r.next]
        /\ r.next \in {"queued", "failed", "unconfirmed"}
    BY <1>4 DEF WriteFail, IndInv, PendingWritesAreSane
  <2>2. status'[j] = "queued" => prints'[j] <= reprints'[j]
    BY DEF QueuedOwed
  <2> QED BY <1>0, <1>1, <2>1, <2>2, KeptMove DEF Shown, TypeOK
<1> QED BY <1>2, <1>3, <1>4
    DEF RequestStep, LoseRequest, ServeAck, ReadFail, RejectFail, WriteFailIgnored, jobVars

LEMMA StaffKept ==
  ASSUME IndInv, NEW s \in Staff, StaffStep(s), NEW j \in Receipts
  PROVE  Kept(j)
<1>0. TypeOK /\ j \in Jobs /\ prints' = prints
  BY JobsAssumption DEF IndInv, StaffStep, WriteResolve, ReadForResolve, histVars
<1>1. ASSUME NEW i \in Jobs, NEW printed \in BOOLEAN, ReadForResolve(s, i, printed) PROVE Kept(j)
  <2>1. /\ decision[s] = NONE /\ status[i] \in {"unconfirmed", "failed"}
        /\ decision' = [decision EXCEPT ![s] = [job |-> i, printed |-> printed]]
        /\ UNCHANGED <<status, reprints>>
    BY <1>1 DEF ReadForResolve, jobVars, histVars
  <2>2. \A p \in Staff : p # s => Said(p, j)' = Said(p, j)
    BY <1>0, <2>1 DEF Said, TypeOK
  <2>3. Said(s, j) = "none"
    BY <2>1 DEF Said
  <2>4. decision'[s] = [job |-> i, printed |-> printed]
    BY <1>0, <2>1 DEF TypeOK
  <2>5. CASE Said(s, j)' = "none"
    <3>1. [p \in Staff |-> Said(p, j)]' = [p \in Staff |-> Said(p, j)]
      BY <2>2, <2>3, <2>5
    <3> QED BY <1>0, <2>1, <3>1 DEF Kept, Promise!vars, Shown
  <2>6. CASE Said(s, j)' # "none"
    <3>1. i = j /\ Said(s, j)' \in {"it printed", "print it again"}
      BY <2>4, <2>6 DEF Said
    <3>2. [p \in Staff |-> Said(p, j)]' = [[p \in Staff |-> Said(p, j)] EXCEPT ![s] = Said(s, j)']
      BY <2>2
    <3> QED BY <1>0, <2>1, <2>3, <3>1, <3>2
        DEF Kept, Promise!Next, Promise!Question, Shown
  <2> QED BY <2>5, <2>6
<1>2. ASSUME WriteResolve(s) PROVE Kept(j)
  <2> DEFINE i == decision[s].job
  <2>1. /\ decision[s] # NONE /\ i \in Jobs /\ decision[s].printed \in BOOLEAN
        /\ decision' = [decision EXCEPT ![s] = NONE]
    BY <1>0, <1>2 DEF WriteResolve, TypeOK, Decisions
  <2>2. \A p \in Staff : p # s => Said(p, j)' = Said(p, j)
    BY <1>0, <2>1 DEF Said, TypeOK
  <2>3. Said(s, j)' = "none"
    BY <1>0, <2>1 DEF Said, TypeOK
  <2>4. CASE i # j
    <3>1. Said(s, j) = "none"
      BY <2>4 DEF Said
    <3>2. [p \in Staff |-> Said(p, j)]' = [p \in Staff |-> Said(p, j)]
      BY <2>2, <2>3, <3>1
    <3>3. status'[j] = status[j] /\ reprints'[j] = reprints[j]
      BY <1>0, <1>2, <2>1, <2>4 DEF WriteResolve, TypeOK
    <3> QED BY <1>0, <3>2, <3>3 DEF Kept, Promise!vars, Shown
  <2>5. CASE i = j
    <3>1. /\ Said(s, j) = IF decision[s].printed THEN "it printed" ELSE "print it again"
          /\ Said(s, j) # "none"
      BY <2>1, <2>5 DEF Said
    <3>2. [p \in Staff |-> Said(p, j)]' = [[p \in Staff |-> Said(p, j)] EXCEPT ![s] = "none"]
      BY <2>2, <2>3
    <3>3. \/ status[j] \in {"leased", "deleted"} /\ UNCHANGED <<status, reprints>>
          \/ /\ status[j] \notin {"leased", "deleted"}
             /\ \/ /\ decision[s].printed /\ status'[j] = "printed" /\ reprints'[j] = reprints[j]
                \/ /\ ~decision[s].printed /\ status'[j] = "queued" /\ reprints'[j] = reprints[j] + 1
      BY <1>0, <1>2, <2>1, <2>5 DEF WriteResolve, TypeOK
    <3>4. /\ Shown(j) \in {"leased", "deleted"} <=> status[j] \in {"leased", "deleted"}
          /\ status'[j] = status[j] => Shown(j)' = Shown(j)
          /\ status'[j] \in {"printed", "queued"} => Shown(j)' = status'[j]
      BY DEF Shown
    <3>5. Promise(j)!Reply(s)
      BY <1>0, <2>1, <3>1, <3>2, <3>3, <3>4 DEF Promise!Reply
    <3> QED BY <3>5 DEF Kept, Promise!Next
  <2> QED BY <2>4, <2>5
<1> QED BY <1>1, <1>2 DEF StaffStep

LEMMA NextKept ==
  ASSUME IndInv, QueuedOwed', AckInv, [Next]_vars, NEW j \in Receipts
  PROVE  Kept(j)
<1>0. TypeOK /\ j \in Jobs
  BY JobsAssumption DEF IndInv
<1> USE DEF vars, jobVars, agentVars, hostVars, staffVars, histVars
<1>1. CASE AdminStep
  BY <1>1, KeptMove DEF AdminStep, DemotePrimary, IssueAgent, RevokeAgent, Shown
<1>2. ASSUME NEW i \in Jobs, Enqueue(i) \/ SweepStep(i) PROVE Kept(j)
  <2>1. UNCHANGED <<prints, reprints, decision>>
    BY <1>2 DEF Enqueue, SweepStep, ExpireLease, ExpireStale, PurgeDelete, PurgeSkip
  <2>2. \/ Shown(j)' = Shown(j)
        \/ Shown(j) \in {"leased", "queued"} /\ Shown(j)' \in {"unconfirmed", "failed"}
        \/ Shown(j)' = "deleted"
    BY <1>0, <1>2 DEF Enqueue, SweepStep, ExpireLease, ExpireStale, PurgeDelete, PurgeSkip, Shown, TypeOK
  <2> QED BY <2>1, <2>2, KeptMove
<1>3. ASSUME NEW a, NEW t \in Targets, NEW i \in Jobs, ClaimedBy(a, t, i),
             UNCHANGED <<prints, reprints, decision>>
      PROVE Kept(j)
  <2>1. Shown(j)' = Shown(j) \/ (Shown(j) = "queued" /\ Shown(j)' = "leased")
    BY <1>0, <1>3 DEF ClaimedBy, Shown, TypeOK
  <2> QED BY <1>3, <2>1, KeptMove
<1>4. ASSUME NEW h \in Hosts, RecoveryStep(h) PROVE Kept(j)
  BY <1>4, KeptMove DEF RecoveryStep, Restart, RecoverMarker, RecoveryAnswered, RecoveryGivesUp, Shown
<1>5. ASSUME NEW h \in Hosts, NEW t \in Targets, WorkerStep(h, t) PROVE Kept(j)
  <2>1. ASSUME NEW i \in Jobs, Claim(h, t, i) PROVE Kept(j)
    BY <1>3, <2>1 DEF Claim
  <2>2. CASE BytesLeave(h, t)
    BY <2>2, PaperKept
  <2>3. CASE \/ CannotPrepare(h, t) \/ WriteMarker(h, t) \/ TransportRefuses(h, t)
             \/ TransportSucceeds(h, t) \/ TransportUnsure(h, t)
             \/ WorkerAnswered(h, t) \/ WorkerGivesUp(h, t)
    <3>1. UNCHANGED <<status, prints, reprints, decision>>
      BY <2>3 DEF CannotPrepare, WriteMarker, TransportRefuses, ReportUnprinted, TransportSucceeds,
         TransportUnsure, WorkerAnswered, WorkerGivesUp
    <3> QED BY <3>1, KeptMove DEF Shown
  <2> QED BY <1>5, <2>1, <2>2, <2>3 DEF WorkerStep
<1>6. ASSUME NEW r \in requests, RequestStep(r) PROVE Kept(j)
  BY <1>6, RequestKept
<1>7. ASSUME NEW s \in Staff, StaffStep(s) PROVE Kept(j)
  BY <1>7, StaffKept
<1>8. ASSUME NEW rows \in SUBSET Jobs, PurgeList(rows) PROVE Kept(j)
  BY <1>8, KeptMove DEF PurgeList, Shown
<1>9. CASE UNCHANGED vars
  BY <1>9, KeptMove DEF Shown
<1>10. ASSUME NEW a \in Agents, NEW t \in Targets, NEW i \in Jobs, ClaimLost(a, t, i) PROVE Kept(j)
  BY <1>3, <1>10 DEF ClaimLost
<1> QED BY <1>1, <1>2, <1>4, <1>5, <1>6, <1>7, <1>8, <1>9, <1>10 DEF Next, HostStep

(* The queue keeps the promise for every receipt: each step is one the      *)
(* promise allows, or does not concern the receipt.                         *)
THEOREM QueueKeepsPromise == Spec => KeepsReceiptPromise
<1>1. Init => /\ IndInv /\ AckInv
              /\ \A j \in Receipts : Promise(j)!Init
  <2>1. Init => \A j \in Receipts : Promise(j)!Init
    BY JobsAssumption DEF Init, Promise!Init, Shown, Said
  <2>2. Init => AckInv
    BY DEF Init, AckInv, IdleWorker
  <2> QED BY <2>1, <2>2, InitIndInv
<1>2. IndInv /\ AckInv /\ [Next]_vars => (IndInv /\ AckInv)'
  BY NextIndInv, NextAck DEF IndInv
<1>3. IndInv => QueuedOwed
  BY WaitingIsOwed DEF QueuedOwed
<1>4. IndInv /\ AckInv /\ QueuedOwed' /\ [Next]_vars
        => [\A j \in Receipts :
              \/ UNCHANGED <<status[j], prints[j], reprints[j], decision>>
              \/ [Promise(j)!Next]_(Promise(j)!vars)]_vars
  BY NextKept DEF Kept
<1> QED BY <1>1, <1>2, <1>3, <1>4, PTL DEF Spec, KeepsReceiptPromise

-----------------------------------------------------------------------------
(* The markers of a job's first lease.  A worker holds a lease that was     *)
(* given; one that said nothing was printed has its lease among the         *)
(* refused; and a marker is of a job that was claimed.                      *)
WorkersKnow ==
  \A w \in Hosts \X Targets : worker[w].pc # "idle" =>
    /\ worker[w].lease \in 1 .. attempts[worker[w].job]
    /\ worker[w].pc = "reporting" /\ ~worker[w].reached => worker[w].lease \in refused[worker[w].job]

Noted(h, j) == j \in marker[h] \/ j \in recovery[h].todo \/ j = recovery[h].cur
NotesAreOfLeases == \A h \in Hosts, j \in Jobs : Noted(h, j) => attempts[j] > 0

(* While its first lease is open, only the PCs with the token it was given  *)
(* to know a job, and no report about it has been answered: an answer ends  *)
(* the lease or goes to a PC that does not hold it.                         *)
First(j) == status[j] = "leased" /\ attempts[j] = 1
FirstAfter(j) == status'[j] = "leased" /\ attempts'[j] = 1
WorkersHold ==
  \A w \in Hosts \X Targets : worker[w].pc # "idle" /\ First(worker[w].job) =>
    /\ owner[worker[w].job] = TokenOf[w[1]] /\ worker[w].reply = "none"
    /\ worker[w].pc = "marked" => worker[w].job \in marker[w[1]]
NotesHold ==
  \A h \in Hosts, j \in Jobs : First(j) /\ Noted(h, j) =>
    /\ owner[j] = TokenOf[h]
    /\ j = recovery[h].cur => recovery[h].reply = "none"

MarkerInv ==
  WorkersKnow /\ NotesAreOfLeases /\ WorkersHold /\ NotesHold /\ FirstPrintIsMarked

LEMMA InitMarker == Init => MarkerInv
<1> SUFFICES ASSUME Init PROVE MarkerInv
  OBVIOUS
<1>1. \A h \in Hosts, j \in Jobs : ~Noted(h, j)
  BY NoneAssumption DEF Init, Noted, IdleRecovery
<1>2. \A w \in Hosts \X Targets : worker[w].pc = "idle"
  BY DEF Init, IdleWorker
<1>3. \A j \in Jobs : status[j] # "leased"
  BY DEF Init
<1> QED BY <1>1, <1>2, <1>3
    DEF MarkerInv, WorkersKnow, NotesAreOfLeases, WorkersHold, NotesHold, FirstPrintIsMarked

(* What the steps below have in common: no first lease begins and its owner *)
(* stays; workers keep their leases and, during a first lease, their        *)
(* replies; nobody learns of a job; and what is printed stays marked.       *)
NoFirst ==
  \A j \in Jobs : /\ attempts'[j] = attempts[j] /\ refused[j] \subseteq refused'[j]
                  /\ FirstAfter(j) => First(j) /\ owner'[j] = owner[j]
SameWorker(w) ==
  /\ worker'[w].pc = worker[w].pc /\ worker'[w].job = worker[w].job
  /\ worker'[w].lease = worker[w].lease /\ worker'[w].reached = worker[w].reached
  /\ FirstAfter(worker[w].job) => worker'[w].reply = worker[w].reply
SameWorkers == \A w \in Hosts \X Targets : SameWorker(w) \/ worker'[w].pc = "idle"
SameNotes ==
  \A h \in Hosts, j \in Jobs :
    /\ j \in marker[h] => j \in marker'[h] \/ ~(FirstAfter(j) /\ prints'[j] > 0)
    /\ Noted(h, j)' => Noted(h, j)
    /\ FirstAfter(j) /\ j = recovery'[h].cur
         => recovery'[h].reply = "none" \/ (j = recovery[h].cur /\ recovery'[h].reply = recovery[h].reply)
SamePaper == \A j \in Jobs : FirstAfter(j) /\ prints'[j] > 0 => prints[j] > 0
MarkedStay ==
  \A w \in Hosts \X Targets : FirstAfter(worker[w].job) /\ worker'[w].pc = "marked" /\ SameWorker(w)
     /\ worker[w].job \in marker[w[1]] => worker[w].job \in marker'[w[1]]

LEMMA SameKnow ==
  ASSUME TypeOK, WorkersKnow, NoFirst, NEW w \in Hosts \X Targets, SameWorker(w), worker'[w].pc # "idle"
  PROVE  /\ worker'[w].lease \in 1 .. attempts'[worker'[w].job]
         /\ worker'[w].pc = "reporting" /\ ~worker'[w].reached
              => worker'[w].lease \in refused'[worker'[w].job]
<1>1. worker[w].pc # "idle" /\ worker[w].job \in Jobs
  BY DEF SameWorker, TypeOK
<1>2. /\ attempts'[worker[w].job] = attempts[worker[w].job]
      /\ refused[worker[w].job] \subseteq refused'[worker[w].job]
  BY <1>1 DEF NoFirst
<1>3. /\ worker[w].lease \in 1 .. attempts[worker[w].job]
      /\ worker[w].pc = "reporting" /\ ~worker[w].reached => worker[w].lease \in refused[worker[w].job]
  BY <1>1 DEF WorkersKnow
<1>4. /\ worker'[w].pc = worker[w].pc /\ worker'[w].job = worker[w].job
      /\ worker'[w].lease = worker[w].lease /\ worker'[w].reached = worker[w].reached
  BY DEF SameWorker
<1>5. worker'[w].lease \in 1 .. attempts'[worker'[w].job]
  BY <1>2, <1>3, <1>4
<1>6. ASSUME worker'[w].pc = "reporting", ~worker'[w].reached
      PROVE  worker'[w].lease \in refused'[worker'[w].job]
  <2>1. worker[w].lease \in refused[worker[w].job]
    BY <1>3, <1>4, <1>6
  <2> QED BY <1>2, <1>4, <2>1
<1> QED BY <1>5, <1>6

LEMMA SameHold ==
  ASSUME TypeOK, WorkersHold, NoFirst, MarkedStay, NEW w \in Hosts \X Targets, SameWorker(w),
         worker'[w].pc # "idle", FirstAfter(worker'[w].job)
  PROVE  /\ owner'[worker'[w].job] = TokenOf[w[1]] /\ worker'[w].reply = "none"
         /\ worker'[w].pc = "marked" => worker'[w].job \in marker'[w[1]]
<1>1. worker[w].pc # "idle" /\ worker[w].job \in Jobs
  BY DEF SameWorker, TypeOK
<1>2. FirstAfter(worker[w].job)
  BY DEF SameWorker, FirstAfter
<1>3. First(worker[w].job) /\ owner'[worker[w].job] = owner[worker[w].job]
  BY <1>1, <1>2 DEF NoFirst
<1>4. /\ owner[worker[w].job] = TokenOf[w[1]] /\ worker[w].reply = "none"
      /\ worker[w].pc = "marked" => worker[w].job \in marker[w[1]]
  BY <1>1, <1>3 DEF WorkersHold
<1>5. worker'[w].pc = worker[w].pc /\ worker'[w].job = worker[w].job /\ worker'[w].reply = worker[w].reply
  BY <1>2 DEF SameWorker
<1>6. worker'[w].pc = "marked" => worker'[w].job \in marker'[w[1]]
  BY <1>2, <1>4, <1>5 DEF MarkedStay
<1> QED BY <1>3, <1>4, <1>5, <1>6

LEMMA SameNotesHold ==
  ASSUME NotesHold, NotesAreOfLeases, NoFirst, SameNotes
  PROVE  NotesHold' /\ NotesAreOfLeases'
<1>1. ASSUME NEW h \in Hosts, NEW j \in Jobs, Noted(h, j)'
      PROVE  attempts'[j] > 0
  BY <1>1 DEF SameNotes, NotesAreOfLeases, NoFirst
<1>2. ASSUME NEW h \in Hosts, NEW j \in Jobs, FirstAfter(j), Noted(h, j)'
      PROVE  owner'[j] = TokenOf[h] /\ (j = recovery'[h].cur => recovery'[h].reply = "none")
  <2>1. First(j) /\ owner'[j] = owner[j] /\ Noted(h, j)
    BY <1>2 DEF NoFirst, SameNotes
  <2>2. owner[j] = TokenOf[h] /\ (j = recovery[h].cur => recovery[h].reply = "none")
    BY <2>1 DEF NotesHold
  <2>3. j = recovery'[h].cur
          => recovery'[h].reply = "none" \/ (j = recovery[h].cur /\ recovery'[h].reply = recovery[h].reply)
    BY <1>2 DEF SameNotes
  <2> QED BY <2>1, <2>2, <2>3
<1> QED BY <1>1, <1>2 DEF NotesHold, NotesAreOfLeases, First, FirstAfter

LEMMA SamePrintsMarked ==
  ASSUME FirstPrintIsMarked, NoFirst, SameNotes, SamePaper
  PROVE  FirstPrintIsMarked'
<1> SUFFICES ASSUME NEW j \in Jobs, FirstAfter(j), prints'[j] > 0
             PROVE  \E h \in Hosts : j \in marker'[h]
  BY DEF FirstPrintIsMarked, FirstAfter
<1>1. First(j) /\ prints[j] > 0
  BY DEF NoFirst, SamePaper
<1>2. PICK h \in Hosts : j \in marker[h]
  BY <1>1 DEF FirstPrintIsMarked, First
<1>3. j \in marker'[h]
  BY <1>2 DEF SameNotes
<1> QED BY <1>3

LEMMA CalmPreserves ==
  ASSUME TypeOK, MarkerInv, NoFirst, SameWorkers, SameNotes, SamePaper, MarkedStay
  PROVE  MarkerInv'
<1>1. WorkersKnow'
  BY SameKnow DEF MarkerInv, WorkersKnow, SameWorkers
<1>2. WorkersHold'
  BY SameHold DEF MarkerInv, WorkersHold, SameWorkers, First, FirstAfter
<1> QED BY <1>1, <1>2, SameNotesHold, SamePrintsMarked DEF MarkerInv

(* A worker moves on with the lease it holds. *)
LEMMA MovePreserves ==
  ASSUME TypeOK, MarkerInv, NoFirst, MarkedStay, (NotesHold /\ NotesAreOfLeases)',
         FirstPrintIsMarked', NEW me \in Hosts \X Targets, NEW pc,
         worker[me].pc # "idle", Moved(me, pc),
         pc = "reporting" /\ ~worker'[me].reached => worker[me].lease \in refused'[worker[me].job],
         pc = "marked" => worker[me].job \in marker'[me[1]]
  PROVE  MarkerInv'
<1>1. \A w \in Hosts \X Targets : w # me => SameWorker(w)
  BY DEF Moved, OthersStay, SameWorker
<1>2. /\ worker'[me].pc = pc /\ worker'[me].job = worker[me].job
      /\ worker'[me].lease = worker[me].lease /\ worker'[me].reply = worker[me].reply
  BY DEF Moved
<1>3. worker[me].job \in Jobs
  BY DEF TypeOK
<1>4. worker'[me].lease \in 1 .. attempts'[worker'[me].job]
  BY <1>2, <1>3 DEF MarkerInv, WorkersKnow, NoFirst
<1>5. WorkersKnow'
  <2> SUFFICES ASSUME NEW w \in Hosts \X Targets, worker'[w].pc # "idle"
               PROVE  /\ worker'[w].lease \in 1 .. attempts'[worker'[w].job]
                      /\ worker'[w].pc = "reporting" /\ ~worker'[w].reached
                           => worker'[w].lease \in refused'[worker'[w].job]
    BY DEF WorkersKnow
  <2>1. CASE w = me
    BY <1>2, <1>4, <2>1
  <2>2. CASE w # me
    BY <1>1, <2>2, SameKnow DEF MarkerInv
  <2> QED BY <2>1, <2>2
<1>6. WorkersHold'
  <2> SUFFICES ASSUME NEW w \in Hosts \X Targets, worker'[w].pc # "idle", FirstAfter(worker'[w].job)
               PROVE  /\ owner'[worker'[w].job] = TokenOf[w[1]] /\ worker'[w].reply = "none"
                      /\ worker'[w].pc = "marked" => worker'[w].job \in marker'[w[1]]
    BY DEF WorkersHold, First, FirstAfter
  <2>1. CASE w = me
    <3>1. First(worker[me].job) /\ owner'[worker[me].job] = owner[worker[me].job]
      BY <1>2, <1>3, <2>1 DEF NoFirst
    <3>2. owner[worker[me].job] = TokenOf[me[1]] /\ worker[me].reply = "none"
      BY <3>1 DEF MarkerInv, WorkersHold
    <3> QED BY <1>2, <2>1, <3>1, <3>2
  <2>2. CASE w # me
    BY <1>1, <2>2, SameHold DEF MarkerInv
  <2> QED BY <2>1, <2>2
<1> QED BY <1>5, <1>6 DEF MarkerInv

(* The first lease begins: nobody knew the job before. *)
LEMMA ClaimMarked ==
  ASSUME IndInv, MarkerInv, NEW a, NEW t \in Targets, NEW j \in Jobs, ClaimedBy(a, t, j),
         UNCHANGED <<marker, recovery, histVars>>,
         \/ worker' = worker
         \/ \E h \in Hosts :
              /\ OthersStay(<<h, t>>) /\ a = TokenOf[h]
              /\ worker'[<<h, t>>] = [pc |-> "claimed", job |-> j, lease |-> attempts[j] + 1,
                                      reached |-> FALSE, reply |-> "none"]
  PROVE  MarkerInv'
<1>0. TypeOK
  BY DEF IndInv
<1>1. /\ \A i \in Jobs : attempts[i] \in Nat /\ attempts'[i] \in Nat
      /\ attempts'[j] = attempts[j] + 1 /\ owner'[j] = a
      /\ \A i \in Jobs : i # j => /\ attempts'[i] = attempts[i] /\ owner'[i] = owner[i]
                                  /\ status'[i] = status[i]
  BY <1>0 DEF ClaimedBy, TypeOK
<1>2. UNCHANGED <<marker, recovery, prints, refused>>
  BY DEF histVars
<1>3. FirstAfter(j) => attempts[j] = 0
  BY <1>1 DEF FirstAfter
<1>4. ASSUME FirstAfter(j)
      PROVE  /\ \A w \in Hosts \X Targets : worker[w].pc # "idle" => worker[w].job # j
             /\ \A h \in Hosts : ~Noted(h, j)
             /\ prints[j] = 0
  <2>1. attempts[j] = 0
    BY <1>3, <1>4
  <2>2. paper[j] = {} /\ prints[j] = Cardinality(paper[j])
    <3>1. paper[j] \subseteq 1 .. 0 /\ prints[j] = Cardinality(paper[j])
      BY <2>1 DEF IndInv, LeasesAreAccounted
    <3> QED BY <3>1
  <2>3. prints[j] = 0
    BY <2>2, FS_EmptySet
  <2>4. \A w \in Hosts \X Targets : worker[w].pc # "idle" => worker[w].job # j
    BY <2>1 DEF MarkerInv, WorkersKnow
  <2>5. \A h \in Hosts : ~Noted(h, j)
    BY <2>1 DEF MarkerInv, NotesAreOfLeases
  <2> QED BY <2>3, <2>4, <2>5
<1>5. \A i \in Jobs : i # j => (FirstAfter(i) <=> First(i))
  BY <1>1 DEF First, FirstAfter
<1>6. \A h, i : Noted(h, i)' <=> Noted(h, i)
  BY <1>2 DEF Noted
<1>7. NotesAreOfLeases'
  <2> SUFFICES ASSUME NEW h \in Hosts, NEW i \in Jobs, Noted(h, i)
               PROVE  attempts'[i] > 0
    BY <1>6 DEF NotesAreOfLeases
  <2>1. attempts[i] > 0
    BY DEF MarkerInv, NotesAreOfLeases
  <2> QED BY <1>1, <2>1
<1>8. NotesHold'
  <2> SUFFICES ASSUME NEW h \in Hosts, NEW i \in Jobs, FirstAfter(i), Noted(h, i)
               PROVE  owner'[i] = TokenOf[h] /\ (i = recovery[h].cur => recovery[h].reply = "none")
    BY <1>2, <1>6 DEF NotesHold, First, FirstAfter
  <2>1. i # j
    BY <1>4
  <2>2. First(i) /\ owner'[i] = owner[i]
    BY <1>1, <1>5, <2>1
  <2> QED BY <2>2 DEF MarkerInv, NotesHold
<1>9. FirstPrintIsMarked'
  <2> SUFFICES ASSUME NEW i \in Jobs, FirstAfter(i), prints[i] > 0
               PROVE  \E h \in Hosts : i \in marker[h]
    BY <1>2 DEF FirstPrintIsMarked, FirstAfter
  <2>1. i # j
    BY <1>4
  <2> QED BY <1>5, <2>1 DEF MarkerInv, FirstPrintIsMarked, First
<1>10. ASSUME NEW w \in Hosts \X Targets, worker'[w] = worker[w], worker[w].pc # "idle"
       PROVE  /\ /\ worker'[w].lease \in 1 .. attempts'[worker'[w].job]
                 /\ worker'[w].pc = "reporting" /\ ~worker'[w].reached
                      => worker'[w].lease \in refused'[worker'[w].job]
              /\ FirstAfter(worker'[w].job) =>
                   /\ owner'[worker'[w].job] = TokenOf[w[1]] /\ worker'[w].reply = "none"
                   /\ worker'[w].pc = "marked" => worker'[w].job \in marker'[w[1]]
  <2>1. worker[w].job \in Jobs
    BY <1>0, <1>10 DEF TypeOK
  <2>2. /\ worker[w].lease \in 1 .. attempts[worker[w].job]
        /\ worker[w].pc = "reporting" /\ ~worker[w].reached => worker[w].lease \in refused[worker[w].job]
    BY <1>10 DEF MarkerInv, WorkersKnow
  <2>3. worker[w].lease \in 1 .. attempts'[worker[w].job]
    BY <1>1, <2>1, <2>2
  <2>4. ASSUME FirstAfter(worker[w].job)
        PROVE  /\ owner'[worker[w].job] = TokenOf[w[1]] /\ worker[w].reply = "none"
               /\ worker[w].pc = "marked" => worker[w].job \in marker[w[1]]
    <3>1. worker[w].job # j
      BY <1>4, <1>10, <2>4
    <3>2. First(worker[w].job) /\ owner'[worker[w].job] = owner[worker[w].job]
      BY <1>1, <1>5, <2>1, <2>4, <3>1
    <3> QED BY <1>10, <3>2 DEF MarkerInv, WorkersHold
  <2> QED BY <1>2, <1>10, <2>2, <2>3, <2>4
<1>11. CASE worker' = worker
  <2>1. WorkersKnow'
    BY <1>10, <1>11 DEF WorkersKnow
  <2>2. WorkersHold'
    BY <1>10, <1>11 DEF WorkersHold, First, FirstAfter
  <2> QED BY <1>7, <1>8, <1>9, <2>1, <2>2 DEF MarkerInv
<1>12. ASSUME NEW h \in Hosts, OthersStay(<<h, t>>), a = TokenOf[h],
              worker'[<<h, t>>] = [pc |-> "claimed", job |-> j, lease |-> attempts[j] + 1,
                                   reached |-> FALSE, reply |-> "none"]
       PROVE  MarkerInv'
  <2> DEFINE me == <<h, t>>
  <2>1. me \in Hosts \X Targets /\ me[1] = h
    OBVIOUS
  <2>2. /\ worker'[me].pc = "claimed" /\ worker'[me].job = j /\ worker'[me].reply = "none"
        /\ worker'[me].lease = attempts[j] + 1
    BY <1>12
  <2>3. \A w \in Hosts \X Targets : w # me => worker'[w] = worker[w]
    BY <1>12 DEF OthersStay
  <2>4. attempts[j] + 1 \in 1 .. attempts'[j]
    BY <1>1
  <2> HIDE DEF me
  <2>5. WorkersKnow'
    BY <1>10, <2>2, <2>3, <2>4 DEF WorkersKnow
  <2>6. WorkersHold'
    <3> SUFFICES ASSUME NEW w \in Hosts \X Targets, worker'[w].pc # "idle", FirstAfter(worker'[w].job)
                 PROVE  /\ owner'[worker'[w].job] = TokenOf[w[1]] /\ worker'[w].reply = "none"
                        /\ worker'[w].pc = "marked" => worker'[w].job \in marker'[w[1]]
      BY DEF WorkersHold, First, FirstAfter
    <3>1. CASE w = me
      BY <1>1, <1>12, <2>1, <2>2, <3>1
    <3>2. CASE w # me
      BY <1>10, <2>3, <3>2
    <3> QED BY <3>1, <3>2
  <2> QED BY <1>7, <1>8, <1>9, <2>5, <2>6 DEF MarkerInv
<1> QED BY <1>11, <1>12

(* A first lease that was refused put no paper out, and nobody still may.   *)
LEMMA RefusedFirst ==
  ASSUME IndInv, NEW j \in Jobs, attempts[j] = 1, 1 \in refused[j]
  PROVE  /\ prints[j] = 0
         /\ \A w \in Hosts \X Targets : Undecided(w) => worker[w].job # j
<1>1. /\ paper[j] \subseteq 1 .. 1 /\ paper[j] \intersect refused[j] = {}
      /\ prints[j] = Cardinality(paper[j])
  BY DEF IndInv, LeasesAreAccounted
<1>2. paper[j] = {}
  BY <1>1
<1>3. prints[j] = 0
  BY <1>1, <1>2, FS_EmptySet
<1>4. ASSUME NEW w \in Hosts \X Targets, Undecided(w)
      PROVE  worker[w].job # j
  <2>1. worker[w].lease \in (1 .. attempts[worker[w].job]) \ (paper[worker[w].job] \union refused[worker[w].job])
    BY <1>4 DEF IndInv, LeasesAreExclusive
  <2> QED BY <2>1
<1> QED BY <1>3, <1>4

(* An answer ends the lease, or goes to a PC that does not hold it. *)
LEMMA AnswerMarked ==
  ASSUME TypeOK, MarkerInv, NEW r \in requests, NEW x, Answer(r, x),
         UNCHANGED <<attempts, prints, refused>>,
         \A j \in Jobs : FirstAfter(j) => First(j) /\ owner'[j] = owner[j],
         FirstAfter(r.job) => owner[r.job] # TokenOf[r.host]
  PROVE  MarkerInv'
<1>1. r.job \in Jobs
  BY DEF TypeOK, Requests
<1>2. NoFirst /\ SamePaper
  BY DEF NoFirst, SamePaper
<1>3. /\ \A w \in Hosts \X Targets :
           /\ worker'[w].pc = worker[w].pc /\ worker'[w].job = worker[w].job
           /\ worker'[w].lease = worker[w].lease /\ worker'[w].reached = worker[w].reached
           /\ ~WorkerAwaits(r, w[1], w[2]) => worker'[w].reply = worker[w].reply
      /\ \A h \in Hosts :
           /\ recovery'[h].todo = recovery[h].todo /\ recovery'[h].cur = recovery[h].cur
           /\ ~RecoveryAwaits(r, h) => recovery'[h].reply = recovery[h].reply
      /\ marker' = marker
  BY AnswerMoves
<1>4. ASSUME NEW w \in Hosts \X Targets
      PROVE  SameWorker(w)
  <2>1. ASSUME FirstAfter(worker[w].job), WorkerAwaits(r, w[1], w[2])
        PROVE  FALSE
    <3>1. w = <<w[1], w[2]>>
      OBVIOUS
    <3>2. r.host = w[1] /\ worker[w].pc # "idle" /\ worker[w].job = r.job
      BY <2>1, <3>1 DEF WorkerAwaits
    <3>3. First(r.job)
      BY <1>1, <2>1, <3>2
    <3>4. owner[r.job] = TokenOf[r.host]
      BY <3>2, <3>3 DEF MarkerInv, WorkersHold
    <3> QED BY <2>1, <3>2, <3>4
  <2> QED BY <1>3, <2>1 DEF SameWorker
<1>5. SameWorkers
  BY <1>4 DEF SameWorkers
<1>6. ASSUME NEW h \in Hosts, NEW j \in Jobs, FirstAfter(j), j = recovery'[h].cur
      PROVE  j = recovery[h].cur /\ recovery'[h].reply = recovery[h].reply
  <2>1. j = recovery[h].cur
    BY <1>3, <1>6
  <2>2. ASSUME RecoveryAwaits(r, h)
        PROVE  FALSE
    <3>1. r.host = h /\ j = r.job
      BY <2>1, <2>2 DEF RecoveryAwaits
    <3>2. First(j) /\ Noted(h, j)
      BY <1>6, <2>1 DEF Noted
    <3>3. owner[j] = TokenOf[h]
      BY <3>2 DEF MarkerInv, NotesHold
    <3> QED BY <1>6, <3>1, <3>3
  <2> QED BY <1>3, <2>1, <2>2
<1>7. \A h \in Hosts, j \in Jobs : Noted(h, j)' => Noted(h, j)
  BY <1>3 DEF Noted
<1>8. SameNotes
  BY <1>3, <1>6, <1>7 DEF SameNotes
<1>9. MarkedStay
  BY <1>3 DEF MarkedStay
<1> QED BY <1>2, <1>5, <1>8, <1>9, CalmPreserves

(* No one but the sweep, the staff and the queue's other users moved. *)
LEMMA StillMarked ==
  ASSUME TypeOK, MarkerInv, UNCHANGED <<worker, marker, recovery, attempts, refused, prints>>,
         \A j \in Jobs : FirstAfter(j) => First(j) /\ owner'[j] = owner[j]
  PROVE  MarkerInv'
<1>1. NoFirst /\ SamePaper
  BY DEF NoFirst, SamePaper
<1>2. SameWorkers
  BY DEF SameWorkers, SameWorker
<1>3. SameNotes
  BY DEF SameNotes, Noted
<1>4. MarkedStay
  BY DEF MarkedStay
<1> QED BY <1>1, <1>2, <1>3, <1>4, CalmPreserves

LEMMA RecoveryMarked ==
  ASSUME TypeOK, MarkerInv, NEW h \in Hosts, RecoveryStep(h) PROVE MarkerInv'
<1>0. /\ worker \in [Hosts \X Targets -> Workers] /\ recovery \in [Hosts -> Recoveries]
      /\ marker \in [Hosts -> SUBSET Jobs]
  BY DEF TypeOK
<1>1. NoFirst /\ SamePaper
  <2>1. UNCHANGED <<jobVars, histVars>>
    BY DEF RecoveryStep, Restart, RecoverMarker, RecoveryAnswered, RecoveryGivesUp
  <2> QED BY <2>1 DEF NoFirst, SamePaper, First, FirstAfter, jobVars, histVars
<1>2. CASE Restart(h)
  <2>1. marker' = marker
    BY <1>2 DEF Restart
  <2>2. SameWorkers
    BY <1>0, <1>2 DEF Restart, SameWorkers, SameWorker, IdleWorker
  <2>3. \A g \in Hosts : recovery'[g] = IF g = h THEN [todo |-> marker[h], cur |-> NONE, reply |-> "none"]
                                        ELSE recovery[g]
    BY <1>0, <1>2 DEF Restart, IdleRecovery
  <2>4. SameNotes
    <3> SUFFICES ASSUME NEW g \in Hosts, NEW j \in Jobs
                 PROVE  /\ Noted(g, j)' => Noted(g, j)
                        /\ j = recovery'[g].cur
                             => j = recovery[g].cur /\ recovery'[g].reply = recovery[g].reply
      BY <2>1 DEF SameNotes
    <3>1. CASE g = h
      <4>1. recovery'[g].todo = marker[h] /\ recovery'[g].cur = NONE
        BY <2>3, <3>1
      <4> QED BY <2>1, <3>1, <4>1, NoneAssumption DEF Noted
    <3>2. CASE g # h
      BY <2>1, <2>3, <3>2 DEF Noted
    <3> QED BY <3>1, <3>2
  <2>5. MarkedStay
    BY <2>1 DEF MarkedStay
  <2> QED BY <1>1, <2>2, <2>4, <2>5, CalmPreserves
<1>3. ASSUME NEW j \in Jobs, RecoverMarker(h, j)
      PROVE  MarkerInv'
  <2>1. marker' = marker /\ worker' = worker /\ j \in recovery[h].todo
    BY <1>3 DEF RecoverMarker
  <2>2. \A g \in Hosts : recovery'[g] = IF g = h
          THEN [todo |-> recovery[h].todo \ {j}, cur |-> j, reply |-> "none"] ELSE recovery[g]
    BY <1>0, <1>3 DEF RecoverMarker
  <2>3. SameWorkers
    BY <2>1 DEF SameWorkers, SameWorker
  <2>4. SameNotes
    <3> SUFFICES ASSUME NEW g \in Hosts, NEW i \in Jobs
                 PROVE  /\ Noted(g, i)' => Noted(g, i)
                        /\ i = recovery'[g].cur
                             => \/ recovery'[g].reply = "none"
                                \/ i = recovery[g].cur /\ recovery'[g].reply = recovery[g].reply
      BY <2>1 DEF SameNotes
    <3>1. CASE g = h
      <4>1. /\ recovery'[g].todo = recovery[h].todo \ {j} /\ recovery'[g].cur = j
            /\ recovery'[g].reply = "none"
        BY <2>2, <3>1
      <4> QED BY <2>1, <3>1, <4>1 DEF Noted
    <3>2. CASE g # h
      BY <2>1, <2>2, <3>2 DEF Noted
    <3> QED BY <3>1, <3>2
  <2>5. MarkedStay
    BY <2>1 DEF MarkedStay
  <2> QED BY <1>1, <2>3, <2>4, <2>5, CalmPreserves
<1>4. CASE RecoveryAnswered(h) \/ RecoveryGivesUp(h)
  <2>1. worker' = worker /\ recovery[h].cur # NONE
    BY <1>4 DEF RecoveryAnswered, RecoveryGivesUp
  <2>2. \A g \in Hosts : recovery'[g] = IF g = h
          THEN [todo |-> recovery[h].todo, cur |-> NONE, reply |-> "none"] ELSE recovery[g]
    BY <1>0, <1>4 DEF RecoveryAnswered, RecoveryGivesUp
  <2>3. \A g \in Hosts, j \in Jobs : j \in marker'[g] => j \in marker[g]
    BY <1>0, <1>4 DEF RecoveryAnswered, RecoveryGivesUp
  <2>4. \A g \in Hosts, j \in Jobs : FirstAfter(j) /\ j \in marker[g] => j \in marker'[g]
    <3>1. CASE RecoveryGivesUp(h)
      BY <3>1 DEF RecoveryGivesUp
    <3>2. CASE RecoveryAnswered(h)
      <4>1. /\ recovery[h].reply # "none"
            /\ \A g \in Hosts : marker'[g] = IF g = h THEN marker[h] \ {recovery[h].cur} ELSE marker[g]
        BY <1>0, <3>2 DEF RecoveryAnswered
      <4>2. \A j \in Jobs : FirstAfter(j) => j # recovery[h].cur
        BY <1>1, <4>1 DEF MarkerInv, NotesHold, Noted, NoFirst
      <4> QED BY <4>1, <4>2
    <3> QED BY <1>4, <3>1, <3>2
  <2>5. SameWorkers
    BY <2>1 DEF SameWorkers, SameWorker
  <2>6. SameNotes
    <3> SUFFICES ASSUME NEW g \in Hosts, NEW i \in Jobs
                 PROVE  /\ Noted(g, i)' => Noted(g, i)
                        /\ i = recovery'[g].cur
                             => i = recovery[g].cur /\ recovery'[g].reply = recovery[g].reply
      BY <2>4 DEF SameNotes
    <3>1. CASE g = h
      <4>1. recovery'[g].todo = recovery[h].todo /\ recovery'[g].cur = NONE
        BY <2>2, <3>1
      <4> QED BY <2>3, <3>1, <4>1, NoneAssumption DEF Noted
    <3>2. CASE g # h
      BY <2>2, <2>3, <3>2 DEF Noted
    <3> QED BY <3>1, <3>2
  <2>7. MarkedStay
    <3> SUFFICES ASSUME NEW w \in Hosts \X Targets, FirstAfter(worker[w].job), worker'[w].pc = "marked",
                        worker[w].job \in marker[w[1]]
                 PROVE  worker[w].job \in marker'[w[1]]
      BY DEF MarkedStay
    <3>1. worker[w].job \in Jobs /\ w[1] \in Hosts
      BY <2>1 DEF TypeOK
    <3> QED BY <2>4, <3>1
  <2> QED BY <1>1, <2>5, <2>6, <2>7, CalmPreserves
<1> QED BY <1>2, <1>3, <1>4 DEF RecoveryStep

LEMMA WorkerMarked ==
  ASSUME IndInv, MarkerInv, NEW h \in Hosts, NEW t \in Targets, WorkerStep(h, t) PROVE MarkerInv'
<1> DEFINE me == <<h, t>>
           j  == worker[me].job
           n  == worker[me].lease
<1>0. TypeOK
  BY DEF IndInv
<1>1. /\ me \in Hosts \X Targets /\ me[1] = h
      /\ worker[me].pc # "idle" => j \in Jobs /\ n \in 1 .. attempts[j]
  BY <1>0 DEF TypeOK, MarkerInv, WorkersKnow
<1>2. /\ marker \in [Hosts -> SUBSET Jobs] /\ refused \in [Jobs -> SUBSET Nat]
      /\ prints \in [Jobs -> Nat] /\ attempts \in [Jobs -> Nat]
  BY <1>0 DEF TypeOK
<1>3. CASE \E i \in Jobs : Claim(h, t, i)
  <2>1. PICK i \in Jobs : Claim(h, t, i)
    BY <1>3
  <2>2. /\ OthersStay(me)
        /\ worker'[me] = [pc |-> "claimed", job |-> i, lease |-> attempts[i] + 1,
                          reached |-> FALSE, reply |-> "none"]
    BY <1>0, <2>1, WorkerMoves
  <2>3. ClaimedBy(TokenOf[h], t, i) /\ UNCHANGED <<marker, recovery, histVars>>
    BY <2>1 DEF Claim
  <2> QED BY <2>2, <2>3, ClaimMarked
<1>4. ASSUME worker[me].pc # "idle", UNCHANGED <<jobVars, recovery, prints>>, marker' = marker,
             \A i \in Jobs : refused[i] \subseteq refused'[i], NEW pc, Moved(me, pc), pc # "marked",
             pc = "reporting" /\ ~worker'[me].reached => n \in refused'[j]
      PROVE  MarkerInv'
  <2>1. NoFirst /\ SamePaper
    BY <1>4 DEF NoFirst, SamePaper, First, FirstAfter, jobVars
  <2>2. SameNotes
    BY <1>4 DEF SameNotes, Noted
  <2>3. MarkedStay
    BY <1>4 DEF MarkedStay
  <2>4. (NotesHold /\ NotesAreOfLeases)' /\ FirstPrintIsMarked'
    BY <2>1, <2>2, SameNotesHold, SamePrintsMarked DEF MarkerInv
  <2> QED BY <1>0, <1>1, <1>4, <2>1, <2>3, <2>4, MovePreserves
<1>5. ASSUME ReportUnprinted(h, t), worker[me].pc # "idle" PROVE MarkerInv'
  <2>1. /\ UNCHANGED <<jobVars, recovery, prints>> /\ marker' = marker
        /\ refused' = [refused EXCEPT ![j] = @ \union {n}]
    BY <1>5 DEF ReportUnprinted
  <2>2. \A i \in Jobs : refused[i] \subseteq refused'[i]
    BY <1>2, <2>1
  <2>3. n \in refused'[j]
    BY <1>1, <1>2, <1>5, <2>1
  <2>4. Moved(me, "reporting")
    BY <1>0, <1>5, WorkerMoves
  <2> QED BY <1>4, <1>5, <2>1, <2>2, <2>3, <2>4
<1>6. CASE WriteMarker(h, t)
  <2>1. /\ worker[me].pc = "claimed" /\ UNCHANGED <<jobVars, recovery, histVars>>
        /\ marker' = [marker EXCEPT ![h] = @ \union {j}]
    BY <1>6 DEF WriteMarker
  <2>2. Moved(me, "marked") /\ j \in Jobs
    BY <1>0, <1>1, <1>6, <2>1, WorkerMoves
  <2>3. NoFirst /\ SamePaper
    BY <2>1 DEF NoFirst, SamePaper, First, FirstAfter, jobVars, histVars
  <2>4. /\ \A g \in Hosts : marker[g] \subseteq marker'[g]
        /\ \A g \in Hosts, i \in Jobs : i \in marker'[g] => i \in marker[g] \/ (g = h /\ i = j)
        /\ j \in marker'[h]
    BY <1>2, <2>1
  <2>5. \A g \in Hosts, i \in Jobs : Noted(g, i)' => Noted(g, i) \/ (g = h /\ i = j)
    BY <2>1, <2>4 DEF Noted
  <2>6. NotesAreOfLeases'
    <3>1. attempts[j] > 0
      BY <1>1, <1>2, <2>1
    <3> QED BY <2>1, <2>5, <3>1 DEF MarkerInv, NotesAreOfLeases, jobVars
  <2>7. NotesHold'
    <3> SUFFICES ASSUME NEW g \in Hosts, NEW i \in Jobs, First(i), Noted(g, i)'
                 PROVE  owner[i] = TokenOf[g] /\ (i = recovery[g].cur => recovery[g].reply = "none")
      BY <2>1 DEF NotesHold, First, jobVars
    <3>1. CASE Noted(g, i)
      BY <3>1 DEF MarkerInv, NotesHold
    <3>2. CASE ~Noted(g, i)
      <4>1. g = h /\ i = j /\ i # recovery[g].cur
        BY <2>5, <3>2 DEF Noted
      <4>2. owner[j] = TokenOf[h]
        BY <1>1, <2>1, <4>1 DEF MarkerInv, WorkersHold
      <4> QED BY <4>1, <4>2
    <3> QED BY <3>1, <3>2
  <2>8. FirstPrintIsMarked'
    BY <2>1, <2>4 DEF MarkerInv, FirstPrintIsMarked, jobVars, histVars
  <2>9. MarkedStay
    BY <2>4 DEF MarkedStay
  <2> QED BY <1>0, <1>1, <2>1, <2>2, <2>3, <2>4, <2>6, <2>7, <2>8, <2>9, MovePreserves
<1>7. CASE BytesLeave(h, t)
  <2>1. /\ worker[me].pc = "marked" /\ UNCHANGED <<jobVars, recovery, refused>> /\ marker' = marker
        /\ prints' = [prints EXCEPT ![j] = @ + 1]
    BY <1>7 DEF BytesLeave
  <2>2. Moved(me, "sent") /\ j \in Jobs
    BY <1>0, <1>1, <1>7, <2>1, WorkerMoves
  <2>3. NoFirst
    BY <2>1 DEF NoFirst, First, FirstAfter, jobVars
  <2>4. SameNotes
    BY <2>1 DEF SameNotes, Noted
  <2>5. MarkedStay
    BY <2>1 DEF MarkedStay
  <2>6. FirstPrintIsMarked'
    <3> SUFFICES ASSUME NEW i \in Jobs, First(i), prints'[i] > 0
                 PROVE  \E g \in Hosts : i \in marker[g]
      BY <2>1 DEF FirstPrintIsMarked, First, jobVars
    <3>1. CASE i = j
      <4>1. j \in marker[h]
        BY <1>1, <2>1, <3>1 DEF MarkerInv, WorkersHold
      <4> QED BY <3>1, <4>1
    <3>2. CASE i # j
      BY <1>2, <2>1, <3>2 DEF MarkerInv, FirstPrintIsMarked, First
    <3> QED BY <3>1, <3>2
  <2>7. (NotesHold /\ NotesAreOfLeases)'
    BY <2>3, <2>4, SameNotesHold DEF MarkerInv
  <2> QED BY <1>0, <1>1, <2>1, <2>2, <2>3, <2>5, <2>6, <2>7, MovePreserves
<1>8. CASE TransportSucceeds(h, t)
  <2>1. /\ worker[me].pc # "idle" /\ UNCHANGED <<jobVars, recovery, prints>> /\ marker' = marker
        /\ refused' = refused
    BY <1>8 DEF TransportSucceeds, histVars
  <2>2. Moved(me, "acking")
    BY <1>0, <1>8, WorkerMoves
  <2> QED BY <1>4, <2>1, <2>2
<1>9. CASE TransportUnsure(h, t)
  <2>1. /\ worker[me].pc # "idle" /\ UNCHANGED <<jobVars, recovery, prints>> /\ marker' = marker
        /\ refused' = refused
    BY <1>9 DEF TransportUnsure, histVars
  <2>2. Moved(me, "reporting") /\ worker'[me].reached
    BY <1>0, <1>9, WorkerMoves
  <2> QED BY <1>4, <2>1, <2>2
<1>10. CASE WorkerAnswered(h, t) \/ WorkerGivesUp(h, t)
  <2>1. OthersStay(me) /\ worker'[me].pc = "idle"
    BY <1>0, <1>10, WorkerMoves
  <2>2. /\ worker[me].pc # "idle" /\ UNCHANGED <<jobVars, recovery, histVars>>
        /\ marker' = [marker EXCEPT ![h] = @ \ {j}] \/ marker' = marker
        /\ marker' # marker => \/ worker[me].reply # "none"
                               \/ worker[me].pc = "reporting" /\ ~worker[me].reached
    BY <1>10 DEF WorkerAnswered, WorkerGivesUp
  <2>3. j \in Jobs /\ n \in 1 .. attempts[j]
    BY <1>1, <2>2
  <2>4. NoFirst /\ SamePaper
    BY <2>2 DEF NoFirst, SamePaper, First, FirstAfter, jobVars, histVars
  <2>5. SameWorkers
    BY <2>1 DEF OthersStay, SameWorkers, SameWorker
  <2>6. \A g \in Hosts, i \in Jobs : /\ i \in marker'[g] => i \in marker[g]
                                     /\ i \in marker[g] => i \in marker'[g] \/ (g = h /\ i = j)
    BY <1>2, <2>2
  <2>7. ASSUME marker' # marker, FirstAfter(j)
        PROVE  /\ prints[j] = 0
               /\ \A w \in Hosts \X Targets : Undecided(w) => worker[w].job # j
    <3>1. First(j)
      BY <2>3, <2>4, <2>7 DEF NoFirst
    <3>2. worker[me].reply = "none"
      BY <1>1, <2>2, <3>1 DEF MarkerInv, WorkersHold
    <3>3. n \in refused[j] /\ n = 1 /\ attempts[j] = 1
      BY <1>1, <2>2, <2>3, <2>7, <3>1, <3>2 DEF MarkerInv, WorkersKnow, First
    <3> QED BY <2>3, <3>3, RefusedFirst
  <2>8. SameNotes
    <3> SUFFICES ASSUME NEW g \in Hosts, NEW i \in Jobs
                 PROVE  /\ i \in marker[g] => i \in marker'[g] \/ ~(FirstAfter(i) /\ prints'[i] > 0)
                        /\ Noted(g, i)' => Noted(g, i)
      BY <2>2 DEF SameNotes
    <3>1. Noted(g, i)' => Noted(g, i)
      BY <2>2, <2>6 DEF Noted
    <3>2. i \in marker[g] /\ i \notin marker'[g] /\ FirstAfter(i) => prints'[i] = 0
      BY <2>2, <2>6, <2>7 DEF histVars
    <3> QED BY <3>1, <3>2
  <2>9. MarkedStay
    <3> SUFFICES ASSUME NEW w \in Hosts \X Targets, FirstAfter(worker[w].job), worker'[w].pc = "marked",
                        SameWorker(w), worker[w].job \in marker[w[1]]
                 PROVE  worker[w].job \in marker'[w[1]]
      BY DEF MarkedStay
    <3>1. Undecided(w) /\ worker[w].job \in Jobs /\ w[1] \in Hosts
      BY <1>0 DEF SameWorker, Undecided, TypeOK
    <3>2. marker' # marker => worker[w].job # j
      BY <2>7, <3>1
    <3> QED BY <2>6, <3>1, <3>2
  <2> QED BY <1>0, <2>4, <2>5, <2>8, <2>9, CalmPreserves
<1>11. CASE CannotPrepare(h, t) \/ TransportRefuses(h, t)
  BY <1>5, <1>11 DEF CannotPrepare, TransportRefuses
<1> QED BY <1>3, <1>6, <1>7, <1>8, <1>9, <1>10, <1>11 DEF WorkerStep

LEMMA RequestMarked ==
  ASSUME TypeOK, PendingWritesAreSane, MarkerInv, NEW r \in requests, RequestStep(r) PROVE MarkerInv'
<1>0. status \in [Jobs -> Statuses] /\ r.job \in Jobs /\ owner \in [Jobs -> Agents \union {NONE}]
  BY DEF TypeOK, Requests
<1>1. CASE LoseRequest(r) \/ ReadFail(r)
  <2>1. UNCHANGED <<jobVars, hostVars, histVars>>
    BY <1>1 DEF LoseRequest, ReadFail
  <2>2. \A j \in Jobs : FirstAfter(j) => First(j) /\ owner'[j] = owner[j]
    BY <2>1 DEF First, FirstAfter, jobVars
  <2> QED BY <2>1, <2>2, StillMarked DEF jobVars, hostVars, histVars
<1>2. ASSUME NEW x, Answer(r, x), UNCHANGED <<attempts, prints, refused>>,
             status'[r.job] # "leased",
             \A j \in Jobs : j # r.job => status'[j] = status[j] /\ owner'[j] = owner[j]
      PROVE  MarkerInv'
  <2>1. ~FirstAfter(r.job)
    BY <1>2 DEF FirstAfter
  <2>2. \A j \in Jobs : FirstAfter(j) => First(j) /\ owner'[j] = owner[j]
    BY <1>2, <2>1 DEF First, FirstAfter
  <2> QED BY <1>2, <2>1, <2>2, AnswerMarked
<1>3. ASSUME NEW x, Answer(r, x), UNCHANGED <<jobVars, prints, refused>>, ~HoldsLease(r.host, r.job)
      PROVE  MarkerInv'
  <2>1. \A j \in Jobs : FirstAfter(j) => First(j) /\ owner'[j] = owner[j]
    BY <1>3 DEF First, FirstAfter, jobVars
  <2>2. FirstAfter(r.job) => owner[r.job] # TokenOf[r.host]
    BY <1>3 DEF FirstAfter, HoldsLease, jobVars
  <2> QED BY <1>3, <2>1, <2>2, AnswerMarked DEF jobVars
<1>4. CASE ServeAck(r)
  <2>1. UNCHANGED <<attempts, prints, refused>>
    BY <1>4 DEF ServeAck, histVars
  <2>2. CASE HoldsLease(r.host, r.job)
    <3>1. /\ status' = [status EXCEPT ![r.job] = "printed"] /\ owner' = [owner EXCEPT ![r.job] = NONE]
          /\ Answer(r, "ok")
      BY <1>4, <2>2 DEF ServeAck
    <3>2. /\ status'[r.job] # "leased"
          /\ \A j \in Jobs : j # r.job => status'[j] = status[j] /\ owner'[j] = owner[j]
      BY <1>0, <3>1
    <3> QED BY <1>2, <2>1, <3>1, <3>2
  <2>3. CASE ~HoldsLease(r.host, r.job)
    BY <1>3, <1>4, <2>1, <2>3 DEF ServeAck, jobVars
  <2> QED BY <2>2, <2>3
<1>5. CASE RejectFail(r)
  BY <1>3, <1>5 DEF RejectFail, histVars
<1>6. CASE WriteFail(r)
  <2>1. /\ status' = [status EXCEPT ![r.job] = r.next] /\ owner' = [owner EXCEPT ![r.job] = NONE]
        /\ Answer(r, "ok") /\ UNCHANGED <<attempts, prints, refused>> /\ r.stage = "read"
    BY <1>6 DEF WriteFail
  <2>2. r.next # "leased"
    BY <2>1 DEF PendingWritesAreSane
  <2>3. /\ status'[r.job] # "leased"
        /\ \A j \in Jobs : j # r.job => status'[j] = status[j] /\ owner'[j] = owner[j]
    BY <1>0, <2>1, <2>2
  <2> QED BY <1>2, <2>1, <2>3
<1>7. CASE WriteFailIgnored(r)
  <2>1. /\ \E x : Answer(r, x)
        /\ UNCHANGED <<jobVars, histVars>> /\ status[r.job] # "leased"
    BY <1>7 DEF WriteFailIgnored
  <2> QED BY <1>2, <2>1 DEF jobVars, histVars
<1> QED BY <1>1, <1>4, <1>5, <1>6, <1>7 DEF RequestStep

LEMMA NextMarker ==
  ASSUME IndInv, MarkerInv, [Next]_vars PROVE MarkerInv'
<1>0. TypeOK /\ PendingWritesAreSane /\ status \in [Jobs -> Statuses]
      /\ owner \in [Jobs -> Agents \union {NONE}]
  BY DEF IndInv, TypeOK
<1>1. ASSUME UNCHANGED <<worker, marker, recovery, attempts, refused, prints>>,
             \A j \in Jobs : status'[j] = "leased" => status[j] = "leased" /\ owner'[j] = owner[j]
      PROVE  MarkerInv'
  <2>1. \A j \in Jobs : FirstAfter(j) => First(j) /\ owner'[j] = owner[j]
    BY <1>1 DEF First, FirstAfter
  <2> QED BY <1>0, <1>1, <2>1, StillMarked
<1>2. CASE \/ AdminStep
           \/ \E rows \in SUBSET Jobs : PurgeList(rows)
           \/ UNCHANGED vars
  <2>1. UNCHANGED <<jobVars, hostVars, histVars>>
    BY <1>2 DEF AdminStep, DemotePrimary, IssueAgent, RevokeAgent, PurgeList, vars
  <2> QED BY <1>1, <2>1 DEF jobVars, hostVars, histVars
<1>3. ASSUME NEW i \in Jobs, Enqueue(i) \/ SweepStep(i) PROVE MarkerInv'
  <2>1. UNCHANGED <<worker, marker, recovery, attempts, refused, prints>>
    BY <1>3 DEF Enqueue, SweepStep, ExpireLease, ExpireStale, PurgeDelete, PurgeSkip,
                jobVars, hostVars, histVars
  <2>2. \A j \in Jobs : status'[j] = "leased" => status[j] = "leased" /\ owner'[j] = owner[j]
    <3> SUFFICES ASSUME NEW j \in Jobs, status'[j] = "leased"
                 PROVE  status[j] = "leased" /\ owner'[j] = owner[j]
      OBVIOUS
    <3>1. CASE Enqueue(i) \/ ExpireStale(i) \/ PurgeSkip(i)
      BY <1>0, <3>1 DEF Enqueue, ExpireStale, PurgeSkip, jobVars
    <3>2. CASE PurgeDelete(i)
      BY <1>0, <3>2 DEF PurgeDelete
    <3>3. CASE ExpireLease(i)
      BY <1>0, <3>3 DEF ExpireLease, RetryOrFail
    <3> QED BY <1>3, <3>1, <3>2, <3>3 DEF SweepStep
  <2> QED BY <1>1, <2>1, <2>2
<1>4. ASSUME NEW a \in Agents, NEW t \in Targets, NEW j \in Jobs, ClaimLost(a, t, j) PROVE MarkerInv'
  <2>1. ClaimedBy(a, t, j) /\ UNCHANGED <<marker, recovery, histVars>> /\ worker' = worker
    BY <1>4 DEF ClaimLost, hostVars
  <2> QED BY <2>1, ClaimMarked
<1>5. ASSUME NEW s \in Staff, StaffStep(s) PROVE MarkerInv'
  <2>1. UNCHANGED <<worker, marker, recovery, attempts, refused, prints>> /\ owner' = owner
    BY <1>5 DEF StaffStep, WriteResolve, ReadForResolve, jobVars, hostVars, histVars
  <2>2. \A j \in Jobs : status'[j] = "leased" => status[j] = "leased"
    <3>1. CASE WriteResolve(s)
      BY <1>0, <3>1 DEF WriteResolve
    <3>2. CASE \E j \in Jobs, printed \in BOOLEAN : ReadForResolve(s, j, printed)
      BY <3>2 DEF ReadForResolve, jobVars
    <3> QED BY <1>5, <3>1, <3>2 DEF StaffStep
  <2> QED BY <1>1, <2>1, <2>2
<1>6. CASE \E h \in Hosts : HostStep(h)
  BY <1>0, <1>6, RecoveryMarked, WorkerMarked DEF HostStep
<1>7. CASE \E r \in requests : RequestStep(r)
  BY <1>0, <1>7, RequestMarked
<1> QED BY <1>2, <1>3, <1>4, <1>5, <1>6, <1>7 DEF Next

(* Once the first lease of a job put paper out and is still open, a PC's     *)
(* disk remembers it, through crashes, restarts, several PCs on one token,   *)
(* lost answers and reports that are processed late.                         *)
THEOREM FirstPrintIsRemembered == Spec => []FirstPrintIsMarked
<1>1. IndInv /\ MarkerInv /\ [Next]_vars => (IndInv /\ MarkerInv)'
  BY NextIndInv, NextMarker DEF IndInv
<1>2. MarkerInv => FirstPrintIsMarked
  BY DEF MarkerInv
<1> QED BY <1>1, <1>2, InitIndInv, InitMarker, PTL DEF Spec

=============================================================================
