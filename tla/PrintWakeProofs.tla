--------------------------- MODULE PrintWakeProofs ---------------------------
(* Proofs about PrintWake, for every value of its constants. *)
EXTENDS PrintWake, TLAPS

LEMMA InitInd == Init => IndInv
<1> SUFFICES ASSUME Init PROVE IndInv
  OBVIOUS
<1>1. TypeOK
  BY PrintWakeAssumption DEF Init, TypeOK, Statuses, RequestStates, NoRequest
<1>2. ListenersAreParked /\ OpenRequestsRun /\ ListedIsFinished
  BY DEF Init, ListenersAreParked, OpenRequestsRun, ListedIsFinished, NoRequest
<1> QED BY <1>1, <1>2 DEF IndInv

-----------------------------------------------------------------------------
(* A handler's step touches one request and, when it parks or wakes, the    *)
(* bus of the process it runs in.                                           *)

LEMMA RequestStep ==
  ASSUME IndInv, NEW q \in Requests, NEW r \in RequestStates,
         req' = [req EXCEPT ![q] = r],
         r.pc # "none" => r.on \in Processes,
         r.pc = "answer" => r.job \in Jobs,
         \/ UNCHANGED bus /\ req[q].pc # "parked" /\ r.pc # "parked"
         \/ UNCHANGED bus /\ r.pc = req[q].pc /\ r.on = req[q].on /\ r.naps = req[q].naps
         \/ /\ bus' = [bus EXCEPT ![req[q].on] = @ \ {q}]
            /\ req[q].pc = "parked" /\ r.pc # "parked"
         \/ /\ bus' = [bus EXCEPT ![req[q].on] = @ \cup {q}]
            /\ req[q].pc = "empty" /\ r.pc = "parked" /\ r.on = req[q].on /\ r.naps > 0
  PROVE  /\ req' \in [Requests -> RequestStates]
         /\ bus' \in [Processes -> SUBSET Requests]
         /\ ListenersAreParked' /\ OpenRequestsRun'
<1>1. /\ req \in [Requests -> RequestStates]
      /\ bus \in [Processes -> SUBSET Requests]
  BY DEF IndInv, TypeOK
<1>2. /\ \A i \in Processes : bus[i] = {p \in Requests : req[p].pc = "parked" /\ req[p].on = i}
      /\ \A p \in Requests : req[p].pc = "parked" => req[p].naps > 0
      /\ \A p \in Requests : /\ req[p].pc # "none" => req[p].on \in Processes
                             /\ req[p].pc = "answer" => req[p].job \in Jobs
  BY DEF IndInv, ListenersAreParked, OpenRequestsRun
<1>3. req' \in [Requests -> RequestStates] /\ bus' \in [Processes -> SUBSET Requests]
  BY <1>1
<1>4. \A p \in Requests : req'[p] = IF p = q THEN r ELSE req[p]
  BY <1>1
<1>5. OpenRequestsRun'
  BY <1>2, <1>4 DEF OpenRequestsRun
<1>6. ASSUME NEW p \in Requests, req'[p].pc = "parked" PROVE req'[p].naps > 0
  BY <1>2, <1>4, <1>6
<1>7. ASSUME NEW i \in Processes
      PROVE  bus'[i] = {p \in Requests : req'[p].pc = "parked" /\ req'[p].on = i}
  <2>1. CASE UNCHANGED bus /\ req[q].pc # "parked" /\ r.pc # "parked"
    BY <2>1, <1>2, <1>4
  <2>2. CASE UNCHANGED bus /\ r.pc = req[q].pc /\ r.on = req[q].on /\ r.naps = req[q].naps
    BY <2>2, <1>2, <1>4
  <2>3. CASE /\ bus' = [bus EXCEPT ![req[q].on] = @ \ {q}]
             /\ req[q].pc = "parked" /\ r.pc # "parked"
    BY <2>3, <1>1, <1>2, <1>4
  <2>4. CASE /\ bus' = [bus EXCEPT ![req[q].on] = @ \cup {q}]
             /\ req[q].pc = "empty" /\ r.pc = "parked" /\ r.on = req[q].on /\ r.naps > 0
    BY <2>4, <1>1, <1>2, <1>4
  <2> QED BY <2>1, <2>2, <2>3, <2>4
<1> QED BY <1>3, <1>5, <1>6, <1>7 DEF ListenersAreParked

(* Queueing keeps the purge's list honest: a listed job is marked reopened. *)
LEMMA QueueStep ==
  ASSUME IndInv, NEW j \in Jobs, Queue(j), due' = due
  PROVE  /\ status' \in [Jobs -> Statuses]
         /\ queuedBy' \in [Jobs -> 0 .. MaxQueued]
         /\ reopened' \in SUBSET due'
         /\ ListedIsFinished'
<1> USE DEF IndInv, TypeOK
<1>1. status' \in [Jobs -> Statuses]
  BY DEF Queue, Statuses
<1>2. queuedBy' \in [Jobs -> 0 .. MaxQueued]
  BY PrintWakeAssumption DEF Queue
<1>3. reopened' \in SUBSET due'
  BY DEF Queue
<1>4. ListedIsFinished'
  BY DEF Queue, ListedIsFinished
<1> QED BY <1>1, <1>2, <1>3, <1>4

LEMMA NextInd == IndInv /\ [Next]_vars => IndInv'
<1> SUFFICES ASSUME IndInv, [Next]_vars PROVE IndInv'
  OBVIOUS
<1>0. TypeOK /\ ListenersAreParked /\ OpenRequestsRun /\ ListedIsFinished
  BY DEF IndInv
<1> DEFINE SameRequests == UNCHANGED <<bus, req>>
           SameJobs == UNCHANGED <<status, queuedBy, due, reopened>>
<1>a. ASSUME SameRequests PROVE ListenersAreParked' /\ OpenRequestsRun'
  BY <1>0, <1>a DEF ListenersAreParked, OpenRequestsRun
<1>b. ASSUME SameJobs PROVE ListedIsFinished'
  BY <1>0, <1>b DEF ListedIsFinished
<1>1. ASSUME NEW j \in Jobs, NEW i \in Processes, Enqueue(j, i) \/ Reprint(j, i)
      PROVE  IndInv'
  <2>1. Queue(j) /\ due' = due /\ news' = news \cup {<<i, j>>}
        /\ UNCHANGED <<age, bus, req, inHand, crashes>>
    BY <1>1 DEF Enqueue, Reprint
  <2>2. TypeOK'
    BY <1>0, <2>1, QueueStep DEF TypeOK
  <2> QED BY <1>a, <2>1, <2>2, QueueStep DEF IndInv
<1>2. ASSUME NEW j \in Jobs, NEW i \in Processes, Announce(i, j)
      PROVE  IndInv'
  <2>1. /\ req \in [Requests -> RequestStates] /\ bus \in [Processes -> SUBSET Requests]
        /\ \A k \in Processes : bus[k] = {p \in Requests : req[p].pc = "parked" /\ req[p].on = k}
    BY <1>0 DEF TypeOK, ListenersAreParked
  <2>2. \A q \in Requests :
          /\ [req[q] EXCEPT !.pc = "claim"] \in RequestStates
          /\ [req[q] EXCEPT !.pc = "claim"].on = req[q].on
          /\ [req[q] EXCEPT !.pc = "claim"].pc = "claim"
    BY <2>1 DEF RequestStates
  <2>3. /\ req' = [q \in Requests |-> IF q \in bus[i] THEN [req[q] EXCEPT !.pc = "claim"] ELSE req[q]]
        /\ bus' = [bus EXCEPT ![i] = {}]
    BY <1>2 DEF Announce
  <2>4. req' \in [Requests -> RequestStates] /\ bus' \in [Processes -> SUBSET Requests]
    BY <2>1, <2>2, <2>3
  <2>5. TypeOK'
    BY <1>0, <1>2, <2>4 DEF Announce, TypeOK, jobVars, purgeVars
  <2>6. \A q \in Requests :
          /\ req'[q].on = req[q].on
          /\ req'[q].pc = IF q \in bus[i] THEN "claim" ELSE req[q].pc
          /\ q \notin bus[i] => req'[q] = req[q]
    BY <2>2, <2>3
  <2>7. OpenRequestsRun'
    BY <1>0, <2>1, <2>6 DEF OpenRequestsRun
  <2>8. ListenersAreParked'
    <3>1. ASSUME NEW k \in Processes
          PROVE  bus'[k] = {p \in Requests : req'[p].pc = "parked" /\ req'[p].on = k}
      BY <2>1, <2>3, <2>6
    <3>2. ASSUME NEW q \in Requests, req'[q].pc = "parked" PROVE req'[q].naps > 0
      BY <1>0, <2>6, <3>2 DEF ListenersAreParked
    <3> QED BY <3>1, <3>2 DEF ListenersAreParked
  <2> QED BY <1>2, <1>b, <2>5, <2>7, <2>8 DEF Announce, IndInv, jobVars, purgeVars
<1>3. ASSUME NEW j \in Jobs, NEW i \in Processes, AgentEnds(j, i)
      PROVE  IndInv'
  <2>1. CASE \E s \in {"printed", "unconfirmed", "failed"} : Settled(j, s) /\ UNCHANGED news
    <3>1. PICK s \in {"printed", "unconfirmed", "failed"} : Settled(j, s) /\ UNCHANGED news
      BY <2>1
    <3>2. TypeOK'
      BY <1>0, <1>3, <3>1 DEF AgentEnds, Settled, TypeOK, Statuses
    <3>3. ListedIsFinished'
      BY <1>0, <1>3, <3>1 DEF AgentEnds, Settled, ListedIsFinished, TypeOK
    <3> QED BY <1>3, <1>a, <3>2, <3>3 DEF AgentEnds, IndInv
  <2>2. CASE Queue(j) /\ news' = news \cup {<<i, j>>}
    <3>1. due' = due /\ UNCHANGED <<age, bus, req, crashes>> /\ inHand' = inHand \ {j}
      BY <1>3 DEF AgentEnds
    <3>2. TypeOK'
      BY <1>0, <2>2, <3>1, QueueStep DEF TypeOK
    <3> QED BY <1>a, <2>2, <3>1, <3>2, QueueStep DEF IndInv
  <2> QED BY <1>3, <2>1, <2>2 DEF AgentEnds
<1>4. ASSUME NEW j \in Jobs, SayPrinted(j)
      PROVE  IndInv'
  <2>1. TypeOK'
    BY <1>0, <1>4 DEF SayPrinted, TypeOK, Statuses, purgeVars
  <2>2. ListedIsFinished'
    BY <1>0, <1>4 DEF SayPrinted, ListedIsFinished, TypeOK, purgeVars
  <2> QED BY <1>4, <1>a, <2>1, <2>2 DEF SayPrinted, IndInv
<1>5. ASSUME NEW j \in Jobs, LeaseExpires(j)
      PROVE  IndInv'
  <2>0. due' = due /\ UNCHANGED <<age, news, bus, req, crashes>> /\ inHand' = inHand \ {j}
    BY <1>5 DEF LeaseExpires
  <2>1. CASE Queue(j)
    <3>1. TypeOK'
      BY <1>0, <2>0, <2>1, QueueStep DEF TypeOK
    <3> QED BY <1>a, <2>0, <2>1, <3>1, QueueStep DEF IndInv
  <2>2. CASE \E s \in {"unconfirmed", "failed"} : Settled(j, s)
    <3>1. PICK s \in {"unconfirmed", "failed"} : Settled(j, s)
      BY <2>2
    <3>2. TypeOK'
      BY <1>0, <2>0, <3>1 DEF Settled, TypeOK, Statuses
    <3>3. ListedIsFinished'
      BY <1>0, <1>5, <2>0, <3>1 DEF LeaseExpires, Settled, ListedIsFinished, TypeOK
    <3> QED BY <1>a, <2>0, <3>2, <3>3 DEF IndInv
  <2> QED BY <1>5, <2>1, <2>2 DEF LeaseExpires
<1>6. ASSUME NEW j \in Jobs, Age(j)
      PROVE  IndInv'
  <2>1. TypeOK'
    BY <1>0, <1>6 DEF Age, TypeOK, purgeVars
  <2> QED BY <1>6, <1>a, <1>b, <2>1 DEF Age, IndInv, purgeVars
<1>7. ASSUME NEW j \in Jobs, Delete(j) \/ DeleteFails(j)
      PROVE  IndInv'
  <2>1. TypeOK'
    BY <1>0, <1>7 DEF Delete, DeleteFails, TypeOK, Statuses, jobVars
  <2>2. ListedIsFinished'
    BY <1>0, <1>7 DEF Delete, DeleteFails, ListedIsFinished, TypeOK, jobVars
  <2> QED BY <1>7, <1>a, <2>1, <2>2 DEF Delete, DeleteFails, IndInv
<1>8. ASSUME ExpireStale
      PROVE  IndInv'
  <2>1. TypeOK'
    BY <1>0, <1>8 DEF ExpireStale, TypeOK, Statuses, purgeVars
  <2>2. ListedIsFinished'
    BY <1>0, <1>8 DEF ExpireStale, Stale, ListedIsFinished, TypeOK, purgeVars
  <2> QED BY <1>8, <1>a, <2>1, <2>2 DEF ExpireStale, IndInv
<1>9. ASSUME ListDue
      PROVE  IndInv'
  <2>1. TypeOK'
    BY <1>0, <1>9 DEF ListDue, TypeOK, jobVars
  <2>2. ListedIsFinished'
    BY <1>9 DEF ListDue, DueForDeletion, ListedIsFinished, jobVars
  <2> QED BY <1>9, <1>a, <2>1, <2>2 DEF ListDue, IndInv
<1>10. ASSUME NEW q \in Requests, NEW i \in Processes, Open(q, i)
       PROVE  IndInv'
  <2> DEFINE r == [pc |-> "claim", on |-> i, gone |-> FALSE, naps |-> MaxNaps, job |-> NONE]
  <2>1. r \in RequestStates /\ r.pc = "claim" /\ r.on = i
    BY PrintWakeAssumption DEF RequestStates
  <2>2. req' = [req EXCEPT ![q] = r] /\ UNCHANGED bus /\ req[q].pc = "none"
    BY <1>10 DEF Open
  <2>3. /\ req' \in [Requests -> RequestStates] /\ bus' \in [Processes -> SUBSET Requests]
        /\ ListenersAreParked' /\ OpenRequestsRun'
    <3> HIDE DEF r
    <3> QED BY <2>1, <2>2, RequestStep
  <2>4. TypeOK'
    BY <1>0, <1>10, <2>3 DEF Open, TypeOK, jobVars, purgeVars
  <2> QED BY <1>10, <1>b, <2>3, <2>4 DEF Open, IndInv, jobVars, purgeVars
<1>11. ASSUME NEW q \in Requests,
              Disconnect(q) \/ Answer(q) \/ GiveUp(q) \/ Park(q) \/ Timer(q) \/ AbortCheck(q)
       PROVE  IndInv'
  <2>0. /\ req \in [Requests -> RequestStates] /\ req[q] \in RequestStates
        /\ req[q].naps \in Nat
        /\ req[q].pc # "none" => req[q].on \in Processes
        /\ req[q].pc = "answer" => req[q].job \in Jobs
        /\ req[q].pc = "parked" => req[q].naps > 0
    BY <1>0 DEF TypeOK, ListenersAreParked, OpenRequestsRun, RequestStates
  <2>1. SameJobs /\ UNCHANGED <<age, news, crashes>>
    BY <1>11 DEF Disconnect, Answer, GiveUp, Park, Timer, AbortCheck, jobVars, purgeVars
  <2>2. inHand' \in SUBSET Jobs
    <3>1. CASE Answer(q)
      <4>1. req[q].job \in Jobs
        BY <1>0, <3>1 DEF Answer, OpenRequestsRun
      <4> QED BY <1>0, <3>1, <4>1 DEF Answer, TypeOK
    <3> QED BY <1>0, <1>11, <3>1 DEF Disconnect, GiveUp, Park, Timer, AbortCheck, TypeOK
  <2>3. /\ req' \in [Requests -> RequestStates] /\ bus' \in [Processes -> SUBSET Requests]
        /\ ListenersAreParked' /\ OpenRequestsRun'
    <3>1. CASE Disconnect(q)
      <4> DEFINE r == [req[q] EXCEPT !.gone = TRUE]
      <4>1. /\ r \in RequestStates /\ r.pc = req[q].pc /\ r.on = req[q].on
            /\ r.naps = req[q].naps /\ r.job = req[q].job
        BY <2>0 DEF RequestStates
      <4>2. req' = [req EXCEPT ![q] = r] /\ UNCHANGED bus
        BY <3>1, <2>0 DEF Disconnect
      <4> HIDE DEF r
      <4> QED BY <2>0, <4>1, <4>2, RequestStep
    <3>2. CASE Answer(q) \/ GiveUp(q)
      <4>1. NoRequest \in RequestStates /\ NoRequest.pc = "none"
        BY PrintWakeAssumption DEF NoRequest, RequestStates
      <4>2. req' = [req EXCEPT ![q] = NoRequest] /\ UNCHANGED bus /\ req[q].pc # "parked"
        BY <3>2 DEF Answer, GiveUp
      <4> QED BY <4>1, <4>2, RequestStep
    <3>3. CASE Park(q)
      <4> DEFINE r == [req[q] EXCEPT !.pc = "parked"]
      <4>1. /\ r \in RequestStates /\ r.pc = "parked" /\ r.on = req[q].on
            /\ r.naps = req[q].naps
        BY <2>0 DEF RequestStates
      <4>2. /\ req' = [req EXCEPT ![q] = r] /\ bus' = [bus EXCEPT ![req[q].on] = @ \cup {q}]
            /\ req[q].pc = "empty" /\ req[q].naps # 0
        BY <3>3, <2>0 DEF Park, Over
      <4>3. r.naps > 0 /\ r.on \in Processes
        BY <2>0, <4>1, <4>2
      <4> HIDE DEF r
      <4> QED BY <4>1, <4>2, <4>3, RequestStep
    <3>4. CASE Timer(q)
      <4> DEFINE r == [req[q] EXCEPT !.pc = "claim", !.naps = @ - 1]
      <4>0. req[q].naps \in 0 .. MaxNaps /\ req[q].naps > 0
        BY <3>4, <2>0 DEF Timer, RequestStates
      <4>a. req[q].naps - 1 \in 0 .. MaxNaps
        BY <4>0, PrintWakeAssumption
      <4>1. r \in RequestStates /\ r.pc = "claim" /\ r.on = req[q].on
        BY <2>0, <4>a DEF RequestStates
      <4>2. /\ req' = [req EXCEPT ![q] = r] /\ bus' = [bus EXCEPT ![req[q].on] = @ \ {q}]
            /\ req[q].pc = "parked"
        BY <3>4, <2>0 DEF Timer, Finish
      <4> HIDE DEF r
      <4> QED BY <2>0, <4>1, <4>2, RequestStep
    <3>5. CASE AbortCheck(q)
      <4> DEFINE r == [req[q] EXCEPT !.pc = "claim"]
      <4>1. r \in RequestStates /\ r.pc = "claim" /\ r.on = req[q].on
        BY <2>0 DEF RequestStates
      <4>2. /\ req' = [req EXCEPT ![q] = r] /\ bus' = [bus EXCEPT ![req[q].on] = @ \ {q}]
            /\ req[q].pc = "parked"
        BY <3>5, <2>0 DEF AbortCheck, Finish
      <4> HIDE DEF r
      <4> QED BY <2>0, <4>1, <4>2, RequestStep
    <3> QED BY <1>11, <3>1, <3>2, <3>3, <3>4, <3>5
  <2>4. TypeOK'
    BY <1>0, <2>1, <2>2, <2>3 DEF TypeOK
  <2> QED BY <1>b, <2>1, <2>3, <2>4 DEF IndInv
<1>12. ASSUME NEW q \in Requests, Claim(q)
       PROVE  IndInv'
  <2>0. /\ req \in [Requests -> RequestStates] /\ req[q] \in RequestStates
        /\ req[q].pc = "claim" /\ req[q].on \in Processes
    BY <1>0, <1>12 DEF TypeOK, OpenRequestsRun, Claim
  <2>1. CASE \E j \in Jobs :
               /\ status[j] = "queued"
               /\ status' = [status EXCEPT ![j] = "leased"]
               /\ req' = [req EXCEPT ![q].pc = "answer", ![q].job = j]
    <3>1. PICK j \in Jobs :
               /\ status[j] = "queued"
               /\ status' = [status EXCEPT ![j] = "leased"]
               /\ req' = [req EXCEPT ![q].pc = "answer", ![q].job = j]
      BY <2>1
    <3> DEFINE r == [req[q] EXCEPT !.pc = "answer", !.job = j]
    <3>2. r \in RequestStates /\ r.pc = "answer" /\ r.on = req[q].on /\ r.job = j
      BY <2>0 DEF RequestStates
    <3>3. req' = [req EXCEPT ![q] = r] /\ UNCHANGED bus
      BY <1>12, <2>0, <3>1 DEF Claim
    <3>4. /\ req' \in [Requests -> RequestStates] /\ bus' \in [Processes -> SUBSET Requests]
          /\ ListenersAreParked' /\ OpenRequestsRun'
      <4> HIDE DEF r
      <4> QED BY <2>0, <3>2, <3>3, RequestStep
    <3>5. TypeOK'
      BY <1>0, <1>12, <3>1, <3>4 DEF Claim, TypeOK, Statuses, purgeVars
    <3>6. ListedIsFinished'
      BY <1>0, <1>12, <3>1 DEF Claim, ListedIsFinished, TypeOK, purgeVars
    <3> QED BY <3>4, <3>5, <3>6 DEF IndInv
  <2>2. CASE req' = [req EXCEPT ![q].pc = "empty"] /\ UNCHANGED status
    <3> DEFINE r == [req[q] EXCEPT !.pc = "empty"]
    <3>2. r \in RequestStates /\ r.pc = "empty" /\ r.on = req[q].on
      BY <2>0 DEF RequestStates
    <3>3. req' = [req EXCEPT ![q] = r] /\ UNCHANGED bus
      BY <1>12, <2>0, <2>2 DEF Claim
    <3>4. /\ req' \in [Requests -> RequestStates] /\ bus' \in [Processes -> SUBSET Requests]
          /\ ListenersAreParked' /\ OpenRequestsRun'
      <4> HIDE DEF r
      <4> QED BY <2>0, <3>2, <3>3, RequestStep
    <3>5. TypeOK'
      BY <1>0, <1>12, <2>2, <3>4 DEF Claim, TypeOK, purgeVars
    <3> QED BY <1>12, <1>b, <2>2, <3>4, <3>5 DEF Claim, IndInv, purgeVars
  <2> QED BY <1>12, <2>1, <2>2 DEF Claim
<1>13. ASSUME NEW i \in Processes, Crash(i)
       PROVE  IndInv'
  <2>1. /\ req \in [Requests -> RequestStates] /\ bus \in [Processes -> SUBSET Requests]
        /\ NoRequest \in RequestStates /\ NoRequest.pc = "none"
    BY <1>0, PrintWakeAssumption DEF TypeOK, NoRequest, RequestStates
  <2>2. /\ req' = [q \in Requests |-> IF req[q].on = i THEN NoRequest ELSE req[q]]
        /\ bus' = [bus EXCEPT ![i] = {}]
    BY <1>13 DEF Crash
  <2>3. req' \in [Requests -> RequestStates] /\ bus' \in [Processes -> SUBSET Requests]
    BY <2>1, <2>2
  <2>4. TypeOK'
    BY <1>0, <1>13, <2>3, PrintWakeAssumption DEF Crash, TypeOK, jobVars, purgeVars
  <2>5. OpenRequestsRun'
    BY <1>0, <2>1, <2>2 DEF OpenRequestsRun
  <2>6. ListenersAreParked'
    BY <1>0, <2>1, <2>2 DEF ListenersAreParked
  <2> QED BY <1>13, <1>b, <2>4, <2>5, <2>6 DEF Crash, IndInv, jobVars, purgeVars
<1>14. CASE UNCHANGED vars
  <2>1. TypeOK'
    BY <1>0, <1>14 DEF TypeOK, vars, jobVars, purgeVars
  <2> QED BY <1>14, <1>a, <1>b, <2>1 DEF IndInv, vars, jobVars, purgeVars
<1> QED
  BY <1>1, <1>2, <1>3, <1>4, <1>5, <1>6, <1>7, <1>8, <1>9, <1>10, <1>11, <1>12, <1>13, <1>14
  DEF Next, Poll

-----------------------------------------------------------------------------
THEOREM PrintWakeInvariance == Spec => []IndInv
BY InitInd, NextInd, PTL DEF Spec

(* The variables hold what their comments say, always. *)
THEOREM PrintWakeTypes == Spec => []TypeOK
<1>1. IndInv => TypeOK
  BY DEF IndInv
<1> QED BY <1>1, PrintWakeInvariance, PTL

(* Every way out of the wait takes the listener off: the bus of a process   *)
(* holds its parked requests, and nothing else.                             *)
THEOREM PrintWakeListeners == Spec => []ListenersAreParked
<1>1. IndInv => ListenersAreParked
  BY DEF IndInv
<1> QED BY <1>1, PrintWakeInvariance, PTL

(* The purge deletes nothing unfinished that it had not listed as finished. *)
THEOREM PrintWakePurge == Spec => PurgeTakesFinished
<1>1. ASSUME IndInv, [Next]_vars, NEW j \in Jobs,
             status'[j] = "deleted", status[j] \notin {"printed", "failed", "deleted"}
      PROVE  j \in reopened
  <2>0. status \in [Jobs -> Statuses] /\ ListedIsFinished
    BY <1>1 DEF IndInv, TypeOK
  <2>1. ASSUME NEW k \in Jobs, status' = [status EXCEPT ![k] = "queued"] PROVE FALSE
    BY <1>1, <2>0, <2>1
  <2>2. ASSUME NEW k \in Jobs, NEW s, s # "deleted", status' = [status EXCEPT ![k] = s] PROVE FALSE
    BY <1>1, <2>0, <2>2
  <2>3. ASSUME UNCHANGED status PROVE FALSE
    BY <1>1, <2>3
  <2>4. CASE \E k \in Jobs : Delete(k)
    BY <1>1, <2>0, <2>4 DEF Delete, ListedIsFinished
  <2>5. CASE \E k \in Jobs, i \in Processes : Enqueue(k, i) \/ Reprint(k, i) \/ AgentEnds(k, i)
    BY <2>5, <2>1, <2>2 DEF Enqueue, Reprint, AgentEnds, Queue, Settled
  <2>6. CASE \E k \in Jobs : SayPrinted(k) \/ LeaseExpires(k)
    BY <2>6, <2>1, <2>2 DEF SayPrinted, LeaseExpires, Queue, Settled
  <2>7. CASE \E q \in Requests : Claim(q)
    BY <2>7, <2>2, <2>3 DEF Claim
  <2>8. CASE ExpireStale
    BY <1>1, <2>0, <2>8 DEF ExpireStale
  <2>9. CASE \/ \E k \in Jobs, i \in Processes : Announce(i, k)
             \/ \E k \in Jobs : Age(k) \/ DeleteFails(k)
             \/ \E q \in Requests, i \in Processes : Open(q, i)
             \/ \E q \in Requests :
                  \/ Answer(q) \/ GiveUp(q) \/ Park(q)
                  \/ Disconnect(q) \/ Timer(q) \/ AbortCheck(q)
             \/ \E i \in Processes : Crash(i)
             \/ ListDue
             \/ UNCHANGED vars
    BY <2>9, <2>3 DEF Announce, Age, DeleteFails, Open, Answer, GiveUp, Park, Disconnect, Timer,
                      AbortCheck, Crash, ListDue, vars, jobVars
  <2> QED BY <1>1, <2>4, <2>5, <2>6, <2>7, <2>8, <2>9 DEF Next, Poll
<1>2. IndInv /\ [Next]_vars =>
        [\A j \in Jobs : status'[j] = "deleted" /\ status[j] \notin {"printed", "failed", "deleted"}
           => j \in reopened]_vars
  BY <1>1
<1> QED BY <1>2, PrintWakeInvariance, PTL DEF Spec, PurgeTakesFinished
=============================================================================
