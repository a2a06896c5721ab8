------------------------ MODULE OutboundLimitsProofs ------------------------
(***************************************************************************)
(* Proofs of the limits the outbound path keeps: the airtime one message   *)
(* may cost, the pace of the sends, the pauses an operator asks for, and   *)
(* the room left in the queue, for any number of recipients, tasks, rows,  *)
(* requests and faults.                                                    *)
(***************************************************************************)
EXTENDS OutboundPromiseProofs, FiniteSetTheorems

USE PrioritiesAssumption, MaxTimeAssumption, LimitsAssumption, BackoffAssumption

-----------------------------------------------------------------------------
(* Multiplication                                                          *)

\* One more is one more time.
LEMMA Scaled ==
  ASSUME NEW k \in Nat, NEW a \in Nat, NEW b \in Nat
  PROVE  k * a \in Nat /\ (a <= b => k * a <= k * b) /\ k * (a + 1) = k * a + k
<1>1. k * a \in Nat /\ k * (a + 1) = k * a + k
  OBVIOUS
<1>2. ASSUME a <= b PROVE k * a <= k * b
  <2>1. PICK d \in Nat : b = a + d
    <3>1. b - a \in Nat /\ b = a + (b - a)
      BY <1>2
    <3>2. QED
      BY <3>1
  <2>2. k * b = k * a + k * d /\ k * d \in Nat
    BY <2>1
  <2>3. QED
    BY <1>1, <2>2
<1>3. QED
  BY <1>1, <1>2

-----------------------------------------------------------------------------
(* What the requests in progress have read                                 *)

Busy == {h \in Handlers : handlers[h].pc \notin {"idle", "judge"}}

\* Each request in progress was counted; a page that is shown is none.
BusyCounted == IsFiniteSet(Busy) /\ Cardinality(Busy) <= requests

\* What a request has left to write: each row once, with attempts the worker had left.
Sane(e) ==
  /\ e.pc \notin {"back", "update"} => e.todo = {}
  /\ \A r \in e.todo : r.attempts < MAX_ATTEMPTS
  /\ \A r, q \in e.todo : r.id = q.id => r = q

TodoSane == \A h \in Handlers : Sane(handlers[h])

\* A row that used up its attempts is not tried again.
AttemptsLow ==
  /\ \A i \in Ids : rows[i].attempts < MAX_ATTEMPTS
  /\ worker.attempts < MAX_ATTEMPTS

Few == BusyCounted /\ TodoSane /\ AttemptsLow

\* Nothing but the requests changes what they have left to do.
LEMMA RequestsQuiet ==
  ASSUME TypeOK, Few, UNCHANGED <<handlers, requests>>
  PROVE  BusyCounted' /\ TodoSane'
  BY DEF Few, BusyCounted, Busy, TodoSane

\* Every step of the worker.
LEMMA WorkerStepFew ==
  ASSUME TypeOK, TypeOK', Backed, Few, WorkerStep
  PROVE  Few'
<1>1. UNCHANGED <<handlers, requests>>
  BY DEF WorkerStep, Suspend, WorkerStops, StartTick, ClaimNext, NothingDue, ReadPause,
         PauseStands, ExpirePause, Decide, PutOff, SendOk, SendUnacked, SendReturns,
         MarkSent, MarkFailed, AuditFailed, RescheduleReadsBack, RescheduleUpdates,
         GapOver, counters
<1>2. BusyCounted' /\ TodoSane'
  BY <1>1, RequestsQuiet
<1>3. 0 < MAX_ATTEMPTS /\ \A pc : WorkerAt(pc).attempts = 0
  BY DEF WorkerAt
<1>4. rows' = rows => Ids' = Ids
  BY DEF Ids
<1>5. AttemptsLow'
  <2>1. CASE WorkerStops \/ NothingDue \/ AuditFailed \/ GapOver
    BY <1>3, <1>4, <2>1
    DEF WorkerStops, NothingDue, AuditFailed, GapOver, Suspend, table, Few, AttemptsLow
  <2>2. CASE StartTick
    <3>1. Ids' = Ids /\ worker'.attempts = 0
      BY <2>2, DropStaleType DEF StartTick, WorkerAt
    <3>2. \A i \in Ids : rows'[i].attempts = rows[i].attempts
      BY <2>2, RowTypes DEF StartTick, DropStaleOutbound, OutboundMessage
    <3>3. QED
      BY <1>3, <3>1, <3>2 DEF Few, AttemptsLow
  <2>3. CASE ClaimNext
    <3>1. PICK i \in NextOutbound(worker.tick) :
            Suspend([worker EXCEPT !.pc = "pause", !.id = i, !.attempts = rows[i].attempts])
      BY <2>3 DEF ClaimNext
    <3>2. i \in Ids
      BY <3>1 DEF NextOutbound, Ready, Pending
    <3>3. rows' = rows /\ worker'.attempts = rows[i].attempts
      BY <3>1 DEF Suspend, table, TypeOK, Worker
    <3>4. QED
      BY <1>4, <3>2, <3>3 DEF Few, AttemptsLow
  <2>4. CASE \/ ReadPause \/ PauseStands \/ ExpirePause \/ Decide \/ RescheduleReadsBack
             \/ SendOk
    <3>1. rows' = rows /\ worker'.attempts = worker.attempts
      BY <2>4 DEF ReadPause, PauseStands, ExpirePause, Decide, PutOff,
                  RescheduleReadsBack, SendOk, SendReturns, Suspend, table, TypeOK, Worker
    <3>2. QED
      BY <1>4, <3>1 DEF Few, AttemptsLow
  <2>5. CASE SendUnacked
    <3>1. rows' = rows
      BY <2>5 DEF SendUnacked, SendReturns, table
    <3>2. worker'.attempts = IF GivesUp(worker.attempts + 1) THEN worker.attempts
                                                              ELSE worker.attempts + 1
      BY <2>5 DEF SendUnacked, TypeOK, Worker
    <3>3. worker.attempts \in Nat
      BY DEF TypeOK, Worker
    <3>4. QED
      BY <1>4, <3>1, <3>2, <3>3 DEF Few, AttemptsLow, GivesUp
  <2>6. CASE MarkSent \/ MarkFailed
    <3>1. worker'.attempts = 0
      BY <2>6 DEF MarkSent, MarkFailed, WorkerAt
    <3>2. PICK st \in {"sent", "failed"} : SetStatus(worker.id, st)
      BY <2>6 DEF MarkSent, MarkFailed
    <3>3. Ids' = Ids
      BY <3>2, SetStatusType DEF Status
    <3>4. \A i \in Ids : rows'[i].attempts = rows[i].attempts
      BY <3>2, RowTypes DEF SetStatus, OutboundMessage
    <3>5. QED
      BY <1>3, <3>1, <3>3, <3>4 DEF Few, AttemptsLow
  <2>7. CASE RescheduleUpdates
    <3>1. worker'.attempts = 0
      BY <2>7 DEF RescheduleUpdates, WorkerAt
    <3>2. worker.next \in Nat /\ worker.attempts \in Nat /\ worker.back \in Nat
      BY DEF TypeOK, Worker
    <3>3. Ids' = Ids
      BY <2>7, <3>2, RescheduleType DEF RescheduleUpdates
    <3>4. \A i \in Ids : rows'[i].attempts \in {rows[i].attempts, worker.attempts}
      BY <2>7, <3>2, RescheduledRow DEF RescheduleUpdates, Backed, WorkerBacked
    <3>5. QED
      BY <1>3, <3>1, <3>3, <3>4 DEF Few, AttemptsLow
  <2>8. QED
    BY <2>1, <2>2, <2>3, <2>4, <2>5, <2>6, <2>7 DEF WorkerStep
<1>6. QED
  BY <1>2, <1>5 DEF Few

\* A request is counted when it starts and reads what is pending then.
LEMMA HandlerStepFew ==
  ASSUME TypeOK, TypeOK', Backed, Few, NEW h \in Handlers, Request(h) \/ HandlerStep(h)
  PROVE  Few'
<1>1. worker' = worker /\ handlers \in [Handlers -> Handler] /\ requests \in Nat
  BY DEF Request, HandlerStep, Cancel, MoveToBack, PauseRecipient, CancelUpdates,
         PauseWrites, PauseReadsRows, HandlerReadsBack, HandlerUpdates, HandlerCommits,
         ViewQueue, ViewFindsPause, ViewExpiresPause, TypeOK
<1>2. \A k \in Handlers \ {h} : handlers'[k] = handlers[k]
  BY <1>1 DEF Request, HandlerStep, Cancel, MoveToBack, PauseRecipient, CancelUpdates,
              PauseWrites, PauseReadsRows, HandlerReadsBack, HandlerUpdates,
              HandlerCommits, ViewQueue, ViewFindsPause, ViewExpiresPause
<1>3. BusyCounted'
  <2>1. IsFiniteSet(Busy) /\ Cardinality(Busy) <= requests /\ Cardinality(Busy) \in Nat
    BY FS_CardinalityType DEF Few, BusyCounted
  <2>2. CASE \E i \in Ids : Cancel(h, i) \/ MoveToBack(h, i) \/ PauseRecipient(h, i)
    <3>1. requests' = requests + 1
      BY <2>2 DEF Cancel, MoveToBack, PauseRecipient
    <3>2. Busy' \in SUBSET (Busy \cup {h})
      BY <1>2 DEF Busy
    <3>3. IsFiniteSet(Busy \cup {h}) /\ Cardinality(Busy \cup {h}) <= requests + 1
      <4>1. /\ IsFiniteSet(Busy \cup {h})
            /\ Cardinality(Busy \cup {h}) \in {Cardinality(Busy), Cardinality(Busy) + 1}
        BY <2>1, FS_AddElement
      <4>2. QED
        BY <1>1, <2>1, <4>1
    <3>4. IsFiniteSet(Busy') /\ Cardinality(Busy') <= Cardinality(Busy \cup {h})
            /\ Cardinality(Busy') \in Nat /\ Cardinality(Busy \cup {h}) \in Nat
      BY <3>2, <3>3, FS_Subset, FS_CardinalityType
    <3>5. QED
      BY <1>1, <3>1, <3>3, <3>4 DEF BusyCounted
  <2>3. CASE HandlerStep(h) \/ \E i \in Ids : ViewQueue(h, i)
    <3>1. requests' = requests /\ (handlers'[h].pc \in {"idle", "judge"} \/ h \in Busy)
      <4>1. CASE \E i \in Ids : ViewQueue(h, i)
        BY <1>1, <4>1 DEF ViewQueue, NoRequest, counters
      <4>2. CASE ViewFindsPause(h) \/ ViewExpiresPause(h)
        BY <1>1, <4>2 DEF ViewFindsPause, ViewExpiresPause, NoRequest, counters
      <4>3. CASE \/ CancelUpdates(h) \/ PauseWrites(h) \/ PauseReadsRows(h)
                 \/ HandlerReadsBack(h) \/ HandlerUpdates(h) \/ HandlerCommits(h)
        BY <4>3 DEF CancelUpdates, PauseWrites, PauseReadsRows, HandlerReadsBack,
                    HandlerUpdates, HandlerCommits, Busy, counters
      <4>4. QED
        BY <2>3, <4>1, <4>2, <4>3 DEF HandlerStep
    <3>2. Busy' \in SUBSET Busy
      BY <1>2, <3>1 DEF Busy
    <3>3. IsFiniteSet(Busy') /\ Cardinality(Busy') <= Cardinality(Busy)
            /\ Cardinality(Busy') \in Nat
      BY <2>1, <3>2, FS_Subset, FS_CardinalityType
    <3>4. QED
      BY <1>1, <2>1, <3>1, <3>3 DEF BusyCounted
  <2>4. QED
    BY <2>2, <2>3 DEF Request
<1>4. TodoSane'
  <2>1. Sane(handlers[h]) /\ \A k \in Handlers \ {h} : Sane(handlers'[k])
    BY <1>2 DEF Few, TodoSane
  <2>2. \A i \in Ids : rows[i].attempts < MAX_ATTEMPTS
    BY DEF Few, AttemptsLow
  <2>3. handlers[h] \in Handler
    BY <1>1
  <2>4. Sane(NoRequest)
    BY DEF NoRequest, Sane
  <2>5. ASSUME NEW i \in Ids, Cancel(h, i) \/ PauseRecipient(h, i) PROVE Sane(handlers'[h])
    <3>1. handlers'[h].todo = {} /\ handlers'[h].pc \in {"cancel", "pause"}
      BY <1>1, <2>5 DEF Cancel, PauseRecipient, NoRequest
    <3>2. QED
      BY <3>1 DEF Sane
  <2>6. ASSUME NEW i \in Ids, MoveToBack(h, i) PROVE Sane(handlers'[h])
    <3>1. handlers'[h].todo = {[id |-> i, next |-> now, attempts |-> rows[i].attempts]}
            /\ handlers'[h].pc = "back"
      BY <1>1, <2>6 DEF MoveToBack, NoRequest
    <3>2. QED
      BY <2>2, <3>1 DEF Sane
  <2>7. ASSUME CancelUpdates(h) PROVE Sane(handlers'[h])
    BY <1>1, <2>4, <2>7 DEF CancelUpdates
  <2>8. ASSUME PauseWrites(h) \/ HandlerReadsBack(h) PROVE Sane(handlers'[h])
    <3>1. /\ handlers'[h].todo = handlers[h].todo
          /\ handlers'[h].pc = "paused" => handlers[h].pc = "pause"
          /\ handlers'[h].pc \in {"paused", "update"}
      BY <1>1, <2>3, <2>8 DEF PauseWrites, HandlerReadsBack, Handler
    <3>2. QED
      BY <2>1, <3>1 DEF Sane
  <2>9. ASSUME PauseReadsRows(h) PROVE Sane(handlers'[h])
    <3> DEFINE mine == {i \in Pending : rows[i].to_pubkey = rows[handlers[h].id].to_pubkey}
               until == handlers[h].until
               later(i) == IF rows[i].next_attempt > until THEN rows[i].next_attempt
                                                           ELSE until
               note(i) == [id |-> i, next |-> later(i), attempts |-> rows[i].attempts]
    <3>1. /\ mine \subseteq Ids
          /\ handlers' = [handlers EXCEPT ![h].pc = IF mine = {} THEN "commit" ELSE "back",
                                          ![h].todo = {note(i) : i \in mine}]
      BY <2>9 DEF PauseReadsRows, Pending
    <3>2. \A i \in mine : note(i).id = i /\ note(i).attempts = rows[i].attempts
      OBVIOUS
    <3> HIDE DEF mine, note
    <3>3. /\ handlers'[h].todo = {note(i) : i \in mine}
          /\ handlers'[h].pc = IF mine = {} THEN "commit" ELSE "back"
      BY <1>1, <2>3, <3>1 DEF Handler
    <3>4. QED
      BY <2>2, <3>1, <3>2, <3>3 DEF Sane
  <2>10. ASSUME HandlerUpdates(h) PROVE Sane(handlers'[h])
    <3>1. handlers'[h].todo \subseteq handlers[h].todo
            /\ handlers'[h].pc \in {"idle", "commit", "back"}
            /\ (handlers'[h].pc # "back" => handlers'[h].todo = {})
      BY <1>1, <2>3, <2>10 DEF HandlerUpdates, Handler, NoRequest
    <3>2. QED
      BY <2>1, <3>1 DEF Sane
  <2>11. ASSUME HandlerCommits(h) \/ ViewFindsPause(h) \/ ViewExpiresPause(h)
          PROVE  Sane(handlers'[h])
    BY <1>1, <2>4, <2>11 DEF HandlerCommits, ViewFindsPause, ViewExpiresPause
  <2>12. ASSUME NEW i \in Ids, ViewQueue(h, i) PROVE Sane(handlers'[h])
    <3>1. handlers'[h].todo = {} /\ handlers'[h].pc = "judge"
      BY <1>1, <2>12 DEF ViewQueue, NoRequest
    <3>2. QED
      BY <3>1 DEF Sane
  <2>13. Sane(handlers'[h])
    BY <2>5, <2>6, <2>7, <2>8, <2>9, <2>10, <2>11, <2>12 DEF Request, HandlerStep
  <2>14. QED
    BY <2>1, <2>13 DEF TodoSane
<1>5. AttemptsLow'
  <2>1. CASE rows' = rows
    BY <1>1, <2>1 DEF Few, AttemptsLow, Ids
  <2>2. CASE CancelUpdates(h)
    <3>1. Ids' = Ids
      BY <2>2, SetStatusType DEF CancelUpdates, Status
    <3>2. \A i \in Ids : rows'[i].attempts = rows[i].attempts
      BY <2>2, RowTypes DEF CancelUpdates, SetStatus, OutboundMessage
    <3>3. QED
      BY <1>1, <3>1, <3>2 DEF Few, AttemptsLow
  <2>3. CASE HandlerUpdates(h)
    <3>1. PICK r \in handlers[h].todo :
            RescheduleOutbound(r.id, r.next, r.attempts, handlers[h].back)
      BY <2>3 DEF HandlerUpdates
    <3>2. r \in Reschedule /\ handlers[h].back \in Nat /\ r.attempts < MAX_ATTEMPTS
      BY <1>1, <3>1 DEF Handler, Few, TodoSane, Sane
    <3>3. Ids' = Ids
      BY <3>1, <3>2, RescheduleType DEF Reschedule
    <3>4. \A i \in Ids : rows'[i].attempts \in {rows[i].attempts, r.attempts}
      BY <3>1, <3>2, RescheduledRow DEF Backed, HandlersBacked
    <3>5. QED
      BY <1>1, <3>2, <3>3, <3>4 DEF Few, AttemptsLow
  <2>4. QED
    BY <2>1, <2>2, <2>3
    DEF Request, Cancel, MoveToBack, PauseRecipient, HandlerStep, PauseWrites,
        PauseReadsRows, HandlerReadsBack, HandlerCommits, ViewQueue, ViewFindsPause,
        ViewExpiresPause, table
<1>6. QED
  BY <1>3, <1>4, <1>5 DEF Few

\* What a packet of a reply adds to the table.
LEMMA FreshRow ==
  ASSUME TypeOK, Backed, NEW s \in Senders, EnqueuePacket(s)
  PROVE  \E row \in OutboundMessage :
           /\ rows' = Append(rows, row)
           /\ row.attempts = 0 /\ row.status = "pending"
           /\ row.priority = senders[s].priority
<1> DEFINE row == [to_pubkey |-> senders[s].to, priority |-> senders[s].priority,
                   enqueued_at |-> senders[s].at, next_attempt |-> senders[s].at,
                   attempts |-> 0, status |-> "pending"]
<1>1. row \in OutboundMessage
  BY DEF EnqueuePacket, Backed, SendersBacked, TypeOK, Sender, OutboundMessage, Status
<1>2. rows' = Append(rows, row)
  BY DEF EnqueuePacket, EnqueueOutbound
<1>3. QED
  BY <1>1, <1>2

\* A fresh row was never tried.
LEMMA SenderStepFew ==
  ASSUME TypeOK, TypeOK', Backed, Few, NEW s \in Senders, Reply(s) \/ EnqueuePacket(s)
  PROVE  Few'
<1>1. worker' = worker /\ handlers' = handlers /\ requests' = requests
  BY DEF Reply, StartReply, EnqueuePacket, counters
<1>2. BusyCounted' /\ TodoSane'
  BY <1>1, RequestsQuiet
<1>3. CASE Reply(s)
  <2>1. rows' = rows /\ Ids' = Ids
    BY <1>3 DEF Reply, StartReply, table, Ids
  <2>2. QED
    BY <1>1, <1>2, <2>1 DEF Few, AttemptsLow
<1>4. CASE EnqueuePacket(s)
  <2>1. PICK row \in OutboundMessage : rows' = Append(rows, row) /\ row.attempts = 0
    BY <1>4, FreshRow
  <2>2. rows \in Seq(OutboundMessage) /\ 0 < MAX_ATTEMPTS
    BY DEF TypeOK
  <2>3. /\ Ids' = Ids \cup {Len(rows) + 1} /\ rows'[Len(rows) + 1] = row
        /\ \A i \in Ids : rows'[i] = rows[i]
    BY <2>1, <2>2, AppendKeeps DEF Ids
  <2>4. QED
    BY <1>1, <1>2, <2>1, <2>2, <2>3 DEF Few, AttemptsLow
<1>5. QED
  BY <1>3, <1>4

\* What ends the process forgets the requests, not their number.
LEMMA SurroundingsFew ==
  ASSUME TypeOK, TypeOK', Few, Surroundings
  PROVE  Few'
<1>1. rows' = rows /\ Ids' = Ids /\ requests' = requests /\ requests \in Nat
  BY DEF Surroundings, TickRaises, Advance, RadioChanges, CommitElsewhere, Shutdown,
         DrainTimesOut, Exit, Crash, Down, Restart, table, counters, Ids, TypeOK
<1>2. worker'.attempts \in {0, worker.attempts}
  BY DEF Surroundings, TickRaises, Advance, RadioChanges, CommitElsewhere, Shutdown,
         DrainTimesOut, Exit, Crash, Down, Restart, tasks, WorkerAt
<1>3. AttemptsLow'
  BY <1>1, <1>2 DEF Few, AttemptsLow
<1>4. CASE handlers' = handlers
  BY <1>1, <1>3, <1>4, RequestsQuiet DEF Few
<1>5. CASE handlers' = [h \in Handlers |-> NoRequest]
  <2>1. Busy' = {}
    BY <1>5 DEF Busy, NoRequest
  <2>2. BusyCounted'
    BY <1>1, <2>1, FS_EmptySet DEF BusyCounted
  <2>3. TodoSane'
    BY <1>5 DEF TodoSane, Sane, NoRequest
  <2>4. QED
    BY <1>3, <2>2, <2>3 DEF Few
<1>6. QED
  BY <1>4, <1>5 DEF Surroundings, TickRaises, Advance, RadioChanges, CommitElsewhere,
                    Shutdown, DrainTimesOut, Exit, Crash, Down, Restart, tasks

\* Every step.
LEMMA FewStep ==
  ASSUME TypeOK, TypeOK', Backed, Few, [Next]_vars
  PROVE  Few'
<1>1. CASE UNCHANGED vars
  BY <1>1 DEF vars, Few, BusyCounted, Busy, TodoSane, AttemptsLow, Ids
<1>2. CASE Next
  BY <1>2, WorkerStepFew, HandlerStepFew, SenderStepFew, SurroundingsFew
  DEF Next, Surroundings
<1>3. QED
  BY <1>1, <1>2

-----------------------------------------------------------------------------
(* The airtime of a message                                                *)

\* The requests that may still write back attempts they read of row i before.
Due(i) == {h \in Handlers : \/ handlers[h].pc \in {"pause", "paused"}
                            \/ \E r \in handlers[h].todo : r.id = i}

\* The requests that are done with row i, or never had to do with it.
Spare(i) == requests - Cardinality(Due(i))

\* What faults and requests can have made row i forget.
Slack(i) == faults + (MAX_ATTEMPTS - 1) * Spare(i)

\* A failed send of row i that its attempts do not count yet.
Owed(i) == worker.id = i /\ worker.pc \in {"fail", "back", "update"} /\ worker.sent

\* The worker is about to send row i, or to write its attempts.
Trying(i) ==
  /\ worker.id = i
  /\ worker.pc \in {"pause", "judge", "decide", "sending", "back", "update"}

\* The failed sends of row i are those its attempts count, as the row or the worker has
\* them, the one owed, and the forgotten.
NacksOf(i) ==
  /\ hist.nacks[i] <= MAX_ATTEMPTS + Slack(i)
  /\ rows[i].status = "pending" =>
       hist.nacks[i] <= rows[i].attempts + Slack(i) + (IF Owed(i) THEN 1 ELSE 0)
  /\ Trying(i) => hist.nacks[i] <= worker.attempts + Slack(i)

NacksCounted == \A i \in Ids : NacksOf(i)

\* A request due is a request in progress.
LEMMA DueBusy == TodoSane => \A i : Due(i) \subseteq Busy
  BY DEF TodoSane, Sane, Due, Busy

\* So the requests done are not fewer than none.
LEMMA Rationed ==
  ASSUME NEW B, IsFiniteSet(B), NEW q \in Nat, Cardinality(B) <= q, NEW D \in SUBSET B
  PROVE  IsFiniteSet(D) /\ Cardinality(D) \in Nat /\ q - Cardinality(D) \in Nat
<1>1. IsFiniteSet(D) /\ Cardinality(D) <= Cardinality(B)
  BY FS_Subset
<1>2. Cardinality(D) \in Nat /\ Cardinality(B) \in Nat
  BY <1>1, FS_CardinalityType
<1>3. QED
  BY <1>1, <1>2

\* The same of the state itself and of the one a step leads to.
LEMMA SpareType ==
  ASSUME TypeOK, TypeOK', Few, Few', NEW i
  PROVE  /\ IsFiniteSet(Due(i)) /\ IsFiniteSet(Due(i)')
         /\ Cardinality(Due(i)) \in Nat /\ Cardinality(Due(i)') \in Nat
         /\ Spare(i) \in Nat /\ Spare(i)' \in Nat
<1>1. requests \in Nat /\ requests' \in Nat
  BY DEF TypeOK
<1>2. Due(i) \in SUBSET Busy /\ Due(i)' \in SUBSET Busy'
  BY DEF Few, TodoSane, Sane, Due, Busy
<1>3. /\ IsFiniteSet(Busy) /\ Cardinality(Busy) <= requests
      /\ IsFiniteSet(Busy') /\ Cardinality(Busy') <= requests'
  BY DEF Few, BusyCounted
<1>4. IsFiniteSet(Due(i)) /\ Cardinality(Due(i)) \in Nat /\ Spare(i) \in Nat
  BY <1>1, <1>2, <1>3, Rationed DEF Spare
<1>5. IsFiniteSet(Due(i)') /\ Cardinality(Due(i)') \in Nat /\ Spare(i)' \in Nat
  BY <1>1, <1>2, <1>3, Rationed DEF Spare
<1>6. QED
  BY <1>4, <1>5

\* A step that serves a request or none.
LEMMA SpareShrinks ==
  ASSUME TypeOK, TypeOK', Few, Few', NEW i, requests' = requests, Due(i)' \subseteq Due(i)
  PROVE  Spare(i) <= Spare(i)'
<1>1. Cardinality(Due(i)') <= Cardinality(Due(i))
  BY SpareType, FS_Subset
<1>2. requests \in Nat
  BY DEF TypeOK
<1>3. QED
  BY <1>1, <1>2, SpareType DEF Spare

\* A step that takes a request.
LEMMA SpareAsked ==
  ASSUME TypeOK, TypeOK', Few, Few', NEW i, NEW h, requests' = requests + 1,
         Due(i)' \subseteq Due(i) \cup {h}
  PROVE  Spare(i) <= Spare(i)'
<1>1. IsFiniteSet(Due(i)) /\ Cardinality(Due(i)) \in Nat /\ Cardinality(Due(i)') \in Nat
  BY SpareType
<1>2. /\ IsFiniteSet(Due(i) \cup {h})
      /\ Cardinality(Due(i) \cup {h}) \in {Cardinality(Due(i)), Cardinality(Due(i)) + 1}
  BY <1>1, FS_AddElement
<1>3. Cardinality(Due(i)') <= Cardinality(Due(i) \cup {h})
  BY <1>2, FS_Subset
<1>4. requests \in Nat
  BY DEF TypeOK
<1>5. QED
  BY <1>1, <1>2, <1>3, <1>4 DEF Spare

\* A step that serves a request for row i.
LEMMA SpareServed ==
  ASSUME TypeOK, TypeOK', Few, Few', NEW i, NEW h \in Due(i), requests' = requests,
         Due(i)' \subseteq Due(i) \ {h}
  PROVE  Spare(i) + 1 <= Spare(i)'
<1>1. IsFiniteSet(Due(i)) /\ Cardinality(Due(i)) \in Nat /\ Cardinality(Due(i)') \in Nat
  BY SpareType
<1>2. /\ IsFiniteSet(Due(i) \ {h})
      /\ Cardinality(Due(i) \ {h}) = Cardinality(Due(i)) - 1
  BY <1>1, FS_RemoveElement
<1>3. Cardinality(Due(i)') <= Cardinality(Due(i) \ {h})
  BY <1>2, FS_Subset
<1>4. requests \in Nat
  BY DEF TypeOK
<1>5. QED
  BY <1>1, <1>2, <1>3, <1>4 DEF Spare

\* What may have been forgotten grows with the faults and the requests done.
LEMMA SlackGrows ==
  ASSUME TypeOK, TypeOK', Few, Few', NEW i, faults <= faults', Spare(i) <= Spare(i)'
  PROVE  /\ Slack(i) \in Nat /\ Slack(i)' \in Nat
         /\ Slack(i) + (faults' - faults) <= Slack(i)'
         /\ Spare(i) + 1 <= Spare(i)' => Slack(i) + (MAX_ATTEMPTS - 1) <= Slack(i)'
<1> DEFINE k == MAX_ATTEMPTS - 1
<1>1. k \in Nat /\ Spare(i) \in Nat /\ Spare(i)' \in Nat
  BY SpareType
<1>2. faults \in Nat /\ faults' \in Nat
  BY DEF TypeOK
<1>3. Slack(i) = faults + k * Spare(i) /\ Slack(i)' = faults' + k * Spare(i)'
  BY DEF Slack
<1> HIDE DEF k
<1>4. k * Spare(i) \in Nat /\ k * Spare(i)' \in Nat /\ k * Spare(i) <= k * Spare(i)'
  BY <1>1, Scaled
<1>5. Spare(i) + 1 <= Spare(i)' => k * Spare(i) + k <= k * Spare(i)'
  BY <1>1, Scaled
<1>6. /\ Slack(i) \in Nat /\ Slack(i)' \in Nat
      /\ Slack(i) + (faults' - faults) <= Slack(i)'
      /\ Spare(i) + 1 <= Spare(i)' => Slack(i) + k <= Slack(i)'
  BY <1>1, <1>2, <1>3, <1>4, <1>5
<1>7. QED
  BY <1>6 DEF k

\* A step that counts no send and leaves the attempts alone, or puts back what the worker
\* had, or what a request had; what it forgets is a fault's or a request's.
LEMMA NacksKept ==
  ASSUME TypeOK, TypeOK', Few, Few', NacksCounted, NEW i \in Ids, i \in Ids',
         hist'.nacks[i] = hist.nacks[i],
         Slack(i) \in Nat, Slack(i)' \in Nat, Slack(i) <= Slack(i)',
         rows'[i].status = "pending" => rows[i].status = "pending",
         \/ rows'[i].attempts = rows[i].attempts
         \/ Slack(i) + (MAX_ATTEMPTS - 1) <= Slack(i)' /\ (Owed(i) => Owed(i)')
         \/ Trying(i) /\ rows'[i].attempts = worker.attempts,
         \/ ~Owed(i) \/ Owed(i)'
         \/ Slack(i) + 1 <= Slack(i)' \/ rows'[i].status # "pending"
         \/ Trying(i) /\ rows'[i].attempts = worker.attempts,
         Trying(i)' => \/ Trying(i) /\ worker'.attempts = worker.attempts
                       \/ /\ rows[i].status = "pending" /\ ~Owed(i)
                          /\ worker'.attempts = rows[i].attempts
  PROVE  NacksOf(i)'
<1>1. /\ hist.nacks[i] \in Nat /\ rows[i].attempts \in Nat /\ rows'[i].attempts \in Nat
      /\ worker.attempts \in Nat /\ worker'.attempts \in Nat
  <2>1. rows \in [Ids -> OutboundMessage]
    BY RowsFunction
  <2>2. rows' \in [Ids' -> OutboundMessage]
    BY LenProperties, SeqDef DEF TypeOK, Ids
  <2>3. QED
    BY <2>1, <2>2, HistIds DEF OutboundMessage, TypeOK, Worker
<1>2. NacksOf(i) /\ rows[i].attempts < MAX_ATTEMPTS
  BY DEF NacksCounted, Few, AttemptsLow
<1>3. hist'.nacks[i] <= MAX_ATTEMPTS + Slack(i)'
  BY <1>1, <1>2 DEF NacksOf
<1>4. ASSUME rows'[i].status = "pending"
      PROVE  hist'.nacks[i] <= rows'[i].attempts + Slack(i)' + (IF Owed(i)' THEN 1 ELSE 0)
  <2>1. hist.nacks[i] <= rows[i].attempts + Slack(i) + (IF Owed(i) THEN 1 ELSE 0)
    BY <1>2, <1>4 DEF NacksOf
  <2>2. CASE Trying(i) /\ rows'[i].attempts = worker.attempts
    BY <1>1, <1>2, <2>2 DEF NacksOf
  <2>3. CASE Slack(i) + (MAX_ATTEMPTS - 1) <= Slack(i)' /\ (Owed(i) => Owed(i)')
    BY <1>1, <1>2, <1>4, <2>1, <2>3
  <2>4. CASE rows'[i].attempts = rows[i].attempts
    BY <1>1, <1>4, <2>1, <2>2, <2>4
  <2>5. QED
    BY <2>2, <2>3, <2>4
<1>5. ASSUME Trying(i)' PROVE hist'.nacks[i] <= worker'.attempts + Slack(i)'
  BY <1>1, <1>2, <1>5 DEF NacksOf
<1>6. QED
  BY <1>3, <1>4, <1>5 DEF NacksOf

\* Every step of the worker.
LEMMA WorkerStepNacks ==
  ASSUME TypeOK, TypeOK', Few, Few', Backed, NacksCounted, WorkerStep
  PROVE  NacksCounted'
<1> USE DEF Trying, Owed
<1>1. UNCHANGED <<handlers, requests, faults>>
  BY DEF WorkerStep, Suspend, WorkerStops, StartTick, ClaimNext, NothingDue, ReadPause,
         PauseStands, ExpirePause, Decide, PutOff, SendOk, SendUnacked, SendReturns,
         MarkSent, MarkFailed, AuditFailed, RescheduleReadsBack, RescheduleUpdates,
         GapOver, counters
<1>2. \A i : Slack(i) \in Nat /\ Slack(i)' = Slack(i)
  <2>1. ASSUME NEW i PROVE Slack(i)' = Slack(i) /\ Spare(i)' = Spare(i)
    BY <1>1 DEF Slack, Spare, Due
  <2>2. ASSUME NEW i PROVE Slack(i) \in Nat
    <3>1. Spare(i) <= Spare(i)' /\ faults <= faults'
      BY <1>1, <2>1, SpareType DEF TypeOK
    <3>2. QED
      BY <3>1, SlackGrows
  <2>3. QED
    BY <2>1, <2>2
<1>3. \A i \in Ids : NacksOf(i) /\ hist.nacks[i] \in Nat
  BY HistIds DEF NacksCounted
<1>4. rows' = rows => Ids' = Ids
  BY DEF Ids
<1>5. CASE WorkerStops \/ NothingDue \/ AuditFailed \/ GapOver
  <2>1. /\ rows' = rows /\ hist' = hist /\ worker.pc \in {"poll", "claim", "audit", "gap"}
        /\ worker'.pc \in {"stopped", "poll", "gap"}
    BY <1>5 DEF WorkerStops, NothingDue, AuditFailed, GapOver, Suspend, WorkerAt, table
  <2>2. QED
    BY <1>2, <1>4, <2>1, NacksKept DEF NacksCounted
<1>6. CASE StartTick
  <2>1. worker'.pc = "claim" /\ worker.pc = "poll" /\ hist' = hist
    BY <1>6 DEF StartTick, WorkerAt
  <2>2. Ids' = Ids
    BY <1>6, DropStaleType DEF StartTick
  <2>3. \A i \in Ids : /\ rows'[i].status = "pending" => rows[i].status = "pending"
                       /\ rows'[i].attempts = rows[i].attempts
    BY <1>6, RowTypes DEF StartTick, DropStaleOutbound, OutboundMessage
  <2>4. QED
    BY <1>2, <2>1, <2>2, <2>3, NacksKept DEF NacksCounted
<1>7. CASE ClaimNext
  <2>1. PICK m \in NextOutbound(worker.tick) :
          Suspend([worker EXCEPT !.pc = "pause", !.id = m, !.attempts = rows[m].attempts])
    BY <1>7 DEF ClaimNext
  <2>2. m \in Ids /\ rows[m].status = "pending"
    BY <2>1 DEF NextOutbound, Ready, Pending
  <2>3. rows' = rows /\ hist' = hist /\ worker'.id = m /\ worker.pc = "claim"
          /\ worker'.attempts = rows[m].attempts
    BY <1>7, <2>1 DEF ClaimNext, Suspend, table, TypeOK, Worker
  <2>4. QED
    BY <1>2, <1>4, <2>2, <2>3, NacksKept DEF NacksCounted
<1>8. CASE ReadPause \/ PauseStands \/ ExpirePause \/ Decide \/ RescheduleReadsBack
  <2>1. /\ rows' = rows /\ hist'.nacks = hist.nacks
        /\ worker.pc \in {"pause", "judge", "decide", "back"}
        /\ worker.sent => worker'.sent
        /\ worker.pc = "back" => worker'.pc = "update"
        /\ worker'.id = worker.id /\ worker'.attempts = worker.attempts
    <3>1. CASE ReadPause \/ PauseStands \/ ExpirePause
      BY <3>1 DEF ReadPause, PauseStands, ExpirePause, Suspend, table, TypeOK, Worker, Hist
    <3>2. CASE Decide
      BY <3>2 DEF Decide, PutOff, Suspend, table, TypeOK, Worker
    <3>3. CASE RescheduleReadsBack
      BY <3>3 DEF RescheduleReadsBack, Suspend, table, TypeOK, Worker
    <3>4. QED
      BY <1>8, <3>1, <3>2, <3>3
  <2>2. QED
    BY <1>2, <1>4, <2>1, NacksKept DEF NacksCounted
<1>9. CASE SendOk
  <2>1. /\ rows' = rows /\ hist'.nacks = hist.nacks
        /\ worker.pc = "sending" /\ worker'.pc = "mark"
    BY <1>9 DEF SendOk, SendReturns, table, TypeOK, Worker, Hist
  <2>2. QED
    BY <1>2, <1>4, <2>1, NacksKept DEF NacksCounted
<1>10. CASE SendUnacked
  <2>1. PICK m \in Ids : m = worker.id
    BY <1>10 DEF SendUnacked, Backed, WorkerBacked
  <2>2. rows' = rows /\ hist'.nacks = [hist.nacks EXCEPT ![m] = @ + 1]
    BY <1>10, <2>1 DEF SendUnacked, SendReturns, table, TypeOK, Hist
  <2>3. /\ worker.pc = "sending" /\ worker'.id = m /\ worker'.sent
        /\ worker'.pc \in {"fail", "back"}
        /\ worker'.pc = "back" => worker'.attempts = worker.attempts + 1
    BY <1>10, <2>1 DEF SendUnacked, TypeOK, Worker
  <2>4. hist.nacks \in [Ids -> Nat] /\ worker.attempts \in Nat
    BY HistIds DEF TypeOK, Worker
  <2>5. worker.attempts < MAX_ATTEMPTS /\ rows[m].attempts \in Nat
    BY RowTypes DEF Few, AttemptsLow, OutboundMessage
  <2>6. ASSUME NEW i \in Ids \ {m} PROVE NacksOf(i)'
    <3>1. hist'.nacks[i] = hist.nacks[i]
      BY <2>2, <2>4
    <3>2. QED
      BY <1>2, <1>4, <2>1, <2>2, <2>3, <2>6, <3>1, NacksKept
  <2>7. NacksOf(m)'
    <3>1. hist'.nacks[m] = hist.nacks[m] + 1 /\ hist.nacks[m] \in Nat /\ Slack(m) \in Nat
      BY <1>2, <2>2, <2>4
    <3>2. /\ hist.nacks[m] <= worker.attempts + Slack(m)
          /\ rows[m].status = "pending" => hist.nacks[m] <= rows[m].attempts + Slack(m)
      <4>1. Trying(m) /\ ~Owed(m)
        BY <2>1, <2>3
      <4>2. QED
        BY <1>3, <3>1, <2>5, <4>1 DEF NacksOf
    <3>3. hist'.nacks[m] <= MAX_ATTEMPTS + Slack(m)'
      BY <1>2, <2>4, <2>5, <3>1, <3>2
    <3>4. rows'[m].status = "pending" =>
            hist'.nacks[m] <= rows'[m].attempts + Slack(m)' + 1
      BY <1>2, <2>2, <2>5, <3>1, <3>2
    <3>5. Trying(m)' => hist'.nacks[m] <= worker'.attempts + Slack(m)'
      BY <1>2, <2>3, <2>4, <3>1, <3>2
    <3>6. Owed(m)'
      BY <2>3
    <3>7. QED
      BY <3>3, <3>4, <3>5, <3>6 DEF NacksOf
  <2>8. QED
    BY <1>4, <2>2, <2>6, <2>7 DEF NacksCounted
<1>11. CASE MarkSent \/ MarkFailed
  <2>1. PICK st \in {"sent", "failed"} : SetStatus(worker.id, st)
    BY <1>11 DEF MarkSent, MarkFailed
  <2>2. worker.id \in Ids /\ hist' = hist /\ worker'.pc \in {"gap", "audit"}
    BY <1>11 DEF MarkSent, MarkFailed, Backed, WorkerBacked, WorkerAt
  <2>3. Ids' = Ids
    BY <2>1, SetStatusType DEF Status
  <2>4. \A j \in Ids : /\ rows'[j].attempts = rows[j].attempts
                       /\ rows'[j].status = IF j = worker.id THEN st ELSE rows[j].status
    BY <2>1, <2>2, SetStatusRows
  <2>5. QED
    BY <1>2, <2>1, <2>2, <2>3, <2>4, NacksKept DEF NacksCounted
<1>12. CASE RescheduleUpdates
  <2>1. worker.id \in Ids /\ worker.pc = "update" /\ hist' = hist
          /\ worker'.pc \in {"gap", "poll"}
    BY <1>12 DEF RescheduleUpdates, Backed, WorkerBacked, WorkerAt
  <2>2. worker.next \in Nat /\ worker.attempts \in Nat /\ worker.back \in Nat
    BY DEF TypeOK, Worker
  <2>3. Ids' = Ids
    BY <1>12, <2>2, RescheduleType DEF RescheduleUpdates
  <2>4. \A j \in Ids :
          /\ rows'[j].status = rows[j].status
          /\ rows'[j].attempts = IF j = worker.id THEN worker.attempts ELSE rows[j].attempts
    BY <1>12, <2>1, <2>2, RescheduledRow DEF RescheduleUpdates
  <2>5. QED
    BY <1>2, <2>1, <2>3, <2>4, NacksKept DEF NacksCounted
<1>13. QED
  BY <1>5, <1>6, <1>7, <1>8, <1>9, <1>10, <1>11, <1>12 DEF WorkerStep

\* A request writes back what it read, once.
LEMMA HandlerStepNacks ==
  ASSUME TypeOK, TypeOK', Few, Few', Backed, NacksCounted,
         NEW h \in Handlers, Request(h) \/ HandlerStep(h)
  PROVE  NacksCounted'
<1>1. worker' = worker /\ faults' = faults /\ faults \in Nat
  BY DEF Request, HandlerStep, Cancel, MoveToBack, PauseRecipient, CancelUpdates,
         PauseWrites, PauseReadsRows, HandlerReadsBack, HandlerUpdates, HandlerCommits,
         ViewQueue, ViewFindsPause, ViewExpiresPause, counters, TypeOK
<1>2. hist'.nacks = hist.nacks
  BY DEF Request, HandlerStep, Cancel, MoveToBack, PauseRecipient, CancelUpdates,
         PauseWrites, PauseReadsRows, HandlerReadsBack, HandlerUpdates, HandlerCommits,
         ViewQueue, ViewFindsPause, ViewExpiresPause, TypeOK, Hist
<1>3. handlers \in [Handlers -> Handler] /\ handlers' \in [Handlers -> Handler]
        /\ \A k \in Handlers \ {h} : handlers'[k] = handlers[k]
  BY DEF Request, HandlerStep, Cancel, MoveToBack, PauseRecipient, CancelUpdates,
         PauseWrites, PauseReadsRows, HandlerReadsBack, HandlerUpdates, HandlerCommits,
         ViewQueue, ViewFindsPause, ViewExpiresPause, TypeOK
<1>4. \A i : /\ \A k \in Handlers \ {h} : k \in Due(i)' <=> k \in Due(i)
             /\ Due(i) \subseteq Handlers /\ Due(i)' \subseteq Handlers
  BY <1>3 DEF Due
<1>5. ASSUME rows' = rows, \A i : Spare(i) <= Spare(i)' PROVE NacksCounted'
  <2>1. ASSUME NEW i \in Ids PROVE NacksOf(i)'
    <3>1. Slack(i) \in Nat /\ Slack(i)' \in Nat /\ Slack(i) <= Slack(i)'
      BY <1>1, <1>5, SlackGrows
    <3>2. i \in Ids'
      BY <1>5 DEF Ids
    <3>3. QED
      BY <1>1, <1>2, <1>5, <3>1, <3>2, NacksKept DEF Owed, Trying
  <2>2. QED
    BY <1>5, <2>1 DEF NacksCounted, Ids
<1>6. CASE \E i \in Ids : Cancel(h, i) \/ MoveToBack(h, i) \/ PauseRecipient(h, i)
  <2>1. requests' = requests + 1 /\ rows' = rows
    BY <1>6 DEF Cancel, MoveToBack, PauseRecipient, table
  <2>2. \A i : Due(i)' \subseteq Due(i) \cup {h}
    BY <1>4
  <2>3. QED
    BY <1>5, <2>1, <2>2, SpareAsked
\* A page that is shown, and a pause committed, concern no row.
<1>7. CASE \/ \E i \in Ids : ViewQueue(h, i)
           \/ HandlerCommits(h) \/ ViewFindsPause(h) \/ ViewExpiresPause(h)
  <2>1. requests' = requests /\ rows' = rows
    BY <1>7 DEF ViewQueue, HandlerCommits, ViewFindsPause, ViewExpiresPause, table, counters
  <2>2. handlers'[h].todo = {} /\ handlers'[h].pc \in {"idle", "judge"}
    <3>1. CASE \E i \in Ids : ViewQueue(h, i)
      BY <1>3, <3>1 DEF ViewQueue, NoRequest
    <3>2. CASE HandlerCommits(h) \/ ViewFindsPause(h) \/ ViewExpiresPause(h)
      BY <1>3, <3>2 DEF HandlerCommits, ViewFindsPause, ViewExpiresPause, NoRequest
    <3>3. QED
      BY <1>7, <3>1, <3>2
  <2>3. \A i : Due(i)' \subseteq Due(i)
    BY <1>4, <2>2 DEF Due
  <2>4. QED
    BY <1>5, <2>1, <2>3, SpareShrinks
<1>8. CASE PauseWrites(h) \/ PauseReadsRows(h) \/ HandlerReadsBack(h)
  <2>1. requests' = requests /\ rows' = rows
    BY <1>8 DEF PauseWrites, PauseReadsRows, HandlerReadsBack, table, counters
  <2>2. ASSUME NEW i, h \in Due(i)' PROVE h \in Due(i)
    <3>1. CASE PauseWrites(h) \/ PauseReadsRows(h)
      BY <3>1 DEF PauseWrites, PauseReadsRows, Due
    <3>2. CASE HandlerReadsBack(h)
      <4>1. handlers'[h].todo = handlers[h].todo /\ handlers'[h].pc = "update"
        BY <1>3, <3>2 DEF HandlerReadsBack, Handler
      <4>2. QED
        BY <2>2, <4>1 DEF Due
    <3>3. QED
      BY <1>8, <3>1, <3>2
  <2>3. \A i : Due(i)' \subseteq Due(i)
    BY <1>4, <2>2
  <2>4. QED
    BY <1>5, <2>1, <2>3, SpareShrinks
<1>9. CASE CancelUpdates(h)
  <2>1. requests' = requests /\ hist' = hist /\ handlers' = [handlers EXCEPT ![h] = NoRequest]
    BY <1>9 DEF CancelUpdates, counters
  <2>2. \A i : h \notin Due(i)'
    BY <1>3, <2>1 DEF Due, NoRequest
  <2>3. \A i : Due(i)' \subseteq Due(i)
    BY <1>4, <2>2
  <2>4. Ids' = Ids
    BY <1>9, SetStatusType DEF CancelUpdates, Status
  <2>5. \A j \in Ids : /\ rows'[j].attempts = rows[j].attempts
                       /\ rows'[j].status \in {"cancelled", rows[j].status}
    BY <1>9, SetStatusRows DEF CancelUpdates, Backed, HandlersBacked
  <2>6. ASSUME NEW i \in Ids PROVE NacksOf(i)'
    <3>1. Slack(i) \in Nat /\ Slack(i)' \in Nat /\ Slack(i) <= Slack(i)'
      BY <1>1, <2>1, <2>3, SpareShrinks, SlackGrows
    <3>2. QED
      BY <1>1, <1>2, <2>4, <2>5, <3>1, NacksKept DEF Owed, Trying
  <2>7. QED
    BY <2>4, <2>6 DEF NacksCounted
<1>10. CASE HandlerUpdates(h)
  <2>1. PICK r \in handlers[h].todo :
          /\ RescheduleOutbound(r.id, r.next, r.attempts, handlers[h].back)
          /\ handlers' = [handlers EXCEPT ![h] =
               IF handlers[h].todo # {r}
                 THEN [handlers[h] EXCEPT !.pc = "back", !.todo = @ \ {r}, !.back = 0]
               ELSE IF handlers[h].until # 0
                 THEN [handlers[h] EXCEPT !.pc = "commit", !.todo = {}, !.back = 0]
               ELSE NoRequest]
    BY <1>10 DEF HandlerUpdates
  <2>2. r.id \in Ids /\ r \in Reschedule /\ handlers[h].back \in Nat
    BY <1>3, <2>1 DEF Backed, HandlersBacked, Handler
  <2>3. handlers'[h].todo = handlers[h].todo \ {r}
          /\ handlers'[h].pc \in {"idle", "commit", "back"}
    BY <1>3, <2>1 DEF Handler, NoRequest
  <2>4. \A q \in handlers[h].todo : q.id = r.id => q = r
    BY <2>1 DEF Few, TodoSane, Sane
  <2>5. requests' = requests
    BY <1>10 DEF HandlerUpdates, counters
  <2>6. Ids' = Ids
    BY <2>1, <2>2, RescheduleType DEF Reschedule
  <2>7. \A j \in Ids :
          /\ rows'[j].attempts = IF j = r.id THEN r.attempts ELSE rows[j].attempts
          /\ rows'[j].status = rows[j].status
    BY <2>1, <2>2, RescheduledRow
  <2>8. \A i : h \in Due(i)' => h \in Due(i)
    BY <2>3 DEF Due
  <2>9. \A i : Due(i)' \subseteq Due(i)
    BY <1>4, <2>8
  <2>10. ASSUME NEW i \in Ids PROVE NacksOf(i)'
    <3>1. Spare(i) <= Spare(i)'
      BY <2>5, <2>9, SpareShrinks
    <3>2. Slack(i) \in Nat /\ Slack(i)' \in Nat /\ Slack(i) <= Slack(i)'
      BY <1>1, <3>1, SlackGrows
    <3>3. CASE i # r.id
      BY <1>1, <1>2, <2>6, <2>7, <3>2, <3>3, NacksKept DEF Owed, Trying
    <3>4. CASE i = r.id
      <4>1. h \in Due(i) /\ h \notin Due(i)'
        BY <2>1, <2>3, <2>4, <3>4 DEF Due
      <4>2. Spare(i) + 1 <= Spare(i)'
        BY <2>5, <2>9, <4>1, SpareServed
      <4>3. Slack(i) + (MAX_ATTEMPTS - 1) <= Slack(i)'
        BY <1>1, <3>1, <4>2, SlackGrows
      <4>4. Owed(i) => Owed(i)'
        BY <1>1 DEF Owed
      <4>5. Trying(i)' => Trying(i) /\ worker'.attempts = worker.attempts
        BY <1>1 DEF Trying
      <4>6. QED
        BY <1>2, <2>6, <2>7, <3>2, <4>3, <4>4, <4>5, NacksKept
    <3>5. QED
      BY <3>3, <3>4
  <2>11. QED
    BY <2>6, <2>10 DEF NacksCounted
<1>11. QED
  BY <1>6, <1>7, <1>8, <1>9, <1>10 DEF Request, HandlerStep

\* A fresh row has no failed send.
LEMMA SenderStepNacks ==
  ASSUME TypeOK, TypeOK', Few, Few', Backed, NacksCounted,
         NEW s \in Senders, Reply(s) \/ EnqueuePacket(s)
  PROVE  NacksCounted'
<1>1. UNCHANGED <<worker, handlers, faults, requests>>
  BY DEF Reply, StartReply, EnqueuePacket, counters
<1>2. \A i : Slack(i) \in Nat /\ Slack(i)' = Slack(i)
  <2>1. ASSUME NEW i PROVE Slack(i)' = Slack(i) /\ Spare(i)' = Spare(i)
    BY <1>1 DEF Slack, Spare, Due
  <2>2. ASSUME NEW i PROVE Slack(i) \in Nat
    <3>1. Spare(i) <= Spare(i)' /\ faults <= faults'
      BY <1>1, <2>1, SpareType DEF TypeOK
    <3>2. QED
      BY <3>1, SlackGrows
  <2>3. QED
    BY <2>1, <2>2
<1>3. CASE Reply(s)
  <2>1. rows' = rows /\ Ids' = Ids /\ hist' = hist
    BY <1>3 DEF Reply, StartReply, table, Ids
  <2>2. QED
    BY <1>1, <1>2, <2>1 DEF NacksCounted, NacksOf, Owed, Trying
<1>4. CASE EnqueuePacket(s)
  <2>1. PICK row \in OutboundMessage : rows' = Append(rows, row) /\ row.attempts = 0
    BY <1>4, FreshRow
  <2>2. hist'.nacks = Append(hist.nacks, 0)
    BY <1>4 DEF EnqueuePacket, TypeOK, Hist
  <2>3. /\ rows \in Seq(OutboundMessage) /\ hist.nacks \in Seq(Nat) /\ 0 \in Nat
        /\ Len(hist.nacks) = Len(rows) /\ DOMAIN hist.nacks = Ids
    BY HistIds DEF TypeOK, Hist
  <2>4. PICK n : /\ n = Len(rows) + 1
        /\ Ids' = Ids \cup {n} /\ n \notin Ids
        /\ rows'[n] = row /\ \A i \in Ids : rows'[i] = rows[i]
    BY <2>1, <2>3, AppendKeeps DEF Ids
  <2>5. hist'.nacks[n] = 0 /\ \A i \in Ids : hist'.nacks[i] = hist.nacks[i]
    BY <2>2, <2>3, <2>4, AppendKeeps
  <2>6. ASSUME NEW i \in Ids PROVE NacksOf(i)'
    <3>1. NacksOf(i)
      BY DEF NacksCounted
    <3>2. QED
      BY <1>1, <1>2, <2>4, <2>5, <3>1 DEF NacksOf, Owed, Trying
  <2>7. NacksOf(n)'
    <3>1. ~Trying(n)'
      BY <1>1, <2>4 DEF Trying, Backed, WorkerBacked
    <3>2. QED
      BY <1>2, <2>1, <2>4, <2>5, <3>1 DEF NacksOf
  <2>8. QED
    BY <2>4, <2>6, <2>7 DEF NacksCounted
<1>5. QED
  BY <1>3, <1>4

\* A fault may leave a failed send uncounted.
LEMMA SurroundingsNacks ==
  ASSUME TypeOK, TypeOK', Few, Few', Halted, NacksCounted, Surroundings
  PROVE  NacksCounted'
<1>1. rows' = rows /\ Ids' = Ids /\ requests' = requests
  BY DEF Surroundings, TickRaises, Advance, RadioChanges, CommitElsewhere, Shutdown,
         DrainTimesOut, Exit, Crash, Down, Restart, table, counters, Ids
<1>2. hist'.nacks = hist.nacks
  BY DEF Surroundings, TickRaises, Advance, RadioChanges, CommitElsewhere, Shutdown,
         DrainTimesOut, Exit, Crash, Down, Restart, TypeOK, Hist
<1>3. handlers' = handlers \/ handlers' = [h \in Handlers |-> NoRequest]
  BY DEF Surroundings, TickRaises, Advance, RadioChanges, CommitElsewhere, Shutdown,
         DrainTimesOut, Exit, Crash, Down, Restart, tasks
<1>4. \A i : Due(i)' \subseteq Due(i)
  BY <1>3 DEF Due, NoRequest
<1>5. /\ faults \in Nat /\ faults' \in {faults, faults + 1}
      /\ \/ worker' = worker
         \/ /\ worker'.pc \in {"poll", "off"}
            /\ worker.pc \in {"stopped", "off"} \/ faults' = faults + 1
  <2>1. CASE Advance \/ RadioChanges \/ CommitElsewhere \/ Shutdown
    BY <2>1 DEF Advance, RadioChanges, CommitElsewhere, Shutdown, tasks, counters,
                TypeOK
  <2>2. CASE TickRaises \/ DrainTimesOut \/ Crash
    <3>1. faults' = faults + 1 /\ worker'.pc \in {"poll", "off"}
      BY <2>2 DEF TickRaises, DrainTimesOut, Crash, Down, WorkerAt
    <3>2. QED
      BY <3>1 DEF TypeOK
  <2>3. CASE Exit
    BY <2>3 DEF Exit, Down, WorkerAt, TypeOK
  <2>4. CASE Restart
    BY <2>4 DEF Restart, Halted, WorkerAt, counters, TypeOK
  <2>5. QED
    BY <2>1, <2>2, <2>3, <2>4 DEF Surroundings
<1>6. ASSUME NEW i \in Ids PROVE NacksOf(i)'
  <2>1. Spare(i) <= Spare(i)'
    BY <1>1, <1>4, SpareShrinks
  <2>2. /\ Slack(i) \in Nat /\ Slack(i)' \in Nat
        /\ Slack(i) + (faults' - faults) <= Slack(i)'
    BY <1>5, <2>1, SlackGrows
  <2>3. Slack(i) <= Slack(i)' /\ (faults' = faults + 1 => Slack(i) + 1 <= Slack(i)')
    BY <1>5, <2>2
  <2>4. ~Owed(i) \/ Owed(i)' \/ Slack(i) + 1 <= Slack(i)'
    BY <1>5, <2>3 DEF Owed
  <2>5. Trying(i)' => Trying(i) /\ worker'.attempts = worker.attempts
    BY <1>5 DEF Trying
  <2>6. QED
    BY <1>1, <1>2, <2>2, <2>3, <2>4, <2>5, NacksKept
<1>7. QED
  BY <1>1, <1>6 DEF NacksCounted

\* What is counted at the start, and by every step.
LEMMA CountedInit == Init => Few /\ NacksCounted
<1> SUFFICES ASSUME Init PROVE Few /\ NacksCounted
  OBVIOUS
<1>1. Busy = {} /\ requests = 0
  BY DEF Init, Busy, NoRequest
<1>2. BusyCounted
  BY <1>1, FS_EmptySet DEF BusyCounted
<1>3. TodoSane /\ AttemptsLow /\ NacksCounted
  BY DEF Init, TodoSane, Sane, AttemptsLow, NacksCounted, NoRequest, WorkerAt, Ids
<1>4. QED
  BY <1>2, <1>3 DEF Few

\* Each step keeps the count of unacknowledged sends in its bound.
LEMMA NacksStep ==
  ASSUME TypeOK, TypeOK', Few, Few', Backed, Halted, NacksCounted, [Next]_vars
  PROVE  NacksCounted'
<1>1. CASE UNCHANGED vars
  BY <1>1 DEF vars, NacksCounted, NacksOf, Slack, Spare, Due, Owed, Trying, Ids
<1>2. CASE Next
  BY <1>2, WorkerStepNacks, HandlerStepNacks, SenderStepNacks, SurroundingsNacks
  DEF Next, Surroundings
<1>3. QED
  BY <1>1, <1>2

\* The counts bound the airtime.
LEMMA CountedAirtime == TypeOK /\ Few /\ NacksCounted => AirtimeBounded
<1> SUFFICES ASSUME TypeOK, Few, NacksCounted, NEW i \in Ids
             PROVE  hist.nacks[i] <= MAX_ATTEMPTS + faults + (MAX_ATTEMPTS - 1) * requests
  BY DEF AirtimeBounded
<1> DEFINE k == MAX_ATTEMPTS - 1
<1>1. k \in Nat /\ requests \in Nat /\ faults \in Nat /\ hist.nacks[i] \in Nat
  BY HistIds DEF TypeOK
<1>2. Spare(i) \in Nat /\ Spare(i) <= requests
  <2>1. Due(i) \in SUBSET Busy /\ IsFiniteSet(Busy) /\ Cardinality(Busy) <= requests
    BY DueBusy DEF Few, BusyCounted
  <2>2. Cardinality(Due(i)) \in Nat /\ requests - Cardinality(Due(i)) \in Nat
    BY <1>1, <2>1, Rationed
  <2>3. QED
    BY <1>1, <2>2 DEF Spare
<1>3. hist.nacks[i] <= MAX_ATTEMPTS + (faults + k * Spare(i))
  BY DEF NacksCounted, NacksOf, Slack
<1> HIDE DEF k
<1>4. k * Spare(i) \in Nat /\ k * requests \in Nat /\ k * Spare(i) <= k * requests
  BY <1>1, <1>2, Scaled
<1>5. hist.nacks[i] <= MAX_ATTEMPTS + faults + k * requests
  BY <1>1, <1>3, <1>4
<1>6. QED
  BY <1>5 DEF k

\* The radio spends a bounded number of unacknowledged sends on a message, whatever the
\* interleaving of worker, dashboard requests, crashes and database errors.
THEOREM AirtimeIsBounded == Spec => []AirtimeBounded
<1>1. Init => Few /\ NacksCounted
  BY CountedInit
<1>2. Known /\ Known' /\ Few /\ NacksCounted /\ [Next]_vars => Few' /\ NacksCounted'
  BY FewStep, NacksStep DEF Known
<1>3. Known /\ Few /\ NacksCounted => AirtimeBounded
  BY CountedAirtime DEF Known
<1>4. QED
  BY <1>1, <1>2, <1>3, AlwaysKnown, PTL DEF Spec

-----------------------------------------------------------------------------
(* What a row keeps                                                        *)

\* A row keeps its recipient and its priority, and once settled it stays settled.
RowsStable ==
  \A i \in Ids : /\ i \in Ids'
                 /\ rows'[i].to_pubkey = rows[i].to_pubkey
                 /\ rows'[i].priority = rows[i].priority
                 /\ rows'[i].status = "pending" => rows[i].status = "pending"

\* The updates of the table keep that,
LEMMA StatusStable ==
  ASSUME TypeOK, NEW i \in Ids, NEW st \in {"sent", "failed", "cancelled"}, SetStatus(i, st)
  PROVE  Ids' = Ids /\ RowsStable
<1>1. Ids' = Ids
  BY SetStatusType DEF Status
<1>2. QED
  BY <1>1, RowsFunction DEF RowsStable, SetStatus, OutboundMessage

\* ... and so does a reschedule.
LEMMA RescheduleStable ==
  ASSUME TypeOK, NEW i \in Ids, NEW next \in Nat, NEW att \in Nat, NEW back \in Nat,
         RescheduleOutbound(i, next, att, back)
  PROVE  Ids' = Ids /\ RowsStable
<1>1. Ids' = Ids
  BY RescheduleType
<1>2. QED
  BY <1>1, RowsFunction DEF RowsStable, RescheduleOutbound, OutboundMessage

\* A step that leaves the table alone.
LEMMA TableStable == rows' = rows => Ids' = Ids /\ RowsStable
  BY DEF Ids, RowsStable

\* Every step of the worker.
LEMMA WorkerStable ==
  ASSUME TypeOK, Backed, WorkerStep
  PROVE  Ids' = Ids /\ RowsStable
<1>1. CASE rows' = rows
  BY <1>1, TableStable
<1>2. CASE StartTick
  <2>1. Ids' = Ids
    BY <1>2, DropStaleType DEF StartTick
  <2>2. \A i \in Ids : rows'[i] \in {rows[i], [rows[i] EXCEPT !.status = "dropped"]}
    BY <1>2 DEF StartTick, DropStaleOutbound
  <2>3. QED
    BY <2>1, <2>2, RowTypes DEF RowsStable, OutboundMessage
<1>3. CASE MarkSent \/ MarkFailed
  BY <1>3, StatusStable DEF MarkSent, MarkFailed, Backed, WorkerBacked
<1>4. CASE RescheduleUpdates
  <2>1. worker.id \in Ids
    BY <1>4 DEF RescheduleUpdates, Backed, WorkerBacked
  <2>2. worker.next \in Nat /\ worker.attempts \in Nat /\ worker.back \in Nat
    BY DEF TypeOK, Worker
  <2>3. QED
    BY <1>4, <2>1, <2>2, RescheduleStable DEF RescheduleUpdates
<1>5. QED
  BY <1>1, <1>2, <1>3, <1>4
  DEF WorkerStep, Suspend, WorkerStops, ClaimNext, NothingDue, ReadPause, PauseStands,
      ExpirePause, Decide, PutOff, SendOk, SendUnacked, SendReturns, AuditFailed,
      RescheduleReadsBack, GapOver, table

\* Every step of a request.
LEMMA HandlerStable ==
  ASSUME TypeOK, Backed, NEW h \in Handlers, Request(h) \/ HandlerStep(h)
  PROVE  Ids' = Ids /\ RowsStable
<1>1. CASE rows' = rows
  BY <1>1, TableStable
<1>2. CASE CancelUpdates(h)
  BY <1>2, StatusStable DEF CancelUpdates, Backed, HandlersBacked
<1>3. CASE HandlerUpdates(h)
  <2>1. PICK r \in handlers[h].todo :
          RescheduleOutbound(r.id, r.next, r.attempts, handlers[h].back)
    BY <1>3 DEF HandlerUpdates
  <2>2. r.id \in Ids /\ r \in Reschedule /\ handlers[h].back \in Nat
    BY <2>1 DEF Backed, HandlersBacked, TypeOK, Handler
  <2>3. QED
    BY <2>1, <2>2, RescheduleStable DEF Reschedule
<1>4. QED
  BY <1>1, <1>2, <1>3
  DEF Request, Cancel, MoveToBack, PauseRecipient, HandlerStep, PauseWrites,
      PauseReadsRows, HandlerReadsBack, HandlerCommits, ViewQueue, ViewFindsPause,
      ViewExpiresPause, table

\* Every step but that of a sender leaves the ids alone.
LEMMA OthersStable == TypeOK /\ Surroundings => Ids' = Ids /\ RowsStable
  BY TableStable
  DEF Surroundings, TickRaises, Advance, RadioChanges, CommitElsewhere, Shutdown,
      DrainTimesOut, Exit, Crash, Down, Restart, table

\* A sender adds a row.
LEMMA SenderStable ==
  ASSUME TypeOK, Backed, NEW s \in Senders, Reply(s) \/ EnqueuePacket(s)
  PROVE  RowsStable
<1>1. CASE Reply(s)
  BY <1>1, TableStable DEF Reply, StartReply, table
<1>2. CASE EnqueuePacket(s)
  <2>1. PICK row \in OutboundMessage : rows' = Append(rows, row)
    BY <1>2, FreshRow
  <2>2. Ids \subseteq Ids' /\ \A i \in Ids : rows'[i] = rows[i]
    BY <2>1, AppendKeeps DEF TypeOK, Ids
  <2>3. QED
    BY <2>2 DEF RowsStable
<1>3. QED
  BY <1>1, <1>2

\* Every step.
LEMMA StableStep == TypeOK /\ Backed /\ Next => RowsStable
  BY WorkerStable, HandlerStable, OthersStable, SenderStable DEF Next, Surroundings

-----------------------------------------------------------------------------
(* The pace of the sends                                                   *)

\* The worker that may start a send before it sleeps again: it slept through the gap
\* after the last one, or a tick raised before it could.
MayStart ==
  \/ worker.pc \in {"poll", "claim", "pause", "judge", "decide"}
  \/ worker.pc \in {"back", "update"} /\ ~worker.sent

Rested == hist.raised \/ lastSendAt = 0 \/ now >= lastSendAt + MinInterval

\* What the worker remembers is what happened, as long as the process lives.
Paced ==
  /\ \A pk \in Pubkeys : hist.doneAt[pk] = lastSendTo[pk] /\ hist.doneAt[pk] <= lastSendAt
  /\ lastSendAt <= now
  /\ worker.pc \in {"mark", "fail", "audit"} => worker.sent
  /\ MayStart => Rested
  /\ proc = "down" => lastSendAt = 0

\* A step that forgets and records no send.
LEMMA PacedKept ==
  ASSUME TypeOK, TypeOK', Paced, UNCHANGED <<memory, now>>,
         hist'.doneAt = hist.doneAt, hist.raised => hist'.raised,
         worker'.pc \in {"mark", "fail", "audit"} => worker'.sent,
         MayStart' => MayStart \/ now >= lastSendAt + MinInterval \/ hist'.raised
                        \/ lastSendAt = 0,
         proc' = "down" => proc = "down"
  PROVE  Paced'
  BY DEF Paced, Rested, memory

\* Every step of the worker.
LEMMA WorkerStepPaced ==
  ASSUME TypeOK, TypeOK', Backed, Halted, Paced, WorkerStep
  PROVE  Paced'
<1>1. proc' = proc /\ now' = now
  BY DEF WorkerStep, Suspend, WorkerStops, StartTick, ClaimNext, NothingDue, ReadPause,
         PauseStands, ExpirePause, Decide, PutOff, SendOk, SendUnacked, SendReturns,
         MarkSent, MarkFailed, AuditFailed, RescheduleReadsBack, RescheduleUpdates,
         GapOver
<1>2. CASE WorkerStops \/ StartTick \/ NothingDue \/ GapOver
  <2>1. /\ UNCHANGED <<memory, hist>> /\ worker'.pc \in {"stopped", "claim", "poll"}
        /\ worker.pc \in {"poll", "claim"} \/ now >= lastSendAt + MinInterval
    BY <1>2 DEF WorkerStops, StartTick, NothingDue, GapOver, Suspend, WorkerAt
  <2>2. QED
    BY <1>1, <2>1, PacedKept DEF MayStart
<1>3. CASE \/ ClaimNext \/ ReadPause \/ PauseStands \/ ExpirePause \/ Decide
           \/ RescheduleReadsBack
  <2>1. /\ memory' = memory /\ hist'.doneAt = hist.doneAt /\ hist'.raised = hist.raised
        /\ worker'.pc \in {"pause", "judge", "decide", "back", "sending", "update"}
        /\ worker'.sent = worker.sent
        /\ worker.pc \in {"claim", "pause", "judge", "decide", "back"}
        /\ worker.pc = "back" => worker'.pc = "update"
    <3>1. CASE ReadPause \/ PauseStands \/ ExpirePause
      BY <3>1 DEF ReadPause, PauseStands, ExpirePause, Suspend, TypeOK, Worker, Hist
    <3>2. CASE Decide
      BY <3>2 DEF Decide, PutOff, Suspend, TypeOK, Worker
    <3>3. CASE ClaimNext \/ RescheduleReadsBack
      BY <3>3 DEF ClaimNext, RescheduleReadsBack, Suspend, TypeOK, Worker
    <3>4. QED
      BY <1>3, <3>1, <3>2, <3>3
  <2>2. QED
    BY <1>1, <2>1, PacedKept DEF MayStart
<1>4. CASE SendOk \/ SendUnacked
  <2>1. /\ worker.pc = "sending" /\ worker.id \in Ids
        /\ worker'.pc \in {"mark", "fail", "back"} /\ worker'.sent
    BY <1>4 DEF SendOk, SendUnacked, TypeOK, Worker, Backed, WorkerBacked
  <2>2. PICK pk \in Pubkeys : pk = Recipient
    BY <2>1, RecipientType
  <2>3. /\ lastSendAt' = now /\ lastSendTo' = [lastSendTo EXCEPT ![pk] = now]
        /\ hist'.doneAt = [hist.doneAt EXCEPT ![pk] = now]
    <3>1. PICK count \in {[hist EXCEPT !.acks[worker.id] = @ + 1],
                          [hist EXCEPT !.nacks[worker.id] = @ + 1]} : SendReturns(count)
      BY <1>4 DEF SendOk, SendUnacked
    <3>2. count.doneAt = hist.doneAt
      BY <3>1 DEF TypeOK, Hist
    <3>3. hist'.doneAt = [count.doneAt EXCEPT ![pk] = now]
      <4>1. /\ hist' = [count EXCEPT !.doneAt[pk] = now, !.raised = FALSE]
            /\ DOMAIN count = DOMAIN hist
        BY <2>2, <3>1 DEF SendReturns
      <4>2. "doneAt" \in DOMAIN count /\ "raised" \in DOMAIN count
        BY <4>1 DEF TypeOK, Hist
      <4>3. QED
        BY <4>1, <4>2
    <3>4. QED
      BY <2>2, <3>1, <3>2, <3>3 DEF SendReturns
  <2>4. \A q \in Pubkeys : hist.doneAt[q] = lastSendTo[q] /\ hist.doneAt[q] \in Nat
    BY DEF Paced, TypeOK, Hist
  <2>5. \A q \in Pubkeys : hist'.doneAt[q] = lastSendTo'[q] /\ hist'.doneAt[q] <= lastSendAt'
    <3>1. \A q \in Pubkeys : hist.doneAt[q] <= now
      <4>1. lastSendAt <= now /\ \A q \in Pubkeys : hist.doneAt[q] <= lastSendAt
        BY DEF Paced
      <4>2. now \in Nat /\ lastSendAt \in Nat
        BY DEF TypeOK
      <4>3. QED
        BY <2>4, <4>1, <4>2
    <3>2. lastSendTo \in [Pubkeys -> Nat] /\ hist.doneAt \in [Pubkeys -> Nat] /\ now \in Nat
      BY DEF TypeOK, Hist
    <3>3. QED
      BY <2>3, <2>4, <3>1, <3>2
  <2>6. proc' = "down" => lastSendAt' = 0
    BY <1>1, <2>1 DEF Halted
  <2>7. QED
    BY <1>1, <2>1, <2>3, <2>5, <2>6 DEF Paced, MayStart, TypeOK
<1>5. CASE MarkSent \/ AuditFailed \/ MarkFailed
  <2>1. /\ UNCHANGED <<memory, hist>> /\ worker'.pc \in {"gap", "audit"}
        /\ worker'.pc = "audit" => worker'.sent
    BY <1>5 DEF MarkSent, AuditFailed, MarkFailed, Suspend, WorkerAt
  <2>2. QED
    BY <1>1, <2>1, PacedKept DEF MayStart
<1>6. CASE RescheduleUpdates
  <2>1. /\ UNCHANGED <<memory, hist>> /\ worker.pc = "update"
        /\ worker'.pc = IF worker.sent THEN "gap" ELSE "poll"
    BY <1>6 DEF RescheduleUpdates, WorkerAt
  <2>2. QED
    BY <1>1, <2>1, PacedKept DEF MayStart
<1>7. QED
  BY <1>2, <1>3, <1>4, <1>5, <1>6 DEF WorkerStep

\* Requests and replies have nothing to do with it.
LEMMA OthersPaced ==
  ASSUME TypeOK, TypeOK', Paced,
         \/ \E h \in Handlers : Request(h) \/ HandlerStep(h)
         \/ \E s \in Senders : Reply(s) \/ EnqueuePacket(s)
  PROVE  Paced'
<1>1. UNCHANGED <<worker, memory, proc, now>>
  BY DEF Request, HandlerStep, Cancel, MoveToBack, PauseRecipient, CancelUpdates,
         PauseWrites, PauseReadsRows, HandlerReadsBack, HandlerUpdates, HandlerCommits,
         ViewQueue, ViewFindsPause, ViewExpiresPause, Reply, StartReply, EnqueuePacket
<1>2. hist'.doneAt = hist.doneAt /\ hist'.raised = hist.raised
  <2>1. CASE hist' = hist
    BY <2>1
  <2>2. CASE \E h \in Handlers : PauseWrites(h) \/ HandlerCommits(h)
    BY <2>2 DEF PauseWrites, HandlerCommits, TypeOK, Hist
  <2>3. CASE \E s \in Senders : EnqueuePacket(s)
    BY <2>3 DEF EnqueuePacket, TypeOK, Hist
  <2>4. QED
    BY <2>1, <2>2, <2>3
    DEF Request, HandlerStep, Cancel, MoveToBack, PauseRecipient, CancelUpdates,
        PauseReadsRows, HandlerReadsBack, HandlerUpdates, ViewQueue, ViewFindsPause,
        ViewExpiresPause, Reply, StartReply
<1>3. QED
  BY <1>1, <1>2, PacedKept DEF Paced, MayStart

\* A tick that raises after its send says so; a new process has sent nothing.
LEMMA SurroundingsPaced ==
  ASSUME TypeOK, TypeOK', Paced, Surroundings
  PROVE  Paced'
<1>1. CASE TickRaises
  <2>1. /\ UNCHANGED <<memory, now, proc>> /\ worker'.pc = "poll"
        /\ worker.pc \in {"claim", "pause", "judge", "mark", "fail", "audit", "back",
                          "update"}
        /\ hist'.doneAt = hist.doneAt /\ hist'.raised = (hist.raised \/ worker.sent)
    BY <1>1 DEF TickRaises, WorkerAt, TypeOK, Hist
  <2>2. MayStart \/ hist'.raised
    BY <2>1 DEF MayStart, Paced
  <2>3. QED
    BY <2>1, <2>2, PacedKept
<1>2. CASE Advance
  <2>1. /\ UNCHANGED <<memory, worker, hist, proc>> /\ now' = now + 1
    BY <1>2 DEF Advance, tasks
  <2>2. now \in Nat /\ lastSendAt \in Nat
    BY DEF TypeOK
  <2>3. QED
    BY <2>1, <2>2 DEF Paced, MayStart, Rested, memory
<1>3. CASE RadioChanges \/ CommitElsewhere \/ Shutdown
  <2>1. UNCHANGED <<memory, now, worker, hist>> /\ (proc' = "down" => proc = "down")
    BY <1>3 DEF RadioChanges, CommitElsewhere, Shutdown, tasks
  <2>2. QED
    BY <2>1, PacedKept DEF Paced, MayStart
<1>4. CASE DrainTimesOut
  <2>1. UNCHANGED <<memory, now, hist, proc>> /\ worker'.pc = "off"
    BY <1>4 DEF DrainTimesOut, WorkerAt
  <2>2. QED
    BY <2>1, PacedKept DEF MayStart
<1>5. CASE Exit \/ Crash
  <2>1. /\ lastSendAt' = 0 /\ lastSendTo' = [pk \in Pubkeys |-> 0] /\ now' = now
        /\ worker'.pc = "off"
    BY <1>5 DEF Exit, Crash, Down, WorkerAt
  <2>2. hist'.doneAt = [pk \in Pubkeys |-> 0]
    BY <1>5 DEF Exit, Crash, Down, TypeOK, Hist
  <2>3. QED
    BY <2>1, <2>2 DEF Paced, MayStart, TypeOK
<1>6. CASE Restart
  <2>1. UNCHANGED <<memory, now, hist>> /\ worker'.pc = "poll" /\ proc' = "up"
          /\ lastSendAt = 0
    BY <1>6 DEF Restart, WorkerAt, Paced
  <2>2. QED
    BY <2>1, PacedKept
<1>7. QED
  BY <1>1, <1>2, <1>3, <1>4, <1>5, <1>6 DEF Surroundings

\* From the start, by every step.
LEMMA PacedInit == Init => Paced
  BY DEF Init, Paced, Rested, WorkerAt

\* Each step keeps what the worker remembers of its sends true.
LEMMA PacedStep ==
  ASSUME TypeOK, TypeOK', Backed, Halted, Paced, [Next]_vars
  PROVE  Paced'
<1>1. CASE UNCHANGED vars
  BY <1>1 DEF vars, Paced, MayStart, Rested
<1>2. CASE Next
  BY <1>2, WorkerStepPaced, OthersPaced, SurroundingsPaced DEF Next, Surroundings
<1>3. QED
  BY <1>1, <1>2

\* Only a decision starts a send, and what it has read says whom to.
LEMMA StartDecides ==
  ASSUME TypeOK, Backed, Next, NEW pk, StartsSendTo(pk)
  PROVE  /\ worker.pc = "decide" /\ ~IsPaused /\ ~IsThrottled
         /\ worker.id \in Ids /\ pk = Recipient /\ pk \in Pubkeys
<1>1. worker.pc # "sending" /\ worker'.pc = "sending" /\ pk = rows[worker'.id].to_pubkey
  BY DEF StartsSendTo
<1>2. CASE WorkerStep
  <2>1. Decide
    <3>1. CASE \/ WorkerStops \/ StartTick \/ NothingDue \/ MarkSent \/ MarkFailed
               \/ AuditFailed \/ RescheduleUpdates \/ GapOver
      BY <1>1, <3>1 DEF WorkerStops, StartTick, NothingDue, MarkSent, MarkFailed,
         AuditFailed, RescheduleUpdates, GapOver, Suspend, WorkerAt
    <3>2. CASE ClaimNext \/ ReadPause \/ PauseStands \/ ExpirePause \/ RescheduleReadsBack
      BY <1>1, <3>2 DEF ClaimNext, ReadPause, PauseStands, ExpirePause,
                        RescheduleReadsBack, Suspend, TypeOK, Worker
    <3>3. CASE SendOk \/ SendUnacked
      BY <1>1, <3>3 DEF SendOk, SendUnacked
    <3>4. QED
      BY <1>2, <3>1, <3>2, <3>3 DEF WorkerStep
  <2>2. worker.pc = "decide" /\ ~IsPaused /\ ~IsThrottled /\ worker'.id = worker.id
    BY <1>1, <2>1 DEF Decide, PutOff, Suspend, TypeOK, Worker
  <2>3. worker.id \in Ids
    BY <2>2 DEF Backed, WorkerBacked
  <2>4. QED
    BY <1>1, <2>2, <2>3, RecipientType DEF Recipient
<1>3. CASE Surroundings
  BY <1>1, <1>3 DEF Surroundings, TickRaises, Advance, RadioChanges, CommitElsewhere,
                    Shutdown, DrainTimesOut, Exit, Crash, Down, Restart, WorkerAt, tasks
<1>4. CASE \E s \in Senders : Reply(s) \/ EnqueuePacket(s)
  BY <1>1, <1>4 DEF Reply, StartReply, EnqueuePacket
<1>5. CASE \E h \in Handlers : Request(h) \/ HandlerStep(h)
  BY <1>1, <1>5 DEF Request, HandlerStep, Cancel, MoveToBack, PauseRecipient,
                    CancelUpdates, PauseWrites, PauseReadsRows, HandlerReadsBack,
                    HandlerUpdates, HandlerCommits, ViewQueue, ViewFindsPause,
                    ViewExpiresPause
<1>6. QED
  BY <1>2, <1>3, <1>4, <1>5 DEF Next, Surroundings

\* The worker leaves the configured gaps between two sends of one process, to one
\* recipient and, unless a tick raised after its send, to any.
THEOREM PaceIsKept == Spec => Pacing
<1> DEFINE paced == \A pk \in Pubkeys : StartsSendTo(pk) =>
       /\ Elapsed(pk, RecipientInterval)
       /\ hist.raised \/ \A other \in Pubkeys : Elapsed(other, MinInterval)
<1>1. Init => Paced
  BY PacedInit
<1>2. Known /\ Known' /\ Paced /\ [Next]_vars => Paced'
  BY PacedStep DEF Known
<1>3. Known /\ Paced /\ [Next]_vars => [paced]_vars
  <2>1. SUFFICES ASSUME Known, Paced, Next, NEW pk \in Pubkeys, StartsSendTo(pk)
                 PROVE  /\ Elapsed(pk, RecipientInterval)
                        /\ hist.raised \/ \A other \in Pubkeys : Elapsed(other, MinInterval)
    OBVIOUS
  <2>2. worker.pc = "decide" /\ ~IsThrottled /\ pk = Recipient
    BY <2>1, StartDecides DEF Known
  <2>3. \A q \in Pubkeys : /\ hist.doneAt[q] = lastSendTo[q] /\ hist.doneAt[q] <= lastSendAt
                           /\ hist.doneAt[q] \in Nat
    BY <2>1 DEF Paced, Known, TypeOK, Hist
  <2>4. now \in Nat /\ lastSendAt \in Nat
    BY <2>1 DEF Known, TypeOK
  <2>5. Elapsed(pk, RecipientInterval)
    BY <2>2, <2>3, <2>4 DEF Elapsed, IsThrottled
  <2>6. Rested
    BY <2>1, <2>2 DEF Paced, MayStart
  <2>7. QED
    BY <2>3, <2>4, <2>5, <2>6 DEF Rested, Elapsed
<1>4. QED
  <2>1. Spec => [][paced]_vars
    BY <1>1, <1>2, <1>3, AlwaysKnown, PTL DEF Spec
  <2>2. QED
    BY <2>1 DEF Pacing

-----------------------------------------------------------------------------
(* The pauses an operator asks for                                         *)

\* What a task that has read the pause of pk holds: what the table still says, or a
\* pause that was over and is gone, unless it was renewed meanwhile.
Agrees(pk, v) == pk \in hist.raced \/ pause[pk] = v \/ (pause[pk] = 0 /\ v <= now)

\* A pause that lasts is in the table, and committed once the operator is answered.
PauseKept(pk) ==
  /\ hist.granted[pk] <= hist.until[pk]
  /\ hist.until[pk] <= now + OUTBOUND_PAUSE_SECONDS
  /\ pk \in hist.raced => hist.granted[pk] = 0
  /\ hist.until[pk] > now => pk \in hist.raced \/ pause[pk] >= hist.until[pk]
  /\ hist.granted[pk] > now => saved[pk] >= hist.granted[pk]

\* Those that may delete it know what they delete.
PauseRead ==
  /\ worker.pc = "judge" => Agrees(Recipient, worker.paused)
  /\ \A h \in Handlers : handlers[h].pc = "judge" =>
       Agrees(rows[handlers[h].id].to_pubkey, handlers[h].until)

\* The worker about to decide has read it, unless it was asked for after.
PauseKnown ==
  /\ worker.tick <= now
  /\ worker.pc = "decide" /\ hist.until[Recipient] > now =>
       Recipient \in hist.recent \cup hist.raced \/ worker.paused >= hist.until[Recipient]

PauseSeen == (\A pk \in Pubkeys : PauseKept(pk)) /\ PauseRead /\ PauseKnown

\* The types these facts compare.
LEMMA PauseTypes ==
  ASSUME TypeOK
  PROVE  /\ now \in Nat /\ worker.tick \in Nat /\ worker.paused \in Nat
         /\ \A pk \in Pubkeys : /\ pause[pk] \in Nat /\ saved[pk] \in Nat
                                /\ hist.until[pk] \in Nat /\ hist.granted[pk] \in Nat
         /\ \A h \in Handlers : handlers[h].until \in Nat
  BY DEF TypeOK, Worker, Hist, Handler

\* What deletes no pause but one that is over, or that was raced.
Spares ==
  \A pk \in Pubkeys :
    \/ pause'[pk] = pause[pk]
    \/ pause'[pk] = 0 /\ (pk \in hist.raced \/ pause[pk] <= now)

\* What leaves the record of pauses as it is, ...
Unwritten ==
  /\ hist'.until = hist.until /\ hist'.granted = hist.granted /\ hist'.raced = hist.raced

\* ... may commit: it keeps the pauses,
LEMMA PausesKept ==
  ASSUME TypeOK, TypeOK', PauseSeen, Spares, Unwritten, now <= now',
         saved' \in {saved, pause'}
  PROVE  \A pk \in Pubkeys : PauseKept(pk)'
<1> SUFFICES ASSUME NEW pk \in Pubkeys PROVE PauseKept(pk)'
  OBVIOUS
<1>1. PauseKept(pk) /\ (pause'[pk] = pause[pk]
                          \/ (pause'[pk] = 0 /\ (pk \in hist.raced \/ pause[pk] <= now)))
  BY DEF PauseSeen, Spares
<1>2. /\ now \in Nat /\ now' \in Nat /\ pause[pk] \in Nat /\ saved[pk] \in Nat
      /\ hist.until[pk] \in Nat /\ hist.granted[pk] \in Nat /\ pause'[pk] \in Nat
  BY PauseTypes DEF TypeOK
<1>3. /\ hist'.until[pk] = hist.until[pk] /\ hist'.granted[pk] = hist.granted[pk]
      /\ hist'.raced = hist.raced
  BY DEF Unwritten
<1>4. hist.until[pk] > now' => pk \in hist.raced \/ pause'[pk] >= hist.until[pk]
  BY <1>1, <1>2 DEF PauseKept
<1>5. hist.granted[pk] > now' => saved'[pk] >= hist.granted[pk]
  BY <1>1, <1>2, <1>4 DEF PauseKept
<1>6. QED
  BY <1>1, <1>2, <1>3, <1>4, <1>5 DEF PauseKept

\* ... and what those hold that read them before, or just now.
LEMMA ReadsKept ==
  ASSUME TypeOK, TypeOK', Backed, PauseSeen, RowsStable, Spares, Unwritten, now <= now',
         worker'.pc = "judge" =>
           worker' = worker \/ (worker'.id \in Ids /\ worker'.paused = pause'[Recipient']),
         \A h \in Handlers : handlers'[h].pc = "judge" =>
           \/ handlers'[h] = handlers[h]
           \/ handlers'[h].until = pause'[rows'[handlers'[h].id].to_pubkey]
  PROVE  PauseRead'
<1>1. ASSUME NEW pk \in Pubkeys, NEW v \in Nat, Agrees(pk, v)
      PROVE  pk \in hist'.raced \/ pause'[pk] = v \/ (pause'[pk] = 0 /\ v <= now')
  <2>1. now \in Nat /\ now' \in Nat /\ pause[pk] \in Nat
    BY PauseTypes DEF TypeOK
  <2>2. pause'[pk] = pause[pk]
          \/ (pause'[pk] = 0 /\ (pk \in hist.raced \/ pause[pk] <= now))
    BY DEF Spares
  <2>3. QED
    BY <1>1, <2>1, <2>2 DEF Agrees, Unwritten
<1>2. ASSUME worker'.pc = "judge"
      PROVE  \/ Recipient' \in hist'.raced \/ pause'[Recipient'] = worker'.paused
             \/ pause'[Recipient'] = 0 /\ worker'.paused <= now'
  <2>1. CASE worker' = worker
    <3>1. worker.id \in Ids /\ Agrees(Recipient, worker.paused)
      BY <1>2, <2>1 DEF Backed, WorkerBacked, PauseSeen, PauseRead
    <3>2. Recipient' = Recipient /\ Recipient \in Pubkeys /\ worker.paused \in Nat
      BY <2>1, <3>1, RecipientType, PauseTypes DEF RowsStable, Recipient
    <3>3. QED
      BY <1>1, <2>1, <3>1, <3>2
  <2>2. QED
    BY <1>2, <2>1
<1>3. ASSUME NEW h \in Handlers, handlers'[h].pc = "judge",
             NEW pk, pk = rows'[handlers'[h].id].to_pubkey
      PROVE  \/ pk \in hist'.raced \/ pause'[pk] = handlers'[h].until
             \/ pause'[pk] = 0 /\ handlers'[h].until <= now'
  <2>1. CASE handlers'[h] = handlers[h]
    <3>1. /\ handlers[h].id \in Ids
          /\ Agrees(rows[handlers[h].id].to_pubkey, handlers[h].until)
      BY <1>3, <2>1 DEF Backed, HandlersBacked, PauseSeen, PauseRead
    <3>2. /\ pk = rows[handlers[h].id].to_pubkey /\ pk \in Pubkeys
          /\ handlers[h].until \in Nat
      BY <1>3, <2>1, <3>1, RowTypes, PauseTypes DEF RowsStable, OutboundMessage
    <3>3. QED
      BY <1>1, <2>1, <3>1, <3>2
  <2>2. QED
    BY <1>3, <2>1
<1>4. QED
  BY <1>2, <1>3 DEF PauseRead, Agrees

\* What takes the worker to no decision keeps what it has read.
LEMMA KnownKept ==
  ASSUME TypeOK, TypeOK', Backed, PauseSeen, RowsStable, Unwritten, now <= now',
         hist'.recent = hist.recent, worker'.tick \in {0, now, worker.tick},
         worker'.pc = "decide" => worker' = worker
  PROVE  PauseKnown'
<1>1. now \in Nat /\ now' \in Nat /\ worker.tick \in Nat
      /\ \A pk \in Pubkeys : hist.until[pk] \in Nat
  BY PauseTypes DEF TypeOK
<1>2. worker'.tick <= now'
  BY <1>1 DEF PauseSeen, PauseKnown
<1>3. CASE worker'.pc = "decide"
  <2>1. worker' = worker /\ worker.id \in Ids
    BY <1>3 DEF Backed, WorkerBacked
  <2>2. Recipient' = Recipient /\ Recipient \in Pubkeys
    BY <2>1, RecipientType DEF RowsStable, Recipient
  <2>3. QED
    BY <1>1, <1>2, <1>3, <2>1, <2>2 DEF PauseSeen, PauseKnown, Unwritten
<1>4. QED
  BY <1>2, <1>3 DEF PauseKnown

\* Every step of the worker: ReadPause reads, ExpirePause deletes.
LEMMA WorkerStepPauses ==
  ASSUME TypeOK, TypeOK', Backed, PauseSeen, WorkerStep
  PROVE  PauseSeen'
<1>1. now' = now /\ now \in Nat /\ now <= now'
  <2>1. now' = now
    BY DEF WorkerStep, Suspend, WorkerStops, StartTick, ClaimNext, NothingDue, ReadPause,
           PauseStands, ExpirePause, Decide, PutOff, SendOk, SendUnacked, SendReturns,
           MarkSent, MarkFailed, AuditFailed, RescheduleReadsBack, RescheduleUpdates,
           GapOver
  <2>2. QED
    BY <2>1, PauseTypes
<1>2. RowsStable
  BY WorkerStable
<1>3. handlers' = handlers /\ Unwritten /\ saved' \in {saved, pause'}
  <2>1. handlers' = handlers /\ saved' \in {saved, pause'}
    BY DEF WorkerStep, Suspend, WorkerStops, StartTick, ClaimNext, NothingDue, ReadPause,
           PauseStands, ExpirePause, Decide, PutOff, SendOk, SendUnacked, SendReturns,
           MarkSent, MarkFailed, AuditFailed, RescheduleReadsBack, RescheduleUpdates,
           GapOver, table, Commits
  <2>2. CASE SendOk \/ SendUnacked \/ ReadPause
    <3>1. CASE ReadPause
      BY <2>1, <3>1 DEF ReadPause, Unwritten, TypeOK, Hist
    <3>2. CASE SendOk
      BY <2>1, <3>2 DEF SendOk, SendReturns, Unwritten, TypeOK, Hist
    <3>3. CASE SendUnacked
      BY <2>1, <3>3 DEF SendUnacked, SendReturns, Unwritten, TypeOK, Hist
    <3>4. QED
      BY <2>1, <2>2, <3>1, <3>2, <3>3
  <2>3. CASE hist' = hist
    BY <2>1, <2>3 DEF Unwritten
  <2>4. QED
    BY <2>1, <2>2, <2>3
    DEF WorkerStep, Suspend, WorkerStops, StartTick, ClaimNext, NothingDue, PauseStands,
        ExpirePause, Decide, PutOff, MarkSent, MarkFailed, AuditFailed,
        RescheduleReadsBack, RescheduleUpdates, GapOver
<1>4. CASE ReadPause
  <2>1. PICK pk \in Pubkeys : pk = Recipient
    BY <1>4, RecipientType DEF ReadPause, Backed, WorkerBacked
  <2>2. /\ worker'.pc = (IF pause[pk] = 0 THEN "decide" ELSE "judge")
        /\ worker'.paused = pause[pk]
        /\ worker'.tick = worker.tick /\ worker'.id = worker.id /\ rows' = rows
        /\ pause' = pause /\ worker.id \in Ids
    BY <1>4, <2>1 DEF ReadPause, table, TypeOK, Worker, Backed, WorkerBacked
  <2>3. Recipient' = pk
    BY <2>1, <2>2 DEF Recipient
  <2>4. (\A q \in Pubkeys : PauseKept(q)') /\ PauseRead'
    BY <1>1, <1>2, <1>3, <2>2, <2>3, PausesKept, ReadsKept DEF Spares
  <2>5. /\ pause[pk] \in Nat /\ hist.until[pk] \in Nat /\ worker.tick <= now
        /\ hist.until[pk] > now => pk \in hist.raced \/ pause[pk] >= hist.until[pk]
        /\ hist'.until[pk] = hist.until[pk] /\ hist'.raced = hist.raced
    BY <1>3, PauseTypes DEF PauseSeen, PauseKept, PauseKnown, Unwritten
  <2>6. PauseKnown'
    BY <1>1, <2>2, <2>3, <2>5 DEF PauseKnown
  <2>7. QED
    BY <2>4, <2>6 DEF PauseSeen
<1>5. CASE PauseStands \/ ExpirePause
  <2>1. PICK pk \in Pubkeys : pk = Recipient
    BY <1>5, RecipientType DEF PauseStands, ExpirePause, Backed, WorkerBacked
  <2>2. /\ worker.pc = "judge" /\ worker'.pc = "decide" /\ worker'.tick = worker.tick
        /\ worker'.id = worker.id /\ rows' = rows
    BY <1>5 DEF PauseStands, ExpirePause, Suspend, table, TypeOK, Worker
  <2>3. Recipient' = pk
    BY <2>1, <2>2 DEF Recipient
  <2>4. /\ Agrees(pk, worker.paused) /\ worker.paused \in Nat /\ worker.tick <= now
        /\ pause \in [Pubkeys -> Nat] /\ pause[pk] \in Nat /\ hist.until[pk] \in Nat
        /\ hist.until[pk] > now => pk \in hist.raced \/ pause[pk] >= hist.until[pk]
    BY <2>1, <2>2, PauseTypes DEF PauseSeen, PauseRead, PauseKept, PauseKnown, TypeOK
  <2>5. Spares /\ (hist.until[pk] > now =>
                     pk \in hist.raced \/ worker'.paused >= hist.until[pk])
    <3>1. CASE PauseStands
      <4>1. pause' = pause /\ worker'.paused = worker.paused /\ ~(worker.paused <= now)
        BY <3>1 DEF PauseStands, PauseIsOver, Suspend, table, TypeOK, Worker
      <4>2. QED
        BY <1>1, <2>4, <4>1 DEF Agrees, Spares
    <3>2. CASE ExpirePause
      <4>1. pause' = [pause EXCEPT ![pk] = 0] /\ worker.paused <= now
        BY <2>1, <3>2 DEF ExpirePause, PauseIsOver, DeletePause
      <4>2. pk \in hist.raced \/ pause[pk] <= now
        BY <1>1, <2>4, <4>1 DEF Agrees
      <4>3. QED
        BY <1>1, <2>4, <4>1, <4>2 DEF Spares
    <3>3. QED
      BY <1>5, <3>1, <3>2
  <2>6. (\A q \in Pubkeys : PauseKept(q)') /\ PauseRead'
    BY <1>1, <1>2, <1>3, <2>2, <2>5, PausesKept, ReadsKept
  <2>7. PauseKnown'
    BY <1>1, <1>3, <2>2, <2>3, <2>4, <2>5 DEF PauseKnown, Unwritten
  <2>8. QED
    BY <2>6, <2>7 DEF PauseSeen
<1>6. CASE ~(ReadPause \/ PauseStands \/ ExpirePause)
  <2>1. pause' = pause /\ worker'.pc \notin {"judge", "decide"}
        /\ worker'.tick \in {0, now, worker.tick} /\ hist'.recent = hist.recent
    <3>1. CASE WorkerStops \/ StartTick \/ NothingDue \/ AuditFailed \/ GapOver
      BY <3>1 DEF WorkerStops, StartTick, NothingDue, AuditFailed, GapOver, Suspend, table,
                  WorkerAt
    <3>2. CASE MarkSent \/ MarkFailed \/ RescheduleUpdates
      BY <3>2 DEF MarkSent, MarkFailed, RescheduleUpdates, WorkerAt
    <3>3. CASE ClaimNext \/ Decide \/ RescheduleReadsBack
      BY <3>3 DEF ClaimNext, Decide, PutOff, RescheduleReadsBack, Suspend, table, TypeOK,
                  Worker
    <3>4. CASE SendOk \/ SendUnacked
      <4>1. hist'.recent = hist.recent
        BY <3>4 DEF SendOk, SendUnacked, SendReturns, TypeOK, Hist
      <4>2. CASE SendOk
        BY <4>1, <4>2 DEF SendOk, SendReturns, table, TypeOK, Worker
      <4>3. CASE SendUnacked
        BY <4>1, <4>3 DEF SendUnacked, SendReturns, table, TypeOK, Worker
      <4>4. QED
        BY <3>4, <4>2, <4>3
    <3>5. QED
      BY <1>6, <3>1, <3>2, <3>3, <3>4 DEF WorkerStep
  <2>2. Spares
    BY <2>1 DEF Spares
  <2>3. QED
    BY <1>1, <1>2, <1>3, <2>1, <2>2, PausesKept, ReadsKept, KnownKept DEF PauseSeen
<1>7. QED
  BY <1>4, <1>5, <1>6

\* PauseWrites writes a pause, which races the reader of the one before it.
LEMMA PauseWritesPauses ==
  ASSUME TypeOK, TypeOK', Backed, PauseSeen, NEW h \in Handlers, PauseWrites(h)
  PROVE  PauseSeen'
<1>1. PICK pk \in Pubkeys : pk = rows[handlers[h].id].to_pubkey
  BY RowTypes DEF PauseWrites, Backed, HandlersBacked, OutboundMessage
<1>2. PICK until \in Nat : until = now + OUTBOUND_PAUSE_SECONDS
  BY DEF TypeOK
<1>3. /\ pause' = [pause EXCEPT ![pk] = until] /\ saved' = saved
      /\ hist'.until = [hist.until EXCEPT ![pk] = until]
      /\ hist'.recent = hist.recent \cup {pk}
      /\ IF IsJudged(pk)
           THEN /\ hist'.raced = hist.raced \cup {pk}
                /\ hist'.granted = [hist.granted EXCEPT ![pk] = 0]
           ELSE hist'.raced = hist.raced \ {pk} /\ hist'.granted = hist.granted
      /\ worker' = worker /\ rows' = rows /\ now' = now
  <2>1. /\ pause' = [pause EXCEPT ![pk] = until] /\ saved' = saved
        /\ worker' = worker /\ rows' = rows /\ now' = now
    BY <1>1, <1>2 DEF PauseWrites
  <2>2. hist' = [hist EXCEPT
           !.until[pk] = until, !.recent = @ \cup {pk},
           !.raced = IF IsJudged(pk) THEN @ \cup {pk} ELSE @ \ {pk},
           !.granted[pk] = IF IsJudged(pk) THEN 0 ELSE @]
    BY <1>1, <1>2 DEF PauseWrites
  <2>3. hist \in Hist /\ hist.granted \in [Pubkeys -> Nat]
    BY DEF TypeOK, Hist
  <2>4. CASE IsJudged(pk)
    BY <2>1, <2>2, <2>3, <2>4 DEF Hist
  <2>5. CASE ~IsJudged(pk)
    <3>1. [hist.granted EXCEPT ![pk] = hist.granted[pk]] = hist.granted
      BY <2>3
    <3>2. hist'.granted = [hist.granted EXCEPT ![pk] = hist.granted[pk]]
      BY <2>2, <2>3, <2>5 DEF Hist
    <3>3. QED
      BY <2>1, <2>2, <2>3, <2>5, <3>1, <3>2 DEF Hist
  <2>6. QED
    BY <2>4, <2>5
<1>4. /\ pause \in [Pubkeys -> Nat] /\ now \in Nat
      /\ hist.until \in [Pubkeys -> Nat] /\ hist.granted \in [Pubkeys -> Nat]
  BY DEF TypeOK, Hist
<1>5. Recipient' = Recipient
  BY <1>3 DEF Recipient
<1>6. ASSUME NEW q \in Pubkeys PROVE PauseKept(q)'
  <2>1. PauseKept(q) /\ saved[q] \in Nat
    BY PauseTypes DEF PauseSeen
  <2>2. CASE q = pk
    <3>1. hist.granted[q] <= now + OUTBOUND_PAUSE_SECONDS
      BY <1>4, <2>1 DEF PauseKept
    <3>2. hist'.until[q] = until /\ pause'[q] = until
          /\ hist'.granted[q] \in {0, hist.granted[q]}
          /\ (q \in hist'.raced => hist'.granted[q] = 0)
      BY <1>3, <1>4, <2>2
    <3>3. QED
      BY <1>2, <1>3, <1>4, <2>1, <3>1, <3>2 DEF PauseKept
  <2>3. CASE q # pk
    <3>1. /\ hist'.until[q] = hist.until[q] /\ pause'[q] = pause[q]
          /\ hist'.granted[q] = hist.granted[q] /\ (q \in hist'.raced <=> q \in hist.raced)
      BY <1>3, <1>4, <2>3
    <3>2. QED
      BY <1>3, <2>1, <3>1 DEF PauseKept
  <2>4. QED
    BY <2>2, <2>3
<1>7. ASSUME NEW q \in Pubkeys, NEW v, Agrees(q, v), q = pk => IsJudged(pk)
      PROVE  q \in hist'.raced \/ pause'[q] = v \/ (pause'[q] = 0 /\ v <= now')
  <2>1. CASE q = pk
    BY <1>3, <1>7, <2>1
  <2>2. CASE q # pk
    BY <1>3, <1>4, <1>7, <2>2 DEF Agrees
  <2>3. QED
    BY <2>1, <2>2
<1>8. PauseRead'
  <2>1. ASSUME worker.pc = "judge"
        PROVE  \/ Recipient \in hist'.raced \/ pause'[Recipient] = worker.paused
               \/ pause'[Recipient] = 0 /\ worker.paused <= now'
    <3>1. Recipient \in Pubkeys
      BY <2>1, RecipientType DEF Backed, WorkerBacked
    <3>2. Agrees(Recipient, worker.paused) /\ (Recipient = pk => IsJudged(pk))
      BY <2>1 DEF PauseSeen, PauseRead, IsJudged
    <3>3. QED
      BY <1>7, <3>1, <3>2
  <2>2. ASSUME NEW g \in Handlers, handlers'[g].pc = "judge",
               NEW q, q = rows[handlers'[g].id].to_pubkey
        PROVE  \/ q \in hist'.raced \/ pause'[q] = handlers'[g].until
               \/ pause'[q] = 0 /\ handlers'[g].until <= now'
    <3>1. handlers'[g] = handlers[g]
      BY <2>2 DEF PauseWrites, TypeOK, Handler
    <3>2. q \in Pubkeys
      BY <2>2, <3>1, RowTypes DEF Backed, HandlersBacked, OutboundMessage
    <3>3. Agrees(q, handlers[g].until) /\ (q = pk => IsJudged(pk))
      BY <2>2, <3>1 DEF PauseSeen, PauseRead, IsJudged
    <3>4. QED
      BY <1>7, <3>1, <3>2, <3>3
  <2>3. QED
    BY <1>3, <1>5, <2>1, <2>2 DEF PauseRead, Agrees
<1>9. PauseKnown'
  <2>1. worker.tick <= now
    BY DEF PauseSeen, PauseKnown
  <2>2. ASSUME worker.pc = "decide", hist'.until[Recipient] > now
        PROVE  \/ Recipient \in hist'.recent \cup hist'.raced
               \/ worker.paused >= hist'.until[Recipient]
    <3>1. Recipient \in Pubkeys
      BY <2>2, RecipientType DEF Backed, WorkerBacked
    <3>2. CASE Recipient = pk
      BY <1>3, <3>2
    <3>3. CASE Recipient # pk
      <4>1. hist'.until[Recipient] = hist.until[Recipient]
            /\ (Recipient \in hist.raced => Recipient \in hist'.raced)
        BY <1>3, <1>4, <3>1, <3>3
      <4>2. QED
        BY <1>3, <2>2, <4>1 DEF PauseSeen, PauseKnown
    <3>4. QED
      BY <3>2, <3>3
  <2>3. QED
    BY <1>3, <1>5, <2>1, <2>2 DEF PauseKnown
<1>10. QED
  BY <1>6, <1>8, <1>9 DEF PauseSeen

\* HandlerCommits makes it last.
LEMMA HandlerCommitsPauses ==
  ASSUME TypeOK, TypeOK', Backed, PauseSeen, NEW h \in Handlers, HandlerCommits(h)
  PROVE  PauseSeen'
<1>1. PICK pk \in Pubkeys : pk = rows[handlers[h].id].to_pubkey
  BY RowTypes DEF HandlerCommits, Backed, HandlersBacked, OutboundMessage
<1>2. /\ pause' = pause /\ saved' = pause /\ worker' = worker /\ rows' = rows /\ now' = now
      /\ hist'.until = hist.until /\ hist'.recent = hist.recent /\ hist'.raced = hist.raced
      /\ IF pk \in hist.raced THEN hist'.granted = hist.granted
         ELSE hist'.granted = [hist.granted EXCEPT ![pk] = hist.until[pk]]
  BY <1>1 DEF HandlerCommits, Commits, TypeOK, Hist
<1>3. ASSUME NEW q \in Pubkeys PROVE PauseKept(q)'
  <2>1. /\ PauseKept(q) /\ now \in Nat /\ pause[q] \in Nat
        /\ hist.until[q] \in Nat /\ hist.granted[q] \in Nat
    BY PauseTypes DEF PauseSeen
  <2>2. \/ hist'.granted[q] = hist.granted[q]
        \/ hist'.granted[q] = hist.until[q] /\ q \notin hist.raced
    BY <1>2 DEF TypeOK, Hist
  <2>3. QED
    BY <1>2, <2>1, <2>2 DEF PauseKept
<1>4. \A g \in Handlers : handlers'[g].pc = "judge" => handlers'[g] = handlers[g]
  BY DEF HandlerCommits, TypeOK, Handler, NoRequest
<1>5. Recipient' = Recipient
  BY <1>2 DEF Recipient
<1>6. QED
  BY <1>2, <1>3, <1>4, <1>5 DEF PauseSeen, PauseRead, PauseKnown, Agrees

\* The end of the process forgets what was not committed, and those that read it.
LEMMA DownPauses ==
  ASSUME TypeOK, TypeOK', PauseSeen, Down
  PROVE  PauseSeen'
<1>1. /\ pause' = saved /\ saved' = saved /\ now' = now
      /\ worker'.pc = "off" /\ worker'.tick = 0 /\ \A h \in Handlers : handlers'[h].pc = "idle"
      /\ hist'.until = hist.granted /\ hist'.granted = hist.granted /\ hist'.raced = {}
  BY DEF Down, WorkerAt, NoRequest, TypeOK, Hist
<1>2. ASSUME NEW q \in Pubkeys PROVE PauseKept(q)'
  <2>1. /\ PauseKept(q) /\ now \in Nat /\ saved[q] \in Nat
        /\ hist.until[q] \in Nat /\ hist.granted[q] \in Nat
    BY PauseTypes DEF PauseSeen
  <2>2. hist.granted[q] <= now + OUTBOUND_PAUSE_SECONDS
    BY <2>1 DEF PauseKept
  <2>3. QED
    BY <1>1, <2>1, <2>2 DEF PauseKept
<1>3. QED
  BY <1>1, <1>2, PauseTypes DEF PauseSeen, PauseRead, PauseKnown

\* Every other step.
LEMMA OtherStepPauses ==
  ASSUME TypeOK, TypeOK', Backed, PauseSeen,
         \/ \E h \in Handlers : Request(h) \/ HandlerStep(h)
         \/ \E s \in Senders : Reply(s) \/ EnqueuePacket(s)
         \/ Surroundings
  PROVE  PauseSeen'
<1>1. RowsStable
  BY HandlerStable, SenderStable, OthersStable
<1>2. CASE \E h \in Handlers : PauseWrites(h) \/ HandlerCommits(h)
  BY <1>2, PauseWritesPauses, HandlerCommitsPauses
<1>3. CASE Down
  BY <1>3, DownPauses
<1>4. ASSUME NEW h \in Handlers, Request(h) \/ HandlerStep(h),
             ~PauseWrites(h), ~HandlerCommits(h)
      PROVE  PauseSeen'
  <2>1. /\ worker' = worker /\ now' = now /\ now \in Nat /\ now <= now' /\ hist' = hist
        /\ saved' \in {saved, pause'}
    <3>1. worker' = worker /\ now' = now /\ hist' = hist /\ saved' \in {saved, pause'}
      BY <1>4 DEF Request, HandlerStep, Cancel, MoveToBack, PauseRecipient, CancelUpdates,
                  PauseReadsRows, HandlerReadsBack, HandlerUpdates, ViewQueue,
                  ViewFindsPause, ViewExpiresPause, table, Commits
    <3>2. QED
      BY <3>1, PauseTypes
  <2>2. Spares
    <3>1. CASE ViewExpiresPause(h)
      <4>1. PICK pk \in Pubkeys : pk = rows[handlers[h].id].to_pubkey
        BY <3>1, RowTypes DEF ViewExpiresPause, Backed, HandlersBacked, OutboundMessage
      <4>2. /\ pause' = [pause EXCEPT ![pk] = 0] /\ handlers[h].until <= now
            /\ Agrees(pk, handlers[h].until)
        BY <3>1, <4>1
        DEF ViewExpiresPause, PauseIsOver, DeletePause, PauseSeen, PauseRead
      <4>3. pause \in [Pubkeys -> Nat] /\ handlers[h].until \in Nat
        BY PauseTypes DEF TypeOK
      <4>4. pk \in hist.raced \/ pause[pk] <= now
        BY <2>1, <4>2, <4>3 DEF Agrees
      <4>5. QED
        BY <4>2, <4>3, <4>4 DEF Spares
    <3>2. CASE pause' = pause
      BY <3>2 DEF Spares
    <3>3. QED
      BY <1>4, <3>1, <3>2
      DEF Request, HandlerStep, Cancel, MoveToBack, PauseRecipient, CancelUpdates,
          PauseReadsRows, HandlerReadsBack, HandlerUpdates, ViewQueue, ViewFindsPause, table
  <2>3. ASSUME NEW g \in Handlers, handlers'[g].pc = "judge"
        PROVE  \/ handlers'[g] = handlers[g]
               \/ handlers'[g].until = pause'[rows'[handlers'[g].id].to_pubkey]
    <3>1. handlers \in [Handlers -> Handler]
      BY DEF TypeOK
    <3>2. CASE g # h
      BY <1>4, <3>1, <3>2
      DEF Request, HandlerStep, Cancel, MoveToBack, PauseRecipient, CancelUpdates,
          PauseReadsRows, HandlerReadsBack, HandlerUpdates, ViewQueue, ViewFindsPause,
          ViewExpiresPause
    <3>3. CASE g = h /\ \E i \in Ids : ViewQueue(h, i)
      BY <3>1, <3>3 DEF ViewQueue, table, NoRequest
    <3>4. handlers'[h].pc # "judge" \/ \E i \in Ids : ViewQueue(h, i)
      <4>1. CASE \E i \in Ids : Cancel(h, i) \/ MoveToBack(h, i) \/ PauseRecipient(h, i)
        BY <3>1, <4>1 DEF Cancel, MoveToBack, PauseRecipient, NoRequest
      <4>2. CASE CancelUpdates(h) \/ ViewFindsPause(h) \/ ViewExpiresPause(h)
        BY <3>1, <4>2 DEF CancelUpdates, ViewFindsPause, ViewExpiresPause, NoRequest
      <4>3. CASE HandlerUpdates(h)
        BY <3>1, <4>3 DEF HandlerUpdates, NoRequest, Handler
      <4>4. CASE HandlerReadsBack(h)
        BY <3>1, <4>4 DEF HandlerReadsBack, Handler
      <4>5. CASE PauseReadsRows(h)
        BY <3>1, <4>5 DEF PauseReadsRows, Handler
      <4>6. QED
        BY <1>4, <4>1, <4>2, <4>3, <4>4, <4>5 DEF Request, HandlerStep
    <3>5. QED
      BY <2>3, <3>2, <3>3, <3>4
  <2>4. Unwritten /\ (worker'.pc = "judge" => worker' = worker)
        /\ worker'.tick \in {0, now, worker.tick} /\ hist'.recent = hist.recent
        /\ (worker'.pc = "decide" => worker' = worker)
    BY <2>1 DEF Unwritten
  <2>5. QED
    BY <1>1, <2>1, <2>2, <2>3, <2>4, PausesKept, ReadsKept, KnownKept DEF PauseSeen
<1>5. CASE (\E s \in Senders : Reply(s) \/ EnqueuePacket(s)) \/ (Surroundings /\ ~Down)
  <2>1. /\ pause' = pause /\ handlers' = handlers
        /\ now \in Nat /\ now' \in {now, now + 1} /\ saved' \in {saved, pause'}
        /\ worker' = worker \/ worker' \in {WorkerAt("poll"), WorkerAt("off")}
    BY <1>5 DEF Surroundings, TickRaises, Advance, RadioChanges, CommitElsewhere,
                Shutdown, DrainTimesOut, Exit, Crash, Restart, Reply, StartReply,
                EnqueuePacket, table, tasks, Commits, TypeOK
  <2>2. Unwritten /\ hist'.recent = hist.recent
    BY <1>5 DEF Surroundings, TickRaises, Advance, RadioChanges, CommitElsewhere,
                Shutdown, DrainTimesOut, Exit, Crash, Restart, Reply, StartReply,
                EnqueuePacket, Unwritten, TypeOK, Hist
  <2>3. /\ worker'.tick \in {0, now, worker.tick} /\ Spares /\ now <= now'
        /\ worker'.pc = "decide" => worker' = worker
        /\ worker'.pc = "judge" => worker' = worker
    BY <2>1 DEF WorkerAt, Spares
  <2>4. QED
    BY <1>1, <2>1, <2>2, <2>3, PausesKept, ReadsKept, KnownKept DEF PauseSeen
<1>6. QED
  BY <1>2, <1>3, <1>4, <1>5

\* While a recipient is paused no send to it starts, unless its tick had read the table
\* before the request or a reader of the pause before it was about to delete that: across
\* every requeueing, every reader that deletes what is over, everybody's commits and, once
\* the operator is answered, crashes.
THEOREM PausesAreHonoured == Spec => PauseHonoured
<1> DEFINE honoured == \A pk \in Pubkeys :
       StartsSendTo(pk) /\ hist.until[pk] > now => pk \in hist.recent \cup hist.raced
<1>1. Init => PauseSeen
  BY DEF Init, PauseSeen, PauseKept, PauseRead, PauseKnown, WorkerAt, NoRequest
<1>2. Known /\ Known' /\ PauseSeen /\ [Next]_vars => PauseSeen'
  <2>1. SUFFICES ASSUME Known, Known', PauseSeen, [Next]_vars PROVE PauseSeen'
    OBVIOUS
  <2>2. CASE UNCHANGED vars
    BY <2>1, <2>2
    DEF vars, PauseSeen, PauseKept, PauseRead, PauseKnown, Agrees, Recipient
  <2>3. CASE Next
    BY <2>1, <2>3, WorkerStepPauses, OtherStepPauses DEF Known, Next, Surroundings
  <2>4. QED
    BY <2>1, <2>2, <2>3
<1>3. Known /\ PauseSeen /\ [Next]_vars => [honoured]_vars
  <2>1. SUFFICES ASSUME Known, PauseSeen, Next, NEW pk \in Pubkeys, StartsSendTo(pk),
                        hist.until[pk] > now
                 PROVE  pk \in hist.recent \cup hist.raced
    OBVIOUS
  <2>2. worker.pc = "decide" /\ ~IsPaused /\ pk = Recipient
    BY <2>1, StartDecides DEF Known
  <2>3. now \in Nat /\ hist.until[pk] \in Nat /\ worker.tick \in Nat /\ worker.paused \in Nat
    BY <2>1, PauseTypes DEF Known
  <2>4. worker.tick <= now
    BY <2>1 DEF PauseSeen, PauseKnown
  <2>5. QED
    BY <2>1, <2>2, <2>3, <2>4 DEF PauseSeen, PauseKnown, IsPaused
<1>4. QED
  <2>1. Spec => [][honoured]_vars
    BY <1>1, <1>2, <1>3, AlwaysKnown, PTL DEF Spec
  <2>2. QED
    BY <2>1 DEF PauseHonoured

-----------------------------------------------------------------------------
(* The room in the queue                                                   *)

\* The low-priority packets still to come of the replies in progress.
Coming == {c \in Senders \X (1 .. MaxPackets) :
             senders[c[1]].priority < PRIORITY_NORMAL /\ c[2] <= senders[c[1]].left}

\* What passed the depth check counts as if it were in the queue.
Room ==
  \/ LowPending = {} /\ Coming = {}
  \/ Cardinality(LowPending) + Cardinality(Coming)
       < QueueMaxDepth + MaxPackets * Cardinality(Senders)

\* Both are finite, before a step and after it.
LEMMA RoomFinite ==
  ASSUME TypeOK, TypeOK'
  PROVE  /\ IsFiniteSet(Pending) /\ IsFiniteSet(LowPending) /\ IsFiniteSet(LowPending')
         /\ IsFiniteSet(Coming) /\ IsFiniteSet(Coming')
         /\ Cardinality(Coming') <= MaxPackets * Cardinality(Senders)
         /\ MaxPackets * Cardinality(Senders) \in Nat
<1> USE QueueAssumption
<1>1. ASSUME NEW r \in Seq(OutboundMessage) PROVE IsFiniteSet(DOMAIN r)
  <2>1. DOMAIN r = 1 .. Len(r) /\ Len(r) \in Int
    BY LenProperties
  <2>2. QED
    BY <2>1, FS_Interval
<1>2. IsFiniteSet(Ids) /\ IsFiniteSet(Ids')
  BY <1>1 DEF TypeOK, Ids
<1>3. Pending \in SUBSET Ids /\ LowPending \in SUBSET Ids /\ LowPending' \in SUBSET Ids'
  BY DEF Pending, LowPending
<1>4. IsFiniteSet(1 .. MaxPackets) /\ Cardinality(1 .. MaxPackets) = MaxPackets
  <2>1. 1 \in Int /\ MaxPackets \in Int /\ MaxPackets \in Nat
    OBVIOUS
  <2>2. /\ IsFiniteSet(1 .. MaxPackets)
        /\ Cardinality(1 .. MaxPackets) = IF 1 > MaxPackets THEN 0 ELSE MaxPackets - 1 + 1
    BY <2>1, FS_Interval
  <2>3. QED
    BY <2>1, <2>2
<1>5. Cardinality(Senders) \in Nat
  BY FS_CardinalityType
<1>6. IsFiniteSet(Senders \X (1 .. MaxPackets))
      /\ Cardinality(Senders \X (1 .. MaxPackets)) = Cardinality(Senders) * MaxPackets
  BY <1>4, FS_Product
<1>7. Coming \in SUBSET (Senders \X (1 .. MaxPackets))
      /\ Coming' \in SUBSET (Senders \X (1 .. MaxPackets))
  BY DEF Coming
<1>8. /\ IsFiniteSet(Coming) /\ IsFiniteSet(Coming')
      /\ Cardinality(Coming') <= Cardinality(Senders) * MaxPackets
  BY <1>6, <1>7, FS_Subset
<1>9. MaxPackets * Cardinality(Senders) = Cardinality(Senders) * MaxPackets
      /\ MaxPackets * Cardinality(Senders) \in Nat
  BY <1>5
<1>10. IsFiniteSet(Pending) /\ IsFiniteSet(LowPending) /\ IsFiniteSet(LowPending')
  BY <1>2, <1>3, FS_Subset
<1>11. QED
  BY <1>8, <1>9, <1>10

\* A step that adds no row and no packet.
LEMMA RoomKept ==
  ASSUME TypeOK, TypeOK', Room, LowPending' \subseteq LowPending, Coming' \subseteq Coming
  PROVE  Room'
<1>1. /\ IsFiniteSet(LowPending) /\ IsFiniteSet(LowPending')
      /\ IsFiniteSet(Coming) /\ IsFiniteSet(Coming')
      /\ MaxPackets * Cardinality(Senders) \in Nat
  BY RoomFinite
<1>2. /\ Cardinality(LowPending') <= Cardinality(LowPending)
      /\ Cardinality(Coming') <= Cardinality(Coming)
  BY <1>1, FS_Subset
<1>3. /\ Cardinality(LowPending) \in Nat /\ Cardinality(LowPending') \in Nat
      /\ Cardinality(Coming) \in Nat /\ Cardinality(Coming') \in Nat
  BY <1>1, FS_CardinalityType
<1>4. QED
  BY <1>1, <1>2, <1>3, QueueAssumption DEF Room

\* A reply is let in: of high priority, or while the queue has room.
LEMMA ReplyRoom ==
  ASSUME TypeOK, TypeOK', Room, NEW s \in Senders, Reply(s)
  PROVE  Room'
<1>1. PICK pk \in Pubkeys, prio \in Priorities, n \in 1 .. MaxPackets :
        StartReply(s, pk, prio, n)
  BY DEF Reply
<1>2. rows' = rows /\ senders \in [Senders -> Sender] /\ senders[s].left = 0
        /\ senders' = [senders EXCEPT ![s] = [to |-> pk, priority |-> prio, at |-> now,
                                              left |-> n]]
  BY <1>1 DEF StartReply, table, TypeOK
<1>3. LowPending' = LowPending
  BY <1>2 DEF LowPending, Pending, Ids
<1>4. CASE prio >= PRIORITY_NORMAL
  <2>1. senders'[s].priority = prio /\ prio \in Nat
    BY <1>2
  <2>2. ASSUME NEW c \in Coming' PROVE c \in Coming
    <3>1. c \in Senders \X (1 .. MaxPackets) /\ senders'[c[1]].priority < PRIORITY_NORMAL
            /\ c[2] <= senders'[c[1]].left
      BY <2>2 DEF Coming
    <3>2. c[1] # s
      BY <1>4, <2>1, <3>1
    <3>3. senders'[c[1]] = senders[c[1]]
      BY <1>2, <3>1, <3>2
    <3>4. QED
      BY <3>1, <3>3 DEF Coming
  <2>3. QED
    BY <1>3, <2>2, RoomKept
<1>5. CASE QueueHasRoom
  <2>1. /\ IsFiniteSet(Pending) /\ IsFiniteSet(LowPending) /\ IsFiniteSet(Coming')
        /\ Cardinality(Coming') <= MaxPackets * Cardinality(Senders)
        /\ MaxPackets * Cardinality(Senders) \in Nat
    BY RoomFinite
  <2>2. LowPending \in SUBSET Pending
    BY DEF LowPending
  <2>3. Cardinality(LowPending) <= Cardinality(Pending)
    BY <2>1, <2>2, FS_Subset
  <2>4. Cardinality(LowPending) \in Nat /\ Cardinality(Pending) \in Nat
          /\ Cardinality(Coming') \in Nat
    BY <2>1, FS_CardinalityType
  <2>5. Cardinality(Pending) < QueueMaxDepth
    BY <1>5 DEF QueueHasRoom
  <2>6. QED
    BY <1>3, <2>1, <2>3, <2>4, <2>5, QueueAssumption DEF Room
<1>6. QED
  BY <1>1, <1>4, <1>5 DEF StartReply

\* A packet that comes becomes a row.
LEMMA PacketRoom ==
  ASSUME TypeOK, TypeOK', Backed, Room, NEW s \in Senders, EnqueuePacket(s)
  PROVE  Room'
<1>1. PICK row \in OutboundMessage :
        rows' = Append(rows, row) /\ row.priority = senders[s].priority
  BY FreshRow
<1>2. PICK n : /\ n = Len(rows) + 1 /\ n \notin Ids
               /\ Ids' = Ids \cup {n} /\ rows'[n] = row /\ \A i \in Ids : rows'[i] = rows[i]
  BY <1>1, AppendKeeps DEF TypeOK, Ids
<1>3. PICK left \in 1 .. MaxPackets : left = senders[s].left
  <2>1. senders[s] \in Sender /\ senders[s].left > 0
    BY DEF EnqueuePacket, TypeOK
  <2>2. senders[s].left \in 1 .. MaxPackets
    BY <2>1 DEF Sender
  <2>3. QED
    BY <2>2
<1>4. /\ senders'[s].left = left - 1
      /\ left > 1 => senders'[s].priority = senders[s].priority
      /\ \A t \in Senders \ {s} : senders'[t] = senders[t]
  <2>1. senders \in [Senders -> Sender]
    BY DEF TypeOK
  <2>2. senders' = [senders EXCEPT ![s] = IF left = 1 THEN NoReply
                                          ELSE [senders[s] EXCEPT !.left = @ - 1]]
    BY <1>3 DEF EnqueuePacket
  <2>3. senders[s] \in Sender /\ NoReply.left = 0
    BY <2>1 DEF NoReply
  <2>4. [senders[s] EXCEPT !.left = @ - 1].left = left - 1
          /\ [senders[s] EXCEPT !.left = @ - 1].priority = senders[s].priority
    BY <1>3, <2>3 DEF Sender
  <2>5. QED
    BY <1>3, <2>1, <2>2, <2>3, <2>4
<1>5. ASSUME NEW c \in Coming' PROVE c \in Coming /\ c # <<s, left>>
  <2>1. c \in Senders \X (1 .. MaxPackets) /\ senders'[c[1]].priority < PRIORITY_NORMAL
          /\ c[2] <= senders'[c[1]].left
    BY <1>5 DEF Coming
  <2>2. CASE c[1] # s
    <3>1. senders'[c[1]] = senders[c[1]]
      BY <1>4, <2>1, <2>2
    <3>2. QED
      BY <2>1, <2>2, <3>1 DEF Coming
  <2>3. CASE c[1] = s
    <3>1. c[2] <= left - 1 /\ c[2] \in 1 .. MaxPackets
      BY <1>4, <2>1, <2>3
    <3>2. senders[s].priority < PRIORITY_NORMAL /\ c[2] <= senders[s].left /\ c[2] # left
      BY <1>3, <1>4, <2>1, <2>3, <3>1
    <3>3. QED
      BY <2>1, <2>3, <3>2 DEF Coming
  <2>4. QED
    BY <2>2, <2>3
<1>6. CASE senders[s].priority < PRIORITY_NORMAL
  <2>1. LowPending' \subseteq LowPending \cup {n}
    BY <1>2 DEF LowPending, Pending
  <2>2. <<s, left>> \in Coming
    BY <1>3, <1>6 DEF Coming
  <2>3. Coming' \subseteq Coming \ {<<s, left>>}
    BY <1>5
  <2>4. /\ IsFiniteSet(LowPending) /\ IsFiniteSet(LowPending') /\ IsFiniteSet(Coming)
        /\ IsFiniteSet(Coming') /\ MaxPackets * Cardinality(Senders) \in Nat
    BY RoomFinite
  <2>5. n \notin LowPending
    BY <1>2 DEF LowPending, Pending
  <2>6. IsFiniteSet(LowPending \cup {n})
        /\ Cardinality(LowPending \cup {n}) = Cardinality(LowPending) + 1
    BY <2>4, <2>5, FS_AddElement
  <2>7. Cardinality(LowPending') <= Cardinality(LowPending) + 1
    BY <2>1, <2>6, FS_Subset
  <2>8. IsFiniteSet(Coming \ {<<s, left>>})
        /\ Cardinality(Coming \ {<<s, left>>}) = Cardinality(Coming) - 1
    BY <2>2, <2>4, FS_RemoveElement
  <2>9. Cardinality(Coming') <= Cardinality(Coming) - 1
    BY <2>3, <2>8, FS_Subset
  <2>10. /\ Cardinality(LowPending) \in Nat /\ Cardinality(LowPending') \in Nat
         /\ Cardinality(Coming) \in Nat /\ Cardinality(Coming') \in Nat
    BY <2>4, FS_CardinalityType
  <2>11. Cardinality(LowPending) + Cardinality(Coming)
           < QueueMaxDepth + MaxPackets * Cardinality(Senders)
    BY <2>2 DEF Room
  <2>12. QED
    BY <2>4, <2>7, <2>9, <2>10, <2>11, QueueAssumption DEF Room
<1>7. CASE ~(senders[s].priority < PRIORITY_NORMAL)
  <2>1. LowPending' \subseteq LowPending
    BY <1>1, <1>2, <1>7 DEF LowPending, Pending
  <2>2. QED
    BY <1>5, <2>1, RoomKept
<1>8. QED
  BY <1>6, <1>7

\* Every step.
LEMMA RoomStep ==
  ASSUME TypeOK, TypeOK', Backed, Room, [Next]_vars
  PROVE  Room'
<1>1. CASE UNCHANGED vars
  BY <1>1, RoomKept DEF vars, LowPending, Pending, Ids, Coming
<1>2. CASE \E s \in Senders : Reply(s) \/ EnqueuePacket(s)
  BY <1>2, ReplyRoom, PacketRoom
<1>3. ASSUME Ids' = Ids, RowsStable, senders' \in {senders, [s \in Senders |-> NoReply]}
      PROVE  Room'
  <2>1. LowPending' \subseteq LowPending
    BY <1>3 DEF LowPending, Pending, RowsStable
  <2>2. Coming' \subseteq Coming
    <3>1. CASE senders' = senders
      BY <3>1 DEF Coming
    <3>2. CASE senders' = [s \in Senders |-> NoReply]
      <4>1. ASSUME NEW c \in Coming' PROVE FALSE
        <5>1. c \in Senders \X (1 .. MaxPackets) /\ c[2] <= senders'[c[1]].left
          BY <4>1 DEF Coming
        <5>2. senders'[c[1]].left = 0 /\ c[2] \in 1 .. MaxPackets
          BY <3>2, <5>1 DEF NoReply
        <5>3. QED
          BY <5>1, <5>2
      <4>2. QED
        BY <4>1
    <3>3. QED
      BY <1>3, <3>1, <3>2
  <2>3. QED
    BY <2>1, <2>2, RoomKept
<1>4. CASE WorkerStep
  <2>1. senders' = senders
    BY <1>4 DEF WorkerStep, Suspend, WorkerStops, StartTick, ClaimNext, NothingDue,
                ReadPause, PauseStands, ExpirePause, Decide, PutOff, SendOk,
                SendUnacked, SendReturns, MarkSent, MarkFailed, AuditFailed,
                RescheduleReadsBack, RescheduleUpdates, GapOver
  <2>2. QED
    BY <1>3, <1>4, <2>1, WorkerStable
<1>5. CASE \E h \in Handlers : Request(h) \/ HandlerStep(h)
  <2>1. senders' = senders
    BY <1>5 DEF Request, HandlerStep, Cancel, MoveToBack, PauseRecipient, CancelUpdates,
                PauseWrites, PauseReadsRows, HandlerReadsBack, HandlerUpdates,
                HandlerCommits, ViewQueue, ViewFindsPause, ViewExpiresPause
  <2>2. QED
    BY <1>3, <1>5, <2>1, HandlerStable
<1>6. CASE Surroundings
  <2>1. senders' \in {senders, [s \in Senders |-> NoReply]}
    BY <1>6 DEF Surroundings, TickRaises, Advance, RadioChanges, CommitElsewhere,
                Shutdown, DrainTimesOut, Exit, Crash, Down, Restart, tasks
  <2>2. QED
    BY <1>3, <1>6, <2>1, OthersStable
<1>7. QED
  BY <1>1, <1>2, <1>4, <1>5, <1>6 DEF Next, Surroundings

\* Low-priority replies overshoot the depth of the queue by one reply each at most.
THEOREM RoomIsLeft == Spec => []LowPriorityBounded
<1>1. Init => Room
  <2>1. SUFFICES ASSUME Init PROVE Room
    OBVIOUS
  <2>2. LowPending = {}
    BY <2>1 DEF Init, LowPending, Pending, Ids
  <2>3. ASSUME NEW c \in Coming PROVE FALSE
    <3>1. c \in Senders \X (1 .. MaxPackets) /\ c[2] <= senders[c[1]].left
      BY <2>3 DEF Coming
    <3>2. senders[c[1]].left = 0 /\ c[2] \in 1 .. MaxPackets
      BY <2>1, <3>1 DEF Init, NoReply
    <3>3. QED
      BY <3>1, <3>2
  <2>4. QED
    BY <2>2, <2>3 DEF Room
<1>2. Known /\ Known' /\ Room /\ [Next]_vars => Room'
  BY RoomStep DEF Known
<1>3. Known /\ Known' /\ Room => LowPriorityBounded
  <2>1. SUFFICES ASSUME Known, Known', Room PROVE LowPriorityBounded
    OBVIOUS
  <2>2. Cardinality(LowPending) \in Nat /\ Cardinality(Coming) \in Nat
          /\ MaxPackets * Cardinality(Senders) \in Nat
    BY <2>1, RoomFinite, FS_CardinalityType DEF Known
  <2>3. QED
    BY <2>1, <2>2, QueueAssumption DEF Room, LowPriorityBounded
<1>4. QED
  BY <1>1, <1>2, <1>3, AlwaysKnown, PTL DEF Spec

=============================================================================
