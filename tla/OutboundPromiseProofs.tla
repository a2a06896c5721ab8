------------------------ MODULE OutboundPromiseProofs ------------------------
(***************************************************************************)
(* Proofs that the outbound path sends no message twice without a fault    *)
(* and keeps the abstract promise step by step, for any number of          *)
(* recipients, tasks, rows and faults.                                     *)
(***************************************************************************)
EXTENDS OutboundProofs

USE PrioritiesAssumption, MaxTimeAssumption, LimitsAssumption, BackoffAssumption

-----------------------------------------------------------------------------
(* The inductive invariant                                                 *)

\* The worker is at work on a row from the claim to the recorded outcome.
Working == {"pause", "judge", "decide", "sending", "mark", "fail", "back", "update"}

Holds(i) == worker.pc \in Working /\ worker.id = i

\* The row the worker is at work on is open: nobody but the worker settles a row, and
\* what is too old is dropped between two messages only.
WorkerOpen == worker.pc \in Working => rows[worker.id].status \in {"pending", "cancelled"}

\* An acknowledgement the worker is about to record.
Acknowledged(i) == worker.pc = "mark" /\ worker.id = i

\* Of the acknowledgements of a row, one is recorded or about to be, and each other was
\* hidden by a fault: a row that may still be sent has none but hidden ones.
AcksCounted ==
  \A i \in Ids :
    /\ hist.acks[i] <= 1 + faults
    /\ rows[i].status = "pending" \/ Holds(i) => Acknowledged(i) \/ hist.acks[i] <= faults

\* Without a process there is no worker.
Halted == proc = "down" => worker.pc = "off"

\* The clock has started, and a reply was composed after that.
Started == now >= 1 /\ \A s \in Senders : senders[s].left > 0 => senders[s].at >= 1

-----------------------------------------------------------------------------
(* Rows that may still be sent                                             *)

\* A step that counts no acknowledgement, opens no row, and has the worker at work on
\* nothing but what it was at work on or an unacknowledged pending row: what it was about
\* to record as acknowledged is recorded, or a fault hides it.
LEMMA AcksKept ==
  ASSUME TypeOK, TypeOK', AcksCounted, Ids' = Ids, hist'.acks = hist.acks,
         faults <= faults',
         \A i \in Ids : rows'[i].status = "pending" => rows[i].status = "pending",
         \A i \in Ids : Holds(i)' => Holds(i) \/ rows[i].status = "pending",
         \A i \in Ids : Acknowledged(i) =>
            \/ Acknowledged(i)' \/ faults + 1 <= faults'
            \/ rows'[i].status # "pending" /\ ~Holds(i)'
  PROVE  AcksCounted'
<1>1. \A i \in Ids : hist.acks[i] \in Nat
  BY HistIds
<1>2. faults \in Nat /\ faults' \in Nat
  BY DEF TypeOK
<1>3. ASSUME NEW i \in Ids
      PROVE  /\ hist'.acks[i] <= 1 + faults'
             /\ rows'[i].status = "pending" \/ Holds(i)'
                  => Acknowledged(i)' \/ hist'.acks[i] <= faults'
  <2>1. hist.acks[i] <= 1 + faults /\ hist'.acks[i] = hist.acks[i]
    BY DEF AcksCounted
  <2>2. CASE Acknowledged(i)
    BY <1>1, <1>2, <2>1, <2>2
  <2>3. CASE ~Acknowledged(i)
    <3>1. rows[i].status = "pending" \/ Holds(i) => hist.acks[i] <= faults
      BY <2>3 DEF AcksCounted
    <3>2. rows'[i].status = "pending" \/ Holds(i)' => hist.acks[i] <= faults
      BY <3>1
    <3>3. QED
      BY <1>1, <1>2, <2>1, <3>2
  <2>4. QED
    BY <2>2, <2>3
<1>4. QED
  BY <1>3 DEF AcksCounted

\* Every step of the worker.
LEMMA WorkerStepAcks ==
  ASSUME TypeOK, TypeOK', Backed, WorkerOpen, AcksCounted, WorkerStep
  PROVE  WorkerOpen' /\ AcksCounted'
<1> USE DEF Working, Holds, Acknowledged
<1>1. faults' = faults /\ faults \in Nat
  BY DEF WorkerStep, Suspend, WorkerStops, StartTick, ClaimNext, NothingDue, ReadPause,
         PauseStands, ExpirePause, Decide, PutOff, SendOk, SendUnacked, SendReturns,
         MarkSent, MarkFailed, AuditFailed, RescheduleReadsBack, RescheduleUpdates,
         GapOver, counters, TypeOK
<1>2. rows' = rows => Ids' = Ids
  BY DEF Ids
<1>3. CASE WorkerStops \/ NothingDue \/ AuditFailed \/ GapOver
  <2>1. rows' = rows /\ hist' = hist /\ worker'.pc \notin Working /\ worker.pc # "mark"
    BY <1>3 DEF WorkerStops, NothingDue, AuditFailed, GapOver, Suspend, WorkerAt, table
  <2>2. QED
    BY <1>1, <1>2, <2>1, AcksKept DEF WorkerOpen
<1>4. CASE StartTick
  <2>1. worker'.pc \notin Working /\ worker.pc # "mark" /\ hist' = hist
    BY <1>4 DEF StartTick, WorkerAt
  <2>2. Ids' = Ids
    BY <1>4, DropStaleType DEF StartTick
  <2>3. \A i \in Ids : rows'[i].status = "pending" => rows[i].status = "pending"
    BY <1>4, RowTypes DEF StartTick, DropStaleOutbound, OutboundMessage
  <2>4. QED
    BY <1>1, <2>1, <2>2, <2>3, AcksKept DEF WorkerOpen
<1>5. CASE ClaimNext
  <2>1. PICK i \in NextOutbound(worker.tick) :
          Suspend([worker EXCEPT !.pc = "pause", !.id = i, !.attempts = rows[i].attempts])
    BY <1>5 DEF ClaimNext
  <2>2. i \in Ids /\ rows[i].status = "pending"
    BY <2>1 DEF NextOutbound, Ready, Pending
  <2>3. rows' = rows /\ hist' = hist /\ worker'.id = i /\ worker.pc # "mark"
    BY <1>5, <2>1 DEF ClaimNext, Suspend, table, TypeOK, Worker
  <2>4. AcksCounted'
    BY <1>1, <1>2, <2>2, <2>3, AcksKept
  <2>5. QED
    BY <2>2, <2>3, <2>4 DEF WorkerOpen
<1>6. CASE \/ ReadPause \/ PauseStands \/ ExpirePause \/ Decide
           \/ RescheduleReadsBack
  <2>1. /\ rows' = rows /\ hist'.acks = hist.acks /\ worker.pc \in Working \ {"mark"}
        /\ worker'.id = worker.id
    BY <1>6 DEF ReadPause, PauseStands, ExpirePause, Decide, PutOff,
                RescheduleReadsBack, Suspend, table, TypeOK, Worker, Hist
  <2>2. QED
    BY <1>1, <1>2, <2>1, AcksKept DEF WorkerOpen
<1>7. CASE SendOk
  <2>1. /\ worker.id \in Ids /\ worker.pc = "sending" /\ worker'.pc = "mark"
        /\ worker'.id = worker.id
    BY <1>7 DEF SendOk, Backed, WorkerBacked, TypeOK, Worker
  <2>2. rows' = rows /\ hist'.acks = [hist.acks EXCEPT ![worker.id] = @ + 1]
    BY <1>7 DEF SendOk, SendReturns, table, TypeOK, Hist
  <2>3. hist.acks \in [Ids -> Nat]
    BY HistIds
  <2>4. ASSUME NEW i \in Ids
        PROVE  /\ hist'.acks[i] <= 1 + faults
               /\ rows[i].status = "pending" \/ Holds(i)'
                    => Acknowledged(i)' \/ hist'.acks[i] <= faults
    BY <1>1, <2>1, <2>2, <2>3 DEF AcksCounted
  <2>5. QED
    BY <1>1, <1>2, <2>1, <2>2, <2>4 DEF AcksCounted, WorkerOpen
<1>8. CASE SendUnacked
  <2>1. rows' = rows /\ hist'.acks = hist.acks
    BY <1>8 DEF SendUnacked, SendReturns, table, TypeOK, Hist
  <2>2. worker.pc = "sending" /\ worker'.id = worker.id
    BY <1>8 DEF SendUnacked, TypeOK, Worker
  <2>3. QED
    BY <1>1, <1>2, <2>1, <2>2, AcksKept DEF WorkerOpen
<1>9. CASE MarkSent \/ MarkFailed
  <2>1. PICK st \in {"sent", "failed"} : SetStatus(worker.id, st)
    BY <1>9 DEF MarkSent, MarkFailed
  <2>2. worker.id \in Ids /\ hist' = hist /\ worker'.pc \notin Working
    BY <1>9 DEF MarkSent, MarkFailed, Backed, WorkerBacked, WorkerAt
  <2>3. Ids' = Ids
    BY <2>1, SetStatusType DEF Status
  <2>4. \A j \in Ids : rows'[j].status = IF j = worker.id THEN st ELSE rows[j].status
    BY <2>1, <2>2, SetStatusRows
  <2>5. QED
    BY <1>1, <2>1, <2>2, <2>3, <2>4, AcksKept DEF WorkerOpen
<1>10. CASE RescheduleUpdates
  <2>1. worker.id \in Ids /\ worker.pc # "mark" /\ hist' = hist /\ worker'.pc \notin Working
    BY <1>10 DEF RescheduleUpdates, Backed, WorkerBacked, WorkerAt
  <2>2. worker.next \in Nat /\ worker.attempts \in Nat /\ worker.back \in Nat
    BY DEF TypeOK, Worker
  <2>3. Ids' = Ids /\ \A j \in Ids : rows'[j].status = rows[j].status
    BY <1>10, <2>1, <2>2, RescheduleType, RescheduledRow DEF RescheduleUpdates
  <2>4. QED
    BY <1>1, <2>1, <2>3, AcksKept DEF WorkerOpen
<1>11. QED
  BY <1>3, <1>4, <1>5, <1>6, <1>7, <1>8, <1>9, <1>10 DEF WorkerStep

\* A request opens no row, and what it does to the worker's row is to cancel it.
LEMMA HandlerStepAcks ==
  ASSUME TypeOK, TypeOK', Backed, WorkerOpen, AcksCounted,
         NEW h \in Handlers, Request(h) \/ HandlerStep(h)
  PROVE  WorkerOpen' /\ AcksCounted'
<1>1. worker' = worker /\ faults' = faults /\ faults \in Nat
  BY DEF Request, HandlerStep, Cancel, MoveToBack, PauseRecipient, CancelUpdates,
         PauseWrites, PauseReadsRows, HandlerReadsBack, HandlerUpdates, HandlerCommits,
         ViewQueue, ViewFindsPause, ViewExpiresPause, counters, TypeOK
<1>2. hist'.acks = hist.acks
  BY DEF Request, HandlerStep, Cancel, MoveToBack, PauseRecipient, CancelUpdates,
         PauseWrites, PauseReadsRows, HandlerReadsBack, HandlerUpdates, HandlerCommits,
         ViewQueue, ViewFindsPause, ViewExpiresPause, TypeOK, Hist
<1>3. /\ Ids' = Ids
      /\ \A i \in Ids : rows'[i].status \in {rows[i].status, "cancelled"}
  <2>1. CASE rows' = rows
    BY <2>1 DEF Ids
  <2>2. CASE CancelUpdates(h)
    <3>1. handlers[h].id \in Ids
      BY <2>2 DEF CancelUpdates, Backed, HandlersBacked
    <3>2. QED
      BY <2>2, <3>1, SetStatusRows, SetStatusType DEF CancelUpdates, Status
  <2>3. CASE HandlerUpdates(h)
    <3>1. PICK r \in handlers[h].todo :
            RescheduleOutbound(r.id, r.next, r.attempts, handlers[h].back)
      BY <2>3 DEF HandlerUpdates
    <3>2. r.id \in Ids /\ r \in Reschedule /\ handlers[h].back \in Nat
      BY <3>1 DEF Backed, HandlersBacked, TypeOK, Handler
    <3>3. QED
      BY <3>1, <3>2, RescheduledRow, RescheduleType DEF Reschedule
  <2>4. QED
    BY <2>1, <2>2, <2>3
    DEF Request, Cancel, MoveToBack, PauseRecipient, HandlerStep, PauseWrites,
        PauseReadsRows, HandlerReadsBack, HandlerCommits, ViewQueue, ViewFindsPause,
        ViewExpiresPause, table
<1>4. AcksCounted'
  BY <1>1, <1>2, <1>3, AcksKept DEF Holds, Acknowledged
<1>5. worker.pc \in Working => worker.id \in Ids
  BY DEF Working, Backed, WorkerBacked
<1>6. QED
  BY <1>1, <1>3, <1>4, <1>5 DEF WorkerOpen

\* A fresh row has no acknowledgement.
LEMMA SenderStepAcks ==
  ASSUME TypeOK, TypeOK', Backed, WorkerOpen, AcksCounted,
         NEW s \in Senders, Reply(s) \/ EnqueuePacket(s)
  PROVE  WorkerOpen' /\ AcksCounted'
<1>1. worker' = worker /\ faults' = faults /\ faults \in Nat
  BY DEF Reply, StartReply, EnqueuePacket, counters, TypeOK
<1>2. worker.pc \in Working => worker.id \in Ids
  BY DEF Working, Backed, WorkerBacked
<1>3. CASE Reply(s)
  <2>1. rows' = rows /\ hist' = hist /\ Ids' = Ids
    BY <1>3 DEF Reply, StartReply, table, Ids
  <2>2. QED
    BY <1>1, <2>1, AcksKept DEF WorkerOpen, Holds, Acknowledged
<1>4. CASE EnqueuePacket(s)
  <2> DEFINE row == [to_pubkey |-> senders[s].to, priority |-> senders[s].priority,
                     enqueued_at |-> senders[s].at, next_attempt |-> senders[s].at,
                     attempts |-> 0, status |-> "pending"]
  <2>1. row \in OutboundMessage
    BY <1>4 DEF EnqueuePacket, Backed, SendersBacked, TypeOK, Sender, OutboundMessage,
                Status
  <2>2. rows' = Append(rows, row) /\ hist'.acks = Append(hist.acks, 0)
    BY <1>4 DEF EnqueuePacket, EnqueueOutbound, TypeOK, Hist
  <2> HIDE DEF row
  <2>3. /\ rows \in Seq(OutboundMessage) /\ hist.acks \in Seq(Nat) /\ 0 \in Nat
        /\ Len(hist.acks) = Len(rows) /\ DOMAIN hist.acks = Ids
    BY HistIds DEF TypeOK, Hist
  <2>4. /\ Ids' = Ids \cup {Len(rows) + 1}
        /\ \A i \in Ids : rows'[i] = rows[i]
    BY <2>1, <2>2, <2>3, AppendKeeps DEF Ids
  <2>5. hist'.acks[Len(rows) + 1] = 0 /\ \A i \in Ids : hist'.acks[i] = hist.acks[i]
    BY <2>2, <2>3, AppendKeeps
  <2>6. QED
    BY <1>1, <1>2, <2>4, <2>5 DEF AcksCounted, WorkerOpen, Holds, Acknowledged
<1>5. QED
  BY <1>3, <1>4

\* What ends the worker's work on a row before its outcome is recorded is a fault.
LEMMA SurroundingsAcks ==
  ASSUME TypeOK, TypeOK', Halted, WorkerOpen, AcksCounted, Surroundings
  PROVE  WorkerOpen' /\ AcksCounted'
<1> USE DEF Working, Holds, Acknowledged
<1>1. faults \in Nat /\ faults <= faults'
  <2>1. faults' \in {faults, faults + 1}
    BY DEF Surroundings, TickRaises, Advance, RadioChanges, CommitElsewhere, Shutdown,
           DrainTimesOut, Exit, Crash, Down, Restart, counters
  <2>2. faults \in Nat
    BY DEF TypeOK
  <2>3. QED
    BY <2>1, <2>2
<1>2. rows' = rows /\ Ids' = Ids
  BY DEF Surroundings, TickRaises, Advance, RadioChanges, CommitElsewhere, Shutdown,
         DrainTimesOut, Exit, Crash, Down, Restart, table, Ids
<1>3. hist'.acks = hist.acks
  BY DEF Surroundings, TickRaises, Advance, RadioChanges, CommitElsewhere, Shutdown,
         DrainTimesOut, Exit, Crash, Down, Restart, TypeOK, Hist
<1>4. \/ worker' = worker
      \/ worker'.pc \notin Working /\ (worker.pc # "mark" \/ faults' = faults + 1)
  <2>1. CASE Advance \/ RadioChanges \/ CommitElsewhere \/ Shutdown
    BY <2>1 DEF Advance, RadioChanges, CommitElsewhere, Shutdown, tasks
  <2>2. CASE TickRaises \/ DrainTimesOut \/ Crash
    BY <2>2 DEF TickRaises, DrainTimesOut, Crash, Down, WorkerAt
  <2>3. CASE Exit
    BY <2>3 DEF Exit, Down, WorkerAt
  <2>4. CASE Restart
    BY <2>4 DEF Restart, Halted, WorkerAt
  <2>5. QED
    BY <2>1, <2>2, <2>3, <2>4 DEF Surroundings
<1>5. QED
  BY <1>1, <1>2, <1>3, <1>4, AcksKept DEF WorkerOpen

\* The worker ends with the process and does nothing without it.
LEMMA HaltedStep == Halted /\ Next => Halted'
<1> SUFFICES ASSUME Halted, Next PROVE Halted'
  OBVIOUS
<1>1. CASE WorkerStep
  BY <1>1 DEF Halted, WorkerStep, Suspend, WorkerStops, StartTick, ClaimNext,
              NothingDue, ReadPause, PauseStands, ExpirePause, Decide, PutOff, SendOk,
              SendUnacked, SendReturns, MarkSent, MarkFailed, AuditFailed,
              RescheduleReadsBack, RescheduleUpdates, GapOver
<1>2. ASSUME NEW s \in Senders, Reply(s) \/ EnqueuePacket(s) PROVE Halted'
  BY <1>2 DEF Halted, Reply, StartReply, EnqueuePacket
<1>3. ASSUME NEW h \in Handlers, Request(h) \/ HandlerStep(h) PROVE Halted'
  BY <1>3 DEF Halted, Request, HandlerStep, Cancel, MoveToBack, PauseRecipient,
              CancelUpdates, PauseWrites, PauseReadsRows, HandlerReadsBack,
              HandlerUpdates, HandlerCommits, ViewQueue, ViewFindsPause,
              ViewExpiresPause
<1>4. CASE \/ TickRaises \/ Advance \/ RadioChanges \/ CommitElsewhere \/ Shutdown
           \/ DrainTimesOut \/ Restart
  BY <1>4 DEF Halted, TickRaises, Advance, RadioChanges, CommitElsewhere, Shutdown,
              DrainTimesOut, Restart, tasks
<1>5. CASE Exit \/ Crash
  BY <1>5 DEF Halted, Exit, Crash, Down, WorkerAt
<1>6. QED
  BY <1>1, <1>2, <1>3, <1>4, <1>5 DEF Next

-----------------------------------------------------------------------------
(* Time                                                                    *)

\* The clock never goes back, and a reply carries the time it was composed at.
LEMMA StartedStep ==
  ASSUME TypeOK, TypeOK', Backed, Started, Next
  PROVE  Started'
<1>1. now \in Nat /\ now >= 1 /\ now' \in Nat
  BY DEF TypeOK, Started
<1>2. now' >= 1
  <2>1. HistGrows
    BY WorkerGrows, OthersGrow DEF Next, Surroundings
  <2>2. QED
    BY <1>1, <2>1 DEF HistGrows
<1>3. senders \in [Senders -> Sender]
  BY DEF TypeOK
<1>4. ASSUME NEW s \in Senders, Reply(s) PROVE Started'
  BY <1>1, <1>2, <1>3, <1>4 DEF Reply, StartReply, Started
<1>5. ASSUME NEW s \in Senders, EnqueuePacket(s) PROVE Started'
  <2>1. senders' = [senders EXCEPT ![s] =
                      IF senders[s].left = 1 THEN NoReply
                      ELSE [senders[s] EXCEPT !.left = @ - 1]]
    BY <1>5 DEF EnqueuePacket
  <2>2. senders[s] \in Sender /\ senders[s].left > 0 /\ NoReply.left = 0
    BY <1>3, <1>5 DEF EnqueuePacket, NoReply
  <2>3. senders'[s].left > 0 => senders'[s].at = senders[s].at
    BY <1>3, <2>1, <2>2 DEF Sender
  <2>4. \A r \in Senders \ {s} : senders'[r] = senders[r]
    BY <1>3, <2>1
  <2>5. QED
    BY <1>2, <2>2, <2>3, <2>4 DEF Started
<1>6. CASE senders' = senders
  BY <1>2, <1>6 DEF Started
<1>7. CASE senders' = [s \in Senders |-> NoReply]
  BY <1>2, <1>7 DEF Started, NoReply
<1>8. QED
  BY <1>4, <1>5, <1>6, <1>7
  DEF Next, WorkerStep, Suspend, WorkerStops, StartTick, ClaimNext, NothingDue,
      ReadPause, PauseStands, ExpirePause, Decide, PutOff, SendOk, SendUnacked,
      SendReturns, MarkSent, MarkFailed, AuditFailed, RescheduleReadsBack,
      RescheduleUpdates, GapOver, TickRaises, Request, HandlerStep, Cancel, MoveToBack,
      PauseRecipient, CancelUpdates, PauseWrites, PauseReadsRows, HandlerReadsBack,
      HandlerUpdates, HandlerCommits, ViewQueue, ViewFindsPause, ViewExpiresPause,
      Advance, RadioChanges, CommitElsewhere, Shutdown, DrainTimesOut, Exit, Crash,
      Down, Restart, tasks

-----------------------------------------------------------------------------
(* The invariant                                                           *)

\* What is known of every reachable state; Backed and StatusIsEarned are OutboundProofs'.
Known ==
  /\ TypeOK /\ Backed /\ StatusIsEarned
  /\ Halted /\ Started /\ WorkerOpen /\ AcksCounted

\* Nothing has happened at the start.
LEMMA KnownInit == Init => Known
<1>1. Init => TypeOK /\ Backed
  BY TypeInit, BackedInit
<1>2. Init => StatusIsEarned
  BY DEF Init, StatusIsEarned, SentWasAcked, FailedWasTried, DroppedWasOld, Ids
<1>3. Init => Halted /\ Started /\ WorkerOpen /\ AcksCounted
  BY DEF Init, Halted, Started, WorkerOpen, AcksCounted, Working, WorkerAt, NoReply, Ids
<1>4. QED
  BY <1>1, <1>2, <1>3 DEF Known

\* Every step keeps it.
LEMMA KnownStep == Known /\ [Next]_vars => Known'
<1> SUFFICES ASSUME Known, [Next]_vars PROVE Known'
  OBVIOUS
<1>1. TypeOK' /\ Backed' /\ StatusIsEarned'
  BY TypeStep, BackedStep, EarnedStep DEF Known
<1>2. CASE UNCHANGED vars
  BY <1>1, <1>2 DEF vars, Known, Halted, Started, WorkerOpen, AcksCounted, Holds,
                    Acknowledged, Ids
<1>3. CASE Next
  <2>1. Halted' /\ Started'
    BY <1>1, <1>3, HaltedStep, StartedStep DEF Known
  <2>2. WorkerOpen' /\ AcksCounted'
    BY <1>1, <1>3, WorkerStepAcks, HandlerStepAcks, SenderStepAcks, SurroundingsAcks
    DEF Known, Next, Surroundings
  <2>3. QED
    BY <1>1, <2>1, <2>2 DEF Known
<1>4. QED
  BY <1>2, <1>3

\* It holds in every reachable state.
LEMMA AlwaysKnown == Spec => []Known
  BY KnownInit, KnownStep, PTL DEF Spec

-----------------------------------------------------------------------------
(* The promise, step by step                                               *)

\* What the ledger says of row i.
Line(i) == [status |-> rows[i].status, acks |-> hist.acks[i],
            nacks |-> hist.nacks[i], born |-> hist.created[i]]

\* A step that leaves every line alone leaves the ledger alone.
LEMMA LedgerKept ==
  ASSUME Ids' = Ids, \A i \in Ids : Line(i)' = Line(i)
  PROVE  Ledger' = Ledger
  BY DEF Ledger, Line

\* A step that changes one line.
LEMMA LineChanged ==
  ASSUME NEW m \in Ids, Ids' = Ids, \A i \in Ids \ {m} : Line(i)' = Line(i)
  PROVE  Ledger' = [Ledger EXCEPT ![m] = Line(m)']
  BY DEF Ledger, Line

\* Steps that do not concern the ledger.
LEMMA PromiseStutters ==
  ASSUME now' = now, faults' = faults, Ids' = Ids,
         \A i \in Ids : rows'[i].status = rows[i].status,
         hist'.acks = hist.acks, hist'.nacks = hist.nacks, hist'.created = hist.created
  PROVE  [Promise!Next]_(Promise!vars)
<1>1. Ledger' = Ledger
  BY LedgerKept DEF Line
<1>2. QED
  BY <1>1 DEF Promise!vars

\* A row is settled or cancelled.
LEMMA StatusSet ==
  ASSUME TypeOK, NEW m \in Ids, NEW st \in Status, SetStatus(m, st), hist' = hist
  PROVE  Ledger' = [Ledger EXCEPT ![m].status = st]
<1>1. Ids' = Ids
  BY SetStatusType
<1>2. \A i \in Ids : rows'[i].status = IF i = m THEN st ELSE rows[i].status
  BY SetStatusRows
<1>3. \A i \in Ids \ {m} : Line(i)' = Line(i)
  BY <1>2 DEF Line
<1>4. Line(m)' = [Line(m) EXCEPT !.status = st]
  BY <1>2 DEF Line
<1>5. Ledger[m] = Line(m)
  BY DEF Ledger, Line
<1>6. QED
  BY <1>1, <1>3, <1>4, <1>5, LineChanged

\* Each step of the worker is a step of the promise or none.
LEMMA WorkerStepPromise ==
  ASSUME Known, TypeOK', WorkerStep
  PROVE  [Promise!Next]_(Promise!vars)
<1> USE DEF Known
<1>1. rows' = rows => Ids' = Ids
  BY DEF Ids
<1>2. CASE \/ WorkerStops \/ ClaimNext \/ NothingDue \/ PauseStands \/ ExpirePause
           \/ Decide \/ AuditFailed \/ RescheduleReadsBack \/ GapOver
  BY <1>1, <1>2, PromiseStutters
  DEF WorkerStops, ClaimNext, NothingDue, PauseStands, ExpirePause, Decide, PutOff,
      AuditFailed, RescheduleReadsBack, GapOver, Suspend, table, counters
<1>3. CASE ReadPause
  BY <1>1, <1>3, PromiseStutters DEF ReadPause, table, counters, TypeOK, Hist
<1>4. CASE RescheduleUpdates
  <2>1. worker.id \in Ids
    BY <1>4 DEF RescheduleUpdates, Backed, WorkerBacked
  <2>2. worker.next \in Nat /\ worker.attempts \in Nat /\ worker.back \in Nat
    BY DEF TypeOK, Worker
  <2>3. QED
    BY <1>4, <2>1, <2>2, RescheduledRow, RescheduleType, PromiseStutters
    DEF RescheduleUpdates, counters
<1>5. CASE StartTick
  <2> DEFINE old == {m \in Ids : /\ rows[m].status = "pending"
                                /\ rows[m].enqueued_at < now - MAX_AGE_SECONDS}
  <2>1. Ids' = Ids /\ hist' = hist /\ now' = now /\ faults' = faults
    BY <1>5, DropStaleType DEF StartTick, counters
  <2>2. \A i \in Ids : rows'[i].status = IF i \in old THEN "dropped" ELSE rows[i].status
    BY <1>5, RowTypes DEF StartTick, DropStaleOutbound, OutboundMessage
  <2>3. \A m \in old : rows[m].status = "pending" /\ hist.created[m] < now - MAX_AGE_SECONDS
    <3>1. \A m \in Ids : /\ hist.created[m] \in Nat /\ rows[m].enqueued_at \in Nat
                         /\ hist.created[m] <= rows[m].enqueued_at
      BY HistIds, RowTypes DEF Backed, RowsBacked, OutboundMessage
    <3>2. now \in Nat
      BY DEF TypeOK
    <3>3. QED
      BY <3>1, <3>2
  <2> HIDE DEF old
  <2>4. old \subseteq Ids
    BY DEF old
  <2>5. \A i \in Ids : Line(i)' = IF i \in old THEN [Line(i) EXCEPT !.status = "dropped"]
                                              ELSE Line(i)
    BY <2>1, <2>2 DEF Line
  <2>6. DOMAIN Ledger = Ids /\ \A i \in Ids : Ledger[i] = Line(i)
    BY DEF Ledger, Line
  <2>7. Ledger' = [m \in DOMAIN Ledger |->
                     IF m \in old THEN [Ledger[m] EXCEPT !.status = "dropped"]
                     ELSE Ledger[m]]
    BY <2>1, <2>5, <2>6 DEF Ledger, Line
  <2>8. old \in SUBSET {m \in DOMAIN Ledger : /\ Ledger[m].status = "pending"
                                              /\ Ledger[m].born < now - MAX_AGE_SECONDS}
    BY <2>3, <2>4, <2>6 DEF Line
  <2>9. Promise!Expire
    BY <2>1, <2>7, <2>8 DEF Promise!Expire
  <2>10. QED
    BY <2>9 DEF Promise!Next
<1>6. CASE SendOk
  <2>1. PICK m \in Ids : /\ m = worker.id /\ rows[m].status \in {"pending", "cancelled"}
                         /\ hist.acks[m] <= faults
    BY <1>6 DEF SendOk, Backed, WorkerBacked, WorkerOpen, AcksCounted, Working, Holds,
                Acknowledged
  <2>2. rows' = rows /\ now' = now /\ faults' = faults
          /\ hist'.created = hist.created /\ hist'.nacks = hist.nacks
          /\ hist'.acks = [hist.acks EXCEPT ![m] = @ + 1]
    BY <2>1, <1>6 DEF SendOk, SendReturns, table, counters, TypeOK, Hist
  <2>3. hist.acks \in [Ids -> Nat]
    BY HistIds
  <2>4. \A i \in Ids \ {m} : Line(i)' = Line(i)
    BY <2>2, <2>3 DEF Line
  <2>5. Line(m)' = [Line(m) EXCEPT !.acks = @ + 1]
    BY <2>1, <2>2, <2>3 DEF Line
  <2>6. Ledger[m] = Line(m) /\ DOMAIN Ledger = Ids
    BY <2>1 DEF Ledger, Line
  <2>7. Ledger' = [Ledger EXCEPT ![m].acks = @ + 1]
    BY <1>1, <2>1, <2>2, <2>4, <2>5, <2>6, LineChanged
  <2>8. Promise!Acked(m)
    BY <2>1, <2>2, <2>6, <2>7 DEF Promise!Acked, Line
  <2>9. QED
    BY <2>1, <2>6, <2>8 DEF Promise!Next
<1>7. CASE SendUnacked
  <2>1. PICK m \in Ids : m = worker.id /\ rows[m].status \in {"pending", "cancelled"}
    BY <1>7 DEF SendUnacked, Backed, WorkerBacked, WorkerOpen, Working
  <2>2. rows' = rows /\ now' = now /\ faults' = faults
          /\ hist'.created = hist.created /\ hist'.acks = hist.acks
          /\ hist'.nacks = [hist.nacks EXCEPT ![m] = @ + 1]
    BY <2>1, <1>7 DEF SendUnacked, SendReturns, table, counters, TypeOK, Hist
  <2>3. hist.nacks \in [Ids -> Nat]
    BY HistIds
  <2>4. \A i \in Ids \ {m} : Line(i)' = Line(i)
    BY <2>2, <2>3 DEF Line
  <2>5. Line(m)' = [Line(m) EXCEPT !.nacks = @ + 1]
    BY <2>1, <2>2, <2>3 DEF Line
  <2>6. Ledger[m] = Line(m) /\ DOMAIN Ledger = Ids
    BY <2>1 DEF Ledger, Line
  <2>7. Ledger' = [Ledger EXCEPT ![m].nacks = @ + 1]
    BY <1>1, <2>1, <2>2, <2>4, <2>5, <2>6, LineChanged
  <2>8. Promise!Unacked(m)
    BY <2>1, <2>2, <2>6, <2>7 DEF Promise!Unacked, Line
  <2>9. QED
    BY <2>1, <2>6, <2>8 DEF Promise!Next
<1>8. CASE MarkSent \/ MarkFailed
  <2> DEFINE m == worker.id
  <2>1. m \in Ids /\ rows[m].status \in {"pending", "cancelled"}
    BY <1>8 DEF MarkSent, MarkFailed, Backed, WorkerBacked, WorkerOpen, Working
  <2>2. PICK st \in {"sent", "failed"} :
          /\ SetStatus(m, st)
          /\ st = "sent" => hist.acks[m] >= 1
          /\ st = "failed" => hist.nacks[m] >= MAX_ATTEMPTS
    BY <1>8 DEF MarkSent, MarkFailed, Backed, WorkerBacked
  <2>3. hist' = hist /\ now' = now /\ faults' = faults
    BY <1>8 DEF MarkSent, MarkFailed, counters
  <2> HIDE DEF m
  <2>4. Ledger' = [Ledger EXCEPT ![m].status = st]
    BY <2>1, <2>2, <2>3, StatusSet DEF Status
  <2>5. Ledger[m] = Line(m) /\ DOMAIN Ledger = Ids
    BY <2>1 DEF Ledger, Line
  <2>6. Promise!Settle(m, st)
    BY <2>1, <2>2, <2>3, <2>4, <2>5 DEF Promise!Settle, Line
  <2>7. QED
    BY <2>1, <2>5, <2>6 DEF Promise!Next
<1>9. QED
  BY <1>2, <1>3, <1>4, <1>5, <1>6, <1>7, <1>8 DEF WorkerStep

\* A request may take a message back.
LEMMA HandlerStepPromise ==
  ASSUME Known, NEW h \in Handlers, Request(h) \/ HandlerStep(h)
  PROVE  [Promise!Next]_(Promise!vars)
<1> USE DEF Known
<1>1. now' = now /\ faults' = faults /\ hist'.acks = hist.acks /\ hist'.nacks = hist.nacks
        /\ hist'.created = hist.created
  BY DEF Request, HandlerStep, Cancel, MoveToBack, PauseRecipient, CancelUpdates,
         PauseWrites, PauseReadsRows, HandlerReadsBack, HandlerUpdates, HandlerCommits,
         ViewQueue, ViewFindsPause, ViewExpiresPause, counters, TypeOK, Hist
<1>2. CASE rows' = rows
  BY <1>1, <1>2, PromiseStutters DEF Ids
<1>3. CASE CancelUpdates(h)
  <2> DEFINE m == handlers[h].id
  <2>1. m \in Ids /\ SetStatus(m, "cancelled") /\ hist' = hist
    BY <1>3 DEF CancelUpdates, Backed, HandlersBacked
  <2> HIDE DEF m
  <2>2. Ledger' = [Ledger EXCEPT ![m].status = "cancelled"]
    BY <2>1, StatusSet DEF Status
  <2>3. Promise!Cancel(m) /\ DOMAIN Ledger = Ids
    BY <1>1, <2>2 DEF Promise!Cancel, Ledger
  <2>4. QED
    BY <2>1, <2>3 DEF Promise!Next
<1>4. CASE HandlerUpdates(h)
  <2>1. PICK r \in handlers[h].todo :
          RescheduleOutbound(r.id, r.next, r.attempts, handlers[h].back)
    BY <1>4 DEF HandlerUpdates
  <2>2. r.id \in Ids /\ r \in Reschedule /\ handlers[h].back \in Nat
    BY <2>1 DEF Backed, HandlersBacked, TypeOK, Handler
  <2>3. QED
    BY <1>1, <2>1, <2>2, RescheduledRow, RescheduleType, PromiseStutters DEF Reschedule
<1>5. QED
  BY <1>2, <1>3, <1>4
  DEF Request, Cancel, MoveToBack, PauseRecipient, HandlerStep, PauseWrites,
      PauseReadsRows, HandlerReadsBack, HandlerCommits, ViewQueue, ViewFindsPause,
      ViewExpiresPause, table

\* Each packet of a reply is a message accepted.
LEMMA SenderStepPromise ==
  ASSUME Known, TypeOK', NEW s \in Senders, Reply(s) \/ EnqueuePacket(s)
  PROVE  [Promise!Next]_(Promise!vars)
<1> USE DEF Known
<1>1. CASE Reply(s)
  BY <1>1, PromiseStutters DEF Reply, StartReply, table, counters, Ids
<1>2. CASE EnqueuePacket(s)
  <2> DEFINE row == [to_pubkey |-> senders[s].to, priority |-> senders[s].priority,
                     enqueued_at |-> senders[s].at, next_attempt |-> senders[s].at,
                     attempts |-> 0, status |-> "pending"]
             at  == senders[s].at
             line == [status |-> "pending", acks |-> 0, nacks |-> 0, born |-> at]
  <2>1. /\ senders[s].to \in Pubkeys /\ senders[s].priority \in Priorities
        /\ at \in Nat /\ at \in 1 .. now
    <3>1. senders[s].left > 0
      BY <1>2 DEF EnqueuePacket
    <3>2. now \in Nat /\ at \in Nat
      BY DEF TypeOK, Sender
    <3>3. senders[s].to \in Pubkeys /\ senders[s].priority \in Priorities /\ at <= now
      BY <3>1 DEF Backed, SendersBacked
    <3>4. at >= 1
      BY <3>1 DEF Started
    <3>5. QED
      BY <3>2, <3>3, <3>4
  <2>2. row \in OutboundMessage /\ row.status = "pending"
    BY <2>1 DEF OutboundMessage, Status
  <2>3. /\ rows' = Append(rows, row)
        /\ hist'.created = Append(hist.created, at)
        /\ hist'.acks = Append(hist.acks, 0) /\ hist'.nacks = Append(hist.nacks, 0)
        /\ now' = now /\ faults' = faults
    BY <1>2 DEF EnqueuePacket, EnqueueOutbound, counters, TypeOK, Hist
  <2> HIDE DEF row, at
  <2> DEFINE n == Len(rows)
  <2>4. /\ rows \in Seq(OutboundMessage) /\ hist.created \in Seq(Nat)
        /\ hist.acks \in Seq(Nat) /\ hist.nacks \in Seq(Nat) /\ 0 \in Nat
        /\ Len(hist.created) = n /\ Len(hist.acks) = n /\ Len(hist.nacks) = n
    BY DEF TypeOK, Hist
  <2>5. DOMAIN hist.created = Ids /\ DOMAIN hist.acks = Ids /\ DOMAIN hist.nacks = Ids
    BY HistIds
  <2>6. /\ Ids' = Ids \cup {n + 1} /\ n + 1 \notin Ids
        /\ rows'[n + 1] = row /\ \A i \in Ids : rows'[i] = rows[i]
    BY <2>2, <2>3, <2>4, AppendKeeps DEF Ids
  <2>7. hist'.created[n + 1] = at /\ \A i \in Ids : hist'.created[i] = hist.created[i]
    <3>1. hist.created \in Seq(Nat) /\ at \in Nat /\ Len(hist.created) = n
            /\ hist'.created = Append(hist.created, at)
      BY <2>1, <2>3, <2>4
    <3>2. QED
      BY <2>5, <3>1, AppendKeeps
  <2>8. hist'.acks[n + 1] = 0 /\ \A i \in Ids : hist'.acks[i] = hist.acks[i]
    BY <2>3, <2>4, <2>5, AppendKeeps
  <2>9. hist'.nacks[n + 1] = 0 /\ \A i \in Ids : hist'.nacks[i] = hist.nacks[i]
    BY <2>3, <2>4, <2>5, AppendKeeps
  <2>10. n \in Nat /\ Ids = 1 .. n /\ Ids' = 1 .. (n + 1)
    <3>1. n \in Nat /\ Ids = 1 .. n
      BY <2>4, LenProperties DEF Ids
    <3>2. QED
      BY <2>6, <3>1
  <2>11. Ledger' = [i \in 1 .. (n + 1) |-> IF i = n + 1 THEN line ELSE Line(i)]
    BY <2>2, <2>6, <2>7, <2>8, <2>9, <2>10 DEF Ledger, Line
  <2>12. Ledger = [i \in 1 .. n |-> Line(i)]
    BY <2>10 DEF Ledger, Line
  <2> HIDE DEF line, n
  <2> DEFINE Lines == {Line(i) : i \in 1 .. n}
  <2>13. Ledger \in Seq(Lines) /\ Len(Ledger) = n
    <3>1. Ledger \in [1 .. n -> Lines]
      BY <2>12
    <3>2. Ledger \in Seq(Lines)
      BY <2>10, <3>1, SeqDef
    <3>3. DOMAIN Ledger = 1 .. n /\ DOMAIN Ledger = 1 .. Len(Ledger) /\ Len(Ledger) \in Nat
      BY <2>12, <3>2, LenProperties
    <3>4. QED
      BY <2>10, <3>2, <3>3
  <2>14. Ledger' = Append(Ledger, line)
    <3>1. Ledger \in Seq(Lines \cup {line})
      BY <2>13, SeqMonotonic
    <3>2. /\ Append(Ledger, line) \in Seq(Lines \cup {line})
          /\ Len(Append(Ledger, line)) = n + 1
          /\ \A i \in 1 .. n : Append(Ledger, line)[i] = Ledger[i]
          /\ Append(Ledger, line)[n + 1] = line
      BY <2>13, <3>1, AppendProperties
    <3>3. DOMAIN Append(Ledger, line) = 1 .. (n + 1)
      BY <3>2, LenProperties
    <3>4. \A i \in 1 .. (n + 1) : Append(Ledger, line)[i] = Ledger'[i]
      BY <2>10, <2>11, <2>12, <3>2
    <3>5. Append(Ledger, line) = [i \in 1 .. (n + 1) |-> Append(Ledger, line)[i]]
      BY <3>2, <3>3, LenProperties
    <3>6. QED
      BY <2>11, <3>4, <3>5
  <2>15. Promise!Accept(at)
    BY <2>1, <2>3, <2>14 DEF Promise!Accept, line
  <2>16. QED
    BY <2>1, <2>15 DEF Promise!Next
<1>3. QED
  BY <1>1, <1>2

\* Faults are failures, and time passes.
LEMMA SurroundingsPromise ==
  ASSUME Known, Surroundings
  PROVE  [Promise!Next]_(Promise!vars)
<1> USE DEF Known
<1>1. rows' = rows /\ hist'.acks = hist.acks /\ hist'.nacks = hist.nacks
        /\ hist'.created = hist.created
  BY DEF Surroundings, TickRaises, Advance, RadioChanges, CommitElsewhere, Shutdown,
         DrainTimesOut, Exit, Crash, Down, Restart, table, TypeOK, Hist
<1>2. Ids' = Ids /\ Ledger' = Ledger
  BY <1>1, LedgerKept DEF Ids, Line
<1>3. CASE TickRaises \/ DrainTimesOut \/ Crash
  <2>1. faults' = faults + 1 /\ now' = now
    BY <1>3 DEF TickRaises, DrainTimesOut, Crash, Down
  <2>2. QED
    BY <1>2, <2>1 DEF Promise!Next, Promise!Fail
<1>4. CASE Advance
  <2>1. now' = now + 1 /\ faults' = faults
    BY <1>4 DEF Advance, counters
  <2>2. QED
    BY <1>2, <2>1 DEF Promise!Next, Promise!Tick
<1>5. CASE RadioChanges \/ CommitElsewhere \/ Shutdown \/ Exit \/ Restart
  <2>1. now' = now /\ faults' = faults
    BY <1>5 DEF RadioChanges, CommitElsewhere, Shutdown, Exit, Down, Restart, counters
  <2>2. QED
    BY <1>2, <2>1 DEF Promise!vars
<1>6. QED
  BY <1>3, <1>4, <1>5 DEF Surroundings

-----------------------------------------------------------------------------
(* Theorems                                                                *)

\* A recipient who acknowledged a message gets it again only if a crash, a cancelled
\* drain or a database error hid the acknowledgement, whatever the dashboard does.
THEOREM NoDuplicates == Spec => []DuplicatesNeedFaults
<1>1. Known => DuplicatesNeedFaults
  BY DEF Known, AcksCounted, DuplicatesNeedFaults
<1>2. QED
  BY <1>1, AlwaysKnown, PTL

\* The outbound path implements OutboundPromise: with the ledger read off the table and
\* its history, every step is a step of the promise or leaves the ledger alone.
THEOREM KeepsPromise == Spec => PromiseKept
<1>1. Init => Promise!Init
  <2> SUFFICES ASSUME Init PROVE Promise!Init
    OBVIOUS
  <2>1. Ids = {}
    BY DEF Init, Ids
  <2>2. Ledger = <<>>
    BY <2>1 DEF Ledger
  <2>3. QED
    BY <2>2 DEF Init, Promise!Init
<1>2. Known /\ Known' /\ [Next]_vars => [Promise!Next]_(Promise!vars)
  <2> SUFFICES ASSUME Known, Known', [Next]_vars PROVE [Promise!Next]_(Promise!vars)
    OBVIOUS
  <2>1. CASE UNCHANGED vars
    BY <2>1 DEF vars, Promise!vars, Ledger, Ids
  <2>2. CASE Next
    BY <2>2, WorkerStepPromise, HandlerStepPromise, SenderStepPromise, SurroundingsPromise
    DEF Next, Surroundings, Known
  <2>3. QED
    BY <2>1, <2>2
<1>3. QED
  BY <1>1, <1>2, AlwaysKnown, PTL DEF Spec, PromiseKept, Promise!Spec
=============================================================================
