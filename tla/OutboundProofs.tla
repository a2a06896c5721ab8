--------------------------- MODULE OutboundProofs ---------------------------
(***************************************************************************)
(* Proofs that the outbound path keeps its types and that the status of a  *)
(* row is earned, for any number of recipients, tasks, rows and faults.    *)
(***************************************************************************)
EXTENDS OutboundProperties, SequenceTheorems, TLAPS

USE PrioritiesAssumption, MaxTimeAssumption, LimitsAssumption, BackoffAssumption

-----------------------------------------------------------------------------
(* Sequences changed in place                                              *)

\* A function on the indices of a sequence is a sequence of the same length.
LEMMA SameIndices ==
  ASSUME NEW S, NEW T, NEW s \in Seq(S), NEW t \in [DOMAIN s -> T]
  PROVE  t \in Seq(T) /\ Len(t) = Len(s) /\ DOMAIN t = DOMAIN s
<1>1. DOMAIN s = 1 .. Len(s) /\ Len(s) \in Nat
  BY LenProperties
<1>2. t \in Seq(T)
  BY <1>1, SeqDef
<1>3. DOMAIN t = 1 .. Len(t) /\ Len(t) \in Nat
  BY <1>2, LenProperties
<1>4. QED
  BY <1>1, <1>2, <1>3

\* Appending an element keeps the others where they are.
LEMMA AppendKeeps ==
  ASSUME NEW S, NEW s \in Seq(S), NEW e \in S
  PROVE  /\ DOMAIN Append(s, e) = DOMAIN s \cup {Len(s) + 1}
         /\ \A i \in DOMAIN s : Append(s, e)[i] = s[i]
         /\ Append(s, e)[Len(s) + 1] = e
         /\ Len(s) + 1 \notin DOMAIN s
<1>1. DOMAIN s = 1 .. Len(s) /\ Len(s) \in Nat
  BY LenProperties
<1>2. /\ Append(s, e) \in Seq(S) /\ Len(Append(s, e)) = Len(s) + 1
      /\ \A i \in 1 .. Len(s) : Append(s, e)[i] = s[i]
      /\ Append(s, e)[Len(s) + 1] = e
  BY AppendProperties
<1>3. DOMAIN Append(s, e) = 1 .. Len(s) + 1
  BY <1>2, LenProperties
<1>4. QED
  BY <1>1, <1>2, <1>3

-----------------------------------------------------------------------------
(* Types                                                                   *)

\* The process starts well typed, with empty tables.
LEMMA TypeInit == Init => TypeOK
  BY DEF Init, TypeOK, Worker, WorkerPC, WorkerAt, Sender, NoReply, Handler,
         NoRequest, Hist

\* Where the worker may be put.
LEMMA WorkerAtType == \A pc \in WorkerPC : WorkerAt(pc) \in Worker
  BY DEF WorkerAt, Worker

\* A step that only moves the worker on keeps the types.
LEMMA SuspendType ==
  ASSUME TypeOK, NEW w \in Worker, Suspend(w)
  PROVE  TypeOK'
  BY DEF TypeOK, Suspend, table, memory, counters

\* The table is a function from its ids to messages.
LEMMA RowsFunction ==
  ASSUME TypeOK
  PROVE  rows \in [Ids -> OutboundMessage]
  BY LenProperties, SeqDef DEF TypeOK, Ids

\* The updates of the table keep its type and its ids.
LEMMA SetStatusType ==
  ASSUME TypeOK, NEW i, NEW st \in Status, SetStatus(i, st)
  PROVE  rows' \in Seq(OutboundMessage) /\ Len(rows') = Len(rows) /\ Ids' = Ids
<1>1. rows' \in [Ids -> OutboundMessage]
  BY RowsFunction DEF SetStatus, OutboundMessage
<1>2. QED
  BY <1>1, SameIndices DEF TypeOK, Ids

\* ... so does dropping what is old,
LEMMA DropStaleType ==
  ASSUME TypeOK, NEW before, DropStaleOutbound(before)
  PROVE  rows' \in Seq(OutboundMessage) /\ Len(rows') = Len(rows) /\ Ids' = Ids
<1>1. rows' \in [Ids -> OutboundMessage]
  BY RowsFunction DEF DropStaleOutbound, OutboundMessage, Ids, Status
<1>2. QED
  BY <1>1, SameIndices DEF TypeOK, Ids

\* ... and rescheduling a row.
LEMMA RescheduleType ==
  ASSUME TypeOK, NEW i, NEW next \in Nat, NEW att \in Nat, NEW back \in Nat,
         RescheduleOutbound(i, next, att, back)
  PROVE  rows' \in Seq(OutboundMessage) /\ Len(rows') = Len(rows) /\ Ids' = Ids
<1>1. rows' \in [Ids -> OutboundMessage]
  BY RowsFunction DEF RescheduleOutbound, OutboundMessage
<1>2. QED
  BY <1>1, SameIndices DEF TypeOK, Ids

\* Each row of the table is a message.
LEMMA RowTypes ==
  ASSUME TypeOK, NEW i \in Ids
  PROVE  rows[i] \in OutboundMessage
  BY RowsFunction

\* The row the worker is on belongs to a known recipient.
LEMMA RecipientType ==
  ASSUME TypeOK, worker.id \in Ids
  PROVE  Recipient \in Pubkeys
  BY RowTypes DEF Recipient, OutboundMessage

\* The back of the queue is past the clock and past every pending row.
LEMMA BackType ==
  ASSUME TypeOK, NEW b \in BackOfQueue
  PROVE  b \in Nat /\ now < b /\ \A i \in Pending : rows[i].enqueued_at < b
<1>1. now \in Nat /\ \A i \in Pending : rows[i].enqueued_at \in Nat
  BY RowTypes DEF TypeOK, Pending, OutboundMessage
<1>2. PICK u \in {now} \cup {rows[i].enqueued_at : i \in Pending} :
        /\ b = u + 1
        /\ now <= u
        /\ \A i \in Pending : rows[i].enqueued_at <= u
  BY DEF BackOfQueue
<1>3. u \in Nat
  BY <1>1, <1>2
<1>4. QED
  BY <1>1, <1>2, <1>3

\* Counting one more send of a row.
LEMMA CountType ==
  ASSUME NEW f \in Seq(Nat), NEW i \in DOMAIN f
  PROVE  /\ [f EXCEPT ![i] = @ + 1] \in Seq(Nat)
         /\ Len([f EXCEPT ![i] = @ + 1]) = Len(f)
<1>1. f \in [DOMAIN f -> Nat]
  BY LenProperties
<1>2. [f EXCEPT ![i] = @ + 1] \in [DOMAIN f -> Nat]
  BY <1>1
<1>3. QED
  BY <1>2, SameIndices

\* One more entry.
LEMMA OneMore ==
  ASSUME NEW f \in Seq(Nat), NEW e \in Nat
  PROVE  Append(f, e) \in Seq(Nat) /\ Len(Append(f, e)) = Len(f) + 1
  BY AppendProperties

\* Sequences of the same length are functions on the same indices.
LEMMA AlignedSeq ==
  ASSUME NEW A, NEW f \in Seq(A), NEW B, NEW g \in Seq(B), Len(f) = Len(g)
  PROVE  f \in [DOMAIN g -> A] /\ DOMAIN f = DOMAIN g
<1>1. DOMAIN f = 1 .. Len(f) /\ DOMAIN g = 1 .. Len(g)
  BY LenProperties
<1>2. f \in [1 .. Len(f) -> A]
  BY LenProperties
<1>3. QED
  BY <1>1, <1>2

\* The history has an entry for each row.
LEMMA HistIds ==
  ASSUME TypeOK
  PROVE  /\ DOMAIN hist.created = Ids /\ DOMAIN hist.acks = Ids /\ DOMAIN hist.nacks = Ids
         /\ hist.created \in [Ids -> Nat]
         /\ hist.acks \in [Ids -> Nat] /\ hist.nacks \in [Ids -> Nat]
<1>1. /\ rows \in Seq(OutboundMessage)
      /\ hist.created \in Seq(Nat) /\ Len(hist.created) = Len(rows)
      /\ hist.acks \in Seq(Nat) /\ Len(hist.acks) = Len(rows)
      /\ hist.nacks \in Seq(Nat) /\ Len(hist.nacks) = Len(rows)
  BY DEF TypeOK, Hist
<1>2. hist.created \in [Ids -> Nat] /\ DOMAIN hist.created = Ids
  BY <1>1, AlignedSeq DEF Ids
<1>3. hist.acks \in [Ids -> Nat] /\ DOMAIN hist.acks = Ids
  BY <1>1, AlignedSeq DEF Ids
<1>4. hist.nacks \in [Ids -> Nat] /\ DOMAIN hist.nacks = Ids
  BY <1>1, AlignedSeq DEF Ids
<1>5. QED
  BY <1>2, <1>3, <1>4

\* The same for the state a step leads to.
LEMMA NextHistIds ==
  ASSUME TypeOK'
  PROVE  hist'.created \in [Ids' -> Nat] /\ hist'.acks \in [Ids' -> Nat]
           /\ hist'.nacks \in [Ids' -> Nat]
<1>1. /\ rows' \in Seq(OutboundMessage)
      /\ hist'.created \in Seq(Nat) /\ Len(hist'.created) = Len(rows')
      /\ hist'.acks \in Seq(Nat) /\ Len(hist'.acks) = Len(rows')
      /\ hist'.nacks \in Seq(Nat) /\ Len(hist'.nacks) = Len(rows')
  BY DEF TypeOK, Hist
<1>2. hist'.created \in [Ids' -> Nat]
  BY <1>1, AlignedSeq DEF Ids
<1>3. hist'.acks \in [Ids' -> Nat]
  BY <1>1, AlignedSeq DEF Ids
<1>4. hist'.nacks \in [Ids' -> Nat]
  BY <1>1, AlignedSeq DEF Ids
<1>5. QED
  BY <1>2, <1>3, <1>4

\* What the worker records when send_msg returns.
LEMMA SendReturnsType ==
  ASSUME TypeOK, worker.id \in Ids, worker' \in Worker,
         NEW count \in {[hist EXCEPT !.acks[worker.id] = @ + 1],
                        [hist EXCEPT !.nacks[worker.id] = @ + 1]},
         SendReturns(count)
  PROVE  TypeOK'
<1>1. /\ count.created = hist.created /\ count.doneAt = hist.doneAt
      /\ count.until = hist.until /\ count.granted = hist.granted
      /\ count.recent = hist.recent /\ count.raced = hist.raced
      /\ count.acks \in Seq(Nat) /\ Len(count.acks) = Len(rows)
      /\ count.nacks \in Seq(Nat) /\ Len(count.nacks) = Len(rows)
  <2>1. /\ worker.id \in DOMAIN hist.acks /\ worker.id \in DOMAIN hist.nacks
        /\ hist.acks \in Seq(Nat) /\ Len(hist.acks) = Len(rows)
        /\ hist.nacks \in Seq(Nat) /\ Len(hist.nacks) = Len(rows)
    <3>1. DOMAIN hist.acks = Ids /\ DOMAIN hist.nacks = Ids
      BY HistIds
    <3>2. QED
      BY <3>1 DEF TypeOK, Hist
  <2> DEFINE more(f) == [f EXCEPT ![worker.id] = @ + 1]
  <2>2. more(hist.acks) \in Seq(Nat) /\ Len(more(hist.acks)) = Len(rows)
    BY <2>1, CountType
  <2>3. more(hist.nacks) \in Seq(Nat) /\ Len(more(hist.nacks)) = Len(rows)
    BY <2>1, CountType
  <2>4. \/ count = [hist EXCEPT !.acks = more(hist.acks)]
        \/ count = [hist EXCEPT !.nacks = more(hist.nacks)]
    OBVIOUS
  <2>5. /\ hist = [created |-> hist.created, acks |-> hist.acks, nacks |-> hist.nacks,
                   doneAt |-> hist.doneAt, raised |-> hist.raised,
                   until |-> hist.until, granted |-> hist.granted,
                   recent |-> hist.recent, raced |-> hist.raced]
    BY DEF TypeOK, Hist
  <2> HIDE DEF more
  <2>6. CASE count = [hist EXCEPT !.acks = more(hist.acks)]
    BY <2>1, <2>2, <2>5, <2>6
  <2>7. CASE count = [hist EXCEPT !.nacks = more(hist.nacks)]
    BY <2>1, <2>3, <2>5, <2>7
  <2>8. QED
    BY <2>4, <2>6, <2>7
<1>2. count \in Hist
  BY <1>1 DEF Hist, TypeOK
<1>3. Recipient \in Pubkeys /\ now \in Nat
  BY RecipientType DEF TypeOK
<1>4. hist' \in Hist /\ hist'.acks = count.acks /\ hist'.nacks = count.nacks
        /\ hist'.created = count.created
  BY <1>2, <1>3 DEF SendReturns, Hist
<1>5. QED
  BY <1>1, <1>3, <1>4 DEF TypeOK, SendReturns, table, counters

\* Steps that change the table, the worker and nothing else, and commit.
LEMMA RecordType ==
  ASSUME TypeOK, rows' \in Seq(OutboundMessage), Len(rows') = Len(rows),
         worker' \in Worker, Commits,
         UNCHANGED <<now, pause, proc, radio, memory, senders, handlers, counters, hist>>
  PROVE  TypeOK'
  BY DEF TypeOK, Commits, memory, counters

\* Every step of the worker.
LEMMA WorkerStepType ==
  ASSUME TypeOK, Backed, WorkerStep
  PROVE  TypeOK'
<1> USE DEF WorkerPC
<1>1. CASE WorkerStops
  BY <1>1, WorkerAtType, SuspendType DEF WorkerStops
<1>2. CASE StartTick
  <2>1. worker' \in Worker
    BY <1>2, WorkerAtType DEF StartTick, TypeOK, Worker
  <2>2. QED
    BY <1>2, <2>1, DropStaleType, RecordType DEF StartTick
<1>3. CASE ClaimNext
  <2>1. PICK i \in NextOutbound(worker.tick) :
          Suspend([worker EXCEPT !.pc = "pause", !.id = i, !.attempts = rows[i].attempts])
    BY <1>3 DEF ClaimNext
  <2>2. i \in Ids /\ i \in Nat
    BY <2>1, LenProperties DEF NextOutbound, Ready, Pending, Ids, TypeOK
  <2>3. rows[i].attempts \in Nat
    BY <2>2, RowTypes DEF OutboundMessage
  <2>4. [worker EXCEPT !.pc = "pause", !.id = i, !.attempts = rows[i].attempts] \in Worker
    BY <2>2, <2>3 DEF TypeOK, Worker
  <2>5. QED
    BY <2>1, <2>4, SuspendType
<1>4. CASE NothingDue
  BY <1>4, WorkerAtType, SuspendType DEF NothingDue
<1>5. CASE ReadPause
  <2>1. Recipient \in Pubkeys
    BY <1>5, RecipientType DEF ReadPause, Backed, WorkerBacked
  <2>2. pause[Recipient] \in Nat
    BY <2>1 DEF TypeOK
  <2>3. worker' \in Worker /\ hist' \in Hist
          /\ hist'.created = hist.created /\ hist'.acks = hist.acks
          /\ hist'.nacks = hist.nacks
    BY <1>5, <2>2 DEF ReadPause, TypeOK, Worker, Hist
  <2>4. QED
    BY <1>5, <2>3 DEF ReadPause, TypeOK, table, memory, counters
<1>6. CASE PauseStands
  <2>1. [worker EXCEPT !.pc = "decide"] \in Worker
    BY DEF TypeOK, Worker
  <2>2. QED
    BY <1>6, <2>1, SuspendType DEF PauseStands
<1>7. CASE ExpirePause
  <2>1. Recipient \in Pubkeys
    BY <1>7, RecipientType DEF ExpirePause, Backed, WorkerBacked
  <2>2. pause' \in [Pubkeys -> Nat] /\ saved' \in [Pubkeys -> Nat] /\ worker' \in Worker
    BY <1>7, <2>1 DEF ExpirePause, DeletePause, Commits, TypeOK, Worker
  <2>3. QED
    BY <1>7, <2>2 DEF ExpirePause, TypeOK, memory, counters
<1>8. CASE Decide
  <2>1. Recipient \in Pubkeys
    BY <1>8, RecipientType DEF Decide, Backed, WorkerBacked
  <2>2. /\ worker.paused \in Nat
        /\ lastSendTo[Recipient] + RecipientInterval + 1 \in Nat
        /\ now + RadioDelay \in Nat
    BY <2>1 DEF TypeOK, Worker, RadioDelay
  <2>3. \A next \in Nat : PutOff(next) => TypeOK'
    <3>1. SUFFICES ASSUME NEW next \in Nat, PutOff(next) PROVE TypeOK'
      OBVIOUS
    <3>2. [worker EXCEPT !.pc = "back", !.next = next] \in Worker
      BY DEF TypeOK, Worker
    <3>3. QED
      BY <3>1, <3>2, SuspendType DEF PutOff
  <2>4. [worker EXCEPT !.pc = "sending"] \in Worker
    BY DEF TypeOK, Worker
  <2>5. QED
    BY <1>8, <2>2, <2>3, <2>4, SuspendType DEF Decide
<1>9. CASE SendOk
  <2>1. worker' \in Worker
    BY <1>9 DEF SendOk, TypeOK, Worker
  <2>2. QED
    BY <1>9, <2>1, SendReturnsType DEF SendOk, Backed, WorkerBacked
<1>10. CASE SendUnacked
  <2>1. worker.attempts + 1 \in Nat /\ now \in Nat
    BY DEF TypeOK, Worker
  <2>2. ~GivesUp(worker.attempts + 1) => Backoff(worker.attempts + 1) \in Nat
    <3>1. SUFFICES ASSUME ~GivesUp(worker.attempts + 1)
                   PROVE  Backoff(worker.attempts + 1) \in Nat
      OBVIOUS
    <3>2. worker.attempts + 1 \in 1 .. MAX_ATTEMPTS
      BY <3>1 DEF GivesUp, TypeOK, Worker
    <3>3. QED
      BY <3>2
  <2> DEFINE att == worker.attempts + 1
             next == now + Backoff(att)
  <2>3. worker' \in Worker
    <3>1. worker' = IF GivesUp(att) THEN [worker EXCEPT !.pc = "fail", !.sent = TRUE]
                    ELSE [worker EXCEPT !.pc = "back", !.sent = TRUE,
                                        !.attempts = att, !.next = next]
      BY <1>10 DEF SendUnacked
    <3>2. worker \in Worker /\ att \in Nat /\ (~GivesUp(att) => next \in Nat)
      BY <2>1, <2>2 DEF TypeOK
    <3> HIDE DEF att, next
    <3>3. QED
      BY <3>1, <3>2 DEF Worker
  <2>4. QED
    BY <1>10, <2>3, SendReturnsType DEF SendUnacked, Backed, WorkerBacked
<1>11. CASE MarkSent
  BY <1>11, WorkerAtType, SetStatusType, RecordType DEF MarkSent, Status
<1>12. CASE MarkFailed
  <2>1. worker' \in Worker
    BY <1>12, WorkerAtType DEF MarkFailed, Worker
  <2>2. QED
    BY <1>12, <2>1, SetStatusType, RecordType DEF MarkFailed, Status
<1>13. CASE AuditFailed
  <2>1. worker' \in Worker /\ rows \in Seq(OutboundMessage)
    BY <1>13, WorkerAtType DEF AuditFailed, TypeOK
  <2>2. QED
    BY <1>13, <2>1, RecordType DEF AuditFailed
<1>14. CASE RescheduleReadsBack
  <2>1. PICK b \in BackOfQueue : Suspend([worker EXCEPT !.pc = "update", !.back = b])
    BY <1>14 DEF RescheduleReadsBack
  <2>2. [worker EXCEPT !.pc = "update", !.back = b] \in Worker
    BY <2>1, BackType DEF TypeOK, Worker
  <2>3. QED
    BY <2>1, <2>2, SuspendType
<1>15. CASE RescheduleUpdates
  <2>1. worker' \in Worker
    BY <1>15, WorkerAtType DEF RescheduleUpdates
  <2>2. worker.next \in Nat /\ worker.attempts \in Nat /\ worker.back \in Nat
    BY DEF TypeOK, Worker
  <2>3. rows' \in Seq(OutboundMessage) /\ Len(rows') = Len(rows)
    BY <1>15, <2>2, RescheduleType DEF RescheduleUpdates
  <2>4. QED
    BY <1>15, <2>1, <2>3, RecordType DEF RescheduleUpdates
<1>16. CASE GapOver
  BY <1>16, WorkerAtType, SuspendType DEF GapOver
<1>17. QED
  BY <1>1, <1>2, <1>3, <1>4, <1>5, <1>6, <1>7, <1>8, <1>9, <1>10, <1>11, <1>12, <1>13,
     <1>14, <1>15, <1>16 DEF WorkerStep

\* Steps of a dashboard request.
LEMMA RequestRecordType ==
  ASSUME TypeOK, rows' \in Seq(OutboundMessage), Len(rows') = Len(rows),
         pause' \in [Pubkeys -> Nat], saved' \in [Pubkeys -> Nat],
         handlers' \in [Handlers -> Handler],
         requests' \in Nat, hist' \in Hist, hist'.created = hist.created,
         hist'.acks = hist.acks, hist'.nacks = hist.nacks,
         UNCHANGED <<now, proc, radio, worker, memory, senders, faults>>
  PROVE  TypeOK'
  BY DEF TypeOK, memory

\* Every step of a dashboard request.
LEMMA HandlerStepType ==
  ASSUME TypeOK, Backed, NEW h \in Handlers, Request(h) \/ HandlerStep(h)
  PROVE  TypeOK'
<1> USE DEF Handler
<1>1. handlers[h] \in Handler /\ handlers \in [Handlers -> Handler] /\ NoRequest \in Handler
  BY DEF TypeOK, NoRequest
<1>2. \A i \in Ids : i \in Nat /\ rows[i] \in OutboundMessage
  BY RowTypes, LenProperties DEF Ids, TypeOK
<1>3. rows \in Seq(OutboundMessage) /\ pause \in [Pubkeys -> Nat]
        /\ saved \in [Pubkeys -> Nat] /\ hist \in Hist
        /\ requests \in Nat /\ requests + 1 \in Nat
  BY DEF TypeOK
<1>4. ASSUME NEW i \in Ids, Cancel(h, i) PROVE TypeOK'
  <2>1. handlers' \in [Handlers -> Handler]
    BY <1>1, <1>2, <1>4 DEF Cancel, NoRequest
  <2>2. QED
    BY <1>4, <2>1, <1>3, RequestRecordType DEF Cancel, table, counters
<1>5. ASSUME NEW i \in Ids, MoveToBack(h, i) PROVE TypeOK'
  <2>1. [id |-> i, next |-> now, attempts |-> rows[i].attempts] \in Reschedule /\ i \in Nat
    BY <1>2 DEF Reschedule, OutboundMessage, TypeOK
  <2>2. handlers' \in [Handlers -> Handler]
    BY <1>1, <1>5, <2>1 DEF MoveToBack, NoRequest
  <2>3. QED
    BY <1>5, <2>2, <1>3, RequestRecordType DEF MoveToBack, table, counters
<1>6. ASSUME NEW i \in Ids, PauseRecipient(h, i) PROVE TypeOK'
  <2>1. handlers' \in [Handlers -> Handler]
    BY <1>1, <1>2, <1>6 DEF PauseRecipient, NoRequest
  <2>2. QED
    BY <1>6, <2>1, <1>3, RequestRecordType DEF PauseRecipient, table, counters
<1>7. CASE PauseWrites(h)
  <2> DEFINE pk == rows[handlers[h].id].to_pubkey
             until == now + OUTBOUND_PAUSE_SECONDS
  <2>0. handlers[h].id \in Ids
    BY <1>7 DEF PauseWrites, Backed, HandlersBacked
  <2>1. until \in Nat /\ pk \in Pubkeys
    BY <1>2, <2>0 DEF TypeOK, OutboundMessage
  <2>2. /\ handlers' = [handlers EXCEPT ![h].pc = "paused", ![h].until = until]
        /\ hist' = [hist EXCEPT
             !.until[pk] = until, !.recent = @ \cup {pk},
             !.raced = IF IsJudged(pk) THEN @ \cup {pk} ELSE @ \ {pk},
             !.granted[pk] = IF IsJudged(pk) THEN 0 ELSE @]
        /\ pause' = [pause EXCEPT ![pk] = until]
    BY <1>7 DEF PauseWrites
  <2> HIDE DEF pk, until
  <2>3. handlers' \in [Handlers -> Handler]
    BY <1>1, <2>1, <2>2
  <2>4. hist' \in Hist /\ hist'.created = hist.created /\ hist'.acks = hist.acks
          /\ hist'.nacks = hist.nacks
    BY <2>1, <2>2 DEF TypeOK, Hist
  <2>5. pause' \in [Pubkeys -> Nat]
    BY <2>1, <2>2 DEF TypeOK
  <2>6. QED
    BY <1>7, <2>3, <2>4, <2>5, <1>3, RequestRecordType DEF PauseWrites, counters
<1>8. CASE CancelUpdates(h)
  <2>1. handlers' \in [Handlers -> Handler]
    BY <1>1, <1>8 DEF CancelUpdates
  <2>2. rows' \in Seq(OutboundMessage) /\ Len(rows') = Len(rows)
    BY <1>8, SetStatusType DEF CancelUpdates, Status
  <2>3. QED
    BY <1>8, <2>1, <2>2, <1>3, RequestRecordType DEF CancelUpdates, Commits, counters
<1>9. CASE PauseReadsRows(h)
  <2> DEFINE until == handlers[h].until
             mine == {j \in Pending : rows[j].to_pubkey = rows[handlers[h].id].to_pubkey}
             later(j) == IF rows[j].next_attempt > until THEN rows[j].next_attempt ELSE until
             todo == {[id |-> j, next |-> later(j), attempts |-> rows[j].attempts] : j \in mine}
  <2>1. todo \subseteq Reschedule
    BY <1>1, <1>2 DEF Reschedule, OutboundMessage, Pending
  <2>2. handlers' = [handlers EXCEPT ![h].pc = IF mine = {} THEN "commit" ELSE "back",
                                     ![h].todo = todo]
    BY <1>9 DEF PauseReadsRows
  <2> HIDE DEF mine, todo
  <2>3. handlers' \in [Handlers -> Handler]
    BY <1>1, <2>1, <2>2
  <2>4. QED
    BY <1>9, <2>3, <1>3, RequestRecordType DEF PauseReadsRows, table, counters
<1>10. CASE HandlerReadsBack(h)
  <2>1. PICK b \in BackOfQueue :
          handlers' = [handlers EXCEPT ![h].pc = "update", ![h].back = b]
    BY <1>10 DEF HandlerReadsBack
  <2>2. handlers' \in [Handlers -> Handler]
    BY <1>1, <2>1, BackType
  <2>3. QED
    BY <1>10, <2>2, <1>3, RequestRecordType DEF HandlerReadsBack, table, counters
<1>11. CASE HandlerUpdates(h)
  <2> DEFINE rest(r) == [handlers[h] EXCEPT !.pc = "back", !.todo = @ \ {r}, !.back = 0]
             over == [handlers[h] EXCEPT !.pc = "commit", !.todo = {}, !.back = 0]
  <2>1. PICK r \in handlers[h].todo :
          /\ RescheduleOutbound(r.id, r.next, r.attempts, handlers[h].back)
          /\ handlers' = [handlers EXCEPT ![h] =
               IF handlers[h].todo # {r} THEN rest(r)
               ELSE IF handlers[h].until # 0 THEN over ELSE NoRequest]
    BY <1>11 DEF HandlerUpdates
  <2>2. r \in Reschedule /\ handlers[h].back \in Nat
    BY <1>1
  <2>3. rows' \in Seq(OutboundMessage) /\ Len(rows') = Len(rows)
    BY <2>1, <2>2, RescheduleType DEF Reschedule
  <2>4. rest(r) \in Handler /\ over \in Handler
    BY <1>1
  <2> HIDE DEF rest, over
  <2>5. handlers' \in [Handlers -> Handler]
    BY <1>1, <2>1, <2>4
  <2>6. QED
    BY <1>11, <2>3, <2>5, <1>3, RequestRecordType DEF HandlerUpdates, Commits, counters
<1>12. CASE HandlerCommits(h)
  <2>1. rows[handlers[h].id].to_pubkey \in Pubkeys
    <3>1. handlers[h].id \in Ids
      BY <1>12 DEF HandlerCommits, Backed, HandlersBacked
    <3>2. QED
      BY <1>2, <3>1 DEF OutboundMessage
  <2>2. handlers' \in [Handlers -> Handler]
    BY <1>1, <1>12 DEF HandlerCommits
  <2>3. hist' \in Hist /\ hist'.created = hist.created /\ hist'.acks = hist.acks
          /\ hist'.nacks = hist.nacks
    BY <1>3, <1>12, <2>1 DEF HandlerCommits, Hist
  <2>4. QED
    BY <1>12, <2>2, <2>3, <1>3, RequestRecordType DEF HandlerCommits, Commits, counters
<1>13. ASSUME NEW i \in Ids, ViewQueue(h, i) PROVE TypeOK'
  <2>1. i \in Nat /\ pause[rows[i].to_pubkey] \in Nat
    BY <1>2, <1>3 DEF OutboundMessage
  <2>2. handlers' \in [Handlers -> Handler]
    BY <1>1, <1>13, <2>1 DEF ViewQueue, NoRequest
  <2>3. QED
    BY <1>13, <2>2, <1>3, RequestRecordType DEF ViewQueue, table, counters
<1>14. CASE ViewFindsPause(h)
  <2>1. handlers' \in [Handlers -> Handler]
    BY <1>1, <1>14 DEF ViewFindsPause
  <2>2. QED
    BY <1>14, <2>1, <1>3, RequestRecordType DEF ViewFindsPause, table, counters
<1>15. CASE ViewExpiresPause(h)
  <2>1. handlers' \in [Handlers -> Handler]
    BY <1>1, <1>15 DEF ViewExpiresPause
  <2>2. pause' \in [Pubkeys -> Nat] /\ saved' \in [Pubkeys -> Nat]
    BY <1>3, <1>15 DEF ViewExpiresPause, DeletePause, Commits
  <2>3. QED
    BY <1>15, <2>1, <2>2, <1>3, RequestRecordType DEF ViewExpiresPause, counters
<1>16. QED
  BY <1>4, <1>5, <1>6, <1>7, <1>8, <1>9, <1>10, <1>11, <1>12, <1>13, <1>14, <1>15
  DEF HandlerStep, Request

\* Every step of a reply being enqueued.
LEMMA SenderStepType ==
  ASSUME TypeOK, Backed, NEW s \in Senders, Reply(s) \/ EnqueuePacket(s)
  PROVE  TypeOK'
<1>1. /\ senders \in [Senders -> Sender] /\ NoReply \in Sender /\ now \in Nat
      /\ rows \in Seq(OutboundMessage) /\ hist \in Hist
  BY DEF TypeOK, NoReply, Sender
<1>2. CASE Reply(s)
  <2>1. PICK pk \in Pubkeys, prio \in Priorities, n \in 1 .. MaxPackets :
          StartReply(s, pk, prio, n)
    BY <1>2 DEF Reply
  <2>2. [to |-> pk, priority |-> prio, at |-> now, left |-> n] \in Sender
    BY <1>1 DEF Sender
  <2>3. senders' \in [Senders -> Sender]
    BY <1>1, <2>1, <2>2 DEF StartReply
  <2>4. QED
    BY <2>1, <2>3 DEF StartReply, TypeOK, table, memory, counters
<1>3. CASE EnqueuePacket(s)
  <2> DEFINE row == [to_pubkey |-> senders[s].to, priority |-> senders[s].priority,
                     enqueued_at |-> senders[s].at, next_attempt |-> senders[s].at,
                     attempts |-> 0, status |-> "pending"]
  <2>1. senders[s] \in Sender /\ senders[s].left > 0
    BY <1>1, <1>3 DEF EnqueuePacket
  <2>2. row \in OutboundMessage
    BY <2>1 DEF Backed, SendersBacked, Sender, OutboundMessage, Status
  <2>3. rows' = Append(rows, row)
    BY <1>3 DEF EnqueuePacket, EnqueueOutbound
  <2> HIDE DEF row
  <2>4. rows' \in Seq(OutboundMessage) /\ Len(rows') = Len(rows) + 1
    BY <1>1, <2>2, <2>3, AppendProperties
  <2>5. [senders[s] EXCEPT !.left = @ - 1] \in Sender
    BY <2>1 DEF Sender
  <2>6. senders' \in [Senders -> Sender]
    <3>1. senders' = [senders EXCEPT ![s] =
                        IF senders[s].left = 1 THEN NoReply
                        ELSE [senders[s] EXCEPT !.left = @ - 1]]
      BY <1>3 DEF EnqueuePacket
    <3>2. QED
      BY <1>1, <2>5, <3>1
  <2>7. /\ hist' \in Hist
        /\ Len(hist'.created) = Len(rows) + 1
        /\ Len(hist'.acks) = Len(rows) + 1
        /\ Len(hist'.nacks) = Len(rows) + 1
    <3>1. senders[s].at \in Nat /\ 0 \in Nat
      BY <2>1 DEF Sender
    <3>2. /\ hist.created \in Seq(Nat) /\ Len(hist.created) = Len(rows)
          /\ hist.acks \in Seq(Nat) /\ Len(hist.acks) = Len(rows)
          /\ hist.nacks \in Seq(Nat) /\ Len(hist.nacks) = Len(rows)
      BY DEF TypeOK, Hist
    <3>3. /\ Append(hist.created, senders[s].at) \in Seq(Nat)
          /\ Len(Append(hist.created, senders[s].at)) = Len(rows) + 1
      BY <3>1, <3>2, OneMore
    <3>4. Append(hist.acks, 0) \in Seq(Nat) /\ Len(Append(hist.acks, 0)) = Len(rows) + 1
      BY <3>1, <3>2, OneMore
    <3>5. Append(hist.nacks, 0) \in Seq(Nat) /\ Len(Append(hist.nacks, 0)) = Len(rows) + 1
      BY <3>1, <3>2, OneMore
    <3>6. QED
      BY <1>1, <1>3, <3>3, <3>4, <3>5 DEF EnqueuePacket, Hist
  <2>8. QED
    BY <1>3, <2>4, <2>6, <2>7 DEF EnqueuePacket, Commits, TypeOK, memory, counters
<1>4. QED
  BY <1>2, <1>3

\* Time, the radio, faults and the life of the process.
Surroundings ==
  \/ TickRaises \/ Advance \/ RadioChanges \/ CommitElsewhere
  \/ Shutdown \/ DrainTimesOut \/ Exit \/ Crash \/ Restart

\* Every step of the process and its surroundings.
LEMMA SurroundingsType ==
  ASSUME TypeOK, Surroundings
  PROVE  TypeOK'
<1>1. WorkerAt("poll") \in Worker /\ WorkerAt("off") \in Worker
  BY WorkerAtType DEF WorkerPC
<1>2. [s \in Senders |-> NoReply] \in [Senders -> Sender]
  BY DEF NoReply, Sender
<1>3. [h \in Handlers |-> NoRequest] \in [Handlers -> Handler]
  BY DEF NoRequest, Handler
<1>4. CASE TickRaises
  <2>1. hist' \in Hist /\ hist'.created = hist.created /\ hist'.acks = hist.acks
          /\ hist'.nacks = hist.nacks
    BY <1>4 DEF TickRaises, TypeOK, Hist, Worker
  <2>2. /\ faults' = faults + 1 /\ worker' = WorkerAt("poll")
        /\ UNCHANGED <<now, rows, pause, saved, proc, radio, lastSendAt, lastSendTo,
                       senders, handlers, requests>>
    BY <1>4 DEF TickRaises, table, memory
  <2>3. QED
    BY <1>1, <2>1, <2>2 DEF TypeOK
<1>5. CASE Advance
  BY <1>5 DEF Advance, TypeOK, table, tasks, memory, counters
<1>6. CASE RadioChanges
  BY <1>6 DEF RadioChanges, TypeOK, table, tasks, memory, counters
<1>7. CASE Shutdown
  BY <1>2, <1>7 DEF Shutdown, TypeOK, table, memory, counters
<1>8. CASE DrainTimesOut
  BY <1>1, <1>8 DEF DrainTimesOut, TypeOK, table, memory
<1>9. CASE Exit \/ Crash
  <2>1. Down /\ faults' \in Nat
    BY <1>9 DEF Exit, Crash, TypeOK
  <2>2. hist' \in Hist /\ hist'.created = hist.created /\ hist'.acks = hist.acks
          /\ hist'.nacks = hist.nacks
    BY <2>1 DEF Down, TypeOK, Hist
  <2>3. QED
    BY <1>1, <1>2, <1>3, <2>1, <2>2 DEF Down, TypeOK, table
<1>10. CASE Restart
  BY <1>1, <1>10 DEF Restart, TypeOK, table, memory, counters
<1>11. CASE CommitElsewhere
  BY <1>11 DEF CommitElsewhere, Commits, TypeOK, tasks, memory, counters
<1>12. QED
  BY <1>4, <1>5, <1>6, <1>7, <1>8, <1>9, <1>10, <1>11 DEF Surroundings

\* Every step keeps the types.
LEMMA TypeStep == TypeOK /\ Backed /\ [Next]_vars => TypeOK'
<1> SUFFICES ASSUME TypeOK, Backed, [Next]_vars PROVE TypeOK'
  OBVIOUS
<1>1. CASE UNCHANGED vars
  BY <1>1 DEF vars, TypeOK
<1>2. CASE Next
  BY <1>2, WorkerStepType, HandlerStepType, SenderStepType, SurroundingsType
  DEF Next, Surroundings
<1>3. QED
  BY <1>1, <1>2

-----------------------------------------------------------------------------
(* What the tasks remember is backed by the history                        *)

\* No step takes anything back: rows stay, and their history grows.
HistGrows ==
  /\ Ids \subseteq Ids'
  /\ now <= now'
  /\ \A i \in Ids : /\ hist'.created[i] = hist.created[i]
                    /\ hist.acks[i] <= hist'.acks[i]
                    /\ hist.nacks[i] <= hist'.nacks[i]

\* The easy half of it: steps that leave ids and counts alone.
LEMMA QuietGrows ==
  ASSUME TypeOK, Ids' = Ids, now' \in Nat, now <= now',
         hist'.created = hist.created, hist'.acks = hist.acks, hist'.nacks = hist.nacks
  PROVE  HistGrows
<1>1. \A i \in Ids : hist.acks[i] \in Nat /\ hist.nacks[i] \in Nat
  BY HistIds
<1>2. QED
  BY <1>1 DEF HistGrows

\* A step of the worker takes nothing back.
LEMMA WorkerGrows ==
  ASSUME TypeOK, Backed, WorkerStep
  PROVE  HistGrows
<1>1. now \in Nat /\ (now' = now => now' \in Nat /\ now <= now')
  BY DEF TypeOK
<1>2. rows' = rows => Ids' = Ids
  BY DEF Ids
<1>3. \A w : Suspend(w) => HistGrows
  BY <1>1, <1>2, QuietGrows DEF Suspend, table
<1>4. CASE StartTick
  <2>1. Ids' = Ids /\ now' = now /\ hist' = hist
    BY <1>4, DropStaleType DEF StartTick
  <2>2. QED
    BY <2>1, <1>1, QuietGrows
<1>5. CASE ReadPause
  BY <1>1, <1>2, <1>5, QuietGrows DEF ReadPause, Hist, TypeOK, table
<1>6. CASE ExpirePause \/ AuditFailed
  BY <1>1, <1>2, <1>6, QuietGrows DEF ExpirePause, AuditFailed
<1>7. CASE SendOk
  <2>1. hist'.created = hist.created /\ hist'.nacks = hist.nacks
          /\ hist'.acks = [hist.acks EXCEPT ![worker.id] = @ + 1]
    BY <1>7 DEF SendOk, SendReturns, TypeOK, Hist
  <2>2. now' = now /\ Ids' = Ids
    BY <1>2, <1>7 DEF SendOk, SendReturns, table
  <2>3. QED
    BY <1>1, <2>1, <2>2, HistIds DEF HistGrows
<1>8. CASE SendUnacked
  <2>1. hist'.created = hist.created /\ hist'.acks = hist.acks
          /\ hist'.nacks = [hist.nacks EXCEPT ![worker.id] = @ + 1]
    BY <1>8 DEF SendUnacked, SendReturns, TypeOK, Hist
  <2>2. now' = now /\ Ids' = Ids
    BY <1>2, <1>8 DEF SendUnacked, SendReturns, table
  <2>3. QED
    BY <1>1, <2>1, <2>2, HistIds DEF HistGrows
<1>9. CASE MarkSent
  BY <1>1, <1>9, SetStatusType, QuietGrows DEF MarkSent, Status
<1>10. CASE MarkFailed
  BY <1>1, <1>10, SetStatusType, QuietGrows DEF MarkFailed, Status
<1>11. CASE RescheduleUpdates
  <2>1. worker.next \in Nat /\ worker.attempts \in Nat /\ worker.back \in Nat
    BY DEF TypeOK, Worker
  <2>2. Ids' = Ids /\ now' = now /\ hist' = hist
    BY <1>11, <2>1, RescheduleType DEF RescheduleUpdates
  <2>3. QED
    BY <1>1, <2>2, QuietGrows
<1>12. QED
  BY <1>3, <1>4, <1>5, <1>6, <1>7, <1>8, <1>9, <1>10, <1>11
  DEF WorkerStep, WorkerStops, ClaimNext, NothingDue, PauseStands, Decide, PutOff,
      RescheduleReadsBack, GapOver

\* Nor does a step of anything else.
LEMMA OthersGrow ==
  ASSUME TypeOK, Backed,
         \/ \E s \in Senders : Reply(s) \/ EnqueuePacket(s)
         \/ \E h \in Handlers : Request(h) \/ HandlerStep(h)
         \/ Surroundings
  PROVE  HistGrows
<1>1. now \in Nat /\ (now' = now => now' \in Nat /\ now <= now')
  BY DEF TypeOK
<1>2. rows' = rows => Ids' = Ids
  BY DEF Ids
<1>3. ASSUME NEW s \in Senders, Reply(s) PROVE HistGrows
  BY <1>1, <1>2, <1>3, QuietGrows DEF Reply, StartReply, table
<1>4. ASSUME NEW s \in Senders, EnqueuePacket(s) PROVE HistGrows
  <2>1. senders[s].to \in Pubkeys /\ senders[s].priority \in Priorities
          /\ senders[s].at \in Nat
    BY <1>4 DEF EnqueuePacket, Backed, SendersBacked, TypeOK, Sender
  <2> DEFINE row == [to_pubkey |-> senders[s].to, priority |-> senders[s].priority,
                     enqueued_at |-> senders[s].at, next_attempt |-> senders[s].at,
                     attempts |-> 0, status |-> "pending"]
  <2>2. row \in OutboundMessage
    BY <2>1 DEF OutboundMessage, Status
  <2>3. rows' = Append(rows, row) /\ now' = now
          /\ hist'.created = Append(hist.created, senders[s].at)
          /\ hist'.acks = Append(hist.acks, 0) /\ hist'.nacks = Append(hist.nacks, 0)
    BY <1>4 DEF EnqueuePacket, EnqueueOutbound, TypeOK, Hist
  <2> HIDE DEF row
  <2>4. /\ rows \in Seq(OutboundMessage) /\ hist.created \in Seq(Nat)
        /\ hist.acks \in Seq(Nat) /\ hist.nacks \in Seq(Nat)
        /\ Len(hist.created) = Len(rows)
        /\ Len(hist.acks) = Len(rows) /\ Len(hist.nacks) = Len(rows)
    BY DEF TypeOK, Hist
  <2>5. Ids \subseteq Ids'
    BY <2>2, <2>3, <2>4, AppendKeeps DEF Ids
  <2>6. \A i \in Ids : /\ hist'.created[i] = hist.created[i]
                       /\ hist'.acks[i] = hist.acks[i] /\ hist'.nacks[i] = hist.nacks[i]
    <3>1. \A i \in Ids : hist'.created[i] = hist.created[i]
      BY <2>1, <2>3, <2>4, AppendKeeps, HistIds
    <3>2. 0 \in Nat
      OBVIOUS
    <3>3. \A i \in Ids : hist'.acks[i] = hist.acks[i]
      BY <2>3, <2>4, <3>2, AppendKeeps, HistIds
    <3>4. \A i \in Ids : hist'.nacks[i] = hist.nacks[i]
      BY <2>3, <2>4, <3>2, AppendKeeps, HistIds
    <3>5. QED
      BY <3>1, <3>3, <3>4
  <2>7. \A i \in Ids : hist.acks[i] \in Nat /\ hist.nacks[i] \in Nat
    BY HistIds
  <2>8. \A i \in Ids : /\ hist'.created[i] = hist.created[i]
                       /\ hist.acks[i] <= hist'.acks[i]
                       /\ hist.nacks[i] <= hist'.nacks[i]
    BY <2>6, <2>7
  <2>9. QED
    BY <1>1, <2>3, <2>5, <2>8 DEF HistGrows
<1>5. ASSUME NEW h \in Handlers, Request(h) PROVE HistGrows
  BY <1>1, <1>2, <1>5, QuietGrows
  DEF Request, Cancel, MoveToBack, PauseRecipient, ViewQueue, table, TypeOK, Hist
<1>6. ASSUME NEW h \in Handlers, HandlerStep(h) PROVE HistGrows
  <2>1. CASE CancelUpdates(h)
    BY <1>1, <2>1, SetStatusType, QuietGrows DEF CancelUpdates, Status
  <2>2. CASE PauseReadsRows(h) \/ HandlerReadsBack(h)
    BY <1>1, <1>2, <2>2, QuietGrows DEF PauseReadsRows, HandlerReadsBack, table
  <2>3. CASE ViewFindsPause(h) \/ ViewExpiresPause(h)
    BY <1>1, <1>2, <2>3, QuietGrows DEF ViewFindsPause, ViewExpiresPause, table
  <2>4. CASE HandlerCommits(h)
    <3>1. hist'.created = hist.created /\ hist'.acks = hist.acks /\ hist'.nacks = hist.nacks
      BY <2>4 DEF HandlerCommits, TypeOK, Hist
    <3>2. QED
      BY <1>1, <1>2, <2>4, <3>1, QuietGrows DEF HandlerCommits
  <2>5. CASE HandlerUpdates(h)
    <3>1. PICK r \in handlers[h].todo :
            RescheduleOutbound(r.id, r.next, r.attempts, handlers[h].back)
      BY <2>5 DEF HandlerUpdates
    <3>2. r \in Reschedule /\ handlers[h].back \in Nat
      BY <1>6, <3>1 DEF TypeOK, Handler
    <3>3. Ids' = Ids
      BY <3>1, <3>2, RescheduleType DEF Reschedule
    <3>4. QED
      BY <1>1, <2>5, <3>3, QuietGrows DEF HandlerUpdates
  <2>6. CASE PauseWrites(h)
    <3>1. hist'.created = hist.created /\ hist'.acks = hist.acks /\ hist'.nacks = hist.nacks
      BY <2>6 DEF PauseWrites, TypeOK, Hist
    <3>2. QED
      BY <1>1, <1>2, <2>6, <3>1, QuietGrows DEF PauseWrites
  <2>7. QED
    BY <1>6, <2>1, <2>2, <2>3, <2>4, <2>5, <2>6 DEF HandlerStep
<1>7. CASE Surroundings
  <2>1. rows' = rows /\ now' \in Nat /\ now <= now'
    BY <1>7 DEF Surroundings, TickRaises, Advance, RadioChanges, CommitElsewhere,
                Shutdown, DrainTimesOut, Exit, Crash, Down, Restart, table, TypeOK
  <2>2. hist'.created = hist.created /\ hist'.acks = hist.acks /\ hist'.nacks = hist.nacks
    BY <1>7 DEF Surroundings, TickRaises, Advance, RadioChanges, CommitElsewhere,
                Shutdown, DrainTimesOut, Exit, Crash, Down, Restart, table, TypeOK, Hist
  <2>3. QED
    BY <1>2, <2>1, <2>2, QuietGrows
<1>8. QED
  BY <1>3, <1>4, <1>5, <1>6, <1>7

\* A part of the state that a step leaves alone stays backed.
LEMMA RowsKept ==
  ASSUME TypeOK, TypeOK', RowsBacked, HistGrows, rows' = rows
  PROVE  RowsBacked'
<1>1. Ids' = Ids
  BY DEF Ids
<1>2. \A i \in Ids : /\ rows[i].attempts \in Nat
                     /\ hist.nacks[i] \in Nat /\ hist'.nacks[i] \in Nat
                     /\ hist.created[i] \in Nat /\ now \in Nat /\ now' \in Nat
  BY RowTypes, HistIds, NextHistIds, <1>1 DEF OutboundMessage, TypeOK
<1>3. QED
  BY <1>1, <1>2 DEF RowsBacked, HistGrows

\* Where the worker holds no row there is nothing to back.
LEMMA WorkerRested ==
  ASSUME worker'.pc \in {"poll", "claim", "audit", "gap", "stopped", "off"}
  PROVE  WorkerBacked'
  BY DEF WorkerBacked

\* A worker left alone stays backed,
LEMMA WorkerKept ==
  ASSUME TypeOK, TypeOK', WorkerBacked, HistGrows, worker' = worker
  PROVE  WorkerBacked'
<1>1. \A i \in Ids : /\ hist.nacks[i] \in Nat /\ hist'.nacks[i] \in Nat
                     /\ hist.acks[i] \in Nat /\ hist'.acks[i] \in Nat
  BY HistIds, NextHistIds DEF HistGrows
<1>2. worker.attempts \in Nat
  BY DEF TypeOK, Worker
<1>3. QED
  BY <1>1, <1>2 DEF WorkerBacked, HistGrows

\* ... so do the requests left alone,
LEMMA HandlersKept ==
  ASSUME TypeOK, TypeOK', HandlersBacked, HistGrows, handlers' = handlers
  PROVE  HandlersBacked'
<1>1. \A i \in Ids : hist.nacks[i] \in Nat /\ hist'.nacks[i] \in Nat
  BY HistIds, NextHistIds DEF HistGrows
<1>2. \A h \in Handlers : \A r \in handlers[h].todo : r.attempts \in Nat
  BY DEF TypeOK, Handler, Reschedule
<1>3. QED
  BY <1>1, <1>2 DEF HandlersBacked, HistGrows

\* ... and the replies.
LEMMA SendersKept ==
  ASSUME TypeOK, SendersBacked, HistGrows, senders' = senders, now' \in Nat
  PROVE  SendersBacked'
  BY DEF SendersBacked, HistGrows, TypeOK, Sender

\* Updates of the table that leave attempts and enqueued_at alone.
LEMMA RowsRestated ==
  ASSUME TypeOK, TypeOK', RowsBacked, Ids' = Ids, now' = now, hist' = hist,
         \A i \in Ids : /\ rows'[i].attempts = rows[i].attempts
                        /\ rows'[i].enqueued_at = rows[i].enqueued_at
  PROVE  RowsBacked'
  BY DEF RowsBacked

\* mark_sent, mark_failed and cancel_outbound change one status and nothing else.
LEMMA SetStatusRows ==
  ASSUME TypeOK, NEW i \in Ids, NEW st, SetStatus(i, st)
  PROVE  \A j \in Ids : /\ rows'[j].attempts = rows[j].attempts
                        /\ rows'[j].enqueued_at = rows[j].enqueued_at
                        /\ rows'[j].status = IF j = i THEN st ELSE rows[j].status
  BY RowsFunction DEF SetStatus, OutboundMessage

\* reschedule_outbound leaves every status alone.
LEMMA RescheduledRow ==
  ASSUME TypeOK, NEW i \in Ids, NEW next, NEW att, NEW back,
         RescheduleOutbound(i, next, att, back)
  PROVE  \A j \in Ids :
           /\ rows'[j].attempts = IF j = i THEN att ELSE rows[j].attempts
           /\ rows'[j].enqueued_at = IF j = i THEN back ELSE rows[j].enqueued_at
           /\ rows'[j].status = rows[j].status
  BY RowsFunction DEF RescheduleOutbound, OutboundMessage

\* A row is created no later than the back of the queue.
LEMMA CreatedBehind ==
  ASSUME TypeOK, RowsBacked, NEW b \in BackOfQueue
  PROVE  \A i \in Ids : hist.created[i] <= b
<1>1. now \in Nat /\ b \in Nat /\ now < b
  BY BackType DEF TypeOK
<1>2. ASSUME NEW i \in Ids PROVE hist.created[i] <= b
  <2>1. hist.created[i] \in Nat
    BY HistIds
  <2>2. hist.created[i] <= now
    BY DEF RowsBacked
  <2>3. QED
    BY <1>1, <2>1, <2>2
<1>3. QED
  BY <1>2

\* A step of the worker: it carries attempts and back from one statement to the next.
LEMMA WorkerStepBacked ==
  ASSUME TypeOK, TypeOK', Backed, WorkerStep
  PROVE  Backed'
<1> USE DEF Backed
<1>1. HistGrows /\ now' \in Nat
  BY WorkerGrows DEF TypeOK
<1>2. handlers' = handlers /\ senders' = senders
  BY DEF WorkerStep, Suspend, WorkerStops, StartTick, ClaimNext, NothingDue, ReadPause,
         PauseStands, ExpirePause, Decide, PutOff, SendOk, SendUnacked, SendReturns,
         MarkSent, MarkFailed, AuditFailed, RescheduleReadsBack, RescheduleUpdates,
         GapOver
<1>3. HandlersBacked' /\ SendersBacked'
  BY <1>1, <1>2, HandlersKept, SendersKept
<1>4. rows' = rows => RowsBacked'
  BY <1>1, RowsKept
<1>5. CASE WorkerStops \/ NothingDue \/ AuditFailed \/ GapOver
  BY <1>3, <1>4, <1>5, WorkerRested
  DEF WorkerStops, NothingDue, AuditFailed, GapOver, Suspend, WorkerAt, table
<1>6. CASE StartTick
  <2>1. \A i \in Ids : rows'[i].attempts = rows[i].attempts
                         /\ rows'[i].enqueued_at = rows[i].enqueued_at
    BY <1>6, RowTypes DEF StartTick, DropStaleOutbound, OutboundMessage
  <2>2. RowsBacked'
    BY <1>6, <2>1, DropStaleType, RowsRestated DEF StartTick
  <2>3. QED
    BY <1>3, <1>6, <2>2, WorkerRested DEF StartTick, WorkerAt
<1>7. CASE ClaimNext
  <2>1. PICK i \in NextOutbound(worker.tick) :
          Suspend([worker EXCEPT !.pc = "pause", !.id = i, !.attempts = rows[i].attempts])
    BY <1>7 DEF ClaimNext
  <2>2. i \in Ids
    BY <2>1 DEF NextOutbound, Ready, Pending
  <2>3. rows' = rows /\ hist' = hist /\ Ids' = Ids
    BY <2>1 DEF Suspend, table, Ids
  <2>4. worker'.pc = "pause" /\ worker'.id = i /\ worker'.attempts = rows[i].attempts
    BY <2>1 DEF Suspend, TypeOK, Worker
  <2>5. WorkerBacked'
    BY <2>2, <2>3, <2>4 DEF WorkerBacked, RowsBacked
  <2>6. QED
    BY <1>3, <1>4, <2>3, <2>5
<1>8. CASE ReadPause
  <2>1. rows' = rows /\ Ids' = Ids /\ hist'.nacks = hist.nacks
    BY <1>8 DEF ReadPause, TypeOK, Hist, Ids, table
  <2>2. worker'.pc \in {"judge", "decide"} /\ worker'.id = worker.id
          /\ worker'.attempts = worker.attempts
    BY <1>8 DEF ReadPause, TypeOK, Worker
  <2>3. WorkerBacked'
    BY <1>8, <2>1, <2>2 DEF WorkerBacked, ReadPause
  <2>4. QED
    BY <1>3, <1>4, <2>1, <2>3
<1>9. CASE PauseStands \/ ExpirePause
  <2>1. rows' = rows /\ Ids' = Ids /\ hist' = hist
    BY <1>9 DEF PauseStands, ExpirePause, Suspend, Ids, table
  <2>2. worker'.pc = "decide" /\ worker'.id = worker.id
          /\ worker'.attempts = worker.attempts
    BY <1>9 DEF PauseStands, ExpirePause, Suspend, TypeOK, Worker
  <2>3. WorkerBacked'
    BY <1>9, <2>1, <2>2 DEF WorkerBacked, PauseStands, ExpirePause
  <2>4. QED
    BY <1>3, <1>4, <2>1, <2>3
<1>10. CASE Decide
  <2>1. /\ worker'.pc \in {"back", "sending"} /\ worker'.id = worker.id
        /\ worker'.attempts = worker.attempts
    BY <1>10 DEF Decide, PutOff, Suspend, TypeOK, Worker
  <2>2. rows' = rows /\ Ids' = Ids /\ hist' = hist
    BY <1>10 DEF Decide, PutOff, Suspend, table, Ids
  <2>3. WorkerBacked'
    BY <1>10, <2>1, <2>2 DEF WorkerBacked, Decide
  <2>4. QED
    BY <1>3, <1>4, <2>2, <2>3
<1>11. CASE SendOk
  <2>1. worker.id \in Ids /\ worker.attempts <= hist.nacks[worker.id]
    BY <1>11 DEF SendOk, WorkerBacked
  <2>2. rows' = rows /\ Ids' = Ids /\ hist'.nacks = hist.nacks
          /\ hist'.acks = [hist.acks EXCEPT ![worker.id] = @ + 1]
    BY <1>11 DEF SendOk, SendReturns, table, TypeOK, Hist, Ids
  <2>3. worker'.pc = "mark" /\ worker'.id = worker.id
          /\ worker'.attempts = worker.attempts
    BY <1>11 DEF SendOk, TypeOK, Worker
  <2>4. hist'.acks[worker.id] >= 1
    BY <2>1, <2>2, HistIds
  <2>5. WorkerBacked'
    BY <2>1, <2>2, <2>3, <2>4 DEF WorkerBacked
  <2>6. QED
    BY <1>3, <1>4, <2>2, <2>5
<1>12. CASE SendUnacked
  <2> DEFINE att == worker.attempts + 1
  <2>1. worker.id \in Ids /\ worker.attempts <= hist.nacks[worker.id]
    BY <1>12 DEF SendUnacked, WorkerBacked
  <2>2. rows' = rows /\ Ids' = Ids
          /\ hist'.nacks = [hist.nacks EXCEPT ![worker.id] = @ + 1]
    BY <1>12 DEF SendUnacked, SendReturns, table, TypeOK, Hist, Ids
  <2>3. /\ worker'.id = worker.id
        /\ \/ worker'.pc = "fail" /\ worker'.attempts = worker.attempts /\ GivesUp(att)
           \/ worker'.pc = "back" /\ worker'.attempts = att
    BY <1>12 DEF SendUnacked, TypeOK, Worker
  <2>4. att <= hist'.nacks[worker.id] /\ worker.attempts <= hist'.nacks[worker.id]
          /\ hist'.nacks[worker.id] \in Nat /\ att \in Nat
    <3>1. hist.nacks[worker.id] \in Nat /\ worker.attempts \in Nat
      BY <2>1, HistIds DEF TypeOK, Worker
    <3>2. hist'.nacks[worker.id] = hist.nacks[worker.id] + 1
      BY <2>1, <2>2, HistIds
    <3>3. QED
      BY <2>1, <3>1, <3>2
  <2>5. GivesUp(att) => hist'.nacks[worker.id] >= MAX_ATTEMPTS
    BY <2>4 DEF GivesUp
  <2> HIDE DEF att
  <2>6. WorkerBacked'
    BY <2>1, <2>2, <2>3, <2>4, <2>5 DEF WorkerBacked
  <2>7. QED
    BY <1>3, <1>4, <2>2, <2>6
<1>13. CASE MarkSent
  <2>1. worker.id \in Ids
    BY <1>13 DEF MarkSent, WorkerBacked
  <2>2. RowsBacked'
    BY <1>13, <2>1, SetStatusRows, SetStatusType, RowsRestated DEF MarkSent, Status
  <2>3. QED
    BY <1>3, <1>13, <2>2, WorkerRested DEF MarkSent, WorkerAt
<1>14. CASE MarkFailed
  <2>1. worker.id \in Ids
    BY <1>14 DEF MarkFailed, WorkerBacked
  <2>2. RowsBacked'
    BY <1>14, <2>1, SetStatusRows, SetStatusType, RowsRestated DEF MarkFailed, Status
  <2>3. QED
    BY <1>3, <1>14, <2>2, WorkerRested DEF MarkFailed, WorkerAt
<1>15. CASE RescheduleReadsBack
  <2>1. PICK b \in BackOfQueue : Suspend([worker EXCEPT !.pc = "update", !.back = b])
    BY <1>15 DEF RescheduleReadsBack
  <2>2. worker.id \in Ids /\ worker.attempts <= hist.nacks[worker.id]
    BY <1>15 DEF RescheduleReadsBack, WorkerBacked
  <2>3. rows' = rows /\ Ids' = Ids /\ hist' = hist
    BY <2>1 DEF Suspend, table, Ids
  <2>4. worker'.pc = "update" /\ worker'.id = worker.id
          /\ worker'.attempts = worker.attempts /\ worker'.back = b
    BY <2>1 DEF Suspend, TypeOK, Worker
  <2>5. hist.created[worker.id] <= b
    BY <2>1, <2>2, CreatedBehind
  <2>6. WorkerBacked'
    BY <2>2, <2>3, <2>4, <2>5 DEF WorkerBacked
  <2>7. QED
    BY <1>3, <1>4, <2>3, <2>6
<1>16. CASE RescheduleUpdates
  <2>1. /\ worker.id \in Ids /\ worker.attempts <= hist.nacks[worker.id]
        /\ hist.created[worker.id] <= worker.back
    BY <1>16 DEF RescheduleUpdates, WorkerBacked
  <2>2. worker.next \in Nat /\ worker.attempts \in Nat /\ worker.back \in Nat
    BY DEF TypeOK, Worker
  <2>3. RescheduleOutbound(worker.id, worker.next, worker.attempts, worker.back)
          /\ hist' = hist /\ now' = now
    BY <1>16 DEF RescheduleUpdates
  <2>4. Ids' = Ids
    BY <2>2, <2>3, RescheduleType
  <2>5. RowsBacked'
    BY <2>1, <2>3, <2>4, RescheduledRow DEF RowsBacked
  <2>6. QED
    BY <1>3, <1>16, <2>5, WorkerRested DEF RescheduleUpdates, WorkerAt
<1>17. QED
  BY <1>5, <1>6, <1>7, <1>8, <1>9, <1>10, <1>11, <1>12, <1>13, <1>14, <1>15, <1>16
  DEF WorkerStep

\* A step of a request: what it read may be stale, but stays backed.
LEMMA HandlerStepBacked ==
  ASSUME TypeOK, TypeOK', Backed, NEW h \in Handlers, Request(h) \/ HandlerStep(h)
  PROVE  Backed'
<1> USE DEF Backed
<1>1. HistGrows /\ now' \in Nat
  BY OthersGrow DEF TypeOK
<1>2. worker' = worker /\ senders' = senders /\ now' = now
  BY DEF Request, HandlerStep, Cancel, MoveToBack, PauseRecipient, CancelUpdates,
         PauseWrites, PauseReadsRows, HandlerReadsBack, HandlerUpdates, HandlerCommits,
         ViewQueue, ViewFindsPause, ViewExpiresPause
<1>3. WorkerBacked' /\ SendersBacked'
  BY <1>1, <1>2, WorkerKept, SendersKept
<1>4. rows' = rows => RowsBacked' /\ Ids' = Ids
  BY <1>1, RowsKept DEF Ids
\* It remains to look at the request that moves: the others keep what they knew.
<1>5. ASSUME NEW g \in Handlers, g # h, handlers'[g] = handlers[g]
      PROVE  /\ handlers'[g].pc # "idle" => handlers'[g].id \in Ids'
             /\ \A r \in handlers'[g].todo :
                  /\ r.id \in Ids' /\ r.attempts <= hist'.nacks[r.id]
                  /\ handlers'[g].pc = "update"
                       => hist'.created[r.id] <= handlers'[g].back
  <2>1. \A i \in Ids : hist.nacks[i] \in Nat /\ hist'.nacks[i] \in Nat
    BY <1>1, HistIds, NextHistIds DEF HistGrows
  <2>2. \A r \in handlers[g].todo : r.attempts \in Nat
    <3>1. handlers[g] \in Handler
      BY DEF TypeOK
    <3>2. handlers[g].todo \subseteq Reschedule
      BY <3>1 DEF Handler
    <3>3. QED
      BY <3>2 DEF Reschedule
  <2>3. handlers'[g].pc # "idle" => handlers'[g].id \in Ids'
    BY <1>1, <1>5 DEF HandlersBacked, HistGrows
  <2>4. ASSUME NEW r \in handlers'[g].todo
        PROVE  /\ r.id \in Ids' /\ r.attempts <= hist'.nacks[r.id]
               /\ handlers'[g].pc = "update" => hist'.created[r.id] <= handlers'[g].back
    <3>1. /\ r.id \in Ids /\ r.attempts <= hist.nacks[r.id]
          /\ handlers[g].pc = "update" => hist.created[r.id] <= handlers[g].back
      BY <1>5, <2>4 DEF HandlersBacked
    <3>2. /\ r.id \in Ids' /\ hist.nacks[r.id] <= hist'.nacks[r.id]
          /\ hist'.created[r.id] = hist.created[r.id]
      BY <1>1, <3>1 DEF HistGrows
    <3>3. r.attempts <= hist'.nacks[r.id]
      BY <1>5, <2>1, <2>2, <2>4, <3>1, <3>2
    <3>4. QED
      BY <1>5, <3>1, <3>2, <3>3
  <2>5. QED
    BY <2>3, <2>4
<1>6. ASSUME /\ \A g \in Handlers \ {h} : handlers'[g] = handlers[g]
             /\ handlers'[h].pc # "idle" => handlers'[h].id \in Ids'
             /\ \A r \in handlers'[h].todo :
                  /\ r.id \in Ids' /\ r.attempts <= hist'.nacks[r.id]
                  /\ handlers'[h].pc = "update"
                       => hist'.created[r.id] <= handlers'[h].back
      PROVE  HandlersBacked'
  BY <1>5, <1>6 DEF HandlersBacked
<1>7. handlers \in [Handlers -> Handler] /\ handlers[h] \in Handler
  BY DEF TypeOK
<1>8. ASSUME NEW i \in Ids, Cancel(h, i) PROVE Backed'
  <2>1. handlers'[h].id = i /\ handlers'[h].todo = {}
          /\ \A g \in Handlers \ {h} : handlers'[g] = handlers[g]
    BY <1>7, <1>8 DEF Cancel, NoRequest
  <2>2. rows' = rows
    BY <1>8 DEF Cancel, table
  <2>3. QED
    BY <1>3, <1>4, <1>6, <2>1, <2>2
<1>9. ASSUME NEW i \in Ids, MoveToBack(h, i) PROVE Backed'
  <2> DEFINE r == [id |-> i, next |-> now, attempts |-> rows[i].attempts]
  <2>1. handlers'[h].pc = "back" /\ handlers'[h].id = i /\ handlers'[h].todo = {r}
          /\ \A g \in Handlers \ {h} : handlers'[g] = handlers[g]
    BY <1>7, <1>9 DEF MoveToBack, NoRequest
  <2>2. rows' = rows /\ hist' = hist
    BY <1>9 DEF MoveToBack, table
  <2>3. r.id = i /\ r.attempts <= hist.nacks[i]
    BY DEF RowsBacked
  <2> HIDE DEF r
  <2>4. QED
    BY <1>3, <1>4, <1>6, <2>1, <2>2, <2>3
<1>10. ASSUME NEW i \in Ids, PauseRecipient(h, i) PROVE Backed'
  <2>1. handlers'[h].id = i /\ handlers'[h].todo = {}
          /\ \A g \in Handlers \ {h} : handlers'[g] = handlers[g]
    BY <1>7, <1>10 DEF PauseRecipient, NoRequest
  <2>2. rows' = rows
    BY <1>10 DEF PauseRecipient, table
  <2>3. QED
    BY <1>3, <1>4, <1>6, <2>1, <2>2
<1>11. CASE PauseWrites(h)
  <2>1. handlers'[h].id = handlers[h].id /\ handlers'[h].todo = handlers[h].todo
          /\ handlers'[h].pc = "paused"
          /\ \A g \in Handlers \ {h} : handlers'[g] = handlers[g]
    BY <1>7, <1>11 DEF PauseWrites, Handler
  <2>2. rows' = rows /\ hist'.nacks = hist.nacks
    BY <1>11 DEF PauseWrites, TypeOK, Hist
  <2>3. handlers[h].id \in Ids
          /\ \A r \in handlers[h].todo : r.id \in Ids /\ r.attempts <= hist.nacks[r.id]
    BY <1>11 DEF PauseWrites, HandlersBacked
  <2>4. QED
    BY <1>3, <1>4, <1>6, <2>1, <2>2, <2>3
<1>12. CASE CancelUpdates(h)
  <2>1. handlers[h].id \in Ids
    BY <1>12 DEF CancelUpdates, HandlersBacked
  <2>2. RowsBacked'
    BY <1>2, <1>12, <2>1, SetStatusRows, SetStatusType, RowsRestated
    DEF CancelUpdates, Status
  <2>3. handlers'[h].pc = "idle" /\ handlers'[h].todo = {}
          /\ \A g \in Handlers \ {h} : handlers'[g] = handlers[g]
    BY <1>7, <1>12 DEF CancelUpdates, NoRequest
  <2>4. QED
    BY <1>3, <1>6, <2>2, <2>3
<1>13. CASE PauseReadsRows(h)
  <2>1. rows' = rows /\ hist' = hist
    BY <1>13 DEF PauseReadsRows, table
  <2>2. /\ handlers'[h].pc \in {"commit", "back"} /\ handlers'[h].id = handlers[h].id
        /\ \A r \in handlers'[h].todo : \E i \in Ids : r.id = i /\ r.attempts = rows[i].attempts
        /\ \A g \in Handlers \ {h} : handlers'[g] = handlers[g]
    BY <1>7, <1>13 DEF PauseReadsRows, Handler, Pending
  <2>3. \A r \in handlers'[h].todo : r.id \in Ids' /\ r.attempts <= hist'.nacks[r.id]
    BY <1>4, <2>1, <2>2 DEF RowsBacked
  <2>4. handlers[h].id \in Ids
    BY <1>13 DEF PauseReadsRows, HandlersBacked
  <2>5. QED
    BY <1>3, <1>4, <1>6, <2>1, <2>2, <2>3, <2>4
<1>14. CASE HandlerReadsBack(h)
  <2>1. PICK b \in BackOfQueue :
          handlers' = [handlers EXCEPT ![h].pc = "update", ![h].back = b]
    BY <1>14 DEF HandlerReadsBack
  <2>2. rows' = rows /\ hist' = hist
    BY <1>14 DEF HandlerReadsBack, table
  <2>3. handlers'[h].pc = "update" /\ handlers'[h].todo = handlers[h].todo
          /\ handlers'[h].back = b /\ handlers'[h].id = handlers[h].id
          /\ \A g \in Handlers \ {h} : handlers'[g] = handlers[g]
    BY <1>7, <2>1 DEF Handler
  <2>4. handlers[h].id \in Ids
          /\ \A r \in handlers[h].todo : r.id \in Ids /\ r.attempts <= hist.nacks[r.id]
    BY <1>14 DEF HandlersBacked, HandlerReadsBack
  <2>5. \A i \in Ids : hist.created[i] <= b
    BY <2>1, CreatedBehind
  <2>6. QED
    BY <1>3, <1>4, <1>6, <2>2, <2>3, <2>4, <2>5
<1>15. CASE HandlerUpdates(h)
  <2>1. PICK r \in handlers[h].todo :
          /\ RescheduleOutbound(r.id, r.next, r.attempts, handlers[h].back)
          /\ handlers' = [handlers EXCEPT ![h] =
               IF handlers[h].todo # {r}
                 THEN [handlers[h] EXCEPT !.pc = "back", !.todo = @ \ {r}, !.back = 0]
               ELSE IF handlers[h].until # 0
                 THEN [handlers[h] EXCEPT !.pc = "commit", !.todo = {}, !.back = 0]
               ELSE NoRequest]
    BY <1>15 DEF HandlerUpdates
  <2>2. r \in Reschedule /\ handlers[h].back \in Nat
    BY <1>7, <2>1 DEF Handler
  <2>3. handlers[h].id \in Ids
          /\ \A q \in handlers[h].todo : q.id \in Ids /\ q.attempts <= hist.nacks[q.id]
    BY <1>15 DEF HandlersBacked, HandlerUpdates
  <2>4. r.id \in Ids /\ r.attempts <= hist.nacks[r.id]
          /\ hist.created[r.id] <= handlers[h].back
    BY <1>15, <2>1 DEF HandlerUpdates, HandlersBacked
  <2>5. Ids' = Ids /\ hist' = hist
    BY <1>15, <2>1, <2>2, RescheduleType DEF Reschedule, HandlerUpdates
  <2>6. RowsBacked'
    BY <1>2, <2>1, <2>4, <2>5, RescheduledRow DEF RowsBacked
  <2>7. /\ \/ handlers'[h].pc = "idle"
           \/ handlers'[h].pc \in {"commit", "back"} /\ handlers'[h].id = handlers[h].id
        /\ handlers'[h].todo \subseteq handlers[h].todo
        /\ \A g \in Handlers \ {h} : handlers'[g] = handlers[g]
    BY <1>7, <2>1 DEF NoRequest, Handler
  <2>8. QED
    BY <1>3, <1>6, <2>3, <2>5, <2>6, <2>7
\* Nothing is left to do where the request ends.
<1>16. ASSUME rows' = rows, handlers' = [handlers EXCEPT ![h] = NoRequest] PROVE Backed'
  <2>1. handlers'[h].pc = "idle" /\ handlers'[h].todo = {}
          /\ \A g \in Handlers \ {h} : handlers'[g] = handlers[g]
    BY <1>7, <1>16 DEF NoRequest
  <2>2. QED
    BY <1>3, <1>4, <1>6, <1>16, <2>1
<1>17. CASE HandlerCommits(h) \/ ViewFindsPause(h) \/ ViewExpiresPause(h)
  BY <1>16, <1>17 DEF HandlerCommits, ViewFindsPause, ViewExpiresPause, table
<1>18. ASSUME NEW i \in Ids, ViewQueue(h, i) PROVE Backed'
  <2>1. handlers'[h].id = i /\ handlers'[h].pc = "judge" /\ handlers'[h].todo = {}
          /\ \A g \in Handlers \ {h} : handlers'[g] = handlers[g]
    BY <1>7, <1>18 DEF ViewQueue, NoRequest
  <2>2. rows' = rows
    BY <1>18 DEF ViewQueue, table
  <2>3. QED
    BY <1>3, <1>4, <1>6, <2>1, <2>2
<1>19. QED
  BY <1>8, <1>9, <1>10, <1>11, <1>12, <1>13, <1>14, <1>15, <1>17, <1>18
  DEF Request, HandlerStep

\* A step of a reply: a fresh row has nothing to answer for.
LEMMA SenderStepBacked ==
  ASSUME TypeOK, TypeOK', Backed, NEW s \in Senders, Reply(s) \/ EnqueuePacket(s)
  PROVE  Backed'
<1> USE DEF Backed
<1>1. HistGrows /\ now' = now /\ now \in Nat
  BY OthersGrow DEF TypeOK, Reply, StartReply, EnqueuePacket
<1>2. worker' = worker /\ handlers' = handlers
  BY DEF Reply, StartReply, EnqueuePacket
<1>3. WorkerBacked' /\ HandlersBacked'
  BY <1>1, <1>2, WorkerKept, HandlersKept
<1>4. senders \in [Senders -> Sender]
  BY DEF TypeOK
<1>5. CASE Reply(s)
  <2>1. PICK pk \in Pubkeys, prio \in Priorities, n \in 1 .. MaxPackets :
          StartReply(s, pk, prio, n)
    BY <1>5 DEF Reply
  <2>2. SendersBacked'
    BY <1>1, <1>4, <2>1 DEF StartReply, SendersBacked
  <2>3. RowsBacked'
    BY <1>1, <2>1, RowsKept DEF StartReply, table
  <2>4. QED
    BY <1>3, <2>2, <2>3
<1>6. CASE EnqueuePacket(s)
  <2> DEFINE row == [to_pubkey |-> senders[s].to, priority |-> senders[s].priority,
                     enqueued_at |-> senders[s].at, next_attempt |-> senders[s].at,
                     attempts |-> 0, status |-> "pending"]
             at  == senders[s].at
  <2>1. /\ senders[s].to \in Pubkeys /\ senders[s].priority \in Priorities
        /\ at <= now /\ at \in Nat
    BY <1>4, <1>6 DEF EnqueuePacket, SendersBacked, Sender
  <2>2. row \in OutboundMessage /\ row.attempts = 0 /\ row.enqueued_at = at
    BY <2>1 DEF OutboundMessage, Status
  <2>3. rows' = Append(rows, row)
          /\ hist'.created = Append(hist.created, at)
          /\ hist'.nacks = Append(hist.nacks, 0)
    BY <1>6 DEF EnqueuePacket, EnqueueOutbound, TypeOK, Hist
  <2> HIDE DEF row, at
  <2>4. /\ rows \in Seq(OutboundMessage) /\ hist.created \in Seq(Nat)
        /\ hist.nacks \in Seq(Nat) /\ 0 \in Nat
        /\ Len(hist.created) = Len(rows) /\ Len(hist.nacks) = Len(rows)
    BY DEF TypeOK, Hist
  <2>5. /\ Ids' = Ids \cup {Len(rows) + 1} /\ Len(rows) + 1 \notin Ids
        /\ rows'[Len(rows) + 1] = row
        /\ \A i \in Ids : rows'[i] = rows[i]
    BY <2>2, <2>3, <2>4, AppendKeeps DEF Ids
  <2>6. hist'.created[Len(rows) + 1] = at /\ hist'.nacks[Len(rows) + 1] = 0
    BY <2>1, <2>3, <2>4, AppendKeeps
  <2>7. \A i \in Ids : hist'.created[i] = hist.created[i] /\ hist'.nacks[i] = hist.nacks[i]
    <3>1. DOMAIN hist.created = Ids /\ DOMAIN hist.nacks = Ids
      BY HistIds
    <3>2. \A i \in Ids : hist'.created[i] = hist.created[i]
      BY <2>1, <2>3, <2>4, <3>1, AppendKeeps
    <3>3. \A i \in Ids : hist'.nacks[i] = hist.nacks[i]
      BY <2>3, <2>4, <3>1, AppendKeeps
    <3>4. QED
      BY <3>2, <3>3
  <2>8. RowsBacked'
    BY <1>1, <2>1, <2>2, <2>5, <2>6, <2>7 DEF RowsBacked
  <2>9. SendersBacked'
    <3>1. senders' = [senders EXCEPT ![s] =
                        IF senders[s].left = 1 THEN NoReply
                        ELSE [senders[s] EXCEPT !.left = @ - 1]]
      BY <1>6 DEF EnqueuePacket
    <3>2. NoReply.left = 0
      BY DEF NoReply
    <3>3. senders[s] \in Sender
      BY <1>4
    <3>4. senders'[s].left > 0 => /\ senders'[s].to = senders[s].to
                                 /\ senders'[s].priority = senders[s].priority
                                 /\ senders'[s].at = senders[s].at
      BY <1>4, <3>1, <3>2, <3>3 DEF Sender
    <3>5. \A r \in Senders \ {s} : senders'[r] = senders[r]
      BY <1>4, <3>1
    <3>6. senders[s].left > 0
      BY <1>6 DEF EnqueuePacket
    <3> HIDE DEF Backed
    <3>7. SendersBacked
      BY DEF Backed
    <3>8. QED
      BY <1>1, <3>4, <3>5, <3>6, <3>7 DEF SendersBacked
  <2>10. QED
    BY <1>3, <2>8, <2>9
<1>7. QED
  BY <1>5, <1>6

\* A crash, a signal, a fault or the clock: memory is lost, nothing is invented.
LEMMA SurroundingsBacked ==
  ASSUME TypeOK, TypeOK', Backed, Surroundings
  PROVE  Backed'
<1> USE DEF Backed
<1>1. HistGrows /\ now' \in Nat /\ rows' = rows
  BY OthersGrow DEF TypeOK, Surroundings, TickRaises, Advance, RadioChanges,
                    CommitElsewhere, Shutdown, DrainTimesOut, Exit, Crash, Down,
                    Restart, table
<1>2. RowsBacked'
  BY <1>1, RowsKept
<1>3. WorkerBacked'
  <2>1. worker' = worker \/ \E pc \in {"poll", "off"} : worker' = WorkerAt(pc)
    BY DEF Surroundings, TickRaises, Advance, RadioChanges, CommitElsewhere, Shutdown,
           DrainTimesOut, Exit, Crash, Down, Restart, tasks
  <2>2. QED
    BY <1>1, <2>1, WorkerKept, WorkerRested DEF WorkerAt
<1>4. HandlersBacked'
  <2>1. handlers' = handlers \/ handlers' = [h \in Handlers |-> NoRequest]
    BY DEF Surroundings, TickRaises, Advance, RadioChanges, CommitElsewhere, Shutdown,
           DrainTimesOut, Exit, Crash, Down, Restart, tasks
  <2>2. handlers' = [h \in Handlers |-> NoRequest] => HandlersBacked'
    BY DEF HandlersBacked, NoRequest
  <2>3. QED
    BY <1>1, <2>1, <2>2, HandlersKept
<1>5. SendersBacked'
  <2>1. senders' = senders \/ senders' = [s \in Senders |-> NoReply]
    BY DEF Surroundings, TickRaises, Advance, RadioChanges, CommitElsewhere, Shutdown,
           DrainTimesOut, Exit, Crash, Down, Restart, tasks
  <2>2. senders' = [s \in Senders |-> NoReply] => SendersBacked'
    BY DEF SendersBacked, NoReply
  <2>3. QED
    BY <1>1, <2>1, <2>2, SendersKept
<1>6. QED
  BY <1>2, <1>3, <1>4, <1>5

\* Nothing is remembered at the start.
LEMMA BackedInit == Init => Backed
  BY DEF Init, Backed, RowsBacked, WorkerBacked, HandlersBacked, SendersBacked, Ids,
         WorkerAt, NoReply, NoRequest

\* Every step keeps what is remembered backed.
LEMMA BackedStep == TypeOK /\ TypeOK' /\ Backed /\ [Next]_vars => Backed'
<1> SUFFICES ASSUME TypeOK, TypeOK', Backed, [Next]_vars PROVE Backed'
  OBVIOUS
<1>1. CASE UNCHANGED vars
  BY <1>1 DEF vars, Backed, RowsBacked, WorkerBacked, HandlersBacked, SendersBacked, Ids
<1>2. CASE Next
  BY <1>2, WorkerStepBacked, HandlerStepBacked, SenderStepBacked, SurroundingsBacked
  DEF Next, Surroundings
<1>3. QED
  BY <1>1, <1>2

-----------------------------------------------------------------------------
(* A status is earned                                                      *)

\* What a step may do to the status of row i: nothing, or set it on evidence.
StatusMoves(i) ==
  \/ i \in Ids /\ rows'[i].status = rows[i].status
  \/ rows'[i].status \in {"pending", "cancelled"}
  \/ i \in Ids /\ rows'[i].status = "sent" /\ hist.acks[i] >= 1
  \/ i \in Ids /\ rows'[i].status = "failed" /\ hist.nacks[i] >= MAX_ATTEMPTS
  \/ i \in Ids /\ rows'[i].status = "dropped" /\ now > hist.created[i] + MAX_AGE_SECONDS

\* The worker records an outcome only with its evidence, and drops only what is old.
LEMMA WorkerMovesStatus ==
  ASSUME TypeOK, Backed, WorkerStep
  PROVE  \A i \in Ids' : StatusMoves(i)
<1> USE DEF StatusMoves
<1>1. (rows' = rows) => \A i \in Ids' : StatusMoves(i)
  BY DEF Ids
<1>2. CASE StartTick
  <2>1. Ids' = Ids /\ DropStaleOutbound(now - MAX_AGE_SECONDS)
    BY <1>2, DropStaleType DEF StartTick
  <2>2. \A i \in Ids :
          \/ rows'[i].status = rows[i].status
          \/ rows'[i].status = "dropped" /\ rows[i].enqueued_at < now - MAX_AGE_SECONDS
    BY <2>1, RowTypes DEF DropStaleOutbound, OutboundMessage
  <2>3. \A i \in Ids : /\ hist.created[i] \in Nat /\ rows[i].enqueued_at \in Nat
                       /\ hist.created[i] <= rows[i].enqueued_at
    BY HistIds, RowTypes DEF Backed, RowsBacked, OutboundMessage
  <2>4. now \in Nat
    BY DEF TypeOK
  <2>5. \A i \in Ids : rows[i].enqueued_at < now - MAX_AGE_SECONDS
                       => now > hist.created[i] + MAX_AGE_SECONDS
    BY <2>3, <2>4
  <2>6. QED
    BY <2>1, <2>2, <2>5
<1>3. CASE MarkSent
  <2>1. worker.id \in Ids /\ hist.acks[worker.id] >= 1
    BY <1>3 DEF MarkSent, Backed, WorkerBacked
  <2>2. QED
    BY <1>3, <2>1, SetStatusRows, SetStatusType DEF MarkSent, Status
<1>4. CASE MarkFailed
  <2>1. worker.id \in Ids /\ hist.nacks[worker.id] >= MAX_ATTEMPTS
    BY <1>4 DEF MarkFailed, Backed, WorkerBacked
  <2>2. QED
    BY <1>4, <2>1, SetStatusRows, SetStatusType DEF MarkFailed, Status
<1>5. CASE RescheduleUpdates
  <2>1. worker.id \in Ids
    BY <1>5 DEF RescheduleUpdates, Backed, WorkerBacked
  <2>2. worker.next \in Nat /\ worker.attempts \in Nat /\ worker.back \in Nat
    BY DEF TypeOK, Worker
  <2>3. QED
    BY <1>5, <2>1, <2>2, RescheduledRow, RescheduleType DEF RescheduleUpdates
<1>6. QED
  BY <1>1, <1>2, <1>3, <1>4, <1>5
  DEF WorkerStep, Suspend, WorkerStops, ClaimNext, NothingDue, ReadPause, PauseStands,
      ExpirePause, Decide, PutOff, SendOk, SendUnacked, SendReturns, AuditFailed,
      RescheduleReadsBack, GapOver, table

\* The other tasks only insert pending rows and cancel.
LEMMA OthersMoveStatus ==
  ASSUME TypeOK, Backed,
         \/ \E s \in Senders : Reply(s) \/ EnqueuePacket(s)
         \/ \E h \in Handlers : Request(h) \/ HandlerStep(h)
         \/ Surroundings
  PROVE  \A i \in Ids' : StatusMoves(i)
<1> USE DEF StatusMoves
<1>1. (rows' = rows) => \A i \in Ids' : StatusMoves(i)
  BY DEF Ids
<1>2. ASSUME NEW s \in Senders, EnqueuePacket(s) PROVE \A i \in Ids' : StatusMoves(i)
  <2> DEFINE row == [to_pubkey |-> senders[s].to, priority |-> senders[s].priority,
                     enqueued_at |-> senders[s].at, next_attempt |-> senders[s].at,
                     attempts |-> 0, status |-> "pending"]
  <2>1. row \in OutboundMessage
    BY <1>2 DEF EnqueuePacket, Backed, SendersBacked, TypeOK, Sender, OutboundMessage, Status
  <2>2. rows' = Append(rows, row) /\ row.status = "pending"
    BY <1>2 DEF EnqueuePacket, EnqueueOutbound
  <2> HIDE DEF row
  <2>3. rows \in Seq(OutboundMessage)
    BY DEF TypeOK
  <2>4. QED
    BY <2>1, <2>2, <2>3, AppendKeeps DEF Ids
<1>3. ASSUME NEW h \in Handlers, CancelUpdates(h) PROVE \A i \in Ids' : StatusMoves(i)
  <2>1. handlers[h].id \in Ids
    BY <1>3 DEF CancelUpdates, Backed, HandlersBacked
  <2>2. QED
    BY <1>3, <2>1, SetStatusRows, SetStatusType DEF CancelUpdates, Status
<1>4. ASSUME NEW h \in Handlers, HandlerUpdates(h) PROVE \A i \in Ids' : StatusMoves(i)
  <2>1. PICK r \in handlers[h].todo :
          RescheduleOutbound(r.id, r.next, r.attempts, handlers[h].back)
    BY <1>4 DEF HandlerUpdates
  <2>2. r.id \in Ids /\ r \in Reschedule /\ handlers[h].back \in Nat
    BY <2>1 DEF Backed, HandlersBacked, TypeOK, Handler
  <2>3. QED
    BY <2>1, <2>2, RescheduledRow, RescheduleType DEF Reschedule
<1>5. QED
  BY <1>1, <1>2, <1>3, <1>4
  DEF Reply, StartReply, Request, Cancel, MoveToBack, PauseRecipient, HandlerStep,
      PauseWrites, PauseReadsRows, HandlerReadsBack, HandlerCommits, ViewQueue,
      ViewFindsPause, ViewExpiresPause, Surroundings, TickRaises, Advance, RadioChanges,
      CommitElsewhere, Shutdown, DrainTimesOut, Exit, Crash, Down, Restart, table

\* Evidence is never taken back, so a status once earned stays earned.
LEMMA EarnedStep ==
  TypeOK /\ TypeOK' /\ Backed /\ StatusIsEarned /\ [Next]_vars => StatusIsEarned'
<1> SUFFICES ASSUME TypeOK, TypeOK', Backed, StatusIsEarned, [Next]_vars
             PROVE  StatusIsEarned'
  OBVIOUS
<1>1. CASE UNCHANGED vars
  BY <1>1 DEF vars, StatusIsEarned, SentWasAcked, FailedWasTried, DroppedWasOld, Ids
<1>2. CASE Next
  <2>1. \A i \in Ids' : StatusMoves(i)
    BY <1>2, WorkerMovesStatus, OthersMoveStatus DEF Next, Surroundings
  <2>2. HistGrows
    BY <1>2, WorkerGrows, OthersGrow DEF Next, Surroundings
  <2>3. \A i \in Ids : /\ hist.acks[i] \in Nat /\ hist'.acks[i] \in Nat
                       /\ hist.nacks[i] \in Nat /\ hist'.nacks[i] \in Nat
                       /\ hist.created[i] \in Nat /\ hist'.created[i] \in Nat
    BY <2>2, HistIds, NextHistIds DEF HistGrows
  <2>4. now \in Nat /\ now' \in Nat
    BY DEF TypeOK
  <2>5. SentWasAcked'
    BY <2>1, <2>2, <2>3 DEF SentWasAcked, StatusIsEarned, StatusMoves, HistGrows
  <2>6. FailedWasTried'
    BY <2>1, <2>2, <2>3 DEF FailedWasTried, StatusIsEarned, StatusMoves, HistGrows
  <2>7. DroppedWasOld'
    BY <2>1, <2>2, <2>3, <2>4
    DEF DroppedWasOld, StatusIsEarned, StatusMoves, HistGrows
  <2>8. QED
    BY <2>5, <2>6, <2>7 DEF StatusIsEarned
<1>3. QED
  BY <1>1, <1>2

-----------------------------------------------------------------------------
(* Theorems                                                                *)

\* Every reachable state is well typed, and the history has an entry for each row.
THEOREM TypeCorrect == Spec => []TypeOK
<1>1. Init => TypeOK /\ Backed
  BY TypeInit, BackedInit
<1>2. TypeOK /\ Backed /\ [Next]_vars => TypeOK' /\ Backed'
  BY TypeStep, BackedStep
<1>3. QED
  BY <1>1, <1>2, PTL DEF Spec

\* Every value a task carries across an await is backed by the row's history.
THEOREM AlwaysBacked == Spec => []Backed
<1>1. Init => TypeOK /\ Backed
  BY TypeInit, BackedInit
<1>2. TypeOK /\ Backed /\ [Next]_vars => TypeOK' /\ Backed'
  BY TypeStep, BackedStep
<1>3. QED
  BY <1>1, <1>2, PTL DEF Spec

\* No status without its evidence: 'sent' was acknowledged, 'failed' was tried
\* MAX_ATTEMPTS times, 'dropped' is older than MAX_AGE_SECONDS, in every reachable state.
THEOREM StatusEarned == Spec => []StatusIsEarned
<1>1. Init => TypeOK /\ Backed /\ StatusIsEarned
  <2>1. Init => StatusIsEarned
    BY DEF Init, StatusIsEarned, SentWasAcked, FailedWasTried, DroppedWasOld, Ids
  <2>2. QED
    BY <2>1, TypeInit, BackedInit
<1>2. TypeOK /\ Backed /\ StatusIsEarned /\ [Next]_vars
        => TypeOK' /\ Backed' /\ StatusIsEarned'
  BY TypeStep, BackedStep, EarnedStep
<1>3. QED
  BY <1>1, <1>2, PTL DEF Spec
=============================================================================
