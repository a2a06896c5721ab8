------------------------- MODULE OutboundProperties -------------------------
(***************************************************************************)
(* What is true of the outbound path, whatever the interleaving of its     *)
(* tasks, the operator's requests, the crashes and the database errors.    *)
(***************************************************************************)
EXTENDS Outbound

\* Types, and the link between the table and the history kept beside it.
TypeOK ==
  /\ now \in Nat
  /\ rows \in Seq(OutboundMessage)
  /\ pause \in [Pubkeys -> Nat]
  /\ saved \in [Pubkeys -> Nat]
  /\ proc \in {"up", "stopping", "down"}
  /\ radio \in BOOLEAN
  /\ worker \in Worker
  /\ lastSendAt \in Nat
  /\ lastSendTo \in [Pubkeys -> Nat]
  /\ senders \in [Senders -> Sender]
  /\ handlers \in [Handlers -> Handler]
  /\ faults \in Nat /\ requests \in Nat
  /\ hist \in Hist
  /\ Len(hist.created) = Len(rows)
  /\ Len(hist.acks) = Len(rows)
  /\ Len(hist.nacks) = Len(rows)

\* A status says what happened, through every retry, deferral, crash and
\* operator request: a row is 'sent' only if its recipient acknowledged it,
\* 'failed' only after MAX_ATTEMPTS sends without acknowledgement and 'dropped'
\* only when it was inserted more than MAX_AGE_SECONDS ago.
SentWasAcked ==
  \A i \in Ids : rows[i].status = "sent" => hist.acks[i] >= 1
FailedWasTried ==
  \A i \in Ids : rows[i].status = "failed" => hist.nacks[i] >= MAX_ATTEMPTS
DroppedWasOld ==
  \A i \in Ids : rows[i].status = "dropped" => now > hist.created[i] + MAX_AGE_SECONDS

StatusIsEarned == SentWasAcked /\ FailedWasTried /\ DroppedWasOld

\* Why, stated so that every step preserves it.  What a task remembers of a row
\* across an await is backed by that row's history, although the row itself may
\* have changed: a stale attempts count is only ever too low.
RowsBacked ==
  \A i \in Ids : /\ rows[i].attempts <= hist.nacks[i]
                 /\ hist.created[i] <= rows[i].enqueued_at
                 /\ hist.created[i] <= now

WorkerBacked ==
  LET i == worker.id IN
  /\ worker.pc \in {"pause", "judge", "decide", "sending", "mark", "fail", "back", "update"}
       => i \in Ids /\ worker.attempts <= hist.nacks[i]
  /\ worker.pc = "mark" => hist.acks[i] >= 1
  /\ worker.pc = "fail" => hist.nacks[i] >= MAX_ATTEMPTS
  /\ worker.pc = "update" => hist.created[i] <= worker.back

HandlersBacked ==
  \A h \in Handlers :
    /\ handlers[h].pc # "idle" => handlers[h].id \in Ids
    /\ \A r \in handlers[h].todo :
         /\ r.id \in Ids /\ r.attempts <= hist.nacks[r.id]
         /\ handlers[h].pc = "update" => hist.created[r.id] <= handlers[h].back

SendersBacked ==
  \A s \in Senders : senders[s].left > 0 =>
    senders[s].to \in Pubkeys /\ senders[s].priority \in Priorities /\ senders[s].at <= now

Backed == RowsBacked /\ WorkerBacked /\ HandlersBacked /\ SendersBacked

\* A recipient gets a message again after acknowledging it only if a crash, a
\* cancelled drain or a database error hid the acknowledgement: once per fault.
DuplicatesNeedFaults == \A i \in Ids : hist.acks[i] <= 1 + faults

\* The radio spends at most MAX_ATTEMPTS unacknowledged sends on a row, one more per
\* fault that kept a failure from being counted, and as many as a dashboard request can
\* make the row forget by writing back the attempts it read (reschedule_outbound).
AirtimeBounded ==
  \A i \in Ids :
    hist.nacks[i] <= MAX_ATTEMPTS + faults + (MAX_ATTEMPTS - 1) * requests

StartsSendTo(pk) ==
  /\ worker.pc # "sending" /\ worker'.pc = "sending"
  /\ pk = rows[worker'.id].to_pubkey

Elapsed(pk, gap) == hist.doneAt[pk] = 0 \/ now >= hist.doneAt[pk] + gap

\* Between the end of a send and the start of the next one of the same process
\* lie RecipientInterval if both go to one recipient and, unless recording the
\* former raised, MinInterval whatever the recipients.
Pacing ==
  [][\A pk \in Pubkeys : StartsSendTo(pk) =>
       /\ Elapsed(pk, RecipientInterval)
       /\ hist.raised \/ \A other \in Pubkeys : Elapsed(other, MinInterval)]_vars

\* While a recipient is paused no send to it starts: through requeueing, renewals,
\* readers that delete the row when it is over, tasks that commit for one another, and
\* crashes after the operator was answered.  But a tick may have read the table before
\* the pause was written, and a pause renewed under a reader of the old one may be lost.
PauseHonoured ==
  [][\A pk \in Pubkeys :
       StartsSendTo(pk) /\ hist.until[pk] > now => pk \in hist.recent \cup hist.raced]_vars

\* What pause_outbound_recipient says of itself, "Pause all outbound sends to *pubkey*
\* for *seconds*" (db.py:735), granting a tick that had read the table before.
PausedForSeconds ==
  [][\A pk \in Pubkeys :
       StartsSendTo(pk) /\ hist.until[pk] > now => pk \in hist.recent]_vars

LowPending == {i \in Pending : rows[i].priority < PRIORITY_NORMAL}

\* Low-priority rows cannot flood the queue: replies that pass the depth check
\* together overshoot it by at most one reply each.  A depth below one lets none in.
LowPriorityBounded ==
  \/ LowPending = {}
  \/ Cardinality(LowPending) < QueueMaxDepth + MaxPackets * Cardinality(Senders)

\* No row is starved: one that is due is eventually sent, given up or put off
\* while the process runs, however often other rows fail.
IsDue(i) == i \in Ids /\ i \in Ready(now)
NoStarvation == \A i \in 1 .. MaxRows : IsDue(i) ~> (~IsDue(i) \/ proc # "up")

\* After a signal the worker's task ends.
ShutdownCompletes == proc = "stopping" ~> worker.pc \in {"stopped", "off"}

\* All of this keeps the abstract promise.
Ledger == [i \in Ids |-> [status |-> rows[i].status, acks |-> hist.acks[i],
                          nacks |-> hist.nacks[i], born |-> hist.created[i]]]

Promise == INSTANCE OutboundPromise WITH
  MaxAttempts <- MAX_ATTEMPTS, MaxAge <- MAX_AGE_SECONDS,
  failures <- faults, ledger <- Ledger

PromiseKept == Promise!Spec
=============================================================================
