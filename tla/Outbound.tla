------------------------------ MODULE Outbound ------------------------------
(***************************************************************************)
(* The outbound path of the BBS: the dispatcher's _enqueue_reply filling   *)
(* the queue, the single OutboundWorker task emptying it over the radio,   *)
(* and the dashboard's queue buttons editing it, all tasks of one asyncio  *)
(* loop that interleave wherever one of them awaits.  An action is the     *)
(* code between two awaits, a value read before an await is kept in the    *)
(* task's record until it is used.  The process may be shut down, crash    *)
(* and restart: what was committed to the two tables survives, the rest    *)
(* does not.                                                               *)
(***************************************************************************)
EXTENDS OutboundQueue

CONSTANTS
  MAX_ATTEMPTS, MAX_AGE_SECONDS, BACKOFF_BASE_SECONDS,
  OUTBOUND_PAUSE_SECONDS,
  MinInterval,          \* outbound_min_interval_ms, in seconds
  RecipientInterval,    \* outbound_per_recipient_min_interval_ms, in seconds
  QueueMaxDepth,        \* outbound_queue_max_depth
  PRIORITY_NORMAL,      \* below this priority a reply yields to a full queue
  Senders,              \* tasks that call _enqueue_reply: event pump, mail notify
  Handlers,             \* concurrent dashboard requests
  MaxPackets,           \* bound: packets of one reply
  MaxRows,              \* bound: rows ever inserted
  MaxFaults,            \* bound: crashes, drain timeouts and database errors
  MaxRequests           \* bound: dashboard requests that change the queue

ASSUME LimitsAssumption ==
  /\ MAX_ATTEMPTS \in Nat \ {0}
  /\ MAX_AGE_SECONDS \in Nat
  /\ BACKOFF_BASE_SECONDS \in Nat
  /\ OUTBOUND_PAUSE_SECONDS \in Nat
  /\ MinInterval \in Nat
  /\ RecipientInterval \in Nat
  /\ PRIORITY_NORMAL \in Nat
  /\ MaxPackets \in Nat

ASSUME QueueAssumption == QueueMaxDepth \in Int /\ IsFiniteSet(Senders)

\* The exponential backoff after the attempts-th failure.
Backoff(att) == BACKOFF_BASE_SECONDS * 2^(att - 1)

ASSUME BackoffAssumption == \A att \in 1 .. MAX_ATTEMPTS : Backoff(att) \in Nat

\* Delay while the companion radio is unavailable.
RadioDelay == IF BACKOFF_BASE_SECONDS < 15 THEN BACKOFF_BASE_SECONDS ELSE 15

VARIABLES
  proc,         \* "up", "stopping" (a signal arrived) or "down"
  radio,        \* transport.radio_available
  worker,       \* the outbound worker's task
  lastSendAt,   \* worker._last_send_at, 0 = never
  lastSendTo,   \* worker._last_send_to, 0 = no entry
  senders,      \* calls of _enqueue_reply in progress
  handlers,     \* dashboard requests in progress
  faults, requests,   \* counters for the bounds
  hist          \* history: see Hist

table == <<rows, pause, saved>>
tasks == <<worker, senders, handlers>>
memory == <<lastSendAt, lastSendTo>>
counters == <<faults, requests>>
vars == <<now, rows, pause, saved, proc, radio, worker, lastSendAt, lastSendTo,
          senders, handlers, faults, requests, hist>>

\* Where the worker is suspended.  "poll": head of the loop in _run.  "claim",
\* "pause": about to issue that query.  "judge": in get_outbound_pause_until, with
\* the row it read.  "decide": back with what it returned.  "sending":
\* in send_msg.  "mark", "fail", "audit": about to record an outcome.  "back",
\* "update": the two statements of reschedule_outbound.  "gap": sleeping until
\* the next send is allowed.  "stopped": _run returned.  "off": no process.
WorkerPC == {"poll", "claim", "pause", "judge", "decide", "sending", "mark", "fail",
             "audit", "back", "update", "gap", "stopped", "off"}

Worker ==
  [pc : WorkerPC,
   tick : Nat,       \* the tick's now
   id : Nat, attempts : Nat,   \* the claimed message, as read by claim
   paused : Nat,     \* paused_until as read, then as returned, 0 for None
   next : Nat, back : Nat,     \* arguments of the pending reschedule
   sent : BOOLEAN]   \* what _tick is going to return

WorkerAt(pc) == [pc |-> pc, tick |-> 0, id |-> 0, attempts |-> 0, paused |-> 0,
                 next |-> 0, back |-> 0, sent |-> FALSE]

\* A reply being inserted packet by packet; left = 0 when the task is elsewhere.
Sender == [to : Pubkeys \cup {0}, priority : Nat, at : Nat, left : 0 .. MaxPackets]
NoReply == [to |-> 0, priority |-> 0, at |-> 0, left |-> 0]

\* The arguments of a reschedule_outbound a request still has to perform.
Reschedule == [id : Nat, next : Nat, attempts : Nat]

\* "cancel", "pause": pending row read, UPDATE or pause to come.  "paused":
\* outbound_pause written, rows to be read.  "back", "update": reschedule_outbound
\* for the rows in todo.  "commit": all rows put off, the pause to be committed.
\* "judge": build_queue with the pause it read.
Handler == [pc : {"idle", "cancel", "pause", "paused", "back", "update", "commit", "judge"},
            id : Nat, until : Nat, todo : SUBSET Reschedule, back : Nat]
NoRequest == [pc |-> "idle", id |-> 0, until |-> 0, todo |-> {}, back |-> 0]

\* What happened to each row and recipient, remembered for the properties only:
\* the time of the INSERT's clock, the acknowledged and the unacknowledged sends
\* of a row, when the last send to a recipient ended in this process, whether a
\* tick of the worker raised after its send; until when an operator paused a
\* recipient, as written and as answered, who was paused since the worker last read
\* the pause table, and whose pause was renewed under a reader of the one before it.
Hist == [created : Seq(Nat), acks : Seq(Nat), nacks : Seq(Nat),
         doneAt : [Pubkeys -> Nat], raised : BOOLEAN,
         until : [Pubkeys -> Nat], granted : [Pubkeys -> Nat],
         recent : SUBSET Pubkeys, raced : SUBSET Pubkeys]

\* The steps that only move the worker on.
Suspend(w) ==
  /\ worker' = w
  /\ UNCHANGED <<now, table, proc, radio, memory, senders, handlers, counters, hist>>

Init ==
  /\ now = 1
  /\ rows = <<>>
  /\ pause = [pk \in Pubkeys |-> 0]
  /\ saved = pause
  /\ proc = "up"
  /\ radio = TRUE
  /\ worker = WorkerAt("poll")
  /\ lastSendAt = 0
  /\ lastSendTo = [pk \in Pubkeys |-> 0]
  /\ senders = [s \in Senders |-> NoReply]
  /\ handlers = [h \in Handlers |-> NoRequest]
  /\ faults = 0
  /\ requests = 0
  /\ hist = [created |-> <<>>, acks |-> <<>>, nacks |-> <<>>,
             doneAt |-> [pk \in Pubkeys |-> 0], raised |-> FALSE,
             until |-> [pk \in Pubkeys |-> 0], granted |-> [pk \in Pubkeys |-> 0],
             recent |-> {}, raced |-> {}]

-----------------------------------------------------------------------------
(* Filling the queue: Dispatcher._enqueue_reply                            *)

\* Mutant of QueueHasRoom: off by one.
QueueHasRoomAtLimit == Cardinality(Pending) <= QueueMaxDepth

QueueHasRoom == Cardinality(Pending) < QueueMaxDepth

\* The depth is read once, before the first of n packets; a notification finding
\* the queue full is dropped (a stutter).
StartReply(s, pk, prio, n) ==
  /\ proc = "up"
  /\ senders[s].left = 0
  /\ Len(rows) + n <= MaxRows
  /\ QueueHasRoom \/ prio >= PRIORITY_NORMAL
  /\ senders' = [senders EXCEPT ![s] = [to |-> pk, priority |-> prio, at |-> now,
                                        left |-> n]]
  /\ UNCHANGED <<now, table, proc, radio, worker, memory, handlers, counters, hist>>

EnqueuePacket(s) ==
  /\ senders[s].left > 0
  /\ Len(rows) < MaxRows
  /\ EnqueueOutbound(senders[s].to, senders[s].priority, senders[s].at)
  /\ senders' = [senders EXCEPT ![s] =
                    IF senders[s].left = 1 THEN NoReply
                    ELSE [senders[s] EXCEPT !.left = @ - 1]]
  /\ hist' = [hist EXCEPT !.created = Append(@, senders[s].at),
                          !.acks = Append(@, 0),
                          !.nacks = Append(@, 0)]
  /\ UNCHANGED <<now, pause, proc, radio, worker, memory, handlers, counters>>
  /\ Commits

-----------------------------------------------------------------------------
(* Emptying it: OutboundWorker                                             *)

\* Mutant of WorkerStops: the worker insists on an empty queue.
StopsWhenDrained ==
  /\ worker.pc = "poll"
  /\ proc = "stopping"
  /\ Pending = {}
  /\ Suspend(WorkerAt("stopped"))

\* The loop head: stop, or start a tick with the current time and drop what is
\* older than MAX_AGE_SECONDS.
WorkerStops ==
  /\ worker.pc = "poll"
  /\ proc = "stopping"
  /\ Suspend(WorkerAt("stopped"))

StartTick ==
  /\ worker.pc = "poll"
  /\ proc = "up"
  /\ DropStaleOutbound(now - MAX_AGE_SECONDS)
  /\ worker' = [WorkerAt("claim") EXCEPT !.tick = now]
  /\ UNCHANGED <<now, pause, proc, radio, memory, senders, handlers, counters, hist>>
  /\ Commits

\* claim_next_outbound only reads: the row stays pending while it is worked on.
ClaimNext ==
  /\ worker.pc = "claim"
  /\ \E i \in NextOutbound(worker.tick) :
       Suspend([worker EXCEPT !.pc = "pause", !.id = i,
                                !.attempts = rows[i].attempts])

NothingDue ==
  /\ worker.pc = "claim"
  /\ Ready(worker.tick) = {}
  /\ Suspend(WorkerAt("poll"))

Recipient == rows[worker.id].to_pubkey

\* get_outbound_pause_until reads the row, if there is one ...
ReadPause ==
  /\ worker.pc = "pause"
  /\ worker' = [worker EXCEPT !.pc = IF pause[Recipient] = 0 THEN "decide" ELSE "judge",
                              !.paused = pause[Recipient]]
  /\ hist' = [hist EXCEPT !.recent = {}]
  /\ UNCHANGED <<now, table, proc, radio, memory, senders, handlers, counters>>

\* ... and when the row has arrived returns it, or deletes the recipient's row.
PauseStands ==
  /\ worker.pc = "judge"
  /\ ~PauseIsOver(worker.paused)
  /\ Suspend([worker EXCEPT !.pc = "decide"])

ExpirePause ==
  /\ worker.pc = "judge"
  /\ PauseIsOver(worker.paused)
  /\ DeletePause(Recipient)
  /\ worker' = [worker EXCEPT !.pc = "decide", !.paused = 0]
  /\ UNCHANGED <<now, rows, proc, radio, memory, senders, handlers, counters, hist>>
  /\ Commits

\* The three reasons to put the row off, in the order the code tests them.
IsPaused == worker.paused > worker.tick

IsThrottled ==
  /\ lastSendTo[Recipient] # 0
  /\ now - lastSendTo[Recipient] < RecipientInterval

\* Mutant of PutOff: a deferral counts as an attempt.
PutOffCounts(next) ==
  Suspend([worker EXCEPT !.pc = "back", !.next = next, !.attempts = @ + 1])

\* Mutant of PutOff: the row is skipped in this tick and stays due.
SkipOnly(next) == Suspend(WorkerAt("poll"))

PutOff(next) == Suspend([worker EXCEPT !.pc = "back", !.next = next])

Decide ==
  /\ worker.pc = "decide"
  /\ \/ IsPaused /\ PutOff(worker.paused)
     \/ /\ ~IsPaused /\ IsThrottled
        /\ PutOff(lastSendTo[Recipient] + RecipientInterval + 1)
     \/ /\ ~IsPaused /\ ~IsThrottled /\ ~radio
        /\ PutOff(now + RadioDelay)
     \/ /\ ~IsPaused /\ ~IsThrottled /\ radio
        /\ Suspend([worker EXCEPT !.pc = "sending"])

\* send_msg returns.  The code treats NO_ACK and ERROR alike, so an outcome is
\* acknowledged or not.
SendReturns(count) ==
  /\ lastSendAt' = now
  /\ lastSendTo' = [lastSendTo EXCEPT ![Recipient] = now]
  /\ hist' = [count EXCEPT !.doneAt[Recipient] = now, !.raised = FALSE]
  /\ UNCHANGED <<now, table, proc, radio, senders, handlers, counters>>

SendOk ==
  /\ worker.pc = "sending"
  /\ SendReturns([hist EXCEPT !.acks[worker.id] = @ + 1])
  /\ worker' = [worker EXCEPT !.pc = "mark", !.sent = TRUE]

\* Mutant of GivesUp: off by one.
GivesUpEarly(attempts) == attempts + 1 >= MAX_ATTEMPTS

GivesUp(attempts) == attempts >= MAX_ATTEMPTS

SendUnacked ==
  /\ worker.pc = "sending"
  /\ SendReturns([hist EXCEPT !.nacks[worker.id] = @ + 1])
  /\ LET attempts == worker.attempts + 1
     IN  worker' = IF GivesUp(attempts)
                     THEN [worker EXCEPT !.pc = "fail", !.sent = TRUE]
                     ELSE [worker EXCEPT !.pc = "back", !.sent = TRUE,
                                         !.attempts = attempts,
                                         !.next = now + Backoff(attempts)]

MarkSent ==
  /\ worker.pc = "mark"
  /\ SetStatus(worker.id, "sent")
  /\ worker' = WorkerAt("gap")
  /\ UNCHANGED <<now, pause, proc, radio, memory, senders, handlers, counters, hist>>
  /\ Commits

MarkFailed ==
  /\ worker.pc = "fail"
  /\ SetStatus(worker.id, "failed")
  /\ worker' = [WorkerAt("audit") EXCEPT !.sent = TRUE]
  /\ UNCHANGED <<now, pause, proc, radio, memory, senders, handlers, counters, hist>>
  /\ Commits

AuditFailed ==
  /\ worker.pc = "audit"
  /\ worker' = WorkerAt("gap")
  /\ UNCHANGED <<now, rows, pause, proc, radio, memory, senders, handlers, counters, hist>>
  /\ Commits

RescheduleReadsBack ==
  /\ worker.pc = "back"
  /\ \E b \in BackOfQueue : Suspend([worker EXCEPT !.pc = "update", !.back = b])

RescheduleUpdates ==
  /\ worker.pc = "update"
  /\ RescheduleOutbound(worker.id, worker.next, worker.attempts, worker.back)
  /\ worker' = WorkerAt(IF worker.sent THEN "gap" ELSE "poll")
  /\ UNCHANGED <<now, pause, proc, radio, memory, senders, handlers, counters, hist>>
  /\ Commits

\* Mutant of GapOver: the gap is not slept through.
GapSkipped ==
  /\ worker.pc = "gap"
  /\ Suspend(WorkerAt("poll"))

\* _sleep_until_next_send_allowed.  The 0.5 s poll sleep of the other branch is
\* below the clock's resolution: the worker is simply back at "poll".
GapOver ==
  /\ worker.pc = "gap"
  /\ now >= lastSendAt + MinInterval
  /\ Suspend(WorkerAt("poll"))

\* A statement raises: _run catches it, takes the tick for one that sent nothing
\* and polls again.
TickRaises ==
  /\ worker.pc \in {"claim", "pause", "judge", "mark", "fail", "audit", "back", "update"}
  /\ faults < MaxFaults
  /\ faults' = faults + 1
  /\ worker' = WorkerAt("poll")
  /\ hist' = [hist EXCEPT !.raised = @ \/ worker.sent]
  /\ UNCHANGED <<now, table, proc, radio, memory, senders, handlers, requests>>

-----------------------------------------------------------------------------
(* Editing it: the dashboard's queue buttons                               *)

Idle(h) == proc # "down" /\ handlers[h].pc = "idle" /\ requests < MaxRequests

\* "Remove": cancel_outbound reads the row if it is still pending ...
Cancel(h, i) ==
  /\ Idle(h)
  /\ i \in Pending
  /\ handlers' = [handlers EXCEPT ![h] = [NoRequest EXCEPT !.pc = "cancel", !.id = i]]
  /\ requests' = requests + 1
  /\ UNCHANGED <<now, table, proc, radio, worker, memory, senders, faults, hist>>

\* ... and updates it whatever it has become.
CancelUpdates(h) ==
  /\ handlers[h].pc = "cancel"
  /\ SetStatus(handlers[h].id, "cancelled")
  /\ handlers' = [handlers EXCEPT ![h] = NoRequest]
  /\ UNCHANGED <<now, pause, proc, radio, worker, memory, senders, counters, hist>>
  /\ Commits

\* "To back": move_outbound_to_back reads the pending row and reschedules it for
\* now with the attempts it read.
MoveToBack(h, i) ==
  /\ Idle(h)
  /\ i \in Pending
  /\ handlers' = [handlers EXCEPT ![h] =
       [NoRequest EXCEPT !.pc = "back", !.id = i,
          !.todo = {[id |-> i, next |-> now, attempts |-> rows[i].attempts]}]]
  /\ requests' = requests + 1
  /\ UNCHANGED <<now, table, proc, radio, worker, memory, senders, faults, hist>>

\* "Pause 30m": the row is read if it is still pending ...
PauseRecipient(h, i) ==
  /\ Idle(h)
  /\ i \in Pending
  /\ handlers' = [handlers EXCEPT ![h] = [NoRequest EXCEPT !.pc = "pause", !.id = i]]
  /\ requests' = requests + 1
  /\ UNCHANGED <<now, table, proc, radio, worker, memory, senders, faults, hist>>

\* A task that has read the pause of pk and not yet decided whether to delete it.
IsJudged(pk) ==
  \/ worker.pc = "judge" /\ Recipient = pk
  \/ \E h \in Handlers :
       handlers[h].pc = "judge" /\ rows[handlers[h].id].to_pubkey = pk

\* ... pause_outbound_recipient pauses its recipient from now on, which nobody has
\* committed yet ...
PauseWrites(h) ==
  /\ handlers[h].pc = "pause"
  /\ LET pk    == rows[handlers[h].id].to_pubkey
         until == now + OUTBOUND_PAUSE_SECONDS
     IN  /\ pause' = [pause EXCEPT ![pk] = until]
         /\ handlers' = [handlers EXCEPT ![h].pc = "paused", ![h].until = until]
         /\ hist' = [hist EXCEPT
              !.until[pk] = until, !.recent = @ \cup {pk},
              !.raced = IF IsJudged(pk) THEN @ \cup {pk} ELSE @ \ {pk},
              !.granted[pk] = IF IsJudged(pk) THEN 0 ELSE @]
  /\ UNCHANGED <<now, rows, saved, proc, radio, worker, memory, senders, counters>>

\* ... reads the recipient's pending rows ...
PauseReadsRows(h) ==
  /\ handlers[h].pc = "paused"
  /\ LET mine  == {i \in Pending : rows[i].to_pubkey = rows[handlers[h].id].to_pubkey}
         until == handlers[h].until
         later(i) == IF rows[i].next_attempt > until THEN rows[i].next_attempt
                                                     ELSE until
     IN  handlers' = [handlers EXCEPT
           ![h].pc = IF mine = {} THEN "commit" ELSE "back",
           ![h].todo = {[id |-> i, next |-> later(i),
                         attempts |-> rows[i].attempts] : i \in mine}]
  /\ UNCHANGED <<now, table, proc, radio, worker, memory, senders, counters, hist>>

\* ... and reschedules them one after the other with what it read.
HandlerReadsBack(h) ==
  /\ handlers[h].pc = "back"
  /\ \E b \in BackOfQueue :
       handlers' = [handlers EXCEPT ![h].pc = "update", ![h].back = b]
  /\ UNCHANGED <<now, table, proc, radio, worker, memory, senders, counters, hist>>

HandlerUpdates(h) ==
  /\ handlers[h].pc = "update"
  /\ \E r \in handlers[h].todo :
       /\ RescheduleOutbound(r.id, r.next, r.attempts, handlers[h].back)
       /\ handlers' = [handlers EXCEPT ![h] =
            IF handlers[h].todo # {r}
              THEN [handlers[h] EXCEPT !.pc = "back", !.todo = @ \ {r}, !.back = 0]
            ELSE IF handlers[h].until # 0
              THEN [handlers[h] EXCEPT !.pc = "commit", !.todo = {}, !.back = 0]
            ELSE NoRequest]
  /\ UNCHANGED <<now, pause, proc, radio, worker, memory, senders, counters, hist>>
  /\ Commits

\* Mutant of HandlerCommits: the commit is left to the reschedules.
HandlerReturns(h) ==
  /\ handlers[h].pc = "commit"
  /\ LET pk == rows[handlers[h].id].to_pubkey
     IN  hist' = IF pk \in hist.raced THEN hist
                 ELSE [hist EXCEPT !.granted[pk] = hist.until[pk]]
  /\ handlers' = [handlers EXCEPT ![h] = NoRequest]
  /\ UNCHANGED <<now, table, proc, radio, worker, memory, senders, counters>>

\* A pause is committed at the end, and the operator told so.
HandlerCommits(h) ==
  /\ handlers[h].pc = "commit"
  /\ LET pk == rows[handlers[h].id].to_pubkey
     IN  hist' = IF pk \in hist.raced THEN hist
                 ELSE [hist EXCEPT !.granted[pk] = hist.until[pk]]
  /\ handlers' = [handlers EXCEPT ![h] = NoRequest]
  /\ UNCHANGED <<now, rows, pause, proc, radio, worker, memory, senders, counters>>
  /\ Commits

\* The queue page calls get_outbound_pause_until for the recipient of a row that was
\* pending when it listed them.  Without a pause nothing comes of it.
ViewQueue(h, i) ==
  /\ proc # "down"
  /\ handlers[h].pc = "idle"
  /\ i \in Ids
  /\ pause[rows[i].to_pubkey] # 0
  /\ handlers' = [handlers EXCEPT ![h] =
       [NoRequest EXCEPT !.pc = "judge", !.id = i, !.until = pause[rows[i].to_pubkey]]]
  /\ UNCHANGED <<now, table, proc, radio, worker, memory, senders, counters, hist>>

ViewFindsPause(h) ==
  /\ handlers[h].pc = "judge"
  /\ ~PauseIsOver(handlers[h].until)
  /\ handlers' = [handlers EXCEPT ![h] = NoRequest]
  /\ UNCHANGED <<now, table, proc, radio, worker, memory, senders, counters, hist>>

ViewExpiresPause(h) ==
  /\ handlers[h].pc = "judge"
  /\ PauseIsOver(handlers[h].until)
  /\ DeletePause(rows[handlers[h].id].to_pubkey)
  /\ handlers' = [handlers EXCEPT ![h] = NoRequest]
  /\ UNCHANGED <<now, rows, proc, radio, worker, memory, senders, counters, hist>>
  /\ Commits

-----------------------------------------------------------------------------
(* The process and its surroundings                                        *)

\* The clock stops at the horizon, except that a gap the worker sleeps through
\* always ends.
Advance ==
  /\ now < MaxTime \/ (worker.pc = "gap" /\ now < lastSendAt + MinInterval)
  /\ now' = now + 1
  /\ UNCHANGED <<table, proc, radio, tasks, memory, counters, hist>>

\* The companion is lost or reconnects.
RadioChanges ==
  /\ radio' = ~radio
  /\ UNCHANGED <<now, table, proc, tasks, memory, counters, hist>>

\* Some other task commits: mail, boards, limits and audit share the connection.
CommitElsewhere ==
  /\ proc # "down"
  /\ UNCHANGED <<now, rows, pause, proc, radio, tasks, memory, counters, hist>>
  /\ Commits

\* SIGTERM: the tasks that enqueue are cancelled where they are, then
\* outbound.stop() sets the worker's stop event and waits for it.
Shutdown ==
  /\ proc = "up"
  /\ proc' = "stopping"
  /\ senders' = [s \in Senders |-> NoReply]
  /\ UNCHANGED <<now, table, radio, worker, memory, handlers, counters, hist>>

\* stop() gives up after its timeout and cancels the worker where it is.
DrainTimesOut ==
  /\ proc = "stopping"
  /\ worker.pc \notin {"stopped", "off"}
  /\ faults < MaxFaults
  /\ faults' = faults + 1
  /\ worker' = WorkerAt("off")
  /\ UNCHANGED <<now, table, proc, radio, memory, senders, handlers, requests, hist>>

\* The process ends; SQLite rolls back what was not committed.
Down ==
  /\ proc' = "down"
  /\ worker' = WorkerAt("off")
  /\ senders' = [s \in Senders |-> NoReply]
  /\ handlers' = [h \in Handlers |-> NoRequest]
  /\ lastSendAt' = 0
  /\ lastSendTo' = [pk \in Pubkeys |-> 0]
  /\ pause' = saved
  /\ hist' = [hist EXCEPT !.doneAt = [pk \in Pubkeys |-> 0], !.raised = FALSE,
                          !.until = hist.granted, !.raced = {}]
  /\ UNCHANGED <<now, rows, saved, radio, requests>>

Exit ==
  /\ proc = "stopping"
  /\ worker.pc \in {"stopped", "off"}
  /\ Down
  /\ UNCHANGED faults

Crash ==
  /\ proc # "down"
  /\ faults < MaxFaults
  /\ faults' = faults + 1
  /\ Down

Restart ==
  /\ proc = "down"
  /\ proc' = "up"
  /\ worker' = WorkerAt("poll")
  /\ UNCHANGED <<now, table, radio, memory, senders, handlers, counters, hist>>

-----------------------------------------------------------------------------
WorkerStep ==
  \/ WorkerStops \/ StartTick \/ ClaimNext \/ NothingDue
  \/ ReadPause \/ PauseStands \/ ExpirePause \/ Decide \/ SendOk \/ SendUnacked
  \/ MarkSent \/ MarkFailed \/ AuditFailed
  \/ RescheduleReadsBack \/ RescheduleUpdates \/ GapOver

HandlerStep(h) ==
  \/ CancelUpdates(h) \/ PauseWrites(h) \/ PauseReadsRows(h)
  \/ HandlerReadsBack(h) \/ HandlerUpdates(h) \/ HandlerCommits(h)
  \/ ViewFindsPause(h) \/ ViewExpiresPause(h)

Request(h) ==
  \E i \in Ids :
    Cancel(h, i) \/ MoveToBack(h, i) \/ PauseRecipient(h, i) \/ ViewQueue(h, i)

Reply(s) ==
  \E pk \in Pubkeys, prio \in Priorities, n \in 1 .. MaxPackets :
    StartReply(s, pk, prio, n)

Next ==
  \/ WorkerStep
  \/ TickRaises
  \/ \E s \in Senders : Reply(s) \/ EnqueuePacket(s)
  \/ \E h \in Handlers : Request(h) \/ HandlerStep(h)
  \/ Advance \/ RadioChanges \/ CommitElsewhere
  \/ Shutdown \/ DrainTimesOut \/ Exit \/ Crash \/ Restart

Spec == Init /\ [][Next]_vars

\* asyncio runs every task that is ready, send_msg is bounded by a timeout and
\* the clock goes on.  Nothing obliges an operator, a user or a fault.
Fairness == WF_vars(WorkerStep) /\ WF_vars(Advance)

FairSpec == Spec /\ Fairness

=============================================================================
