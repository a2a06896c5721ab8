-------------------------------- MODULE Mail --------------------------------
(***************************************************************************)
(* User-to-user mail: the table mail, the commands SEND, READMAIL and      *)
(* DELETE that the event pump runs one at a time, and the two scheduled    *)
(* jobs, mail_notify and audit_prune.  Pump and job tell a recipient of    *)
(* new mail in the same four steps, with awaits between them: read the     *)
(* user, ask should_notify, count the unread, enqueue.                     *)
(*                                                                         *)
(* Time stamps are kept as ages, so the clock needs no horizon: seen is    *)
(* now - last_seen, slot is now - _last_notify_at, lag is now - the now a  *)
(* task works with.  An age stops growing where no comparison can tell the *)
(* difference any more.  The statements of one method of Database are one  *)
(* step (what tasks see of each other's transaction is Boards' subject).   *)
(* Recipients are onboarded: resolve_recipient finds nobody else, and no   *)
(* code takes the flag back.                                               *)
(***************************************************************************)
EXTENDS Naturals, Sequences

CONSTANTS
  Users,
  online_threshold,      \* 900 seconds in the code, in units of the model's clock
  notify_min_interval,   \* 600
  notify_every,          \* 300, between two runs of mail_notify
  MaxLag,                \* bound: how long a task takes from its time stamp on
  MaxMails,              \* bound: mails sent
  MaxFaults              \* bound: raising statements and restarts

ASSUME IntervalAssumption ==
  /\ online_threshold \in Nat /\ notify_min_interval \in Nat /\ notify_every \in Nat
  /\ MaxLag \in Nat /\ MaxMails \in Nat /\ MaxFaults \in Nat

VARIABLES
  mail,    \* table mail
  seen,    \* table users: age of last_seen
  slot,    \* MailService._last_notify_at: age of the recorded notification
  task,    \* the event pump and the mail_notify job
  sleep,   \* how long the job still sleeps
  room,    \* the outbound queue takes low-priority rows
  faults,
  hist     \* history, see Hist

vars == <<mail, seen, slot, task, sleep, room, faults, hist>>

Tasks == {"pump", "job"}

\* Ages beyond these look the same to is_online and to should_notify.
Away == online_threshold + MaxLag + 1
Free == notify_min_interval + MaxLag

MailIds == DOMAIN mail

\* read_at as far as it matters; a purged row is gone.
MailRow == [to : Users, read_at : {"never", "read", "purged"}, deleted : BOOLEAN]

UnreadOf(u) == {i \in MailIds : mail[i].to = u /\ mail[i].read_at = "never"
                                  /\ ~mail[i].deleted}

\* "check": about to read the next user of todo; "count": its slot is taken, about to
\* count the unread; "enqueue": about to enqueue.
Idle == [pc |-> "idle", todo |-> {}, to |-> {}, lag |-> 0, unread |-> {}]
Task == [pc : {"idle", "check", "count", "enqueue"}, todo : SUBSET Users,
         to : SUBSET Users, lag : 0 .. MaxLag, unread : SUBSET (1 .. MaxMails)]

\* Remembered for the properties only: which mails a notice has counted, and how long
\* ago each user was last sent a notice in this life of the process.
Hist == [told : SUBSET (1 .. MaxMails), notice : [Users -> 0 .. notify_min_interval]]

Init ==
  /\ mail = <<>>
  /\ seen = [u \in Users |-> Away]
  /\ slot = [u \in Users |-> Free]
  /\ task = [t \in Tasks |-> Idle]
  /\ sleep = 0
  /\ room = TRUE
  /\ faults = 0
  /\ hist = [told |-> {}, notice |-> [u \in Users |-> notify_min_interval]]

-----------------------------------------------------------------------------
(* Commands, run by the event pump                                         *)

\* handle_inbound has touched the sender before it dispatches the command.
From(u) == task["pump"] = Idle /\ seen' = [seen EXCEPT ![u] = 0]

\* SEND, once the recipient is found and the text is accepted: the mail is stored,
\* then answered, then the recipient is told.
Send(u, v) ==
  /\ From(u)
  /\ Len(mail) < MaxMails
  /\ mail' = Append(mail, [to |-> v, read_at |-> "never", deleted |-> FALSE])
  /\ task' = [task EXCEPT !["pump"] = [Idle EXCEPT !.pc = "check", !.todo = {v}]]
  /\ UNCHANGED <<slot, sleep, room, faults, hist>>

\* Mutant of Finds: whoever asks for it.
FindsAnybodys(u, i) == ~mail[i].deleted /\ mail[i].read_at # "purged"

\* get_mail finds the addressee's mail unless it is deleted.
Finds(u, i) == mail[i].to = u /\ ~mail[i].deleted /\ mail[i].read_at # "purged"

\* Mutant of ReadMail: the command has a task of its own.
ReadMailConcurrently(u, i) ==
  /\ seen' = [seen EXCEPT ![u] = 0]
  /\ Finds(u, i)
  /\ mail' = [mail EXCEPT ![i].read_at = "read"]
  /\ UNCHANGED <<slot, task, sleep, room, faults, hist>>

\* READMAIL: get_mail, then mark_mail_read.
ReadMail(u, i) ==
  /\ From(u)
  /\ Finds(u, i)
  /\ mail' = [mail EXCEPT ![i].read_at = "read"]
  /\ UNCHANGED <<slot, task, sleep, room, faults, hist>>

\* DELETE: the row stays, with a flag; deleting again is answered the same.
DeleteMail(u, i) ==
  /\ From(u)
  /\ mail[i].to = u /\ mail[i].read_at # "purged"
  /\ mail' = [mail EXCEPT ![i].deleted = TRUE]
  /\ UNCHANGED <<slot, task, sleep, room, faults, hist>>

\* record_mesh_activity, and any command that leaves mail alone.
MeshActivity(u) ==
  /\ From(u)
  /\ UNCHANGED <<mail, slot, task, sleep, room, faults, hist>>

-----------------------------------------------------------------------------
(* Telling a recipient                                                     *)

\* mail_notify: users_with_unread_mail, then the time the whole run works with.
StartJob ==
  /\ task["job"] = Idle
  /\ sleep = 0
  /\ task' = [task EXCEPT !["job"] =
                [Idle EXCEPT !.pc = "check", !.todo = {u \in Users : UnreadOf(u) # {}}]]
  /\ UNCHANGED <<mail, seen, slot, sleep, room, faults, hist>>

\* Mutant of Lag: the job works with the time its previous run began at.
LagOfLastRun(t) == IF t = "job" THEN task[t].lag + notify_every ELSE 0

\* The age of the now a task compares with: the job's is as old as its run, the
\* command takes a new one.
Lag(t) == IF t = "job" THEN task[t].lag ELSE 0

\* n - last_seen <= online_threshold
IsOnline(u, t) == seen[u] <= online_threshold + Lag(t)

\* ~(n - last < notify_min_interval)
SlotFree(u, t) == slot[u] >= notify_min_interval + Lag(t)

\* Mutant of ShouldNotify: it answers without taking the slot.
ShouldNotifyForgets(u, t) ==
  slot' = slot

\* Mutant of ShouldNotify: the slot is taken before it is looked at.
ShouldNotifyAlwaysTakes(u, t) ==
  slot' = [slot EXCEPT ![u] = Lag(t)]

\* should_notify: the slot is taken if it is free, whatever becomes of the notice.
ShouldNotify(u, t) ==
  slot' = IF SlotFree(u, t) THEN [slot EXCEPT ![u] = Lag(t)] ELSE slot

\* get_user, then is_online and should_notify without an await.
Check(t) ==
  /\ task[t].pc = "check"
  /\ \E u \in task[t].todo :
       IF IsOnline(u, t)
         THEN /\ ShouldNotify(u, t)
              /\ task' = [task EXCEPT ![t].todo = @ \ {u}, ![t].lag = Lag(t),
                                      ![t].pc = IF SlotFree(u, t) THEN "count" ELSE "check",
                                      ![t].to = IF SlotFree(u, t) THEN {u} ELSE {}]
         ELSE /\ task' = [task EXCEPT ![t].todo = @ \ {u}]
              /\ slot' = slot
  /\ UNCHANGED <<mail, seen, sleep, room, faults, hist>>

\* count_unread
Count(t) ==
  /\ task[t].pc = "count"
  /\ task' = [task EXCEPT ![t].pc = "enqueue",
                          ![t].unread = UNION {UnreadOf(u) : u \in task[t].to}]
  /\ UNCHANGED <<mail, seen, slot, sleep, room, faults, hist>>

\* _enqueue_reply below normal priority: a full queue drops the notice.
Enqueue(t) ==
  /\ task[t].pc = "enqueue"
  /\ hist' = IF room
               THEN [told   |-> hist.told \cup task[t].unread,
                     notice |-> [u \in Users |-> IF u \in task[t].to THEN 0
                                                 ELSE hist.notice[u]]]
               ELSE hist
  /\ task' = [task EXCEPT ![t].pc = "check", ![t].to = {}, ![t].unread = {}]
  /\ UNCHANGED <<mail, seen, slot, sleep, room, faults>>

\* What ends a task, and sends the job to sleep.
Ends(t) ==
  /\ task' = [task EXCEPT ![t] = Idle]
  /\ sleep' = IF t = "job" THEN notify_every ELSE sleep

Finish(t) ==
  /\ task[t].pc = "check" /\ task[t].todo = {}
  /\ Ends(t)
  /\ UNCHANGED <<mail, seen, slot, room, faults, hist>>

\* A statement raises: the pump answers an error, the job is logged as failed; what
\* should_notify recorded stays recorded.
StatementRaises(t) ==
  /\ task[t].pc # "idle"
  /\ faults < MaxFaults
  /\ faults' = faults + 1
  /\ Ends(t)
  /\ UNCHANGED <<mail, seen, slot, room, hist>>

-----------------------------------------------------------------------------
(* Retention, the queue, the clock, the process                            *)

Purgeable == {i \in MailIds : mail[i].read_at = "read"}

\* audit_prune: purge_old_read_mail.  The retention, days against the minutes of the
\* clock, may have passed for any of the read mails.
PurgeOldRead ==
  \E old \in SUBSET Purgeable \ {{}} :
    /\ mail' = [i \in MailIds |-> IF i \in old THEN [mail[i] EXCEPT !.read_at = "purged"]
                                  ELSE mail[i]]
    /\ UNCHANGED <<seen, slot, task, sleep, room, faults, hist>>

\* outbound_pending_depth rises to the limit, or falls below it.
QueueFillsOrDrains ==
  /\ room' = ~room
  /\ UNCHANGED <<mail, seen, slot, task, sleep, faults, hist>>

Older(age, limit) == IF age < limit THEN age + 1 ELSE age

Tick ==
  /\ \A t \in Tasks : task[t].pc # "idle" => task[t].lag < MaxLag
  /\ seen' = [u \in Users |-> Older(seen[u], Away)]
  /\ slot' = [u \in Users |-> Older(slot[u], Free)]
  /\ task' = [t \in Tasks |-> IF task[t].pc = "idle" THEN Idle
                              ELSE [task[t] EXCEPT !.lag = @ + 1]]
  /\ sleep' = IF sleep > 0 THEN sleep - 1 ELSE 0
  /\ hist' = [hist EXCEPT !.notice =
                [u \in Users |-> Older(hist.notice[u], notify_min_interval)]]
  /\ UNCHANGED <<mail, room, faults>>

\* The throttle lives as long as the process.
Restart ==
  /\ faults < MaxFaults
  /\ faults' = faults + 1
  /\ slot' = [u \in Users |-> Free]
  /\ task' = [t \in Tasks |-> Idle]
  /\ sleep' = 0
  /\ hist' = [hist EXCEPT !.notice = [u \in Users |-> notify_min_interval]]
  /\ UNCHANGED <<mail, seen, room>>

TaskStep(t) == Check(t) \/ Count(t) \/ Enqueue(t) \/ Finish(t)

Next ==
  \/ \E u, v \in Users : Send(u, v)
  \/ \E u \in Users, i \in MailIds : ReadMail(u, i) \/ DeleteMail(u, i)
  \/ \E u \in Users : MeshActivity(u)
  \/ StartJob
  \/ \E t \in Tasks : TaskStep(t) \/ StatementRaises(t)
  \/ PurgeOldRead
  \/ QueueFillsOrDrains
  \/ Tick
  \/ Restart

\* Tasks run on, the job wakes up and time passes; nobody has to write, read or move.
Fairness ==
  /\ \A t \in Tasks : WF_vars(TaskStep(t))
  /\ WF_vars(StartJob)
  /\ WF_vars(Tick)

Spec == Init /\ [][Next]_vars /\ Fairness
=============================================================================
