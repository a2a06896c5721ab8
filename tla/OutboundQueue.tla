--------------------------- MODULE OutboundQueue ---------------------------
(***************************************************************************)
(* The persistent side of the outbound path: the SQLite tables             *)
(* outbound_queue and outbound_pause, and the statements of                *)
(* bbs/db.py that read and write them.                                     *)
(*                                                                         *)
(* Rows are kept in the order of their AUTOINCREMENT id, so the id of a    *)
(* row is its position in the sequence.  A row's body, trigger_command and *)
(* msg_kind do not influence the queue and are left out.  Time is whole    *)
(* seconds, as in every integer column of the schema.                      *)
(***************************************************************************)
EXTENDS Integers, Sequences, FiniteSets

CONSTANTS
  Pubkeys,        \* recipients
  Priorities,     \* values used for the priority column
  MaxTime         \* bound: the model's horizon for the clock

ASSUME PrioritiesAssumption == Priorities \subseteq Nat
ASSUME MaxTimeAssumption == MaxTime \in Nat

VARIABLES
  now,            \* int(time.time())
  rows,           \* table outbound_queue
  pause,          \* table outbound_pause: paused_until, 0 when there is no row
  saved           \* outbound_pause as it was committed last

Status == {"pending", "sent", "failed", "dropped", "cancelled"}

OutboundMessage ==
  [to_pubkey : Pubkeys, priority : Priorities, enqueued_at : Nat,
   next_attempt : Nat, attempts : Nat, status : Status]

Ids == DOMAIN rows

Pending == {i \in Ids : rows[i].status = "pending"}

\* Mutant of Ready: the claim forgets the status.
ReadyWhateverStatus(t) == {i \in Ids : rows[i].next_attempt <= t}

Ready(t) == {i \in Pending : rows[i].next_attempt <= t}

-----------------------------------------------------------------------------
(* Statements.  Each is one execute + commit on the shared connection, but *)
(* for the INSERT into outbound_pause, which others commit.                 *)

\* INSERT of a fresh row, due at once.
EnqueueOutbound(pk, prio, at) ==
  rows' = Append(rows, [to_pubkey |-> pk, priority |-> prio, enqueued_at |-> at,
                        next_attempt |-> at, attempts |-> 0, status |-> "pending"])

\* The rows ORDER BY priority DESC, enqueued_at ASC LIMIT 1 may return: SQL
\* leaves the choice among equal keys open.
NextOutbound(t) ==
  {i \in Ready(t) : \A j \in Ready(t) :
      \/ rows[j].priority < rows[i].priority
      \/ /\ rows[j].priority = rows[i].priority
         /\ rows[i].enqueued_at <= rows[j].enqueued_at}

\* The unguarded UPDATE ... SET status = s WHERE id = i.
SetStatus(i, s) == rows' = [rows EXCEPT ![i].status = s]

\* Mutant of DropStaleOutbound: a status nothing else knows.
StaleExpires(before) ==
  rows' = [i \in Ids |->
             IF rows[i].status = "pending" /\ rows[i].enqueued_at < before
               THEN [rows[i] EXCEPT !.status = "expired"]
               ELSE rows[i]]

\* Mutant of DropStaleOutbound: a second too early.
DropsAtAge(before) ==
  rows' = [i \in Ids |->
             IF rows[i].status = "pending" /\ rows[i].enqueued_at <= before
               THEN [rows[i] EXCEPT !.status = "dropped"]
               ELSE rows[i]]

DropStaleOutbound(before) ==
  rows' = [i \in Ids |->
             IF rows[i].status = "pending" /\ rows[i].enqueued_at < before
               THEN [rows[i] EXCEPT !.status = "dropped"]
               ELSE rows[i]]

\* What reschedule_outbound computes for the back of the queue, a singleton: one
\* past the clock and past every pending row.
BackOfQueue ==
  {t + 1 : t \in {u \in {now} \cup {rows[i].enqueued_at : i \in Pending} :
                   /\ now <= u
                   /\ \A i \in Pending : rows[i].enqueued_at <= u}}

\* Mutant of RescheduleOutbound: the attempts are not written.
RescheduleForgetsAttempts(i, next, att, back) ==
  rows' = [rows EXCEPT ![i].next_attempt = next, ![i].enqueued_at = back]

\* The UPDATE of reschedule_outbound: no status guard, and the attempts written
\* are the caller's.
RescheduleOutbound(i, next, att, back) ==
  rows' = [rows EXCEPT ![i].next_attempt = next,
                       ![i].attempts = att,
                       ![i].enqueued_at = back]

\* get_outbound_pause_until, once it knows the row's paused_until: the row is over ...
PauseIsOver(until) == until <= now

\* ... and deleted, whatever it says by now.
DeletePause(pk) == pause' = [pause EXCEPT ![pk] = 0]

\* conn.commit(), with which any task commits what all of them have written.
Commits == saved' = pause'
=============================================================================
