--------------------------- MODULE MailProperties ---------------------------
(* What mail promises its users.                                           *)
EXTENDS Mail

\* Types: rows, ages and tasks stay in their sets (mail.py, db.py table mail).
TypeOK ==
  /\ mail \in Seq(MailRow) /\ Len(mail) <= MaxMails
  /\ seen \in [Users -> 0 .. Away]
  /\ slot \in [Users -> 0 .. Free]
  /\ task \in [Tasks -> Task]
  /\ sleep \in 0 .. notify_every
  /\ room \in BOOLEAN
  /\ faults \in 0 .. MaxFaults
  /\ hist \in Hist

\* The notice after a SEND counts the mail it is about (_maybe_notify_recipient runs
\* before the pump takes the next message): the recipient is never told of "0 new
\* mail", nor of all mail but this one.
NoticeCoversMail ==
  task["pump"].pc = "enqueue" => Len(mail) \in task["pump"].unread

\* An unread mail stays until its addressee reads or deletes it: no job, no crash and
\* nobody else's command takes it (purge_old_read_mail, get_mail's viewer_pk).
UnreadKept ==
  [][\A u \in Users : \A i \in UnreadOf(u) :
       i \in UnreadOf(u)' \/ ReadMail(u, i) \/ DeleteMail(u, i)]_vars

\* Two notices to one user are the interval apart, but for the time a task takes from
\* its time stamp to the enqueue, although pump and job share one throttle without a
\* lock; a restart forgets the throttle (should_notify).
NotifyThrottled ==
  [][\A t \in Tasks : \A u \in task[t].to :
       Enqueue(t) /\ room => hist.notice[u] + MaxLag >= notify_min_interval]_vars

\* Who stays on the mesh, while the queue has room, is in the end told of every mail
\* they have not read, though notices are throttled, dropped by a full queue after
\* they took the slot, and lost with the process (mail_notify_job).
UnreadIsNoticed ==
  \A u \in Users, i \in 1 .. MaxMails :
    <>[](seen[u] <= online_threshold /\ room)
      => [](i \in UnreadOf(u) => <>(i \notin UnreadOf(u) \/ i \in hist.told))
=============================================================================
