----------------------------- MODULE MailProofs -----------------------------
(***************************************************************************)
(* Proofs that, for any users, intervals and numbers of mails and faults,  *)
(* the state of Mail keeps its types, a notice counts the mail it is       *)
(* about, unread mail stays and notices to one user keep their distance.   *)
(***************************************************************************)
EXTENDS MailProperties, TLAPS

USE IntervalAssumption DEF Tasks, MailIds

-----------------------------------------------------------------------------
(* The inductive invariant                                                 *)

\* A task holds the slot of one user from should_notify to the enqueue.
Working ==
  \A t \in Tasks :
    IF task[t].pc \in {"count", "enqueue"} THEN \E u \in Users : task[t].to = {u}
                                           ELSE task[t].to = {}

\* While the pump has a recipient to tell, the mail it has stored last is unread.
LastIsUnread ==
  /\ task["pump"].pc # "idle" =>
       \A u \in task["pump"].todo : Len(mail) \in UnreadOf(u)
  /\ task["pump"].pc = "count" =>
       \A u \in task["pump"].to : Len(mail) \in UnreadOf(u)

\* If the interval is longer than a task takes, who holds a slot took it less than an
\* interval ago, so nobody else can take it; and nobody takes a slot before the notice
\* that took it last is old enough.
SlotsApart ==
  MaxLag < notify_min_interval =>
    /\ \A u \in Users : hist.notice[u] + MaxLag >= slot[u]
    /\ \A t \in Tasks : \A u \in task[t].to :
         slot[u] <= task[t].lag /\ hist.notice[u] + MaxLag >= notify_min_interval

\* No slot is held by both tasks.
HeldOnce ==
  MaxLag < notify_min_interval => task["pump"].to \cap task["job"].to = {}

IInv ==
  TypeOK /\ Working /\ NoticeCoversMail /\ LastIsUnread /\ SlotsApart /\ HeldOnce

-----------------------------------------------------------------------------
(* Types                                                                   *)

\* The fields of a task.
LEMMA TaskFields ==
  ASSUME TypeOK, NEW t \in Tasks
  PROVE  /\ task \in [Tasks -> Task] /\ task[t] \in Task
         /\ task[t].todo \subseteq Users /\ task[t].to \subseteq Users
         /\ task[t].lag \in 0 .. MaxLag /\ task[t].unread \subseteq 1 .. MaxMails
  BY DEF TypeOK, Task

\* A task that does nothing.
LEMMA IdleIsTask ==
  /\ Idle \in Task
  /\ Idle.pc = "idle" /\ Idle.todo = {} /\ Idle.to = {} /\ Idle.lag = 0
  BY DEF Idle, Task

\* What unread mail there is.
LEMMA UnreadIds ==
  ASSUME TypeOK, NEW u
  PROVE  UnreadOf(u) \subseteq 1 .. Len(mail) /\ UnreadOf(u) \subseteq 1 .. MaxMails
  BY DEF TypeOK, UnreadOf

\* The age a task works with is an age.
LEMMA LagIsAge ==
  ASSUME TypeOK, NEW t \in Tasks
  PROVE  Lag(t) \in 0 .. MaxLag
  BY TaskFields DEF Lag

\* Ages grow up to their limit.
LEMMA AgesGrow ==
  ASSUME NEW limit \in Nat, NEW age \in [Users -> 0 .. limit]
  PROVE  [u \in Users |-> Older(age[u], limit)] \in [Users -> 0 .. limit]
  BY DEF Older

\* Rows are changed in place by commands and by the retention job.
LEMMA SetRow ==
  ASSUME TypeOK, NEW i \in DOMAIN mail, NEW row \in MailRow,
         mail' = [mail EXCEPT ![i] = row]
  PROVE  /\ mail' \in Seq(MailRow) /\ Len(mail') = Len(mail)
         /\ DOMAIN mail' = DOMAIN mail
  BY DEF TypeOK

\* The purge takes no unread mail.
LEMMA PurgedRows ==
  ASSUME TypeOK, PurgeOldRead
  PROVE  /\ mail' \in Seq(MailRow) /\ Len(mail') = Len(mail)
         /\ \A u : UnreadOf(u)' = UnreadOf(u)
<1>1. PICK old \in SUBSET Purgeable :
        mail' = [i \in DOMAIN mail |-> IF i \in old
                                         THEN [mail[i] EXCEPT !.read_at = "purged"]
                                         ELSE mail[i]]
  BY DEF PurgeOldRead
<1>2. DOMAIN mail = 1 .. Len(mail) /\ Len(mail) \in Nat
  BY DEF TypeOK
<1>3. ASSUME NEW i \in 1 .. Len(mail)
      PROVE  mail'[i] \in MailRow
  <2>1. mail[i] \in MailRow
    BY <1>2 DEF TypeOK
  <2>2. [mail[i] EXCEPT !.read_at = "purged"] \in MailRow
    BY <2>1 DEF MailRow
  <2>3. QED
    BY <1>1, <1>2, <2>1, <2>2
<1>4. mail' \in Seq(MailRow) /\ Len(mail') = Len(mail)
  BY <1>1, <1>2, <1>3
<1>5. ASSUME NEW i \in 1 .. Len(mail)
      PROVE  /\ mail'[i].to = mail[i].to /\ mail'[i].deleted = mail[i].deleted
             /\ mail'[i].read_at = "never" <=> mail[i].read_at = "never"
  BY <1>1, <1>2 DEF TypeOK, MailRow, Purgeable
<1>6. \A u : UnreadOf(u)' = UnreadOf(u)
  BY <1>1, <1>2, <1>5 DEF UnreadOf
<1>7. QED
  BY <1>4, <1>6

\* Every step keeps the types.
LEMMA TypeStep ==
  ASSUME TypeOK, [Next]_vars
  PROVE  TypeOK'
<1>0. Away \in Nat /\ Free \in Nat /\ MaxLag <= Free
  BY DEF Away, Free
<1> USE <1>0
<1>1. ASSUME NEW u \in Users, NEW v \in Users, Send(u, v)
      PROVE  TypeOK'
  <2> DEFINE row == [to |-> v, read_at |-> "never", deleted |-> FALSE]
             c == [Idle EXCEPT !.pc = "check", !.todo = {v}]
  <2>1. row \in MailRow /\ c \in Task
    <3>1. row \in MailRow
      BY DEF MailRow
    <3>2. c \in Task
      BY IdleIsTask DEF Task
    <3>3. QED
      BY <3>1, <3>2
  <2>2. mail' = Append(mail, row) /\ task' = [task EXCEPT !["pump"] = c]
    BY <1>1 DEF Send
  <2> HIDE DEF row, c
  <2>3. mail' \in Seq(MailRow) /\ Len(mail') = Len(mail) + 1
    BY <2>1, <2>2 DEF TypeOK
  <2>4. QED
    BY <1>1, <2>1, <2>2, <2>3 DEF TypeOK, Send, From
<1>2. ASSUME NEW u \in Users, NEW i \in DOMAIN mail, ReadMail(u, i) \/ DeleteMail(u, i)
      PROVE  TypeOK'
  <2>1. PICK row \in MailRow : mail' = [mail EXCEPT ![i] = row]
    <3>1. mail[i] \in MailRow
      BY DEF TypeOK
    <3>2. /\ [mail[i] EXCEPT !.read_at = "read"] \in MailRow
          /\ [mail[i] EXCEPT !.deleted = TRUE] \in MailRow
      BY <3>1 DEF MailRow
    <3>3. QED
      BY <1>2, <3>2 DEF ReadMail, DeleteMail
  <2>2. mail' \in Seq(MailRow) /\ Len(mail') = Len(mail)
    BY <2>1, SetRow
  <2>3. seen' \in [Users -> 0 .. Away]
    <3>1. seen' = [seen EXCEPT ![u] = 0] /\ seen \in [Users -> 0 .. Away]
      BY <1>2 DEF TypeOK, ReadMail, DeleteMail, From
    <3>2. QED
      BY <3>1
  <2>4. UNCHANGED <<slot, task, sleep, room, faults, hist>>
    BY <1>2 DEF ReadMail, DeleteMail
  <2>5. QED
    BY <2>2, <2>3, <2>4 DEF TypeOK
<1>3. ASSUME NEW u \in Users, MeshActivity(u)
      PROVE  TypeOK'
  BY <1>3 DEF TypeOK, MeshActivity, From
<1>4. CASE StartJob
  <2> DEFINE c == [Idle EXCEPT !.pc = "check", !.todo = {u \in Users : UnreadOf(u) # {}}]
  <2>1. c \in Task
    BY IdleIsTask DEF Task
  <2>2. task' = [task EXCEPT !["job"] = c]
    BY <1>4 DEF StartJob
  <2> HIDE DEF c
  <2>3. QED
    BY <1>4, <2>1, <2>2 DEF TypeOK, StartJob
<1>5. ASSUME NEW t \in Tasks, Check(t)
      PROVE  TypeOK'
  <2>1. PICK u \in task[t].todo :
          /\ slot' \in {slot, [slot EXCEPT ![u] = Lag(t)]}
          /\ \/ task' = [task EXCEPT ![t].todo = @ \ {u}, ![t].lag = Lag(t),
                                     ![t].pc = IF SlotFree(u, t) THEN "count" ELSE "check",
                                     ![t].to = IF SlotFree(u, t) THEN {u} ELSE {}]
             \/ task' = [task EXCEPT ![t].todo = @ \ {u}]
    BY <1>5 DEF Check, ShouldNotify
  <2>2. u \in Users /\ Lag(t) \in 0 .. MaxLag
    BY TaskFields, LagIsAge
  <2>3. PICK c \in Task : task' = [task EXCEPT ![t] = c]
    <3>1. /\ [task[t] EXCEPT !.todo = @ \ {u}] \in Task
          /\ \A pc \in {"count", "check"}, to \in {{u}, {}} :
               [task[t] EXCEPT !.todo = @ \ {u}, !.lag = Lag(t), !.pc = pc, !.to = to] \in Task
      BY <2>2, TaskFields DEF Task
    <3>2. \/ task' = [task EXCEPT ![t] = [task[t] EXCEPT !.todo = @ \ {u}]]
          \/ \E pc \in {"count", "check"}, to \in {{u}, {}} :
               task' = [task EXCEPT ![t] = [task[t] EXCEPT !.todo = @ \ {u}, !.lag = Lag(t),
                                                           !.pc = pc, !.to = to]]
      BY <2>1, TaskFields
    <3>3. QED
      BY <3>1, <3>2
  <2>4. slot' \in [Users -> 0 .. Free]
    <3>1. slot \in [Users -> 0 .. Free] /\ Lag(t) \in 0 .. Free
      BY <2>2 DEF TypeOK
    <3>2. QED
      BY <2>1, <2>2, <3>1
  <2>5. QED
    BY <1>5, <2>3, <2>4 DEF TypeOK, Check
<1>6. ASSUME NEW t \in Tasks, Count(t)
      PROVE  TypeOK'
  <2> DEFINE unread == UNION {UnreadOf(u) : u \in task[t].to}
             c == [task[t] EXCEPT !.pc = "enqueue", !.unread = unread]
  <2>1. unread \subseteq 1 .. MaxMails
    BY UnreadIds
  <2>2. c \in Task
    BY <2>1, TaskFields DEF Task
  <2>3. task' = [task EXCEPT ![t] = c]
    BY <1>6, TaskFields DEF Count
  <2> HIDE DEF c
  <2>4. QED
    BY <1>6, <2>2, <2>3 DEF TypeOK, Count
<1>7. ASSUME NEW t \in Tasks, Enqueue(t)
      PROVE  TypeOK'
  <2> DEFINE c == [task[t] EXCEPT !.pc = "check", !.to = {}, !.unread = {}]
  <2>1. c \in Task
    BY TaskFields DEF Task
  <2>2. task' = [task EXCEPT ![t] = c]
    BY <1>7, TaskFields DEF Enqueue
  <2> HIDE DEF c
  <2>3. hist' \in Hist
    <3>1. hist \in Hist /\ task[t].unread \subseteq 1 .. MaxMails
      BY TaskFields DEF TypeOK
    <3>2. \/ hist' = hist
          \/ hist' = [told   |-> hist.told \cup task[t].unread,
                      notice |-> [u \in Users |-> IF u \in task[t].to THEN 0
                                                  ELSE hist.notice[u]]]
      BY <1>7 DEF Enqueue
    <3>3. QED
      BY <3>1, <3>2 DEF Hist
  <2>4. UNCHANGED <<mail, seen, slot, sleep, room, faults>>
    BY <1>7 DEF Enqueue
  <2>5. QED
    BY <2>1, <2>2, <2>3, <2>4 DEF TypeOK
<1>8. ASSUME NEW t \in Tasks, Finish(t) \/ StatementRaises(t)
      PROVE  TypeOK'
  <2>1. task' = [task EXCEPT ![t] = Idle] /\ sleep' \in {notify_every, sleep}
    BY <1>8 DEF Finish, StatementRaises, Ends
  <2>2. UNCHANGED <<mail, seen, slot, room, hist>>
    BY <1>8 DEF Finish, StatementRaises
  <2>3. faults' \in 0 .. MaxFaults
    BY <1>8 DEF TypeOK, Finish, StatementRaises
  <2>4. QED
    BY <2>1, <2>2, <2>3, IdleIsTask DEF TypeOK
<1>9. CASE PurgeOldRead
  BY <1>9, PurgedRows DEF TypeOK, PurgeOldRead
<1>10. CASE QueueFillsOrDrains
  BY <1>10 DEF TypeOK, QueueFillsOrDrains
<1>11. CASE Tick
  <2>1. ASSUME NEW t \in Tasks
        PROVE  task'[t] \in Task
    BY <1>11, <2>1, TaskFields, IdleIsTask DEF Tick, Task
  <2>2. task' \in [Tasks -> Task]
    BY <1>11, <2>1 DEF Tick
  <2>3. hist' \in Hist
    BY <1>11, AgesGrow DEF Tick, TypeOK, Hist
  <2>4. seen' \in [Users -> 0 .. Away] /\ slot' \in [Users -> 0 .. Free]
    BY <1>11, AgesGrow DEF Tick, TypeOK
  <2>5. QED
    BY <1>11, <2>2, <2>3, <2>4 DEF Tick, TypeOK
<1>12. CASE Restart
  <2>1. slot' \in [Users -> 0 .. Free]
    BY <1>12 DEF Restart
  <2>2. hist' \in Hist
    <3>1. hist \in Hist /\ hist' = [hist EXCEPT !.notice = [u \in Users |-> notify_min_interval]]
      BY <1>12 DEF Restart, TypeOK
    <3>2. [u \in Users |-> notify_min_interval] \in [Users -> 0 .. notify_min_interval]
      OBVIOUS
    <3>3. QED
      BY <3>1, <3>2 DEF Hist
  <2>3. task' \in [Tasks -> Task] /\ sleep' \in 0 .. notify_every /\ faults' \in 0 .. MaxFaults
    BY <1>12, IdleIsTask DEF TypeOK, Restart
  <2>4. QED
    BY <1>12, <2>1, <2>2, <2>3 DEF TypeOK, Restart
<1>13. CASE UNCHANGED vars
  BY <1>13 DEF TypeOK, vars
<1>14. QED
  BY <1>1, <1>2, <1>3, <1>4, <1>5, <1>6, <1>7, <1>8, <1>9, <1>10, <1>11, <1>12, <1>13
     DEF Next, TaskStep

-----------------------------------------------------------------------------
(* What a step does to a task                                              *)

\* The fields of a task after each of its steps, and that other tasks keep theirs.
LEMMA CheckTask ==
  ASSUME TypeOK, NEW t \in Tasks, Check(t)
  PROVE  \E u \in task[t].todo :
           /\ \A s \in Tasks \ {t} : task'[s] = task[s]
           /\ task'[t].unread = task[t].unread
           /\ task'[t].todo \subseteq task[t].todo
           /\ \/ /\ SlotFree(u, t)
                 /\ slot' = [slot EXCEPT ![u] = Lag(t)]
                 /\ task'[t].pc = "count" /\ task'[t].to = {u} /\ task'[t].lag = Lag(t)
              \/ /\ slot' = slot
                 /\ task'[t].pc = "check" /\ task'[t].to \in {{}, task[t].to}
<1>1. PICK u \in task[t].todo :
        IF IsOnline(u, t)
          THEN /\ ShouldNotify(u, t)
               /\ task' = [task EXCEPT ![t].todo = @ \ {u}, ![t].lag = Lag(t),
                                       ![t].pc = IF SlotFree(u, t) THEN "count" ELSE "check",
                                       ![t].to = IF SlotFree(u, t) THEN {u} ELSE {}]
          ELSE /\ task' = [task EXCEPT ![t].todo = @ \ {u}]
               /\ slot' = slot
  BY DEF Check
<1>2. task[t].pc = "check"
  BY DEF Check
<1>3. CASE IsOnline(u, t) /\ SlotFree(u, t)
  <2>1. task' = [task EXCEPT ![t].todo = @ \ {u}, ![t].lag = Lag(t), ![t].pc = "count",
                             ![t].to = {u}]
    BY <1>1, <1>3
  <2>2. slot' = [slot EXCEPT ![u] = Lag(t)]
    BY <1>1, <1>3 DEF ShouldNotify
  <2>3. QED
    BY <1>3, <2>1, <2>2, TaskFields DEF Task
<1>4. CASE IsOnline(u, t) /\ ~SlotFree(u, t)
  <2>1. task' = [task EXCEPT ![t].todo = @ \ {u}, ![t].lag = Lag(t), ![t].pc = "check",
                             ![t].to = {}]
    BY <1>1, <1>4
  <2>2. slot' = slot
    BY <1>1, <1>4 DEF ShouldNotify
  <2>3. QED
    BY <2>1, <2>2, TaskFields DEF Task
<1>5. CASE ~IsOnline(u, t)
  <2>1. task' = [task EXCEPT ![t].todo = @ \ {u}] /\ slot' = slot
    BY <1>1, <1>5
  <2>2. QED
    BY <1>2, <2>1, TaskFields DEF Task
<1>6. QED
  BY <1>3, <1>4, <1>5

\* After the count a task knows the unread mail of its recipient.
LEMMA CountTask ==
  ASSUME TypeOK, NEW t \in Tasks, Count(t)
  PROVE  /\ \A s \in Tasks \ {t} : task'[s] = task[s]
         /\ task[t].pc = "count" /\ task'[t].pc = "enqueue"
         /\ task'[t].unread = UNION {UnreadOf(u) : u \in task[t].to}
         /\ task'[t].to = task[t].to /\ task'[t].todo = task[t].todo
         /\ task'[t].lag = task[t].lag
<1>1. task' = [task EXCEPT ![t] = [task[t] EXCEPT !.pc = "enqueue",
                                     !.unread = UNION {UnreadOf(u) : u \in task[t].to}]]
  BY TaskFields DEF Count
<1>2. QED
  BY <1>1, TaskFields DEF Count, Task

\* After the enqueue it has nobody to tell.
LEMMA EnqueueTask ==
  ASSUME TypeOK, NEW t \in Tasks, Enqueue(t)
  PROVE  /\ \A s \in Tasks \ {t} : task'[s] = task[s]
         /\ task[t].pc = "enqueue" /\ task'[t].pc = "check"
         /\ task'[t].to = {} /\ task'[t].todo = task[t].todo
<1>1. task' = [task EXCEPT ![t] = [task[t] EXCEPT !.pc = "check", !.to = {}, !.unread = {}]]
  BY TaskFields DEF Enqueue
<1>2. QED
  BY <1>1, TaskFields DEF Enqueue, Task

\* A task that ends, or raises, remembers nothing.
LEMMA EndTask ==
  ASSUME TypeOK, NEW t \in Tasks, Finish(t) \/ StatementRaises(t)
  PROVE  /\ \A s \in Tasks \ {t} : task'[s] = task[s]
         /\ task'[t] = Idle
  BY TaskFields DEF Finish, StatementRaises, Ends

\* Time that passes adds to the lag of a task at work.
LEMMA TickTask ==
  ASSUME TypeOK, NEW t \in Tasks, Tick
  PROVE  IF task[t].pc = "idle"
           THEN task'[t] = Idle
           ELSE /\ task'[t].pc = task[t].pc /\ task'[t].to = task[t].to
                /\ task'[t].todo = task[t].todo /\ task'[t].unread = task[t].unread
                /\ task'[t].lag = task[t].lag + 1
  BY TaskFields DEF Tick, Task

\* A step that begins a task.
LEMMA BeginTask ==
  ASSUME TypeOK, NEW t \in Tasks, NEW S,
         task' = [task EXCEPT ![t] = [Idle EXCEPT !.pc = "check", !.todo = S]]
  PROVE  /\ \A s \in Tasks \ {t} : task'[s] = task[s]
         /\ task'[t].pc = "check" /\ task'[t].to = {} /\ task'[t].todo = S
  BY TaskFields, IdleIsTask DEF Task

-----------------------------------------------------------------------------
(* Who holds a slot                                                        *)

\* Every step keeps Working.
LEMMA WorkingStep ==
  ASSUME TypeOK, Working, [Next]_vars
  PROVE  Working'
<1> SUFFICES ASSUME NEW t \in Tasks
             PROVE  IF task'[t].pc \in {"count", "enqueue"}
                      THEN \E u \in Users : task'[t].to = {u} ELSE task'[t].to = {}
  BY DEF Working
<1>0. IF task[t].pc \in {"count", "enqueue"}
        THEN \E u \in Users : task[t].to = {u} ELSE task[t].to = {}
  BY DEF Working
<1>1. ASSUME NEW u \in Users, NEW v \in Users, Send(u, v)
      PROVE  IF task'[t].pc \in {"count", "enqueue"}
               THEN \E w \in Users : task'[t].to = {w} ELSE task'[t].to = {}
  <2>1. task' = [task EXCEPT !["pump"] = [Idle EXCEPT !.pc = "check", !.todo = {v}]]
    BY <1>1 DEF Send
  <2>2. /\ \A s \in Tasks \ {"pump"} : task'[s] = task[s]
        /\ task'["pump"].pc = "check" /\ task'["pump"].to = {}
    BY <2>1, BeginTask
  <2>3. QED
    BY <1>0, <2>2
<1>2. CASE StartJob
  <2>1. PICK S : task' = [task EXCEPT !["job"] = [Idle EXCEPT !.pc = "check", !.todo = S]]
    BY <1>2 DEF StartJob
  <2>2. /\ \A s \in Tasks \ {"job"} : task'[s] = task[s]
        /\ task'["job"].pc = "check" /\ task'["job"].to = {}
    BY <2>1, BeginTask
  <2>3. QED
    BY <1>0, <2>2
<1>3. ASSUME NEW s \in Tasks, Check(s)
      PROVE  IF task'[t].pc \in {"count", "enqueue"}
               THEN \E w \in Users : task'[t].to = {w} ELSE task'[t].to = {}
  <2>1. task[s].pc = "check"
    BY <1>3 DEF Check
  <2>2. task[s].to = {}
    BY <2>1 DEF Working
  <2>3. QED
    BY <1>0, <1>3, <2>1, <2>2, CheckTask, TaskFields
<1>4. ASSUME NEW s \in Tasks, Count(s)
      PROVE  IF task'[t].pc \in {"count", "enqueue"}
               THEN \E w \in Users : task'[t].to = {w} ELSE task'[t].to = {}
  BY <1>0, <1>4, CountTask
<1>5. ASSUME NEW s \in Tasks, Enqueue(s)
      PROVE  IF task'[t].pc \in {"count", "enqueue"}
               THEN \E w \in Users : task'[t].to = {w} ELSE task'[t].to = {}
  BY <1>0, <1>5, EnqueueTask
<1>6. ASSUME NEW s \in Tasks, Finish(s) \/ StatementRaises(s)
      PROVE  IF task'[t].pc \in {"count", "enqueue"}
               THEN \E w \in Users : task'[t].to = {w} ELSE task'[t].to = {}
  BY <1>0, <1>6, EndTask, IdleIsTask
<1>7. CASE Tick
  BY <1>0, <1>7, TickTask, IdleIsTask
<1>8. CASE Restart
  BY <1>8, IdleIsTask DEF Restart
<1>9. CASE UNCHANGED task
  BY <1>0, <1>9
<1>10. QED
  BY <1>1, <1>2, <1>3, <1>4, <1>5, <1>6, <1>7, <1>8, <1>9
     DEF Next, TaskStep, ReadMail, DeleteMail, MeshActivity, PurgeOldRead,
         QueueFillsOrDrains, vars

-----------------------------------------------------------------------------
(* The notice after a SEND                                                 *)

\* While the pump tells a recipient nothing happens to the mail table but the purge.
LEMMA PumpOwnsMail ==
  ASSUME TypeOK, [Next]_vars, task["pump"].pc # "idle"
  PROVE  Len(mail') = Len(mail) /\ \A u : UnreadOf(u)' = UnreadOf(u)
<1>1. task["pump"] # Idle
  BY IdleIsTask
<1>2. CASE PurgeOldRead
  BY <1>2, PurgedRows
<1>3. CASE UNCHANGED mail
  BY <1>3 DEF UnreadOf
<1>4. QED
  BY <1>1, <1>2, <1>3
     DEF Next, TaskStep, Send, ReadMail, DeleteMail, MeshActivity, From, StartJob, Check,
         Count, Enqueue, Finish, StatementRaises, QueueFillsOrDrains, Tick, Restart, vars

\* Every step keeps the notice right.
LEMMA NoticeStep ==
  ASSUME TypeOK, Working, NoticeCoversMail, LastIsUnread, [Next]_vars
  PROVE  NoticeCoversMail' /\ LastIsUnread'
<1>1. ASSUME NEW u \in Users, NEW v \in Users, Send(u, v)
      PROVE  NoticeCoversMail' /\ LastIsUnread'
  <2>1. task' = [task EXCEPT !["pump"] = [Idle EXCEPT !.pc = "check", !.todo = {v}]]
    BY <1>1 DEF Send
  <2>2. task'["pump"].pc = "check" /\ task'["pump"].todo = {v}
    BY <2>1, BeginTask
  <2>3. mail' = Append(mail, [to |-> v, read_at |-> "never", deleted |-> FALSE])
    BY <1>1 DEF Send
  <2>4. Len(mail') = Len(mail) + 1 /\ Len(mail') \in DOMAIN mail'
    BY <2>3 DEF TypeOK
  <2>5. mail'[Len(mail')] = [to |-> v, read_at |-> "never", deleted |-> FALSE]
    BY <2>3, <2>4 DEF TypeOK
  <2>6. Len(mail') \in UnreadOf(v)'
    BY <2>4, <2>5 DEF UnreadOf
  <2>7. QED
    BY <2>2, <2>6 DEF NoticeCoversMail, LastIsUnread
<1>2. CASE task'["pump"].pc = "idle"
  BY <1>2 DEF NoticeCoversMail, LastIsUnread
<1>3. CASE task["pump"].pc # "idle" /\ task'["pump"].pc # "idle"
  <2> USE <1>3, PumpOwnsMail
  <2>1. CASE Check("pump")
    <3>1. task'["pump"].pc \in {"check", "count"}
      BY <2>1, CheckTask
    <3>2. \A u \in task["pump"].todo : Len(mail) \in UnreadOf(u)
      BY <2>1 DEF Check, LastIsUnread
    <3>3. task'["pump"].todo \subseteq task["pump"].todo
      BY <2>1, CheckTask
    <3>4. task'["pump"].pc = "count" => task'["pump"].to \subseteq task["pump"].todo
      BY <2>1, CheckTask
    <3>5. QED
      BY <3>1, <3>2, <3>3, <3>4 DEF NoticeCoversMail, LastIsUnread
  <2>2. CASE Count("pump")
    <3>1. task["pump"].pc = "count" /\ task'["pump"].pc = "enqueue"
      BY <2>2, CountTask
    <3>2. PICK u \in Users : task["pump"].to = {u}
      BY <3>1 DEF Working
    <3>3. Len(mail) \in UnreadOf(u)
      BY <3>1, <3>2 DEF LastIsUnread
    <3>4. task'["pump"].unread = UNION {UnreadOf(w) : w \in task["pump"].to}
      BY <2>2, CountTask
    <3>5. Len(mail') \in task'["pump"].unread
      BY <3>2, <3>3, <3>4
    <3>6. task'["pump"].todo = task["pump"].todo
      BY <2>2, CountTask
    <3>7. QED
      BY <3>1, <3>5, <3>6 DEF NoticeCoversMail, LastIsUnread
  <2>3. CASE Enqueue("pump")
    <3>1. task'["pump"].pc = "check" /\ task'["pump"].todo = task["pump"].todo
      BY <2>3, EnqueueTask
    <3>2. QED
      BY <3>1 DEF NoticeCoversMail, LastIsUnread
  <2>4. CASE UNCHANGED task["pump"] \/ Tick
    BY <2>4, TickTask DEF NoticeCoversMail, LastIsUnread
  <2>5. QED
    <3>1. task["pump"] # Idle
      BY <1>3, IdleIsTask
    <3>2. ASSUME NEW t \in {"job"}, TaskStep(t) \/ StatementRaises(t)
          PROVE  UNCHANGED task["pump"]
      BY <3>2, CheckTask, CountTask, EnqueueTask, EndTask DEF TaskStep
    <3>3. ASSUME StartJob
          PROVE  UNCHANGED task["pump"]
      <4>1. PICK S : task' = [task EXCEPT !["job"] = [Idle EXCEPT !.pc = "check", !.todo = S]]
        BY <3>3 DEF StartJob
      <4>2. QED
        BY <4>1, BeginTask
    <3>4. CASE Restart
      BY <3>4, IdleIsTask DEF Restart
    <3>5. ASSUME Finish("pump") \/ StatementRaises("pump")
          PROVE  FALSE
      BY <3>5, EndTask, IdleIsTask
    <3>6. QED
      BY <2>1, <2>2, <2>3, <2>4, <3>1, <3>2, <3>3, <3>4, <3>5
         DEF Next, TaskStep, Send, ReadMail, DeleteMail, MeshActivity, From, PurgeOldRead,
             QueueFillsOrDrains, vars
<1>4. CASE task["pump"].pc = "idle" /\ task'["pump"].pc # "idle"
  <2>1. ASSUME NEW t \in Tasks, TaskStep(t) \/ StatementRaises(t)
        PROVE  task'["pump"].pc = "idle"
    <3>1. CASE t = "pump"
      BY <1>4, <2>1, <3>1, EndTask, IdleIsTask
         DEF TaskStep, Check, Count, Enqueue, Finish, StatementRaises
    <3>2. CASE t = "job"
      BY <1>4, <2>1, <3>2, CheckTask, CountTask, EnqueueTask, EndTask DEF TaskStep
    <3>3. QED
      BY <3>1, <3>2
  <2>2. QED
    BY <1>1, <1>4, <2>1, TickTask, IdleIsTask
       DEF Next, ReadMail, DeleteMail, MeshActivity, StartJob, TypeOK, PurgeOldRead,
           QueueFillsOrDrains, Restart, vars
<1>5. QED
  BY <1>2, <1>3, <1>4

-----------------------------------------------------------------------------
(* Notices keep their distance                                             *)

\* The ages are numbers.
LEMMA AgesAreNumbers ==
  ASSUME TypeOK, NEW u \in Users, NEW t \in Tasks
  PROVE  /\ slot[u] \in 0 .. Free /\ hist.notice[u] \in 0 .. notify_min_interval
         /\ task[t].lag \in 0 .. MaxLag /\ Lag(t) \in 0 .. MaxLag
         /\ Free = notify_min_interval + MaxLag
  BY TaskFields, LagIsAge DEF TypeOK, Hist, Free

\* A user's slot and notice are in order, for one state of both and of the tasks.
Apart(u, slots, notices, tasks) ==
  /\ notices[u] + MaxLag >= slots[u]
  /\ \A t \in Tasks : u \in tasks[t].to =>
       slots[u] <= tasks[t].lag /\ notices[u] + MaxLag >= notify_min_interval
  /\ ~(u \in tasks["pump"].to /\ u \in tasks["job"].to)

\* SlotsApart and HeldOnce, user by user.
LEMMA UserByUser ==
  ASSUME TypeOK
  PROVE  SlotsApart /\ HeldOnce <=>
           (MaxLag < notify_min_interval =>
              \A u \in Users : Apart(u, slot, hist.notice, task))
  BY TaskFields DEF SlotsApart, HeldOnce, Apart

\* Every step keeps a user's slot and notice in order.
LEMMA ApartStep ==
  ASSUME TypeOK, Working, [Next]_vars, MaxLag < notify_min_interval,
         NEW u \in Users, Apart(u, slot, hist.notice, task)
  PROVE  Apart(u, slot', hist'.notice, task')
<1>1. ASSUME NEW t \in Tasks, Check(t)
      PROVE  Apart(u, slot', hist'.notice, task')
  <2>1. PICK v \in task[t].todo :
           /\ \A s \in Tasks \ {t} : task'[s] = task[s]
           /\ \/ /\ SlotFree(v, t)
                 /\ slot' = [slot EXCEPT ![v] = Lag(t)]
                 /\ task'[t].to = {v} /\ task'[t].lag = Lag(t)
              \/ /\ slot' = slot
                 /\ task'[t].to \in {{}, task[t].to}
    BY <1>1, CheckTask
  <2>2. task[t].to = {}
    BY <1>1 DEF Working, Check
  <2>3. hist' = hist /\ v \in Users
    BY <1>1, TaskFields DEF Check
  <2>4. CASE slot' = slot /\ task'[t].to \in {{}, task[t].to}
    BY <2>1, <2>2, <2>3, <2>4 DEF Apart
  <2>5. CASE /\ SlotFree(v, t) /\ slot' = [slot EXCEPT ![v] = Lag(t)]
             /\ task'[t].to = {v} /\ task'[t].lag = Lag(t)
    <3>1. CASE u # v
      BY <2>1, <2>2, <2>3, <2>5, <3>1 DEF Apart, TypeOK
    <3>2. CASE u = v
      <4>1. slot[u] >= notify_min_interval + Lag(t) /\ slot'[u] = Lag(t)
        BY <2>5, <3>2 DEF SlotFree, TypeOK
      <4>2. ASSUME NEW s \in Tasks, u \in task[s].to
            PROVE  FALSE
        BY <4>1, <4>2, AgesAreNumbers DEF Apart
      <4>3. /\ hist.notice[u] + MaxLag >= Lag(t)
            /\ hist.notice[u] + MaxLag >= notify_min_interval
        BY <4>1, AgesAreNumbers DEF Apart
      <4>4. ASSUME NEW s \in Tasks, u \in task'[s].to
            PROVE  s = t
        BY <2>1, <4>2, <4>4
      <4>5. QED
        BY <2>3, <2>5, <4>1, <4>3, <4>4, AgesAreNumbers DEF Apart
    <3>3. QED
      BY <3>1, <3>2
  <2>6. QED
    BY <2>1, <2>4, <2>5
<1>2. ASSUME NEW t \in Tasks, Count(t)
      PROVE  Apart(u, slot', hist'.notice, task')
  <2>1. UNCHANGED <<slot, hist>>
    BY <1>2 DEF Count
  <2>2. QED
    BY <1>2, <2>1, CountTask DEF Apart
<1>3. ASSUME NEW t \in Tasks, Enqueue(t)
      PROVE  Apart(u, slot', hist'.notice, task')
  <2>1. /\ \A s \in Tasks \ {t} : task'[s] = task[s]
        /\ task'[t].to = {} /\ slot' = slot
    BY <1>3, EnqueueTask DEF Enqueue
  <2>2. hist'.notice[u] = IF room /\ u \in task[t].to THEN 0 ELSE hist.notice[u]
    BY <1>3 DEF Enqueue
  <2>3. CASE u \in task[t].to
    <3>1. \A s \in Tasks : u \notin task'[s].to
      BY <2>1, <2>3 DEF Apart
    <3>2. MaxLag >= slot[u]
      BY <2>3, AgesAreNumbers DEF Apart
    <3>3. hist'.notice[u] + MaxLag >= slot'[u]
      BY <2>1, <2>2, <3>2 DEF Apart
    <3>4. QED
      BY <3>1, <3>3 DEF Apart
  <2>4. CASE u \notin task[t].to
    BY <2>1, <2>2, <2>4 DEF Apart
  <2>5. QED
    BY <2>3, <2>4
<1>4. ASSUME NEW t \in Tasks, Finish(t) \/ StatementRaises(t)
      PROVE  Apart(u, slot', hist'.notice, task')
  <2>1. UNCHANGED <<slot, hist>>
    BY <1>4 DEF Finish, StatementRaises
  <2>2. QED
    BY <1>4, <2>1, EndTask, IdleIsTask DEF Apart
<1>5. CASE Tick
  <2>1. slot'[u] = IF slot[u] < Free THEN slot[u] + 1 ELSE slot[u]
    BY <1>5 DEF Tick, Older
  <2>2. hist'.notice[u] = IF hist.notice[u] < notify_min_interval
                            THEN hist.notice[u] + 1 ELSE hist.notice[u]
    BY <1>5 DEF Tick, Older, TypeOK, Hist
  <2>3. ASSUME NEW t \in Tasks
        PROVE  u \in task'[t].to => u \in task[t].to /\ task'[t].lag = task[t].lag + 1
    BY <1>5, TickTask, IdleIsTask
  <2>4. QED
    BY <2>1, <2>2, <2>3, AgesAreNumbers DEF Apart
<1>6. CASE Restart
  <2>1. slot'[u] = Free /\ hist'.notice[u] = notify_min_interval
    BY <1>6 DEF Restart, TypeOK, Hist
  <2>2. \A t \in Tasks : task'[t].to = {}
    BY <1>6, IdleIsTask DEF Restart
  <2>3. QED
    BY <2>1, <2>2 DEF Apart, Free
<1>7. ASSUME NEW t \in Tasks, NEW S, UNCHANGED <<slot, hist>>,
             task' = [task EXCEPT ![t] = [Idle EXCEPT !.pc = "check", !.todo = S]]
      PROVE  Apart(u, slot', hist'.notice, task')
  <2>1. (\A s \in Tasks \ {t} : task'[s] = task[s]) /\ task'[t].to = {}
    BY <1>7, BeginTask
  <2>2. \A s \in Tasks : u \in task'[s].to => task'[s] = task[s]
    BY <2>1
  <2>3. QED
    BY <1>7, <2>2 DEF Apart
<1>8. CASE UNCHANGED <<slot, task, hist>>
  BY <1>8
<1>9. QED
  BY <1>1, <1>2, <1>3, <1>4, <1>5, <1>6, <1>7, <1>8
     DEF Next, TaskStep, Send, ReadMail, DeleteMail, MeshActivity, StartJob, PurgeOldRead,
         QueueFillsOrDrains, vars

\* Every step keeps all slots and notices in order.
LEMMA SlotsStep ==
  ASSUME TypeOK, Working, SlotsApart, HeldOnce, [Next]_vars
  PROVE  SlotsApart' /\ HeldOnce'
<1>1. TypeOK'
  BY TypeStep
<1>2. MaxLag < notify_min_interval => \A u \in Users : Apart(u, slot', hist'.notice, task')
  BY UserByUser, ApartStep
<1>3. QED
  BY <1>1, <1>2, TaskFields DEF SlotsApart, HeldOnce, Apart, TypeOK, Task

-----------------------------------------------------------------------------
(* Theorems                                                                *)

\* The initial states satisfy the inductive invariant.
LEMMA InitHolds ==
  ASSUME Init
  PROVE  IInv
<1>1. TypeOK
  BY IdleIsTask DEF Init, TypeOK, Hist, Away, Free
<1>2. Working /\ NoticeCoversMail /\ LastIsUnread /\ SlotsApart /\ HeldOnce
  BY IdleIsTask
     DEF Init, Working, NoticeCoversMail, LastIsUnread, SlotsApart, HeldOnce, Free
<1>3. QED
  BY <1>1, <1>2 DEF IInv

\* In every reachable state the inductive invariant holds.
THEOREM MailInvariant == Spec => []IInv
<1>1. IInv /\ [Next]_vars => IInv'
  BY TypeStep, WorkingStep, NoticeStep, SlotsStep DEF IInv
<1>2. QED
  BY InitHolds, <1>1, PTL DEF Spec

\* Mails, ages and tasks keep their types, for any users, intervals and bounds.
THEOREM MailTypeCorrect == Spec => []TypeOK
<1>1. IInv => TypeOK
  BY DEF IInv
<1>2. QED
  BY MailInvariant, <1>1, PTL

\* The notice after a SEND counts the mail it is about (_maybe_notify_recipient).
THEOREM NoticesCoverMail == Spec => []NoticeCoversMail
<1>1. IInv => NoticeCoversMail
  BY DEF IInv
<1>2. QED
  BY MailInvariant, <1>1, PTL

\* Notices to one user are the interval apart, but for the time a task takes
\* (should_notify), whatever the pump and the job do in between.
THEOREM NoticesThrottled == Spec => NotifyThrottled
<1>1. ASSUME IInv, NEW t \in Tasks, NEW u \in task[t].to
      PROVE  hist.notice[u] + MaxLag >= notify_min_interval
  <2>1. TypeOK /\ u \in Users
    BY <1>1, TaskFields DEF IInv
  <2>2. CASE MaxLag < notify_min_interval
    BY <1>1, <2>2 DEF IInv, SlotsApart
  <2>3. CASE ~(MaxLag < notify_min_interval)
    BY <2>1, <2>3, AgesAreNumbers
  <2>4. QED
    BY <2>2, <2>3
<1>2. IInv => [\A t \in Tasks : \A u \in task[t].to :
                 Enqueue(t) /\ room => hist.notice[u] + MaxLag >= notify_min_interval]_vars
  BY <1>1
<1>3. QED
  BY MailInvariant, <1>2, PTL DEF NotifyThrottled

\* Unread mail stays until its addressee does something (get_mail's viewer_pk,
\* purge_old_read_mail).
THEOREM UnreadMailKept == Spec => UnreadKept
<1>1. ASSUME IInv, [Next]_vars, NEW u \in Users, NEW i \in UnreadOf(u)
      PROVE  i \in UnreadOf(u)' \/ ReadMail(u, i) \/ DeleteMail(u, i)
  <2>1. TypeOK /\ i \in DOMAIN mail /\ mail[i].to = u
    BY <1>1 DEF IInv, UnreadOf
  <2>2. ASSUME NEW v \in Users, NEW j \in DOMAIN mail, ReadMail(v, j) \/ DeleteMail(v, j)
        PROVE  i \in UnreadOf(u)' \/ ReadMail(u, i) \/ DeleteMail(u, i)
    <3>1. CASE j = i
      <4>1. v = u
        BY <2>1, <2>2, <3>1 DEF ReadMail, DeleteMail, Finds
      <4>2. QED
        BY <2>2, <3>1, <4>1
    <3>2. CASE j # i
      <4>1. PICK row : mail' = [mail EXCEPT ![j] = row]
        BY <2>2 DEF ReadMail, DeleteMail
      <4>2. mail'[i] = mail[i] /\ DOMAIN mail' = DOMAIN mail
        BY <2>1, <3>2, <4>1
      <4>3. QED
        BY <1>1, <2>1, <4>2 DEF UnreadOf
    <3>3. QED
      BY <3>1, <3>2
  <2>3. ASSUME NEW v \in Users, NEW w \in Users, Send(v, w)
        PROVE  i \in UnreadOf(u)'
    <3>1. mail'[i] = mail[i] /\ i \in DOMAIN mail'
      <4>1. PICK row : mail' = Append(mail, row)
        BY <2>3 DEF Send
      <4>2. mail \in Seq(MailRow)
        BY <2>1 DEF TypeOK
      <4>3. QED
        BY <2>1, <4>1, <4>2
    <3>2. QED
      BY <1>1, <3>1 DEF UnreadOf
  <2>4. CASE PurgeOldRead
    BY <1>1, <2>1, <2>4, PurgedRows
  <2>5. CASE UNCHANGED mail
    BY <1>1, <2>5 DEF UnreadOf
  <2>6. QED
    BY <1>1, <2>2, <2>3, <2>4, <2>5
       DEF Next, TaskStep, MeshActivity, StartJob, Check, Count, Enqueue, Finish,
           StatementRaises, QueueFillsOrDrains, Tick, Restart, vars
<1>2. IInv /\ [Next]_vars =>
        [\A u \in Users : \A i \in UnreadOf(u) :
           i \in UnreadOf(u)' \/ ReadMail(u, i) \/ DeleteMail(u, i)]_vars
  BY <1>1
<1>3. QED
  BY MailInvariant, <1>2, PTL DEF Spec, UnreadKept
=============================================================================
