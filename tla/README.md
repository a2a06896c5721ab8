# meshcore-bbs in TLA+

A TLA+ model of the MeshCore bulletin board (`src/src/bbs`), model-checked with TLC
on small instances, with every safety property that holds proved with TLAPS.

The BBS is one Python process around one asyncio loop and one SQLite connection. Users
send direct messages over a slow, unreliable radio mesh; a command is handled as soon as
it is received, its reply is put in a table, and one worker sends what is in the table,
slowly. Nothing in it is parallel, but every `await` is a point where another task may
run, and almost every database access is one.

## Inventory

| Part | State | Operations | Interacts with |
|---|---|---|---|
| outbound queue (`db.py:600-751`) | tables `outbound_queue`, `outbound_pause` | enqueue, claim, mark, reschedule, drop stale, cancel, move to back, pause | everybody who sends |
| outbound worker (`outbound.py`) | the tick in progress, `_last_send_at`, `_last_send_to`, stop event | tick, gap, stop with timeout | queue, transport |
| dispatcher (`dispatcher.py`) | none of its own | `handle_inbound` (bans, limits, onboarding, 20 commands), `record_mesh_activity`, `_enqueue_reply` | all services, queue |
| rate limiter (`rate_limit.py`) | table `rate_limits` | `check_and_consume` | dispatcher |
| onboarding (`onboarding.py`, `names.py`) | `users.display_name`, `onboarded` | `try_set_name` | dispatcher |
| admin (`services/admin.py`) | `_pending` broadcasts, `users.banned` | ban, unban, stage, confirm | dispatcher, queue |
| mail (`services/mail.py`) | table `mail`, `_last_notify_at` | send, inbox, read, delete, purge, `should_notify` | dispatcher, scheduler |
| boards (`services/boards.py`) | tables `boards`, `board_posts` | add, delete, post, read | dispatcher, dashboard |
| news (`services/news.py`) | table `news_items` | refresh, trim | scheduler |
| weather (`services/weather.py`) | a cache | `summary_for` | dispatcher, scheduler |
| scheduler (`scheduler.py`) | one sleeping task per job | mail notify, contact prune, purges, adverts | mail, transport |
| transport (`transport/meshcore.py`) | event queue, path cache, poll task, supervisor | connect, events, `send_msg` with retries | the companion radio, `__main__` |
| health (`health_state.py`, `health.py`) | two flags | probe | `__main__` |
| packets (`format.py`) | none | `split_packets` | `_enqueue_reply` |
| dashboard (`dashboard.py`) | login cookie only | three buttons on queue rows; a queue page that deletes pauses that are over; read-only pages | queue |
| process (`__main__.py`) | tasks, signals | start, event pump, reload, shutdown | all |

What is hard here, and what makes each part correct:

* **Outbound.** A row that is being sent is still `pending` and nothing locks it: the
  worker, dashboard requests and the stale-row sweep all update it by id after an await.
  A pause is one row per recipient, which whoever finds it over deletes an await later, and
  which somebody else's commit may make durable.
  Correct means: a status says what really happened, retries stay bounded and spaced,
  duplicates need a fault, nobody is starved, a pause holds unless it was renewed at the
  wrong moment, shutdown ends.
* **Inbound gate.** Counters read before an await and written after it, one window
  shared by several limits, three gates in a row of which the first has already counted
  when the second refuses. Correct means: nobody exceeds the largest limit that applies
  to them, the banned and the unnamed reach no command.
* **Mail.** Two tasks notify the same recipient through one throttle whose slot is taken
  before the notification is known to be queued. Correct means: notifications are rate
  limited, a notice counts the mail it is about, nobody's unread mail disappears, and
  unread mail of somebody present is eventually announced.
* **Boards.** Board deletion is two statements with a suspension in between, on a
  connection where any task's `commit` commits everybody's statements. Correct means: no
  post without a board, no half-deleted board.
* **Transport and health.** The library and a supervisor of our own both reconnect, each
  received message gets a task that may wait for the contact list, and the flags of the
  probe are set by whoever empties the queue. Correct means: no message is lost or handled
  twice between callback and pump, a sender's messages stay in order, the link comes back,
  and once events settle the probe tells the truth.
* **Packets.** The label is budgeted by a first pass, the packets are made by a second.
  Correct means: nothing is lost, lines stay whole where they can, labels can be relied on,
  packets fit the radio.

## Plan

Modules, in the order they were written, the most important behaviour first; all are done.

1. `OutboundQueue`, `Outbound`, `OutboundProperties`, `OutboundPromise`, `OutboundProofs`,
   `OutboundPromiseProofs`, `OutboundLimitsProofs` - the queue, its worker, its producers and its
   editors.
2. `Inbound`, `InboundProperties`, `InboundProofs` - rate limiter, gate, onboarding, bans,
   broadcast, and what a reload does to the admin list.
3. `Boards`, `BoardsProperties`, `BoardsProofs` - boards, posts, the shared connection.
4. `Mail`, `MailProperties`, `MailProofs` - mail, the two notifiers and their throttle.
5. `Link`, `LinkProperties`, `LinkProofs` - transport, event queue, event pump, supervisor, health
   flags.
6. `Packets`, `PacketsProperties`, `PacketsProofs` - `split_packets` and the two loops it calls.

Producers compose with the outbound path through `OutboundPromise`: what they hand over
is accepted or, at low priority, refused; `Mail` sees that refusal as `room`. `Link` composes
transport, event pump and probe over the queue they share; `Inbound` is what its pump does
with one message.

Every safety and action property of every passing run is proved, and so is the refinement of
`OutboundPromise`. Liveness stays with TLC.

## Modules

* `OutboundQueue` - the two tables and the SQL statements on them, as operators. Rows
  form a sequence in the order of their AUTOINCREMENT id.
* `Outbound` - the tasks. An action is the code between two awaits; one SQL statement
  with its commit is one step, but for the INSERT of a pause, which its request commits after
  it has put off the rows (`HandlerCommits`), and any other task's commit before that: `pause` is
  what the open transaction shows, `saved` what was committed. The fields of `worker`, `senders` and `handlers` are the
  local variables that live across an await, so stale reads are in the model where they
  are in the code. `proc` goes up, stopping, down; a restart keeps what was committed only.
* `OutboundProperties` - invariants, action properties and liveness properties.
* `OutboundPromise` - the abstract specification: a ledger of accepted messages whose
  status needs evidence, with no queue, timers, tasks or restarts. `PromiseKept` says
  that `Outbound` implements it under the mapping `Ledger`.
* `MCOutbound` - symmetry, reductions, and the two scenes of the run about the limits, for TLC.
* `OutboundProofs`, `OutboundPromiseProofs`, `OutboundLimitsProofs` - the theorems: what is
  recorded, what is promised, and the limits; each extends the one before it.
* `Inbound` - the event pump inside `handle_inbound`, for one message at a time: `pump.pc`
  is the await it is at, the other fields the locals that live across it. Tables: users,
  rate limits; memory: staged broadcasts, the two copies of the admin list.
* `Boards`, `BoardsProperties`, `MCBoards`, `BoardsProofs` - tasks running BoardsService over
  one connection. Here a statement and a commit are steps of their own: `db` is what the
  open transaction shows to everybody, `disk` what was committed last, by anybody.
* `InboundProperties`, `MCInbound`, `InboundProofs` - its properties, its lists of admins and
  the two scenes its run looks at, the proofs. `hist.admitted` keeps, in order, when each bucket counted each message
  that was let in.
* `Mail`, `MailProperties`, `MCMail`, `MailProofs` - the table `mail`, the commands of the event
  pump and the job `mail_notify`, which tell a recipient in the same four steps (`check`,
  `count`, `enqueue`, and the end) with awaits in between, so one set of actions serves both.
  Time stamps are kept as ages, which stop growing where no comparison tells them apart: the
  clock needs no horizon, and liveness can be checked.
* `Link`, `LinkProperties`, `MCLink`, `LinkProofs` - the companion (`reachable`, `book`, `inbox`), the library
  (`link`, `contacts`), the tasks of MeshCoreTransport (`ready`, `waiting`, `sup`, `poller`), its
  queue (`events`), the event pump and the flags of the probe.
* `Packets`, `PacketsProperties`, `MCPackets`, `PacketsProofs` - a text is how many bytes its first
  characters take, and which of them are newlines; packets are pieces of it, from one character
  to another. A step takes one line, as an iteration of `_pack_lines` does, or cuts one chunk, as
  `_hard_wrap` does in one iteration per character; the two passes run one after the other over
  the same variables, and `n` tells them apart.

| Model | Code |
|---|---|
| `StartReply`, `EnqueuePacket` | `Dispatcher._enqueue_reply`: one depth check, then one INSERT per packet |
| `StartTick` .. `Decide` | `OutboundWorker._tick` up to the send, awaits at `claim`, `pause`, `judge`, `decide` |
| `ReadPause`; `PauseStands`, `ExpirePause` | `get_outbound_pause_until`: the SELECT; an await later what it returns, or the DELETE by pubkey |
| `ViewQueue`; `ViewFindsPause`, `ViewExpiresPause` | the same, called by the dashboard's `build_queue` |
| `PauseWrites` .. `HandlerUpdates`, `HandlerCommits` | `pause_outbound_recipient`: the INSERT, the rows one by one, the commit |
| `SendOk`, `SendUnacked` | return of `transport.send_msg` (`NO_ACK` and `ERROR` are treated alike by the code) |
| `MarkSent`, `MarkFailed`, `AuditFailed`, `Reschedule...` | recording the outcome |
| `GapOver` | `_sleep_until_next_send_allowed` |
| `TickRaises` | the `except Exception` of `_run` |
| `Cancel`, `MoveToBack`, `PauseRecipient` and what follows them | dashboard requests, one await at a time |
| `Shutdown`, `DrainTimesOut`, `Exit`, `Crash`, `Restart` | `__main__.run`, `OutboundWorker.stop`, and what kills a process |
| `hist` | nothing: a history the properties need |
| `Receive` | `_event_pump` and `handle_inbound` up to the ban |
| `NotifyAdmins` | `_notify_admins_new_user` |
| `Unlimited`, `Throttle`, `PassMinute`, `PassHour` | the loop over the two buckets, with `RateLimiter.check_and_consume` as `Denies` and `Consume` |
| `TellThrottled`, `KeepSilent` | `_reply_throttled` |
| `SetName`, `JustReply` | `_handle_onboarding`, the NAME command, every command that only answers, as the gates see it |
| `Ban`, `Unban`, `Stage`, `Confirm`, `ReadRecipients`, `Broadcast` | `_handle_admin` and `AdminService` |
| `StatementRaises` (of `Inbound`) | the `except` of `_handle_command`, and that of `_event_pump` |
| `AddBoard`, `InsertBoard` | `BoardsService.add_board`: the read, then the INSERT |
| `DeleteBoard`, `DeletePosts`, `DeleteBoardRow` | `delete_board`: the read, the two DELETEs |
| `AddPost`, `InsertPost` | `BoardsService.post` |
| `DeletePost`, `FlagPost` | the dashboard's `api_board_posts_delete` |
| `Send`, `ReadMail`, `DeleteMail` | `_handle_send`, `MailService.read_mail`, `delete_mail` |
| `StartJob`, `Check`, `Count`, `Enqueue`, `Finish` | `mail_notify_job` and `_maybe_notify_recipient`, await by await |
| `ShouldNotify`, `IsOnline` | `MailService.should_notify`, `is_online` |
| `PurgeOldRead`, `QueueFillsOrDrains` | `audit_prune_job`, the depth check of `_enqueue_reply` |
| `Connect`, `Start`, `Stop` | `MeshCoreTransport.start` before and after its subscriptions, `stop` and what kills a process |
| `LinkDrops`, `LibraryReconnects`, `Overhear` | `_on_disconnected`, `_on_connected`, the callbacks of adverts and paths |
| `Push`, `Poll`, `RunHandler`, `ContactsArrive`, `Resume` | `_on_contact_msg`, `_message_poll_loop`, `_handle_contact_msg` |
| `SupervisorWakes` .. `Reconnected` | `_reconnect_supervisor` |
| `PumpTakes`, `PumpDone`, `GoQuiet`, `Problems` | `_event_pump`, the heartbeat threshold, the answer of `/health` |
| `Prune` | `contact_prune_job` |
| `Reply`, `Return` | the call of `split_packets` in `_enqueue_reply` |
| `Measure`, `EndFirst`, `EndSecond` | `split_packets` before, between and after its calls of `_pack_lines`, whose last packet is part of the end of each pass |
| `BeginPacket`, `Join`, `BeginWrap` | the branches of the loop of `_pack_lines` |
| `Chunk`, `LastChunk` | the loop of `_hard_wrap` up to the next chunk, and to its end |
| `Commit`, `Commits`, `CommitElsewhere` | `conn.commit()` of the call, of a step of the outbound path, of any other task |
| `EditFile`, `Reload`, `Restart` (of `Inbound`) | `config.yaml`, SIGHUP, `__main__.run` |

Abstractions. Time is whole seconds, as in the tables; the 0.5 s idle poll is below that
resolution. In `Outbound`, `execute` and `commit` of one statement are one step, except for the
pause, whose commit comes later. A crash is the death of the process on a machine that stays up
(`synchronous=NORMAL`, `db.py:158`, may lose committed transactions when the power fails: not
modelled). The queue page may concern the recipient of any row ever listed, and concerns one at a
time; a request whose statement raises is not modelled. `ORDER BY` leaves ties
open, so does `NextOutbound`. In `Inbound` a message without a hop count has hops -1; the
loopback check, `last_seen` and `motd_sent` are left out; the rows it enqueues are those of
`StartReply` and `EnqueuePacket`; the limits do not change at a reload. Bodies, audit entries and logging are left out.

In `Mail` recipients are onboarded, since `resolve_recipient` finds nobody else and nothing takes
the flag back; retention, measured in days, may have passed for any read mail; a task takes at
most `MaxLag` from its time stamp to its last enqueue. In `Link` waits (backoff, poll interval,
timeouts) are steps that happen sooner or later; `connect()` of the library is taken to raise
when there is no connection; contacts other than the senders exist but are not counted; the
database check of the probe is taken to succeed. In `Packets` a packet
is known by its place in the text, so that none can stand in for another; a character takes one
to four bytes and a newline one, a label's number has at most five digits, and a character fits
the smallest budget.

## Runs

| Run | Question | Instance |
|---|---|---|
| `outbound_worker` | are statuses earned, retries bounded, sends spaced, duplicates explained, the ledger kept | two recipients, two rows, two attempts, one crash, drain timeout or database error anywhere, four seconds |
| `outbound_dashboard` | does a request racing the worker break the ledger or the backing of stale reads | one request and looks at the page, two rows of one recipient |
| `outbound_limits` | by how much can low-priority replies overshoot the depth limit; does a pause hold | two producers, replies of up to two packets, limit one; and apart from these two requests, the queue page, pauses of one second, a crash, two seconds |
| `outbound_liveness` | is a due row always served, does shutdown end | two recipients, two priorities, sends that may fail each time, until the clock's horizon |
| `inbound` | whose commands are carried out, who is left in charge, what is broadcast, is everything answered once; how many messages get past both limits, how often is a refusal answered | two admins and a third user, two names, two texts; and apart from these one user at three distances, limits 1 and 2 (so at most 8), windows of 2 and 3; a fault |
| `boards_tasks` | do boards and posts fit together, does what was answered OK last | event pump and two requests, two boards, two posts, a fault |
| `mail` | is unread mail kept and announced, are notices spaced | two users, two mails to one of them, job and pump, a full queue, a fault |
| `link` | is every message accounted for, in order, served; does the link come back, the probe tell the truth | one sender, two messages, two queued notices, a drop or reconnect anywhere, one end of the process |
| `packets` | what is cut, what labels say, what fits | every text of up to four lines out of ten, 14 bytes to a packet, one after the other |
| `claim_reload`, `claim_packets`, `claim_pause` | do the documented sentences hold | refuted, see Findings |

Bounds. Two rows are enough for overtaking and starvation, two recipients for
throttling one and serving the other, two attempts for "counted" and "given up" to
differ, `MaxTime` is past every interval of the instance and past `MAX_AGE_SECONDS`.
Reductions are action constraints in the MC modules, used where named: `QuickStatements`
(the clock does not advance between two SQL statements of the worker, save where it waits for a
pause it reads), `KeepsRunning` (no shutdown), `StaysDown` (no restart, in the liveness run),
`RadioStays` (no loss of the companion), `WithinHorizon`. Two runs look at two scenes each, of which
neither could change what the other is about: `FloodOrRenewal` is either replies that pass the
depth check within one second (`Flood`), or a pause that ends and is renewed by one request at a
time, beside a look at the page, with a crash only while it lasts (`Renewal`); what is sent there is
acknowledged. The seconds of `Renewal` are those of a pause: it is written, it ends, it is written
again. `Scenes` of `inbound` is either the admins, whom as neighbours no limit concerns, or one user
without rights before the limits; the proofs join the scenes, for any admins and limits.
A horizon of 4 spans two windows of each bucket, which
is where fixed windows let most in. In `mail` all mail is one user's, and the other asks for it,
deletes it or sends it (`MailForAnn`): users share nothing but the table and the job, which is
slowed by the others, and any delay up to `MaxLag` is possible already; the intervals keep the order of the code's (poll interval below throttle
below presence). In `link` two messages of one sender are what an order needs, and messages of
different senders share nothing but the queue; two notices in the queue let a report of the
supervisor and a drop stand in either order. The lines of `packets` sit at the boundaries: just
within and just beyond a packet with and without its label, characters of one to four bytes,
empty lines, and enough for ten packets, where the label grows. Symmetry permutes
texts and names in the run about admins, recipients, producers and handlers, in safety runs only.

Fairness. `WF(WorkerStep)`: asyncio runs a ready task and `send_msg` ends by a timeout.
`WF(Advance)`: time passes, up to the horizon; `NoStarvation` speaks of what is due until then. No fairness for users, operators, producers, faults or the
radio. In `Mail` the tasks run on, the job wakes up and time passes; that the recipient stays
on the mesh and the queue keeps room are premises of `UnreadIsNoticed`. In `Link` each task
of the event loop runs on, each await ends (every command goes through `_run_mc` with a timeout)
and the heartbeat threshold passes; the library owes no reconnect and the companion no
announcement, so `LinkRestored` rests on the supervisor alone and `MessagesServed` on the poll
loop; a link that stays, or a companion that stays reachable, is a premise.

## Proofs

The theorems hold for any users, recipients, tasks, limits, intervals and numbers of rows,
messages and faults, under the named assumptions on the constants: `PrioritiesAssumption`,
`MaxTimeAssumption`, `LimitsAssumption`, `BackoffAssumption` (naturals, at least one attempt) and
`QueueAssumption` (the depth is an integer, producers are finitely many) of the outbound modules;
`LimitAssumption` of `Inbound` (naturals, windows that are not empty, a clock that has started);
`BoundAssumption` of `Link`, and those of `Boards` and `Mail`, that bounds are naturals;
`BudgetAssumption` and `TextAssumption` of `Packets` (the smallest budget holds a character and is
no larger than a packet, texts are texts).

**Statuses** (`OutboundProofs`): `TypeCorrect`, `AlwaysBacked` (`Spec => []Backed`),
`StatusEarned` (`Spec => []StatusIsEarned`). `StatusIsEarned` alone is not inductive: that marking
a row failed is right depends on the attempts the worker remembers, which depend on what any
request wrote back from a stale read. `Backed` says that every such memory is backed by the row's
history, and a stale count is only ever too low. The inductive invariant is `TypeOK /\ Backed /\
StatusIsEarned`. The argument has two halves: the history only grows (`WorkerGrows`,
`OthersGrow`), so whatever was backed stays backed; and a row's status only moves along the
transitions of `StatusMoves`, each with its evidence at hand.

**The promise** (`OutboundPromiseProofs`): `NoDuplicates` (`Spec => []DuplicatesNeedFaults`) and
`KeepsPromise` (`Spec => PromiseKept`, the refinement). A row that may still be sent has no
acknowledgements but those a fault hid (`AcksCounted`), which holds because the row the worker is
at work on is settled by nobody else: a request may cancel it, the sweep runs between two
messages only (`WorkerOpen`). With these every step of `Outbound` is shown to be a step of
`OutboundPromise` under the mapping `Ledger`, or to leave the ledger alone.

**The limits** (`OutboundLimitsProofs`): `AirtimeIsBounded`, `PaceIsKept`, `PausesAreHonoured`,
`RoomIsLeft`.
* `AirtimeBounded` grants each dashboard request `MAX_ATTEMPTS - 1` more sends: it writes back the
  count of attempts it read before, so the row forgets those made meanwhile, and the bound without
  this term is false with one request. `NacksCounted` counts the requests that have not written
  yet as not spent (`Slack`), and needs that each writes a row once, with a count the worker had
  left (`TodoSane`), and that requests in progress are at most as many as were made (`BusyCounted`).
* `Pacing` rests on `Paced`: what the worker remembers of its sends is what happened, and where it
  may start one it has slept through the gap or a tick raised before it could.
* `PauseHonoured` rests on `PauseSeen`, of three parts. `PauseKept`: a pause that lasts is in the
  table, and once the operator is answered it is committed, whoever committed it, so a crash takes
  it back to a pause no shorter than what was answered. `PauseRead`: what a reader about to delete
  holds is still what the table says, or was over and is gone (`Agrees`), so it deletes no pause that
  lasts. `PauseKnown`: a worker about to decide has read it or was there first. All three except a
  pause that was written while somebody held the one before it (`hist.raced`): the code may delete
  that one, as `claim_pause` shows, so the theorem cannot cover it.
* `LowPriorityBounded` rests on `Room`, which counts the packets of a reply that passed the depth
  check, and are still to come, as if they were in the queue.

**The gate** (`InboundProofs`), every property of the runs:
* `TypeCorrect`, with what the pump knows of its message (`Attended`).
* `MembersOnly`, by `Member`: the ban and the name read when the message came stay true until it is
  done with, since only the pump changes them and an admin cannot ban himself.
* `SomebodyInCharge`, from the same: whoever bans is an admin who stays unbanned.
* `OneAnswer`, by `Answers`, which follows the number of replies through the awaits: once something
  raised there is nothing left to do but to answer that.
* `BroadcastsAreStaged`, by `StagedLast`; `NoticesAreSpaced`, by `NoticeStarts`: the window of the
  notices starts with the last of them. This is about the gate; the limits of POST and SEND answer
  each refusal (`dispatcher.py:345`, `dispatcher.py:380`).
* `BurstsAreBounded` and `LimitIsKept`, by `Windows`: in each bucket what was let in since the
  window began, and the message the other bucket has not decided on, is no more than the window
  has counted, and what was let in during a window's length before it no more than one allowance.
  Two buckets never agree on a window, and one count serves all multipliers; that nothing is let
  in uncounted is what survives both.

**Boards** (`BoardsProofs`): `BoardsTypeCorrect`, `BoardsKeepPosts` (`Spec => []PostsBelong`),
`BoardsAckedDurable` (`Spec => []AckedIsDurable`), `BoardsDeletedOnce` (`Spec => []DeletedOnce`).
`PostsBelong` is not inductive: a post could be given an id older than its board. `NoneYounger`
excludes that, and `Sound` joins the two with the types for one copy of the tables. Each statement
keeps `Sound` (one lemma each); a commit or a restart only copies tables that are sound already.
That a removal is answered OK once is inductive only with `Removed`: a post whose removal was
answered was given out and cannot be found again, in the transaction or on disk, and two requests
about to answer have removed different posts.

**Mail** (`MailProofs`): `MailTypeCorrect`, `NoticesCoverMail` (`Spec => []NoticeCoversMail`),
`UnreadMailKept` (`Spec => UnreadKept`: only a READMAIL or DELETE of that mail by its addressee
takes it from the unread) and `NoticesThrottled` (`Spec => NotifyThrottled`). The
inductive invariant adds what pump and job know of each other: who holds a slot took it less
than an interval ago, so no slot is held twice (`HeldOnce`) and the notice before it is old
enough (`SlotsApart`); while the pump has a recipient to tell, the mail stored last is unread
(`LastIsUnread`), since commands wait for the pump and the purge takes read mail only. Where a
task may take longer than the interval the claim holds by arithmetic, and `SlotsApart` says
nothing.

**The link** (`LinkProofs`): `TypeCorrect`, `NothingGoesAstray` (`Spec => []Accounted`),
`OrderIsKept` (`Spec => []OrderKept`).
* `Accounted` is strengthened to `Kept`: each number is in one place, no queue holds a message
  twice, and the companion's store is in order and newer than everything elsewhere, so that what
  is fetched is new to the queue it goes to. Most steps move one message, or all of one place,
  to another (`MoveOne`, `MoveAll`).
* `OrderKept` speaks of what was handled; `KnownAhead` says it of every stage on the way: whoever
  came after a message that resolves at once is behind it in its queue or has not come so far,
  and in particular does not overtake it from among those that wait for the contacts. A pruned
  contact takes its messages out of what is claimed, which is why `known` shrinks with it.

**Packets** (`PacketsProofs`), every property of the run, for every text: `NothingIsLost`,
`LinesStayWhole`, `AnnouncedDoCome`, `JoinedLinesDoFit`. The bytes of a piece are a difference of
two numbers of the text and the loops are steps, so nothing is summed and no induction over data
is needed. The inductive invariant `Split` has three ideas:
* `Chained`: each piece begins where `After` says the one before it ended.
* `Good` and `Full` say why a piece is what it is and why it did not go on. An oversized line that
  was not wrapped stands behind some line that fits (`ShortBefore`), and chunks are cut only while
  no line has fitted (`LongBefore`): once a line was collected, `cur` is never empty again.
* `Behind`: the pieces of the second pass end no later than those of the first with the same
  number. By `Dominated` a piece that begins no later than a full one, on a budget no larger, ends
  no later; the two facts about oversized lines are needed exactly there, since a line cut in one
  pass might else be swallowed whole by the other. So the second pass cannot end before it has
  made as many packets as the labels say. `format.py:47` states this as obvious; it would not
  hold if the first pass wrapped a line which the second takes whole.

Only model-checked: liveness (`NoStarvation`, `ShutdownCompletes`, `UnreadIsNoticed`,
`LinkRestored`, `FlagRecovers`, `OutageReported`, `MessagesServed`), which rests on fairness and
`ENABLED`, out of the prover's reach.

## Findings

Three sentences are refuted by a run:

* `db.py:735` "Pause all outbound sends to *pubkey* for *seconds*.": `get_outbound_pause_until`
  reads a pause that is over and deletes it by pubkey an await later (`db.py:727`). If an operator
  renews it in between, the renewed pause is deleted, and the recipient is sent to
  (`PausedForSeconds`). Worker and queue page both do so: a page that is being rendered
  undoes the pause renewed meanwhile.
* `docs/OPERATIONS.md:56`: whoever is added to `bbs.admin_pubkeys` before a `kill -HUP` is an
  admin. `Config.reload` replaces `cfg.bbs`, `AdminService` keeps the section it was built
  with, so the command is refused until a restart (`ReloadMakesAdmins`), while the notice of
  a new user already goes to them.
* `format.py:6` "If a single line exceeds the packet limit, it's hard-wrapped at the boundary as
  a last resort.": only if it is the first line of a packet. A long line behind another one
  becomes a packet as it is (`LongLinesWrapped`): `READMAIL`, whose answer is a header line
  and the text, sends a text of 300 characters as one packet of 306 bytes.

Others were met while modelling; what the models contain of them is named, no run is about them.

* `__main__.py:15` "SIGTERM / SIGINT drains the queue (with a 30s budget)": it does not. The 30
  seconds are for the worker to end; it ends at the head of its loop, whatever is pending
  (`WorkerStops`), and the rest waits in the table for the next start.
* `CHANGELOG.md:67` "Remove (cancel message)": a removed row may end up `sent`, because no
  update of a row looks at its status (`Cancel` and `MarkSent` of `Outbound`, in either order).
* `outbound.py:21` "Rows older than `MAX_AGE_SECONDS` while still pending are marked
  'dropped'": each deferral moves `enqueued_at`, from which the age is taken (`db.py:653`), so a row put off
  again and again is never old.
* `CHANGELOG.md:38` says deleting a board is not blocked by posts any more: it is when a post
  arrives between the two DELETEs (`DeletePosts`, `InsertPost`, `DeleteBoardRow` of `Boards`).
* `format.py:45`: the second pass may make more packets than the first, so a label may read
  `(3/2)`, and the tenth packet of a reply announced as nine is a byte too long, although
  `format.py:46` says "the prefixes will still fit". That is as far
  as it goes (`JoinedLinesFit`), and fewer than announced never come (`AnnouncedComes`).
* `scheduler.py:89`: pruning takes the same ten users every day, whether or not removing them
  freed anything, and also when `contact_capacity` could not be asked.
* `health.py:6` counts a scheduled job as a sign of life: only the event pump refreshes
  `last_event_at`, so a quiet mesh is unhealthy after ten minutes (`GoQuiet`).
* `dispatcher.py:300`: `[more: NEWS ...]` is never shown, since exactly as many items are
  fetched as the page ends at.
* `DELETE` of a mail nobody has read leaves its row for good: the retention job takes read mail only.
* `transport/meshcore.py`: a send that returns nothing is an error, not `NO_ACK`; the worker treats
  both alike.

## Not modelled

See `PROJECT.json` "components" for each part and the reason. What is left keeps no state
between two steps, or no state anybody else sees:

* `news.py`: HTTP and feed parsing around one `INSERT OR IGNORE` per item and one trim, by one
  job; everybody else only reads the table.
* `weather.py`: HTTP and a cache of texts; it holds up the event pump until the HTTP client's
  timeout; in `Link` a message is handled for as long as it takes, and is taken to end.
* Path discovery, with its cache, and adverts: what they change is the text of replies.
* HTML, metrics, sessions, parsing of configuration and commands, logging, schema migration,
  the mock transport: rendering, parsing and I/O without interleavings of their own.
