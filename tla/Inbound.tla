------------------------------ MODULE Inbound ------------------------------
(***************************************************************************)
(* The inbound path: the event pump hands one received message at a time   *)
(* to Dispatcher.handle_inbound, which looks the sender up, drops the      *)
(* banned, counts against two rate limits, sends whoever has no name to    *)
(* onboarding and dispatches the command.  Of the commands those are told  *)
(* apart that change what the gate decides, and the two-step broadcast.    *)
(*                                                                         *)
(* The pump is one task and nothing else writes the tables it reads, so    *)
(* what it read stays true while it waits; what can come in between is     *)
(* the clock, a configuration reload, a statement that raises and the end  *)
(* of the process.  Rows put in the outbound queue are Outbound's concern. *)
(* The limits are constants: a reload that changes them is not modelled.   *)
(***************************************************************************)
EXTENDS Integers, Sequences

CONSTANTS
  Users, Names, Texts, NoName, None,
  Hops,                \* hop counts received, -1 when the message has none
  AdminLists,          \* what an operator may write to bbs.admin_pubkeys
  inbound_per_minute, inbound_per_hour,
  Minute, Hour,        \* 60 and 3600 in the code
  ConfirmWithin,       \* 120 in the code
  Verbs,               \* bound: which commands users send
  MaxTime,             \* bound: the clock's horizon
  MaxFaults            \* bound: raising statements and restarts

ASSUME LimitAssumption ==
  /\ inbound_per_minute \in Nat /\ inbound_per_hour \in Nat
  /\ Minute \in Nat \ {0} /\ Hour \in Nat \ {0} /\ ConfirmWithin \in Nat
  /\ MaxTime \in Nat \ {0} /\ Hops \subseteq Int
  /\ AdminLists \subseteq SUBSET Users
  /\ NoName \notin Names

VARIABLES
  now,
  known, banned, name,   \* table users: rows, banned, display_name_lc
  rate,                  \* table rate_limits
  file,                  \* bbs.admin_pubkeys as the configuration file has it
  cfgAdmins,             \* cfg.bbs.admin_pubkeys
  svcAdmins,             \* admin.bbs_cfg.admin_pubkeys
  pending,               \* AdminService._pending: set of staged broadcasts
  pump,                  \* the event pump's task
  faults,
  hist                   \* history, see Hist

users == <<known, banned, name>>
config == <<file, cfgAdmins, svcAdmins>>
vars == <<now, known, banned, name, rate, file, cfgAdmins, svcAdmins, pending,
          pump, faults, hist>>

Buckets == {"inbound_min", "inbound_hour", "rate_notify"}
Counted == {"inbound_min", "inbound_hour"}
Width == [b \in Buckets |-> IF b = "inbound_hour" THEN Hour ELSE Minute]
BaseLimit == [b \in Counted |->
                IF b = "inbound_min" THEN inbound_per_minute ELSE inbound_per_hour]

\* The farther away the sender, the less it may send.
HopMultiplier(hops) == IF hops \in {-1, 1} THEN 4 ELSE IF hops = 2 THEN 2 ELSE 1

\* A row of rate_limits; count is 0 when there is none.
Window == [start : Nat, count : Nat]

\* The commands: a name, a ban, its removal, a broadcast staged and confirmed, and
\* "ANY" for every other text, the empty one and the rejected names included.
Command ==
  { c \in [verb : {"ANY", "CONFIRM"}, arg : {None}]
          \cup [verb : {"NAME"}, arg : Names]
          \cup [verb : {"BAN", "UNBAN"}, arg : Users]
          \cup [verb : {"BROADCAST"}, arg : Texts] : c.verb \in Verbs }

AdminVerb == {"BAN", "UNBAN", "BROADCAST", "CONFIRM"}

Staged == [by : Users, text : Texts, at : Nat]

\* Where handle_inbound is suspended.  "notify": telling the admins of a new user.
\* The names of buckets: about to consult them.  "throttled": refused by one.
\* "onboard": no name yet.  "command": inside _handle_command.  "recipients":
\* broadcast popped, users to be read.  "reply", then "broadcast": enqueueing.
PumpPC == {"idle", "notify", "inbound_min", "inbound_hour", "throttled", "onboard",
           "command", "recipients", "reply", "broadcast", "done"}

NoMessage == [pc |-> "idle", from |-> None, hops |-> 0, cmd |-> None, named |-> FALSE,
              todo |-> {}, text |-> None, guarded |-> FALSE, checkedAt |-> 0,
              replies |-> 0, raised |-> FALSE, silent |-> FALSE]

\* Remembered for the properties only: the messages of each user that both buckets
\* let in, with the time either did so, when a "Rate limited" notice was last sent,
\* and what each user staged last and has not seen broadcast.
Times == 0 .. MaxTime
Hist == [admitted : [Users -> Seq([Counted -> Times])],
         noticeAt : [Users -> Int], staged : SUBSET Staged]

Init ==
  /\ now = 1
  /\ known = {} /\ banned = {} /\ name = [u \in Users |-> NoName]
  /\ rate = [u \in Users |-> [b \in Buckets |-> [start |-> 0, count |-> 0]]]
  /\ file \in AdminLists /\ cfgAdmins = file /\ svcAdmins = file
  /\ pending = {}
  /\ pump = NoMessage
  /\ faults = 0
  /\ hist = [admitted |-> [u \in Users |-> <<>>],
             noticeAt |-> [u \in Users |-> -Minute], staged |-> {}]

-----------------------------------------------------------------------------
(* RateLimiter.check_and_consume                                           *)

Expired(w, b) == w.count = 0 \/ now - w.start >= Width[b]

\* Mutant of Denies: the first message of a window is not counted.
DeniesLate(u, b, limit) ==
  ~Expired(rate[u][b], b) /\ rate[u][b].count > limit

Denies(u, b, limit) ==
  ~Expired(rate[u][b], b) /\ rate[u][b].count + 1 > limit

\* Mutant of Consume: every message starts a window.
ConsumeRestarts(u, b) ==
  rate' = [rate EXCEPT ![u][b] = [start |-> now, count |-> 1]]

Consume(u, b) ==
  LET w == rate[u][b]
  IN  rate' = [rate EXCEPT ![u][b] =
                 IF Expired(w, b) THEN [start |-> now, count |-> 1]
                 ELSE [start |-> w.start, count |-> w.count + 1]]

-----------------------------------------------------------------------------
(* Dispatcher.handle_inbound                                               *)

Sender == pump.from

\* Admins and direct neighbours are not limited.
BypassesLimits == Sender \in svcAdmins \/ pump.hops = 0

\* Mutant of AfterUpsert: the ban is looked at too late.
AfterUpsertUnchecked(u) == IF u \notin known THEN "notify" ELSE "inbound_min"

AfterUpsert(u) ==
  IF u \in banned THEN "done" ELSE IF u \notin known THEN "notify" ELSE "inbound_min"

\* upsert_user_first_seen and touch_user: nobody stays unknown.
UpsertUser(u) == known \cup {u}

\* The row is created, and read as it is now.
Receive(u, hops, cmd) ==
  /\ pump.pc = "idle"
  /\ known' = UpsertUser(u)
  /\ pump' = [NoMessage EXCEPT !.pc = AfterUpsert(u), !.from = u, !.hops = hops,
                               !.cmd = cmd, !.named = name[u] # NoName,
                               !.silent = u \in banned]
  /\ UNCHANGED <<now, banned, name, rate, config, pending, faults, hist>>

\* _notify_admins_new_user: a low-priority row for each of cfgAdmins but the sender.
NotifyAdmins ==
  /\ pump.pc = "notify"
  /\ pump' = [pump EXCEPT !.pc = "inbound_min"]
  /\ UNCHANGED <<now, users, rate, config, pending, faults, hist>>

AfterGate == IF pump.named THEN "command" ELSE "onboard"

Unlimited ==
  /\ pump.pc = "inbound_min"
  /\ BypassesLimits
  /\ pump' = [pump EXCEPT !.pc = AfterGate, !.guarded = pump.named]
  /\ UNCHANGED <<now, users, rate, config, pending, faults, hist>>

\* The scaled limit of the bucket the pump is at.
Scaled == BaseLimit[pump.pc] * HopMultiplier(pump.hops)

Throttle ==
  /\ pump.pc \in Counted /\ (pump.pc = "inbound_min" => ~BypassesLimits)
  /\ Denies(Sender, pump.pc, Scaled)
  /\ pump' = [pump EXCEPT !.pc = "throttled"]
  /\ UNCHANGED <<now, users, rate, config, pending, faults, hist>>

PassMinute ==
  /\ pump.pc = "inbound_min" /\ ~BypassesLimits
  /\ ~Denies(Sender, pump.pc, Scaled)
  /\ Consume(Sender, pump.pc)
  /\ pump' = [pump EXCEPT !.pc = "inbound_hour", !.checkedAt = now]
  /\ UNCHANGED <<now, users, config, pending, faults, hist>>

PassHour ==
  /\ pump.pc = "inbound_hour"
  /\ ~Denies(Sender, pump.pc, Scaled)
  /\ Consume(Sender, pump.pc)
  /\ pump' = [pump EXCEPT !.pc = AfterGate, !.guarded = pump.named]
  /\ hist' = [hist EXCEPT !.admitted[Sender] =
                 Append(@, [b \in Counted |-> IF b = "inbound_min" THEN pump.checkedAt
                                                                  ELSE now])]
  /\ UNCHANGED <<now, users, config, pending, faults>>

\* Mutant of MayBeTold: every refusal is answered.
AlwaysTold == TRUE

\* _reply_throttled asks the rate limiter whether to say anything.
MayBeTold == ~Denies(Sender, "rate_notify", 1)

TellThrottled ==
  /\ pump.pc = "throttled"
  /\ MayBeTold
  /\ Consume(Sender, "rate_notify")
  /\ pump' = [pump EXCEPT !.pc = "reply"]
  /\ hist' = [hist EXCEPT !.noticeAt[Sender] = now]
  /\ UNCHANGED <<now, users, config, pending, faults>>

KeepSilent ==
  /\ pump.pc = "throttled"
  /\ ~MayBeTold
  /\ pump' = [pump EXCEPT !.pc = "done", !.silent = TRUE]
  /\ UNCHANGED <<now, users, rate, config, pending, faults, hist>>

\* try_set_name, from onboarding or from a NAME command: the UNIQUE constraint
\* refuses a name somebody else has.
\* set_display_name: display names are UNIQUE.
SetDisplayName(u, n) ==
  IF \E other \in Users \ {u} : name[other] = n THEN name ELSE [name EXCEPT ![u] = n]

SetName ==
  /\ pump.pc \in {"onboard", "command"}
  /\ pump.cmd.verb = "NAME"
  /\ name' = SetDisplayName(Sender, pump.cmd.arg)
  /\ pump' = [pump EXCEPT !.pc = "reply"]
  /\ UNCHANGED <<now, known, banned, rate, config, pending, faults, hist>>

\* Mutant of JustReply: a missing return, the refusal falls through to the usage.
RepliesTwice ==
  /\ pump.pc = "command"
  /\ pump.cmd.verb \in AdminVerb /\ Sender \notin svcAdmins
  /\ pump' = [pump EXCEPT !.pc = "reply", !.replies = @ + 1]
  /\ UNCHANGED <<now, users, rate, config, pending, faults, hist>>

\* Everything that only answers: the welcome, an admin verb of somebody else, any
\* other command.
JustReply ==
  /\ \/ pump.pc = "onboard" /\ pump.cmd.verb # "NAME"
     \/ pump.pc = "command" /\ pump.cmd.verb = "ANY"
     \/ pump.pc = "command" /\ pump.cmd.verb \in AdminVerb /\ Sender \notin svcAdmins
  /\ pump' = [pump EXCEPT !.pc = "reply"]
  /\ UNCHANGED <<now, users, rate, config, pending, faults, hist>>

IsAdminCommand(verb) ==
  /\ pump.pc = "command"
  /\ pump.cmd.verb = verb
  /\ Sender \in svcAdmins

\* Mutant of MayBan: whoever the prefix names, and nobody too.
MayBanAnybody(target) == TRUE

\* get_user_by_prefix
NamesUser(target) == target \in known

\* The prefix must name a user, and not oneself.
MayBan(target) == NamesUser(target) /\ target # Sender

SetBanned(target, flag) == IF flag THEN banned \cup {target} ELSE banned \ {target}

Ban ==
  /\ IsAdminCommand("BAN")
  /\ banned' = IF MayBan(pump.cmd.arg) THEN SetBanned(pump.cmd.arg, TRUE) ELSE banned
  /\ pump' = [pump EXCEPT !.pc = "reply"]
  /\ UNCHANGED <<now, known, name, rate, config, pending, faults, hist>>

Unban ==
  /\ IsAdminCommand("UNBAN")
  /\ banned' = SetBanned(pump.cmd.arg, FALSE)
  /\ pump' = [pump EXCEPT !.pc = "reply"]
  /\ UNCHANGED <<now, known, name, rate, config, pending, faults, hist>>

Mine(S) == {s \in S : s.by = Sender}

\* Mutant of Stage: what was staged first stays.
StageKeepsFirst ==
  /\ IsAdminCommand("BROADCAST")
  /\ LET s == [by |-> Sender, text |-> pump.cmd.arg, at |-> now]
     IN  /\ pending' = IF Mine(pending) = {} THEN pending \cup {s} ELSE pending
         /\ hist' = [hist EXCEPT !.staged = (@ \ Mine(@)) \cup {s}]
  /\ pump' = [pump EXCEPT !.pc = "reply"]
  /\ UNCHANGED <<now, users, rate, config, faults>>

\* stage_broadcast replaces what the same admin staged before.
Stage ==
  /\ IsAdminCommand("BROADCAST")
  /\ LET s == [by |-> Sender, text |-> pump.cmd.arg, at |-> now]
     IN  /\ pending' = (pending \ Mine(pending)) \cup {s}
         /\ hist' = [hist EXCEPT !.staged = (@ \ Mine(@)) \cup {s}]
  /\ pump' = [pump EXCEPT !.pc = "reply"]
  /\ UNCHANGED <<now, users, rate, config, faults>>

\* confirm_broadcast pops it in any case and goes on if it is fresh.
Confirm ==
  /\ IsAdminCommand("CONFIRM")
  /\ pending' = pending \ Mine(pending)
  /\ pump' = LET fresh == {s \in Mine(pending) : now - s.at <= ConfirmWithin}
             IN  IF fresh = {} THEN [pump EXCEPT !.pc = "reply"]
                 ELSE [pump EXCEPT !.pc = "recipients",
                                   !.text = (CHOOSE s \in fresh : TRUE).text]
  /\ UNCHANGED <<now, users, rate, config, faults, hist>>

AllUserPubkeys == known \ banned

\* all_user_pubkeys; then the status reply and a low-priority row per recipient.
ReadRecipients ==
  /\ pump.pc = "recipients"
  /\ pump' = [pump EXCEPT !.pc = "reply", !.todo = AllUserPubkeys \ {Sender}]
  /\ hist' = [hist EXCEPT !.staged = @ \ Mine(@)]
  /\ UNCHANGED <<now, users, rate, config, pending, faults>>

Broadcast ==
  /\ pump.pc = "broadcast"
  /\ pump' = [pump EXCEPT !.pc = "done"]
  /\ UNCHANGED <<now, users, rate, config, pending, faults, hist>>

\* _enqueue_reply at normal priority, never dropped.
Reply ==
  /\ pump.pc = "reply"
  /\ pump' = [pump EXCEPT !.pc = IF pump.todo = {} THEN "done" ELSE "broadcast",
                          !.replies = @ + 1]
  /\ UNCHANGED <<now, users, rate, config, pending, faults, hist>>

Return ==
  /\ pump.pc = "done"
  /\ pump' = NoMessage
  /\ UNCHANGED <<now, users, rate, config, pending, faults, hist>>

\* A statement raises.  Inside the try block of _handle_command this is answered;
\* before it, at an empty text, and while it is answered, the message is given up.
StatementRaises ==
  /\ pump.pc \notin {"idle", "done"}
  /\ faults < MaxFaults
  /\ faults' = faults + 1
  /\ \/ /\ pump.guarded
        /\ pump' = [pump EXCEPT !.pc = "reply", !.todo = {}, !.guarded = FALSE,
                                !.raised = TRUE]
     \/ /\ ~pump.guarded \/ pump.pc = "command" \/ pump.cmd.verb = "ANY"
        /\ pump' = NoMessage
  /\ UNCHANGED <<now, users, rate, config, pending, hist>>

-----------------------------------------------------------------------------
(* Surroundings                                                            *)

Advance ==
  /\ now < MaxTime
  /\ now' = now + 1
  /\ UNCHANGED <<users, rate, config, pending, pump, faults, hist>>

EditFile(admins) ==
  /\ file' = admins
  /\ UNCHANGED <<now, users, rate, cfgAdmins, svcAdmins, pending, pump, faults, hist>>

\* SIGHUP: Config.reload puts a new bbs section into cfg; AdminService keeps the
\* one it was given.
Reload ==
  /\ cfgAdmins' = file
  /\ UNCHANGED <<now, users, rate, file, svcAdmins, pending, pump, faults, hist>>

\* Whatever ends the process, the pump is cut off where it is.
Restart ==
  /\ faults < MaxFaults
  /\ faults' = faults + 1
  /\ cfgAdmins' = file /\ svcAdmins' = file
  /\ pending' = {}
  /\ pump' = NoMessage
  /\ UNCHANGED <<now, users, rate, file, hist>>

PumpStep ==
  \/ NotifyAdmins \/ Unlimited \/ Throttle \/ PassMinute \/ PassHour
  \/ TellThrottled \/ KeepSilent \/ SetName \/ JustReply
  \/ Ban \/ Unban \/ Stage \/ Confirm \/ ReadRecipients
  \/ Broadcast \/ Reply \/ Return

Next ==
  \/ \E u \in Users, hops \in Hops, cmd \in Command : Receive(u, hops, cmd)
  \/ PumpStep
  \/ StatementRaises
  \/ Advance
  \/ \E admins \in AdminLists : EditFile(admins)
  \/ Reload
  \/ Restart

Spec == Init /\ [][Next]_vars
=============================================================================
