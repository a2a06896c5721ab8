--------------------------- MODULE InboundProofs ---------------------------
(***************************************************************************)
(* Proofs of what the gate of the inbound path guarantees, for any number  *)
(* of users, limits, windows, texts and faults.                            *)
(***************************************************************************)
EXTENDS InboundProperties, FiniteSetTheorems, SequenceTheorems, TLAPS

USE LimitAssumption

-----------------------------------------------------------------------------
(* Types                                                                   *)

\* The message the pump is at has a sender and a command.
Attended == pump.pc # "idle" => pump.from \in Users /\ pump.cmd \in Command

\* What the verb of a command says of its argument.
LEMMA CommandArgs ==
  ASSUME NEW c \in Command
  PROVE  /\ c.verb = "NAME" => c.arg \in Names
         /\ c.verb \in {"BAN", "UNBAN"} => c.arg \in Users
         /\ c.verb = "BROADCAST" => c.arg \in Texts
  BY DEF Command

\* Steps of the pump that change nothing else.
LEMMA PumpMoves ==
  ASSUME TypeOK, pump' \in Message,
         pump'.pc # "idle" => pump'.from \in Users /\ pump'.cmd \in Command,
         UNCHANGED <<now, users, rate, config, pending, hist>>, faults' \in Nat
  PROVE  TypeOK' /\ Attended'
  BY DEF TypeOK, Attended, users, config

\* Consulting a bucket keeps the windows well typed.
LEMMA ConsumeType ==
  ASSUME TypeOK, NEW u \in Users, NEW b \in Buckets, Consume(u, b)
  PROVE  /\ rate' \in [Users -> [Buckets -> Window]]
         /\ rate'[u][b] = IF Expired(rate[u][b], b) THEN [start |-> now, count |-> 1]
                          ELSE [start |-> rate[u][b].start, count |-> rate[u][b].count + 1]
         /\ \A v \in Users, d \in Buckets :
              v # u \/ d # b => rate'[v][d] = rate[v][d]
<1>1. rate \in [Users -> [Buckets -> Window]] /\ now \in Nat
  BY DEF TypeOK, Times
<1> DEFINE w == rate[u][b]
           new == IF Expired(w, b) THEN [start |-> now, count |-> 1]
                  ELSE [start |-> w.start, count |-> w.count + 1]
<1>2. w \in Window
  BY <1>1
<1>3. new \in Window
  BY <1>1, <1>2 DEF Window
<1>4. rate' = [rate EXCEPT ![u][b] = new]
  BY DEF Consume
<1> HIDE DEF new
<1>5. rate' \in [Users -> [Buckets -> Window]] /\ rate'[u][b] = new
  BY <1>1, <1>3, <1>4
<1>6. \A v \in Users, d \in Buckets : v # u \/ d # b => rate'[v][d] = rate[v][d]
  BY <1>1, <1>4
<1>7. QED
  BY <1>5, <1>6 DEF new

\* Every step of the pump.
LEMMA PumpStepType ==
  ASSUME TypeOK, Attended, PumpStep
  PROVE  TypeOK' /\ Attended'
<1> USE DEF PumpPC
<1>1. pump \in Message /\ now \in Nat /\ now \in Times
  BY DEF TypeOK, Times
<1>2. pump.pc # "idle" => Sender \in Users /\ pump.cmd \in Command
  BY DEF Attended, Sender
<1>3. faults' = faults /\ faults' \in Nat
  BY DEF PumpStep, NotifyAdmins, Unlimited, Throttle, PassMinute, PassHour,
         TellThrottled, KeepSilent, SetName, JustReply, Ban, Unban, Stage, Confirm,
         ReadRecipients, Broadcast, Reply, Return, TypeOK
<1>4. CASE NotifyAdmins \/ Unlimited \/ Throttle \/ KeepSilent \/ JustReply \/ Broadcast
             \/ Reply
  <2>1. /\ pump'.from = pump.from /\ pump'.cmd = pump.cmd /\ pump.pc # "idle"
        /\ pump' \in Message
    <3>1. CASE NotifyAdmins \/ Throttle \/ JustReply \/ Broadcast
      BY <1>1, <3>1 DEF NotifyAdmins, Throttle, JustReply, Broadcast, Message, Counted
    <3>2. CASE Unlimited
      <4>1. pump.pc # "idle" /\ AfterGate \in PumpPC /\ pump.named \in BOOLEAN
              /\ pump' = [pump EXCEPT !.pc = AfterGate, !.guarded = pump.named]
        BY <1>1, <3>2 DEF Unlimited, AfterGate, Message
      <4>2. QED
        BY <1>1, <4>1 DEF Message
    <3>3. CASE KeepSilent
      BY <1>1, <3>3 DEF KeepSilent, Message
    <3>4. CASE Reply
      <4>1. PICK pc \in PumpPC, n \in Nat : pump' = [pump EXCEPT !.pc = pc, !.replies = n]
        <5>1. pump.replies + 1 \in Nat
          BY <1>1 DEF Message
        <5>2. (IF pump.todo = {} THEN "done" ELSE "broadcast") \in PumpPC
          OBVIOUS
        <5>3. QED
          BY <3>4, <5>1, <5>2 DEF Reply
      <4>2. pump.pc = "reply"
        BY <3>4 DEF Reply
      <4>3. QED
        BY <1>1, <4>1, <4>2 DEF Message
    <3>5. QED
      BY <1>4, <3>1, <3>2, <3>3, <3>4
  <2>2. UNCHANGED <<now, users, rate, config, pending, hist>>
    BY <1>4 DEF NotifyAdmins, Unlimited, Throttle, KeepSilent, JustReply, Broadcast, Reply
  <2>3. QED
    BY <1>2, <1>3, <2>1, <2>2, PumpMoves DEF Sender
<1>5. CASE PassMinute
  <2>1. pump' \in Message /\ pump'.from = pump.from /\ pump'.cmd = pump.cmd
    BY <1>1, <1>5 DEF PassMinute, Message
  <2>2. rate' \in [Users -> [Buckets -> Window]]
    BY <1>2, <1>5, ConsumeType DEF PassMinute, Buckets
  <2>3. QED
    BY <1>2, <1>3, <1>5, <2>1, <2>2 DEF PassMinute, TypeOK, Attended, users, config, Sender
<1>6. CASE PassHour
  <2>1. pump' \in Message /\ pump'.from = pump.from /\ pump'.cmd = pump.cmd
    <3>1. AfterGate \in PumpPC /\ pump.named \in BOOLEAN
            /\ pump' = [pump EXCEPT !.pc = AfterGate, !.guarded = pump.named]
      BY <1>1, <1>6 DEF PassHour, AfterGate, Message
    <3>2. QED
      BY <1>1, <3>1 DEF Message
  <2>2. rate' \in [Users -> [Buckets -> Window]]
    BY <1>2, <1>6, ConsumeType DEF PassHour, Buckets
  <2>3. hist' \in Hist
    <3> DEFINE e == [b \in Counted |-> IF b = "inbound_min" THEN pump.checkedAt ELSE now]
    <3>1. e \in [Counted -> Times]
      BY <1>1 DEF Message
    <3>2. Sender \in Users /\ hist' = [hist EXCEPT !.admitted[Sender] = Append(@, e)]
      BY <1>2, <1>6 DEF PassHour
    <3>3. Append(hist.admitted[Sender], e) \in Seq([Counted -> Times])
      BY <3>1, <3>2, AppendProperties DEF TypeOK, Hist
    <3> HIDE DEF e
    <3>4. QED
      BY <3>2, <3>3 DEF TypeOK, Hist
  <2>4. QED
    BY <1>2, <1>3, <1>6, <2>1, <2>2, <2>3
    DEF PassHour, TypeOK, Attended, users, config, Sender
<1>7. CASE TellThrottled
  <2>1. pump' \in Message /\ pump'.from = pump.from /\ pump'.cmd = pump.cmd
    BY <1>1, <1>7 DEF TellThrottled, Message
  <2>2. rate' \in [Users -> [Buckets -> Window]]
    BY <1>2, <1>7, ConsumeType DEF TellThrottled, Buckets
  <2>3. hist' \in Hist
    <3>1. Sender \in Users /\ now \in Int
            /\ hist' = [hist EXCEPT !.noticeAt[Sender] = now]
      BY <1>1, <1>2, <1>7 DEF TellThrottled
    <3>2. QED
      BY <3>1 DEF TypeOK, Hist
  <2>4. QED
    BY <1>2, <1>3, <1>7, <2>1, <2>2, <2>3
    DEF TellThrottled, TypeOK, Attended, users, config, Sender
<1>8. CASE SetName
  <2>1. pump' \in Message /\ pump'.from = pump.from /\ pump'.cmd = pump.cmd
    BY <1>1, <1>8 DEF SetName, Message
  <2>2. Sender \in Users /\ pump.cmd.arg \in Names
    BY <1>2, <1>8, CommandArgs DEF SetName
  <2>3. name' \in [Users -> Names \cup {NoName}]
    BY <1>8, <2>2 DEF SetName, SetDisplayName, TypeOK
  <2>4. QED
    BY <1>2, <1>3, <1>8, <2>1, <2>2, <2>3 DEF SetName, TypeOK, Attended, config, Sender
<1>9. CASE Ban \/ Unban
  <2>1. pump' \in Message /\ pump'.from = pump.from /\ pump'.cmd = pump.cmd
          /\ pump.pc # "idle"
    <3>1. pump' = [pump EXCEPT !.pc = "reply"] /\ pump.pc = "command"
      BY <1>9 DEF Ban, Unban, IsAdminCommand
    <3>2. QED
      BY <1>1, <3>1 DEF Message
  <2>2. banned' \subseteq known
    BY <1>9 DEF Ban, Unban, MayBan, NamesUser, SetBanned, TypeOK
  <2>3. QED
    BY <1>2, <1>3, <1>9, <2>1, <2>2 DEF Ban, Unban, TypeOK, Attended, config, Sender
<1>10. CASE Stage
  <2>1. pump' \in Message /\ pump'.from = pump.from /\ pump'.cmd = pump.cmd
    BY <1>1, <1>10 DEF Stage, IsAdminCommand, Message
  <2>2. Sender \in Users /\ pump.cmd.arg \in Texts
    BY <1>2, <1>10, CommandArgs DEF Stage, IsAdminCommand
  <2>3. [by |-> Sender, text |-> pump.cmd.arg, at |-> now] \in Staged
    BY <1>1, <2>2 DEF Staged
  <2>4. pending' \subseteq Staged /\ hist' \in Hist
    BY <1>10, <2>3 DEF Stage, Mine, TypeOK, Hist
  <2>5. QED
    <3>1. pump'.from \in Users /\ pump'.cmd \in Command
      BY <1>2, <1>10, <2>1 DEF Stage, IsAdminCommand, Sender
    <3>2. QED
      BY <1>3, <1>10, <2>1, <2>4, <3>1 DEF Stage, TypeOK, Attended, users, config
<1>11. CASE Confirm
  <2> DEFINE fresh == {s \in Mine(pending) : now - s.at <= ConfirmWithin}
             text == (CHOOSE s \in fresh : TRUE).text
  <2>1. pump.pc = "command"
          /\ pump' = IF fresh = {} THEN [pump EXCEPT !.pc = "reply"]
                     ELSE [pump EXCEPT !.pc = "recipients", !.text = text]
    BY <1>11 DEF Confirm, IsAdminCommand
  <2>2. fresh # {} => text \in Texts
    BY DEF Mine, TypeOK, Staged
  <2> HIDE DEF fresh, text
  <2>3. pump' \in Message /\ pump'.from = pump.from /\ pump'.cmd = pump.cmd
    BY <1>1, <2>1, <2>2 DEF Message
  <2>4. pending' \subseteq Staged
    BY <1>11 DEF Confirm, TypeOK
  <2>5. QED
    BY <1>2, <1>3, <1>11, <2>1, <2>3, <2>4
    DEF Confirm, TypeOK, Attended, users, config, Sender
<1>12. CASE ReadRecipients
  <2>1. pump' \in Message /\ pump'.from = pump.from /\ pump'.cmd = pump.cmd
    BY <1>1, <1>12 DEF ReadRecipients, AllUserPubkeys, Message, TypeOK
  <2>2. hist' \in Hist
    BY <1>12 DEF ReadRecipients, TypeOK, Hist
  <2>3. QED
    BY <1>2, <1>3, <1>12, <2>1, <2>2
    DEF ReadRecipients, TypeOK, Attended, users, config, Sender
<1>13. CASE Return
  <2>1. pump' \in Message /\ pump'.pc = "idle"
    BY <1>13 DEF Return, NoMessage, Message, Times
  <2>2. QED
    BY <1>3, <1>13, <2>1, PumpMoves DEF Return
<1>14. QED
  BY <1>4, <1>5, <1>6, <1>7, <1>8, <1>9, <1>10, <1>11, <1>12, <1>13 DEF PumpStep

\* Every other step.
LEMMA OtherStepType ==
  ASSUME TypeOK, Attended,
         \/ \E u \in Users, hops \in Hops, cmd \in Command : Receive(u, hops, cmd)
         \/ StatementRaises \/ Advance
         \/ \E admins \in AdminLists : EditFile(admins)
         \/ Reload \/ Restart
  PROVE  TypeOK' /\ Attended'
<1> USE DEF PumpPC
<1>1. pump \in Message /\ NoMessage \in Message /\ NoMessage.pc = "idle"
  BY DEF TypeOK, NoMessage, Message, Times
<1>2. ASSUME NEW u \in Users, NEW hops \in Hops, NEW cmd \in Command, Receive(u, hops, cmd)
      PROVE  TypeOK' /\ Attended'
  <2>1. pump' \in Message /\ pump'.from = u /\ pump'.cmd = cmd
    <3>1. AfterUpsert(u) \in PumpPC /\ (name[u] # NoName) \in BOOLEAN
            /\ (u \in banned) \in BOOLEAN
      BY DEF AfterUpsert
    <3>2. pump' = [NoMessage EXCEPT !.pc = AfterUpsert(u), !.from = u, !.hops = hops,
                     !.cmd = cmd, !.named = name[u] # NoName, !.silent = u \in banned]
      BY <1>2 DEF Receive
    <3> DEFINE at == AfterUpsert(u)
               has == name[u] # NoName
               out == u \in banned
    <3>3. pump' = [pc |-> at, from |-> u, hops |-> hops, cmd |-> cmd, named |-> has,
                   todo |-> {}, text |-> None, guarded |-> FALSE, checkedAt |-> 0,
                   replies |-> 0, raised |-> FALSE, silent |-> out]
      BY <3>2 DEF NoMessage
    <3> HIDE DEF at, has, out
    <3>4. 0 \in Times
      BY DEF Times
    <3>5. at \in PumpPC /\ has \in BOOLEAN /\ out \in BOOLEAN
      BY <3>1 DEF at, has, out
    <3>6. QED
      BY <3>3, <3>4, <3>5 DEF Message
  <2>2. known' \subseteq Users /\ banned' \subseteq known'
    BY <1>2 DEF Receive, UpsertUser, TypeOK
  <2>3. QED
    BY <1>2, <2>1, <2>2 DEF Receive, TypeOK, Attended, config
<1>3. CASE StatementRaises
  <2>1. /\ pump' \in Message
        /\ pump'.pc # "idle" => pump'.from = pump.from /\ pump'.cmd = pump.cmd
    <3>1. \/ pump' = NoMessage
          \/ pump' = [pump EXCEPT !.pc = "reply", !.todo = {}, !.guarded = FALSE,
                                  !.raised = TRUE]
      BY <1>3 DEF StatementRaises
    <3>2. CASE pump' = NoMessage
      BY <1>1, <3>2
    <3>3. CASE pump' = [pump EXCEPT !.pc = "reply", !.todo = {}, !.guarded = FALSE,
                                    !.raised = TRUE]
      BY <1>1, <3>3 DEF Message
    <3>4. QED
      BY <3>1, <3>2, <3>3
  <2>2. pump.pc # "idle" /\ faults' \in Nat
    BY <1>3 DEF StatementRaises, TypeOK
  <2>3. QED
    BY <1>3, <2>1, <2>2, PumpMoves DEF StatementRaises, Attended
<1>4. CASE Advance
  <2>1. now' \in Times
    BY <1>4 DEF Advance, TypeOK, Times
  <2>2. QED
    BY <1>4, <2>1 DEF Advance, TypeOK, Attended, users, config
<1>5. CASE Reload \/ \E admins \in AdminLists : EditFile(admins)
  BY <1>5 DEF Reload, EditFile, TypeOK, Attended, users
<1>6. CASE Restart
  BY <1>1, <1>6 DEF Restart, TypeOK, Attended, users
<1>7. QED
  BY <1>2, <1>3, <1>4, <1>5, <1>6

\* Every step.
LEMMA TypeStep == TypeOK /\ Attended /\ [Next]_vars => TypeOK' /\ Attended'
<1> SUFFICES ASSUME TypeOK, Attended, [Next]_vars PROVE TypeOK' /\ Attended'
  OBVIOUS
<1>1. CASE UNCHANGED vars
  BY <1>1 DEF vars, TypeOK, Attended
<1>2. CASE Next
  BY <1>2, PumpStepType, OtherStepType DEF Next
<1>3. QED
  BY <1>1, <1>2

\* The start.
LEMMA TypeInit == Init => TypeOK /\ Attended
  BY DEF Init, TypeOK, Attended, NoMessage, Message, PumpPC, Times, Window, Hist, Counted

\* Along every behaviour of the inbound path its variables stay well typed.
THEOREM TypeCorrect == Spec => []TypeOK
<1>1. Spec => [](TypeOK /\ Attended)
  BY TypeInit, TypeStep, PTL DEF Spec
<1>2. QED
  BY <1>1, PTL

-----------------------------------------------------------------------------
(* What steps do to the message                                            *)

\* After a statement raised: the message is given up or about to be answered.
LEMMA AfterRaise ==
  ASSUME TypeOK, StatementRaises
  PROVE  /\ pump.pc \notin {"idle", "done"}
         /\ \/ pump' = NoMessage
            \/ /\ pump.guarded /\ ~pump'.guarded /\ pump'.raised
               /\ pump'.pc = "reply" /\ pump'.todo = {}
               /\ pump'.from = pump.from /\ pump'.named = pump.named
               /\ pump'.replies = pump.replies /\ pump'.silent = pump.silent
<1>1. pump \in Message
  BY DEF TypeOK
<1>2. CASE pump' = NoMessage
  BY <1>2 DEF StatementRaises
<1>3. CASE pump' # NoMessage
  <2>1. /\ pump.guarded /\ pump.pc \notin {"idle", "done"}
        /\ pump' = [pump EXCEPT !.pc = "reply", !.todo = {}, !.guarded = FALSE,
                                !.raised = TRUE]
    BY <1>3 DEF StatementRaises
  <2>2. QED
    BY <1>1, <2>1 DEF Message
<1>4. QED
  BY <1>2, <1>3

\* Only a confirmation makes the pump read the recipients, and only staging,
\* confirming and reading them touch what is staged.
LEMMA OnlyConfirmPops ==
  ASSUME TypeOK, Next, ~Stage, ~Confirm, ~ReadRecipients
  PROVE  /\ pump' = pump \/ pump'.pc # "recipients"
         /\ pending' \in {pending, {}}
         /\ hist'.staged = hist.staged
<1>1. pump \in Message /\ hist \in Hist
  BY DEF TypeOK
<1>2. CASE NotifyAdmins \/ Unlimited \/ Throttle \/ PassMinute
  BY <1>1, <1>2 DEF NotifyAdmins, Unlimited, Throttle, PassMinute, AfterGate, Message
<1>3. CASE PassHour
  BY <1>1, <1>3 DEF PassHour, AfterGate, Message, Hist
<1>4. CASE TellThrottled
  BY <1>1, <1>4 DEF TellThrottled, Message, Hist
<1>5. CASE KeepSilent \/ SetName \/ JustReply \/ Ban \/ Unban
  BY <1>1, <1>5 DEF KeepSilent, SetName, JustReply, Ban, Unban, Message
<1>6. CASE Broadcast \/ Return
  BY <1>1, <1>6 DEF Broadcast, Return, NoMessage, Message
<1>7. CASE Reply
  BY <1>1, <1>7 DEF Reply, Message
<1>8. CASE \E u \in Users, hops \in Hops, cmd \in Command : Receive(u, hops, cmd)
  BY <1>8 DEF Receive, NoMessage, AfterUpsert
<1>9. CASE StatementRaises
  BY <1>9, AfterRaise DEF StatementRaises, NoMessage
<1>10. CASE Restart
  BY <1>10 DEF Restart, NoMessage
<1>11. CASE Advance \/ Reload \/ \E admins \in AdminLists : EditFile(admins)
  BY <1>11 DEF Advance, Reload, EditFile
<1>12. QED
  BY <1>2, <1>3, <1>4, <1>5, <1>6, <1>7, <1>8, <1>9, <1>10, <1>11 DEF Next, PumpStep

-----------------------------------------------------------------------------
(* Members                                                                 *)

\* From the look at the ban until it is done with the message, the pump works for a
\* user who has a row and no ban, and whom it found to have a name or not.
Member ==
  /\ pump.pc \notin {"idle", "done"} => Sender \in known \ banned
  /\ pump.pc # "idle" /\ pump.named => name[Sender] # NoName
  /\ pump.pc \in {"command", "recipients"} => pump.named

\* Only the pump changes what it has read of its sender.
LEMMA MemberStep ==
  TypeOK /\ Attended /\ Member /\ [Next]_vars => Member'
<1> SUFFICES ASSUME TypeOK, Attended, Member, [Next]_vars PROVE Member'
  OBVIOUS
<1>1. pump \in Message /\ (pump.pc # "idle" => Sender \in Users /\ pump.cmd \in Command)
  BY DEF TypeOK, Attended, Sender
<1>2. CASE UNCHANGED vars
  BY <1>2 DEF vars, Member, Sender
<1>3. ASSUME NEW u \in Users, NEW hops \in Hops, NEW cmd \in Command, Receive(u, hops, cmd)
      PROVE  Member'
  <2>1. /\ pump'.pc = AfterUpsert(u) /\ pump'.from = u /\ pump'.named = (name[u] # NoName)
        /\ known' = known \cup {u} /\ banned' = banned /\ name' = name
    BY <1>3 DEF Receive, NoMessage, UpsertUser
  <2>2. QED
    BY <2>1 DEF Member, Sender, AfterUpsert
<1>4. CASE NotifyAdmins \/ Unlimited \/ Throttle \/ PassMinute \/ PassHour
             \/ TellThrottled \/ KeepSilent \/ JustReply \/ Unban \/ Stage
             \/ ReadRecipients \/ Broadcast \/ Reply
  <2>1. /\ pump'.from = pump.from /\ pump'.named = pump.named
        /\ pump.pc \notin {"idle", "done"}
        /\ known' = known /\ banned' \subseteq banned /\ name' = name
        /\ pump'.pc \in {"command", "recipients"} => pump.named
    <3>1. CASE NotifyAdmins \/ Throttle \/ PassMinute \/ TellThrottled \/ KeepSilent
      <4>1. CASE NotifyAdmins \/ Throttle
        BY <1>1, <4>1 DEF NotifyAdmins, Throttle, users, Message, Counted
      <4>2. CASE PassMinute \/ KeepSilent
        BY <1>1, <4>2 DEF PassMinute, KeepSilent, users, Message
      <4>3. CASE TellThrottled
        BY <1>1, <4>3 DEF TellThrottled, users, Message
      <4>4. QED
        BY <3>1, <4>1, <4>2, <4>3
    <3>2. CASE Unlimited \/ PassHour
      BY <1>1, <3>2 DEF Unlimited, PassHour, AfterGate, users, Message
    <3>3. CASE JustReply \/ Unban \/ Stage
      BY <1>1, <3>3 DEF JustReply, Unban, Stage, IsAdminCommand, SetBanned, users, Message
    <3>4. CASE ReadRecipients \/ Broadcast
      BY <1>1, <3>4 DEF ReadRecipients, Broadcast, users, Message
    <3>5. CASE Reply
      BY <1>1, <3>5 DEF Reply, users, Message
    <3>6. QED
      BY <1>4, <3>1, <3>2, <3>3, <3>4, <3>5
  <2>2. QED
    BY <2>1 DEF Member, Sender
<1>5. CASE SetName
  <2>1. /\ pump'.from = pump.from /\ pump'.named = pump.named /\ pump'.pc = "reply"
        /\ pump.pc \in {"onboard", "command"} /\ known' = known /\ banned' = banned
        /\ name' = SetDisplayName(Sender, pump.cmd.arg)
    BY <1>1, <1>5 DEF SetName, Message
  <2>2. pump.cmd.arg \in Names
    BY <1>1, <1>5, CommandArgs DEF SetName
  <2>3. name[Sender] # NoName => name'[Sender] # NoName
    BY <1>1, <2>1, <2>2 DEF SetDisplayName, TypeOK
  <2>4. QED
    BY <2>1, <2>3 DEF Member, Sender
<1>6. CASE Ban
  <2>1. /\ pump'.from = pump.from /\ pump'.named = pump.named /\ pump'.pc = "reply"
        /\ pump.pc = "command" /\ known' = known /\ name' = name
        /\ Sender \in banned' => Sender \in banned
    BY <1>1, <1>6 DEF Ban, IsAdminCommand, MayBan, SetBanned, Message
  <2>2. QED
    BY <2>1 DEF Member, Sender
<1>7. CASE Confirm
  <2>1. /\ pump'.from = pump.from /\ pump'.named = pump.named
        /\ pump'.pc \in {"reply", "recipients"} /\ pump.pc = "command"
        /\ known' = known /\ banned' = banned /\ name' = name
    BY <1>1, <1>7 DEF Confirm, IsAdminCommand, users, Message
  <2>2. QED
    BY <2>1 DEF Member, Sender
<1>8. CASE Return \/ Restart
  BY <1>8 DEF Return, Restart, NoMessage, Member
<1>9. CASE StatementRaises
  <2>1. known' = known /\ banned' = banned /\ name' = name
    BY <1>9 DEF StatementRaises, users
  <2>2. QED
    BY <1>9, <2>1, AfterRaise DEF Member, Sender, NoMessage
<1>10. CASE Advance \/ Reload \/ \E admins \in AdminLists : EditFile(admins)
  BY <1>10 DEF Advance, Reload, EditFile, users, Member, Sender
<1>11. QED
  BY <1>2, <1>3, <1>4, <1>5, <1>6, <1>7, <1>8, <1>9, <1>10 DEF Next, PumpStep

\* So these hold in every reachable state.
LEMMA AlwaysMember == Spec => [](TypeOK /\ Attended /\ Member)
<1>1. Init => Member
  BY DEF Init, Member, NoMessage
<1>2. QED
  BY <1>1, TypeInit, TypeStep, MemberStep, PTL DEF Spec

\* Commands are carried out for members only: what the gate read about the ban and
\* the name when the message came in still holds when the command is carried out.
THEOREM MembersOnly == Spec => []OnlyMembersCommand
<1>1. Member => OnlyMembersCommand
  BY DEF Member, OnlyMembersCommand
<1>2. QED
  BY <1>1, AlwaysMember, PTL

\* Bans by the admins never leave them without one who is not banned: whoever bans
\* is an admin, not banned, and not the one who is banned.
THEOREM SomebodyInCharge == Spec => AdminsStayInCharge
<1> DEFINE Kept == svcAdmins' = svcAdmins /\ svcAdmins \ banned # {}
                     => svcAdmins \ banned' # {}
<1>1. Member /\ Next => Kept
  <2> SUFFICES ASSUME Member, Next, svcAdmins' = svcAdmins, svcAdmins \ banned # {}
               PROVE  svcAdmins \ banned' # {}
    OBVIOUS
  <2>1. CASE Ban
    BY <2>1 DEF Ban, IsAdminCommand, MayBan, SetBanned, Member
  <2>2. CASE ~Ban
    <3>1. banned' \subseteq banned
      BY <2>2 DEF Next, PumpStep, Receive, NotifyAdmins, Unlimited, Throttle, PassMinute,
         PassHour, TellThrottled, KeepSilent, SetName, JustReply, Unban, SetBanned, Stage,
         Confirm, ReadRecipients, Broadcast, Reply, Return, StatementRaises, Advance,
         EditFile, Reload, Restart, users
    <3>2. QED
      BY <3>1
  <2>3. QED
    BY <2>1, <2>2
<1>2. Member /\ [Next]_vars => [Kept]_vars
  BY <1>1
<1> HIDE DEF Kept
<1>3. Spec => [][Kept]_vars
  BY <1>2, AlwaysMember, PTL DEF Spec
<1>4. QED
  BY <1>3 DEF Kept, AdminsStayInCharge

-----------------------------------------------------------------------------
(* Answers                                                                 *)

\* Nothing is answered before "reply"; once something raised nothing is left to do
\* but to answer that, and it is not answered again when answering raises.
Answers ==
  /\ pump.pc \in {"notify", "inbound_min", "inbound_hour", "throttled", "onboard",
                  "command", "recipients"}
       => pump.replies = 0 /\ ~pump.raised /\ ~pump.silent
  /\ pump.pc = "reply"
       => ~pump.silent /\ (pump.replies = 0 \/ (pump.raised /\ pump.replies = 1))
  /\ pump.pc = "broadcast" => pump.replies = 1 /\ ~pump.raised /\ ~pump.silent
  /\ pump.raised => ~pump.guarded /\ pump.todo = {}
  /\ AnsweredOnce

\* Every await of the pump sends the replies its place stands for.
LEMMA AnswersStep ==
  TypeOK /\ Attended /\ Answers /\ [Next]_vars => Answers'
<1> SUFFICES ASSUME TypeOK, Attended, Answers, [Next]_vars PROVE Answers'
  OBVIOUS
<1> USE DEF Answers, AnsweredOnce
<1>1. pump \in Message
  BY DEF TypeOK
<1>2. CASE UNCHANGED pump
  BY <1>2
<1>3. ASSUME NEW u \in Users, NEW hops \in Hops, NEW cmd \in Command, Receive(u, hops, cmd)
      PROVE  Answers'
  <2>1. /\ pump'.pc = AfterUpsert(u) /\ pump'.replies = 0 /\ pump'.raised = FALSE
        /\ pump'.silent = (u \in banned)
    BY <1>3 DEF Receive, NoMessage
  <2>2. QED
    BY <2>1 DEF AfterUpsert
<1>4. CASE NotifyAdmins \/ Throttle \/ PassMinute \/ TellThrottled \/ SetName \/ JustReply
             \/ Ban \/ Unban \/ Stage \/ Confirm
  <2>1. /\ pump.pc \in {"notify", "inbound_min", "inbound_hour", "throttled", "onboard",
                        "command", "recipients"}
        /\ pump'.pc \in {"inbound_min", "inbound_hour", "throttled", "recipients", "reply"}
        /\ pump'.replies = pump.replies /\ pump'.raised = pump.raised
        /\ pump'.silent = pump.silent
    <3>1. CASE NotifyAdmins \/ Throttle \/ PassMinute \/ TellThrottled
      BY <1>1, <3>1 DEF NotifyAdmins, Throttle, PassMinute, TellThrottled, Counted, Message
    <3>2. CASE SetName \/ JustReply
      BY <1>1, <3>2 DEF SetName, JustReply, Message
    <3>3. CASE Ban \/ Unban \/ Stage
      BY <1>1, <3>3 DEF Ban, Unban, Stage, IsAdminCommand, Message
    <3>4. CASE Confirm
      BY <1>1, <3>4 DEF Confirm, IsAdminCommand, Message
    <3>5. QED
      BY <1>4, <3>1, <3>2, <3>3, <3>4
  <2>2. QED
    BY <2>1
<1>5. CASE Unlimited \/ PassHour
  <2>1. /\ pump.pc \in {"inbound_min", "inbound_hour"}
        /\ pump'.pc \in {"command", "onboard"}
        /\ pump'.replies = pump.replies /\ pump'.raised = pump.raised
        /\ pump'.silent = pump.silent
    BY <1>1, <1>5 DEF Unlimited, PassHour, AfterGate, Message
  <2>2. QED
    BY <2>1
<1>6. CASE KeepSilent
  BY <1>1, <1>6 DEF KeepSilent, Message
<1>7. CASE ReadRecipients
  <2>1. /\ pump.pc = "recipients" /\ pump'.pc = "reply"
        /\ pump'.replies = pump.replies /\ pump'.raised = pump.raised
        /\ pump'.silent = pump.silent
    BY <1>1, <1>7 DEF ReadRecipients, Message
  <2>2. QED
    BY <2>1
<1>8. CASE Broadcast
  BY <1>1, <1>8 DEF Broadcast, Message
<1>9. CASE Reply
  <2>1. /\ pump.pc = "reply"
        /\ pump'.pc = IF pump.todo = {} THEN "done" ELSE "broadcast"
        /\ pump'.replies = pump.replies + 1 /\ pump'.raised = pump.raised
        /\ pump'.silent = pump.silent /\ pump'.todo = pump.todo
        /\ pump'.guarded = pump.guarded /\ pump.replies \in Nat
    BY <1>1, <1>9 DEF Reply, Message
  <2>2. QED
    BY <2>1
<1>10. CASE Return \/ Restart
  BY <1>10 DEF Return, Restart, NoMessage
<1>11. CASE StatementRaises
  <2>1. pump.pc \in PumpPC
    BY <1>1 DEF Message
  <2>2. QED
    BY <1>11, <2>1, AfterRaise DEF PumpPC, NoMessage
<1>12. QED
  BY <1>2, <1>3, <1>4, <1>5, <1>6, <1>7, <1>8, <1>9, <1>10, <1>11
  DEF Next, PumpStep, Advance, Reload, EditFile, vars

\* Every message is answered once, and a second time only where the code answers an
\* error after it has answered the command.
THEOREM OneAnswer == Spec => []AnsweredOnce
<1>1. Init => Answers
  BY DEF Init, NoMessage, Answers, AnsweredOnce
<1>2. Answers => AnsweredOnce
  BY DEF Answers
<1>3. QED
  BY <1>1, <1>2, TypeInit, TypeStep, AnswersStep, PTL DEF Spec

-----------------------------------------------------------------------------
(* Broadcasts                                                              *)

\* What is staged is what its admin staged last; what was popped is gone.
StagedLast ==
  /\ pending \subseteq hist.staged
  /\ pump.pc = "recipients" => Mine(pending) = {}

\* Whatever is staged replaces what the admin had staged before.
LEMMA StagedStep ==
  TypeOK /\ Attended /\ StagedLast /\ [Next]_vars => StagedLast'
<1> SUFFICES ASSUME TypeOK, Attended, StagedLast, [Next]_vars PROVE StagedLast'
  OBVIOUS
<1> USE DEF StagedLast, Mine, Sender
<1>1. pump \in Message /\ hist \in Hist
  BY DEF TypeOK
<1>2. CASE UNCHANGED <<pending, hist, pump>>
  BY <1>2
<1>3. CASE Stage
  <2>1. PICK s : /\ pending' = (pending \ Mine(pending)) \cup {s}
                 /\ hist' = [hist EXCEPT !.staged = (@ \ Mine(@)) \cup {s}]
    BY <1>3 DEF Stage
  <2>2. hist'.staged = (hist.staged \ Mine(hist.staged)) \cup {s} /\ pump'.pc = "reply"
    BY <1>1, <1>3, <2>1 DEF Stage, Hist, Message
  <2>3. QED
    BY <2>1, <2>2
<1>4. CASE Confirm
  <2>1. /\ pending' = pending \ Mine(pending) /\ hist' = hist /\ pump'.from = pump.from
    BY <1>1, <1>4 DEF Confirm, Message
  <2>2. QED
    BY <2>1
<1>5. CASE ReadRecipients
  <2>1. /\ pending' = pending /\ pump.pc = "recipients" /\ pump'.pc = "reply"
        /\ hist'.staged = hist.staged \ Mine(hist.staged)
    BY <1>1, <1>5 DEF ReadRecipients, Hist, Message
  <2>2. QED
    BY <2>1
<1>6. CASE Next /\ ~Stage /\ ~Confirm /\ ~ReadRecipients
  BY <1>6, OnlyConfirmPops
<1>7. QED
  BY <1>2, <1>3, <1>4, <1>5, <1>6 DEF vars

\* What a confirmation sends to everybody is what this admin staged last, recently,
\* and has not sent before.
THEOREM BroadcastsAreStaged == Spec => BroadcastAsStaged
<1> DEFINE FromStage ==
      pump.pc = "command" /\ pump'.pc = "recipients" =>
        \E s \in hist.staged :
          s.by = Sender /\ s.text = pump'.text /\ now <= s.at + ConfirmWithin
<1>1. Init => StagedLast
  BY DEF Init, StagedLast, Mine
<1>2. TypeOK /\ Attended /\ StagedLast /\ Next => FromStage
  <2> SUFFICES ASSUME TypeOK, StagedLast, Next, pump.pc = "command",
                      pump'.pc = "recipients"
               PROVE  \E s \in hist.staged :
                        s.by = Sender /\ s.text = pump'.text /\ now <= s.at + ConfirmWithin
    OBVIOUS
  <2>1. pump \in Message
    BY DEF TypeOK
  <2>2. Confirm
    BY <2>1, OnlyConfirmPops DEF Stage, ReadRecipients, Message
  <2> DEFINE fresh == {s \in Mine(pending) : now - s.at <= ConfirmWithin}
             picked == CHOOSE s \in fresh : TRUE
  <2>3. fresh # {} /\ pump' = [pump EXCEPT !.pc = "recipients", !.text = picked.text]
    BY <2>1, <2>2 DEF Confirm, Message
  <2>4. picked \in fresh
    BY <2>3
  <2>5. /\ picked \in hist.staged /\ picked.by = Sender /\ picked.at \in Nat
        /\ now - picked.at <= ConfirmWithin
    BY <2>4 DEF Mine, StagedLast, TypeOK, Staged
  <2> HIDE DEF picked
  <2>6. pump'.text = picked.text
    BY <2>1, <2>3 DEF Message
  <2>7. now <= picked.at + ConfirmWithin
    BY <2>5 DEF TypeOK, Times
  <2>8. QED
    BY <2>5, <2>6, <2>7
<1>3. TypeOK /\ Attended /\ StagedLast /\ [Next]_vars => [FromStage]_vars
  BY <1>2
<1> HIDE DEF FromStage
<1>4. Spec => [][FromStage]_vars
  BY <1>1, <1>3, TypeInit, TypeStep, StagedStep, PTL DEF Spec
<1>5. QED
  BY <1>4 DEF FromStage, BroadcastAsStaged

-----------------------------------------------------------------------------
(* Notices                                                                 *)

\* A user's notice window starts with the last notice sent to it.
NoticeStarts ==
  \A u \in Users :
    LET w == rate[u]["rate_notify"]
    IN  hist.noticeAt[u] = IF w.count = 0 THEN -Minute ELSE w.start

\* Only a notice touches the notice windows and the time of the last one.
LEMMA OnlyTellsNotice ==
  ASSUME TypeOK, Attended, [Next]_vars, ~TellThrottled
  PROVE  /\ \A u \in Users : rate'[u]["rate_notify"] = rate[u]["rate_notify"]
         /\ hist'.noticeAt = hist.noticeAt
<1>1. hist \in Hist /\ (pump.pc # "idle" => Sender \in Users)
  BY DEF TypeOK, Attended, Sender
<1>2. CASE PassMinute
  BY <1>1, <1>2, ConsumeType DEF PassMinute, Buckets
<1>3. CASE PassHour
  <2>1. \A u \in Users : rate'[u]["rate_notify"] = rate[u]["rate_notify"]
    BY <1>1, <1>3, ConsumeType DEF PassHour, Buckets
  <2>2. hist'.noticeAt = hist.noticeAt
    BY <1>1, <1>3 DEF PassHour, Hist
  <2>3. QED
    BY <2>1, <2>2
<1>4. CASE Stage
  <2>1. rate' = rate /\ hist'.noticeAt = hist.noticeAt
    BY <1>1, <1>4 DEF Stage, Hist
  <2>2. QED
    BY <2>1
<1>5. CASE ReadRecipients
  <2>1. rate' = rate /\ hist'.noticeAt = hist.noticeAt
    BY <1>1, <1>5 DEF ReadRecipients, Hist
  <2>2. QED
    BY <2>1
<1>6. CASE [Next]_vars /\ ~(PassMinute \/ PassHour \/ Stage \/ ReadRecipients)
  <2>1. rate' = rate /\ hist' = hist
    BY <1>6 DEF Next, PumpStep, Receive, NotifyAdmins, Unlimited, Throttle, KeepSilent,
       SetName, JustReply, Ban, Unban, Confirm, Broadcast, Reply, Return, StatementRaises,
       Advance, EditFile, Reload, Restart, vars
  <2>2. QED
    BY <2>1
<1>7. QED
  BY <1>2, <1>3, <1>4, <1>5, <1>6

\* A notice starts a new window, a minute after the last notice at the earliest.
LEMMA NoticeStep ==
  ASSUME TypeOK, Attended, NoticeStarts, TellThrottled
  PROVE  /\ NoticeStarts'
         /\ \A u \in Users : hist'.noticeAt[u] # hist.noticeAt[u]
                           => hist'.noticeAt[u] >= hist.noticeAt[u] + Minute
<1>1. /\ Sender \in Users /\ now \in Nat /\ "rate_notify" \in Buckets
      /\ Width["rate_notify"] = Minute
  BY DEF TypeOK, Attended, Sender, TellThrottled, Times, Buckets, Width
<1> DEFINE w == rate[Sender]["rate_notify"]
<1>2. w \in Window /\ w.start \in Nat /\ w.count \in Nat
  BY <1>1 DEF TypeOK, Window
<1>3. w.count = 0 \/ now - w.start >= Minute
  BY <1>1, <1>2 DEF TellThrottled, MayBeTold, Denies, Expired
<1>4. /\ rate'[Sender]["rate_notify"] = [start |-> now, count |-> 1]
      /\ \A u \in Users : u # Sender => rate'[u]["rate_notify"] = rate[u]["rate_notify"]
  <2>1. Expired(rate[Sender]["rate_notify"], "rate_notify")
    BY <1>1, <1>3 DEF Expired
  <2>2. Consume(Sender, "rate_notify")
    BY DEF TellThrottled
  <2>3. rate'[Sender]["rate_notify"] = [start |-> now, count |-> 1]
    BY <1>1, <2>1, <2>2, ConsumeType
  <2>4. \A u \in Users : u # Sender => rate'[u]["rate_notify"] = rate[u]["rate_notify"]
    <3>1. \A u \in Users, d \in Buckets :
            u # Sender \/ d # "rate_notify" => rate'[u][d] = rate[u][d]
      BY <1>1, <2>2, ConsumeType
    <3>2. QED
      BY <1>1, <3>1
  <2>5. QED
    BY <2>3, <2>4
<1>5. hist'.noticeAt[Sender] = now
        /\ \A u \in Users : u # Sender => hist'.noticeAt[u] = hist.noticeAt[u]
  BY <1>1 DEF TellThrottled, TypeOK, Hist
<1>6. now >= hist.noticeAt[Sender] + Minute
  BY <1>1, <1>2, <1>3 DEF NoticeStarts
<1>7. QED
  BY <1>4, <1>5, <1>6 DEF NoticeStarts

\* A user is told at most once a minute that it is limited, across restarts.
THEOREM NoticesAreSpaced == Spec => NoticesSpaced
<1> DEFINE Late == \A u \in Users :
      hist'.noticeAt[u] # hist.noticeAt[u]
        => hist'.noticeAt[u] >= hist.noticeAt[u] + Minute
<1>1. Init => NoticeStarts
  <2>1. ASSUME Init, NEW u \in Users
        PROVE  rate[u]["rate_notify"].count = 0 /\ hist.noticeAt[u] = -Minute
    BY <2>1 DEF Init, Buckets
  <2>2. QED
    BY <2>1 DEF NoticeStarts
<1>2. TypeOK /\ Attended /\ NoticeStarts /\ [Next]_vars => NoticeStarts' /\ Late
  <2>1. ASSUME TypeOK, Attended, NoticeStarts, [Next]_vars, ~TellThrottled
        PROVE  NoticeStarts' /\ Late
    BY <2>1, OnlyTellsNotice DEF NoticeStarts
  <2>2. QED
    BY <2>1, NoticeStep
<1> HIDE DEF Late
<1>3. Spec => [][Late]_vars
  BY <1>1, <1>2, TypeInit, TypeStep, PTL DEF Spec
<1>4. QED
  BY <1>3 DEF Late, NoticesSpaced

-----------------------------------------------------------------------------
(* The windows                                                             *)

\* What the code's windows are: not empty.
LEMMA WidthPositive ==
  /\ \A b \in Buckets : Width[b] \in Nat \ {0}
  /\ Counted \subseteq Buckets
  BY DEF Width, Buckets, Counted

\* A larger multiplier never allows less, and something is always allowed.
LEMMA AllowanceGrows ==
  ASSUME NEW b \in Counted, NEW h \in Int
  PROVE  /\ Allowance(b, HopMultiplier(h)) \in Nat /\ Allowance(b, 4) \in Nat
         /\ 1 <= Allowance(b, HopMultiplier(h))
         /\ BaseLimit[b] * HopMultiplier(h) <= Allowance(b, HopMultiplier(h))
         /\ BaseLimit[b] * HopMultiplier(h) \in Nat
         /\ Allowance(b, HopMultiplier(h)) <= Allowance(b, 4)
<1>1. HopMultiplier(h) \in {1, 2, 4}
  BY DEF HopMultiplier
<1>2. BaseLimit[b] \in Nat
  BY DEF BaseLimit, Counted
<1>3. QED
  BY <1>1, <1>2 DEF Allowance

Entries == Seq([Counted -> Times])

\* The count of what was let in is a number, and grows with the times looked at.
LEMMA LetInGrows ==
  ASSUME NEW a \in Entries, NEW b \in Counted, NEW S, NEW T,
         \A i \in DOMAIN a : a[i][b] \in S => a[i][b] \in T
  PROVE  /\ LetIn(a, b, S) \in Nat /\ LetIn(a, b, T) \in Nat
         /\ LetIn(a, b, S) <= LetIn(a, b, T)
<1> DEFINE In(X) == {i \in DOMAIN a : a[i][b] \in X}
<1>1. IsFiniteSet(DOMAIN a)
  <2>1. Len(a) \in Nat /\ DOMAIN a = 1 .. Len(a)
    BY LenProperties DEF Entries
  <2>2. QED
    BY <2>1, FS_Interval
<1>2. In(S) \subseteq In(T) /\ In(S) \subseteq DOMAIN a /\ In(T) \subseteq DOMAIN a
  OBVIOUS
<1>3. IsFiniteSet(In(S)) /\ IsFiniteSet(In(T))
  BY <1>1, <1>2, FS_Subset
<1>4. Cardinality(In(S)) \in Nat /\ Cardinality(In(T)) \in Nat
        /\ Cardinality(In(S)) <= Cardinality(In(T))
  BY <1>2, <1>3, FS_Subset, FS_CardinalityType
<1>5. QED
  BY <1>4 DEF LetIn

\* What was let in at the times of two sets, at most.
LEMMA LetInSplits ==
  ASSUME NEW a \in Entries, NEW b \in Counted, NEW S, NEW T, NEW U,
         \A i \in DOMAIN a : a[i][b] \in U => a[i][b] \in S \cup T
  PROVE  LetIn(a, b, U) <= LetIn(a, b, S) + LetIn(a, b, T)
<1> DEFINE In(X) == {i \in DOMAIN a : a[i][b] \in X}
<1>1. IsFiniteSet(DOMAIN a)
  <2>1. Len(a) \in Nat /\ DOMAIN a = 1 .. Len(a)
    BY LenProperties DEF Entries
  <2>2. QED
    BY <2>1, FS_Interval
<1>2. IsFiniteSet(In(S)) /\ IsFiniteSet(In(T))
  BY <1>1, FS_Subset
<1>3. In(S \cup T) = In(S) \cup In(T)
  OBVIOUS
<1>4. /\ IsFiniteSet(In(S) \cup In(T)) /\ IsFiniteSet(In(S) \cap In(T))
      /\ Cardinality(In(S) \cup In(T))
           = Cardinality(In(S)) + Cardinality(In(T)) - Cardinality(In(S) \cap In(T))
  BY <1>2, FS_Union, FS_Intersection
<1>5. /\ Cardinality(In(S)) \in Nat /\ Cardinality(In(T)) \in Nat
      /\ Cardinality(In(S) \cap In(T)) \in Nat
  BY <1>2, <1>4, FS_CardinalityType
<1>6. LetIn(a, b, U) <= LetIn(a, b, S \cup T) /\ LetIn(a, b, U) \in Nat
  BY LetInGrows
<1>7. LetIn(a, b, S \cup T) <= LetIn(a, b, S) + LetIn(a, b, T)
  <2>1. /\ LetIn(a, b, S \cup T) = Cardinality(In(S) \cup In(T))
        /\ LetIn(a, b, S) = Cardinality(In(S)) /\ LetIn(a, b, T) = Cardinality(In(T))
    BY <1>3 DEF LetIn
  <2> HIDE DEF In
  <2>2. QED
    BY <1>4, <1>5, <2>1
<1>8. QED
  BY <1>5, <1>6, <1>7, LetInGrows

\* One more is let in.
LEMMA LetInAppend ==
  ASSUME NEW a \in Entries, NEW b \in Counted, NEW e \in [Counted -> Times], NEW T
  PROVE  /\ Append(a, e) \in Entries
         /\ LetIn(Append(a, e), b, T) = LetIn(a, b, T) + (IF e[b] \in T THEN 1 ELSE 0)
<1> DEFINE n == Len(a)
           In == {i \in DOMAIN a : a[i][b] \in T}
           More == {i \in DOMAIN Append(a, e) : Append(a, e)[i][b] \in T}
<1>1. /\ n \in Nat /\ DOMAIN a = 1 .. n
  BY LenProperties DEF Entries
<1>2. /\ Append(a, e) \in Entries
      /\ DOMAIN Append(a, e) = 1 .. n + 1
      /\ \A i \in 1 .. n : Append(a, e)[i] = a[i]
      /\ Append(a, e)[n + 1] = e
  BY <1>1, AppendProperties, LenProperties DEF Entries
<1>3. IsFiniteSet(In) /\ n + 1 \notin In
  <2>1. In \subseteq 1 .. n
    BY <1>1
  <2> HIDE DEF In, n
  <2>2. IsFiniteSet(1 .. n)
    BY <1>1, FS_Interval
  <2>3. IsFiniteSet(In)
    BY <2>1, <2>2, FS_Subset
  <2>4. n + 1 \notin In
    BY <1>1, <2>1
  <2>5. QED
    BY <2>3, <2>4
<1>4. More = IF e[b] \in T THEN In \cup {n + 1} ELSE In
  BY <1>1, <1>2
<1> HIDE DEF n, In, More
<1>5. Cardinality(More) = Cardinality(In) + (IF e[b] \in T THEN 1 ELSE 0)
  <2>1. Cardinality(In \cup {n + 1}) = Cardinality(In) + 1 /\ Cardinality(In) \in Nat
    BY <1>3, FS_AddElement, FS_CardinalityType
  <2>2. QED
    BY <1>4, <2>1
<1>6. QED
  BY <1>2, <1>5 DEF LetIn, In, More

\* How the window w of bucket b and what it let in, the messages a, fit together at
\* a time; held is 1 while the bucket has counted a message the other one has not
\* decided on.  Nothing is let in uncounted, nor counted in a window that has ended;
\* and a window's length before this one began at most one allowance was let in.
Fits(b, w, a, held, time) ==
  /\ w.count = 0 => w.start = 0
  /\ w.start <= time
  /\ w.count <= Allowance(b, 4)
  /\ LetIn(a, b, w.start .. MaxTime) + held <= w.count
  /\ LetIn(a, b, w.start - Width[b] + 1 .. w.start - 1) <= Allowance(b, 4)
  /\ \A i \in DOMAIN a : a[i][b] <= time /\ a[i][b] < w.start + Width[b]

\* Counting a message, in the running window or in a new one.
LEMMA FitsConsume ==
  ASSUME NEW b \in Counted, NEW w \in Window, NEW a \in Entries, NEW time \in Times,
         NEW v \in Window, Fits(b, w, a, 0, time), v.count <= Allowance(b, 4),
         \/ /\ w.count = 0 \/ time - w.start >= Width[b]
            /\ v.start = time /\ v.count = 1
         \/ /\ w.count # 0
            /\ v.start = w.start /\ v.count = w.count + 1
  PROVE  Fits(b, v, a, 1, time)
<1>1. /\ time \in Nat /\ w.start \in Nat /\ w.count \in Nat /\ v.start \in Nat
      /\ v.count \in Nat /\ Width[b] \in Nat \ {0} /\ time <= MaxTime
  BY WidthPositive DEF Times, Window
<1>2. \A i \in DOMAIN a : a[i][b] \in Nat /\ a[i][b] <= MaxTime
  <2>1. \A i \in DOMAIN a : a[i] \in [Counted -> Times]
    BY DEF Entries
  <2>2. QED
    BY <2>1 DEF Times
<1>3. CASE v.start = w.start /\ v.count = w.count + 1 /\ w.count # 0
  <2>1. LetIn(a, b, v.start .. MaxTime) + 1 <= v.count
    <3>1. LetIn(a, b, w.start .. MaxTime) \in Nat
      BY LetInGrows
    <3>2. QED
      BY <1>1, <1>3, <3>1 DEF Fits
  <2>2. QED
    BY <1>1, <1>3, <2>1 DEF Fits
<1>4. CASE /\ w.count = 0 \/ time - w.start >= Width[b]
           /\ v.start = time /\ v.count = 1
  <2>1. \A i \in DOMAIN a : w.count # 0 => a[i][b] < time
    BY <1>1, <1>2, <1>4 DEF Fits
  <2>2. w.count = 0 => LetIn(a, b, 0 .. MaxTime) = 0
    <3>1. LetIn(a, b, 0 .. MaxTime) \in Nat
      BY LetInGrows
    <3>2. QED
      BY <1>1, <3>1 DEF Fits
  <2>3. LetIn(a, b, time .. MaxTime) = 0
    <3>1. CASE w.count = 0
      <4>1. LetIn(a, b, time .. MaxTime) <= LetIn(a, b, 0 .. MaxTime)
              /\ LetIn(a, b, time .. MaxTime) \in Nat
        BY <1>1, <1>2, LetInGrows
      <4>2. QED
        BY <2>2, <3>1, <4>1
    <3>2. CASE w.count # 0
      <4>1. {i \in DOMAIN a : a[i][b] \in time .. MaxTime} = {}
        BY <1>1, <1>2, <2>1, <3>2
      <4>2. QED
        BY <4>1, FS_EmptySet DEF LetIn
    <3>3. QED
      BY <3>1, <3>2
  <2>4. LetIn(a, b, time - Width[b] + 1 .. time - 1) <= Allowance(b, 4)
    <3>1. LetIn(a, b, time - Width[b] + 1 .. time - 1) <= LetIn(a, b, w.start .. MaxTime)
            /\ LetIn(a, b, time - Width[b] + 1 .. time - 1) \in Nat
            /\ LetIn(a, b, w.start .. MaxTime) \in Nat
      <4>1. \A i \in DOMAIN a : a[i][b] \in time - Width[b] + 1 .. time - 1
                               => a[i][b] \in w.start .. MaxTime
        <5>1. w.count = 0 => w.start = 0
          BY DEF Fits
        <5>2. \A x \in time - Width[b] + 1 .. time - 1 :
                 x \in Nat /\ x <= MaxTime => x \in w.start .. MaxTime
          BY <1>1, <1>4, <5>1
        <5>3. QED
          BY <1>2, <5>2
      <4>2. QED
        BY <4>1, LetInGrows
    <3>2. Allowance(b, 4) \in Nat
      BY AllowanceGrows
    <3>3. QED
      BY <1>1, <3>1, <3>2 DEF Fits
  <2>5. \A i \in DOMAIN a : a[i][b] <= time
    BY DEF Fits
  <2>6. \A i \in DOMAIN a : a[i][b] < time + Width[b]
    <3>1. \A x \in Nat : x <= time => x < time + Width[b]
      BY <1>1
    <3>2. QED
      BY <1>2, <2>5, <3>1
  <2>7. v.start = time /\ v.count = 1
    BY <1>4
  <2>8. LetIn(a, b, v.start .. MaxTime) + 1 <= v.count
    BY <2>3, <2>7
  <2>9. LetIn(a, b, v.start - Width[b] + 1 .. v.start - 1) <= Allowance(b, 4)
    BY <2>4, <2>7
  <2>10. QED
    BY <1>1, <2>5, <2>6, <2>7, <2>8, <2>9 DEF Fits
<1>5. QED
  BY <1>3, <1>4

\* Letting in the message that was counted.
LEMMA FitsAppend ==
  ASSUME NEW b \in Counted, NEW w \in Window, NEW a \in Entries, NEW time \in Times,
         NEW e \in [Counted -> Times], Fits(b, w, a, 1, time),
         w.start <= e[b], e[b] < w.start + Width[b], e[b] <= time
  PROVE  Fits(b, w, Append(a, e), 0, time)
<1>1. /\ time \in Nat /\ w.start \in Nat /\ w.count \in Nat /\ e[b] \in Nat
      /\ Width[b] \in Nat \ {0} /\ e[b] <= MaxTime
  BY WidthPositive DEF Times, Window
<1>2. LetIn(Append(a, e), b, w.start .. MaxTime) = LetIn(a, b, w.start .. MaxTime) + 1
  BY <1>1, LetInAppend
<1>3. LetIn(Append(a, e), b, w.start - Width[b] + 1 .. w.start - 1)
        = LetIn(a, b, w.start - Width[b] + 1 .. w.start - 1)
  <2> DEFINE Before == w.start - Width[b] + 1 .. w.start - 1
  <2>1. e[b] \notin Before
    BY <1>1
  <2> HIDE DEF Before
  <2>2. LetIn(a, b, Before) \in Nat
    BY LetInGrows
  <2>3. LetIn(Append(a, e), b, Before) = LetIn(a, b, Before) + 0
    BY <2>1, LetInAppend
  <2>4. QED
    BY <2>2, <2>3 DEF Before
<1>4. \A i \in DOMAIN Append(a, e) :
        Append(a, e)[i] = e \/ (i \in DOMAIN a /\ Append(a, e)[i] = a[i])
  <2>1. /\ Len(a) \in Nat /\ DOMAIN a = 1 .. Len(a)
        /\ Append(a, e) \in Seq([Counted -> Times]) /\ Len(Append(a, e)) = Len(a) + 1
        /\ \A i \in 1 .. Len(a) : Append(a, e)[i] = a[i]
        /\ Append(a, e)[Len(a) + 1] = e
    BY AppendProperties, LenProperties DEF Entries
  <2>2. DOMAIN Append(a, e) = 1 .. Len(a) + 1
    BY <2>1, LenProperties
  <2>3. QED
    BY <2>1, <2>2
<1>5. LetIn(a, b, w.start .. MaxTime) \in Nat
  BY LetInGrows
<1>6. LetIn(Append(a, e), b, w.start .. MaxTime) + 0 <= w.count
  <2>1. LetIn(a, b, w.start .. MaxTime) + 1 <= w.count
    BY DEF Fits
  <2>2. QED
    BY <1>1, <1>2, <1>5, <2>1
<1>7. \A i \in DOMAIN Append(a, e) :
        Append(a, e)[i][b] <= time /\ Append(a, e)[i][b] < w.start + Width[b]
  BY <1>4 DEF Fits
<1>8. QED
  BY <1>3, <1>6, <1>7 DEF Fits

\* Where the last message falls, two allowances are the most that any stretch of a
\* window's length has: one in the window running now and one before it.
LEMMA FitsBurst ==
  ASSUME NEW b \in Counted, NEW w \in Window, NEW a \in Entries, NEW time \in Times,
         Fits(b, w, a, 0, time), NEW t \in Times,
         t + Width[b] - 1 >= w.start
  PROVE  LetIn(a, b, t .. t + Width[b] - 1) <= 2 * Allowance(b, 4)
<1>1. /\ w.start \in Nat /\ w.count \in Nat /\ t \in Nat /\ Width[b] \in Nat \ {0}
  BY WidthPositive DEF Times, Window
<1>2. \A i \in DOMAIN a : a[i][b] \in Nat /\ a[i][b] <= MaxTime
  <2>1. \A i \in DOMAIN a : a[i] \in [Counted -> Times]
    BY DEF Entries
  <2>2. QED
    BY <2>1 DEF Times
<1> DEFINE Before == w.start - Width[b] + 1 .. w.start - 1
           Since == w.start .. MaxTime
<1>3. \A i \in DOMAIN a : a[i][b] \in t .. t + Width[b] - 1 => a[i][b] \in Before \cup Since
  BY <1>1, <1>2
<1>4. LetIn(a, b, t .. t + Width[b] - 1) <= LetIn(a, b, Before) + LetIn(a, b, Since)
  <2> HIDE DEF Before, Since
  <2>1. QED
    BY <1>3, LetInSplits
<1>5. LetIn(a, b, Before) <= Allowance(b, 4) /\ LetIn(a, b, Since) <= Allowance(b, 4)
  <2>1. LetIn(a, b, Before) <= Allowance(b, 4) /\ LetIn(a, b, Since) + 0 <= w.count
          /\ w.count <= Allowance(b, 4)
    BY DEF Fits
  <2> HIDE DEF Before, Since
  <2>2. LetIn(a, b, Since) \in Nat
    BY LetInGrows
  <2>3. Allowance(b, 4) \in Nat
    BY AllowanceGrows
  <2>4. QED
    BY <1>1, <2>1, <2>2, <2>3
<1>6. /\ LetIn(a, b, Before) \in Nat /\ LetIn(a, b, Since) \in Nat
      /\ Allowance(b, 4) \in Nat /\ LetIn(a, b, t .. t + Width[b] - 1) \in Nat
  <2> HIDE DEF Before, Since
  <2>1. QED
    BY LetInGrows, AllowanceGrows
<1> HIDE DEF Before, Since
<1>7. QED
  BY <1>4, <1>5, <1>6

\* The first bucket has counted the message the second is to decide on.
Held(u, b) ==
  IF b = "inbound_min" /\ pump.pc = "inbound_hour" /\ Sender = u THEN 1 ELSE 0

\* Both buckets of everybody, the message between them, and what follows from them.
Windows ==
  /\ \A u \in Users, b \in Counted :
       Fits(b, rate[u][b], hist.admitted[u], Held(u, b), now)
  /\ pump.pc = "inbound_hour" =>
       LET w == rate[Sender]["inbound_min"]
       IN  /\ w.start <= pump.checkedAt /\ pump.checkedAt < w.start + Minute
           /\ pump.checkedAt <= now
           /\ w.count <= Allowance("inbound_min", HopMultiplier(pump.hops))
  /\ BurstBounded

\* Hops are numbers.
LEMMA HopsAreNumbers == TypeOK => pump.hops \in Int
<1>1. \A h \in Hops : h \in Int
  BY LimitAssumption, Zenon
<1>2. TypeOK => pump.hops \in Hops \/ pump.hops = 0
  BY DEF TypeOK, Message
<1>3. 0 \in Int
  OBVIOUS
<1>4. QED
  BY <1>1, <1>2, <1>3, Zenon

\* A message the bucket does not deny: what its window becomes.
LEMMA Counts ==
  ASSUME TypeOK, Attended, NEW b \in Counted, pump.pc = b,
         ~Denies(Sender, b, Scaled), Consume(Sender, b), rate[Sender][b].start <= now
  PROVE  LET w == rate[Sender][b]
             v == rate'[Sender][b]
         IN  /\ v.count <= Allowance(b, HopMultiplier(pump.hops))
             /\ v.start <= now /\ now < v.start + Width[b]
             /\ \/ /\ w.count = 0 \/ now - w.start >= Width[b]
                   /\ v.start = now /\ v.count = 1
                \/ /\ w.count # 0
                   /\ v.start = w.start /\ v.count = w.count + 1
<1> DEFINE w == rate[Sender][b]
           v == rate'[Sender][b]
<1>1. /\ Sender \in Users /\ b \in Buckets /\ now \in Nat /\ Width[b] \in Nat \ {0}
      /\ w \in Window /\ w.start \in Nat /\ w.count \in Nat /\ pump.hops \in Int
  <2>1. Sender \in Users /\ b \in Buckets
    BY DEF Attended, Sender, Counted, Buckets
  <2>2. w \in Window /\ pump.hops \in Hops \cup {0} /\ now \in Nat
    BY <2>1 DEF TypeOK, Message, Times
  <2>3. pump.hops \in Int
    BY HopsAreNumbers
  <2>4. w.start \in Nat /\ w.count \in Nat
    BY <2>2 DEF Window
  <2>5. QED
    BY <2>1, <2>2, <2>3, <2>4, WidthPositive
<1>2. v = IF Expired(w, b) THEN [start |-> now, count |-> 1]
          ELSE [start |-> w.start, count |-> w.count + 1]
  BY <1>1, ConsumeType
<1>3. /\ 1 <= Allowance(b, HopMultiplier(pump.hops))
      /\ Scaled <= Allowance(b, HopMultiplier(pump.hops)) /\ Scaled \in Nat
      /\ Allowance(b, HopMultiplier(pump.hops)) \in Nat
  BY <1>1, AllowanceGrows DEF Scaled
<1>4. CASE Expired(w, b)
  <2>1. v.start = now /\ v.count = 1
    BY <1>2, <1>4
  <2>2. w.count = 0 \/ now - w.start >= Width[b]
    BY <1>4 DEF Expired
  <2> HIDE DEF w, v
  <2>3. QED
    BY <1>1, <1>3, <2>1, <2>2 DEF w, v
<1>5. CASE ~Expired(w, b)
  <2>1. v.start = w.start /\ v.count = w.count + 1
    BY <1>2, <1>5
  <2>2. w.count # 0 /\ ~(now - w.start >= Width[b])
    BY <1>5 DEF Expired
  <2>3. ~(w.count + 1 > Scaled)
    BY <1>5 DEF Denies
  <2>4. v.start <= now
    BY <1>1, <2>1
  <2> HIDE DEF w, v
  <2>5. QED
    BY <1>1, <1>3, <2>1, <2>2, <2>3, <2>4 DEF w, v
<1>6. QED
  BY <1>4, <1>5

\* Steps that neither consult a bucket nor decide a message.
LEMMA WindowsStay ==
  ASSUME TypeOK, Attended, Windows, [Next]_vars, ~PassMinute, ~PassHour
  PROVE  Windows' /\ hist'.admitted = hist.admitted
<1>1. /\ pump \in Message /\ hist \in Hist /\ now \in Nat
      /\ rate \in [Users -> [Buckets -> Window]]
      /\ pump.pc # "idle" => Sender \in Users
  BY DEF TypeOK, Times, Attended, Sender
<1>2. \A u \in Users, b \in Counted : rate'[u][b] = rate[u][b]
  <2>1. CASE TellThrottled
    BY <1>1, <2>1, ConsumeType DEF TellThrottled, Counted, Buckets
  <2>2. CASE ~TellThrottled
    BY <2>2 DEF Next, PumpStep, Receive, NotifyAdmins, Unlimited, Throttle, KeepSilent,
       SetName, JustReply, Ban, Unban, Stage, Confirm, ReadRecipients, Broadcast, Reply,
       Return, StatementRaises, Advance, EditFile, Reload, Restart, vars
  <2>3. QED
    BY <2>1, <2>2
<1>3. hist'.admitted = hist.admitted
  <2>1. CASE TellThrottled
    BY <1>1, <2>1 DEF TellThrottled, Hist
  <2>2. CASE Stage
    BY <1>1, <2>2 DEF Stage, Hist
  <2>3. CASE ReadRecipients
    BY <1>1, <2>3 DEF ReadRecipients, Hist
  <2>4. CASE ~TellThrottled /\ ~Stage /\ ~ReadRecipients
    BY <2>4 DEF Next, PumpStep, Receive, NotifyAdmins, Unlimited, Throttle, KeepSilent,
       SetName, JustReply, Ban, Unban, Confirm, Broadcast, Reply,
       Return, StatementRaises, Advance, EditFile, Reload, Restart, vars
  <2>5. QED
    BY <2>1, <2>2, <2>3, <2>4
<1>4. now' \in Nat /\ now <= now'
  <2>1. CASE Advance
    BY <1>1, <2>1 DEF Advance
  <2>2. CASE ~Advance
    <3>1. now' = now
      BY <2>2 DEF Next, PumpStep, Receive, NotifyAdmins, Unlimited, Throttle, TellThrottled,
         KeepSilent, SetName, JustReply, Ban, Unban, Stage, Confirm, ReadRecipients,
         Broadcast, Reply, Return, StatementRaises, EditFile, Reload, Restart, vars
    <3>2. QED
      BY <1>1, <3>1
  <2>3. QED
    BY <2>1, <2>2
<1>5. pump'.pc = "inbound_hour" => pump' = pump
  <2>1. CASE \E u \in Users, hops \in Hops, cmd \in Command : Receive(u, hops, cmd)
    BY <2>1 DEF Receive, NoMessage, AfterUpsert
  <2>2. CASE NotifyAdmins \/ Unlimited \/ Throttle \/ TellThrottled \/ KeepSilent
    <3>1. pump'.pc \in {"inbound_min", "command", "onboard", "throttled", "reply", "done"}
      <4>1. CASE NotifyAdmins \/ Unlimited
        BY <1>1, <4>1 DEF NotifyAdmins, Unlimited, AfterGate, Message
      <4>2. CASE Throttle \/ TellThrottled \/ KeepSilent
        BY <1>1, <4>2 DEF Throttle, TellThrottled, KeepSilent, Message
      <4>3. QED
        BY <2>2, <4>1, <4>2
    <3>2. QED
      BY <3>1
  <2>3. CASE SetName \/ JustReply \/ Ban \/ Unban \/ Stage \/ Confirm
    BY <1>1, <2>3 DEF SetName, JustReply, Ban, Unban, Stage, Confirm, Message
  <2>4. CASE ReadRecipients \/ Broadcast \/ Reply
    BY <1>1, <2>4 DEF ReadRecipients, Broadcast, Reply, Message
  <2>5. CASE StatementRaises
    BY <2>5, AfterRaise DEF NoMessage
  <2>6. CASE Return \/ Restart
    BY <2>6 DEF Return, Restart, NoMessage
  <2>7. CASE UNCHANGED pump
    BY <2>7
  <2>8. QED
    BY <2>1, <2>2, <2>3, <2>4, <2>5, <2>6, <2>7
    DEF Next, PumpStep, Advance, Reload, EditFile, vars
<1>6. \A u \in Users, b \in Counted :
        Fits(b, rate'[u][b], hist'.admitted[u], Held(u, b)', now')
  <2> SUFFICES ASSUME NEW u \in Users, NEW b \in Counted
               PROVE  Fits(b, rate'[u][b], hist'.admitted[u], Held(u, b)', now')
    OBVIOUS
  <2> DEFINE w == rate[u][b]
             a == hist.admitted[u]
  <2>1. w \in Window /\ a \in Entries /\ Fits(b, w, a, Held(u, b), now)
    BY <1>1, WidthPositive DEF Windows, Hist, Entries
  <2>2. Held(u, b)' \in {0, 1} /\ Held(u, b) \in {0, 1} /\ Held(u, b)' <= Held(u, b)
    BY <1>5 DEF Held, Sender
  <2>3. LetIn(a, b, w.start .. MaxTime) \in Nat /\ w.start \in Nat /\ w.count \in Nat
    BY <2>1, LetInGrows DEF Window
  <2>4. \A i \in DOMAIN a : a[i][b] \in Nat
    <3>1. \A i \in DOMAIN a : a[i] \in [Counted -> Times]
      BY <2>1 DEF Entries
    <3>2. QED
      BY <3>1 DEF Times
  <2> HIDE DEF w, a
  <2>5. Fits(b, w, a, Held(u, b)', now')
    BY <1>1, <1>4, <2>1, <2>2, <2>3, <2>4 DEF Fits
  <2>6. QED
    BY <1>2, <1>3, <2>5 DEF w, a
<1>7. pump'.pc = "inbound_hour" =>
        LET w == rate'[Sender']["inbound_min"]
        IN  /\ w.start <= pump'.checkedAt /\ pump'.checkedAt < w.start + Minute
            /\ pump'.checkedAt <= now'
            /\ w.count <= Allowance("inbound_min", HopMultiplier(pump'.hops))
  <2> SUFFICES ASSUME pump'.pc = "inbound_hour"
               PROVE  LET w == rate'[Sender']["inbound_min"]
                      IN  /\ w.start <= pump'.checkedAt
                          /\ pump'.checkedAt < w.start + Minute
                          /\ pump'.checkedAt <= now'
                          /\ w.count <= Allowance("inbound_min", HopMultiplier(pump'.hops))
    OBVIOUS
  <2>1. pump' = pump /\ Sender' = Sender /\ Sender \in Users /\ pump.checkedAt \in Nat
    BY <1>1, <1>5 DEF Sender, Message, Times
  <2>2. rate'[Sender]["inbound_min"] = rate[Sender]["inbound_min"]
    BY <1>2, <2>1 DEF Counted
  <2>3. QED
    BY <1>1, <1>4, <2>1, <2>2 DEF Windows
<1>8. BurstBounded'
  BY <1>3 DEF Windows, BurstBounded
<1>9. QED
  BY <1>3, <1>6, <1>7, <1>8 DEF Windows

\* The first bucket lets a message through.
LEMMA WindowsMinute ==
  ASSUME TypeOK, TypeOK', Attended, Windows, PassMinute
  PROVE  Windows' /\ hist'.admitted = hist.admitted
<1> DEFINE min == "inbound_min"
<1>1. /\ Sender \in Users /\ Sender' = Sender /\ pump.pc = min /\ pump'.pc = "inbound_hour"
      /\ pump'.hops = pump.hops /\ pump'.checkedAt = now /\ now' = now /\ hist' = hist
      /\ ~Denies(Sender, min, Scaled) /\ Consume(Sender, min)
      /\ now \in Times /\ now \in Nat /\ min \in Counted /\ min \in Buckets
      /\ Width[min] = Minute
  BY DEF PassMinute, TypeOK, Attended, Sender, Message, Times, Counted, Buckets, Width
<1>2. \A u \in Users, b \in Counted :
        /\ rate[u][b] \in Window /\ rate'[u][b] \in Window /\ hist.admitted[u] \in Entries
        /\ Fits(b, rate[u][b], hist.admitted[u], Held(u, b), now)
        /\ u # Sender \/ b # min => rate'[u][b] = rate[u][b]
  <2>1. \A u \in Users, b \in Buckets : u # Sender \/ b # min => rate'[u][b] = rate[u][b]
    <3>1. min \in Buckets
      BY <1>1, WidthPositive
    <3> HIDE DEF min
    <3>2. QED
      BY <1>1, <3>1, ConsumeType
  <2>2. QED
    BY <2>1, WidthPositive DEF Windows, TypeOK, Hist, Entries
<1>3. \A u \in Users, b \in Counted :
        /\ Held(u, b) = 0
        /\ Held(u, b)' = IF u = Sender /\ b = min THEN 1 ELSE 0
  BY <1>1 DEF Held
<1> DEFINE w == rate[Sender][min]
           v == rate'[Sender][min]
           a == hist.admitted[Sender]
<1>4. w.start <= now
  BY <1>1, <1>2 DEF Fits
<1>5. /\ v.count <= Allowance(min, HopMultiplier(pump.hops))
      /\ v.start <= now /\ now < v.start + Width[min]
      /\ \/ /\ w.count = 0 \/ now - w.start >= Width[min]
            /\ v.start = now /\ v.count = 1
         \/ /\ w.count # 0
            /\ v.start = w.start /\ v.count = w.count + 1
  BY <1>1, <1>4, Counts
<1>6. /\ w \in Window /\ v \in Window /\ a \in Entries /\ Fits(min, w, a, 0, now)
      /\ v.count <= Allowance(min, 4)
  <2>1. w \in Window /\ v \in Window /\ a \in Entries /\ Fits(min, w, a, 0, now)
    BY <1>1, <1>2, <1>3
  <2>2. /\ Allowance(min, HopMultiplier(pump.hops)) <= Allowance(min, 4)
        /\ Allowance(min, HopMultiplier(pump.hops)) \in Nat /\ Allowance(min, 4) \in Nat
    <3>1. pump.hops \in Int
      BY HopsAreNumbers
    <3>2. QED
      BY <1>1, <3>1, AllowanceGrows
  <2>3. v.count \in Nat
    BY <2>1 DEF Window
  <2> HIDE DEF w, v, a
  <2>4. QED
    BY <1>5, <2>1, <2>2, <2>3
<1>7. Fits(min, v, a, 1, now)
  <2> HIDE DEF w, v, a
  <2>1. QED
    BY <1>1, <1>5, <1>6, FitsConsume
<1>8. \A u \in Users, b \in Counted :
        Fits(b, rate'[u][b], hist'.admitted[u], Held(u, b)', now')
  BY <1>1, <1>2, <1>3, <1>7
<1>9. /\ v.start <= pump'.checkedAt /\ pump'.checkedAt < v.start + Minute
      /\ pump'.checkedAt <= now'
      /\ v.count <= Allowance(min, HopMultiplier(pump'.hops))
  BY <1>1, <1>5
<1>10. BurstBounded'
  BY <1>1 DEF Windows, BurstBounded
<1>11. QED
  BY <1>1, <1>8, <1>9, <1>10 DEF Windows

\* The second bucket lets it through: both windows count it, and those before it,
\* within what they allow at its distance.
LEMMA WindowsHour ==
  ASSUME TypeOK, TypeOK', Attended, Windows, PassHour
  PROVE  /\ Windows'
         /\ \A b \in Counted :
              LetIn(hist'.admitted[Sender], b, rate'[Sender][b].start .. now)
                <= Allowance(b, HopMultiplier(pump.hops))
<1> DEFINE min == "inbound_min"
           hour == "inbound_hour"
           e == [b \in Counted |-> IF b = min THEN pump.checkedAt ELSE now]
<1>1. /\ Sender \in Users /\ pump.pc = hour /\ pump'.pc # hour /\ now' = now
      /\ hist' = [hist EXCEPT !.admitted[Sender] = Append(@, e)]
      /\ ~Denies(Sender, hour, Scaled) /\ Consume(Sender, hour)
      /\ now \in Times /\ now \in Nat /\ min \in Counted /\ hour \in Counted
      /\ Width[min] = Minute /\ pump.checkedAt \in Times /\ pump.hops \in Int
  <2>1. pump'.pc # hour
    BY DEF PassHour, AfterGate, TypeOK, Message
  <2>2. QED
    BY <2>1, HopsAreNumbers
    DEF PassHour, TypeOK, Attended, Sender, Message, Times, Counted, Buckets, Width
<1>2. \A u \in Users, b \in Counted :
        /\ rate[u][b] \in Window /\ rate'[u][b] \in Window /\ hist.admitted[u] \in Entries
        /\ Fits(b, rate[u][b], hist.admitted[u], Held(u, b), now)
        /\ u # Sender \/ b # hour => rate'[u][b] = rate[u][b]
  <2>1. \A u \in Users, b \in Buckets : u # Sender \/ b # hour => rate'[u][b] = rate[u][b]
    <3>1. hour \in Buckets
      BY <1>1, WidthPositive
    <3> HIDE DEF hour
    <3>2. QED
      BY <1>1, <3>1, ConsumeType
  <2>2. QED
    BY <2>1, WidthPositive DEF Windows, TypeOK, Hist, Entries
<1> DEFINE a == hist.admitted[Sender]
           more == Append(a, e)
<1>3. /\ hist'.admitted[Sender] = more
      /\ \A u \in Users : u # Sender => hist'.admitted[u] = hist.admitted[u]
  <2> HIDE DEF e
  <2>1. QED
    BY <1>1 DEF TypeOK, Hist
<1>4. \A u \in Users, b \in Counted :
        /\ Held(u, b)' = 0
        /\ Held(u, b) = IF u = Sender /\ b = min THEN 1 ELSE 0
  BY <1>1 DEF Held
<1>5. e \in [Counted -> Times] /\ e[min] = pump.checkedAt /\ e[hour] = now /\ a \in Entries
  BY <1>1, <1>2
<1> DEFINE w == rate[Sender][hour]
           v == rate'[Sender][hour]
           x == rate[Sender][min]
<1>6. /\ v.count <= Allowance(hour, HopMultiplier(pump.hops))
      /\ v.start <= now /\ now < v.start + Width[hour]
      /\ \/ /\ w.count = 0 \/ now - w.start >= Width[hour]
            /\ v.start = now /\ v.count = 1
         \/ /\ w.count # 0
            /\ v.start = w.start /\ v.count = w.count + 1
  <2>1. w.start <= now
    BY <1>1, <1>2 DEF Fits
  <2>2. QED
    BY <1>1, <2>1, Counts
<1>7. /\ x.start <= e[min] /\ e[min] < x.start + Width[min] /\ e[min] <= now
      /\ x.count <= Allowance(min, HopMultiplier(pump.hops))
      /\ rate'[Sender][min] = x /\ x \in Window /\ Fits(min, x, a, 1, now)
  BY <1>1, <1>2, <1>4, <1>5 DEF Windows
<1>8. /\ w \in Window /\ v \in Window /\ Fits(hour, w, a, 0, now)
      /\ v.count <= Allowance(hour, 4)
  <2>1. w \in Window /\ v \in Window /\ Fits(hour, w, a, 0, now)
    BY <1>1, <1>2, <1>4
  <2>2. /\ Allowance(hour, HopMultiplier(pump.hops)) <= Allowance(hour, 4)
        /\ Allowance(hour, HopMultiplier(pump.hops)) \in Nat /\ Allowance(hour, 4) \in Nat
    BY <1>1, AllowanceGrows
  <2>3. v.count \in Nat
    BY <2>1 DEF Window
  <2> HIDE DEF w, v, a
  <2>4. QED
    BY <1>6, <2>1, <2>2, <2>3
<1> HIDE DEF e, a, w, v, x
<1>9. Fits(hour, v, a, 1, now)
  BY <1>1, <1>5, <1>6, <1>8, FitsConsume
<1>10. Fits(hour, v, more, 0, now) /\ Fits(min, x, more, 0, now) /\ more \in Entries
  BY <1>1, <1>5, <1>6, <1>7, <1>8, <1>9, FitsAppend, LetInAppend
<1>11. \A b \in Counted :
         /\ Fits(b, rate'[Sender][b], more, 0, now) /\ rate'[Sender][b].start <= e[b]
         /\ rate'[Sender][b].count <= Allowance(b, HopMultiplier(pump.hops))
  BY <1>1, <1>5, <1>6, <1>7, <1>10 DEF Counted, v
<1>12. \A u \in Users, b \in Counted :
         Fits(b, rate'[u][b], hist'.admitted[u], Held(u, b)', now')
  <2> SUFFICES ASSUME NEW u \in Users, NEW b \in Counted
               PROVE  Fits(b, rate'[u][b], hist'.admitted[u], 0, now)
    BY <1>1, <1>4
  <2>1. CASE u = Sender
    BY <1>3, <1>11, <2>1
  <2>2. CASE u # Sender
    <3>1. Held(u, b) = 0
      BY <1>4, <2>2
    <3>2. QED
      BY <1>2, <1>3, <2>2, <3>1
  <2>3. QED
    BY <2>1, <2>2
<1>13. BurstBounded'
  <2> SUFFICES ASSUME NEW u \in Users, NEW b \in Counted, NEW t \in Times
               PROVE  LetIn(hist'.admitted[u], b, t .. t + Width[b] - 1)
                        <= 2 * Allowance(b, 4)
    BY DEF BurstBounded
  <2>1. CASE u # Sender
    BY <1>3, <2>1 DEF Windows, BurstBounded
  <2>2. CASE u = Sender /\ e[b] \notin t .. t + Width[b] - 1
    <3>1. LetIn(a, b, t .. t + Width[b] - 1) <= 2 * Allowance(b, 4)
      BY <1>1 DEF Windows, BurstBounded, a
    <3>2. LetIn(more, b, t .. t + Width[b] - 1) = LetIn(a, b, t .. t + Width[b] - 1)
      <4> DEFINE T == t .. t + Width[b] - 1
      <4>1. e[b] \notin T
        BY <2>2
      <4> HIDE DEF T
      <4>2. LetIn(a, b, T) \in Nat /\ LetIn(more, b, T) = LetIn(a, b, T) + 0
        BY <1>5, <4>1, LetInAppend, LetInGrows
      <4>3. QED
        BY <4>2 DEF T
    <3>3. QED
      BY <1>3, <2>2, <3>1, <3>2
  <2>3. CASE u = Sender /\ e[b] \in t .. t + Width[b] - 1
    <3>1. /\ rate'[Sender][b] \in Window /\ rate'[Sender][b].start \in Nat
          /\ t \in Nat /\ Width[b] \in Nat
      BY <1>1, <1>2, WidthPositive DEF Window, Times
    <3>2. t + Width[b] - 1 >= rate'[Sender][b].start
      BY <1>11, <2>3, <3>1
    <3>3. QED
      BY <1>1, <1>3, <1>10, <1>11, <2>3, <3>1, <3>2, FitsBurst
  <2>4. QED
    BY <2>1, <2>2, <2>3
<1>14. \A b \in Counted :
         LetIn(hist'.admitted[Sender], b, rate'[Sender][b].start .. now)
           <= Allowance(b, HopMultiplier(pump.hops))
  <2> SUFFICES ASSUME NEW b \in Counted
               PROVE  LetIn(more, b, rate'[Sender][b].start .. now)
                        <= Allowance(b, HopMultiplier(pump.hops))
    BY <1>3
  <2> DEFINE z == rate'[Sender][b]
  <2>1. /\ z \in Window /\ z.start \in Nat /\ z.count \in Nat
        /\ z.count <= Allowance(b, HopMultiplier(pump.hops))
        /\ Allowance(b, HopMultiplier(pump.hops)) \in Nat
        /\ Fits(b, z, more, 0, now)
    BY <1>1, <1>2, <1>11, AllowanceGrows DEF Window
  <2> HIDE DEF z
  <2>2. /\ LetIn(more, b, z.start .. now) <= LetIn(more, b, z.start .. MaxTime)
        /\ LetIn(more, b, z.start .. now) \in Nat
        /\ LetIn(more, b, z.start .. MaxTime) \in Nat
    <3>1. \A i \in DOMAIN more :
            more[i][b] \in z.start .. now => more[i][b] \in z.start .. MaxTime
      <4>1. now <= MaxTime
        BY <1>1 DEF Times
      <4>2. \A t \in z.start .. now : t \in z.start .. MaxTime
        BY <1>1, <2>1, <4>1
      <4>3. QED
        BY <4>2
    <3>2. QED
      BY <1>10, <3>1, LetInGrows
  <2>3. LetIn(more, b, z.start .. MaxTime) <= z.count
    BY <2>1, <2>2 DEF Fits
  <2>4. QED
    BY <2>1, <2>2, <2>3 DEF z
<1>15. QED
  BY <1>1, <1>12, <1>13, <1>14 DEF Windows

\* Every step.
LEMMA WindowsStep ==
  ASSUME TypeOK, TypeOK', Attended, Windows, [Next]_vars
  PROVE  /\ Windows'
         /\ hist'.admitted # hist.admitted =>
              \A b \in Counted :
                LetIn(hist'.admitted[Sender], b, rate'[Sender][b].start .. now)
                  <= Allowance(b, HopMultiplier(pump.hops))
  BY WindowsStay, WindowsMinute, WindowsHour

\* The start: nothing was counted, nothing let in.
LEMMA WindowsInit == Init => Windows
<1> SUFFICES ASSUME Init PROVE Windows
  OBVIOUS
<1>1. /\ pump.pc = "idle" /\ now = 1
      /\ \A u \in Users : hist.admitted[u] = <<>>
      /\ \A u \in Users, b \in Counted : rate[u][b].start = 0 /\ rate[u][b].count = 0
  BY DEF Init, NoMessage, Counted, Buckets
<1>2. <<>> \in Entries /\ DOMAIN <<>> = {}
  BY DEF Entries
<1>3. \A T : \A b \in Counted : LetIn(<<>>, b, T) = 0
  <2> SUFFICES ASSUME NEW T, NEW b \in Counted PROVE LetIn(<<>>, b, T) = 0
    OBVIOUS
  <2>1. {i \in DOMAIN <<>> : <<>>[i][b] \in T} = {}
    BY <1>2
  <2>2. QED
    BY <2>1, FS_EmptySet DEF LetIn
<1>4. \A b \in Counted : Allowance(b, 4) \in Nat
  BY AllowanceGrows
<1>5. ASSUME NEW u \in Users, NEW b \in Counted
      PROVE  Fits(b, rate[u][b], hist.admitted[u], Held(u, b), now)
  <2>1. /\ Held(u, b) = 0 /\ hist.admitted[u] = <<>> /\ now = 1
        /\ rate[u][b].start = 0 /\ rate[u][b].count = 0 /\ Allowance(b, 4) \in Nat
    BY <1>1, <1>4 DEF Held
  <2>2. QED
    BY <1>2, <1>3, <2>1 DEF Fits
<1>6. BurstBounded
  <2> SUFFICES ASSUME NEW u \in Users, NEW b \in Counted, NEW t \in Times
               PROVE  LetIn(hist.admitted[u], b, t .. t + Width[b] - 1)
                        <= 2 * Allowance(b, 4)
    BY DEF BurstBounded
  <2>1. LetIn(hist.admitted[u], b, t .. t + Width[b] - 1) = 0
    BY <1>1, <1>3
  <2>2. QED
    BY <1>4, <2>1
<1>7. QED
  BY <1>1, <1>5, <1>6 DEF Windows

\* In any stretch of a window's length a user gets in at most twice the largest
\* allowance: the windows are fixed, so two of them may meet in it, but no third.
THEOREM BurstsAreBounded == Spec => []BurstBounded
<1>1. TypeOK /\ Attended /\ Windows /\ [Next]_vars => Windows'
  BY TypeStep, WindowsStep
<1>2. Windows => BurstBounded
  BY DEF Windows
<1>3. QED
  BY <1>1, <1>2, TypeInit, TypeStep, WindowsInit, PTL DEF Spec

\* A message is let in only if it and those let in before it fit the limit for its
\* distance in the windows of both buckets, whatever happens between their decisions.
THEOREM LimitIsKept == Spec => AdmittedWithinLimit
<1> DEFINE Fitting ==
      hist'.admitted # hist.admitted =>
        \A b \in Counted :
          LetIn(hist'.admitted[Sender], b, rate'[Sender][b].start .. now)
            <= Allowance(b, HopMultiplier(pump.hops))
<1>1. TypeOK /\ Attended /\ Windows /\ [Next]_vars => Windows' /\ [Fitting]_vars
  BY TypeStep, WindowsStep
<1> HIDE DEF Fitting
<1>2. Spec => [][Fitting]_vars
  BY <1>1, TypeInit, TypeStep, WindowsInit, PTL DEF Spec
<1>3. QED
  BY <1>2 DEF Fitting, AdmittedWithinLimit
=============================================================================
