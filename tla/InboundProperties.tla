------------------------- MODULE InboundProperties -------------------------
(***************************************************************************)
(* What the gate of the inbound path guarantees, whatever is sent in what  *)
(* order, and through reloads, raising statements and restarts.            *)
(***************************************************************************)
EXTENDS Inbound, FiniteSets

Message ==
  [pc : PumpPC, from : Users \cup {None}, hops : Hops \cup {0}, cmd : Command \cup {None},
   named : BOOLEAN, todo : SUBSET Users, text : Texts \cup {None}, guarded : BOOLEAN,
   checkedAt : Times, replies : Nat, raised : BOOLEAN, silent : BOOLEAN]

\* Types.
TypeOK ==
  /\ now \in Times
  /\ known \subseteq Users /\ banned \subseteq known
  /\ name \in [Users -> Names \cup {NoName}]
  /\ rate \in [Users -> [Buckets -> Window]]
  /\ {file, cfgAdmins, svcAdmins} \subseteq AdminLists
  /\ pending \subseteq Staged
  /\ pump \in Message
  /\ faults \in Nat
  /\ hist \in Hist

\* How many of the messages bucket b let in at the times of T.
LetIn(admitted, b, T) == Cardinality({i \in DOMAIN admitted : admitted[i][b] \in T})

\* What a bucket allows at a multiplier: its first message is always let in.
Allowance(b, mul) == IF BaseLimit[b] * mul > 1 THEN BaseLimit[b] * mul ELSE 1

\* A message that is counted is let in only if, in the window running in either
\* bucket, it and those let in before it, from whatever distance, fit the limit
\* for its own distance; a refusal by the second bucket, which the first has
\* already counted, never helps anybody in.
AdmittedWithinLimit ==
  [][hist'.admitted # hist.admitted =>
       \A b \in Counted :
         LetIn(hist'.admitted[Sender], b, rate'[Sender][b].start .. now)
           <= Allowance(b, HopMultiplier(pump.hops))]_vars

\* Windows are fixed, not sliding: in any stretch of a window's length a user gets
\* in twice the largest allowance at most.
BurstBounded ==
  \A u \in Users, b \in Counted, t \in Times :
    LetIn(hist.admitted[u], b, t .. t + Width[b] - 1)
      <= 2 * Allowance(b, 4)

\* "At most one per minute to avoid feedback loops": a full minute lies between two
\* "Rate limited" notices of the gate to a user, across restarts (_reply_throttled; the
\* limits of POST and SEND answer each refusal).
NoticesSpaced ==
  [][\A u \in Users : hist'.noticeAt[u] # hist.noticeAt[u]
        => hist'.noticeAt[u] >= hist.noticeAt[u] + Minute]_vars

\* A command is carried out only for somebody who has a name and is not banned while
\* it is carried out, not only when its message was received.
OnlyMembersCommand ==
  pump.pc \in {"command", "recipients"} =>
    Sender \in known \ banned /\ name[Sender] # NoName

\* However the admins ban each other, one of them is always left to unban: a ban is
\* made by an unbanned admin and never of itself.
AdminsStayInCharge ==
  [][svcAdmins' = svcAdmins /\ svcAdmins \ banned # {}
       => svcAdmins \ banned' # {}]_vars

\* What goes out to everybody is the text the confirming admin staged last, staged
\* within the confirmation time and not confirmed before, whoever else stages or
\* confirms in between.
BroadcastAsStaged ==
  [][pump.pc = "command" /\ pump'.pc = "recipients" =>
       \E s \in hist.staged :
         s.by = Sender /\ s.text = pump'.text /\ now <= s.at + ConfirmWithin]_vars

\* Every message is answered once: not at all if the sender is banned or was told
\* less than a minute ago that it is limited, and a second time only if something
\* raised after the answer.
AnsweredOnce ==
  pump.pc = "done" =>
    IF pump.silent THEN pump.replies = 0
    ELSE pump.replies = 1 \/ (pump.raised /\ pump.replies = 2)

\* OPERATIONS.md:56: to make somebody an admin, edit the file and send SIGHUP.
ReloadMakesAdmins ==
  pump.pc = "command" /\ Sender \in cfgAdmins => Sender \in svcAdmins
=============================================================================
