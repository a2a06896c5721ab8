----------------------------- MODULE LinkProofs -----------------------------
(***************************************************************************)
(* Proofs about the link to the companion, for any number of senders,      *)
(* messages, events and ends of the process: no message is lost track of   *)
(* or handled twice, and the order of those that need no wait is kept.     *)
(***************************************************************************)
EXTENDS LinkProperties, SequenceTheorems, FiniteSetTheorems, TLAPS

USE BoundAssumption

-----------------------------------------------------------------------------
(* Queues                                                                  *)

\* No message is twice in a queue, whatever else is.
NoTwice(s) == \A i, j \in DOMAIN s : s[i] \in Message /\ s[i] = s[j] => i = j

\* In a queue m is before k, where both are in it.
Before(s, m, k) == \A i, j \in DOMAIN s : s[i] = m /\ s[j] = k => i < j

\* Putting something at the end.
LEMMA AtEnd ==
  ASSUME NEW S, NEW s \in Seq(S), NEW e \in S
  PROVE  /\ Append(s, e) \in Seq(S)
         /\ ToSet(Append(s, e)) = ToSet(s) \cup {e}
         /\ NoTwice(s) /\ (e \in Message => e \notin ToSet(s)) => NoTwice(Append(s, e))
         /\ \A m, k : /\ Before(s, m, k) /\ m # k
                      /\ m = e => k \notin ToSet(s)
                      => Before(Append(s, e), m, k)
<1> DEFINE n == Len(s)
           t == Append(s, e)
<1>1. /\ n \in Nat /\ DOMAIN s = 1 .. n /\ t \in Seq(S) /\ DOMAIN t = 1 .. n + 1
      /\ \A i \in 1 .. n : t[i] = s[i]
      /\ t[n + 1] = e
  BY AppendProperties, LenProperties
<1> HIDE DEF n, t
<1>2. ToSet(t) = ToSet(s) \cup {e}
  <2>1. ASSUME NEW x \in ToSet(t) PROVE x \in ToSet(s) \cup {e}
    BY <1>1, <2>1 DEF ToSet
  <2>2. e \in ToSet(t)
    BY <1>1 DEF ToSet
  <2>3. ASSUME NEW x \in ToSet(s) PROVE x \in ToSet(t)
    BY <1>1, <2>3 DEF ToSet
  <2>4. QED
    BY <2>1, <2>2, <2>3
<1>3. \A i \in 1 .. n : s[i] \in ToSet(s)
  BY <1>1 DEF ToSet
<1>4. ASSUME NoTwice(s), e \in Message => e \notin ToSet(s) PROVE NoTwice(t)
  <2> SUFFICES ASSUME NEW i \in 1 .. n + 1, NEW j \in 1 .. n + 1,
                      t[i] \in Message, t[i] = t[j]
               PROVE  i = j
    BY <1>1 DEF NoTwice
  <2>1. CASE i \in 1 .. n /\ j \in 1 .. n
    BY <1>1, <1>4, <2>1 DEF NoTwice
  <2>2. CASE i = n + 1 /\ j \in 1 .. n
    BY <1>1, <1>3, <1>4, <2>2
  <2>3. CASE j = n + 1 /\ i \in 1 .. n
    BY <1>1, <1>3, <1>4, <2>3
  <2>4. QED
    BY <1>1, <2>1, <2>2, <2>3
<1>5. ASSUME NEW m, NEW k, Before(s, m, k), m # k, m = e => k \notin ToSet(s)
      PROVE  Before(t, m, k)
  <2> SUFFICES ASSUME NEW i \in 1 .. n + 1, NEW j \in 1 .. n + 1, t[i] = m, t[j] = k
               PROVE  i < j
    BY <1>1 DEF Before
  <2>1. CASE i \in 1 .. n /\ j \in 1 .. n
    BY <1>1, <1>5, <2>1 DEF Before
  <2>2. CASE i = n + 1 /\ j \in 1 .. n
    BY <1>1, <1>3, <1>5, <2>2
  <2>3. CASE j = n + 1 /\ i \in 1 .. n
    BY <1>1, <2>3
  <2>4. CASE i = n + 1 /\ j = n + 1
    BY <1>5, <2>4
  <2>5. QED
    BY <1>1, <2>1, <2>2, <2>3, <2>4
<1>6. QED
  BY <1>1, <1>2, <1>4, <1>5 DEF t

\* Taking what is in front.
LEMMA InFront ==
  ASSUME NEW S, NEW s \in Seq(S), s # <<>>, NoTwice(s)
  PROVE  /\ Head(s) \in S /\ Head(s) \in ToSet(s)
         /\ Tail(s) \in Seq(S) /\ NoTwice(Tail(s))
         /\ ToSet(Tail(s)) \subseteq ToSet(s)
         /\ ToSet(s) = ToSet(Tail(s)) \cup {Head(s)}
         /\ Head(s) \in Message => Head(s) \notin ToSet(Tail(s))
         /\ \A m, k : Before(s, m, k)
              => Before(Tail(s), m, k) /\ (m \in ToSet(s) => k # Head(s))
<1> DEFINE n == Len(s)
           t == Tail(s)
<1>1. /\ n \in Nat \ {0} /\ DOMAIN s = 1 .. n /\ t \in Seq(S) /\ DOMAIN t = 1 .. n - 1
      /\ \A i \in 1 .. n - 1 : t[i] = s[i + 1]
      /\ Head(s) = s[1] /\ Head(s) \in S
  <2>1. n \in Nat /\ DOMAIN s = 1 .. n /\ n # 0
    BY LenProperties, EmptySeq
  <2>2. /\ t \in Seq(S) /\ Len(t) = n - 1 /\ Head(s) \in S
        /\ \A i \in 1 .. Len(t) : t[i] = s[i + 1]
    BY HeadTailProperties
  <2>3. DOMAIN t = 1 .. n - 1
    BY <2>2, LenProperties
  <2>4. Head(s) = s[1]
    OBVIOUS
  <2>5. QED
    BY <2>1, <2>2, <2>3, <2>4
<1> HIDE DEF n, t
<1>2. \A i \in 1 .. n :
        s[i] \in ToSet(s) /\ (i # 1 => i - 1 \in 1 .. n - 1 /\ t[i - 1] = s[i])
  BY <1>1 DEF ToSet
<1>3. \A i \in 1 .. n - 1 : i + 1 \in 1 .. n /\ t[i] = s[i + 1] /\ t[i] \in ToSet(t)
  BY <1>1 DEF ToSet
<1>4. ToSet(t) \subseteq ToSet(s)
  BY <1>1, <1>2, <1>3 DEF ToSet
<1>5. ToSet(s) = ToSet(t) \cup {Head(s)}
  <2>1. ASSUME NEW x \in ToSet(s) PROVE x \in ToSet(t) \cup {Head(s)}
    <3>1. PICK i \in 1 .. n : x = s[i]
      BY <1>1 DEF ToSet
    <3>2. QED
      BY <1>1, <1>2, <1>3, <3>1
  <2>2. 1 \in 1 .. n
    BY <1>1
  <2>3. QED
    BY <1>1, <1>2, <1>4, <2>1, <2>2
<1>6. NoTwice(t)
  <2> SUFFICES ASSUME NEW i \in 1 .. n - 1, NEW j \in 1 .. n - 1,
                      t[i] \in Message, t[i] = t[j]
               PROVE  i = j
    BY <1>1 DEF NoTwice
  <2>1. /\ i + 1 \in DOMAIN s /\ j + 1 \in DOMAIN s
        /\ s[i + 1] \in Message /\ s[i + 1] = s[j + 1]
    BY <1>1, <1>3
  <2>2. i + 1 = j + 1
    BY <2>1 DEF NoTwice
  <2>3. QED
    BY <1>1, <2>2
<1>7. Head(s) \in Message => Head(s) \notin ToSet(t)
  <2> SUFFICES ASSUME Head(s) \in Message, Head(s) \in ToSet(t) PROVE FALSE
    OBVIOUS
  <2>1. PICK i \in 1 .. n - 1 : Head(s) = t[i]
    BY <1>1 DEF ToSet
  <2>2. 1 \in DOMAIN s /\ i + 1 \in DOMAIN s /\ s[1] \in Message /\ s[1] = s[i + 1]
    BY <1>1, <1>3, <2>1
  <2>3. 1 = i + 1
    BY <2>2 DEF NoTwice
  <2>4. QED
    BY <2>3
<1>8. ASSUME NEW m, NEW k, Before(s, m, k)
      PROVE  Before(t, m, k) /\ (m \in ToSet(s) => k # Head(s))
  <2>1. Before(t, m, k)
    <3> SUFFICES ASSUME NEW i \in 1 .. n - 1, NEW j \in 1 .. n - 1, t[i] = m, t[j] = k
                 PROVE  i < j
      BY <1>1 DEF Before
    <3>1. i + 1 \in DOMAIN s /\ j + 1 \in DOMAIN s /\ s[i + 1] = m /\ s[j + 1] = k
      BY <1>1, <1>3
    <3>2. i + 1 < j + 1
      BY <1>8, <3>1 DEF Before
    <3>3. QED
      BY <1>1, <3>2
  <2>2. ASSUME m \in ToSet(s), k = Head(s) PROVE FALSE
    <3>1. PICK i \in 1 .. n : s[i] = m
      BY <1>1, <2>2 DEF ToSet
    <3>2. QED
      BY <1>1, <1>8, <2>2, <3>1 DEF Before
  <2>3. QED
    BY <2>1, <2>2
<1>9. QED
  BY <1>1, <1>2, <1>4, <1>5, <1>6, <1>7, <1>8 DEF t

\* Notices are no messages.
LEMMA NoticesAreOthers == \A kind : NoticeOf(kind) \notin Message
<1> SUFFICES ASSUME NEW kind, NoticeOf(kind) \in Message PROVE FALSE
  OBVIOUS
<1>1. DOMAIN NoticeOf(kind) = {"kind"}
  BY DEF NoticeOf
<1>2. DOMAIN NoticeOf(kind) = {"from", "no"}
  BY DEF Message
<1>3. QED
  BY <1>1, <1>2

-----------------------------------------------------------------------------
(* Types                                                                   *)

\* Messages and notices are what the queue holds.
LEMMA EventTypes ==
  /\ Message \subseteq Event
  /\ \A kind \in {"connected", "disconnected", "activity"} : NoticeOf(kind) \in Event
  BY DEF Event, Notice, NoticeOf

\* Being told of something appends a notice or nothing.
LEMMA ToldType ==
  ASSUME TypeOK, NEW kind \in {"connected", "disconnected", "activity"}, Told(kind)
  PROVE  events' \in Seq(Event)
  BY EventTypes, AppendProperties DEF TypeOK, Told

\* Each step keeps the types.
LEMMA TypeStep == TypeOK /\ [Next]_vars => TypeOK'
<1> SUFFICES ASSUME TypeOK, [Next]_vars PROVE TypeOK'
  OBVIOUS
<1> USE DEF TypeOK
<1>1. /\ hist \in Hist /\ <<>> \in Seq(Message) /\ <<>> \in Seq(Event)
      /\ Len(<<>>) = 0
  OBVIOUS
<1>2. CASE UNCHANGED vars \/ PollSkips
  BY <1>2 DEF vars, radio, tasks, health, PollSkips
<1>3. CASE Connect \/ Start
  BY <1>3 DEF Connect, Start, Fetching, tasks, health
<1>4. CASE LinkDrops \/ LibraryReconnects
  BY <1>4, ToldType DEF LinkDrops, LibraryReconnects, Fetching, tasks, health
<1>5. ASSUME NEW s \in Senders, Overhear(s)
      PROVE  TypeOK'
  BY <1>5, ToldType DEF Overhear, tasks, health
<1>6. ASSUME NEW s \in Senders, Receive(s)
      PROVE  TypeOK'
  <2>1. [from |-> s, no |-> hist.came + 1] \in Message /\ hist.came + 1 \in 0 .. MaxMessages
    BY <1>6 DEF Receive, Message, Hist
  <2>2. inbox' \in Seq(Message)
    BY <1>6, <2>1, AppendProperties DEF Receive
  <2>3. hist' \in Hist
    BY <1>6, <2>1 DEF Receive, Hist
  <2>4. QED
    BY <1>6, <2>2, <2>3 DEF Receive, tasks, health
<1>7. CASE Prune
  <2>1. PICK gone \in SUBSET book \ {{}} :
          /\ PruneContacts(gone)
          /\ hist' = [hist EXCEPT !.known = {m \in @ : m.from \notin gone}]
    BY <1>7 DEF Prune
  <2>2. hist' \in Hist
    BY <2>1 DEF Hist
  <2>3. QED
    BY <1>7, <2>1, <2>2 DEF Prune, PruneContacts, tasks, health
<1>8. CASE Push \/ Poll
  <2> Fetched
    BY <1>8 DEF Push, Poll
  <2>1. Head(inbox) \in Message /\ inbox' \in Seq(Message)
    BY HeadTailProperties DEF Fetched
  <2>2. ready' \in Seq(Message)
    <3>1. Append(ready, Head(inbox)) \in Seq(Message)
      BY <2>1, AppendProperties
    <3>2. QED
      BY <3>1 DEF Fetched
  <2>3. PICK known \in SUBSET Message : hist' = [hist EXCEPT !.known = known]
    BY <2>1 DEF Fetched, Hist
  <2>4. hist' \in Hist
    BY <2>3 DEF Hist
  <2>5. QED
    BY <1>8, <2>1, <2>2, <2>4 DEF Push, Poll, health
<1>9. CASE RunHandler
  <2>1. Head(ready) \in Message /\ ready' \in Seq(Message) /\ Head(ready) \in Event
    BY <1>9, HeadTailProperties, EventTypes DEF RunHandler
  <2>2. events' \in Seq(Event)
    <3>1. Append(events, Head(ready)) \in Seq(Event)
      BY <2>1, AppendProperties
    <3>2. QED
      BY <1>9, <3>1 DEF RunHandler
  <2>3. waiting' \subseteq Message
    BY <1>9, <2>1 DEF RunHandler
  <2>4. hist' \in Hist
    <3>1. hist' = hist \/ hist' = [hist EXCEPT !.dropped = @ \cup {Head(ready)}]
      BY <1>9 DEF RunHandler
    <3>2. CASE hist' = hist
      BY <3>2
    <3>3. CASE hist' = [hist EXCEPT !.dropped = @ \cup {Head(ready)}]
      BY <2>1, <3>3 DEF Hist
    <3>4. QED
      BY <3>1, <3>2, <3>3
  <2>5. QED
    BY <1>9, <2>1, <2>2, <2>3, <2>4 DEF RunHandler, radio, health
<1>10. ASSUME NEW m \in waiting, Resume(m)
       PROVE  TypeOK'
  <2>1. m \in Message /\ m \in Event
    BY EventTypes
  <2>2. events' \in Seq(Event)
    <3>1. Append(events, m) \in Seq(Event)
      BY <2>1, AppendProperties
    <3>2. QED
      BY <1>10, <3>1 DEF Resume
  <2>3. hist' \in Hist
    <3>1. hist' = hist \/ hist' = [hist EXCEPT !.dropped = @ \cup {m}]
      BY <1>10 DEF Resume
    <3>2. QED
      BY <2>1, <3>1 DEF Hist
  <2>4. QED
    BY <1>10, <2>2, <2>3 DEF Resume, radio, health
<1>11. CASE ContactsArrive
  BY <1>11 DEF ContactsArrive, tasks, health
<1>12. CASE SupervisorWakes \/ ConnectFails
  BY <1>12 DEF SupervisorWakes, ConnectFails, radio, health
<1>13. CASE ConnectReturns
  BY <1>13, ToldType DEF ConnectReturns, health
<1>14. CASE Reconnected
  BY <1>14, EventTypes, AppendProperties DEF Reconnected, Fetching, health
<1>15. CASE PumpTakes
  <2>1. events' \in Seq(Event)
    BY <1>15, HeadTailProperties DEF PumpTakes
  <2>2. pump' \in Seq(Message) /\ Len(pump') <= 1
    BY <1>1, <1>15 DEF PumpTakes
  <2>3. connected' \in BOOLEAN
    BY <1>15 DEF PumpTakes, AfterEvent
  <2>4. QED
    BY <1>15, <2>1, <2>2, <2>3 DEF PumpTakes, radio
<1>16. CASE PumpDone
  <2>1. hist.handled \o pump \in Seq(Message)
    BY ConcatProperties DEF Hist
  <2>2. hist' \in Hist
    BY <1>16, <2>1 DEF PumpDone, Hist
  <2>3. QED
    BY <1>1, <1>16, <2>2 DEF PumpDone, radio, health
<1>17. CASE GoQuiet \/ Unplug
  BY <1>17 DEF GoQuiet, Unplug, radio, tasks, health
<1>18. CASE Stop
  <2>1. ToSet(ready) \cup waiting \cup ToSet(pump) \cup (ToSet(events) \cap Message)
          \subseteq Message
    BY DEF ToSet
  <2>2. hist' \in Hist
    BY <1>18, <2>1 DEF Stop, Hist
  <2>3. faults' \in 0 .. MaxFaults
    BY <1>18 DEF Stop
  <2>4. /\ proc' = "off" /\ link' = FALSE /\ contacts' = {} /\ ready' = <<>>
        /\ waiting' = {} /\ pump' = <<>> /\ sup' = "sleep" /\ poller' = FALSE
        /\ events' = <<>> /\ connected' = FALSE /\ recent' = FALSE
        /\ UNCHANGED <<reachable, book, inbox>>
    BY <1>18 DEF Stop
  <2>5. /\ inbox' \in Seq(Message) /\ ready' \in Seq(Message) /\ events' \in Seq(Event)
        /\ pump' \in Seq(Message) /\ Len(pump') <= 1
    BY <1>1, <2>4
  <2>6. /\ link' \in BOOLEAN /\ connected' \in BOOLEAN /\ recent' \in BOOLEAN
        /\ poller' \in BOOLEAN /\ reachable' \in BOOLEAN
    BY <2>4
  <2>7. QED
    BY <2>2, <2>3, <2>4, <2>5, <2>6
<1>19. QED
  BY <1>2, <1>3, <1>4, <1>5, <1>6, <1>7, <1>8, <1>9, <1>10, <1>11, <1>12, <1>13, <1>14,
     <1>15, <1>16, <1>17, <1>18 DEF Next, SupervisorStep

\* They hold at the start.
LEMMA TypeInit == Init => TypeOK
<1> SUFFICES ASSUME Init PROVE TypeOK
  OBVIOUS
<1>1. <<>> \in Seq(Message) /\ <<>> \in Seq(Event) /\ Len(<<>>) = 0
  OBVIOUS
<1>2. 0 \in 0 .. MaxMessages /\ 0 \in 0 .. MaxFaults
  OBVIOUS
<1>3. hist \in Hist
  BY <1>1, <1>2 DEF Init, Hist
<1>4. /\ inbox \in Seq(Message) /\ ready \in Seq(Message) /\ events \in Seq(Event)
      /\ pump \in Seq(Message) /\ Len(pump) <= 1
  BY <1>1 DEF Init
<1>5. /\ link \in BOOLEAN /\ connected \in BOOLEAN /\ recent \in BOOLEAN
      /\ poller \in BOOLEAN /\ reachable \in BOOLEAN
  BY DEF Init
<1>6. QED
  BY <1>2, <1>3, <1>4, <1>5 DEF Init, TypeOK

\* Along every behaviour the queues, tasks and flags of the link stay well typed.
THEOREM TypeCorrect == Spec => []TypeOK
  BY TypeInit, TypeStep, PTL DEF Spec

-----------------------------------------------------------------------------
(* Places                                                                  *)

\* The places by their numbers in Places.
InInbox == 1
InReady == 2
InWaiting == 3
InEvents == 4
InPump == 5
IsHandled == 6
IsDropped == 7
IsLost == 8
Place == {InInbox, InReady, InWaiting, InEvents, InPump, IsHandled, IsDropped, IsLost}

\* What is where.
PlacesHold ==
  /\ DOMAIN Places = Place
  /\ Places[InInbox] = ToSet(inbox) /\ Places[InReady] = ToSet(ready)
  /\ Places[InWaiting] = waiting /\ Places[InEvents] = ToSet(events) \cap Message
  /\ Places[InPump] = ToSet(pump) /\ Places[IsHandled] = ToSet(hist.handled)
  /\ Places[IsDropped] = hist.dropped /\ Places[IsLost] = hist.lost
  /\ ToSet(inbox) \subseteq Message /\ ToSet(ready) \subseteq Message
  /\ ToSet(pump) \subseteq Message /\ ToSet(hist.handled) \subseteq Message
  /\ waiting \subseteq Message /\ hist.dropped \subseteq Message
  /\ hist.lost \subseteq Message

\* Where each place stands among the eight.
LEMMA EightPlaces ==
  ASSUME NEW a, NEW b, NEW c, NEW d, NEW e, NEW f, NEW g, NEW h
  PROVE  LET P == <<a, b, c, d, e, f, g, h>>
         IN  /\ DOMAIN P = Place
             /\ P[InInbox] = a /\ P[InReady] = b /\ P[InWaiting] = c /\ P[InEvents] = d
             /\ P[InPump] = e /\ P[IsHandled] = f /\ P[IsDropped] = g /\ P[IsLost] = h
  BY DEF InInbox, InReady, InWaiting, InEvents, InPump, IsHandled, IsDropped, IsLost, Place

\* In each place are messages.
LEMMA PlacesAre == TypeOK => PlacesHold
<1> SUFFICES ASSUME TypeOK PROVE PlacesHold
  OBVIOUS
<1>1. /\ ToSet(inbox) \subseteq Message /\ ToSet(ready) \subseteq Message
      /\ ToSet(pump) \subseteq Message /\ ToSet(hist.handled) \subseteq Message
      /\ waiting \subseteq Message /\ hist.dropped \subseteq Message
      /\ hist.lost \subseteq Message
  BY DEF TypeOK, Hist, ToSet
<1>2. QED
  BY <1>1, EightPlaces DEF PlacesHold, Places

\* The same after a step.
LEMMA PlacesAreNext == TypeOK' => PlacesHold'
<1> SUFFICES ASSUME TypeOK' PROVE PlacesHold'
  OBVIOUS
<1>1. /\ ToSet(inbox') \subseteq Message /\ ToSet(ready') \subseteq Message
      /\ ToSet(pump') \subseteq Message /\ ToSet(hist'.handled) \subseteq Message
      /\ waiting' \subseteq Message /\ hist'.dropped \subseteq Message
      /\ hist'.lost \subseteq Message
  BY DEF TypeOK, Hist, ToSet
<1>2. QED
  BY <1>1, EightPlaces DEF PlacesHold, Places

\* P says where messages are: the number of each has come, no two are alike or in two
\* places, and none is missing.
OneEach(P, came) ==
  /\ \A p \in Place : \A m \in P[p] : m.no <= came
  /\ \A p, q \in Place : \A m \in P[p], k \in P[q] : m.no = k.no => p = q /\ m = k
  /\ \A n \in 1 .. came : \E p \in Place : \E m \in P[p] : m.no = n

\* One message goes from a place to another.
LEMMA MoveOne ==
  ASSUME NEW P, NEW Q, NEW came, OneEach(P, came),
         NEW a \in Place, NEW b \in Place, a # b, NEW m \in P[a],
         Q[a] = P[a] \ {m}, Q[b] = P[b] \cup {m},
         \A p \in Place \ {a, b} : Q[p] = P[p]
  PROVE  OneEach(Q, came)
<1>1. \A p \in Place : \A k \in Q[p] : IF k = m THEN p = b ELSE k \in P[p]
  <2>1. m \notin Q[a] /\ \A p \in Place \ {a, b} : m \notin P[p]
    BY DEF OneEach
  <2>2. QED
    BY <2>1
<1>2. \A p \in Place : \A k \in P[p] : \E q \in Place : k \in Q[q]
  OBVIOUS
<1>3. \A p \in Place : \A k \in Q[p] : \E q \in Place : k \in P[q]
  OBVIOUS
<1>4. \A p, q \in Place : \A k \in Q[p], l \in Q[q] : k.no = l.no => p = q /\ k = l
  BY <1>1, <1>3 DEF OneEach
<1>5. QED
  BY <1>2, <1>3, <1>4 DEF OneEach

\* Several places are emptied into another.
LEMMA MoveAll ==
  ASSUME NEW P, NEW Q, NEW came, OneEach(P, came), NEW A \in SUBSET Place,
         NEW b \in Place \ A, \A p \in A : Q[p] = {},
         \A k : k \in Q[b] <=> k \in P[b] \/ \E p \in A : k \in P[p],
         \A p \in Place \ (A \cup {b}) : Q[p] = P[p]
  PROVE  OneEach(Q, came)
<1>1. \A p \in Place : \A k \in P[p] : \E q \in Place : k \in Q[q]
  OBVIOUS
<1>2. \A p \in Place : \A k \in Q[p] : \E q \in Place : k \in P[q] /\ (p = b \/ q = p)
  OBVIOUS
<1>3. ASSUME NEW p \in Place, NEW q \in Place, NEW k \in Q[p], NEW l \in Q[q], k.no = l.no
      PROVE  p = q /\ k = l
  <2>1. PICK x \in Place, y \in Place : /\ k \in P[x] /\ (p # b => x = p)
                                    /\ l \in P[y] /\ (q # b => y = q)
    BY <1>2, <1>3
  <2>2. k = l /\ x = y
    BY <1>3, <2>1 DEF OneEach
  <2>3. \A z \in Place : z # b /\ k \in Q[z] => k \in P[z] /\ z \notin A
    OBVIOUS
  <2>4. p # b /\ q = b => FALSE
    BY <1>3, <2>2, <2>3 DEF OneEach
  <2>5. q # b /\ p = b => FALSE
    BY <1>3, <2>2, <2>3 DEF OneEach
  <2>6. QED
    BY <2>1, <2>2, <2>4, <2>5
<1>4. QED
  BY <1>1, <1>2, <1>3 DEF OneEach

\* Every message that came is in one place and once in it, and the companion hands
\* them over in the order they came.
Kept ==
  /\ OneEach(Places, hist.came)
  /\ NoTwice(inbox) /\ NoTwice(ready) /\ NoTwice(events) /\ NoTwice(hist.handled)
  /\ \A m, k \in Message : m.no < k.no => Before(inbox, m, k)
  /\ \A p \in Place \ {InInbox} : \A k \in Places[p], m \in Places[InInbox] : k.no < m.no

\* How far m is ahead of k: k is behind it in the queue that m is in, or has not come
\* so far; nor does k wait for the contacts, to overtake m from there, before m has
\* got past that.
Ahead(m, k) ==
  /\ m \in ToSet(ready) =>
       k \notin waiting \cup ToSet(events) \cup ToSet(pump) \cup ToSet(hist.handled)
  /\ m \in ToSet(events) => k \notin ToSet(pump) \cup ToSet(hist.handled)
  /\ m \in ToSet(pump) => k \notin ToSet(hist.handled)
  /\ Before(ready, m, k) /\ Before(events, m, k) /\ Before(hist.handled, m, k)

\* A message that was fetched when its sender was in both contact lists resolves at
\* once, and stays ahead of all that came after it, whoever sent them.
KnownAhead ==
  \A m \in hist.known :
    /\ m \in ToSet(ready) \cup ToSet(events) \cup ToSet(pump) \cup ToSet(hist.handled)
             \cup hist.lost
    /\ m \in ToSet(ready) => m.from \in contacts \cap book
    /\ \A k \in Message : m.no < k.no => Ahead(m, k)

\* A message in one place is in no other.
LEMMA OnePlace ==
  ASSUME TypeOK, OneEach(Places, hist.came), NEW m \in Message
  PROVE  /\ m \in ToSet(inbox) => m \notin ToSet(ready) \cup waiting \cup ToSet(events)
              \cup ToSet(pump) \cup ToSet(hist.handled) \cup hist.dropped \cup hist.lost
         /\ m \in ToSet(ready) => m \notin waiting \cup ToSet(events) \cup ToSet(pump)
              \cup ToSet(hist.handled) \cup hist.dropped \cup hist.lost
         /\ m \in waiting => m \notin ToSet(events) \cup ToSet(pump)
              \cup ToSet(hist.handled) \cup hist.dropped \cup hist.lost
         /\ m \in ToSet(events) => m \notin ToSet(pump) \cup ToSet(hist.handled)
              \cup hist.dropped \cup hist.lost
         /\ m \in ToSet(pump) => m \notin ToSet(hist.handled)
              \cup hist.dropped \cup hist.lost
<1>1. \A p, q \in Place : m \in Places[p] /\ m \in Places[q] => p = q
  BY DEF OneEach
<1>2. QED
  BY <1>1, PlacesAre
  DEF PlacesHold, Place, InInbox, InReady, InWaiting, InEvents, InPump, IsHandled, IsDropped,
      IsLost

\* Messages are known by Hist's type.
LEMMA KnownTypes ==
  ASSUME TypeOK
  PROVE  /\ hist.known \subseteq Message /\ hist.came \in Nat
         /\ inbox \in Seq(Message) /\ ready \in Seq(Message) /\ events \in Seq(Event)
         /\ hist.handled \in Seq(Message) /\ waiting \subseteq Message
         /\ \A m \in Message : m.no \in Nat
  BY DEF TypeOK, Hist, Message

\* The companion hands over the first message it holds.
LEMMA FetchedStep ==
  ASSUME TypeOK, TypeOK', Kept, KnownAhead, Fetched,
         UNCHANGED <<contacts, book, waiting, pump, events>>
  PROVE  Kept' /\ KnownAhead'
<1> DEFINE h == Head(inbox)
<1>1. /\ h \in Message /\ h \in ToSet(inbox) /\ ToSet(inbox) = ToSet(inbox') \cup {h}
      /\ h \notin ToSet(inbox') /\ NoTwice(inbox')
      /\ \A m, k : Before(inbox, m, k)
           => Before(inbox', m, k) /\ (m \in ToSet(inbox) => k # h)
  BY InFront, KnownTypes DEF Fetched, Kept
<1>2. h \notin ToSet(ready) \cup waiting \cup ToSet(events) \cup ToSet(pump)
                \cup ToSet(hist.handled) \cup hist.dropped \cup hist.lost
  BY <1>1, OnePlace DEF Kept
<1>3. /\ ready' = Append(ready, h) /\ ToSet(ready') = ToSet(ready) \cup {h}
      /\ NoTwice(ready')
      /\ \A m, k : Before(ready, m, k) /\ m # k /\ (m = h => k \notin ToSet(ready))
                    => Before(ready', m, k)
  BY <1>1, <1>2, AtEnd, KnownTypes DEF Fetched, Kept
<1>4. /\ hist'.came = hist.came /\ hist'.handled = hist.handled
      /\ hist'.dropped = hist.dropped /\ hist'.lost = hist.lost
      /\ \A m \in hist'.known : m \in hist.known \/ (m = h /\ h.from \in contacts \cap book)
  BY DEF Fetched, TypeOK, Hist
<1>5. \A m \in ToSet(inbox') : h.no < m.no
  <2> SUFFICES ASSUME NEW m \in ToSet(inbox') PROVE h.no < m.no
    OBVIOUS
  <2>1. m \in ToSet(inbox) /\ m \in Message /\ m # h
    BY <1>1, PlacesAre DEF PlacesHold
  <2>2. ~(m.no < h.no)
    BY <1>1, <2>1 DEF Kept
  <2>3. m.no # h.no
    BY <1>1, <2>1, PlacesAre DEF PlacesHold, Kept, OneEach, Place
  <2>4. QED
    BY <1>1, <2>1, <2>2, <2>3, KnownTypes
<1> HIDE DEF h
<1>6. /\ h \in Places[InInbox] /\ Places'[InInbox] = Places[InInbox] \ {h}
      /\ Places'[InReady] = Places[InReady] \cup {h}
      /\ \A p \in Place \ {InInbox, InReady} : Places'[p] = Places[p]
  <2>1. h \in Places[InInbox] /\ Places'[InInbox] = Places[InInbox] \ {h}
    BY <1>1, PlacesAre, PlacesAreNext DEF PlacesHold
  <2>2. Places'[InReady] = Places[InReady] \cup {h}
    BY <1>3, PlacesAre, PlacesAreNext DEF PlacesHold
  <2>3. /\ Places'[InWaiting] = Places[InWaiting] /\ Places'[InEvents] = Places[InEvents]
        /\ Places'[InPump] = Places[InPump] /\ Places'[IsHandled] = Places[IsHandled]
        /\ Places'[IsDropped] = Places[IsDropped] /\ Places'[IsLost] = Places[IsLost]
    BY <1>4, PlacesAre, PlacesAreNext DEF PlacesHold
  <2>4. QED
    BY <2>1, <2>2, <2>3 DEF Place
<1>7. InInbox \in Place /\ InReady \in Place /\ InInbox # InReady
  BY DEF Place, InInbox, InReady
<1>8. Kept'
  <2>1. OneEach(Places', hist'.came)
    BY <1>4, <1>6, <1>7, MoveOne DEF Kept
  <2>2. \A p \in Place \ {InInbox} :
          \A k \in Places'[p], m \in Places'[InInbox] : k.no < m.no
    <3> SUFFICES ASSUME NEW p \in Place \ {InInbox}, NEW k \in Places'[p],
                        NEW m \in Places'[InInbox]
                 PROVE  k.no < m.no
      OBVIOUS
    <3>1. m \in Places[InInbox] /\ m \in ToSet(inbox')
      BY <1>6, PlacesAreNext DEF PlacesHold
    <3>2. CASE k = h
      BY <1>5, <3>1, <3>2
    <3>3. CASE k # h
      BY <1>6, <3>1, <3>3 DEF Kept
    <3>4. QED
      BY <3>2, <3>3
  <2>3. QED
    BY <1>1, <1>3, <1>4, <2>1, <2>2 DEF Kept, Fetched
<1>9. KnownAhead'
  <2> SUFFICES ASSUME NEW m \in hist'.known
               PROVE  /\ m \in ToSet(ready') \cup ToSet(events) \cup ToSet(pump)
                              \cup ToSet(hist.handled) \cup hist.lost
                      /\ m \in ToSet(ready') => m.from \in contacts \cap book
                      /\ \A k \in Message : m.no < k.no => Ahead(m, k)'
    BY <1>4 DEF KnownAhead
  <2>1. CASE m \in hist.known
    <3>1. m # h
      BY <1>1, <1>2, <2>1 DEF KnownAhead
    <3>2. ASSUME NEW k \in Message, m.no < k.no PROVE Ahead(m, k)'
      <4>1. Ahead(m, k) /\ m # k
        BY <2>1, <3>2, KnownTypes DEF KnownAhead
      <4>2. Before(ready', m, k)
        BY <1>3, <3>1, <4>1 DEF Ahead
      <4>3. QED
        BY <1>3, <1>4, <3>1, <4>1, <4>2 DEF Ahead
    <3>3. QED
      BY <1>3, <2>1, <3>1, <3>2 DEF KnownAhead
  <2>2. CASE m = h /\ h.from \in contacts \cap book
    <3>1. ASSUME NEW k \in Message, m.no < k.no PROVE Ahead(m, k)'
      <4>1. k # h /\ \A p \in Place \ {InInbox} : k \notin Places[p]
        <5>1. \A p \in Place \ {InInbox} : \A l \in Places[p] : l.no < h.no
          BY <1>6 DEF Kept
        <5>2. QED
          BY <1>1, <2>2, <3>1, <5>1, KnownTypes
      <4>2. k \notin ToSet(ready) \cup waiting \cup ToSet(events) \cup ToSet(pump)
                        \cup ToSet(hist.handled)
        BY <4>1, PlacesAre
        DEF PlacesHold, Place, InInbox, InReady, InWaiting, InEvents, InPump, IsHandled
      <4>3. Before(ready, m, k) /\ Before(events, m, k) /\ Before(hist.handled, m, k)
        BY <4>2 DEF Before, ToSet
      <4>4. Before(ready', m, k)
        BY <1>3, <2>2, <4>1, <4>2, <4>3
      <4>5. QED
        BY <1>2, <1>3, <1>4, <2>2, <4>2, <4>3, <4>4 DEF Ahead
    <3>2. QED
      BY <1>3, <2>2, <3>1
  <2>3. QED
    BY <1>4, <2>1, <2>2
<1>10. QED
  BY <1>8, <1>9

\* A message goes from one place to another, the inbox apart.
LEMMA KeptMove ==
  ASSUME Kept, NEW a \in Place \ {InInbox}, NEW b \in Place \ {InInbox}, a # b,
         NEW m \in Places[a],
         Places'[a] = Places[a] \ {m}, Places'[b] = Places[b] \cup {m},
         \A p \in Place \ {a, b} : Places'[p] = Places[p],
         inbox' = inbox, hist'.came = hist.came,
         NoTwice(ready'), NoTwice(events'), NoTwice(hist'.handled)
  PROVE  Kept'
<1>1. OneEach(Places', hist'.came)
  BY MoveOne DEF Kept
<1>2. \A p \in Place \ {InInbox} : \A k \in Places'[p], l \in Places'[InInbox] : k.no < l.no
  <2> SUFFICES ASSUME NEW p \in Place \ {InInbox}, NEW k \in Places'[p],
                      NEW l \in Places'[InInbox]
               PROVE  k.no < l.no
    OBVIOUS
  <2>1. l \in Places[InInbox]
    BY DEF Place
  <2>2. \E q \in Place \ {InInbox} : k \in Places[q]
    OBVIOUS
  <2>3. QED
    BY <2>1, <2>2 DEF Kept
<1>3. QED
  BY <1>1, <1>2 DEF Kept

\* No message moves.
LEMMA KeptSame ==
  ASSUME TypeOK, TypeOK', Kept, inbox' = inbox, ready' = ready, waiting' = waiting,
         ToSet(events') \cap Message = ToSet(events) \cap Message, pump' = pump,
         hist'.came = hist.came, hist'.handled = hist.handled,
         hist'.dropped = hist.dropped, hist'.lost = hist.lost, NoTwice(events')
  PROVE  Kept'
<1>1. \A p \in Place : Places'[p] = Places[p]
  BY PlacesAre, PlacesAreNext DEF PlacesHold, Place
<1>2. OneEach(Places', hist'.came)
  BY <1>1 DEF Kept, OneEach
<1>3. \A p \in Place \ {InInbox} : \A k \in Places'[p], l \in Places'[InInbox] : k.no < l.no
  BY <1>1 DEF Kept, Place
<1>4. QED
  BY <1>2, <1>3 DEF Kept

\* The places that moves start and end at differ.
LEMMA PlacesDiffer ==
  /\ InReady \in Place \ {InInbox} /\ InWaiting \in Place \ {InInbox}
  /\ InEvents \in Place \ {InInbox} /\ InPump \in Place \ {InInbox}
  /\ IsHandled \in Place \ {InInbox} /\ IsDropped \in Place \ {InInbox}
  /\ IsLost \in Place \ {InInbox} /\ InInbox \in Place
  /\ InReady # InEvents /\ InReady # InWaiting /\ InReady # IsDropped
  /\ InWaiting # InEvents /\ InWaiting # IsDropped /\ InEvents # InPump
  /\ InPump # IsHandled
  BY DEF InInbox, InReady, InWaiting, InEvents, InPump, IsHandled, IsDropped, IsLost, Place

\* A task of _handle_contact_msg runs up to its first await.
LEMMA HandlerStep ==
  ASSUME TypeOK, TypeOK', Kept, KnownAhead, RunHandler
  PROVE  Kept' /\ KnownAhead'
<1> DEFINE h == Head(ready)
<1>1. /\ h \in Message /\ h \in ToSet(ready) /\ ToSet(ready) = ToSet(ready') \cup {h}
      /\ h \notin ToSet(ready') /\ NoTwice(ready')
      /\ \A m, k : Before(ready, m, k)
           => Before(ready', m, k) /\ (m \in ToSet(ready) => k # h)
  BY InFront, KnownTypes DEF RunHandler, Kept
<1>2. h \notin waiting \cup ToSet(events) \cup ToSet(pump) \cup ToSet(hist.handled)
                \cup hist.dropped \cup hist.lost
  BY <1>1, OnePlace DEF Kept
<1>3. /\ inbox' = inbox /\ pump' = pump /\ contacts' = contacts /\ book' = book
      /\ hist'.came = hist.came /\ hist'.handled = hist.handled
      /\ hist'.lost = hist.lost /\ hist'.known = hist.known
      /\ hist.dropped \subseteq hist'.dropped
  BY DEF RunHandler, radio, TypeOK, Hist
<1>4. \A m \in hist.known : m = h => Resolves(h)
  BY <1>1 DEF KnownAhead, Resolves
<1>5. CASE Resolves(h) /\ events' = Append(events, h) /\ UNCHANGED <<waiting, hist>>
  <2>1. /\ ToSet(events') = ToSet(events) \cup {h} /\ NoTwice(events')
        /\ \A m, k : Before(events, m, k) /\ m # k /\ (m = h => k \notin ToSet(events))
                      => Before(events', m, k)
    <3>1. h \in Event
      BY <1>1, EventTypes
    <3>2. QED
      BY <1>2, <1>5, <3>1, AtEnd, KnownTypes DEF Kept
  <2> HIDE DEF h
  <2>2. Kept'
    <3>1. h \in Places[InReady] /\ Places'[InReady] = Places[InReady] \ {h}
      BY <1>1, PlacesAre, PlacesAreNext DEF PlacesHold
    <3>2. Places'[InEvents] = Places[InEvents] \cup {h}
      BY <1>1, <2>1, PlacesAre, PlacesAreNext DEF PlacesHold
    <3>3. \A p \in Place \ {InReady, InEvents} : Places'[p] = Places[p]
      BY <1>3, <1>5, PlacesAre, PlacesAreNext DEF PlacesHold, Place
    <3>4. QED
      BY <1>1, <1>3, <1>5, <2>1, <3>1, <3>2, <3>3, KeptMove, PlacesDiffer DEF Kept
  <2>3. ASSUME NEW m \in hist.known, NEW k \in Message, m.no < k.no
        PROVE  Ahead(m, k)'
    <3>1. Ahead(m, k) /\ m # k
      BY <2>3, KnownTypes DEF KnownAhead
    <3>2. m = h => k \notin ToSet(events)
      BY <1>1, <3>1 DEF Ahead
    <3>3. Before(events', m, k) /\ Before(ready', m, k)
      BY <1>1, <2>1, <3>1, <3>2 DEF Ahead
    <3>4. m \in ToSet(ready') => k # h
      BY <1>1, <3>1 DEF Ahead
    <3>5. QED
      BY <1>1, <1>3, <1>5, <2>1, <3>1, <3>3, <3>4 DEF Ahead
  <2>4. KnownAhead'
    BY <1>1, <1>3, <1>5, <2>1, <2>3 DEF KnownAhead
  <2>5. QED
    BY <2>2, <2>4
<1>6. CASE ~Resolves(h) /\ events' = events
  <2>1. \/ waiting' = waiting \cup {h} /\ hist'.dropped = hist.dropped
        \/ waiting' = waiting /\ hist'.dropped = hist.dropped \cup {h}
    BY <1>6 DEF RunHandler, TypeOK, Hist
  <2> HIDE DEF h
  <2>2. Kept'
    <3>1. h \in Places[InReady] /\ Places'[InReady] = Places[InReady] \ {h}
      BY <1>1, PlacesAre, PlacesAreNext DEF PlacesHold
    <3>2. /\ Places'[InEvents] = Places[InEvents]
          /\ \A p \in Place \ {InReady, InWaiting, IsDropped} : Places'[p] = Places[p]
      BY <1>3, <1>6, PlacesAre, PlacesAreNext DEF PlacesHold, Place
    <3>3. \/ /\ Places'[InWaiting] = Places[InWaiting] \cup {h}
             /\ Places'[IsDropped] = Places[IsDropped]
          \/ /\ Places'[InWaiting] = Places[InWaiting]
             /\ Places'[IsDropped] = Places[IsDropped] \cup {h}
      BY <2>1, PlacesAre, PlacesAreNext DEF PlacesHold
    <3>4. PICK b \in {InWaiting, IsDropped} :
            /\ Places'[b] = Places[b] \cup {h}
            /\ \A p \in Place \ {InReady, b} : Places'[p] = Places[p]
      BY <3>2, <3>3
    <3>5. QED
      BY <1>1, <1>3, <1>6, <3>1, <3>4, KeptMove, PlacesDiffer DEF Kept
  <2>3. ASSUME NEW m \in hist.known, NEW k \in Message, m.no < k.no
        PROVE  Ahead(m, k)'
    <3>1. Ahead(m, k) /\ m # k
      BY <2>3, KnownTypes DEF KnownAhead
    <3>2. m \in ToSet(ready') => k # h
      BY <1>1, <3>1 DEF Ahead
    <3>3. QED
      BY <1>1, <1>3, <1>6, <2>1, <3>1, <3>2 DEF Ahead
  <2>4. KnownAhead'
    BY <1>1, <1>3, <1>4, <1>6, <2>3 DEF KnownAhead
  <2>5. QED
    BY <2>2, <2>4
<1>7. QED
  BY <1>5, <1>6 DEF RunHandler

\* A task that awaited the contacts goes on.
LEMMA ResumeStep ==
  ASSUME TypeOK, TypeOK', Kept, KnownAhead, NEW h \in waiting, Resume(h)
  PROVE  Kept' /\ KnownAhead'
<1>1. h \in Message /\ h \in Event
  BY KnownTypes, EventTypes
<1>2. h \notin ToSet(events) \cup ToSet(pump) \cup ToSet(hist.handled) \cup hist.dropped
                \cup hist.lost \cup ToSet(ready)
  BY <1>1, OnePlace DEF Kept
<1>3. /\ inbox' = inbox /\ ready' = ready /\ pump' = pump /\ contacts' = contacts
      /\ book' = book /\ waiting' = waiting \ {h}
      /\ hist'.came = hist.came /\ hist'.handled = hist.handled
      /\ hist'.lost = hist.lost /\ hist'.known = hist.known
  BY DEF Resume, radio, TypeOK, Hist
<1>4. h \notin hist.known
  BY <1>2 DEF KnownAhead
<1>5. \/ events' = Append(events, h) /\ hist'.dropped = hist.dropped
      \/ events' = events /\ hist'.dropped = hist.dropped \cup {h}
  BY DEF Resume, TypeOK, Hist
<1>6. /\ ToSet(Append(events, h)) = ToSet(events) \cup {h} /\ NoTwice(Append(events, h))
      /\ \A m, k : Before(events, m, k) /\ m # k /\ (m = h => k \notin ToSet(events))
                    => Before(Append(events, h), m, k)
  BY <1>1, <1>2, AtEnd, KnownTypes DEF Kept
<1>7. Kept'
  <2>1. h \in Places[InWaiting] /\ Places'[InWaiting] = Places[InWaiting] \ {h}
    BY <1>3, PlacesAre, PlacesAreNext DEF PlacesHold
  <2>2. \A p \in Place \ {InWaiting, InEvents, IsDropped} : Places'[p] = Places[p]
    BY <1>3, PlacesAre, PlacesAreNext DEF PlacesHold, Place
  <2>3. \/ /\ Places'[InEvents] = Places[InEvents] \cup {h}
           /\ Places'[IsDropped] = Places[IsDropped]
        \/ /\ Places'[InEvents] = Places[InEvents]
           /\ Places'[IsDropped] = Places[IsDropped] \cup {h}
    BY <1>1, <1>5, <1>6, PlacesAre, PlacesAreNext DEF PlacesHold
  <2>4. PICK b \in {InEvents, IsDropped} :
          /\ Places'[b] = Places[b] \cup {h}
          /\ \A p \in Place \ {InWaiting, b} : Places'[p] = Places[p]
    BY <2>2, <2>3
  <2>5. NoTwice(events') /\ NoTwice(ready') /\ NoTwice(hist'.handled)
    BY <1>3, <1>5, <1>6 DEF Kept
  <2>6. QED
    BY <1>3, <2>1, <2>4, <2>5, KeptMove, PlacesDiffer
<1>8. ASSUME NEW m \in hist.known, NEW k \in Message, m.no < k.no
      PROVE  Ahead(m, k)'
  <2>1. Ahead(m, k) /\ m # k /\ m # h
    BY <1>4, <1>8, KnownTypes DEF KnownAhead
  <2>2. Before(events', m, k)
    <3>1. Before(events, m, k)
      BY <2>1 DEF Ahead
    <3>2. QED
      BY <1>5, <1>6, <2>1, <3>1
  <2>3. m \in ToSet(ready) => k # h
    BY <2>1 DEF Ahead
  <2>4. ToSet(events') \subseteq ToSet(events) \cup {h}
    BY <1>5, <1>6
  <2>5. QED
    BY <1>3, <2>1, <2>2, <2>3, <2>4 DEF Ahead
<1>9. KnownAhead'
  <2>1. ToSet(events) \subseteq ToSet(events')
    BY <1>5, <1>6
  <2>2. QED
    BY <1>3, <1>8, <2>1 DEF KnownAhead
<1>10. QED
  BY <1>7, <1>9

\* The empty queue and the queue of one.
LEMMA ShortQueues ==
  /\ ToSet(<<>>) = {} /\ NoTwice(<<>>) /\ \A m, k : Before(<<>>, m, k)
  /\ \A h : ToSet(<<h>>) = {h}
<1>1. DOMAIN <<>> = {}
  OBVIOUS
<1>2. \A h : DOMAIN <<h>> = {1} /\ <<h>>[1] = h
  OBVIOUS
<1>3. QED
  BY <1>1, <1>2 DEF ToSet, NoTwice, Before

\* The pump takes the next event, a message or a notice.
LEMMA TakesStep ==
  ASSUME TypeOK, TypeOK', Kept, KnownAhead, PumpTakes
  PROVE  Kept' /\ KnownAhead'
<1> DEFINE h == Head(events)
<1>1. /\ h \in ToSet(events) /\ ToSet(events) = ToSet(events') \cup {h}
      /\ h \in Message => h \notin ToSet(events')
      /\ NoTwice(events')
      /\ \A m, k : Before(events, m, k)
           => Before(events', m, k) /\ (m \in ToSet(events) => k # h)
  BY InFront, KnownTypes DEF PumpTakes, Kept
<1>2. /\ inbox' = inbox /\ ready' = ready /\ waiting' = waiting /\ hist' = hist
      /\ contacts' = contacts /\ book' = book
      /\ pump = <<>> /\ ToSet(pump) = {}
      /\ pump' = IF h \in Message THEN <<h>> ELSE <<>>
  BY ShortQueues DEF PumpTakes, radio
<1>3. CASE h \notin Message
  <2> HIDE DEF h
  <2>1. pump' = pump
    BY <1>2, <1>3
  <2>2. Kept'
    BY <1>1, <1>2, <1>3, <2>1, KeptSame DEF Kept
  <2>3. ASSUME NEW m \in hist.known, NEW k \in Message, m.no < k.no
        PROVE  Ahead(m, k)'
    <3>1. Ahead(m, k)
      BY <2>3 DEF KnownAhead
    <3>2. QED
      BY <1>1, <1>2, <2>1, <3>1 DEF Ahead
  <2>4. \A m \in hist.known : m \in Message
    BY KnownTypes
  <2>5. KnownAhead'
    BY <1>1, <1>2, <1>3, <2>1, <2>3, <2>4 DEF KnownAhead
  <2>6. QED
    BY <2>2, <2>5
<1>4. CASE h \in Message
  <2>1. h \notin ToSet(hist.handled)
    BY <1>1, <1>4, OnePlace DEF Kept
  <2>2. pump' = <<h>> /\ ToSet(pump') = {h}
    BY <1>2, <1>4, ShortQueues
  <2> HIDE DEF h
  <2>3. Kept'
    <3>1. h \in Places[InEvents] /\ Places'[InEvents] = Places[InEvents] \ {h}
      BY <1>1, <1>4, PlacesAre, PlacesAreNext DEF PlacesHold
    <3>2. Places'[InPump] = Places[InPump] \cup {h}
      BY <1>2, <2>2, PlacesAre, PlacesAreNext DEF PlacesHold
    <3>3. \A p \in Place \ {InEvents, InPump} : Places'[p] = Places[p]
      BY <1>2, PlacesAre, PlacesAreNext DEF PlacesHold, Place
    <3>4. QED
      BY <1>1, <1>2, <3>1, <3>2, <3>3, KeptMove, PlacesDiffer DEF Kept
  <2>4. ASSUME NEW m \in hist.known, NEW k \in Message, m.no < k.no
        PROVE  Ahead(m, k)'
    <3>1. Ahead(m, k) /\ m # k
      BY <2>4, KnownTypes DEF KnownAhead
    <3>2. Before(events', m, k) /\ (m \in ToSet(events) => k # h)
      BY <1>1, <3>1 DEF Ahead
    <3>3. m = h => k \notin ToSet(hist.handled)
      BY <1>1, <3>1 DEF Ahead
    <3>4. m \in ToSet(ready) => k # h
      BY <1>1, <3>1 DEF Ahead
    <3>5. QED
      BY <1>1, <1>2, <2>2, <3>1, <3>2, <3>3, <3>4 DEF Ahead
  <2>5. KnownAhead'
    BY <1>1, <1>2, <2>2, <2>4 DEF KnownAhead
  <2>6. QED
    BY <2>3, <2>5
<1>5. QED
  BY <1>3, <1>4

\* The pump is done with a message.
LEMMA DoneStep ==
  ASSUME TypeOK, TypeOK', Kept, KnownAhead, PumpDone
  PROVE  Kept' /\ KnownAhead'
<1> DEFINE h == pump[1]
<1>1. pump = <<h>> /\ h \in Message
  <2>1. pump \in Seq(Message) /\ Len(pump) <= 1 /\ pump # <<>>
    BY DEF TypeOK, PumpDone
  <2>2. Len(pump) = 1
    <3>1. Len(pump) \in Nat
      BY <2>1, LenProperties
    <3>2. Len(pump) # 0
      BY <2>1, EmptySeq
    <3>3. \A n \in Nat : n <= 1 /\ n # 0 => n = 1
      OBVIOUS
    <3>4. QED
      BY <2>1, <3>1, <3>2, <3>3, Zenon
  <2>3. QED
    BY <2>1, <2>2
<1>2. ToSet(pump) = {h}
  BY <1>1, ShortQueues
<1> HIDE DEF h
<1>3. /\ inbox' = inbox /\ ready' = ready /\ waiting' = waiting /\ events' = events
      /\ contacts' = contacts /\ book' = book /\ pump' = <<>> /\ ToSet(pump') = {}
      /\ hist'.came = hist.came /\ hist'.dropped = hist.dropped
      /\ hist'.lost = hist.lost /\ hist'.known = hist.known
      /\ hist'.handled = hist.handled \o pump
  BY ShortQueues DEF PumpDone, radio, TypeOK, Hist
<1>4. h \notin ToSet(hist.handled)
  BY <1>1, <1>2, OnePlace DEF Kept
<1>5. hist'.handled = Append(hist.handled, h)
  BY <1>1, <1>3, KnownTypes, AppendIsConcat
<1>6. /\ ToSet(hist'.handled) = ToSet(hist.handled) \cup {h} /\ NoTwice(hist'.handled)
      /\ \A m, k :
           Before(hist.handled, m, k) /\ m # k /\ (m = h => k \notin ToSet(hist.handled))
             => Before(hist'.handled, m, k)
  BY <1>1, <1>4, <1>5, AtEnd, KnownTypes DEF Kept
<1>7. Kept'
  <2>1. h \in Places[InPump] /\ Places'[InPump] = Places[InPump] \ {h}
    BY <1>2, <1>3, PlacesAre, PlacesAreNext DEF PlacesHold
  <2>2. Places'[IsHandled] = Places[IsHandled] \cup {h}
    BY <1>6, PlacesAre, PlacesAreNext DEF PlacesHold
  <2>3. \A p \in Place \ {InPump, IsHandled} : Places'[p] = Places[p]
    BY <1>3, PlacesAre, PlacesAreNext DEF PlacesHold, Place
  <2>4. QED
    BY <1>3, <1>6, <2>1, <2>2, <2>3, KeptMove, PlacesDiffer DEF Kept
<1>8. ASSUME NEW m \in hist.known, NEW k \in Message, m.no < k.no
      PROVE  Ahead(m, k)'
  <2>1. Ahead(m, k) /\ m # k
    BY <1>8, KnownTypes DEF KnownAhead
  <2>2. m = h => k \notin ToSet(hist.handled)
    BY <1>2, <2>1 DEF Ahead
  <2>3. Before(hist'.handled, m, k)
    BY <1>6, <2>1, <2>2 DEF Ahead
  <2>4. m \in ToSet(ready) \cup ToSet(events) => k # h
    BY <1>2, <2>1 DEF Ahead
  <2>5. QED
    BY <1>3, <1>6, <2>1, <2>3, <2>4 DEF Ahead
<1>9. KnownAhead'
  BY <1>2, <1>3, <1>6, <1>8 DEF KnownAhead
<1>10. QED
  BY <1>7, <1>9

\* Another message comes over the air.
LEMMA ReceiveStep ==
  ASSUME TypeOK, TypeOK', Kept, KnownAhead, NEW s \in Senders, Receive(s)
  PROVE  Kept' /\ KnownAhead'
<1> DEFINE h == [from |-> s, no |-> hist.came + 1]
           next == hist.came + 1
<1>1. /\ h \in Message /\ h.no = next /\ next \in Nat /\ hist.came \in Nat
      /\ inbox' = Append(inbox, h) /\ hist'.came = next
  BY DEF Receive, Message, TypeOK, Hist
<1> HIDE DEF h
<1>2. /\ ready' = ready /\ waiting' = waiting /\ events' = events /\ pump' = pump
      /\ contacts' = contacts /\ book' = book /\ hist'.handled = hist.handled
      /\ hist'.dropped = hist.dropped /\ hist'.lost = hist.lost /\ hist'.known = hist.known
  BY DEF Receive, tasks, TypeOK, Hist
<1>3. \A p \in Place : \A m \in Places[p] :
        m \in Message /\ m.no \in Nat /\ m.no <= hist.came
  <2>1. \A p \in Place : Places[p] \subseteq Message
    BY PlacesAre DEF PlacesHold, Place
  <2>2. QED
    BY <2>1, KnownTypes DEF Kept, OneEach
<1>4. h \notin ToSet(inbox)
  BY <1>1, <1>3, PlacesAre, PlacesDiffer DEF PlacesHold
<1>5. /\ ToSet(inbox') = ToSet(inbox) \cup {h} /\ NoTwice(inbox')
      /\ \A m, k : Before(inbox, m, k) /\ m # k /\ (m = h => k \notin ToSet(inbox))
                    => Before(inbox', m, k)
  BY <1>1, <1>4, AtEnd, KnownTypes DEF Kept
<1>6. ASSUME NEW m \in Message, NEW k \in Message, m.no < k.no PROVE Before(inbox', m, k)
  <2>1. Before(inbox, m, k) /\ m # k
    BY <1>6, KnownTypes DEF Kept
  <2>2. ASSUME m = h PROVE k \notin ToSet(inbox)
    <3>1. ~(k.no <= hist.came)
      BY <1>1, <1>6, <2>2, KnownTypes
    <3>2. QED
      BY <1>3, <3>1, PlacesAre, PlacesDiffer DEF PlacesHold
  <2>3. QED
    BY <1>5, <2>1, <2>2
<1>7. /\ Places'[InInbox] = Places[InInbox] \cup {h}
      /\ \A p \in Place \ {InInbox} : Places'[p] = Places[p]
  BY <1>2, <1>5, PlacesAre, PlacesAreNext DEF PlacesHold, Place
<1>8. \A p \in Place : \A m \in Places'[p] : m \in Places[p] \/ (p = InInbox /\ m = h)
  BY <1>7
<1>9. OneEach(Places', next)
  <2>1. \A p \in Place : \A m \in Places'[p] : m.no <= next
    BY <1>1, <1>3, <1>8
  <2>2. ASSUME NEW p \in Place, NEW q \in Place, NEW m \in Places'[p], NEW k \in Places'[q],
               m.no = k.no
        PROVE  p = q /\ m = k
    <3>1. CASE m \in Places[p] /\ k \in Places[q]
      BY <2>2, <3>1 DEF Kept, OneEach
    <3>2. CASE m \notin Places[p] \/ k \notin Places[q]
      BY <1>1, <1>3, <1>8, <2>2, <3>2
    <3>3. QED
      BY <3>1, <3>2
  <2>3. ASSUME NEW n \in 1 .. next PROVE \E p \in Place : \E m \in Places'[p] : m.no = n
    <3>1. CASE n = next
      BY <1>1, <1>7, <3>1, PlacesDiffer
    <3>2. CASE n # next
      <4>1. n \in 1 .. hist.came
        BY <1>1, <3>2
      <4>2. PICK p \in Place : \E m \in Places[p] : m.no = n
        BY <4>1 DEF Kept, OneEach
      <4>3. QED
        BY <1>7, <4>2
    <3>3. QED
      BY <3>1, <3>2
  <2>4. QED
    BY <2>1, <2>2, <2>3 DEF OneEach
<1>10. \A p \in Place \ {InInbox} :
         \A k \in Places'[p], m \in Places'[InInbox] : k.no < m.no
  <2> SUFFICES ASSUME NEW p \in Place \ {InInbox}, NEW k \in Places'[p],
                      NEW m \in Places'[InInbox]
               PROVE  k.no < m.no
    OBVIOUS
  <2>1. k \in Places[p] /\ k.no \in Nat /\ k.no <= hist.came
    BY <1>3, <1>7
  <2>2. CASE m = h
    BY <1>1, <2>1, <2>2
  <2>3. CASE m # h
    BY <1>7, <2>1, <2>3 DEF Kept
  <2>4. QED
    BY <2>2, <2>3
<1> HIDE DEF next
<1>11. Kept'
  BY <1>1, <1>2, <1>5, <1>6, <1>9, <1>10 DEF Kept
<1>12. KnownAhead'
  BY <1>2 DEF KnownAhead, Ahead
<1>13. QED
  BY <1>11, <1>12

\* The process ends: what it had fetched is lost.
LEMMA StopStep ==
  ASSUME TypeOK, TypeOK', Kept, KnownAhead, Stop
  PROVE  Kept' /\ KnownAhead'
<1>1. /\ inbox' = inbox /\ ready' = <<>> /\ waiting' = {} /\ events' = <<>> /\ pump' = <<>>
      /\ hist'.came = hist.came /\ hist'.handled = hist.handled
      /\ hist'.dropped = hist.dropped /\ hist'.known = hist.known
      /\ hist'.lost = hist.lost \cup ToSet(ready) \cup waiting \cup ToSet(pump)
                                \cup (ToSet(events) \cap Message)
  BY DEF Stop, TypeOK, Hist
<1>2. ToSet(ready') = {} /\ ToSet(events') = {} /\ ToSet(pump') = {}
        /\ NoTwice(ready') /\ NoTwice(events')
        /\ \A m, k : Before(ready', m, k) /\ Before(events', m, k)
  BY <1>1, ShortQueues
<1>3. Kept'
  <2> DEFINE A == {InReady, InWaiting, InEvents, InPump}
  <2>1. \A p \in A : Places'[p] = {}
    BY <1>1, <1>2, PlacesAreNext DEF PlacesHold
  <2>2. \A k : k \in Places'[IsLost]
              <=> k \in Places[IsLost] \/ \E p \in A : k \in Places[p]
    BY <1>1, PlacesAre, PlacesAreNext DEF PlacesHold
  <2>3. /\ Places'[InInbox] = Places[InInbox] /\ Places'[IsHandled] = Places[IsHandled]
        /\ Places'[IsDropped] = Places[IsDropped]
    BY <1>1, PlacesAre, PlacesAreNext DEF PlacesHold
  <2>4. \A p \in Place \ (A \cup {IsLost}) : Places'[p] = Places[p]
    BY <2>3 DEF Place
  <2>5. A \subseteq Place \ {InInbox} /\ IsLost \in Place \ A
    BY DEF InInbox, InReady, InWaiting, InEvents, InPump, IsHandled, IsDropped, IsLost, Place
  <2> HIDE DEF A
  <2>6. OneEach(Places', hist'.came)
    BY <1>1, <2>1, <2>2, <2>4, <2>5, MoveAll DEF Kept
  <2>7. \A p \in Place \ {InInbox} :
          \A k \in Places'[p], m \in Places'[InInbox] : k.no < m.no
    <3> SUFFICES ASSUME NEW p \in Place \ {InInbox}, NEW k \in Places'[p],
                        NEW m \in Places'[InInbox]
                 PROVE  k.no < m.no
      OBVIOUS
    <3>1. \E q \in Place \ {InInbox} : k \in Places[q]
      BY <2>1, <2>2, <2>4, <2>5
    <3>2. m \in Places[InInbox]
      BY <2>3
    <3>3. QED
      BY <3>1, <3>2 DEF Kept
  <2>8. QED
    BY <1>1, <1>2, <2>6, <2>7 DEF Kept
<1>4. KnownAhead'
  <2>1. ASSUME NEW m \in hist.known PROVE m \in ToSet(hist.handled) \cup hist'.lost
    BY <1>1, <2>1, KnownTypes DEF KnownAhead
  <2>2. QED
    BY <1>1, <1>2, <2>1 DEF KnownAhead, Ahead
<1>5. QED
  BY <1>3, <1>4

\* Steps that move no message: at most a notice is appended, and a contact is gone
\* from the lists only if its messages are no longer held for known.
LEMMA QuietStep ==
  ASSUME TypeOK, TypeOK', Kept, KnownAhead,
         inbox' = inbox, ready' = ready, waiting' = waiting, pump' = pump,
         \/ events' = events
         \/ \E kind \in {"connected", "disconnected", "activity"} : Told(kind)
         \/ events' = Append(events, NoticeOf("connected")),
         hist'.came = hist.came, hist'.handled = hist.handled,
         hist'.dropped = hist.dropped, hist'.lost = hist.lost,
         hist'.known \subseteq hist.known,
         \A m \in hist'.known : m.from \in contacts \cap book
                              => m.from \in contacts' \cap book'
  PROVE  Kept' /\ KnownAhead'
<1>1. CASE events' = events
  BY <1>1, KeptSame DEF Kept, KnownAhead, Ahead
<1>2. ASSUME NEW e \in Event, e \notin Message, events' = Append(events, e)
      PROVE  Kept' /\ KnownAhead'
  <2>1. /\ ToSet(events') = ToSet(events) \cup {e} /\ NoTwice(events')
        /\ \A m, k : Before(events, m, k) /\ m # k /\ m # e => Before(events', m, k)
    BY <1>2, AtEnd, KnownTypes DEF Kept
  <2>2. Kept'
    BY <1>2, <2>1, KeptSame DEF Kept
  <2>3. ASSUME NEW m \in hist'.known, NEW k \in Message, m.no < k.no PROVE Ahead(m, k)'
    <3>1. Ahead(m, k) /\ m # k /\ m \in Message
      BY <2>3, KnownTypes DEF KnownAhead
    <3>2. QED
      BY <1>2, <2>1, <3>1 DEF Ahead
  <2>4. KnownAhead'
    BY <1>2, <2>1, <2>3 DEF KnownAhead
  <2>5. QED
    BY <2>2, <2>4
<1>3. events' = events \/ \E e \in Event \ Message : events' = Append(events, e)
  BY EventTypes, NoticesAreOthers DEF Told
<1>4. QED
  BY <1>1, <1>2, <1>3

\* Every step.
LEMMA KeptStep == TypeOK /\ Kept /\ KnownAhead /\ [Next]_vars => Kept' /\ KnownAhead'
<1> SUFFICES ASSUME TypeOK, Kept, KnownAhead, [Next]_vars PROVE Kept' /\ KnownAhead'
  OBVIOUS
<1>1. TypeOK' /\ hist \in Hist
  BY TypeStep DEF TypeOK
<1>2. CASE UNCHANGED vars \/ PollSkips
  <2>1. UNCHANGED vars
    BY <1>2 DEF PollSkips
  <2>2. QED
    BY <1>1, <2>1, QuietStep DEF vars, radio, tasks
<1>3. CASE Connect \/ GoQuiet \/ Unplug
  BY <1>1, <1>3, QuietStep DEF Connect, GoQuiet, Unplug, radio, tasks
<1>4. CASE Start
  BY <1>1, <1>4, QuietStep DEF Start, Fetching
<1>5. CASE LinkDrops \/ LibraryReconnects
  BY <1>1, <1>5, QuietStep DEF LinkDrops, LibraryReconnects, Fetching, tasks
<1>6. ASSUME NEW s \in Senders, Overhear(s)
      PROVE  Kept' /\ KnownAhead'
  BY <1>1, <1>6, QuietStep DEF Overhear, tasks
<1>7. CASE Prune
  <2>1. PICK gone \in SUBSET book \ {{}} :
          /\ PruneContacts(gone)
          /\ hist' = [hist EXCEPT !.known = {m \in @ : m.from \notin gone}]
    BY <1>7 DEF Prune
  <2>2. /\ hist'.known = {m \in hist.known : m.from \notin gone}
        /\ hist'.came = hist.came /\ hist'.handled = hist.handled
        /\ hist'.dropped = hist.dropped /\ hist'.lost = hist.lost
    BY <1>1, <2>1 DEF Hist
  <2>3. \A m \in hist'.known :
          m.from \in contacts \cap book => m.from \in contacts' \cap book'
    BY <2>1, <2>2 DEF PruneContacts
  <2>4. QED
    BY <1>1, <1>7, <2>2, <2>3, QuietStep DEF Prune, tasks
<1>8. CASE Push \/ Poll
  BY <1>1, <1>8, FetchedStep DEF Push, Poll
<1>9. CASE ContactsArrive
  BY <1>1, <1>9, QuietStep DEF ContactsArrive, tasks
<1>10. CASE SupervisorWakes \/ ConnectFails
  BY <1>1, <1>10, QuietStep DEF SupervisorWakes, ConnectFails, radio
<1>11. CASE ConnectReturns
  BY <1>1, <1>11, QuietStep DEF ConnectReturns
<1>12. CASE Reconnected
  BY <1>1, <1>12, QuietStep DEF Reconnected, Fetching
<1>13. QED
  BY <1>1, <1>2, <1>3, <1>4, <1>5, <1>6, <1>7, <1>8, <1>9, <1>10, <1>11, <1>12,
     HandlerStep, ResumeStep, TakesStep, DoneStep, ReceiveStep, StopStep
  DEF Next, SupervisorStep

\* The start: nothing has come.
LEMMA KeptInit == Init => Kept /\ KnownAhead
<1> SUFFICES ASSUME Init PROVE Kept /\ KnownAhead
  OBVIOUS
<1>1. /\ inbox = <<>> /\ ready = <<>> /\ waiting = {} /\ events = <<>> /\ pump = <<>>
      /\ hist.came = 0 /\ hist.known = {} /\ hist.handled = <<>> /\ hist.dropped = {}
      /\ hist.lost = {}
  BY DEF Init
<1>2. \A p \in Place : Places[p] = {}
  BY <1>1, TypeInit, PlacesAre, ShortQueues DEF PlacesHold, Place
<1>3. OneEach(Places, hist.came)
  BY <1>1, <1>2 DEF OneEach
<1>4. QED
  BY <1>1, <1>2, <1>3, ShortQueues DEF Kept, KnownAhead

\* The inductive invariant holds in every reachable state.
LEMMA AlwaysKept == Spec => [](TypeOK /\ Kept /\ KnownAhead)
  BY TypeInit, TypeStep, KeptInit, KeptStep, PTL DEF Spec

\* Every message that came over the air is in exactly one place, and handled once at
\* most, through lost links, pruned contacts and ends of the process.
THEOREM NothingGoesAstray == Spec => []Accounted
<1>1. TypeOK /\ Kept => Accounted
  <2> SUFFICES ASSUME TypeOK, Kept PROVE Accounted
    OBVIOUS
  <2>1. DOMAIN Places = Place
    BY PlacesAre DEF PlacesHold
  <2>2. ASSUME NEW n \in 1 .. hist.came
        PROVE  \E p \in DOMAIN Places : \E m \in Places[p] :
                 /\ m.no = n
                 /\ \A q \in DOMAIN Places \ {p} : \A k \in Places[q] : k.no # n
    <3>1. PICK p \in Place : \E m \in Places[p] : m.no = n
      BY DEF Kept, OneEach
    <3>2. PICK m \in Places[p] : m.no = n
      BY <3>1
    <3>3. \A q \in Place \ {p} : \A k \in Places[q] : k.no # n
      BY <3>2 DEF Kept, OneEach
    <3>4. QED
      BY <2>1, <3>2, <3>3
  <2>3. IsInjective(hist.handled)
    <3>1. \A i \in DOMAIN hist.handled : hist.handled[i] \in Message
      BY DEF TypeOK, Hist
    <3>2. QED
      BY <3>1 DEF Kept, NoTwice, IsInjective
  <2>4. QED
    BY <2>2, <2>3 DEF Accounted
<1>2. QED
  BY <1>1, AlwaysKept, PTL

\* Messages that resolve at once are not overtaken by later ones, although each is
\* handed to a task of its own and the others of its sender may have to wait.
THEOREM OrderIsKept == Spec => []OrderKept
<1>1. TypeOK /\ KnownAhead => OrderKept
  <2> SUFFICES ASSUME TypeOK, KnownAhead,
                      NEW i \in DOMAIN hist.handled, NEW j \in DOMAIN hist.handled,
                      hist.handled[i].no < hist.handled[j].no,
                      hist.handled[i] \in hist.known
               PROVE  i < j
    BY DEF OrderKept
  <2>1. hist.handled[j] \in Message
    BY DEF TypeOK, Hist
  <2>2. Before(hist.handled, hist.handled[i], hist.handled[j])
    BY <2>1 DEF KnownAhead, Ahead
  <2>3. QED
    BY <2>2 DEF Before
<1>2. QED
  BY <1>1, AlwaysKept, PTL
=============================================================================
