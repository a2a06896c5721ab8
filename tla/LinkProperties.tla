--------------------------- MODULE LinkProperties ---------------------------
(* What the rest of the system may expect of the link.                     *)
EXTENDS Link

\* Types: queues, tasks and flags stay in their sets (meshcore.py, health_state.py).
TypeOK ==
  /\ proc \in {"off", "starting", "up"}
  /\ reachable \in BOOLEAN /\ link \in BOOLEAN
  /\ book \subseteq Senders /\ contacts \subseteq Senders
  /\ inbox \in Seq(Message) /\ ready \in Seq(Message) /\ waiting \subseteq Message
  /\ events \in Seq(Event)
  /\ pump \in Seq(Message) /\ Len(pump) <= 1
  /\ sup \in {"sleep", "connect", "contacts"} /\ poller \in BOOLEAN
  /\ connected \in BOOLEAN /\ recent \in BOOLEAN
  /\ faults \in 0 .. MaxFaults
  /\ hist \in Hist

\* Where a message can be.
Places == <<ToSet(inbox), ToSet(ready), waiting, ToSet(events) \cap Message, ToSet(pump),
            ToSet(hist.handled), hist.dropped, hist.lost>>

\* Every message that came over the air is in exactly one place, and in it once: it is
\* neither handled twice nor forgotten between callback, task, queue and pump
\* (_handle_contact_msg).
Accounted ==
  /\ \A n \in 1 .. hist.came : \E p \in DOMAIN Places : \E m \in Places[p] :
       /\ m.no = n
       /\ \A q \in DOMAIN Places \ {p} : \A k \in Places[q] : k.no # n
  /\ IsInjective(hist.handled)

\* Messages of one sender, the first of which was fetched when its sender was in the
\* contact lists and not pruned meanwhile, are handled in the order they came, although
\* _on_contact_msg starts a task for each of them.  Otherwise they need not be.
OrderKept ==
  \A i, j \in DOMAIN hist.handled :
    LET m == hist.handled[i]
        k == hist.handled[j]
    IN  m.from = k.from /\ m.no < k.no /\ m \in hist.known => i < j

\* While the process is up and the companion can be reached, the link is up again and
\* again, though the library may have given up (_reconnect_supervisor).
LinkRestored == <>[](proc = "up" /\ reachable) => []<>link

\* A link that stays up is in the end reported as such for good, whoever restored it and
\* whatever is still in the queue (the pump's handling of CONNECTED and DISCONNECTED).
FlagRecovers == <>[](proc = "up" /\ link) => <>[]connected

\* An outage that lasts makes the probe fail for good, although the supervisor can report
\* a link that is already gone, and start() can miss that it went: the heartbeat catches
\* what the flag does not (_health_problems).
OutageReported == <>[](proc = "up" /\ ~link) => <>[]~Healthy

\* With a link that stays up, what the companion holds is in the end handled or, its
\* sender unknown, dropped, though the companion may fail to announce it
\* (_message_poll_loop).
MessagesServed ==
  <>[](proc = "up" /\ link)
    => []( inbox # <<>> => <>(Len(hist.handled) + Cardinality(hist.dropped)
                                + Cardinality(hist.lost) = hist.came) )
=============================================================================
