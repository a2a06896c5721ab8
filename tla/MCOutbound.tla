----------------------------- MODULE MCOutbound -----------------------------
(* Outbound on small instances: what the configurations cannot say.        *)
EXTENDS OutboundProperties, TLC

\* Recipients, and tasks of one kind, are interchangeable.
Interchangeable ==
  Permutations(Pubkeys) \cup Permutations(Senders) \cup Permutations(Handlers)

\* A reduction for the runs with many rows: the clock advances while the worker
\* sleeps, sends, waits for a pause it reads or is not running, not between two of its
\* other SQL statements.
QuickStatements ==
  now' # now => worker.pc \in {"poll", "judge", "sending", "gap", "stopped", "off"}

\* A reduction for the run about liveness: one life of the process.
StaysDown == proc = "down" => proc' = "down"

\* A reduction for the runs about requests: no shutdown.
KeepsRunning == proc' # "stopping"

\* A reduction for the runs about requests: the companion stays.
RadioStays == radio'

\* A reduction for the safety runs: nothing past the horizon.
WithinHorizon == now' <= MaxTime

AllAcked == \A i \in Ids' : hist'.nacks[i] = 0

\* The run about the limits looks at two scenes, where what is sent is acknowledged.
\* Replies that pass the depth check together, within a second:
Flood == requests' = 0 /\ faults' = 0 /\ now' = 1

\* and a pause that is renewed, one request at a time, beside a look at the page, and
\* a crash while it lasts.  There are two replies of one packet and normal priority, from
\* one task.  Nobody looks at the page for a pause that lasts beyond the horizon.
Renewal ==
  /\ \A i \in Ids' : rows'[i].priority >= PRIORITY_NORMAL
  /\ \A s, t \in Senders :
       /\ senders'[s].left <= 1 /\ Len(rows') + senders'[s].left <= 2
       /\ senders'[s].left > 0 => senders'[s].priority >= PRIORITY_NORMAL
                                  /\ (t = s \/ senders'[t] = NoReply)
  /\ \A h \in Handlers :
       /\ handlers'[h].pc # "cancel"
       /\ handlers[h].pc = "idle" => handlers'[h].pc # "back"
       /\ handlers'[h].pc = "judge" => handlers'[h].until <= MaxTime
  /\ \A g, h \in Handlers :
       \/ g = h \/ "idle" \in {handlers'[g].pc, handlers'[h].pc}
       \/ (handlers'[g].pc = "judge") # (handlers'[h].pc = "judge")
  /\ faults' # faults => proc' = "down" /\ \E pk \in Pubkeys : hist.until[pk] > now

FloodOrRenewal == (Flood \/ Renewal) /\ AllAcked
=============================================================================
