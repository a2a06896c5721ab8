-------------------------------- MODULE Link --------------------------------
(***************************************************************************)
(* The link to the companion radio: MeshCoreTransport's callbacks, poll    *)
(* loop and reconnect supervisor, the event queue they fill, the event     *)
(* pump that empties it, and the health flags the pump keeps for the probe *)
(* of the container.                                                       *)
(*                                                                         *)
(* The meshcore library and the companion are external: the library drops  *)
(* the link at any time and may restore it by itself, reports both to      *)
(* whoever has subscribed, and raises from connect() when there is no      *)
(* connection; the companion keeps messages until they are fetched.  Left  *)
(* out are the durations (backoff, poll interval and timeouts are steps    *)
(* that happen sooner or later), messages from the station itself, which   *)
(* are dropped, the paths messages came by, and what is sent (Outbound).   *)
(***************************************************************************)
EXTENDS Naturals, Sequences, SequencesExt

CONSTANTS
  Senders,
  MaxMessages,  \* bound: messages received over the air
  MaxBacklog,   \* bound: events in the queue when the link drops or a node is heard
  MaxFaults     \* bound: ends of the process

ASSUME BoundAssumption == MaxMessages \in Nat /\ MaxBacklog \in Nat /\ MaxFaults \in Nat

VARIABLES
  proc,       \* "off", "starting": inside start(), "up": subscribed
  reachable,  \* the companion answers to connect()
  link,       \* MeshCoreTransport.radio_available
  book,       \* senders among the companion's contacts
  contacts,   \* senders the library's copy of them resolves
  inbox,      \* messages the companion holds
  ready,      \* tasks of _handle_contact_msg that have not run yet
  waiting,    \* those awaiting get_contacts
  events,     \* MeshCoreTransport._events
  pump,       \* what handle_inbound is working on, at most one message
  sup,        \* the reconnect supervisor
  poller,     \* the poll loop is alive
  connected,  \* health_state.transport_connected
  recent,     \* health_state.last_event_at is at most the heartbeat threshold old
  faults,
  hist        \* history, see Hist

radio == <<reachable, link, book, contacts, inbox>>
tasks == <<ready, waiting, pump, sup, poller>>
health == <<connected, recent>>
vars == <<proc, radio, tasks, events, health, faults, hist>>

\* Messages are told apart by the order they came over the air in.
Message == [from : Senders, no : 1 .. MaxMessages]

Notice == [kind : {"connected", "disconnected", "activity"}]
Event == Notice \cup Message

NoticeOf(kind) == [kind |-> kind]

\* Remembered for the properties only: how many messages came; which were fetched when
\* their sender was in both contact lists, and has not been pruned since; the order they
\* were handled in; those dropped because the sender stayed unknown; those lost with a
\* process.
Hist == [came : 0 .. MaxMessages, known : SUBSET Message, handled : Seq(Message),
         dropped : SUBSET Message, lost : SUBSET Message]

Init ==
  /\ proc = "off" /\ reachable \in BOOLEAN /\ link = FALSE
  /\ book \in SUBSET Senders /\ contacts = {} /\ inbox = <<>>
  /\ ready = <<>> /\ waiting = {} /\ pump = <<>> /\ sup = "sleep" /\ poller = FALSE
  /\ events = <<>>
  /\ connected = FALSE /\ recent = FALSE
  /\ faults = 0
  /\ hist = [came |-> 0, known |-> {}, handled |-> <<>>, dropped |-> {}, lost |-> {}]

-----------------------------------------------------------------------------
(* Start                                                                   *)

\* What a fetch of the contacts leaves: _run_mc gives up on a command that times out or
\* fails, and nobody looks.
Fetching(up) == {contacts} \cup (IF up THEN {book} ELSE {})

\* create_serial or create_tcp; start() raises when the companion does not answer.
Connect ==
  /\ proc = "off" /\ reachable
  /\ proc' = "starting" /\ link' = TRUE
  /\ UNCHANGED <<reachable, book, contacts, inbox, tasks, events, health, faults, hist>>

\* ensure_contacts is over, with or without the contacts, the callbacks are subscribed
\* and the tasks created; run() takes the link for granted.
Start ==
  /\ proc = "starting"
  /\ proc' = "up" /\ poller' = TRUE
  /\ contacts' \in Fetching(link)
  /\ connected' = TRUE /\ recent' = TRUE
  /\ UNCHANGED <<reachable, link, book, inbox, ready, waiting, pump, sup, events, faults, hist>>

-----------------------------------------------------------------------------
(* Callbacks and received messages                                         *)

\* _on_connected, _on_disconnected and the rest: only a subscriber is told.
Told(kind) == events' = IF proc = "up" THEN Append(events, NoticeOf(kind)) ELSE events

LinkDrops ==
  /\ link
  /\ Len(events) < MaxBacklog
  /\ link' = FALSE
  /\ Told("disconnected")
  /\ UNCHANGED <<proc, reachable, book, contacts, inbox, tasks, health, faults, hist>>

\* The library's own reconnect; _on_connected asks for the contacts again.
LibraryReconnects ==
  /\ proc # "off" /\ ~link /\ reachable
  /\ link' = TRUE
  /\ Told("connected")
  /\ contacts' \in Fetching(TRUE)
  /\ UNCHANGED <<proc, reachable, book, inbox, tasks, health, faults, hist>>

\* _on_new_contact, _on_advertisement, _emit_mesh_activity: the companion may take the
\* node up, and the library with it.
Overhear(s) ==
  /\ proc = "up" /\ link
  /\ Len(events) < MaxBacklog
  /\ Told("activity")
  /\ book' \in {book, book \cup {s}}
  /\ contacts' \in {contacts, contacts \cup (book' \cap {s})}
  /\ UNCHANGED <<proc, reachable, link, inbox, tasks, health, faults, hist>>

\* remove_contact, as far as it succeeds; the library's copy may keep what is gone.
PruneContacts(gone) ==
  /\ book' = book \ gone
  /\ contacts' \in {contacts, contacts \ gone}

\* contact_prune_job, its ten removals in one step.  When it finds the list too full is
\* left open: others are in it, and contact_capacity takes a list for full when its query
\* fails.
Prune ==
  /\ proc = "up" /\ link
  /\ \E gone \in SUBSET book \ {{}} :
       /\ PruneContacts(gone)
       /\ hist' = [hist EXCEPT !.known = {m \in @ : m.from \notin gone}]
  /\ UNCHANGED <<proc, reachable, link, inbox, tasks, events, health, faults>>

\* A message is fetched: its callback creates a task.
Fetched ==
  /\ link /\ inbox # <<>>
  /\ inbox' = Tail(inbox)
  /\ ready' = Append(ready, Head(inbox))
  /\ hist' = [hist EXCEPT !.known = IF Head(inbox).from \in contacts \cap book
                                    THEN @ \cup {Head(inbox)} ELSE @]

\* The companion announces it and auto message fetching picks it up.
Push ==
  /\ proc = "up"
  /\ Fetched
  /\ UNCHANGED <<proc, reachable, link, book, contacts, waiting, pump, sup, poller, events,
                 health, faults>>

Poll ==
  /\ poller
  /\ Fetched
  /\ UNCHANGED <<proc, reachable, link, book, contacts, waiting, pump, sup, poller, events,
                 health, faults>>

\* Mutant of PollSkips: the loop returns where it should continue.
PollReturns ==
  /\ poller /\ ~link
  /\ poller' = FALSE
  /\ UNCHANGED <<proc, radio, ready, waiting, pump, sup, events, health, faults, hist>>

\* No radio: the poll loop sleeps on.
PollSkips ==
  /\ poller /\ ~link
  /\ UNCHANGED vars

\* Mutant of Resolves: the contacts are always fetched first.
ResolvesNobody(m) == FALSE

\* get_contact_by_key_prefix
Resolves(m) == m.from \in contacts

\* _handle_contact_msg up to its first await: tasks run in the order of creation.
RunHandler ==
  /\ ready # <<>>
  /\ ready' = Tail(ready)
  /\ LET m == Head(ready) IN
     \/ /\ Resolves(m)
        /\ events' = Append(events, m)
        /\ UNCHANGED <<waiting, hist>>
     \/ /\ ~Resolves(m) /\ link
        /\ waiting' = waiting \cup {m}
        /\ UNCHANGED <<events, hist>>
     \/ /\ ~Resolves(m) /\ ~link
        /\ hist' = [hist EXCEPT !.dropped = @ \cup {m}]
        /\ UNCHANGED <<events, waiting>>
  /\ UNCHANGED <<proc, radio, pump, sup, poller, health, faults>>

\* get_contacts has filled the list; who awaits it is resumed later.
ContactsArrive ==
  /\ waiting # {} /\ link
  /\ contacts' = book
  /\ UNCHANGED <<proc, reachable, link, book, inbox, tasks, events, health, faults, hist>>

\* Mutant of Resume: what could not be resolved at once is forgotten.
ResumeForgets(m) ==
  /\ m \in waiting
  /\ waiting' = waiting \ {m}
  /\ UNCHANGED <<proc, radio, ready, pump, sup, poller, events, health, faults, hist>>

\* get_contacts has returned or timed out: one more look.
Resume(m) ==
  /\ m \in waiting
  /\ waiting' = waiting \ {m}
  /\ IF m.from \in contacts
       THEN events' = Append(events, m) /\ hist' = hist
       ELSE events' = events /\ hist' = [hist EXCEPT !.dropped = @ \cup {m}]
  /\ UNCHANGED <<proc, radio, ready, pump, sup, poller, health, faults>>

-----------------------------------------------------------------------------
(* The supervisor                                                          *)

\* Mutant of SupervisorWakes: it ends when it finds the link up.
SupervisorRetires ==
  /\ proc = "up" /\ sup = "sleep"
  /\ sup' = IF link THEN "ended" ELSE "connect"
  /\ UNCHANGED <<proc, radio, ready, waiting, pump, poller, events, health, faults, hist>>

SupervisorWakes ==
  /\ proc = "up" /\ sup = "sleep"
  /\ sup' = IF link THEN "sleep" ELSE "connect"
  /\ UNCHANGED <<proc, radio, ready, waiting, pump, poller, events, health, faults, hist>>

\* connect() restores the link, unless the library was faster, and may still time out
\* afterwards.
ConnectReturns ==
  /\ sup = "connect" /\ reachable
  /\ link' = TRUE
  /\ IF link THEN events' = events ELSE Told("connected")
  /\ sup' \in {"contacts", "sleep"}
  /\ UNCHANGED <<proc, reachable, book, contacts, inbox, ready, waiting, pump, poller, health,
                 faults, hist>>

\* It raises or times out: back to sleep, longer.
ConnectFails ==
  /\ sup = "connect" /\ ~reachable
  /\ sup' = "sleep"
  /\ UNCHANGED <<proc, radio, ready, waiting, pump, poller, events, health, faults, hist>>

\* ensure_contacts is over; the supervisor reports the link it restored, even if it is
\* gone again.
Reconnected ==
  /\ sup = "contacts"
  /\ sup' = "sleep"
  /\ contacts' \in Fetching(link)
  /\ events' = Append(events, NoticeOf("connected"))
  /\ UNCHANGED <<proc, reachable, link, book, inbox, ready, waiting, pump, poller, health,
                 faults, hist>>

-----------------------------------------------------------------------------
(* The event pump and the probe                                            *)

\* Mutant of AfterEvent: only a reconnect counts as a connection.
AfterEventUnset(e) == connected /\ e # NoticeOf("disconnected")

AfterEvent(e) ==
  (connected \/ e = NoticeOf("connected")) /\ e # NoticeOf("disconnected")

PumpTakes ==
  /\ pump = <<>> /\ events # <<>>
  /\ events' = Tail(events)
  /\ recent' = TRUE
  /\ connected' = AfterEvent(Head(events))
  /\ pump' = IF Head(events) \in Message THEN <<Head(events)>> ELSE <<>>
  /\ UNCHANGED <<proc, radio, ready, waiting, sup, poller, faults, hist>>

\* handle_inbound returns, or raises and is logged: the loop goes on.
PumpDone ==
  /\ pump # <<>>
  /\ pump' = <<>>
  /\ hist' = [hist EXCEPT !.handled = @ \o pump]
  /\ UNCHANGED <<proc, radio, ready, waiting, sup, poller, events, health, faults>>

\* The heartbeat threshold has passed since the pump took an event.
GoQuiet ==
  /\ recent
  /\ recent' = FALSE
  /\ UNCHANGED <<proc, radio, tasks, events, connected, faults, hist>>

\* _health_problems
Problems == (IF connected THEN {} ELSE {"transport_disconnected"})
              \cup (IF recent THEN {} ELSE {"no_recent_events"})

\* Mutant of Healthy: the probe trusts the flag alone.
HealthyByFlag == "transport_disconnected" \notin Problems

\* The probe is answered 200, not 503.
Healthy == Problems = {}

-----------------------------------------------------------------------------
(* Surroundings                                                            *)

\* A message comes over the air, whatever the process does.
Receive(s) ==
  /\ hist.came < MaxMessages
  /\ inbox' = Append(inbox, [from |-> s, no |-> hist.came + 1])
  /\ hist' = [hist EXCEPT !.came = @ + 1]
  /\ UNCHANGED <<proc, reachable, link, book, contacts, tasks, events, health, faults>>

Unplug ==
  /\ reachable' = ~reachable
  /\ UNCHANGED <<proc, link, book, contacts, inbox, tasks, events, health, faults, hist>>

\* The process stops, by stop() or by a crash: what it had fetched is gone.
Stop ==
  /\ proc # "off"
  /\ faults < MaxFaults
  /\ faults' = faults + 1
  /\ proc' = "off" /\ link' = FALSE /\ contacts' = {}
  /\ ready' = <<>> /\ waiting' = {} /\ pump' = <<>> /\ sup' = "sleep" /\ poller' = FALSE
  /\ events' = <<>>
  /\ connected' = FALSE /\ recent' = FALSE
  /\ hist' = [hist EXCEPT !.lost = @ \cup ToSet(ready) \cup waiting \cup ToSet(pump)
                                     \cup (ToSet(events) \cap Message)]
  /\ UNCHANGED <<reachable, book, inbox>>

SupervisorStep == SupervisorWakes \/ ConnectReturns \/ ConnectFails \/ Reconnected

Next ==
  \/ Connect \/ Start
  \/ LinkDrops \/ LibraryReconnects \/ Prune
  \/ \E s \in Senders : Overhear(s) \/ Receive(s)
  \/ Push \/ Poll \/ PollSkips
  \/ RunHandler \/ ContactsArrive
  \/ \E m \in waiting : Resume(m)
  \/ SupervisorStep
  \/ PumpTakes \/ PumpDone \/ GoQuiet
  \/ Unplug \/ Stop

\* Every task of the event loop runs on: loops wake up, awaits end by their timeouts,
\* the heartbeat threshold passes.  The library, the companion and the air owe nothing.
Fairness ==
  /\ WF_vars(RunHandler)
  /\ WF_vars(\E m \in waiting : Resume(m))
  /\ WF_vars(Poll)
  /\ WF_vars(SupervisorStep)
  /\ WF_vars(PumpTakes) /\ WF_vars(PumpDone)
  /\ WF_vars(GoQuiet)

Spec == Init /\ [][Next]_vars /\ Fairness
=============================================================================
