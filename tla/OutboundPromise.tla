-------------------------- MODULE OutboundPromise --------------------------
(***************************************************************************)
(* What the outbound path promises the code that hands it a message,       *)
(* without queue, timers, tasks or restarts: the ledger of its outcome is  *)
(* honest.  It does not promise a try: a message may be dropped or         *)
(* cancelled before one.                                                   *)
(***************************************************************************)
EXTENDS Integers, Sequences

CONSTANTS MaxAttempts, MaxAge

VARIABLES
  now,
  failures,   \* crashes, cancelled drains and database errors so far
  ledger      \* per message: status, sends acknowledged and not, time accepted

vars == <<now, failures, ledger>>

Entry == [status : {"pending", "sent", "failed", "dropped", "cancelled"},
          acks : Nat, nacks : Nat, born : Nat]

Init == now = 1 /\ failures = 0 /\ ledger = <<>>

\* A message is taken, in reality at "at" and recorded later.
Accept(at) ==
  /\ at \in 1 .. now
  /\ ledger' = Append(ledger, [status |-> "pending", acks |-> 0, nacks |-> 0,
                               born |-> at])
  /\ UNCHANGED <<now, failures>>

\* A send of message m ends.  The message is open, or an operator cancelled it
\* during the send; once it was acknowledged it takes a failure to send it again.
Acked(m) ==
  /\ ledger[m].status \in {"pending", "cancelled"}
  /\ ledger[m].acks <= failures
  /\ ledger' = [ledger EXCEPT ![m].acks = @ + 1]
  /\ UNCHANGED <<now, failures>>

Unacked(m) ==
  /\ ledger[m].status \in {"pending", "cancelled"}
  /\ ledger' = [ledger EXCEPT ![m].nacks = @ + 1]
  /\ UNCHANGED <<now, failures>>

\* The outcome is recorded, each only on its own evidence.
Settle(m, status) ==
  /\ ledger[m].status \in {"pending", "cancelled"}
  /\ \/ status = "sent" /\ ledger[m].acks >= 1
     \/ status = "failed" /\ ledger[m].nacks >= MaxAttempts
  /\ ledger' = [ledger EXCEPT ![m].status = status]
  /\ UNCHANGED <<now, failures>>

\* An operator's removal may overtake the outcome.
Cancel(m) ==
  /\ ledger' = [ledger EXCEPT ![m].status = "cancelled"]
  /\ UNCHANGED <<now, failures>>

\* A set of messages has become too old.
Expire ==
  /\ \E old \in SUBSET {m \in DOMAIN ledger : /\ ledger[m].status = "pending"
                                              /\ ledger[m].born < now - MaxAge} :
       ledger' = [m \in DOMAIN ledger |->
                    IF m \in old THEN [ledger[m] EXCEPT !.status = "dropped"]
                    ELSE ledger[m]]
  /\ UNCHANGED <<now, failures>>

Fail == failures' = failures + 1 /\ UNCHANGED <<now, ledger>>

Tick == now' = now + 1 /\ UNCHANGED <<failures, ledger>>

Next ==
  \/ \E at \in 1 .. now : Accept(at)
  \/ \E m \in DOMAIN ledger :
       \/ Acked(m) \/ Unacked(m) \/ Cancel(m)
       \/ \E status \in {"sent", "failed"} : Settle(m, status)
  \/ Expire \/ Fail \/ Tick

Spec == Init /\ [][Next]_vars
=============================================================================
