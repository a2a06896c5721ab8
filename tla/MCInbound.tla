----------------------------- MODULE MCInbound -----------------------------
(* Inbound on small instances: what the configurations cannot say.         *)
EXTENDS InboundProperties, TLC

CONSTANTS ann, bea, cas

\* Nobody is an admin, or ann and bea are; bea was made one after ann.
NoneOrTwo == {{}, {ann, bea}}
OneMoreAdmin == {{ann}, {ann, bea}}

\* The distances that differ to the gate: unknown, direct, far.
AllHops == {-1, 0, 3}
Direct == {0}

Interchangeable == Permutations(Texts) \cup Permutations(Names)

\* The run about the inbound path looks at two scenes.  With two admins: all commands
\* of three neighbours, whom no limit concerns, for three seconds that pass between
\* messages, as does what the operator does to the file and takes back.
AdminScene ==
  /\ svcAdmins' = svcAdmins /\ now' <= 3
  /\ now' # now => pump.pc = "idle"
  /\ pump'.pc # "idle" => pump'.hops = 0 /\ file' = svcAdmins /\ cfgAdmins' = svcAdmins

\* Without admins: what ann sends from any distance, all of one kind.  The clock advances
\* between messages and where it is about to be read again.
GateScene ==
  /\ file' = {}
  /\ pump'.from \in {ann, None} /\ pump'.cmd \in {None, [verb |-> "ANY", arg |-> None]}
  /\ now' # now => pump.pc \in {"idle", "inbound_hour", "throttled"}

Scenes == IF svcAdmins = {} THEN GateScene ELSE AdminScene
=============================================================================
