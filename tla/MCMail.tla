------------------------------- MODULE MCMail -------------------------------
(* Mail on a small instance.                                               *)
EXTENDS MailProperties, TLC

CONSTANT ann

\* A reduction: all mail is ann's, and of others nothing is heard but commands that
\* change what mail there is.
MailForAnn ==
  /\ \A i \in MailIds' : mail'[i].to = ann
  /\ \A u \in Users \ {ann} : seen'[u] < seen[u] => mail' # mail
=============================================================================
