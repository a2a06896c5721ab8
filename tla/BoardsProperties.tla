-------------------------- MODULE BoardsProperties --------------------------
(***************************************************************************)
(* What holds of boards and posts whatever the tasks interleave, whatever  *)
(* statement raises and whenever the process restarts.                     *)
(***************************************************************************)
EXTENDS Boards

\* The types of the tables: ids are given out once.
Typed(tables) ==
  /\ tables \in Tables
  /\ \A p, q \in tables.posts : p.id = q.id => p = q
  /\ \A p \in tables.posts : p.id < tables.next

\* Types; a call in progress names a board.
TypeOK ==
  /\ Typed(db) /\ Typed(disk)
  /\ tasks \in [Tasks -> Call]
  /\ \A t \in Tasks : tasks[t].pc # "idle" => tasks[t].slug \in Slugs
  /\ faults \in Nat
  /\ hist \in Hist

\* Every post, in the transaction and on disk, is on a board that exists and was
\* there before the post: a board that is deleted and added again while somebody
\* posts to it never shows a post to the one before.
Belong(tables) ==
  \A p \in tables.posts :
    \E b \in tables.boards : b.slug = p.board_slug /\ b.since <= p.id

PostsBelong == Belong(db) /\ Belong(disk)

\* What was answered OK is on disk, whoever's commit put it there and whoever fails:
\* a post nobody has removed since stays, a board deleted and not added again is gone.
AckedIsDurable ==
  \A tables \in {db, disk} :
    /\ hist.kept \subseteq IdsOf(Visible(tables))
    /\ hist.gone \cap SlugsOf(tables) = {}

\* Of several requests to remove the same post one is answered OK.
DeletedOnce == \A id \in PostIds : hist.unposted[id] <= 1
=============================================================================
