------------------------------- MODULE Boards -------------------------------
(***************************************************************************)
(* Boards and posts: the event pump and dashboard requests run BoardsService*)
(* and Database operations concurrently over one SQLite connection.  Each  *)
(* statement and each commit is awaited by itself.  The connection opens a *)
(* transaction at the first write; nobody ever rolls back; whoever commits,*)
(* commits what everybody has written so far.                              *)
(***************************************************************************)
EXTENDS Integers

CONSTANTS
  Slugs,           \* names of boards
  NoSlug,
  pump, Requests,  \* the tasks: the event pump, dashboard requests
  MaxPosts,        \* bound: posts ever inserted
  MaxFaults        \* bound: raising statements and ends of the process

ASSUME BoundAssumption == MaxPosts \in Nat /\ MaxFaults \in Nat

VARIABLES
  db,      \* what every statement on the connection sees
  disk,    \* what was committed last
  tasks,   \* calls in progress
  faults,
  hist     \* history, see Hist

vars == <<db, disk, tasks, faults, hist>>

Tasks == Requests \cup {pump}
PostIds == 1 .. MaxPosts

\* A board remembers the first id a post on it could get, a stand-in for created_at.
Board == [slug : Slugs, since : Nat]
Post == [id : PostIds, board_slug : Slugs, deleted : BOOLEAN]

\* Tables boards and board_posts and the AUTOINCREMENT counter of the latter.
Tables == [boards : SUBSET Board, posts : SUBSET Post, next : Nat \ {0}]

\* A call is about to run the statement it is at, and then to commit; id and done
\* are the post and whether the UPDATE found it.
Call == [pc : {"idle", "insert board", "delete posts", "delete board", "insert post",
               "flag post", "commit"},
         op : {"none", "add", "delete", "post", "unpost"},
         slug : Slugs \cup {NoSlug}, id : Nat, done : BOOLEAN]

NoCall == [pc |-> "idle", op |-> "none", slug |-> NoSlug, id |-> 0, done |-> FALSE]

\* Remembered for the properties only: posts answered OK that nobody has removed
\* since, boards whose removal was answered OK and that were not added again, and
\* how often the removal of each post was answered OK.
Hist == [kept : SUBSET PostIds, gone : SUBSET Slugs, unposted : [PostIds -> Nat]]

SlugsOf(tables) == {b.slug : b \in tables.boards}
Visible(tables) == {p \in tables.posts : ~p.deleted}
IdsOf(posts) == {p.id : p \in posts}

Init ==
  /\ db = [boards |-> {}, posts |-> {}, next |-> 1]
  /\ disk = db
  /\ tasks = [t \in Tasks |-> NoCall]
  /\ faults = 0
  /\ hist = [kept |-> {}, gone |-> {}, unposted |-> [i \in PostIds |-> 0]]

Begins(t, call) ==
  /\ tasks[t].pc = "idle"
  /\ tasks' = [tasks EXCEPT ![t] = call]
  /\ UNCHANGED <<db, disk, faults, hist>>

\* The statement t was at is done.
Proceeds(t, pc) == tasks' = [tasks EXCEPT ![t].pc = pc]

\* The statement t was at has raised IntegrityError: the call ends as it is.
Fails(t) ==
  /\ tasks' = [tasks EXCEPT ![t] = NoCall]
  /\ UNCHANGED <<db, disk, faults, hist>>

-----------------------------------------------------------------------------
(* BoardsService.add_board                                                 *)

AddBoard(t, slug) ==
  /\ slug \notin SlugsOf(db)
  /\ Begins(t, [NoCall EXCEPT !.pc = "insert board", !.op = "add", !.slug = slug])

InsertBoard(t) ==
  /\ tasks[t].pc = "insert board"
  /\ LET slug == tasks[t].slug
     IN  \/ slug \in SlugsOf(db) /\ Fails(t)
         \/ /\ slug \notin SlugsOf(db)
            /\ db' = [db EXCEPT !.boards = @ \cup {[slug |-> slug, since |-> db.next]}]
            /\ hist' = [hist EXCEPT !.gone = @ \ {slug}]
            /\ Proceeds(t, "commit")
            /\ UNCHANGED <<disk, faults>>

-----------------------------------------------------------------------------
(* BoardsService.delete_board: two statements and a commit.                *)

DeleteBoard(t, slug) ==
  /\ slug \in SlugsOf(db)
  /\ Begins(t, [NoCall EXCEPT !.pc = "delete posts", !.op = "delete", !.slug = slug])

DeletePosts(t) ==
  /\ tasks[t].pc = "delete posts"
  /\ LET theirs == {p \in db.posts : p.board_slug = tasks[t].slug}
     IN  /\ db' = [db EXCEPT !.posts = @ \ theirs]
         /\ hist' = [hist EXCEPT !.kept = @ \ IdsOf(theirs)]
  /\ Proceeds(t, "delete board")
  /\ UNCHANGED <<disk, faults>>

\* Mutant of Referenced: PRAGMA foreign_keys is not set.
Unreferenced(slug) == FALSE

\* The foreign key: no board is deleted that a post refers to, deleted posts included.
Referenced(slug) == \E p \in db.posts : p.board_slug = slug

DeleteBoardRow(t) ==
  /\ tasks[t].pc = "delete board"
  /\ LET slug == tasks[t].slug
     IN  \/ Referenced(slug) /\ Fails(t)
         \/ /\ ~Referenced(slug)
            /\ db' = [db EXCEPT !.boards = {b \in @ : b.slug # slug}]
            /\ Proceeds(t, "commit")
            /\ UNCHANGED <<disk, faults, hist>>

-----------------------------------------------------------------------------
(* BoardsService.post and the dashboard's removal of a post                *)

AddPost(t, slug) ==
  /\ slug \in SlugsOf(db)
  /\ db.next <= MaxPosts   \* bound
  /\ Begins(t, [NoCall EXCEPT !.pc = "insert post", !.op = "post", !.slug = slug])

\* Mutant of NextId: an id is used twice.
SameId == db.next

NextId == db.next + 1

InsertPost(t) ==
  /\ tasks[t].pc = "insert post"
  /\ LET slug == tasks[t].slug
     IN  \/ slug \notin SlugsOf(db) /\ Fails(t)
         \/ /\ slug \in SlugsOf(db) /\ db.next <= MaxPosts   \* bound
            /\ db' = [db EXCEPT !.posts = @ \cup {[id |-> db.next, board_slug |-> slug,
                                                   deleted |-> FALSE]},
                                !.next = NextId]
            /\ tasks' = [tasks EXCEPT ![t].pc = "commit", ![t].id = db.next]
            /\ UNCHANGED <<disk, faults, hist>>

\* get_post finds it on the board the request names, not deleted.
DeletePost(t, id) ==
  /\ t \in Requests
  /\ \E p \in Visible(db) :
       /\ p.id = id
       /\ Begins(t, [NoCall EXCEPT !.pc = "flag post", !.op = "unpost",
                                   !.slug = p.board_slug, !.id = id])

\* Mutant of Flagged: the UPDATE does not ask whether it is deleted already.
FlaggedAgain(id) == {p \in db.posts : p.id = id}

\* The row the UPDATE finds, if any.
Flagged(id) == {p \in db.posts : p.id = id /\ ~p.deleted}

FlagPost(t) ==
  /\ tasks[t].pc = "flag post"
  /\ LET found == Flagged(tasks[t].id)
     IN  /\ db' = [db EXCEPT !.posts = (@ \ found)
                                       \cup {[p EXCEPT !.deleted = TRUE] : p \in found}]
         /\ hist' = [hist EXCEPT !.kept = @ \ IdsOf(found)]
         /\ tasks' = [tasks EXCEPT ![t].pc = "commit", ![t].done = found # {}]
  /\ UNCHANGED <<disk, faults>>

-----------------------------------------------------------------------------
(* Commit, failures                                                        *)

\* What the answer that follows the commit promises.
Answered(call) ==
  [kept |-> IF call.op = "post" THEN hist.kept \cup ({call.id} \cap IdsOf(Visible(db)))
            ELSE hist.kept,
   gone |-> IF call.op = "delete" THEN hist.gone \cup ({call.slug} \ SlugsOf(db))
            ELSE hist.gone,
   unposted |-> IF call.op = "unpost" /\ call.done
                  THEN [hist.unposted EXCEPT ![call.id] = @ + 1] ELSE hist.unposted]

\* Mutant of Commit: the answer is given without one.
CommitForgotten(t) ==
  /\ tasks[t].pc = "commit"
  /\ tasks' = [tasks EXCEPT ![t] = NoCall]
  /\ hist' = Answered(tasks[t])
  /\ UNCHANGED <<db, disk, faults>>

Commit(t) ==
  /\ tasks[t].pc = "commit"
  /\ disk' = db
  /\ tasks' = [tasks EXCEPT ![t] = NoCall]
  /\ hist' = Answered(tasks[t])
  /\ UNCHANGED <<db, faults>>

\* Any other task commits: an audit entry, a rate window, a row of the queue.
CommitElsewhere ==
  /\ disk' = db
  /\ UNCHANGED <<db, tasks, faults, hist>>

\* A statement or a commit raises for a reason of its own.
StatementRaises(t) ==
  /\ tasks[t].pc # "idle"
  /\ faults < MaxFaults
  /\ faults' = faults + 1
  /\ tasks' = [tasks EXCEPT ![t] = NoCall]
  /\ UNCHANGED <<db, disk, hist>>

\* The process ends, orderly or not: Database.close commits nothing.
Restart ==
  /\ faults < MaxFaults
  /\ faults' = faults + 1
  /\ db' = disk
  /\ tasks' = [t \in Tasks |-> NoCall]
  /\ UNCHANGED <<disk, hist>>

Next ==
  \/ \E t \in Tasks, slug \in Slugs :
       AddBoard(t, slug) \/ DeleteBoard(t, slug) \/ AddPost(t, slug)
  \/ \E t \in Tasks, id \in PostIds : DeletePost(t, id)
  \/ \E t \in Tasks :
       \/ InsertBoard(t) \/ DeletePosts(t) \/ DeleteBoardRow(t)
       \/ InsertPost(t) \/ FlagPost(t) \/ Commit(t) \/ StatementRaises(t)
  \/ CommitElsewhere
  \/ Restart

Spec == Init /\ [][Next]_vars
=============================================================================
