---------------------------- MODULE BoardsProofs ----------------------------
(***************************************************************************)
(* Proofs that, for any boards and any number of concurrent requests,      *)
(* posts and faults, ids are given out once, every post is on a board that *)
(* was there before it, what was answered OK lasts and a post's removal is *)
(* answered OK once.                                                       *)
(***************************************************************************)
EXTENDS BoardsProperties, TLAPS

USE BoundAssumption

-----------------------------------------------------------------------------
(* Calls                                                                   *)

\* What TypeOK says of the calls alone.
CallsOK ==
  /\ tasks \in [Tasks -> Call]
  /\ \A t \in Tasks : tasks[t].pc # "idle" => tasks[t].slug \in Slugs

\* A call ends: it returns, fails or raises.
LEMMA EndCall ==
  ASSUME CallsOK, NEW t \in Tasks, tasks' = [tasks EXCEPT ![t] = NoCall]
  PROVE  CallsOK'
  BY DEF CallsOK, NoCall, Call

\* A call begins or goes on, on a board.
LEMMA PutCall ==
  ASSUME CallsOK, NEW t \in Tasks, NEW c \in Call, c.slug \in Slugs,
         tasks' = [tasks EXCEPT ![t] = c]
  PROVE  CallsOK'
  BY DEF CallsOK

\* The fields of a call.
LEMMA CallFields ==
  ASSUME CallsOK, NEW t \in Tasks
  PROVE  /\ tasks[t] \in Call
         /\ tasks[t].id \in Nat /\ tasks[t].done \in BOOLEAN
         /\ tasks[t].pc # "idle" => tasks[t].slug \in Slugs
  BY DEF CallsOK, Call

\* Every step keeps the calls well formed, if the tables are typed.
LEMMA CallsStep ==
  ASSUME CallsOK, Typed(db), Next
  PROVE  CallsOK'
<1>1. ASSUME NEW t \in Tasks, NEW slug \in Slugs,
             AddBoard(t, slug) \/ DeleteBoard(t, slug) \/ AddPost(t, slug)
      PROVE  CallsOK'
  <2>1. PICK pc \in {"insert board", "delete posts", "insert post"},
             op \in {"add", "delete", "post"} :
          Begins(t, [NoCall EXCEPT !.pc = pc, !.op = op, !.slug = slug])
    BY <1>1 DEF AddBoard, DeleteBoard, AddPost
  <2> DEFINE c == [NoCall EXCEPT !.pc = pc, !.op = op, !.slug = slug]
  <2>2. c \in Call /\ c.slug \in Slugs
    BY DEF NoCall, Call
  <2>3. tasks' = [tasks EXCEPT ![t] = c]
    BY <2>1 DEF Begins
  <2> HIDE DEF c
  <2>4. QED
    BY <2>2, <2>3, PutCall
<1>2. ASSUME NEW t \in Tasks, NEW id \in PostIds, DeletePost(t, id)
      PROVE  CallsOK'
  <2>1. PICK p \in Visible(db) :
          Begins(t, [NoCall EXCEPT !.pc = "flag post", !.op = "unpost",
                                   !.slug = p.board_slug, !.id = id])
    BY <1>2 DEF DeletePost
  <2>2. p.board_slug \in Slugs /\ id \in Nat
    BY DEF Typed, Tables, Visible, Post, PostIds
  <2> DEFINE c == [NoCall EXCEPT !.pc = "flag post", !.op = "unpost",
                                 !.slug = p.board_slug, !.id = id]
  <2>3. c \in Call /\ c.slug \in Slugs
    BY <2>2 DEF NoCall, Call
  <2>4. tasks' = [tasks EXCEPT ![t] = c]
    BY <2>1 DEF Begins
  <2> HIDE DEF c
  <2>5. QED
    BY <2>3, <2>4, PutCall
<1>3. ASSUME NEW t \in Tasks, tasks' = [tasks EXCEPT ![t] = NoCall]
      PROVE  CallsOK'
  BY <1>3, EndCall
<1>4. ASSUME NEW t \in Tasks, NEW pc \in {"delete board", "commit"},
             tasks[t].pc # "idle", Proceeds(t, pc)
      PROVE  CallsOK'
  <2> DEFINE c == [tasks[t] EXCEPT !.pc = pc]
  <2>1. c \in Call /\ c.slug \in Slugs
    BY <1>4, CallFields DEF Call
  <2>2. tasks' = [tasks EXCEPT ![t] = c]
    BY <1>4 DEF Proceeds, CallsOK
  <2> HIDE DEF c
  <2>3. QED
    BY <2>1, <2>2, PutCall
<1>5. ASSUME NEW t \in Tasks, InsertPost(t)
      PROVE  CallsOK'
  <2>1. CASE Fails(t)
    BY <1>3, <2>1 DEF Fails
  <2>2. CASE tasks' = [tasks EXCEPT ![t].pc = "commit", ![t].id = db.next]
    <3> DEFINE c == [tasks[t] EXCEPT !.pc = "commit", !.id = db.next]
    <3>1. db.next \in Nat
      BY DEF Typed, Tables
    <3>2. tasks[t].pc = "insert post"
      BY <1>5 DEF InsertPost
    <3>3. c \in Call /\ c.slug \in Slugs
      BY <3>1, <3>2, CallFields DEF Call
    <3>4. tasks' = [tasks EXCEPT ![t] = c]
      BY <2>2 DEF CallsOK
    <3> HIDE DEF c
    <3>5. QED
      BY <3>3, <3>4, PutCall
  <2>3. QED
    BY <1>5, <2>1, <2>2 DEF InsertPost
<1>6. ASSUME NEW t \in Tasks, FlagPost(t)
      PROVE  CallsOK'
  <2> DEFINE found == Flagged(tasks[t].id) # {}
             c == [tasks[t] EXCEPT !.pc = "commit", !.done = found]
  <2>1. tasks[t].pc = "flag post" /\ found \in BOOLEAN
    BY <1>6 DEF FlagPost
  <2>2. tasks' = [tasks EXCEPT ![t].pc = "commit", ![t].done = found]
    BY <1>6 DEF FlagPost
  <2> HIDE DEF found
  <2>3. c \in Call /\ c.slug \in Slugs
    BY <2>1, CallFields DEF Call
  <2>4. tasks' = [tasks EXCEPT ![t] = c]
    BY <2>2 DEF CallsOK
  <2> HIDE DEF c
  <2>5. QED
    BY <2>3, <2>4, PutCall
<1>7. CASE Restart
  BY <1>7 DEF Restart, CallsOK, NoCall, Call
<1>8. CASE CommitElsewhere
  BY <1>8 DEF CommitElsewhere, CallsOK
<1>9. QED
  BY <1>1, <1>2, <1>3, <1>4, <1>5, <1>6, <1>7, <1>8
     DEF Next, InsertBoard, DeletePosts, DeleteBoardRow, Commit, StatementRaises, Fails

-----------------------------------------------------------------------------
(* Tables                                                                  *)

\* No board is younger than the next post, so that a post is younger than its board.
NoneYounger(tables) == \A b \in tables.boards : b.since <= tables.next

\* The inductive invariant of the tables, in the transaction as on disk.
Sound(tables) == Typed(tables) /\ Belong(tables) /\ NoneYounger(tables)

\* Each statement keeps the tables sound.
LEMMA InsertBoardSound ==
  ASSUME NEW tables, NEW after, NEW slug \in Slugs, Sound(tables),
         after = [tables EXCEPT !.boards = @ \cup {[slug |-> slug, since |-> tables.next]}]
  PROVE  Sound(after)
  BY DEF Sound, Typed, Belong, NoneYounger, Tables, Board

\* The first DELETE of delete_board, of all posts of the board.
LEMMA DeletePostsSound ==
  ASSUME NEW tables, NEW after, NEW theirs, Sound(tables),
         after = [tables EXCEPT !.posts = @ \ theirs]
  PROVE  Sound(after)
  BY DEF Sound, Typed, Belong, NoneYounger, Tables

\* The second, once no post of the board is left.
LEMMA DeleteBoardSound ==
  ASSUME NEW tables, NEW after, NEW slug, Sound(tables),
         \A p \in tables.posts : p.board_slug # slug,
         after = [tables EXCEPT !.boards = {b \in @ : b.slug # slug}]
  PROVE  Sound(after)
  BY DEF Sound, Typed, Belong, NoneYounger, Tables

\* A post under a board that exists, with the next id.
LEMMA InsertPostSound ==
  ASSUME NEW tables, NEW after, NEW slug \in Slugs, Sound(tables),
         slug \in SlugsOf(tables), tables.next <= MaxPosts,
         after = [tables EXCEPT !.posts = @ \cup {[id |-> tables.next, board_slug |-> slug,
                                                   deleted |-> FALSE]},
                                !.next = tables.next + 1]
  PROVE  Sound(after)
<1> DEFINE new == [id |-> tables.next, board_slug |-> slug, deleted |-> FALSE]
<1>0. /\ tables.next \in Nat \ {0} /\ tables.boards \subseteq Board
      /\ tables.posts \subseteq Post
  BY DEF Sound, Typed, Tables
<1>1. /\ after.boards = tables.boards
      /\ after.posts = tables.posts \cup {new}
      /\ after.next = tables.next + 1
      /\ after = [boards |-> after.boards, posts |-> after.posts, next |-> after.next]
  BY DEF Sound, Typed, Tables
<1>2. Typed(after)
  <2>0. tables.next \in PostIds /\ tables.next + 1 \in Nat \ {0}
    BY <1>0 DEF PostIds
  <2>1. new \in Post /\ new.id = tables.next
    BY <2>0 DEF Post
  <2>2. after \in Tables
    BY <1>0, <1>1, <2>0, <2>1 DEF Tables
  <2>3. \A p \in tables.posts : p.id < tables.next /\ p.id \in Nat
    BY <1>0 DEF Sound, Typed, Post, PostIds
  <2>4. \A p \in after.posts : p.id < after.next
    <3>1. TAKE p \in after.posts
    <3>2. CASE p \in tables.posts
      BY <1>0, <1>1, <2>3, <3>2
    <3>3. CASE p = new
      BY <1>0, <1>1, <2>1, <3>3
    <3>4. QED
      BY <1>1, <3>2, <3>3
  <2>5. \A p, q \in after.posts : p.id = q.id => p = q
    <3>1. \A p, q \in tables.posts : p.id = q.id => p = q
      BY DEF Sound, Typed
    <3>2. \A p \in tables.posts : p.id # new.id
      BY <1>0, <2>1, <2>3
    <3> HIDE DEF new
    <3>3. QED
      BY <1>1, <3>1, <3>2
  <2>6. QED
    BY <2>2, <2>4, <2>5 DEF Typed
<1>3. Belong(after)
  <2>1. PICK b \in tables.boards : b.slug = slug
    BY DEF SlugsOf
  <2>2. b.since <= new.id
    BY DEF Sound, NoneYounger
  <2>3. QED
    BY <1>1, <2>1, <2>2 DEF Sound, Belong
<1>4. NoneYounger(after)
  BY <1>1 DEF Sound, NoneYounger, Typed, Tables, Board
<1>5. QED
  BY <1>2, <1>3, <1>4 DEF Sound

\* The button of the dashboard sets a flag of one post.
LEMMA FlagPostSound ==
  ASSUME NEW tables, NEW after, NEW id, Sound(tables),
         NEW found, found = {p \in tables.posts : p.id = id /\ ~p.deleted},
         after = [tables EXCEPT !.posts =
                    (@ \ found) \cup {[p EXCEPT !.deleted = TRUE] : p \in found}]
  PROVE  Sound(after)
<1>1. /\ after.boards = tables.boards /\ after.next = tables.next
      /\ after.posts = (tables.posts \ found)
                       \cup {[p EXCEPT !.deleted = TRUE] : p \in found}
  BY DEF Sound, Typed, Tables
<1>2. \A p \in tables.posts : /\ [p EXCEPT !.deleted = TRUE] \in Post
                              /\ [p EXCEPT !.deleted = TRUE].id = p.id
                              /\ [p EXCEPT !.deleted = TRUE].board_slug = p.board_slug
  BY DEF Sound, Typed, Tables, Post
\* What each post of the new table was.
<1>3. \A q \in after.posts :
        /\ q \in Post
        /\ \E p \in tables.posts :
             /\ q.id = p.id /\ q.board_slug = p.board_slug
             /\ q = IF p.id = id /\ ~p.deleted THEN [p EXCEPT !.deleted = TRUE] ELSE p
  <2>1. TAKE q \in after.posts
  <2>2. CASE q \in tables.posts \ found
    BY <2>2 DEF Sound, Typed, Tables
  <2>3. CASE q \in {[p EXCEPT !.deleted = TRUE] : p \in found}
    BY <1>2, <2>3
  <2>4. QED
    BY <1>1, <2>2, <2>3
<1>4. after \in Tables
  BY <1>3 DEF Sound, Typed, Tables
<1>5. \A p, q \in after.posts : p.id = q.id => p = q
  <2>1. TAKE p, q \in after.posts
  <2>2. HAVE p.id = q.id
  <2>3. PICK p0 \in tables.posts :
          /\ p.id = p0.id
          /\ p = IF p0.id = id /\ ~p0.deleted THEN [p0 EXCEPT !.deleted = TRUE] ELSE p0
    BY <1>3
  <2>4. PICK q0 \in tables.posts :
          /\ q.id = q0.id
          /\ q = IF q0.id = id /\ ~q0.deleted THEN [q0 EXCEPT !.deleted = TRUE] ELSE q0
    BY <1>3
  <2>5. p0 = q0
    BY <2>2, <2>3, <2>4 DEF Sound, Typed
  <2>6. QED
    BY <2>3, <2>4, <2>5
<1>6. \A p \in after.posts : p.id < after.next
  BY <1>1, <1>3 DEF Sound, Typed
<1>7. Belong(after)
  BY <1>1, <1>3 DEF Sound, Belong
<1>8. NoneYounger(after)
  BY <1>1 DEF Sound, NoneYounger
<1>9. QED
  BY <1>4, <1>5, <1>6, <1>7, <1>8 DEF Sound, Typed

\* Every step leaves the transaction sound, and the disk with what one of them was.
LEMMA TablesStep ==
  ASSUME CallsOK, Sound(db), Sound(disk), Next
  PROVE  Sound(db)' /\ Sound(disk)'
<1>1. ASSUME NEW t \in Tasks, InsertBoard(t) PROVE Sound(db)' /\ Sound(disk)'
  BY <1>1, CallFields, InsertBoardSound DEF InsertBoard, Fails
<1>2. ASSUME NEW t \in Tasks, DeletePosts(t) PROVE Sound(db)' /\ Sound(disk)'
  BY <1>2, DeletePostsSound DEF DeletePosts
<1>3. ASSUME NEW t \in Tasks, DeleteBoardRow(t) PROVE Sound(db)' /\ Sound(disk)'
  BY <1>3, DeleteBoardSound DEF DeleteBoardRow, Fails, Referenced
<1>4. ASSUME NEW t \in Tasks, InsertPost(t) PROVE Sound(db)' /\ Sound(disk)'
  <2>1. CASE Fails(t)
    BY <2>1 DEF Fails, Sound, Typed, Belong, NoneYounger
  <2>2. CASE ~Fails(t)
    <3> DEFINE slug == tasks[t].slug
    <3>1. /\ slug \in SlugsOf(db) /\ db.next <= MaxPosts /\ disk' = disk
          /\ db' = [db EXCEPT !.posts = @ \cup {[id |-> db.next, board_slug |-> slug,
                                                 deleted |-> FALSE]},
                              !.next = db.next + 1]
      BY <1>4, <2>2 DEF InsertPost, NextId
    <3>2. slug \in Slugs
      BY <1>4, CallFields DEF InsertPost
    <3>3. Sound(db')
      BY <3>1, <3>2, InsertPostSound
    <3>4. QED
      BY <3>1, <3>3 DEF Sound, Typed, Belong, NoneYounger
  <2>3. QED
    BY <2>1, <2>2
<1>5. ASSUME NEW t \in Tasks, FlagPost(t) PROVE Sound(db)' /\ Sound(disk)'
  BY <1>5, FlagPostSound DEF FlagPost, Flagged
<1>6. CASE UNCHANGED <<db, disk>>
  BY <1>6
<1>7. CASE disk' = db /\ db' = db
  BY <1>7
<1>8. CASE Restart
  BY <1>8 DEF Restart
<1>9. QED
  BY <1>1, <1>2, <1>3, <1>4, <1>5, <1>6, <1>7, <1>8
     DEF Next, AddBoard, DeleteBoard, AddPost, DeletePost, Begins, Commit,
         CommitElsewhere, StatementRaises

-----------------------------------------------------------------------------
(* History                                                                 *)

\* What an answer adds to the history is typed.
LEMMA AnsweredType ==
  ASSUME Typed(db), hist \in Hist, NEW call \in Call, call.slug \in Slugs
  PROVE  Answered(call) \in Hist
<1>1. IdsOf(Visible(db)) \subseteq PostIds
  BY DEF Typed, Tables, Post, IdsOf, Visible
<1>2. Answered(call).kept \subseteq PostIds
  BY <1>1 DEF Answered, Hist
<1>3. Answered(call).gone \subseteq Slugs
  BY DEF Answered, Hist
<1>4. Answered(call).unposted \in [PostIds -> Nat]
  <2>1. hist.unposted \in [PostIds -> Nat]
    BY DEF Hist
  <2>2. [hist.unposted EXCEPT ![call.id] = @ + 1] \in [PostIds -> Nat]
    <3>1. CASE call.id \in PostIds
      BY <2>1, <3>1
    <3>2. CASE call.id \notin PostIds
      BY <2>1, <3>2
    <3>3. QED
      BY <3>1, <3>2
  <2>3. QED
    BY <2>1, <2>2 DEF Answered
<1>5. QED
  BY <1>2, <1>3, <1>4 DEF Answered, Hist

\* Every step keeps the history typed.
LEMMA HistStep ==
  ASSUME CallsOK, Typed(db), hist \in Hist, Next
  PROVE  hist' \in Hist
<1>1. ASSUME NEW t \in Tasks, Commit(t) PROVE hist' \in Hist
  BY <1>1, CallFields, AnsweredType DEF Commit
<1>2. ASSUME NEW t \in Tasks, InsertBoard(t) PROVE hist' \in Hist
  BY <1>2 DEF InsertBoard, Fails, Hist
<1>3. ASSUME NEW t \in Tasks, DeletePosts(t) \/ FlagPost(t) PROVE hist' \in Hist
  <2>1. PICK lost : hist' = [hist EXCEPT !.kept = @ \ lost]
    BY <1>3 DEF DeletePosts, FlagPost
  <2>2. QED
    BY <2>1 DEF Hist
<1>4. ASSUME NEW t \in Tasks,
             DeleteBoardRow(t) \/ InsertPost(t) \/ StatementRaises(t)
      PROVE  hist' = hist
  BY <1>4 DEF DeleteBoardRow, InsertPost, StatementRaises, Fails
<1>5. ASSUME NEW t \in Tasks, NEW slug \in Slugs,
             AddBoard(t, slug) \/ DeleteBoard(t, slug) \/ AddPost(t, slug)
      PROVE  hist' = hist
  BY <1>5 DEF AddBoard, DeleteBoard, AddPost, Begins
<1>6. ASSUME NEW t \in Tasks, NEW id \in PostIds, DeletePost(t, id) PROVE hist' = hist
  BY <1>6 DEF DeletePost, Begins
<1>7. CASE CommitElsewhere \/ Restart
  BY <1>7 DEF CommitElsewhere, Restart
<1>8. QED
  BY <1>1, <1>2, <1>3, <1>4, <1>5, <1>6, <1>7 DEF Next

\* Faults are counted, whatever happens.
LEMMA FaultsStep == faults \in Nat /\ Next => faults' \in Nat
<1> SUFFICES ASSUME faults \in Nat, Next PROVE faults' \in Nat
  OBVIOUS
<1>1. ASSUME NEW t \in Tasks, StatementRaises(t) PROVE faults' \in Nat
  BY <1>1 DEF StatementRaises
<1>2. ASSUME NEW t \in Tasks,
             \/ InsertBoard(t) \/ DeletePosts(t) \/ DeleteBoardRow(t)
             \/ InsertPost(t) \/ FlagPost(t) \/ Commit(t)
      PROVE  faults' = faults
  BY <1>2 DEF InsertBoard, DeletePosts, DeleteBoardRow, InsertPost, FlagPost, Commit, Fails
<1>3. ASSUME NEW t \in Tasks, NEW slug \in Slugs,
             AddBoard(t, slug) \/ DeleteBoard(t, slug) \/ AddPost(t, slug)
      PROVE  faults' = faults
  BY <1>3 DEF AddBoard, DeleteBoard, AddPost, Begins
<1>4. ASSUME NEW t \in Tasks, NEW id \in PostIds, DeletePost(t, id)
      PROVE  faults' = faults
  BY <1>4 DEF DeletePost, Begins
<1>5. CASE CommitElsewhere \/ Restart
  BY <1>5 DEF CommitElsewhere, Restart
<1>6. QED
  BY <1>1, <1>2, <1>3, <1>4, <1>5 DEF Next

-----------------------------------------------------------------------------
(* Removals of posts                                                       *)

\* The request has removed a post and is about to commit.
Removing(t) == tasks[t].pc = "commit" /\ tasks[t].op = "unpost" /\ tasks[t].done

\* A post whose removal was answered, or is about to be, was given out and cannot be
\* found any more: the ones answered neither in the transaction nor on disk.
Removed ==
  /\ \A t \in Tasks : tasks[t].pc # "commit" => ~tasks[t].done
  /\ \A t \in Tasks : Removing(t) =>
       /\ tasks[t].id \in PostIds => hist.unposted[tasks[t].id] = 0
       /\ tasks[t].id \notin IdsOf(Visible(db)) /\ tasks[t].id < db.next
       /\ \A s \in Tasks \ {t} : Removing(s) => tasks[s].id # tasks[t].id
  /\ \A id \in PostIds : hist.unposted[id] # 0 =>
       /\ hist.unposted[id] = 1
       /\ id \notin IdsOf(Visible(db)) \cup IdsOf(Visible(disk))
       /\ id < db.next /\ id < disk.next

\* What is visible after each statement on the tables.
LEMMA InsertPostVisible ==
  ASSUME Typed(db), NEW t \in Tasks, InsertPost(t), ~Fails(t)
  PROVE  /\ IdsOf(Visible(db')) = IdsOf(Visible(db)) \cup {db.next}
         /\ db'.next = db.next + 1 /\ db.next \in Nat
<1> DEFINE new == [id |-> db.next, board_slug |-> tasks[t].slug, deleted |-> FALSE]
<1>1. db' = [db EXCEPT !.posts = @ \cup {new}, !.next = db.next + 1]
  BY DEF InsertPost, NextId
<1>2. db'.posts = db.posts \cup {new} /\ db'.next = db.next + 1 /\ db.next \in Nat
  BY <1>1 DEF Typed, Tables
<1>3. ~new.deleted /\ new.id = db.next
  OBVIOUS
<1> HIDE DEF new
<1>4. Visible(db') = Visible(db) \cup {new}
  BY <1>2, <1>3 DEF Visible
<1>5. QED
  BY <1>2, <1>3, <1>4 DEF IdsOf

\* After that it is not seen any more, and nothing else changes.
LEMMA FlagPostVisible ==
  ASSUME Typed(db), NEW t \in Tasks, FlagPost(t)
  PROVE  /\ IdsOf(Visible(db')) = IdsOf(Visible(db)) \ {tasks[t].id}
         /\ IdsOf(Flagged(tasks[t].id)) = IdsOf(Visible(db)) \cap {tasks[t].id}
         /\ db'.next = db.next
<1> DEFINE found == Flagged(tasks[t].id)
<1>1. found = {p \in Visible(db) : p.id = tasks[t].id}
  BY DEF Flagged, Visible
<1>2. db' = [db EXCEPT !.posts = (@ \ found) \cup {[p EXCEPT !.deleted = TRUE] : p \in found}]
  BY DEF FlagPost
<1>3. /\ db'.posts = (db.posts \ found) \cup {[p EXCEPT !.deleted = TRUE] : p \in found}
      /\ db'.next = db.next
  BY <1>2 DEF Typed, Tables
<1>4. \A p \in found : [p EXCEPT !.deleted = TRUE].deleted
  BY <1>1 DEF Visible, Typed, Tables, Post
<1>5. Visible(db') = Visible(db) \ found
  BY <1>3, <1>4 DEF Visible
<1>6. QED
  BY <1>1, <1>3, <1>5 DEF IdsOf

\* No other statement but the INSERT of a post shows a post.
LEMMA OthersVisible ==
  ASSUME Typed(db), NEW t \in Tasks, InsertBoard(t) \/ DeletePosts(t) \/ DeleteBoardRow(t)
  PROVE  IdsOf(Visible(db')) \subseteq IdsOf(Visible(db)) /\ db'.next = db.next
<1>1. db'.posts \subseteq db.posts /\ db'.next = db.next
  BY DEF InsertBoard, DeletePosts, DeleteBoardRow, Fails, Typed, Tables
<1>2. QED
  BY <1>1 DEF IdsOf, Visible

\* A step that leaves no new removal behind and makes nothing visible but new ids.
LEMMA NothingRemoved ==
  ASSUME Removed, CallsOK, hist'.unposted = hist.unposted,
         \A t \in Tasks : \/ tasks'[t].done = tasks[t].done /\ tasks'[t].op = tasks[t].op
                             /\ tasks'[t].id = tasks[t].id
                             /\ (tasks[t].pc = "commit" <=> tasks'[t].pc = "commit")
                          \/ ~tasks'[t].done,
         db.next \in Nat, db'.next \in Nat, db.next <= db'.next,
         \A id \in Nat : id \in IdsOf(Visible(db')) =>
                           id \in IdsOf(Visible(db)) \/ id >= db.next,
         disk' = disk \/ (disk' = db /\ db' = db)
  PROVE  Removed'
<1>1. \A t \in Tasks : tasks'[t].pc # "commit" => ~tasks'[t].done
  BY DEF Removed
<1>2. ASSUME NEW t \in Tasks, Removing(t)'
      PROVE  Removing(t) /\ tasks'[t].id = tasks[t].id
  BY <1>2 DEF Removing
<1>3. \A t \in Tasks : tasks[t].id \in Nat
  BY CallFields
<1>4. ASSUME NEW t \in Tasks, Removing(t)'
      PROVE  /\ tasks'[t].id \in PostIds => hist'.unposted[tasks'[t].id] = 0
             /\ tasks'[t].id \notin IdsOf(Visible(db')) /\ tasks'[t].id < db'.next
             /\ \A s \in Tasks \ {t} : Removing(s)' => tasks'[s].id # tasks'[t].id
  BY <1>2, <1>3, <1>4 DEF Removed
<1>5. ASSUME NEW id \in PostIds, hist'.unposted[id] # 0
      PROVE  /\ hist'.unposted[id] = 1
             /\ id \notin IdsOf(Visible(db')) \cup IdsOf(Visible(disk'))
             /\ id < db'.next /\ id < disk'.next
  <2>1. id \in Nat
    BY DEF PostIds
  <2>2. QED
    BY <1>5, <2>1 DEF Removed
<1>6. QED
  BY <1>1, <1>4, <1>5 DEF Removed, IdsOf, Visible

\* Every step keeps Removed.
LEMMA RemovedStep ==
  ASSUME CallsOK, Typed(db), Typed(disk), hist \in Hist, Removed, Next
  PROVE  Removed'
<1>0. db.next \in Nat /\ disk.next \in Nat
  BY DEF Typed, Tables
<1>1. ASSUME NEW t \in Tasks, Commit(t)
      PROVE  Removed'
  <2>1. /\ tasks[t].pc = "commit" /\ disk' = db /\ db' = db
        /\ tasks' = [tasks EXCEPT ![t] = NoCall]
        /\ hist'.unposted = IF Removing(t)
                              THEN [hist.unposted EXCEPT ![tasks[t].id] = @ + 1]
                              ELSE hist.unposted
    BY <1>1 DEF Commit, Answered, Removing
  <2>2. /\ \A s \in Tasks \ {t} : tasks'[s] = tasks[s]
        /\ ~tasks'[t].done /\ tasks'[t].pc # "commit"
    BY <2>1 DEF CallsOK, NoCall
  <2>3. CASE ~Removing(t)
    BY <1>0, <2>1, <2>2, <2>3, NothingRemoved
  <2>4. CASE Removing(t)
    <3> DEFINE gone == tasks[t].id
    <3>1. /\ gone \notin IdsOf(Visible(db)) /\ gone < db.next
          /\ gone \in PostIds => hist.unposted[gone] = 0
          /\ \A s \in Tasks \ {t} : Removing(s) => tasks[s].id # gone
      BY <2>4 DEF Removed
    <3>2. \A id \in PostIds : hist'.unposted[id] = IF id = gone THEN 1 ELSE hist.unposted[id]
      BY <2>1, <2>4, <3>1 DEF Hist
    <3>3. ASSUME NEW s \in Tasks, Removing(s)'
          PROVE  s # t /\ Removing(s) /\ tasks'[s].id = tasks[s].id
      BY <2>2, <3>3 DEF Removing
    <3> HIDE DEF gone
    <3>4. \A s \in Tasks : tasks'[s].pc # "commit" => ~tasks'[s].done
      BY <2>2 DEF Removed
    <3>5. ASSUME NEW s \in Tasks, Removing(s)'
          PROVE  /\ tasks'[s].id \in PostIds => hist'.unposted[tasks'[s].id] = 0
                 /\ tasks'[s].id \notin IdsOf(Visible(db')) /\ tasks'[s].id < db'.next
                 /\ \A r \in Tasks \ {s} : Removing(r)' => tasks'[r].id # tasks'[s].id
      BY <2>1, <3>1, <3>2, <3>3, <3>5 DEF Removed
    <3>6. ASSUME NEW id \in PostIds, hist'.unposted[id] # 0
          PROVE  /\ hist'.unposted[id] = 1
                 /\ id \notin IdsOf(Visible(db')) \cup IdsOf(Visible(disk'))
                 /\ id < db'.next /\ id < disk'.next
      BY <2>1, <3>1, <3>2, <3>6 DEF Removed
    <3>7. QED
      BY <3>4, <3>5, <3>6 DEF Removed, IdsOf, Visible
  <2>5. QED
    BY <2>3, <2>4
<1>2. ASSUME NEW t \in Tasks, FlagPost(t)
      PROVE  Removed'
  <2> DEFINE id == tasks[t].id
             found == Flagged(id) # {}
  <2>1. /\ tasks[t].pc = "flag post" /\ disk' = disk
        /\ tasks' = [tasks EXCEPT ![t] = [tasks[t] EXCEPT !.pc = "commit", !.done = found]]
        /\ hist'.unposted = hist.unposted
    BY <1>2 DEF FlagPost, CallsOK, Hist
  <2>2. /\ \A s \in Tasks \ {t} : tasks'[s] = tasks[s]
        /\ tasks'[t].id = id /\ tasks'[t].done = found /\ tasks'[t].pc = "commit"
    BY <2>1, CallFields DEF CallsOK, Call
  <2>3. /\ IdsOf(Visible(db')) = IdsOf(Visible(db)) \ {id}
        /\ db'.next = db.next
        /\ found => id \in IdsOf(Visible(db))
    BY <1>2, FlagPostVisible DEF IdsOf
  <2>4. id \in IdsOf(Visible(db)) => id < db.next /\ id \in PostIds
    BY DEF IdsOf, Visible, Typed, Tables, Post
  <2> HIDE DEF id, found
  <2>5. ASSUME NEW s \in Tasks, Removing(s)', s # t
        PROVE  Removing(s) /\ tasks'[s].id = tasks[s].id
    BY <2>2, <2>5 DEF Removing
  <2>6. Removing(t)' => found
    BY <2>2 DEF Removing
  <2>7. found => /\ hist.unposted[id] = 0
                 /\ \A s \in Tasks : Removing(s) => tasks[s].id # id
    BY <2>3, <2>4 DEF Removed
  <2>8. \A s \in Tasks : tasks'[s].pc # "commit" => ~tasks'[s].done
    BY <2>2 DEF Removed
  <2>9. ASSUME NEW s \in Tasks, Removing(s)'
        PROVE  /\ tasks'[s].id \in PostIds => hist'.unposted[tasks'[s].id] = 0
               /\ tasks'[s].id \notin IdsOf(Visible(db')) /\ tasks'[s].id < db'.next
               /\ \A r \in Tasks \ {s} : Removing(r)' => tasks'[r].id # tasks'[s].id
    <3>1. CASE s = t
      BY <2>1, <2>2, <2>3, <2>4, <2>5, <2>6, <2>7, <2>9, <3>1
    <3>2. CASE s # t
      <4>1. Removing(s) /\ tasks'[s].id = tasks[s].id
        BY <2>5, <2>9, <3>2
      <4>2. Removing(t)' => tasks'[t].id # tasks'[s].id
        BY <2>2, <2>6, <2>7, <4>1
      <4>3. \A r \in Tasks \ {s, t} : Removing(r)' => tasks'[r].id # tasks'[s].id
        BY <2>5, <4>1 DEF Removed
      <4>4. \A r \in Tasks \ {s} : Removing(r)' => tasks'[r].id # tasks'[s].id
        BY <4>2, <4>3
      <4>5. QED
        BY <2>1, <2>3, <4>1, <4>4 DEF Removed
    <3>3. QED
      BY <3>1, <3>2
  <2>10. ASSUME NEW i \in PostIds, hist'.unposted[i] # 0
         PROVE  /\ hist'.unposted[i] = 1
                /\ i \notin IdsOf(Visible(db')) \cup IdsOf(Visible(disk'))
                /\ i < db'.next /\ i < disk'.next
    BY <2>1, <2>3, <2>10 DEF Removed
  <2>11. QED
    BY <2>8, <2>9, <2>10 DEF Removed, IdsOf, Visible
<1>3. ASSUME NEW t \in Tasks, InsertPost(t)
      PROVE  Removed'
  <2>1. CASE Fails(t)
    <3>1. /\ \A s \in Tasks \ {t} : tasks'[s] = tasks[s]
          /\ ~tasks'[t].done /\ UNCHANGED <<db, disk, hist>>
      BY <2>1 DEF Fails, CallsOK, NoCall
    <3>2. QED
      BY <1>0, <3>1, NothingRemoved
  <2>2. CASE ~Fails(t)
    <3>1. tasks[t].pc = "insert post" /\ disk' = disk /\ hist' = hist
      BY <1>3, <2>2 DEF InsertPost
    <3>2. tasks' = [tasks EXCEPT ![t] = [tasks[t] EXCEPT !.pc = "commit", !.id = db.next]]
      BY <1>3, <2>2 DEF InsertPost, CallsOK
    <3>3. ~tasks[t].done
      BY <3>1 DEF Removed
    <3>4. /\ \A s \in Tasks \ {t} : tasks'[s] = tasks[s]
          /\ ~tasks'[t].done
      BY <3>2, <3>3, CallFields DEF CallsOK, Call
    <3>5. /\ IdsOf(Visible(db')) = IdsOf(Visible(db)) \cup {db.next}
          /\ db'.next = db.next + 1
      BY <1>3, <2>2, InsertPostVisible
    <3>6. /\ db'.next \in Nat /\ db.next <= db'.next
          /\ \A id \in Nat : id \in IdsOf(Visible(db')) =>
                               id \in IdsOf(Visible(db)) \/ id >= db.next
      BY <1>0, <3>5
    <3>7. hist'.unposted = hist.unposted
      BY <3>1
    <3>8. QED
      BY <1>0, <3>1, <3>4, <3>6, <3>7, NothingRemoved
  <2>3. QED
    BY <2>1, <2>2
<1>4. ASSUME NEW t \in Tasks, InsertBoard(t) \/ DeletePosts(t) \/ DeleteBoardRow(t)
      PROVE  Removed'
  <2>1. /\ \A s \in Tasks \ {t} : tasks'[s] = tasks[s]
        /\ ~tasks'[t].done
    <3>1. ~tasks[t].done
      BY <1>4 DEF InsertBoard, DeletePosts, DeleteBoardRow, Removed
    <3>2. CASE tasks' = [tasks EXCEPT ![t] = NoCall]
      BY <3>2 DEF NoCall, CallsOK
    <3>3. ASSUME NEW pc, tasks' = [tasks EXCEPT ![t].pc = pc]
          PROVE  /\ \A s \in Tasks \ {t} : tasks'[s] = tasks[s]
                 /\ ~tasks'[t].done
      BY <3>1, <3>3, CallFields DEF CallsOK, Call
    <3>4. QED
      BY <1>4, <3>2, <3>3 DEF InsertBoard, DeletePosts, DeleteBoardRow, Fails, Proceeds
  <2>2. IdsOf(Visible(db')) \subseteq IdsOf(Visible(db)) /\ db'.next = db.next
    BY <1>4, OthersVisible
  <2>3. disk' = disk /\ hist'.unposted = hist.unposted
    BY <1>4 DEF InsertBoard, DeletePosts, DeleteBoardRow, Fails, Hist
  <2>4. QED
    BY <1>0, <2>1, <2>2, <2>3, NothingRemoved
<1>5. ASSUME NEW t \in Tasks, NEW call, ~call.done, tasks' = [tasks EXCEPT ![t] = call],
             UNCHANGED <<db, disk, hist>>
      PROVE  Removed'
  <2>1. /\ \A s \in Tasks \ {t} : tasks'[s] = tasks[s]
        /\ ~tasks'[t].done
    BY <1>5 DEF CallsOK
  <2>2. QED
    BY <1>0, <1>5, <2>1, NothingRemoved
<1>6. ASSUME NEW t \in Tasks, NEW slug \in Slugs,
             AddBoard(t, slug) \/ DeleteBoard(t, slug) \/ AddPost(t, slug)
      PROVE  Removed'
  <2>1. PICK pc \in {"insert board", "delete posts", "insert post"},
             op \in {"add", "delete", "post"} :
          Begins(t, [NoCall EXCEPT !.pc = pc, !.op = op, !.slug = slug])
    BY <1>6 DEF AddBoard, DeleteBoard, AddPost
  <2> DEFINE call == [NoCall EXCEPT !.pc = pc, !.op = op, !.slug = slug]
  <2>2. ~call.done
    BY DEF NoCall
  <2>3. tasks' = [tasks EXCEPT ![t] = call] /\ UNCHANGED <<db, disk, hist>>
    BY <2>1 DEF Begins
  <2> HIDE DEF call
  <2>4. QED
    BY <1>5, <2>2, <2>3
<1>7. ASSUME NEW t \in Tasks, NEW id \in PostIds, DeletePost(t, id)
      PROVE  Removed'
  <2>1. PICK p \in Visible(db) :
          Begins(t, [NoCall EXCEPT !.pc = "flag post", !.op = "unpost",
                                   !.slug = p.board_slug, !.id = id])
    BY <1>7 DEF DeletePost
  <2> DEFINE call == [NoCall EXCEPT !.pc = "flag post", !.op = "unpost",
                                    !.slug = p.board_slug, !.id = id]
  <2>2. ~call.done
    BY DEF NoCall
  <2>3. tasks' = [tasks EXCEPT ![t] = call] /\ UNCHANGED <<db, disk, hist>>
    BY <2>1 DEF Begins
  <2> HIDE DEF call
  <2>4. QED
    BY <1>5, <2>2, <2>3
<1>8. ASSUME NEW t \in Tasks, StatementRaises(t)
      PROVE  Removed'
  <2>1. ~NoCall.done
    BY DEF NoCall
  <2>2. QED
    BY <1>5, <1>8, <2>1 DEF StatementRaises
<1>9. CASE CommitElsewhere
  BY <1>0, <1>9, NothingRemoved DEF CommitElsewhere
<1>10. CASE Restart
  <2>1. \A t \in Tasks : ~tasks'[t].done
    BY <1>10 DEF Restart, NoCall
  <2>2. db' = disk /\ disk' = disk /\ hist' = hist
    BY <1>10 DEF Restart
  <2>3. QED
    BY <2>1, <2>2 DEF Removed, Removing
<1>11. QED
  BY <1>1, <1>2, <1>3, <1>4, <1>6, <1>7, <1>8, <1>9, <1>10 DEF Next

-----------------------------------------------------------------------------
(* What was answered OK                                                    *)

\* What was answered OK shows in the tables.
Lasts(tables, answers) ==
  /\ answers.kept \subseteq IdsOf(Visible(tables))
  /\ answers.gone \cap SlugsOf(tables) = {}

\* Every step keeps what was answered OK, in the transaction and on disk.
LEMMA AckedStep ==
  ASSUME CallsOK, Typed(db), Typed(disk), hist \in Hist, AckedIsDurable, Next
  PROVE  AckedIsDurable'
<1>0. Lasts(db, hist) /\ Lasts(disk, hist)
  BY DEF AckedIsDurable, Lasts
<1> SUFFICES Lasts(db', hist') /\ Lasts(disk', hist')
  BY DEF AckedIsDurable, Lasts, IdsOf, Visible, SlugsOf
<1>1. ASSUME NEW t \in Tasks, InsertBoard(t)
      PROVE  Lasts(db', hist') /\ Lasts(disk', hist')
  <2>1. CASE Fails(t)
    BY <1>0, <2>1 DEF Fails
  <2>2. CASE ~Fails(t)
    <3> DEFINE slug == tasks[t].slug
    <3>1. /\ db' = [db EXCEPT !.boards = @ \cup {[slug |-> slug, since |-> db.next]}]
          /\ hist' = [hist EXCEPT !.gone = @ \ {slug}]
          /\ disk' = disk
      BY <1>1, <2>2 DEF InsertBoard
    <3>2. /\ db'.posts = db.posts
          /\ db'.boards = db.boards \cup {[slug |-> slug, since |-> db.next]}
          /\ hist'.kept = hist.kept /\ hist'.gone = hist.gone \ {slug}
      BY <3>1 DEF Typed, Tables, Hist
    <3> HIDE DEF slug
    <3>3. SlugsOf(db') \subseteq SlugsOf(db) \cup {slug}
      <4> SUFFICES ASSUME NEW any \in SlugsOf(db') PROVE any \in SlugsOf(db) \cup {slug}
        OBVIOUS
      <4>1. PICK b \in db'.boards : any = b.slug
        BY DEF SlugsOf
      <4>2. CASE b \in db.boards
        BY <4>1, <4>2 DEF SlugsOf
      <4>3. CASE b = [slug |-> slug, since |-> db.next]
        BY <4>1, <4>3
      <4>4. QED
        BY <3>2, <4>1, <4>2, <4>3
    <3>4. QED
      BY <1>0, <3>1, <3>2, <3>3 DEF Lasts, IdsOf, Visible
  <2>3. QED
    BY <2>1, <2>2
<1>2. ASSUME NEW t \in Tasks, DeletePosts(t)
      PROVE  Lasts(db', hist') /\ Lasts(disk', hist')
  <2> DEFINE theirs == {p \in db.posts : p.board_slug = tasks[t].slug}
  <2>1. /\ db'.posts = db.posts \ theirs /\ db'.boards = db.boards /\ disk' = disk
        /\ hist'.kept = hist.kept \ IdsOf(theirs) /\ hist'.gone = hist.gone
    BY <1>2 DEF DeletePosts, Typed, Tables, Hist
  <2> HIDE DEF theirs
  <2>2. IdsOf(Visible(db)) \ IdsOf(theirs) \subseteq IdsOf(Visible(db'))
    BY <2>1 DEF IdsOf, Visible
  <2>3. QED
    BY <1>0, <2>1, <2>2 DEF Lasts, SlugsOf
<1>3. ASSUME NEW t \in Tasks, DeleteBoardRow(t)
      PROVE  Lasts(db', hist') /\ Lasts(disk', hist')
  <2>1. db'.posts = db.posts /\ db'.boards \subseteq db.boards /\ hist' = hist /\ disk' = disk
    BY <1>3 DEF DeleteBoardRow, Fails, Typed, Tables
  <2>2. QED
    BY <1>0, <2>1 DEF Lasts, SlugsOf, IdsOf, Visible
<1>4. ASSUME NEW t \in Tasks, InsertPost(t)
      PROVE  Lasts(db', hist') /\ Lasts(disk', hist')
  <2>1. CASE Fails(t)
    BY <1>0, <2>1 DEF Fails
  <2>2. CASE ~Fails(t)
    <3>1. IdsOf(Visible(db)) \subseteq IdsOf(Visible(db'))
      BY <1>4, <2>2, InsertPostVisible
    <3>2. db'.boards = db.boards /\ disk' = disk /\ hist' = hist
      BY <1>4, <2>2 DEF InsertPost, Typed, Tables
    <3>3. QED
      BY <1>0, <3>1, <3>2 DEF Lasts, SlugsOf
  <2>3. QED
    BY <2>1, <2>2
<1>5. ASSUME NEW t \in Tasks, FlagPost(t)
      PROVE  Lasts(db', hist') /\ Lasts(disk', hist')
  <2>1. /\ IdsOf(Visible(db')) = IdsOf(Visible(db)) \ {tasks[t].id}
        /\ IdsOf(Flagged(tasks[t].id)) = IdsOf(Visible(db)) \cap {tasks[t].id}
    BY <1>5, FlagPostVisible
  <2>2. /\ db'.boards = db.boards /\ disk' = disk /\ hist'.gone = hist.gone
        /\ hist'.kept = hist.kept \ IdsOf(Flagged(tasks[t].id))
    BY <1>5 DEF FlagPost, Typed, Tables, Hist
  <2>3. QED
    BY <1>0, <2>1, <2>2 DEF Lasts, SlugsOf
<1>6. ASSUME NEW t \in Tasks, Commit(t)
      PROVE  Lasts(db', hist') /\ Lasts(disk', hist')
  <2>1. disk' = db /\ db' = db /\ hist' = Answered(tasks[t])
    BY <1>6 DEF Commit
  <2>2. /\ hist'.kept \subseteq hist.kept \cup IdsOf(Visible(db))
        /\ hist'.gone \cap SlugsOf(db) = hist.gone \cap SlugsOf(db)
    BY <2>1 DEF Answered
  <2>3. QED
    BY <1>0, <2>1, <2>2 DEF Lasts
<1>7. ASSUME UNCHANGED <<db, hist>>, disk' \in {db, disk}
      PROVE  Lasts(db', hist') /\ Lasts(disk', hist')
  BY <1>0, <1>7
<1>8. CASE Restart
  BY <1>0, <1>8 DEF Restart
<1>9. QED
  BY <1>1, <1>2, <1>3, <1>4, <1>5, <1>6, <1>7, <1>8
     DEF Next, AddBoard, DeleteBoard, AddPost, DeletePost, Begins, CommitElsewhere,
         StatementRaises

-----------------------------------------------------------------------------
(* The theorems                                                            *)

\* The inductive invariant: a removal is answered OK once because what was removed
\* cannot be found again, in the transaction or on disk.
IInv == TypeOK /\ Sound(db) /\ Sound(disk) /\ Removed /\ AckedIsDurable

\* The process starts with empty tables.
LEMMA InvInit == Init => IInv
<1> SUFFICES ASSUME Init PROVE IInv
  OBVIOUS
<1>1. TypeOK /\ Sound(db) /\ Sound(disk)
  BY DEF Init, TypeOK, Sound, Typed, Belong, NoneYounger, Tables, Call, NoCall, Hist
<1>2. Removed
  BY DEF Init, Removed, Removing, NoCall
<1>3. AckedIsDurable
  BY DEF Init, AckedIsDurable
<1>4. QED
  BY <1>1, <1>2, <1>3 DEF IInv

\* Every step keeps the invariant.
LEMMA InvStep == IInv /\ [Next]_vars => IInv'
<1> SUFFICES ASSUME IInv, [Next]_vars PROVE IInv'
  OBVIOUS
<1>1. CASE Next
  <2>1. CallsOK /\ Typed(db) /\ Sound(db) /\ Sound(disk) /\ hist \in Hist /\ faults \in Nat
    BY DEF IInv, TypeOK, CallsOK
  <2>2. CallsOK' /\ Sound(db)' /\ Sound(disk)' /\ hist' \in Hist
    BY <1>1, <2>1, CallsStep, TablesStep, HistStep
  <2>3. faults' \in Nat
    BY <1>1, <2>1, FaultsStep
  <2>4. Removed' /\ AckedIsDurable'
    BY <1>1, <2>1, RemovedStep, AckedStep DEF IInv, Sound
  <2>5. QED
    BY <2>2, <2>3, <2>4 DEF IInv, TypeOK, CallsOK, Sound
<1>2. CASE UNCHANGED vars
  <2>1. (TypeOK /\ Sound(db) /\ Sound(disk))'
    BY <1>2 DEF vars, IInv, TypeOK, Sound, Typed, Belong, NoneYounger
  <2>2. Removed'
    BY <1>2 DEF vars, IInv, Removed, Removing, IdsOf, Visible
  <2>3. AckedIsDurable'
    BY <1>2 DEF vars, IInv, AckedIsDurable, IdsOf, Visible, SlugsOf
  <2>4. QED
    BY <2>1, <2>2, <2>3 DEF IInv
<1>3. QED
  BY <1>1, <1>2

\* The tables and the calls keep their types, and no id is given out twice.
THEOREM BoardsTypeCorrect == Spec => []TypeOK
<1>1. IInv => TypeOK
  BY DEF IInv
<1>2. QED
  BY <1>1, InvInit, InvStep, PTL DEF Spec

\* Every post is on a board that exists and was there before it: the foreign key
\* holds in the transaction, on disk and after every restart, and a board added again
\* under an old name shows none of the old posts.
THEOREM BoardsKeepPosts == Spec => []PostsBelong
<1>1. IInv => PostsBelong
  BY DEF IInv, Sound, PostsBelong
<1>2. QED
  BY <1>1, InvInit, InvStep, PTL DEF Spec

\* What was answered OK lasts, whoever's commit put it on disk and whoever fails later:
\* the commit of a call commits what everybody has written.
THEOREM BoardsAckedDurable == Spec => []AckedIsDurable
<1>1. IInv => AckedIsDurable
  BY DEF IInv
<1>2. QED
  BY <1>1, InvInit, InvStep, PTL DEF Spec

\* Of any number of requests to remove a post, one is answered OK (db.delete_post looks
\* whether the row is deleted already).
THEOREM BoardsDeletedOnce == Spec => []DeletedOnce
<1>1. IInv => DeletedOnce
  <2> SUFFICES ASSUME IInv, NEW id \in PostIds PROVE hist.unposted[id] <= 1
    BY DEF DeletedOnce
  <2>1. hist.unposted[id] # 0 => hist.unposted[id] = 1
    BY DEF IInv, Removed
  <2>2. QED
    BY <2>1
<1>2. QED
  BY <1>1, InvInit, InvStep, PTL DEF Spec
=============================================================================
