-------------------------- MODULE CommentTreeProofs --------------------------
(***************************************************************************)
(* What CommentTree guarantees for every number of comments, requests and  *)
(* faults.                                                                 *)
(*                                                                         *)
(* A comment has at most one parent, which was there before it and keeps   *)
(* its place in the tree for good.  So a transaction that takes a comment  *)
(* away takes one child from one parent, a transaction that takes a thread *)
(* takes none from the comments that stay, and the counters can be         *)
(* compared with the rows one parent at a time.                            *)
(***************************************************************************)
EXTENDS CommentTree, FiniteSetTheorems, TLAPS

\* Comments have one parent at most, which has been given its id before them;
\* an id that was not given has no parent and counts no replies.
TreeInv ==
    /\ \A c \in Comment :
          /\ \A p, q \in parent[c] : p = q
          /\ parent[c] \intersect fresh = {}
          /\ c \in fresh => parent[c] = {} /\ replyCount[c] = 0
    /\ \A r \in Req : req[r].pc = "create" =>
          /\ \A p, q \in req[r].under : p = q
          /\ req[r].under \intersect fresh = {}

IInv == TypeOK /\ TreeInv /\ CountsDriftDown /\ RepliesKeepTheirThread /\ LikesGoWithComments

-----------------------------------------------------------------------------
(* Types *)

\* What a request between two steps holds.
LEMMA RequestType ==
    ASSUME TypeOK, NEW r \in Req
    PROVE  /\ req[r].pc = "create" => req[r].under \subseteq Comment
           /\ req[r].pc = "delete" => req[r].c \in Comment
           /\ req[r].pc \in {"clearRows", "clearSets"} =>
                 req[r].ids \subseteq Comment
           /\ req[r].pc \in {"like", "publish", "rollback"} =>
                 req[r].msg \in Switched
  BY DEF TypeOK, Request, Idle

LEMMA SetSize ==
    ASSUME NEW S \in SUBSET Comment
    PROVE  IsFiniteSet(S) /\ Cardinality(S) \in Nat
  BY CommentAssumption, FS_Subset, FS_CardinalityType

\* A set of at most one element.
LEMMA AtMostOne ==
    ASSUME NEW S \in SUBSET Comment, Cardinality(S) <= 1
    PROVE  \A p, q \in S : p = q
<1> SUFFICES ASSUME NEW p \in S, NEW q \in S, p # q PROVE FALSE
  OBVIOUS
<1>1. IsFiniteSet({p}) /\ Cardinality({p}) = 1 /\ {p} \in SUBSET S
  BY FS_Singleton
<1>2. Cardinality({p}) <= Cardinality(S) /\ (Cardinality(S) = Cardinality({p}) => S = {p})
  BY <1>1, SetSize, FS_Subset
<1>3. QED
  BY <1>1, <1>2, SetSize

LEMMA MinusType ==
    ASSUME NEW n \in Nat, NEW k \in Nat
    PROVE  Minus(n, k) \in Nat /\ Minus(n, k) = IF n > k THEN n - k ELSE 0
  BY DEF Minus

LEMMA InitInv == Init => IInv
<1> SUFFICES ASSUME Init PROVE IInv
  OBVIOUS
<1>1. TypeOK
  BY DEF Init, TypeOK
<1>2. TreeInv /\ RepliesKeepTheirThread /\ LikesGoWithComments
  BY DEF Init, TreeInv, RepliesKeepTheirThread, LikesGoWithComments, Idle
<1>3. CountsDriftDown
  BY FS_EmptySet DEF Init, CountsDriftDown
<1>4. QED
  BY <1>1, <1>2, <1>3 DEF IInv

LEMMA TypeNext == TypeOK /\ [Next]_vars => TypeOK'
<1> SUFFICES ASSUME TypeOK, [Next]_vars PROVE TypeOK'
  OBVIOUS
<1> USE BoundAssumption DEF TypeOK, Fault, NoFault, tree, counts, likes
<1>1. ASSUME NEW r \in Req, NEW under \in SUBSET rows, BeginCreate(r, under)  PROVE TypeOK'
  <2>1. [pc |-> "create", under |-> under] \in Request
    BY DEF Request
  <2>2. QED
    BY <1>1, <2>1 DEF BeginCreate
<1>2. ASSUME NEW r \in Req, NEW c \in Comment, Insert(r, c), req[r].pc = "create",
             replyCount' \in [Comment -> Nat]
      PROVE  TypeOK'
  <2>1. req[r].under \subseteq Comment
    BY <1>2, RequestType
  <2>2. fresh' \subseteq Comment /\ rows' \subseteq Comment \ fresh'
    BY <1>2 DEF Insert
  <2>3. parent' \in [Comment -> SUBSET Comment] /\ commentCount' \in Nat
    BY <1>2, <2>1 DEF Insert, CountUp
  <2>4. QED
    BY <1>2, <2>2, <2>3 DEF Insert
<1>3. ASSUME NEW r \in Req, CreateTop(r)  PROVE TypeOK'
  BY <1>2, <1>3 DEF CreateTop
<1>4. ASSUME NEW r \in Req, CreateReply(r)  PROVE TypeOK'
  BY <1>2, <1>4 DEF CreateReply
<1>5. ASSUME NEW r \in Req, ParentGone(r)  PROVE TypeOK'
  BY <1>5 DEF ParentGone
<1>6. ASSUME NEW r \in Req, NEW c \in rows, BeginDelete(r, c)  PROVE TypeOK'
  <2>1. [pc |-> "delete", c |-> c] \in Request
    BY DEF Request
  <2>2. QED
    BY <1>6, <2>1 DEF BeginDelete
<1>7. ASSUME NEW r \in Req, DeleteReply(r)  PROVE TypeOK'
  <2>1. req[r].c \in Comment
    BY <1>7, RequestType DEF DeleteReply
  <2>2. [pc |-> "clearRows", ids |-> {req[r].c}] \in Request
    BY <2>1 DEF Request
  <2>3. \A p \in Comment : Minus(replyCount[p], 1) \in Nat
    BY MinusType
  <2>4. PICK p \in parent[req[r].c] :
           /\ replyCount' = IF p \in rows
                            THEN [replyCount EXCEPT ![p] = Minus(@, 1), ![req[r].c] = 0]
                            ELSE [replyCount EXCEPT ![req[r].c] = 0]
           /\ lostAt' = IF req[r].c \in rows THEN lostAt ELSE [lostAt EXCEPT ![p] = @ + 1]
    BY <1>7 DEF DeleteReply
  <2>5. replyCount' \in [Comment -> Nat] /\ lostAt' \in [Comment -> Nat]
    BY <2>1, <2>3, <2>4
  <2>6. commentCount' \in Nat
    BY <1>7, MinusType DEF DeleteReply, CountDown
  <2>7. rows' \subseteq Comment \ fresh' /\ req' \in [Req -> Request \union {Idle}] /\ lost' \in Nat
    BY <1>7, <2>2 DEF DeleteReply
  <2>8. QED
    BY <1>7, <2>5, <2>6, <2>7 DEF DeleteReply
<1>8. ASSUME NEW r \in Req, DeleteTopWithReplies(r)  PROVE TypeOK'
  <2> DEFINE removed == {req[r].c} \union Children(req[r].c)
  <2>1. req[r].c \in Comment /\ removed \in SUBSET Comment /\ Cardinality(removed) \in Nat
    BY <1>8, RequestType, SetSize DEF DeleteTopWithReplies, Children
  <2>2. [pc |-> "clearRows", ids |-> removed] \in Request
    BY <2>1 DEF Request
  <2>3. commentCount' \in Nat
    BY <1>8, <2>1, MinusType DEF DeleteTopWithReplies, CountDown
  <2>4. QED
    BY <1>8, <2>2, <2>3 DEF DeleteTopWithReplies
<1>9. ASSUME NEW r \in Req, HeadGone(r)  PROVE TypeOK'
  BY <1>9 DEF HeadGone
<1>10. ASSUME NEW r \in Req, DeleteByTargets(r)  PROVE TypeOK'
  <2>1. [pc |-> "clearSets", ids |-> req[r].ids] \in Request
    BY <1>10, RequestType DEF DeleteByTargets, Request
  <2>2. liked' \subseteq Like /\ excused' \subseteq Like
    BY <1>10 DEF DeleteByTargets, Clear, Abandon
  <2>3. QED
    BY <1>10, <2>1, <2>2 DEF DeleteByTargets
<1>11. ASSUME NEW r \in Req, DeleteTargetSets(r)  PROVE TypeOK'
  <2>1. liked' \subseteq Like /\ excused' \subseteq Like
    BY <1>11 DEF DeleteTargetSets, Clear, Abandon
  <2>2. QED
    BY <1>11, <2>1 DEF DeleteTargetSets
<1>12. ASSUME NEW r \in Req, Abort(r)  PROVE TypeOK'
  BY <1>12 DEF Abort, Abandon
<1>13. ASSUME NEW r \in Req, NEW c \in rows, NEW on \in BOOLEAN, BeginLike(r, c, on)
       PROVE  TypeOK'
  <2>1. [pc |-> "like", msg |-> [n |-> likesBegun, c |-> c, on |-> on]] \in Request
    BY DEF Request, Switched
  <2>2. QED
    BY <1>13, <2>1 DEF BeginLike
<1>14. ASSUME NEW r \in Req, SetLike(r)  PROVE TypeOK'
  <2>1. <<"set", req[r].msg.c>> \in Like
    BY <1>14, RequestType DEF SetLike, Switched, Like
  <2>2. [pc |-> "publish", msg |-> req[r].msg] \in Request
    BY <1>14, RequestType DEF SetLike, Request
  <2>3. liked' \subseteq Like /\ excused' \subseteq Like
    BY <1>14, <2>1 DEF SetLike, Switch
  <2>4. QED
    BY <1>14, <2>2, <2>3 DEF SetLike
<1>15. ASSUME NEW r \in Req, Publish(r)  PROVE TypeOK'
  <2>1. req[r].msg \in Switched /\ [pc |-> "rollback", msg |-> req[r].msg] \in Request
    BY <1>15, RequestType DEF Publish, Request
  <2>2. QED
    BY <1>15, <2>1 DEF Publish
<1>16. ASSUME NEW r \in Req, Rollback(r)  PROVE TypeOK'
  <2>1. <<"set", req[r].msg.c>> \in Like
    BY <1>16, RequestType DEF Rollback, Switched, Like
  <2>2. liked' \subseteq Like /\ excused' \subseteq Like
    BY <1>16, <2>1 DEF Rollback, Switch
  <2>3. QED
    BY <1>16, <2>2 DEF Rollback
<1>17. ASSUME NEW m \in inbox, HandleSwitched(m) \/ DeadLetter(m)  PROVE TypeOK'
  <2>1. <<"row", m.c>> \in Like /\ inbox' \subseteq Switched
    BY <1>17 DEF Switched, Like, HandleSwitched, DeadLetter
  <2>2. liked' \subseteq Like /\ excused' \subseteq Like
    BY <1>17, <2>1 DEF HandleSwitched, DeadLetter, Switch
  <2>3. QED
    BY <1>17, <2>1, <2>2 DEF HandleSwitched, DeadLetter
<1>18. CASE DeleteVideo
  BY <1>18 DEF DeleteVideo
<1>19. CASE HandleVideoDeleted
  BY <1>19 DEF HandleVideoDeleted, Abandon
<1>20. CASE UNCHANGED vars
  BY <1>20 DEF vars
<1>21. QED
  BY <1>1, <1>3, <1>4, <1>5, <1>6, <1>7, <1>8, <1>9, <1>10, <1>11, <1>12, <1>13, <1>14, <1>15,
     <1>16, <1>17, <1>18, <1>19, <1>20
     DEF Next

-----------------------------------------------------------------------------
(* The tree *)

LEMMA TreeNext == TypeOK /\ TreeInv /\ [Next]_vars => TreeInv'
<1> SUFFICES ASSUME TypeOK, TreeInv, [Next]_vars PROVE TreeInv'
  OBVIOUS
<1>1. ASSUME UNCHANGED <<fresh, parent>>,
             \A c \in fresh : replyCount'[c] = replyCount[c],
             \A r \in Req : req'[r].pc = "create" => req'[r] = req[r]
      PROVE  TreeInv'
  BY <1>1 DEF TreeInv, TypeOK
<1>2. ASSUME UNCHANGED <<fresh, parent, replyCount>>, NEW r \in Req, NEW new,
             req' = [req EXCEPT ![r] = new], new.pc # "create"
      PROVE  TreeInv'
  BY <1>1, <1>2 DEF TypeOK
<1>3. ASSUME NEW r \in Req, NEW under \in SUBSET rows, BeginCreate(r, under)  PROVE TreeInv'
  <2>1. (\A p, q \in under : p = q) /\ under \intersect fresh = {}
    BY <1>3, AtMostOne DEF BeginCreate, TypeOK
  <2>2. req'[r] = [pc |-> "create", under |-> under] /\ \A x \in Req : x # r => req'[x] = req[x]
    BY <1>3 DEF BeginCreate, TypeOK
  <2>3. UNCHANGED <<fresh, parent, replyCount>>
    BY <1>3 DEF BeginCreate, tree, counts
  <2>4. QED
    BY <2>1, <2>2, <2>3 DEF TreeInv
<1>4. ASSUME NEW r \in Req, NEW c \in Comment, Insert(r, c), req[r].pc = "create",
             \A x \in fresh \ {c} : replyCount'[x] = replyCount[x]
      PROVE  TreeInv'
  <2>1. /\ fresh' = fresh \ {c}
        /\ parent'[c] = req[r].under /\ \A x \in Comment : x # c => parent'[x] = parent[x]
        /\ req'[r] = Idle /\ \A x \in Req : x # r => req'[x] = req[x]
    BY <1>4 DEF Insert, TypeOK
  <2>2. (\A p, q \in req[r].under : p = q) /\ req[r].under \intersect fresh = {}
    BY <1>4 DEF TreeInv
  <2>3. QED
    BY <1>4, <2>1, <2>2 DEF TreeInv, Idle
<1>5. ASSUME NEW r \in Req, CreateTop(r)  PROVE TreeInv'
  BY <1>4, <1>5 DEF CreateTop
<1>6. ASSUME NEW r \in Req, CreateReply(r)  PROVE TreeInv'
  <2>1. PICK p \in req[r].under, c \in Comment :
           Insert(r, c) /\ replyCount' = [replyCount EXCEPT ![p] = @ + 1] /\ p \in rows
    BY <1>6 DEF CreateReply
  <2>2. \A x \in fresh \ {c} : replyCount'[x] = replyCount[x]
    BY <2>1 DEF TypeOK
  <2>3. QED
    BY <1>4, <1>6, <2>1, <2>2 DEF CreateReply
<1>7. ASSUME NEW r \in Req, DeleteReply(r)  PROVE TreeInv'
  <2>1. PICK p \in parent[req[r].c] :
           replyCount' = IF p \in rows
                         THEN [replyCount EXCEPT ![p] = Minus(@, 1), ![req[r].c] = 0]
                         ELSE [replyCount EXCEPT ![req[r].c] = 0]
    BY <1>7 DEF DeleteReply
  <2>2. req[r].c \in Comment
    BY <1>7, RequestType DEF DeleteReply
  <2>3. req[r].c \notin fresh
    BY <2>1, <2>2 DEF TreeInv
  <2>4. \A x \in fresh : replyCount'[x] = replyCount[x]
    BY <2>1, <2>2, <2>3 DEF TypeOK
  <2>5. \A x \in Req : req'[x].pc = "create" => req'[x] = req[x]
    BY <1>7 DEF DeleteReply, TypeOK
  <2>6. QED
    BY <1>1, <1>7, <2>4, <2>5 DEF DeleteReply
<1>8. ASSUME NEW r \in Req, DeleteTopWithReplies(r)  PROVE TreeInv'
  <2>1. \A x \in fresh : replyCount'[x] = replyCount[x]
    BY <1>8 DEF DeleteTopWithReplies, TreeInv, TypeOK
  <2>2. \A x \in Req : req'[x].pc = "create" => req'[x] = req[x]
    BY <1>8 DEF DeleteTopWithReplies, TypeOK
  <2>3. QED
    BY <1>1, <1>8, <2>1, <2>2 DEF DeleteTopWithReplies
<1>9. CASE HandleVideoDeleted
  BY <1>1, <1>9 DEF HandleVideoDeleted, TreeInv, TypeOK
<1>10. CASE UNCHANGED <<fresh, parent, replyCount, req>>
  BY <1>1, <1>10
<1>11. ASSUME NEW r \in Req, ParentGone(r) \/ HeadGone(r) \/ Abort(r) \/ DeleteTargetSets(r)
       PROVE  TreeInv'
  BY <1>2, <1>11 DEF ParentGone, HeadGone, Abort, DeleteTargetSets, tree, counts, Idle
<1>12. ASSUME NEW r \in Req, NEW c \in rows, NEW on \in BOOLEAN,
              BeginDelete(r, c) \/ BeginLike(r, c, on)
       PROVE  TreeInv'
  BY <1>2, <1>12 DEF BeginDelete, BeginLike, tree, counts
<1>13. ASSUME NEW r \in Req, DeleteByTargets(r) \/ SetLike(r) \/ Publish(r) \/ Rollback(r)
       PROVE  TreeInv'
  <2>1. UNCHANGED <<fresh, parent, replyCount>>
    BY <1>13 DEF DeleteByTargets, SetLike, Publish, Rollback, tree, counts
  <2>2. req'[r].pc # "create" /\ \A x \in Req : x # r => req'[x] = req[x]
    BY <1>13, RequestType DEF DeleteByTargets, SetLike, Publish, Rollback, Idle, TypeOK
  <2>3. QED
    BY <1>1, <2>1, <2>2
<1>14. ASSUME NEW m \in inbox, HandleSwitched(m) \/ DeadLetter(m)  PROVE TreeInv'
  BY <1>10, <1>14 DEF HandleSwitched, DeadLetter, tree, counts
<1>15. QED
  BY <1>3, <1>5, <1>6, <1>7, <1>8, <1>9, <1>10, <1>11, <1>12, <1>13, <1>14
     DEF Next, vars, tree, counts, DeleteVideo

-----------------------------------------------------------------------------
(* Threads and likes *)

LEMMA ThreadsNext ==
    TypeOK /\ TreeInv /\ RepliesKeepTheirThread /\ [Next]_vars => RepliesKeepTheirThread'
<1> SUFFICES ASSUME TypeOK, TreeInv, RepliesKeepTheirThread, [Next]_vars
             PROVE  RepliesKeepTheirThread'
  OBVIOUS
<1>1. ASSUME UNCHANGED <<rows, parent>>  PROVE RepliesKeepTheirThread'
  BY <1>1 DEF RepliesKeepTheirThread, TopLevel
<1>2. ASSUME NEW r \in Req, NEW c \in Comment, Insert(r, c), req[r].under \subseteq rows
      PROVE  RepliesKeepTheirThread'
  <2>1. /\ c \in fresh /\ rows' = rows \union {c}
        /\ parent'[c] = req[r].under /\ \A x \in Comment : x # c => parent'[x] = parent[x]
    BY <1>2 DEF Insert, TypeOK
  <2>2. \A x \in rows : c \notin parent[x]
    BY <2>1 DEF TreeInv, TypeOK
  <2>3. c \notin rows
    BY <2>1 DEF TypeOK
  <2>4. QED
    BY <1>2, <2>1, <2>2, <2>3 DEF RepliesKeepTheirThread, TopLevel, TypeOK
<1>3. ASSUME NEW r \in Req, CreateTop(r)  PROVE RepliesKeepTheirThread'
  BY <1>2, <1>3 DEF CreateTop
<1>4. ASSUME NEW r \in Req, CreateReply(r)  PROVE RepliesKeepTheirThread'
  BY <1>2, <1>4 DEF CreateReply, TreeInv
<1>5. ASSUME NEW r \in Req, DeleteReply(r)  PROVE RepliesKeepTheirThread'
  <2>1. rows' = rows \ {req[r].c} /\ parent' = parent /\ parent[req[r].c] # {}
    BY <1>5 DEF DeleteReply
  <2>2. QED
    BY <2>1 DEF RepliesKeepTheirThread, TopLevel
<1>6. ASSUME NEW r \in Req, DeleteTopWithReplies(r)  PROVE RepliesKeepTheirThread'
  <2>1. rows' = rows \ ({req[r].c} \union Children(req[r].c)) /\ parent' = parent
    BY <1>6 DEF DeleteTopWithReplies
  <2>2. \A x \in Children(req[r].c) : ~TopLevel(x)
    BY DEF Children, TopLevel
  <2>3. QED
    BY <2>1, <2>2 DEF RepliesKeepTheirThread, TopLevel, Children
<1>7. CASE HandleVideoDeleted
  BY <1>7 DEF HandleVideoDeleted, RepliesKeepTheirThread
<1>8. QED
  BY <1>1, <1>3, <1>4, <1>5, <1>6, <1>7
     DEF Next, vars, tree, BeginCreate, ParentGone, BeginDelete, HeadGone, DeleteByTargets,
         DeleteTargetSets, Abort, BeginLike, SetLike, Publish, Rollback, HandleSwitched, DeadLetter,
         DeleteVideo

\* Some request is still to clear the like l.
Owed(l) == \E r \in Req : l \in Owes(r)

LEMMA LikesNext ==
    TypeOK /\ LikesGoWithComments /\ [Next]_vars => LikesGoWithComments'
<1> SUFFICES ASSUME TypeOK, LikesGoWithComments, [Next]_vars PROVE LikesGoWithComments'
  OBVIOUS
<1>1. \A l \in liked : l[2] \in rows \/ l \in excused \/ Owed(l)
  BY DEF LikesGoWithComments, Owed
<1>2. ASSUME \A l \in liked' : l[2] \in rows' \/ l \in excused' \/ Owed(l)'
      PROVE  LikesGoWithComments'
  BY <1>2 DEF LikesGoWithComments, Owed
<1>3. ASSUME NEW r \in Req, NEW done, \A x \in Req : x # r => req'[x] = req[x],
             Owes(r) \subseteq done \union Owes(r)'
      PROVE  \A l : Owed(l) => l \in done \/ Owed(l)'
  <2>1. \A x \in Req : x # r => Owes(x)' = Owes(x)
    BY <1>3 DEF Owes
  <2>2. QED
    BY <1>3, <2>1 DEF Owed
<1>4. ASSUME NEW r \in Req, req[r].pc \notin {"clearRows", "clearSets"}
      PROVE  Owes(r) = {}
  BY <1>4 DEF Owes
\* A step that changes no like and takes no comment.
<1>5. ASSUME UNCHANGED <<liked, excused>>, rows \subseteq rows',
             NEW r \in Req, req[r].pc \notin {"clearRows", "clearSets"},
             \A x \in Req : x # r => req'[x] = req[x]
      PROVE  LikesGoWithComments'
  <2>1. \A l : Owed(l) => Owed(l)'
    BY <1>3, <1>4, <1>5
  <2>2. QED
    BY <1>1, <1>2, <1>5, <2>1
\* A step that sets or removes one like.
<1>6. ASSUME NEW l, NEW on \in BOOLEAN, Switch(l, on), rows' = rows,
             \A k : Owed(k) => Owed(k)'
      PROVE  LikesGoWithComments'
  <2>1. \A k \in liked' : k # l => k \in liked /\ (k \in excused => k \in excused')
    BY <1>6 DEF Switch
  <2>2. l \in liked' => on
    BY <1>6 DEF Switch
  <2>3. on => l[2] \in rows \/ l \in excused' \/ Owed(l)
    BY <1>6 DEF Switch, Owed
  <2>4. QED
    BY <1>1, <1>2, <1>6, <2>1, <2>2, <2>3
\* A step of r after which it no longer owes the likes in done.
<1>7. ASSUME NEW r \in Req, NEW done, rows' = rows, \A x \in Req : x # r => req'[x] = req[x],
             Owes(r) \subseteq done \union Owes(r)',
             Clear(done) \/ (Abandon(done) /\ liked' = liked)
      PROVE  LikesGoWithComments'
  <2>1. \A l : Owed(l) => l \in done \/ Owed(l)'
    BY <1>3, <1>7
  <2>2. CASE Clear(done)
    <3>1. \A l \in liked' : l \in liked /\ l \notin done /\ (l \in excused => l \in excused')
      BY <2>2 DEF Clear
    <3>2. QED
      BY <1>1, <1>2, <1>7, <2>1, <3>1
  <2>3. CASE Abandon(done) /\ liked' = liked
    <3>1. \A l \in liked' : l \in liked /\ (l \in excused \/ l \in done => l \in excused')
      BY <2>3 DEF Abandon
    <3>2. QED
      BY <1>1, <1>2, <1>7, <2>1, <3>1
  <2>4. QED
    BY <1>7, <2>2, <2>3
<1>8. ASSUME NEW r \in Req, NEW under \in SUBSET rows, BeginCreate(r, under)
      PROVE  LikesGoWithComments'
  BY <1>5, <1>8 DEF BeginCreate, tree, likes, TypeOK
<1>9. ASSUME NEW r \in Req, CreateTop(r) \/ CreateReply(r)  PROVE LikesGoWithComments'
  BY <1>5, <1>9 DEF CreateTop, CreateReply, Insert, likes, TypeOK
<1>10. ASSUME NEW r \in Req, NEW c \in rows, NEW on \in BOOLEAN,
              BeginDelete(r, c) \/ BeginLike(r, c, on)
       PROVE  LikesGoWithComments'
  BY <1>5, <1>10 DEF BeginDelete, BeginLike, tree, likes, TypeOK
<1>11. ASSUME NEW r \in Req, ParentGone(r) \/ HeadGone(r)  PROVE LikesGoWithComments'
  BY <1>5, <1>11 DEF ParentGone, HeadGone, tree, likes, TypeOK
<1>12. ASSUME NEW r \in Req, NEW ids, req[r].pc = "delete", UNCHANGED <<liked, excused>>,
              rows' = rows \ ids, req' = [req EXCEPT ![r] = [pc |-> "clearRows", ids |-> ids]]
       PROVE  LikesGoWithComments'
  <2>1. req'[r] = [pc |-> "clearRows", ids |-> ids] /\ \A x \in Req : x # r => req'[x] = req[x]
    BY <1>12 DEF TypeOK
  <2>2. Owes(r)' = {"row", "set"} \X ids
    BY <2>1 DEF Owes
  <2>3. \A l \in Like : l[2] \in ids => Owed(l)'
    BY <2>2 DEF Like, Owed
  <2>4. \A l : Owed(l) => Owed(l)'
    BY <1>3, <1>4, <1>12, <2>1
  <2>5. liked' \subseteq Like
    BY <1>12 DEF TypeOK
  <2>6. QED
    BY <1>1, <1>2, <1>12, <2>3, <2>4, <2>5
<1>13. ASSUME NEW r \in Req, DeleteReply(r)  PROVE LikesGoWithComments'
  BY <1>12, <1>13 DEF DeleteReply, likes
<1>14. ASSUME NEW r \in Req, DeleteTopWithReplies(r)  PROVE LikesGoWithComments'
  BY <1>12, <1>14 DEF DeleteTopWithReplies, likes
<1>15. ASSUME NEW r \in Req, DeleteByTargets(r)  PROVE LikesGoWithComments'
  <2> DEFINE done == {"row"} \X req[r].ids
  <2>1. req'[r] = [pc |-> "clearSets", ids |-> req[r].ids] /\ \A x \in Req : x # r => req'[x] = req[x]
    BY <1>15, RequestType DEF DeleteByTargets, TypeOK
  <2>2. Owes(r) = {"row", "set"} \X req[r].ids /\ Owes(r)' = {"set"} \X req[r].ids
    BY <1>15, <2>1 DEF DeleteByTargets, Owes
  <2>3. Owes(r) \subseteq done \union Owes(r)'
    BY <2>2
  <2>4. rows' = rows /\ (Clear(done) \/ (Abandon(done) /\ liked' = liked))
    BY <1>15 DEF DeleteByTargets, tree
  <2> HIDE DEF done
  <2>5. QED
    BY <1>7, <2>1, <2>3, <2>4
<1>16. ASSUME NEW r \in Req, DeleteTargetSets(r)  PROVE LikesGoWithComments'
  <2> DEFINE done == {"set"} \X req[r].ids
  <2>1. Owes(r) = done /\ \A x \in Req : x # r => req'[x] = req[x]
    BY <1>16 DEF DeleteTargetSets, Owes, TypeOK
  <2>2. rows' = rows /\ (Clear(done) \/ (Abandon(done) /\ liked' = liked))
    BY <1>16 DEF DeleteTargetSets, tree
  <2> HIDE DEF done
  <2>3. QED
    BY <1>7, <2>1, <2>2
<1>17. ASSUME NEW r \in Req, Abort(r)  PROVE LikesGoWithComments'
  <2>1. Abandon(Owes(r)) /\ liked' = liked /\ rows' = rows /\ \A x \in Req : x # r => req'[x] = req[x]
    BY <1>17 DEF Abort, tree, TypeOK
  <2>2. PICK done : done = Owes(r)
    OBVIOUS
  <2>3. Abandon(done)
    BY <2>1, <2>2 DEF Abandon
  <2>4. QED
    BY <1>7, <2>1, <2>2, <2>3
<1>18. ASSUME NEW r \in Req, SetLike(r)  PROVE LikesGoWithComments'
  <2>1. /\ rows' = rows /\ req[r].pc \notin {"clearRows", "clearSets"}
        /\ \A x \in Req : x # r => req'[x] = req[x]
    BY <1>18 DEF SetLike, tree, TypeOK
  <2>2. CASE UNCHANGED <<liked, excused>>
    BY <1>5, <2>1, <2>2
  <2>3. CASE Switch(<<"set", req[r].msg.c>>, req[r].msg.on)
    <3>1. req[r].msg.on \in BOOLEAN
      BY <1>18, RequestType DEF SetLike, Switched
    <3>2. PICK l : l = <<"set", req[r].msg.c>>
      OBVIOUS
    <3>3. PICK on \in BOOLEAN : on = req[r].msg.on
      BY <3>1
    <3>4. Switch(l, on) /\ \A k : Owed(k) => Owed(k)'
      BY <1>3, <1>4, <2>1, <2>3, <3>2, <3>3
    <3>5. QED
      BY <1>6, <2>1, <3>4
  <2>4. QED
    BY <1>18, <2>2, <2>3 DEF SetLike
<1>19. ASSUME NEW r \in Req, Publish(r)  PROVE LikesGoWithComments'
  BY <1>5, <1>19 DEF Publish, tree, TypeOK
<1>20. ASSUME NEW r \in Req, Rollback(r)  PROVE LikesGoWithComments'
  <2>1. /\ rows' = rows /\ req[r].pc \notin {"clearRows", "clearSets"}
        /\ \A x \in Req : x # r => req'[x] = req[x]
        /\ Switch(<<"set", req[r].msg.c>>, ~req[r].msg.on)
    BY <1>20 DEF Rollback, tree, TypeOK
  <2>2. PICK l : l = <<"set", req[r].msg.c>>
    OBVIOUS
  <2>3. PICK on \in BOOLEAN : on = ~req[r].msg.on
    OBVIOUS
  <2>4. Switch(l, on) /\ \A k : Owed(k) => Owed(k)'
    BY <1>3, <1>4, <2>1, <2>2, <2>3
  <2>5. QED
    BY <1>6, <2>1, <2>4
<1>21. ASSUME NEW m \in inbox, HandleSwitched(m)  PROVE LikesGoWithComments'
  <2>1. m.on \in BOOLEAN /\ Switch(<<"row", m.c>>, m.on) /\ rows' = rows /\ req' = req
    BY <1>21 DEF HandleSwitched, Switched, tree, TypeOK
  <2>2. PICK l : l = <<"row", m.c>>
    OBVIOUS
  <2>3. PICK on \in BOOLEAN : on = m.on
    BY <2>1
  <2>4. Switch(l, on) /\ \A k : Owed(k) => Owed(k)'
    BY <2>1, <2>2, <2>3 DEF Owed, Owes
  <2>5. QED
    BY <1>6, <2>1, <2>4
<1>22. ASSUME UNCHANGED <<rows, liked, excused, req>>  PROVE LikesGoWithComments'
  BY <1>22 DEF LikesGoWithComments, Owes
<1>23. ASSUME NEW m \in inbox, DeadLetter(m)  PROVE LikesGoWithComments'
  BY <1>22, <1>23 DEF DeadLetter, tree
<1>24. CASE HandleVideoDeleted
  <2>1. liked' = liked /\ req' = req /\ excused' = excused \union (liked \intersect ({"row", "set"} \X rows))
    BY <1>24 DEF HandleVideoDeleted, Abandon
  <2>2. \A l \in liked : l[2] \in rows => l \in excused'
    BY <2>1 DEF TypeOK, Like
  <2>3. \A l : Owed(l) => Owed(l)'
    BY <2>1 DEF Owed, Owes
  <2>4. QED
    BY <1>1, <1>2, <2>1, <2>2, <2>3
<1>25. QED
  BY <1>8, <1>9, <1>10, <1>11, <1>13, <1>14, <1>15, <1>16, <1>17, <1>18, <1>19, <1>20, <1>21, <1>22,
     <1>23, <1>24
     DEF Next, vars, tree, likes, DeleteVideo

-----------------------------------------------------------------------------
(* Counters *)

\* The children of p that a step leaves, when it takes only the comments in gone.
LEMMA ChildrenLeft ==
    ASSUME NEW gone, rows' = rows \ gone, parent' = parent, NEW p
    PROVE  Children(p)' = Children(p) \ gone
  BY DEF Children

\* What a decrement by k leaves of a counter that is neither above its n rows
\* nor more than l below them, when k rows went.
LEMMA Decrement ==
    ASSUME NEW count \in Nat, NEW n \in Nat, NEW l \in Nat, NEW k \in Nat,
           count <= n, n <= count + l, k <= n
    PROVE  Minus(count, k) <= n - k /\ n - k <= Minus(count, k) + l
  BY DEF Minus

\* The same when the row was gone already.
LEMMA Decrement1 ==
    ASSUME NEW count \in Nat, NEW n \in Nat, NEW l \in Nat, count <= n, n <= count + l
    PROVE  Minus(count, 1) <= n /\ n <= Minus(count, 1) + (l + 1)
  BY DEF Minus

\* A subset taken away.
LEMMA Less ==
    ASSUME NEW S \in SUBSET Comment, NEW T \in SUBSET S
    PROVE  /\ Cardinality(S) \in Nat /\ Cardinality(T) \in Nat /\ Cardinality(T) <= Cardinality(S)
           /\ Cardinality(S \ T) = Cardinality(S) - Cardinality(T)
<1>1. S \intersect T = T
  OBVIOUS
<1>2. IsFiniteSet(S) /\ Cardinality(S) \in Nat /\ Cardinality(T) \in Nat
  BY SetSize
<1>3. Cardinality(T) <= Cardinality(S)
  BY <1>2, FS_Subset
<1>4. Cardinality(S \ T) = Cardinality(S) - Cardinality(S \intersect T)
  BY <1>2, FS_Difference
<1>5. QED
  BY <1>1, <1>2, <1>3, <1>4

\* The two halves of CountsDriftDown.
VideoCounts ==
    video = "live" => commentCount <= Cardinality(rows) /\ Cardinality(rows) <= commentCount + lost

ReplyCounts(p) ==
    replyCount[p] <= Cardinality(Children(p)) /\ Cardinality(Children(p)) <= replyCount[p] + lostAt[p]

LEMMA CountsSplit ==
    /\ CountsDriftDown <=> VideoCounts /\ \A p \in rows : ReplyCounts(p)
    /\ CountsDriftDown' <=> VideoCounts' /\ \A p \in rows' : ReplyCounts(p)'
  BY DEF CountsDriftDown, VideoCounts, ReplyCounts

LEMMA CountsNext ==
    TypeOK /\ TreeInv /\ CountsDriftDown /\ [Next]_vars => CountsDriftDown'
<1> SUFFICES ASSUME TypeOK, TreeInv, CountsDriftDown, [Next]_vars PROVE CountsDriftDown'
  OBVIOUS
<1> USE CountsSplit
<1>1. ASSUME UNCHANGED <<rows, parent, counts>>, video' = "live" => video = "live"
      PROVE  CountsDriftDown'
  BY <1>1 DEF CountsDriftDown, Children, counts
<1>2. ASSUME NEW r \in Req, NEW c \in Comment, Insert(r, c)  PROVE VideoCounts'
  <2>1. c \notin rows /\ IsFiniteSet(rows) /\ Cardinality(rows) \in Nat
    BY <1>2, SetSize DEF Insert, TypeOK
  <2>2. Cardinality(rows') = Cardinality(rows) + 1
    BY <1>2, <2>1, FS_AddElement DEF Insert
  <2>3. UNCHANGED <<video, lost>> /\ (video = "live" => commentCount' = commentCount + 1)
    BY <1>2 DEF Insert, CountUp
  <2>4. QED
    BY <2>1, <2>2, <2>3 DEF VideoCounts, TypeOK
<1>3. ASSUME NEW r \in Req, NEW c \in Comment, Insert(r, c), req[r].pc = "create"
      PROVE  /\ \A p \in Comment : Children(p)' = IF p \in req[r].under THEN Children(p) \union {c}
                                                                    ELSE Children(p)
             /\ Children(c) = {} /\ c \notin req[r].under /\ replyCount[c] = 0
             /\ c \notin rows /\ lostAt' = lostAt
  <2>1. /\ c \in fresh /\ rows' = rows \union {c}
        /\ parent'[c] = req[r].under /\ \A x \in Comment : x # c => parent'[x] = parent[x]
    BY <1>3 DEF Insert, TypeOK
  <2>2. c \notin rows
    BY <2>1 DEF TypeOK
  <2>3. \A p \in Comment : Children(p)' = IF p \in req[r].under THEN Children(p) \union {c}
                                                                ELSE Children(p)
    BY <2>1, <2>2 DEF Children, TypeOK
  <2>4. Children(c) = {} /\ c \notin req[r].under /\ replyCount[c] = 0
    BY <1>3, <2>1 DEF Children, TreeInv, TypeOK
  <2>5. QED
    BY <1>3, <2>2, <2>3, <2>4 DEF Insert
<1>4. ASSUME NEW r \in Req, CreateTop(r)  PROVE CountsDriftDown'
  <2>1. PICK c \in Comment : Insert(r, c)
    BY <1>4 DEF CreateTop
  <2>2. req[r].under = {} /\ req[r].pc = "create" /\ replyCount' = replyCount /\ rows' = rows \union {c}
    BY <1>4, <2>1 DEF CreateTop, Insert
  <2>3. \A p \in rows' : p # c => ReplyCounts(p)'
    BY <1>3, <2>1, <2>2 DEF ReplyCounts, TypeOK
  <2>4. ReplyCounts(c)'
    <3>1. Children(c)' = {} /\ replyCount'[c] = 0 /\ lostAt'[c] \in Nat
      BY <1>3, <2>1, <2>2 DEF TypeOK
    <3>2. QED
      BY <3>1, FS_EmptySet DEF ReplyCounts
  <2>5. QED
    BY <1>2, <2>1, <2>3, <2>4
<1>5. ASSUME NEW r \in Req, CreateReply(r)  PROVE CountsDriftDown'
  <2>1. PICK q \in req[r].under, c \in Comment :
           q \in rows /\ Insert(r, c) /\ replyCount' = [replyCount EXCEPT ![q] = @ + 1]
    BY <1>5 DEF CreateReply
  <2>2. req[r].pc = "create" /\ rows' = rows \union {c} /\ q \in Comment
        /\ \A p \in req[r].under : p = q
    BY <1>5, <2>1 DEF CreateReply, Insert, TreeInv, TypeOK
  <2>3. ASSUME NEW p \in rows, p # q  PROVE ReplyCounts(p)'
    <3>1. Children(p)' = Children(p) /\ replyCount'[p] = replyCount[p] /\ lostAt' = lostAt
      BY <1>3, <2>1, <2>2, <2>3 DEF TypeOK
    <3>2. QED
      BY <3>1 DEF ReplyCounts
  <2>4. ReplyCounts(q)'
    <3>1. Children(q)' = Children(q) \union {c} /\ c \notin Children(q) /\ lostAt' = lostAt
      BY <1>3, <2>1, <2>2 DEF Children
    <3>2. Children(q) \in SUBSET Comment
      BY DEF Children, TypeOK
    <3>3. Cardinality(Children(q)) \in Nat /\ Cardinality(Children(q)') = Cardinality(Children(q)) + 1
      BY <3>1, <3>2, SetSize, FS_AddElement
    <3>4. replyCount'[q] = replyCount[q] + 1 /\ replyCount[q] \in Nat /\ lostAt[q] \in Nat
      BY <2>1, <2>2 DEF TypeOK
    <3>5. QED
      BY <2>1, <3>1, <3>3, <3>4 DEF ReplyCounts
  <2>5. ReplyCounts(c)'
    <3>1. Children(c)' = {} /\ replyCount'[c] = 0 /\ lostAt'[c] \in Nat
      BY <1>3, <2>1, <2>2 DEF TypeOK
    <3>2. QED
      BY <3>1, FS_EmptySet DEF ReplyCounts
  <2>6. QED
    BY <1>2, <2>1, <2>2, <2>3, <2>4, <2>5
<1>6. ASSUME NEW r \in Req, DeleteReply(r)  PROVE CountsDriftDown'
  <2> DEFINE c == req[r].c
  <2>1. PICK q \in parent[c] :
           /\ replyCount' = IF q \in rows
                            THEN [replyCount EXCEPT ![q] = Minus(@, 1), ![c] = 0]
                            ELSE [replyCount EXCEPT ![c] = 0]
           /\ lostAt' = IF c \in rows THEN lostAt ELSE [lostAt EXCEPT ![q] = @ + 1]
    BY <1>6 DEF DeleteReply
  <2>2. /\ c \in Comment /\ q \in Comment /\ \A p \in parent[c] : p = q
    BY <1>6, <2>1, RequestType DEF DeleteReply, TreeInv, TypeOK
  <2>3. rows' = rows \ {c} /\ parent' = parent /\ video' = video /\ CountDown(1)
        /\ lost' = IF c \in rows THEN lost ELSE lost + 1
    BY <1>6 DEF DeleteReply
  <2>4. VideoCounts'
    <3>1. rows \in SUBSET Comment /\ Cardinality(rows) \in Nat
      BY SetSize DEF TypeOK
    <3>2. CASE c \in rows
      <4>1. {c} \in SUBSET rows /\ Cardinality({c}) = 1
        BY <3>2, FS_Singleton
      <4>2. 1 <= Cardinality(rows) /\ Cardinality(rows') = Cardinality(rows) - 1
        BY <2>3, <3>1, <4>1, Less
      <4>3. QED
        BY <2>3, <3>1, <3>2, <4>2, Decrement DEF VideoCounts, CountDown, TypeOK
    <3>3. CASE c \notin rows
      <4>1. rows' = rows
        BY <2>3, <3>3
      <4>2. QED
        BY <2>3, <3>1, <3>3, <4>1, Decrement1 DEF VideoCounts, CountDown, TypeOK
    <3>4. QED
      BY <3>2, <3>3
  <2>5. ASSUME NEW p \in rows', p # q  PROVE ReplyCounts(p)'
    <3>1. p # c /\ p \in rows /\ p \in Comment
      BY <2>3 DEF TypeOK
    <3>2. replyCount'[p] = replyCount[p] /\ lostAt'[p] = lostAt[p]
      BY <2>1, <2>2, <2>5, <3>1 DEF TypeOK
    <3>3. c \notin Children(p)
      BY <2>2, <2>5 DEF Children
    <3>4. Children(p)' = Children(p) \ {c}
      BY <2>3, ChildrenLeft
    <3>5. Children(p)' = Children(p)
      BY <3>3, <3>4
    <3>6. QED
      BY <3>1, <3>2, <3>5 DEF ReplyCounts
  <2>6. ASSUME q \in rows'  PROVE ReplyCounts(q)'
    <3>1. q # c /\ q \in rows
      BY <2>3, <2>6
    <3>2. replyCount'[q] = Minus(replyCount[q], 1) /\ replyCount[q] \in Nat /\ lostAt[q] \in Nat
      BY <2>1, <2>2, <3>1 DEF TypeOK
    <3>3. Children(q)' = Children(q) \ {c} /\ Children(q) \in SUBSET Comment
      BY <2>3, ChildrenLeft DEF Children, TypeOK
    <3>4. Cardinality(Children(q)) \in Nat /\ ReplyCounts(q)
      BY <3>1, <3>3, SetSize
    <3>5. CASE c \in rows
      <4>1. c \in Children(q) /\ lostAt'[q] = lostAt[q]
        BY <2>1, <2>2, <3>5 DEF Children
      <4>2. {c} \in SUBSET Children(q) /\ Cardinality({c}) = 1
        BY <4>1, FS_Singleton
      <4>3. 1 <= Cardinality(Children(q)) /\ Cardinality(Children(q)') = Cardinality(Children(q)) - 1
        BY <3>3, <4>2, Less
      <4>4. QED
        BY <3>2, <3>4, <4>1, <4>3, Decrement DEF ReplyCounts
    <3>6. CASE c \notin rows
      <4>1. Children(q)' = Children(q) /\ lostAt'[q] = lostAt[q] + 1
        BY <2>1, <2>2, <3>3, <3>6 DEF Children, TypeOK
      <4>2. QED
        BY <3>2, <3>4, <4>1, Decrement1 DEF ReplyCounts
    <3>7. QED
      BY <3>5, <3>6
  <2>7. QED
    BY <2>4, <2>5, <2>6
<1>7. ASSUME NEW r \in Req, DeleteTopWithReplies(r)  PROVE CountsDriftDown'
  <2> DEFINE c == req[r].c
             removed == {c} \union Children(c)
  <2>1. c \in rows /\ parent[c] = {} /\ removed \in SUBSET rows /\ rows \in SUBSET Comment
    BY <1>7 DEF DeleteTopWithReplies, TopLevel, Children, TypeOK
  <2>2. /\ rows' = rows \ removed /\ parent' = parent /\ UNCHANGED <<video, lost, lostAt>>
        /\ replyCount' = [x \in Comment |-> IF x \in removed THEN 0 ELSE replyCount[x]]
        /\ CountDown(Cardinality(removed))
    BY <1>7 DEF DeleteTopWithReplies
  <2>3. VideoCounts'
    <3>1. /\ Cardinality(rows) \in Nat /\ Cardinality(removed) \in Nat
          /\ Cardinality(removed) <= Cardinality(rows)
          /\ Cardinality(rows') = Cardinality(rows) - Cardinality(removed)
      BY <2>1, <2>2, Less
    <3>2. SUFFICES ASSUME video = "live"
                   PROVE  commentCount' <= Cardinality(rows') /\ Cardinality(rows') <= commentCount' + lost'
      BY <2>2 DEF VideoCounts
    <3>3. commentCount <= Cardinality(rows) /\ Cardinality(rows) <= commentCount + lost
      BY <3>2 DEF VideoCounts
    <3>4. commentCount' = Minus(commentCount, Cardinality(removed)) /\ lost' = lost
      BY <2>2, <3>2 DEF CountDown
    <3>5. commentCount \in Nat /\ lost \in Nat
      BY DEF TypeOK
    <3>6. QED
      BY <3>1, <3>3, <3>4, <3>5, Decrement
  <2>4. ASSUME NEW p \in rows'  PROVE ReplyCounts(p)'
    <3>1. p \in rows /\ p \notin removed /\ replyCount'[p] = replyCount[p]
      BY <2>1, <2>2
    <3>2. \A x \in Children(p) : x \notin removed
      BY <2>1, <3>1 DEF Children, TreeInv, TypeOK
    <3>3. Children(p)' = Children(p)
      BY <2>2, <3>2, ChildrenLeft
    <3>4. QED
      BY <2>2, <3>1, <3>3 DEF ReplyCounts
  <2>5. QED
    BY <2>3, <2>4
<1>8. CASE HandleVideoDeleted
  <2>1. rows' = {} /\ video' # "live"
    BY <1>8 DEF HandleVideoDeleted
  <2>2. QED
    BY <2>1 DEF VideoCounts
<1>9. QED
  BY <1>1, <1>4, <1>5, <1>6, <1>7, <1>8
     DEF Next, vars, tree, counts, BeginCreate, ParentGone, BeginDelete, HeadGone, DeleteByTargets,
         DeleteTargetSets, Abort, BeginLike, SetLike, Publish, Rollback, HandleSwitched, DeadLetter,
         DeleteVideo

-----------------------------------------------------------------------------
LEMMA Invariance == Spec => []IInv
<1>1. IInv /\ [Next]_vars => IInv'
  BY TypeNext, TreeNext, CountsNext, ThreadsNext, LikesNext DEF IInv
<1>2. QED
  BY InitInv, <1>1, PTL DEF Spec

LEMMA Parts ==
    IInv => TypeOK /\ CountsDriftDown /\ RepliesKeepTheirThread /\ LikesGoWithComments
  BY DEF IInv

\* Every variable of the comments keeps the values of its type.
THEOREM TypeCorrect == Spec => []TypeOK
  BY Invariance, Parts, PTL

\* No counter ever exceeds its rows, and each falls behind them by no more than
\* the deletions that found the reply gone.
THEOREM CountersDriftDown == Spec => []CountsDriftDown
  BY Invariance, Parts, PTL

\* A reply to a top-level comment is there only as long as that comment.
THEOREM ThreadsStayWhole == Spec => []RepliesKeepTheirThread
  BY Invariance, Parts, PTL

\* The likes of a deleted comment are cleared, or there is a recorded reason why
\* nobody will.
THEOREM LikesGo == Spec => []LikesGoWithComments
  BY Invariance, Parts, PTL
=============================================================================
