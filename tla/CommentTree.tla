----------------------------- MODULE CommentTree ----------------------------
(***************************************************************************)
(* The comments of one video, the two counters kept beside them and the    *)
(* likes they own (modules/comment).  A comment is top-level or has a      *)
(* parent, which the code does not require to be top-level itself.         *)
(*                                                                         *)
(* A request reads what it is about with statements of its own and then    *)
(* runs one MySQL transaction.  The transactions lock the comment they     *)
(* hang on (the parent, the head of the thread) or the comment row they    *)
(* delete, so each is one step here; one that is chosen as the victim of a *)
(* deadlock changes nothing.  CommentCreated, published at the end of a    *)
(* creation, changes nothing of this state.                                *)
(*                                                                         *)
(* A like of a comment is in two places, the Redis set and user_like.  The *)
(* likes of different users never meet, so they are those of one user.     *)
(***************************************************************************)
EXTENDS Naturals, FiniteSets

CONSTANTS
    Comment,    \* the ids of comments, each given once
    Req,        \* the requests that may be in flight together
    MaxLikes,   \* bound on the requests to like or unlike a comment
    MaxFaults   \* bound on failing statements and redeliveries

ASSUME CommentAssumption == IsFiniteSet(Comment)
ASSUME BoundAssumption == MaxLikes \in Nat /\ MaxFaults \in Nat

VARIABLES
    video,      \* "live", its row "deleted", or cleaned up after VideoDeleted
    fresh,      \* the ids not given yet
    rows,       \* the comment rows
    parent,     \* parent[c]: {} for a top-level comment, {p} for a reply to p
    replyCount, \* comment.reply_count
    commentCount, \* video.comment_count
    liked,      \* the likes: <<"row", c>> in user_like, <<"set", c>> in Redis
    inbox,      \* LikeSwitched messages the like group has not acknowledged
    likesBegun, \* how many requests to like or unlike there were
    req,        \* the requests between two of their steps
    faults,     \* how many faults there were
    \* History, read by the properties only:
    lost,       \* decrements of commentCount for a reply that was gone
    lostAt,     \* lostAt[p]: the same for replyCount[p]
    excused     \* the likes that are there for good, for a known cause

vars == <<video, fresh, rows, parent, replyCount, commentCount, liked, inbox, likesBegun,
          req, faults, lost, lostAt, excused>>
tree == <<fresh, rows, parent>>
counts == <<replyCount, commentCount, lost, lostAt>>
likes == <<liked, inbox, likesBegun, excused>>

Like == {"row", "set"} \X Comment
Switched == [n : Nat, c : Comment, on : BOOLEAN]

Idle == [pc |-> "idle"]
Request == [pc : {"create"}, under : SUBSET Comment]
           \union [pc : {"delete"}, c : Comment]
           \union [pc : {"clearRows", "clearSets"}, ids : SUBSET Comment]
           \union [pc : {"like", "publish", "rollback"}, msg : Switched]

Children(p) == {c \in rows : p \in parent[c]}
TopLevel(c) == parent[c] = {}

\* Mutant: nothing stops a counter at zero.
Minus_NoFloor(n, k) == n - k

\* What a decrement leaves: GREATEST(n - k, 0), or WHERE reply_count > 0.
Minus(n, k) == IF n > k THEN n - k ELSE 0

\* incrVideoCommentCount changes the row of the video, if it is still there.
CountUp == commentCount' = IF video = "live" THEN commentCount + 1 ELSE commentCount
\* Mutant: the deletion of a thread counts as one comment.
CountDown_One(k) == commentCount' = IF video = "live" THEN Minus(commentCount, 1) ELSE commentCount

CountDown(k) == commentCount' = IF video = "live" THEN Minus(commentCount, k) ELSE commentCount

Fault == faults < MaxFaults /\ faults' = faults + 1
NoFault == faults' = faults

\* The likes that r is still to clear.
Owes(r) == CASE req[r].pc = "clearRows" -> {"row", "set"} \X req[r].ids
             [] req[r].pc = "clearSets" -> {"set"} \X req[r].ids
             [] OTHER -> {}

\* Nobody will clear the likes in ls.
Abandon(ls) == excused' = excused \union (liked \intersect ls)

Clear(ls) == liked' = liked \ ls /\ excused' = excused \ ls

\* A like is set or removed, whatever became of its comment.  One that comes
\* after the clearing of its place is there for good.
Switch(l, on) ==
    /\ liked' = IF on THEN liked \union {l} ELSE liked \ {l}
    /\ excused' = IF on /\ l[2] \notin rows /\ \A r \in Req : l \notin Owes(r)
                  THEN excused \union {l} ELSE excused \ {l}

Init ==
    /\ video = "live"
    /\ fresh = Comment /\ rows = {} /\ parent = [c \in Comment |-> {}]
    /\ replyCount = [c \in Comment |-> 0] /\ commentCount = 0
    /\ liked = {} /\ inbox = {} /\ likesBegun = 0
    /\ req = [r \in Req |-> Idle]
    /\ faults = 0
    /\ lost = 0 /\ lostAt = [c \in Comment |-> 0] /\ excused = {}

-----------------------------------------------------------------------------
(* Create *)

\* The video is published and the parent exists, when they are read.
BeginCreate(r, under) ==
    /\ req[r].pc = "idle"
    /\ video = "live"
    /\ under \subseteq rows /\ Cardinality(under) <= 1
    /\ req' = [req EXCEPT ![r] = [pc |-> "create", under |-> under]]
    /\ UNCHANGED <<video, tree, counts, likes, faults>>

Insert(r, c) ==
    /\ c \in fresh
    /\ fresh' = fresh \ {c}
    /\ rows' = rows \union {c}
    /\ parent' = [parent EXCEPT ![c] = req[r].under]
    /\ CountUp
    /\ req' = [req EXCEPT ![r] = Idle]
    /\ UNCHANGED <<video, likes, faults, lost, lostAt>>

CreateTop(r) ==
    /\ req[r].pc = "create" /\ req[r].under = {}
    /\ \E c \in Comment : Insert(r, c)
    /\ UNCHANGED replyCount

\* Mutant: the parent is not looked up again.
CreateReply_NoLock(r) ==
    /\ req[r].pc = "create"
    /\ \E p \in req[r].under, c \in Comment :
          /\ Insert(r, c)
          /\ replyCount' = [replyCount EXCEPT ![p] = @ + 1]

\* The parent is locked, and found again.
CreateReply(r) ==
    /\ req[r].pc = "create"
    /\ \E p \in req[r].under, c \in Comment :
          /\ p \in rows
          /\ Insert(r, c)
          /\ replyCount' = [replyCount EXCEPT ![p] = @ + 1]

ParentGone(r) ==
    /\ req[r].pc = "create"
    /\ \E p \in req[r].under : p \notin rows
    /\ req' = [req EXCEPT ![r] = Idle]
    /\ UNCHANGED <<video, tree, counts, likes, faults>>

-----------------------------------------------------------------------------
(* Delete *)

\* The row is read; its parent does not change.
BeginDelete(r, c) ==
    /\ req[r].pc = "idle"
    /\ c \in rows
    /\ req' = [req EXCEPT ![r] = [pc |-> "delete", c |-> c]]
    /\ UNCHANGED <<video, tree, counts, likes, faults>>

\* A reply: both counters go down, whether or not a row was deleted.
DeleteReply(r) ==
    LET c == req[r].c
    IN  /\ req[r].pc = "delete"
        /\ \E p \in parent[c] :
              /\ replyCount' = IF p \in rows
                               THEN [replyCount EXCEPT ![p] = Minus(@, 1), ![c] = 0]
                               ELSE [replyCount EXCEPT ![c] = 0]
              /\ lostAt' = IF c \in rows THEN lostAt ELSE [lostAt EXCEPT ![p] = @ + 1]
        /\ rows' = rows \ {c}
        /\ CountDown(1)
        /\ lost' = IF c \in rows THEN lost ELSE lost + 1
        /\ req' = [req EXCEPT ![r] = [pc |-> "clearRows", ids |-> {c}]]
        /\ UNCHANGED <<video, fresh, parent, likes, faults>>

\* A thread: the head is locked, and it goes with its replies.
DeleteTopWithReplies(r) ==
    LET c == req[r].c
        removed == {c} \union Children(c)
    IN  /\ req[r].pc = "delete" /\ TopLevel(c)
        /\ c \in rows
        /\ rows' = rows \ removed
        /\ replyCount' = [x \in Comment |-> IF x \in removed THEN 0 ELSE replyCount[x]]
        /\ CountDown(Cardinality(removed))
        /\ req' = [req EXCEPT ![r] = [pc |-> "clearRows", ids |-> removed]]
        /\ UNCHANGED <<video, fresh, parent, likes, faults, lost, lostAt>>

HeadGone(r) ==
    /\ req[r].pc = "delete" /\ TopLevel(req[r].c)
    /\ req[r].c \notin rows
    /\ req' = [req EXCEPT ![r] = Idle]
    /\ UNCHANGED <<video, tree, counts, likes, faults>>

\* Mutant: the rows of the likes of replies are forgotten.
DeleteByTargets_HeadOnly(r) ==
    /\ req[r].pc = "clearRows"
    /\ req' = [req EXCEPT ![r] = [pc |-> "clearSets", ids |-> req[r].ids]]
    /\ Clear({"row"} \X {c \in req[r].ids : TopLevel(c)}) /\ NoFault
    /\ UNCHANGED <<video, tree, counts, inbox, likesBegun>>

\* clearCommentLikes: the rows in user_like first; a failure is only logged ...
DeleteByTargets(r) ==
    LET half == {"row"} \X req[r].ids
    IN  /\ req[r].pc = "clearRows"
        /\ req' = [req EXCEPT ![r] = [pc |-> "clearSets", ids |-> req[r].ids]]
        /\ \/ Clear(half) /\ NoFault
           \/ Abandon(half) /\ Fault /\ UNCHANGED liked
        /\ UNCHANGED <<video, tree, counts, inbox, likesBegun>>

\* ... and the sets in Redis second.
DeleteTargetSets(r) ==
    LET half == {"set"} \X req[r].ids
    IN  /\ req[r].pc = "clearSets"
        /\ req' = [req EXCEPT ![r] = Idle]
        /\ \/ Clear(half) /\ NoFault
           \/ Abandon(half) /\ Fault /\ UNCHANGED liked
        /\ UNCHANGED <<video, tree, counts, inbox, likesBegun>>

\* A request ends early: a statement fails or is rolled back, the answer of one
\* that worked is lost, or the process stops.
Abort(r) ==
    /\ req[r].pc # "idle"
    /\ Fault
    /\ req' = [req EXCEPT ![r] = Idle]
    /\ Abandon(Owes(r))
    /\ UNCHANGED <<video, tree, counts, liked, inbox, likesBegun>>

-----------------------------------------------------------------------------
(* Likes of comments, and the deletion of the video *)

\* SetCommentLike finds the comment ...
BeginLike(r, c, on) ==
    /\ req[r].pc = "idle"
    /\ c \in rows
    /\ likesBegun < MaxLikes
    /\ likesBegun' = likesBegun + 1
    /\ req' = [req EXCEPT ![r] = [pc |-> "like", msg |-> [n |-> likesBegun, c |-> c, on |-> on]]]
    /\ UNCHANGED <<video, tree, counts, liked, inbox, excused, faults>>

\* ... and the script of setLike sets its set to the state wanted.
SetLike(r) ==
    LET l == <<"set", req[r].msg.c>>
        on == req[r].msg.on
    IN  /\ req[r].pc = "like"
        /\ IF (l \in liked) = on
           THEN req' = [req EXCEPT ![r] = Idle] /\ UNCHANGED <<liked, excused>>
           ELSE req' = [req EXCEPT ![r] = [pc |-> "publish", msg |-> req[r].msg]] /\ Switch(l, on)
        /\ UNCHANGED <<video, tree, counts, inbox, likesBegun, faults>>

\* LikeSwitched is published; or it is not, as far as the request is told, and
\* the broker has it or not.
Publish(r) ==
    /\ req[r].pc = "publish"
    /\ \/ /\ NoFault
          /\ inbox' = inbox \union {req[r].msg}
          /\ req' = [req EXCEPT ![r] = Idle]
       \/ /\ Fault
          /\ inbox' \in {inbox, inbox \union {req[r].msg}}
          /\ req' = [req EXCEPT ![r] = [pc |-> "rollback", msg |-> req[r].msg]]
    /\ UNCHANGED <<video, tree, counts, liked, likesBegun, excused>>

\* The opposite state, whatever the set holds by now (Abort when that fails).
Rollback(r) ==
    /\ req[r].pc = "rollback"
    /\ Switch(<<"set", req[r].msg.c>>, ~req[r].msg.on)
    /\ req' = [req EXCEPT ![r] = Idle]
    /\ UNCHANGED <<video, tree, counts, inbox, likesBegun, faults>>

\* The like group copies the switch to user_like and does not ask whether the
\* comment still exists; unless this is acknowledged, the message comes again.
HandleSwitched(m) ==
    /\ Switch(<<"row", m.c>>, m.on)
    /\ \/ inbox' = inbox \ {m} /\ NoFault
       \/ inbox' = inbox /\ Fault
    /\ UNCHANGED <<video, tree, counts, likesBegun, req>>

\* The broker gives up on a message.
DeadLetter(m) ==
    /\ Fault
    /\ inbox' = inbox \ {m}
    /\ UNCHANGED <<video, tree, counts, liked, likesBegun, excused, req>>

\* video.DeleteVideo
DeleteVideo ==
    /\ video = "live"
    /\ video' = "deleted"
    /\ UNCHANGED <<tree, counts, likes, req, faults>>

\* HandleVideoDeleted, again after a delivery that was not acknowledged.  The
\* likes of the comments it deletes stay.
HandleVideoDeleted ==
    /\ video = "deleted"
    /\ rows' = {}
    /\ replyCount' = [c \in Comment |-> 0]
    /\ Abandon({"row", "set"} \X rows)
    /\ \/ video' = "clean" /\ NoFault
       \/ video' = "deleted" /\ Fault
    /\ UNCHANGED <<fresh, parent, commentCount, lost, lostAt, liked, inbox, likesBegun, req>>

-----------------------------------------------------------------------------
Next ==
    \/ \E r \in Req :
          \/ \E under \in SUBSET rows : BeginCreate(r, under)
          \/ CreateTop(r)
          \/ CreateReply(r)
          \/ ParentGone(r)
          \/ \E c \in rows : BeginDelete(r, c)
          \/ DeleteReply(r)
          \/ DeleteTopWithReplies(r)
          \/ HeadGone(r)
          \/ DeleteByTargets(r)
          \/ DeleteTargetSets(r)
          \/ Abort(r)
          \/ \E c \in rows, on \in BOOLEAN : BeginLike(r, c, on)
          \/ SetLike(r)
          \/ Publish(r)
          \/ Rollback(r)
    \/ \E m \in inbox : HandleSwitched(m) \/ DeadLetter(m)
    \/ DeleteVideo
    \/ HandleVideoDeleted

Spec == Init /\ [][Next]_vars

-----------------------------------------------------------------------------
(* Properties *)

\* The values every variable takes.
TypeOK ==
    /\ video \in {"live", "deleted", "clean"}
    /\ fresh \subseteq Comment /\ rows \subseteq Comment \ fresh
    /\ parent \in [Comment -> SUBSET Comment]
    /\ replyCount \in [Comment -> Nat] /\ commentCount \in Nat
    /\ liked \subseteq Like /\ excused \subseteq Like
    /\ inbox \subseteq Switched /\ likesBegun \in Nat
    /\ req \in [Req -> Request \union {Idle}]
    /\ faults \in Nat /\ lost \in Nat /\ lostAt \in [Comment -> Nat]

\* However creations and deletions interleave, a counter never exceeds the
\* rows it counts, and falls behind them only by the deletions that found the
\* reply already gone: by exactly so much, unless GREATEST stopped it.
CountsDriftDown ==
    /\ video = "live" =>
          commentCount <= Cardinality(rows) /\ Cardinality(rows) <= commentCount + lost
    /\ \A p \in rows :
          /\ replyCount[p] <= Cardinality(Children(p))
          /\ Cardinality(Children(p)) <= replyCount[p] + lostAt[p]

\* The lock on the parent: a reply to a top-level comment never outlives it,
\* neither when its creation races the deletion of the thread nor when the
\* video goes.  (A reply to a reply does outlive its parent.)
RepliesKeepTheirThread ==
    \A c \in rows : \A p \in parent[c] : TopLevel(p) => p \in rows

\* A deleted comment keeps no like, neither a row nor an entry in its set, once
\* the deletion is through, unless clearing that place failed or never came to
\* run, a request or the like group set the like after it was cleared, or the
\* comment went with its video.
LikesGoWithComments ==
    \A l \in liked : l[2] \in rows \/ l \in excused \/ \E r \in Req : l \in Owes(r)

\* The comments on CreateTop (the transactions keep the counters in step) and
\* on Delete (deleting what is gone is a success that changes nothing).
CommentCountIsExact == video = "live" => commentCount = Cardinality(rows)
=============================================================================
