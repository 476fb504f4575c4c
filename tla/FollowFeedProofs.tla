-------------------------- MODULE FollowFeedProofs --------------------------
(***************************************************************************)
(* That the index of the follow feed is complete for every number of       *)
(* followers, videos, requests and workers, every size at which an author  *)
(* is big, and any number of switches and faults.                          *)
(*                                                                         *)
(* A scan owes nothing to who followed after it began; what that user has  *)
(* is a follow event that nobody has read yet, or that was read when the   *)
(* video was already marked published.  The second half of this is what    *)
(* marking the row before sending the event is for.                        *)
(***************************************************************************)
EXTENDS FollowFeed, TLAPS

\* The videos a page may show now or after the author makes them public.
Kept(v) == status[v] \in {"published", "private"}

\* u finds v in the index, or the history excuses that it does not.
Reached(u, v) == <<u, v>> \in excused \/ v \in inbox[u] \union outbox

\* Whoever is handling e has read v.
Answered(e, v) ==
    \A w \in Worker : work[w].pc = "backfill" /\ work[w].e = e =>
        v \in work[w].vs \/ <<e.u, v>> \in excused

\* A follow event of u, not handled yet or not sent yet, will bring v.
Owed(u, v) ==
    \/ \E r \in Req : req[r].pc # "idle" /\ req[r].on /\ req[r].u = u
    \/ \E e \in followed : e.u = u /\ Answered(e, v)

\* The switches are numbered, and nobody has the event of one that is yet to be
\* published.
NumbersInv ==
    /\ \A r \in Req : req[r].pc # "idle" => req[r].n <= ver
    /\ \A e \in followed : e.n <= ver
    /\ \A w \in Worker : work[w].pc = "backfill" => work[w].e.n <= ver
    /\ \A r \in Req : req[r].pc = "publish" =>
          /\ \A s \in Req : req[s].pc # "idle" /\ req[s].n = req[r].n => s = r
          /\ \A e \in followed : e.n # req[r].n
          /\ \A w \in Worker : work[w].pc = "backfill" => work[w].e.n # req[r].n

\* An event of a video is sent after its row is marked.
MarkedInv ==
    /\ \A v \in sending \union created : status[v] # "created"
    /\ \A w \in Worker : work[w].pc \in {"outbox", "scan", "push"} => status[work[w].v] # "created"

\* Who was served has the video; who came during the scan is owed it.
ScanInv ==
    \A w \in Worker, v \in Video : work[w].pc \in {"scan", "push"} /\ work[w].v = v =>
        /\ \A u \in work[w].done : v \in inbox[u]
        /\ Kept(v) => \A u \in followers \ work[w].must : Owed(u, v) \/ Reached(u, v)

\* A video that is out is on its way to a follower, or there.
IndexInv ==
    \A u \in followers, v \in Video : Kept(v) => Publishing(v) \/ Owed(u, v) \/ Reached(u, v)

IInv == TypeOK /\ NumbersInv /\ MarkedInv /\ ScanInv /\ IndexInv

-----------------------------------------------------------------------------
(* Types *)

LEMMA InitInv == Init => IInv
  BY DEF Init, IInv, TypeOK, NumbersInv, MarkedInv, ScanInv, IndexInv, Status, Idle

LEMMA TypeNext == TypeOK /\ [Next]_vars => TypeOK'
<1> SUFFICES ASSUME TypeOK, [Next]_vars PROVE TypeOK'
  OBVIOUS
<1> USE DEF TypeOK, Idle, Follow, Fault, NoFault, videos, index, queues, Excuse, Started
<1>1. ASSUME NEW v \in Video, Publish(v) PROVE TypeOK'
  BY <1>1 DEF Publish, Status
<1>2. ASSUME NEW v \in Video, SendCreated(v) PROVE TypeOK'
  BY <1>2 DEF SendCreated
<1>3. ASSUME NEW v \in Video, SwitchPrivate(v) PROVE TypeOK'
  BY <1>3 DEF SwitchPrivate, Status
<1>4. ASSUME NEW v \in Video, DeleteVideo(v) PROVE TypeOK'
  BY <1>4 DEF DeleteVideo, Status
<1>5. ASSUME NEW v \in Video, DropCreated(v) PROVE TypeOK'
  BY <1>5 DEF DropCreated
<1>6. ASSUME NEW u \in User, NEW on \in BOOLEAN, SetScript(u, on)
      PROVE  followers' \subseteq User /\ work' \in [Worker -> Work \union {Idle}]
  <2>1. ASSUME NEW w \in Worker, work[w].pc \in {"scan", "push"}
        PROVE  [work[w] EXCEPT !.must = @ \ {u}] \in Work
    <3>1. work[w] \in [pc : {"scan", "push"}, v : Video, must : SUBSET User, done : SUBSET User,
                       batch : SUBSET User]
      BY <2>1 DEF Work
    <3> QED
      BY <3>1 DEF Work
  <2> QED
    BY <1>6, <2>1 DEF SetScript
<1>7. ASSUME NEW r \in Req, NEW u \in User, NEW on \in BOOLEAN, SetChanged(r, u, on) PROVE TypeOK'
  <2>1. followers' \subseteq User /\ work' \in [Worker -> Work \union {Idle}]
    BY <1>6, <1>7 DEF SetChanged
  <2> QED
    BY <1>7, <2>1 DEF SetChanged, Request
<1>8. ASSUME NEW r \in Req, req[r].pc # "idle"
      PROVE  /\ req[r] \in Request
             /\ Stored(r) \subseteq Follow
  BY <1>8 DEF Stored, Request
<1>9. ASSUME NEW r \in Req, PublishOk(r) PROVE TypeOK'
  BY <1>8, <1>9 DEF PublishOk
<1>10. ASSUME NEW r \in Req, PublishFails(r) PROVE TypeOK'
  <2>1. req[r] \in Request /\ Stored(r) \subseteq Follow
    BY <1>8, <1>10 DEF PublishFails
  <2> QED
    BY <1>10, <2>1 DEF PublishFails, Request
<1>11. ASSUME NEW r \in Req, Rollback(r) PROVE TypeOK'
  <2>1. req[r] \in Request
    BY <1>8, <1>11 DEF Rollback
  <2>2. followers' \subseteq User /\ work' \in [Worker -> Work \union {Idle}]
    BY <1>6, <1>11, <2>1 DEF Rollback, Request
  <2> QED
    BY <1>11, <2>1, <2>2 DEF Rollback, Request
<1>12. ASSUME NEW w \in Worker, NEW v \in created, CountFollowers(w, v) PROVE TypeOK'
  <2>1. work'[w] \in Work
    BY <1>12 DEF CountFollowers, Work
  <2> QED
    BY <1>12, <2>1 DEF CountFollowers
<1>13. ASSUME NEW w \in Worker, work[w].pc = "outbox" PROVE work[w].v \in Video
  BY <1>13 DEF Work
<1>14. ASSUME NEW w \in Worker, work[w].pc \in {"scan", "push"}
       PROVE  work[w] \in [pc : {"scan", "push"}, v : Video, must : SUBSET User, done : SUBSET User,
                           batch : SUBSET User]
  BY <1>14 DEF Work
<1>15. ASSUME NEW w \in Worker, work[w].pc = "backfill"
       PROVE  work[w] \in [pc : {"backfill"}, e : Follow, vs : SUBSET Video]
  BY <1>15 DEF Work
<1>16. ASSUME NEW us \in SUBSET User, NEW vs \in SUBSET Video, Push(us, vs)
       PROVE  inbox' \in [User -> SUBSET Video]
  BY <1>16 DEF Push
<1>17. ASSUME NEW w \in Worker, PushOutboxItem(w) PROVE TypeOK'
  BY <1>13, <1>17 DEF PushOutboxItem, Acknowledge
<1>18. ASSUME NEW w \in Worker, FollowerIDsPage(w) PROVE TypeOK'
  <2>1. PICK batch \in SUBSET (followers \ work[w].done) :
            work' = [work EXCEPT ![w].pc = "push", ![w].batch = batch]
    BY <1>18 DEF FollowerIDsPage
  <2>2. work[w] \in [pc : {"scan", "push"}, v : Video, must : SUBSET User, done : SUBSET User,
                     batch : SUBSET User]
    BY <1>14, <1>18 DEF FollowerIDsPage
  <2>3. [work[w] EXCEPT !.pc = "push", !.batch = batch] \in Work
    BY <2>2 DEF Work
  <2>4. work' \in [Worker -> Work \union {Idle}]
    BY <2>1, <2>3
  <2> QED
    BY <1>18, <2>4 DEF FollowerIDsPage
<1>19. ASSUME NEW w \in Worker, PushInboxItems(w) PROVE TypeOK'
  <2>0. work[w] \in [pc : {"scan", "push"}, v : Video, must : SUBSET User, done : SUBSET User,
                     batch : SUBSET User]
    BY <1>14, <1>19 DEF PushInboxItems
  <2>1. inbox' \in [User -> SUBSET Video]
    BY <2>0, <1>16, <1>19 DEF PushInboxItems
  <2>2. work' \in [Worker -> Work \union {Idle}]
    <3>1. [work[w] EXCEPT !.pc = "scan", !.done = @ \union work[w].batch, !.batch = {}] \in Work
      BY <2>0 DEF Work
    <3> QED
      BY <1>19, <3>1 DEF PushInboxItems
  <2> QED
    BY <1>19, <2>1, <2>2 DEF PushInboxItems
<1>20. ASSUME NEW w \in Worker, ScanEnds(w) PROVE TypeOK'
  BY <1>20 DEF ScanEnds, Acknowledge
<1>21. ASSUME NEW w \in Worker, NEW e \in followed, ReadBackfill(w, e) PROVE TypeOK'
  <2>1. work'[w] \in Work
    BY <1>21 DEF ReadBackfill, Work, Published
  <2> QED
    BY <1>21, <2>1 DEF ReadBackfill
<1>22. ASSUME NEW w \in Worker, PushBackfill(w) PROVE TypeOK'
  <2>1. inbox' \in [User -> SUBSET Video]
    BY <1>15, <1>16, <1>22 DEF PushBackfill
  <2> QED
    BY <1>22, <2>1 DEF PushBackfill, AcknowledgeFollow
<1>23. ASSUME NEW w \in Worker, HandlerFails(w) PROVE TypeOK'
  BY <1>23 DEF HandlerFails
<1>24. ASSUME NEW e \in followed, DropFollowed(e) PROVE TypeOK'
  BY <1>24 DEF DropFollowed
<1>25. CASE Restart
  <2>1. \A r \in Req : req[r].pc # "idle" => req[r].u \in User
    BY DEF Request
  <2> QED
    BY <1>25, <2>1 DEF Restart
<1>26. CASE UNCHANGED vars
  BY <1>26 DEF vars
<1> QED
  BY <1>1, <1>2, <1>3, <1>4, <1>5, <1>7, <1>9, <1>10, <1>11, <1>12, <1>17, <1>18, <1>19, <1>20,
     <1>21, <1>22, <1>23, <1>24, <1>25, <1>26 DEF Next

\* The variables of the index and of its listeners keep their types.
THEOREM TypeCorrect == Spec => []TypeOK
<1>1. Init => TypeOK
  BY InitInv DEF IInv
<1> QED
  BY <1>1, TypeNext, PTL DEF Spec

-----------------------------------------------------------------------------
(* What the steps do to a scan and to a request *)

LEMMA ScanRecord ==
    ASSUME TypeOK, NEW w \in Worker, work[w].pc \in {"scan", "push"}
    PROVE  /\ work[w] \in [pc : {"scan", "push"}, v : Video, must : SUBSET User,
                           done : SUBSET User, batch : SUBSET User]
           /\ work \in [Worker -> Work \union {Idle}]
  BY DEF TypeOK, Work, Idle

LEMMA PageTaken ==
    ASSUME TypeOK, NEW w \in Worker, FollowerIDsPage(w)
    PROVE  /\ work[w].pc = "scan" /\ work'[w].pc = "push"
           /\ work'[w].v = work[w].v /\ work'[w].must = work[w].must
           /\ work'[w].done = work[w].done
           /\ \A x \in Worker \ {w} : work'[x] = work[x]
<1>1. PICK batch \in SUBSET (followers \ work[w].done) :
          work' = [work EXCEPT ![w].pc = "push", ![w].batch = batch]
  BY DEF FollowerIDsPage
<1>2. /\ work[w].pc = "scan" /\ work \in [Worker -> Work \union {Idle}]
      /\ work[w] \in [pc : {"scan", "push"}, v : Video, must : SUBSET User,
                      done : SUBSET User, batch : SUBSET User]
  BY ScanRecord DEF FollowerIDsPage
<1> DEFINE new == [work[w] EXCEPT !.pc = "push", !.batch = batch]
<1>3. /\ new.pc = "push" /\ new.v = work[w].v
      /\ new.must = work[w].must /\ new.done = work[w].done
  BY <1>2
<1>4. work'[w] = new
  BY <1>1, <1>2
<1> HIDE DEF new
<1>5. \A x \in Worker \ {w} : work'[x] = work[x]
  BY <1>1, <1>2
<1> QED
  BY <1>2, <1>3, <1>4, <1>5

LEMMA BatchPushed ==
    ASSUME TypeOK, NEW w \in Worker, PushInboxItems(w)
    PROVE  /\ work[w].pc = "push"
           /\ \A x \in Worker \ {w} : work'[x] = work[x]
           /\ \/ work'[w].pc = "idle"
              \/ /\ work'[w].pc = "scan"
                 /\ work'[w].v = work[w].v /\ work'[w].must = work[w].must
                 /\ work'[w].done = work[w].done \union work[w].batch
                 /\ Push(work[w].batch, {work[w].v})
<1>1. /\ work[w].pc = "push" /\ work \in [Worker -> Work \union {Idle}]
      /\ work[w] \in [pc : {"scan", "push"}, v : Video, must : SUBSET User,
                      done : SUBSET User, batch : SUBSET User]
  BY ScanRecord DEF PushInboxItems
<1>2. CASE work' = [work EXCEPT ![w] = Idle]
  BY <1>1, <1>2 DEF Idle
<1>3. CASE /\ Push(work[w].batch, {work[w].v})
           /\ work' = [work EXCEPT ![w].pc = "scan", ![w].done = @ \union work[w].batch,
                                  ![w].batch = {}]
  <2> DEFINE new == [work[w] EXCEPT !.pc = "scan", !.done = @ \union work[w].batch, !.batch = {}]
  <2>1. /\ new.pc = "scan" /\ new.v = work[w].v /\ new.must = work[w].must
        /\ new.done = work[w].done \union work[w].batch
    BY <1>1
  <2>2. work'[w] = new
    BY <1>1, <1>3
  <2> HIDE DEF new
  <2>3. \A x \in Worker \ {w} : work'[x] = work[x]
    BY <1>1, <1>3
  <2> QED
    BY <1>1, <1>3, <2>1, <2>2, <2>3
<1> QED
  BY <1>2, <1>3 DEF PushInboxItems

LEMMA WorkerDone ==
    ASSUME TypeOK, NEW w \in Worker,
           PushOutboxItem(w) \/ ScanEnds(w) \/ PushBackfill(w) \/ HandlerFails(w)
    PROVE  work' = [work EXCEPT ![w] = Idle] /\ work'[w].pc = "idle" /\ \A x \in Worker \ {w} : work'[x] = work[x]
<1>1. work' = [work EXCEPT ![w] = Idle]
  BY DEF PushOutboxItem, ScanEnds, PushBackfill, HandlerFails
<1> QED
  BY <1>1 DEF TypeOK, Idle

LEMMA BackfillRead ==
    ASSUME TypeOK, NEW w \in Worker, NEW e \in followed, ReadBackfill(w, e)
    PROVE  /\ work[w].pc = "idle"
           /\ work'[w].pc = "backfill" /\ work'[w].e = e /\ work'[w].vs = Published
           /\ \A x \in Worker \ {w} : work'[x] = work[x]
  BY DEF ReadBackfill, TypeOK

LEMMA ScriptOnWorkers ==
    ASSUME TypeOK, NEW u \in User, NEW on \in BOOLEAN, SetScript(u, on), NEW w \in Worker
    PROVE  /\ work'[w].pc = work[w].pc
           /\ work[w].pc \notin {"scan", "push"} => work'[w] = work[w]
           /\ work[w].pc \in {"scan", "push"} =>
                 /\ work'[w].v = work[w].v /\ work'[w].done = work[w].done
                 /\ work'[w].must = IF on THEN work[w].must ELSE work[w].must \ {u}
<1>1. CASE on
  BY <1>1 DEF SetScript
<1>2. CASE ~on /\ work[w].pc \notin {"scan", "push"}
  BY <1>2 DEF SetScript
<1>3. CASE ~on /\ work[w].pc \in {"scan", "push"}
  <2> DEFINE new == [work[w] EXCEPT !.must = @ \ {u}]
  <2>1. work'[w] = new
    BY <1>3 DEF SetScript
  <2>2. /\ new.pc = work[w].pc /\ new.v = work[w].v /\ new.done = work[w].done
        /\ new.must = work[w].must \ {u}
    BY <1>3, ScanRecord
  <2> HIDE DEF new
  <2> QED
    BY <1>3, <2>1, <2>2
<1> QED
  BY <1>1, <1>2, <1>3

LEMMA FailedKeepsItsRequest ==
    ASSUME TypeOK, NEW r \in Req, PublishFails(r)
    PROVE  /\ req[r].pc = "publish" /\ req'[r].pc = "rollback"
           /\ req'[r].n = req[r].n /\ req'[r].u = req[r].u /\ req'[r].on = req[r].on
           /\ \A s \in Req \ {r} : req'[s] = req[s]
<1>1. req[r].pc = "publish" /\ req' = [req EXCEPT ![r].pc = "rollback"]
  BY DEF PublishFails
<1>2. req \in [Req -> Request \union {Idle}] /\ req[r] \in Request
  BY <1>1 DEF TypeOK, Request, Idle
<1>3. [req[r] EXCEPT !.pc = "rollback"]
          = [pc |-> "rollback", u |-> req[r].u, on |-> req[r].on, n |-> req[r].n]
  BY <1>2 DEF Request
<1>4. req'[r] = [req[r] EXCEPT !.pc = "rollback"]
  BY <1>1, <1>2
<1>5. \A s \in Req \ {r} : req'[s] = req[s]
  BY <1>1, <1>2
<1> QED
  BY <1>1, <1>3, <1>4, <1>5

LEMMA PublishedIsIdle ==
    ASSUME TypeOK, NEW r \in Req, PublishOk(r)
    PROVE  req[r].pc = "publish" /\ req'[r].pc = "idle" /\ \A s \in Req \ {r} : req'[s] = req[s]
  BY DEF PublishOk, TypeOK, Idle

-----------------------------------------------------------------------------
(* The parts of the invariant that the last one needs *)

LEMMA NumbersNext == TypeOK /\ NumbersInv /\ [Next]_vars => NumbersInv'
<1> SUFFICES ASSUME TypeOK, NumbersInv, [Next]_vars PROVE NumbersInv'
  OBVIOUS
<1> USE DEF NumbersInv, Idle, videos, index, queues
<1>1. ASSUME NEW u \in User, NEW on \in BOOLEAN, SetScript(u, on)
      PROVE  \A w \in Worker : /\ work'[w].pc = work[w].pc
                               /\ work[w].pc = "backfill" => work'[w] = work[w]
  BY <1>1, ScriptOnWorkers
<1>2. ASSUME NEW r \in Req, req[r].pc # "idle"
      PROVE  req[r] \in Request /\ req[r].n \in Nat
  BY <1>2 DEF TypeOK, Request
<1>3. ASSUME NEW r \in Req, NEW u \in User, NEW on \in BOOLEAN, SetChanged(r, u, on)
      PROVE  NumbersInv'
  <2>1. /\ \A w \in Worker : work'[w].pc = "backfill" => work'[w] = work[w] /\ work[w].pc = "backfill"
        /\ \A w \in Worker : work[w].pc = "backfill" => work[w].e.n \in Nat
    BY <1>1, <1>3 DEF SetChanged, TypeOK, Work, Follow
  <2>2. /\ ver \in Nat /\ ver' = ver + 1 /\ followed' = followed
        /\ \A e \in followed : e.n \in Nat
        /\ \A s \in Req : req[s].pc # "idle" => req[s].n \in Nat
    BY <1>2, <1>3 DEF SetChanged, TypeOK, Follow
  <2>3. CASE req' = [req EXCEPT ![r] = [pc |-> "publish", u |-> u, on |-> on, n |-> ver + 1]]
    <3>1. /\ req'[r].n = ver + 1
          /\ \A s \in Req \ {r} : req'[s] = req[s]
      BY <2>3 DEF TypeOK
    <3> QED
      BY <2>1, <2>2, <3>1
  <2>4. CASE req' = req
    BY <2>1, <2>2, <2>4
  <2> QED
    BY <1>3, <2>3, <2>4 DEF SetChanged
<1>4. ASSUME NEW r \in Req, PublishOk(r) \/ PublishFails(r) PROVE NumbersInv'
  <2>1. /\ req[r].pc = "publish" /\ req'[r].pc \in {"idle", "rollback"}
        /\ req'[r].pc = "rollback" => req'[r].n = req[r].n
        /\ \A s \in Req \ {r} : req'[s] = req[s]
        /\ work' = work /\ ver' = ver
    BY <1>4, FailedKeepsItsRequest, PublishedIsIdle DEF PublishOk, PublishFails
  <2>2. followed' \subseteq Stored(r) /\ \A e \in Stored(r) : e \in followed \/ e.n = req[r].n
    BY <1>4 DEF PublishOk, PublishFails, Stored
  <2> QED
    BY <2>1, <2>2
<1>5. ASSUME NEW r \in Req, Rollback(r) PROVE NumbersInv'
  <2>1. req[r].u \in User /\ (~req[r].on) \in BOOLEAN
    BY <1>2, <1>5 DEF Rollback, Request
  <2>2. \A w \in Worker : work'[w].pc = "backfill" => work'[w] = work[w] /\ work[w].pc = "backfill"
    BY <1>1, <1>5, <2>1 DEF Rollback
  <2>3. /\ req'[r].pc = "idle" /\ \A s \in Req \ {r} : req'[s] = req[s]
        /\ followed' = followed /\ ver' = ver
    BY <1>5 DEF Rollback, TypeOK
  <2> QED
    BY <2>2, <2>3
<1>6. ASSUME followed' \subseteq followed, ver' = ver, req' = req,
             \A w \in Worker : work'[w].pc = "backfill" =>
                 \/ work[w].pc = "backfill" /\ work'[w].e = work[w].e
                 \/ work'[w].e \in followed
      PROVE  NumbersInv'
  BY <1>6
<1>7. ASSUME NEW v \in Video,
             Publish(v) \/ SendCreated(v) \/ SwitchPrivate(v) \/ DeleteVideo(v) \/ DropCreated(v)
      PROVE  NumbersInv'
  BY <1>6, <1>7 DEF Publish, SendCreated, SwitchPrivate, DeleteVideo, DropCreated
<1>8. ASSUME NEW w \in Worker, NEW v \in created, CountFollowers(w, v) PROVE NumbersInv'
  BY <1>6, <1>8 DEF CountFollowers, TypeOK
<1>9. ASSUME NEW w \in Worker,
             PushOutboxItem(w) \/ PushInboxItems(w) \/ ScanEnds(w) \/ PushBackfill(w) \/ HandlerFails(w)
      PROVE  NumbersInv'
  <2>1. \A x \in Worker \ {w} : work'[x] = work[x]
    BY <1>9, BatchPushed, WorkerDone
  <2>2. work'[w].pc # "backfill"
    BY <1>9, BatchPushed, WorkerDone
  <2>3. followed' \subseteq followed /\ ver' = ver /\ req' = req
    BY <1>9 DEF PushOutboxItem, PushInboxItems, ScanEnds, PushBackfill, HandlerFails, AcknowledgeFollow
  <2> QED
    BY <1>6, <2>1, <2>2, <2>3
<1>10. ASSUME NEW w \in Worker, FollowerIDsPage(w) PROVE NumbersInv'
  <2>1. work'[w].pc = "push" /\ \A x \in Worker \ {w} : work'[x] = work[x]
    BY <1>10, PageTaken
  <2> QED
    BY <1>6, <1>10, <2>1 DEF FollowerIDsPage
<1>11. ASSUME NEW w \in Worker, NEW e \in followed, ReadBackfill(w, e) PROVE NumbersInv'
  BY <1>6, <1>11 DEF ReadBackfill, TypeOK
<1>12. ASSUME NEW e \in followed, DropFollowed(e) PROVE NumbersInv'
  BY <1>6, <1>12 DEF DropFollowed
<1>13. CASE Restart
  BY <1>13 DEF Restart
<1>14. CASE UNCHANGED vars
  BY <1>14 DEF vars
<1> QED
  BY <1>3, <1>4, <1>5, <1>7, <1>8, <1>9, <1>10, <1>11, <1>12, <1>13, <1>14 DEF Next

LEMMA MarkedNext == TypeOK /\ MarkedInv /\ [Next]_vars => MarkedInv'
<1> SUFFICES ASSUME TypeOK, MarkedInv, [Next]_vars PROVE MarkedInv'
  OBVIOUS
<1> USE DEF videos, index, queues
\* No row is unmarked, and a worker takes up sent events only.
<1>1. \A v \in Video : status[v] # "created" => status'[v] # "created"
  BY DEF Next, Publish, SendCreated, SwitchPrivate, DeleteVideo, DropCreated, SetChanged, PublishOk,
         PublishFails, Rollback, CountFollowers, PushOutboxItem, FollowerIDsPage, PushInboxItems,
         ScanEnds, ReadBackfill, PushBackfill, HandlerFails, DropFollowed, Restart, vars, TypeOK
<1>2. \A v \in sending' \union created' : v \in sending \union created \/ status'[v] = "published"
  BY DEF Next, Publish, SendCreated, SwitchPrivate, DeleteVideo, DropCreated, SetChanged, PublishOk,
         PublishFails, Rollback, CountFollowers, PushOutboxItem, FollowerIDsPage, PushInboxItems,
         ScanEnds, ReadBackfill, PushBackfill, HandlerFails, DropFollowed, Restart, vars, TypeOK,
         Acknowledge
<1>3. ASSUME NEW w \in Worker, work'[w].pc \in {"outbox", "scan", "push"}
      PROVE  \/ work[w].pc \in {"outbox", "scan", "push"} /\ work'[w].v = work[w].v
             \/ work'[w].v \in created
  <2>1. ASSUME NEW u \in User, NEW on \in BOOLEAN, SetScript(u, on)
        PROVE  work[w].pc \in {"outbox", "scan", "push"} /\ work'[w].v = work[w].v
    BY <1>3, <2>1, ScriptOnWorkers
  <2>2. ASSUME NEW r \in Req, NEW u \in User, NEW on \in BOOLEAN, SetChanged(r, u, on)
        PROVE  work[w].pc \in {"outbox", "scan", "push"} /\ work'[w].v = work[w].v
    BY <2>1, <2>2 DEF SetChanged
  <2>3. ASSUME NEW r \in Req, Rollback(r)
        PROVE  work[w].pc \in {"outbox", "scan", "push"} /\ work'[w].v = work[w].v
    <3>1. req[r].u \in User /\ (~req[r].on) \in BOOLEAN
      BY <2>3 DEF Rollback, TypeOK, Request, Idle
    <3> QED
      BY <1>3, <2>1, <2>3, <3>1 DEF Rollback
  <2>4. ASSUME NEW x \in Worker, NEW v \in created, CountFollowers(x, v)
        PROVE  \/ work[w].pc \in {"outbox", "scan", "push"} /\ work'[w].v = work[w].v
               \/ work'[w].v \in created
    BY <1>3, <2>4 DEF CountFollowers, TypeOK
  <2>5. ASSUME NEW x \in Worker,
               PushOutboxItem(x) \/ ScanEnds(x) \/ PushBackfill(x) \/ HandlerFails(x)
        PROVE  work[w].pc \in {"outbox", "scan", "push"} /\ work'[w].v = work[w].v
    BY <1>3, <2>5, WorkerDone
  <2>6. ASSUME NEW x \in Worker, FollowerIDsPage(x) \/ PushInboxItems(x)
        PROVE  work[w].pc \in {"outbox", "scan", "push"} /\ work'[w].v = work[w].v
    <3>1. CASE FollowerIDsPage(x)
      BY <1>3, <3>1, PageTaken
    <3>2. CASE PushInboxItems(x)
      BY <1>3, <3>2, BatchPushed
    <3> QED
      BY <2>6, <3>1, <3>2
  <2>9. ASSUME NEW x \in Worker, NEW e \in followed, ReadBackfill(x, e)
        PROVE  work[w].pc \in {"outbox", "scan", "push"} /\ work'[w].v = work[w].v
    <3>1. work'[x].pc = "backfill" /\ \A y \in Worker \ {x} : work'[y] = work[y]
      BY <2>9, BackfillRead
    <3> QED
      BY <1>3, <3>1
  <2>7. CASE Restart
    BY <1>3, <2>7 DEF Restart, Idle
  <2>8. CASE UNCHANGED work
    BY <1>3, <2>8
  <2> QED
    BY <2>2, <2>3, <2>4, <2>5, <2>6, <2>7, <2>8, <2>9
       DEF Next, Publish, SendCreated, SwitchPrivate, DeleteVideo, DropCreated, PublishOk,
           PublishFails, DropFollowed, vars
<1>4. ASSUME NEW w \in Worker, work[w].pc \in {"outbox", "scan", "push"}
      PROVE  work[w].v \in Video
  BY <1>4 DEF TypeOK, Work, Idle
<1> QED
  <2>1. sending \subseteq Video /\ created \subseteq Video
    BY DEF TypeOK
  <2> QED
    BY <1>1, <1>2, <1>3, <1>4, <2>1 DEF MarkedInv

-----------------------------------------------------------------------------
(* What a follower has, or is owed, stays *)

LEMMA ExcusedStays == TypeOK /\ [Next]_vars => excused \subseteq excused'
  BY DEF Next, Publish, SendCreated, SwitchPrivate, DeleteVideo, DropCreated, SetChanged, PublishOk,
         PublishFails, Rollback, CountFollowers, PushOutboxItem, FollowerIDsPage, PushInboxItems,
         ScanEnds, ReadBackfill, PushBackfill, HandlerFails, DropFollowed, Restart, vars, Excuse

LEMMA PushAdds ==
    ASSUME TypeOK, NEW us, NEW vs, Push(us, vs), NEW u \in User
    PROVE  inbox[u] \subseteq inbox'[u] /\ (u \in us => vs \subseteq inbox'[u])
  BY DEF Push

LEMMA InboxGrows ==
    ASSUME TypeOK, [Next]_vars, NEW u \in User
    PROVE  inbox[u] \subseteq inbox'[u]
<1>1. ASSUME NEW w \in Worker, PushInboxItems(w) PROVE inbox[u] \subseteq inbox'[u]
  BY <1>1, PushAdds DEF PushInboxItems
<1>2. ASSUME NEW w \in Worker, PushBackfill(w) PROVE inbox[u] \subseteq inbox'[u]
  BY <1>2, PushAdds DEF PushBackfill
<1>3. CASE UNCHANGED inbox
  BY <1>3
<1> QED
  BY <1>1, <1>2, <1>3
     DEF Next, Publish, SendCreated, SwitchPrivate, DeleteVideo, DropCreated, SetChanged, PublishOk,
         PublishFails, Rollback, CountFollowers, PushOutboxItem, FollowerIDsPage, ScanEnds,
         ReadBackfill, HandlerFails, DropFollowed, Restart, vars, index

LEMMA ReachedStays ==
    ASSUME TypeOK, [Next]_vars, NEW u \in User, NEW v \in Video, Reached(u, v)
    PROVE  Reached(u, v)'
<1>1. excused \subseteq excused'
  BY ExcusedStays
<1>2. outbox \subseteq outbox'
  BY DEF Next, Publish, SendCreated, SwitchPrivate, DeleteVideo, DropCreated, SetChanged, PublishOk,
         PublishFails, Rollback, CountFollowers, PushOutboxItem, FollowerIDsPage, PushInboxItems,
         ScanEnds, ReadBackfill, PushBackfill, HandlerFails, DropFollowed, Restart, vars, index
<1>3. inbox[u] \subseteq inbox'[u]
  BY InboxGrows
<1> QED
  BY <1>1, <1>2, <1>3 DEF Reached

\* As long as requests go on, no event is taken away, and who reads one reads v.
LEMMA OwedCarries ==
    ASSUME NEW u \in User, NEW v \in Video, Owed(u, v),
           excused \subseteq excused', followed \subseteq followed',
           \A r \in Req : req[r].pc # "idle" =>
               req'[r].pc # "idle" /\ req'[r].on = req[r].on /\ req'[r].u = req[r].u,
           \A w \in Worker : work'[w].pc = "backfill" =>
               \/ work[w].pc = "backfill" /\ work'[w].e = work[w].e /\ work'[w].vs = work[w].vs
               \/ v \in work'[w].vs
               \/ <<work'[w].e.u, v>> \in excused'
    PROVE  Owed(u, v)'
<1>1. ASSUME NEW r \in Req, req[r].pc # "idle", req[r].on, req[r].u = u
      PROVE  Owed(u, v)'
  BY <1>1 DEF Owed
<1>2. ASSUME NEW e \in followed, e.u = u, Answered(e, v)
      PROVE  Owed(u, v)'
  <2>1. Answered(e, v)'
    BY <1>2 DEF Answered
  <2> QED
    BY <1>2, <2>1 DEF Owed
<1> QED
  BY <1>1, <1>2 DEF Owed

\* The script leaves the listeners of follow events alone.
LEMMA ScriptOnBackfill ==
    ASSUME TypeOK, NEW u \in User, NEW on \in BOOLEAN, SetScript(u, on)
    PROVE  \A w \in Worker : work'[w].pc = "backfill" => work[w].pc = "backfill" /\ work'[w] = work[w]
<1> SUFFICES ASSUME NEW w \in Worker, work'[w].pc = "backfill"
             PROVE  work[w].pc = "backfill" /\ work'[w] = work[w]
  OBVIOUS
<1>1. work'[w].pc = work[w].pc /\ (work[w].pc \notin {"scan", "push"} => work'[w] = work[w])
  BY ScriptOnWorkers
<1> QED
  BY <1>1

LEMMA RequestType ==
    ASSUME TypeOK, NEW r \in Req, req[r].pc # "idle"
    PROVE  req[r].u \in User /\ req[r].on \in BOOLEAN /\ req[r].n \in Nat
  BY DEF TypeOK, Request, Idle

LEMMA OwedStays ==
    ASSUME TypeOK, NumbersInv, [Next]_vars, NEW u \in followers', NEW v \in Video, u \in User,
           Kept(v), Owed(u, v)
    PROVE  Owed(u, v)' \/ Reached(u, v)'
<1> USE DEF videos, index, queues
<1>0. excused \subseteq excused'
  BY ExcusedStays
<1>1. ASSUME NEW x \in Video,
             Publish(x) \/ SendCreated(x) \/ SwitchPrivate(x) \/ DeleteVideo(x) \/ DropCreated(x)
      PROVE  Owed(u, v)'
  <2>1. followed' = followed /\ req' = req /\ work' = work
    BY <1>1 DEF Publish, SendCreated, SwitchPrivate, DeleteVideo, DropCreated
  <2> QED
    BY <1>0, <2>1, OwedCarries
<1>2. ASSUME NEW r \in Req, NEW x \in User, NEW on \in BOOLEAN, SetChanged(r, x, on)
      PROVE  Owed(u, v)'
  <2>1. \A w \in Worker : work'[w].pc = "backfill" => work[w].pc = "backfill" /\ work'[w] = work[w]
    BY <1>2, ScriptOnBackfill DEF SetChanged
  <2>2. followed' = followed /\ \A s \in Req : req[s].pc # "idle" => req'[s] = req[s]
    BY <1>2 DEF SetChanged, TypeOK
  <2> QED
    BY <1>0, <2>1, <2>2, OwedCarries
<1>3. ASSUME NEW r \in Req, PublishOk(r)
      PROVE  Owed(u, v)'
  <2>1. req[r].pc = "publish" /\ req'[r].pc = "idle" /\ \A s \in Req \ {r} : req'[s] = req[s]
    BY <1>3, PublishedIsIdle
  <2>2. followed' = Stored(r) /\ work' = work /\ excused' = excused
    BY <1>3 DEF PublishOk
  \* The event is new, so nobody is handling it with an older read.
  <2>3. ASSUME req[r].on, req[r].u = u
        PROVE  Owed(u, v)'
    <3>1. PICK e \in followed' : e.u = u /\ e.n = req[r].n
      <4>1. [u |-> u, n |-> req[r].n] \in followed'
        BY <2>2, <2>3 DEF Stored
      <4> QED
        BY <4>1
    <3>2. \A w \in Worker : work[w].pc = "backfill" => work[w].e # e
      BY <2>1, <3>1 DEF NumbersInv
    <3>3. Answered(e, v)'
      BY <2>2, <3>2 DEF Answered
    <3> QED
      BY <3>1, <3>3 DEF Owed
  <2>4. ASSUME NEW s \in Req, s # r, req[s].pc # "idle", req[s].on, req[s].u = u
        PROVE  Owed(u, v)'
    BY <2>1, <2>4 DEF Owed
  <2>5. ASSUME NEW e \in followed, e.u = u, Answered(e, v)
        PROVE  Owed(u, v)'
    BY <2>2, <2>5 DEF Owed, Answered, Stored
  <2> QED
    BY <2>3, <2>4, <2>5 DEF Owed
<1>4. ASSUME NEW r \in Req, PublishFails(r)
      PROVE  Owed(u, v)'
  <2>1. /\ req[r].pc = "publish" /\ req'[r].pc = "rollback"
        /\ req'[r].u = req[r].u /\ req'[r].on = req[r].on
        /\ \A s \in Req \ {r} : req'[s] = req[s]
    BY <1>4, FailedKeepsItsRequest
  <2>2. followed \subseteq followed' /\ work' = work
    BY <1>4 DEF PublishFails, Stored
  <2> QED
    BY <1>0, <2>1, <2>2, OwedCarries
<1>5. ASSUME NEW r \in Req, Rollback(r)
      PROVE  Owed(u, v)' \/ Reached(u, v)'
  <2>1. /\ req[r].u \in User /\ (~req[r].on) \in BOOLEAN
        /\ req[r].pc = "rollback"
    BY <1>5, RequestType DEF Rollback
  <2>2. \A w \in Worker : work'[w].pc = "backfill" => work[w].pc = "backfill" /\ work'[w] = work[w]
    BY <1>5, <2>1, ScriptOnBackfill DEF Rollback
  <2>3. /\ req'[r].pc = "idle" /\ \A s \in Req \ {r} : req'[s] = req[s]
        /\ followed' = followed
    BY <1>5 DEF Rollback, TypeOK, Idle
  <2>4. ASSUME req[r].on, req[r].u = u
        PROVE  Reached(u, v)'
    <3>1. excused' = excused \union ({u} \X Started)
      BY <1>5, <2>4 DEF Rollback, Excuse
    <3>2. v \in Started
      BY DEF Started, Kept
    <3> QED
      BY <3>1, <3>2 DEF Reached
  <2>5. ASSUME NEW s \in Req, s # r, req[s].pc # "idle", req[s].on, req[s].u = u
        PROVE  Owed(u, v)'
    BY <2>3, <2>5 DEF Owed
  <2>6. ASSUME NEW e \in followed, e.u = u, Answered(e, v)
        PROVE  Owed(u, v)'
    <3>1. Answered(e, v)'
      BY <1>0, <2>2, <2>6 DEF Answered
    <3> QED
      BY <2>3, <2>6, <3>1 DEF Owed
  <2> QED
    BY <2>4, <2>5, <2>6 DEF Owed
<1>6. ASSUME NEW w \in Worker, NEW x \in created, CountFollowers(w, x)
      PROVE  Owed(u, v)'
  <2>1. /\ work'[w].pc # "backfill" /\ \A y \in Worker \ {w} : work'[y] = work[y]
        /\ followed' = followed /\ req' = req
    BY <1>6 DEF CountFollowers, TypeOK
  <2> QED
    BY <1>0, <2>1, OwedCarries
<1>7. ASSUME NEW w \in Worker, PushOutboxItem(w) \/ ScanEnds(w) \/ HandlerFails(w)
      PROVE  Owed(u, v)'
  <2>1. /\ work'[w].pc = "idle" /\ \A y \in Worker \ {w} : work'[y] = work[y]
    BY <1>7, WorkerDone
  <2>2. followed' = followed /\ req' = req
    BY <1>7 DEF PushOutboxItem, ScanEnds, HandlerFails
  <2> QED
    BY <1>0, <2>1, <2>2, OwedCarries
<1>8. ASSUME NEW w \in Worker, FollowerIDsPage(w)
      PROVE  Owed(u, v)'
  <2>1. work'[w].pc = "push" /\ \A y \in Worker \ {w} : work'[y] = work[y]
    BY <1>8, PageTaken
  <2>2. followed' = followed /\ req' = req
    BY <1>8 DEF FollowerIDsPage
  <2> QED
    BY <1>0, <2>1, <2>2, OwedCarries
<1>9. ASSUME NEW w \in Worker, PushInboxItems(w)
      PROVE  Owed(u, v)'
  <2>1. work'[w].pc # "backfill" /\ \A y \in Worker \ {w} : work'[y] = work[y]
    BY <1>9, BatchPushed
  <2>2. followed' = followed /\ req' = req
    BY <1>9 DEF PushInboxItems
  <2> QED
    BY <1>0, <2>1, <2>2, OwedCarries
<1>10. ASSUME NEW w \in Worker, NEW e \in followed, ReadBackfill(w, e)
       PROVE  Owed(u, v)'
  <2>1. /\ work'[w].pc = "backfill" /\ work'[w].e = e /\ work'[w].vs = Published
        /\ \A y \in Worker \ {w} : work'[y] = work[y]
    BY <1>10, BackfillRead
  <2>2. /\ followed' = followed /\ req' = req
        /\ excused' = excused \union ({e.u} \X {x \in Video : status[x] = "private"})
    BY <1>10 DEF ReadBackfill, Excuse
  <2>3. v \in Published \/ <<e.u, v>> \in excused'
    BY <2>2 DEF Published, Kept
  <2> QED
    BY <1>0, <2>1, <2>2, <2>3, OwedCarries
<1>11. ASSUME NEW w \in Worker, PushBackfill(w)
       PROVE  Owed(u, v)' \/ Reached(u, v)'
  <2>1. /\ work'[w].pc = "idle" /\ \A y \in Worker \ {w} : work'[y] = work[y]
        /\ work[w].pc = "backfill" /\ req' = req
    BY <1>11, WorkerDone DEF PushBackfill
  <2>2. CASE followed' = followed
    BY <1>0, <2>1, <2>2, OwedCarries
  <2>3. CASE followed' = followed \ {work[w].e} /\ Push({work[w].e.u}, work[w].vs)
    <3>1. ASSUME NEW s \in Req, req[s].pc # "idle", req[s].on, req[s].u = u
          PROVE  Owed(u, v)'
      BY <2>1, <3>1 DEF Owed
    <3>2. ASSUME NEW e \in followed, e # work[w].e, e.u = u, Answered(e, v)
          PROVE  Owed(u, v)'
      <4>1. Answered(e, v)'
        BY <1>0, <2>1, <3>2 DEF Answered
      <4> QED
        BY <2>3, <3>2, <4>1 DEF Owed
    <3>3. ASSUME work[w].e.u = u, Answered(work[w].e, v)
          PROVE  Reached(u, v)'
      <4>1. v \in work[w].vs \/ <<u, v>> \in excused
        BY <2>1, <3>3 DEF Answered
      <4>2. work[w].vs \subseteq inbox'[u]
        BY <2>3, <3>3, PushAdds
      <4> QED
        BY <1>0, <4>1, <4>2 DEF Reached
    <3> QED
      BY <3>1, <3>2, <3>3 DEF Owed
  <2> QED
    BY <1>11, <2>2, <2>3 DEF PushBackfill, AcknowledgeFollow
<1>12. ASSUME NEW e \in followed, DropFollowed(e)
       PROVE  Owed(u, v)' \/ Reached(u, v)'
  <2>1. /\ req' = req /\ work' = work /\ followed' = followed \ {e}
        /\ excused' = excused \union ({e.u} \X Started)
    BY <1>12 DEF DropFollowed, Excuse
  <2>2. ASSUME NEW d \in followed, d.u = u, Answered(d, v)
        PROVE  Owed(u, v)' \/ Reached(u, v)'
    <3>1. CASE d = e
      BY <2>1, <2>2, <3>1 DEF Reached, Started, Kept
    <3>2. CASE d # e
      <4>1. Answered(d, v)'
        BY <1>0, <2>1, <2>2 DEF Answered
      <4> QED
        BY <2>1, <2>2, <3>2, <4>1 DEF Owed
    <3> QED
      BY <3>1, <3>2
  <2> QED
    BY <2>1, <2>2 DEF Owed
<1>13. CASE Restart
  <2>1. /\ \A w \in Worker : work'[w].pc = "idle"
        /\ followed' = followed
    BY <1>13 DEF Restart, Idle
  <2>2. ASSUME NEW r \in Req, req[r].pc # "idle", req[r].on, req[r].u = u
        PROVE  Reached(u, v)'
    <3>1. v \in Started
      BY DEF Started, Kept
    <3>2. {req[x].u : x \in {y \in Req : req[y].pc # "idle" /\ req[y].on}} \X Started \subseteq excused'
      BY <1>13 DEF Restart
    <3> QED
      BY <2>2, <3>1, <3>2 DEF Reached
  <2>3. ASSUME NEW e \in followed, e.u = u, Answered(e, v)
        PROVE  Owed(u, v)'
    BY <2>1, <2>3 DEF Owed, Answered
  <2> QED
    BY <2>2, <2>3 DEF Owed
<1>14. CASE UNCHANGED vars
  <2>1. followed' = followed /\ req' = req /\ work' = work
    BY <1>14 DEF vars
  <2> QED
    BY <1>0, <2>1, OwedCarries
<1> QED
  BY <1>1, <1>2, <1>3, <1>4, <1>5, <1>6, <1>7, <1>8, <1>9, <1>10, <1>11, <1>12, <1>13, <1>14 DEF Next

\* Who becomes a follower has an event ahead, or an excuse.
LEMMA JoinedIsOwed ==
    ASSUME TypeOK, [Next]_vars, NEW u \in followers' \ followers, NEW v \in Video, Kept(v)
    PROVE  Owed(u, v)' \/ Reached(u, v)'
<1>1. v \in Started
  BY DEF Kept, Started
<1>2. ASSUME NEW r \in Req, NEW x \in User, NEW on \in BOOLEAN, SetChanged(r, x, on)
      PROVE  Owed(u, v)' \/ Reached(u, v)'
  <2>1. x = u /\ on
    BY <1>2 DEF SetChanged, SetScript
  <2>2. CASE req' = [req EXCEPT ![r] = [pc |-> "publish", u |-> x, on |-> on, n |-> ver + 1]]
    <3>1. req'[r].pc # "idle" /\ req'[r].on /\ req'[r].u = u
      BY <2>1, <2>2 DEF TypeOK
    <3> QED
      BY <3>1 DEF Owed
  <2>3. CASE excused' = excused \union ({x} \X Started)
    BY <1>1, <2>1, <2>3 DEF Reached
  <2> QED
    BY <1>2, <2>1, <2>2, <2>3 DEF SetChanged, Excuse
<1>3. ASSUME NEW r \in Req, Rollback(r)
      PROVE  Reached(u, v)'
  <2>1. u = req[r].u
    BY <1>3 DEF Rollback, SetScript
  <2>2. excused' = excused \union ({u} \X Started)
    BY <1>3, <2>1 DEF Rollback, Excuse
  <2> QED
    BY <1>1, <2>2 DEF Reached
<1>4. CASE followers' = followers
  BY <1>4
<1> QED
  BY <1>2, <1>3, <1>4
     DEF Next, Publish, SendCreated, SwitchPrivate, DeleteVideo, DropCreated, PublishOk, PublishFails,
         CountFollowers, PushOutboxItem, FollowerIDsPage, PushInboxItems, ScanEnds, ReadBackfill,
         PushBackfill, HandlerFails, DropFollowed, Restart, vars

-----------------------------------------------------------------------------
(* The scan and the index *)

\* A scan goes on with what it had, or took a page, or begins.
LEMMA ScanGoesOn ==
    ASSUME TypeOK, [Next]_vars, NEW w \in Worker, work'[w].pc \in {"scan", "push"}
    PROVE  \/ /\ work[w].pc \in {"scan", "push"} /\ work'[w].v = work[w].v
              /\ work'[w].must = work[w].must \/ (work'[w].must \in SUBSET work[w].must
                     /\ work[w].must \ work'[w].must \subseteq User \ followers')
              /\ \/ work'[w].done = work[w].done
                 \/ /\ work'[w].done = work[w].done \union work[w].batch
                    /\ Push(work[w].batch, {work[w].v})
           \/ /\ work'[w].v \in created /\ work'[w].must = followers /\ work'[w].done = {}
              /\ followers' = followers
<1>1. ASSUME NEW u \in User, NEW on \in BOOLEAN, SetScript(u, on)
      PROVE  /\ work[w].pc \in {"scan", "push"} /\ work'[w].v = work[w].v
             /\ work'[w].must = work[w].must \/ (work'[w].must \in SUBSET work[w].must
                    /\ work[w].must \ work'[w].must \subseteq User \ followers')
             /\ work'[w].done = work[w].done
  <2>1. /\ work[w].pc \in {"scan", "push"} /\ work'[w].v = work[w].v /\ work'[w].done = work[w].done
        /\ work'[w].must = IF on THEN work[w].must ELSE work[w].must \ {u}
    BY <1>1, ScriptOnWorkers
  <2>2. ~on => u \notin followers'
    BY <1>1 DEF SetScript
  <2> QED
    BY <2>1, <2>2
<1>2. ASSUME NEW r \in Req, NEW u \in User, NEW on \in BOOLEAN, SetChanged(r, u, on)
      PROVE  /\ work[w].pc \in {"scan", "push"} /\ work'[w].v = work[w].v
             /\ work'[w].must = work[w].must \/ (work'[w].must \in SUBSET work[w].must
                    /\ work[w].must \ work'[w].must \subseteq User \ followers')
             /\ work'[w].done = work[w].done
  BY <1>1, <1>2 DEF SetChanged
<1>3. CASE UNCHANGED work
  BY <1>3
<1>4. ASSUME NEW r \in Req, Rollback(r)
      PROVE  /\ work[w].pc \in {"scan", "push"} /\ work'[w].v = work[w].v
             /\ work'[w].must = work[w].must \/ (work'[w].must \in SUBSET work[w].must
                    /\ work[w].must \ work'[w].must \subseteq User \ followers')
             /\ work'[w].done = work[w].done
  <2>1. req[r].u \in User /\ (~req[r].on) \in BOOLEAN
    BY <1>4, RequestType DEF Rollback
  <2>2. SetScript(req[r].u, ~req[r].on) \/ UNCHANGED work
    BY <1>4 DEF Rollback
  <2> QED
    BY <1>1, <2>1, <2>2
<1>5. ASSUME NEW x \in Worker, NEW v \in created, CountFollowers(x, v)
      PROVE  \/ work'[w] = work[w]
             \/ /\ work'[w].v \in created /\ work'[w].must = followers /\ work'[w].done = {}
                /\ followers' = followers
  BY <1>5 DEF CountFollowers, TypeOK
<1>6. ASSUME NEW x \in Worker,
             PushOutboxItem(x) \/ ScanEnds(x) \/ PushBackfill(x) \/ HandlerFails(x)
      PROVE  work'[w] = work[w]
  BY <1>6, WorkerDone
<1>7. ASSUME NEW x \in Worker, NEW e \in followed, ReadBackfill(x, e)
      PROVE  work'[w] = work[w]
  <2>1. work'[x].pc = "backfill" /\ \A y \in Worker \ {x} : work'[y] = work[y]
    BY <1>7, BackfillRead
  <2> QED
    BY <2>1
<1>8. ASSUME NEW x \in Worker, FollowerIDsPage(x)
      PROVE  /\ work[w].pc \in {"scan", "push"} /\ work'[w].v = work[w].v
             /\ work'[w].must = work[w].must /\ work'[w].done = work[w].done
  BY <1>8, PageTaken
<1>9. ASSUME NEW x \in Worker, PushInboxItems(x)
      PROVE  /\ work[w].pc \in {"scan", "push"} /\ work'[w].v = work[w].v
             /\ work'[w].must = work[w].must
             /\ \/ work'[w].done = work[w].done
                \/ /\ work'[w].done = work[w].done \union work[w].batch
                   /\ Push(work[w].batch, {work[w].v})
  BY <1>9, BatchPushed
<1>10. CASE Restart
  BY <1>10 DEF Restart, Idle
<1> QED
  BY <1>2, <1>3, <1>4, <1>5, <1>6, <1>7, <1>8, <1>9, <1>10
     DEF Next, Publish, SendCreated, SwitchPrivate, DeleteVideo, DropCreated, PublishOk, PublishFails,
         DropFollowed, vars

\* A status never leaves and enters Kept but by being published.
LEMMA KeptBefore ==
    ASSUME TypeOK, [Next]_vars, NEW v \in Video, Kept(v)'
    PROVE  Kept(v) \/ (status[v] = "created" /\ v \in sending')
  BY DEF Kept, Next, Publish, SendCreated, SwitchPrivate, DeleteVideo, DropCreated, SetChanged, PublishOk,
         PublishFails, Rollback, CountFollowers, PushOutboxItem, FollowerIDsPage, PushInboxItems,
         ScanEnds, ReadBackfill, PushBackfill, HandlerFails, DropFollowed, Restart, vars, videos, TypeOK

LEMMA ScanNext == TypeOK /\ NumbersInv /\ MarkedInv /\ ScanInv /\ [Next]_vars => ScanInv'
<1> SUFFICES ASSUME TypeOK, NumbersInv, MarkedInv, ScanInv, [Next]_vars,
                    NEW w \in Worker, NEW v \in Video,
                    work'[w].pc \in {"scan", "push"}, work'[w].v = v
             PROVE  /\ \A u \in work'[w].done : v \in inbox'[u]
                    /\ Kept(v)' => \A u \in followers' \ work'[w].must :
                                       Owed(u, v)' \/ Reached(u, v)'
  BY DEF ScanInv
<1>1. CASE /\ work[w].pc \in {"scan", "push"} /\ work'[w].v = work[w].v
           /\ work'[w].must = work[w].must \/ (work'[w].must \in SUBSET work[w].must
                  /\ work[w].must \ work'[w].must \subseteq User \ followers')
           /\ \/ work'[w].done = work[w].done
              \/ /\ work'[w].done = work[w].done \union work[w].batch
                 /\ Push(work[w].batch, {work[w].v})
  <2>1. /\ work[w].done \in SUBSET User /\ work[w].batch \in SUBSET User
        /\ work[w].must \in SUBSET User
    BY <1>1, ScanRecord
  <2>2. ASSUME NEW u \in work'[w].done
        PROVE  v \in inbox'[u]
    <3>1. CASE u \in work[w].done
      <4>1. v \in inbox[u]
        BY <1>1, <3>1 DEF ScanInv
      <4>2. inbox[u] \subseteq inbox'[u]
        BY <2>1, <3>1, InboxGrows
      <4> QED
        BY <4>1, <4>2
    <3>2. CASE u \in work[w].batch /\ Push(work[w].batch, {work[w].v})
      <4>1. {work[w].v} \subseteq inbox'[u]
        BY <2>1, <3>2, PushAdds
      <4> QED
        BY <1>1, <4>1
    <3> QED
      BY <1>1, <2>2, <3>1, <3>2
  <2>3. ASSUME Kept(v)', NEW u \in followers' \ work'[w].must
        PROVE  Owed(u, v)' \/ Reached(u, v)'
    <3>1. status[v] # "created"
      BY <1>1 DEF MarkedInv
    <3>2. Kept(v)
      BY <2>3, <3>1, KeptBefore
    <3>3. u \in User
      BY TypeNext DEF TypeOK
    <3>4. CASE u \in followers
      <4>1. u \notin work[w].must
        BY <1>1, <2>3
      <4>2. Owed(u, v) \/ Reached(u, v)
        BY <1>1, <3>2, <3>4, <4>1 DEF ScanInv
      <4> QED
        BY <2>3, <3>2, <3>3, <4>2, OwedStays, ReachedStays
    <3>5. CASE u \notin followers
      BY <2>3, <3>2, <3>5, JoinedIsOwed
    <3> QED
      BY <3>4, <3>5
  <2> QED
    BY <2>2, <2>3
<1>2. CASE /\ work'[w].must = followers /\ work'[w].done = {} /\ followers' = followers
  BY <1>2
<1> QED
  BY <1>1, <1>2, ScanGoesOn

\* The message of a video is settled when nobody lacks the video any more.
LEMMA PublishingStays ==
    ASSUME TypeOK, NumbersInv, MarkedInv, ScanInv, [Next]_vars,
           NEW v \in Video, Kept(v), Publishing(v), NEW u \in followers, u \in followers', u \in User
    PROVE  Publishing(v)' \/ Owed(u, v)' \/ Reached(u, v)'
<1> USE DEF videos, index, queues
<1>1. CASE sending \subseteq sending' /\ created \subseteq created'
  BY <1>1 DEF Publishing
<1>2. ASSUME NEW x \in Video, SendCreated(x)
      PROVE  Publishing(v)' \/ Reached(u, v)'
  <2>1. CASE created' = created \union {x}
    BY <1>2, <2>1 DEF SendCreated, Publishing
  <2>2. CASE excused' = excused \union (User \X {x})
    BY <1>2, <2>2 DEF SendCreated, Publishing, Reached
  <2> QED
    BY <1>2, <2>1, <2>2 DEF SendCreated, Excuse
<1>3. ASSUME NEW x \in Video, DropCreated(x)
      PROVE  Publishing(v)' \/ Reached(u, v)'
  BY <1>3 DEF DropCreated, Publishing, Reached, Excuse
<1>4. CASE Restart
  BY <1>4 DEF Restart, Publishing, Reached
<1>5. ASSUME NEW w \in Worker, PushOutboxItem(w)
      PROVE  Publishing(v)' \/ Reached(u, v)'
  BY <1>5 DEF PushOutboxItem, Acknowledge, Publishing, Reached
<1>6. ASSUME NEW w \in Worker, ScanEnds(w)
      PROVE  Publishing(v)' \/ Owed(u, v)' \/ Reached(u, v)'
  <2>1. CASE v # work[w].v
    BY <1>6, <2>1 DEF ScanEnds, Acknowledge, Publishing
  <2>2. CASE v = work[w].v
    <3>1. work[w].pc = "scan" /\ work[w].must \subseteq work[w].done
      BY <1>6 DEF ScanEnds
    <3>2. Owed(u, v) \/ Reached(u, v)
      BY <2>2, <3>1 DEF ScanInv, Reached
    <3> QED
      BY <3>2, OwedStays, ReachedStays
  <2> QED
    BY <2>1, <2>2
<1> QED
  BY <1>1, <1>2, <1>3, <1>4, <1>5, <1>6
     DEF Next, Publish, SwitchPrivate, DeleteVideo, SetChanged, PublishOk, PublishFails, Rollback,
         CountFollowers, FollowerIDsPage, PushInboxItems, ReadBackfill, PushBackfill, HandlerFails,
         DropFollowed, vars

LEMMA IndexNext == IInv /\ [Next]_vars => IndexInv'
<1> SUFFICES ASSUME IInv, [Next]_vars, NEW u \in followers', NEW v \in Video, Kept(v)'
             PROVE  Publishing(v)' \/ Owed(u, v)' \/ Reached(u, v)'
  BY DEF IndexInv
<1>1. TypeOK /\ NumbersInv /\ MarkedInv /\ ScanInv /\ IndexInv
  BY DEF IInv
<1>2. u \in User
  BY <1>1, TypeNext DEF TypeOK
<1>3. CASE v \in sending'
  BY <1>3 DEF Publishing
<1>4. CASE Kept(v) /\ u \in followers
  <2>1. Publishing(v) \/ Owed(u, v) \/ Reached(u, v)
    BY <1>1, <1>4 DEF IndexInv
  <2> QED
    BY <1>1, <1>2, <1>4, <2>1, PublishingStays, OwedStays, ReachedStays
<1>5. CASE Kept(v) /\ u \notin followers
  BY <1>1, <1>5, JoinedIsOwed
<1> QED
  BY <1>1, <1>3, <1>4, <1>5, KeptBefore

LEMMA Invariance == Spec => []IInv
<1>1. IInv /\ [Next]_vars => IInv'
  BY TypeNext, NumbersNext, MarkedNext, ScanNext, IndexNext DEF IInv
<1> QED
  BY <1>1, InitInv, PTL DEF Spec

\* A published video is in the index of every follower, once its events and
\* the follower's are handled, however many of each there are and in whatever
\* order the fan-out, the follows and the backfills run.
THEOREM EveryFollowerReached == Spec => []IndexComplete
<1>1. IInv => IndexComplete
  <2> SUFFICES ASSUME IInv, NEW u \in followers, NEW v \in Published
               PROVE  \/ Publishing(v) \/ Following(u)
                      \/ <<u, v>> \in excused \/ v \in inbox[u] \union outbox
    BY DEF IndexComplete
  <2>1. v \in Video /\ Kept(v)
    BY DEF Published, Kept
  <2>2. Publishing(v) \/ Owed(u, v) \/ Reached(u, v)
    BY <2>1 DEF IInv, IndexInv
  <2>3. Owed(u, v) => Following(u)
    BY DEF Owed, Following
  <2> QED
    BY <2>2, <2>3 DEF Reached
<1> QED
  BY <1>1, Invariance, PTL
=============================================================================
