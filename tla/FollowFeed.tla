----------------------------- MODULE FollowFeed -----------------------------
(***************************************************************************)
(* The index of the follow feed for one author (modules/feed), with the    *)
(* follow switch (modules/follow) and the publications (modules/video) it  *)
(* is built from.  A published video goes to the author's outbox, which    *)
(* every follower reads, or to the inbox of each follower, found by SSCAN  *)
(* over the set of followers while users keep following and unfollowing;   *)
(* a new follower is backfilled from the video table.                      *)
(*                                                                         *)
(* A page shows the published videos of followed authors among the index,  *)
(* and reads the table only when that leaves nothing: a published video    *)
(* that is not in the index of a follower is not seen.  The caps of the    *)
(* index (followBackfillLimit, followInboxMaxLen, followOutboxMaxLen) and  *)
(* its expiry after followIndexTTL are beyond the author's videos here.    *)
(***************************************************************************)
EXTENDS Naturals, FiniteSets

CONSTANTS
    User,       \* who may follow the author
    Video,      \* the author's videos
    Req,        \* the follow requests that may be in flight together
    Worker,     \* listener threads of the group "feed"
    Big,        \* bigAuthorFollowers
    MaxSwitch,  \* bound on the switches
    MaxFaults   \* bound on the faults of the network, the broker, the process

ASSUME FollowAssumption == IsFiniteSet(User) /\ Big \in Nat \ {0}
ASSUME BoundAssumption == MaxSwitch \in Nat /\ MaxFaults \in Nat

VARIABLES
    status,     \* video.status
    sending,    \* the videos marked published whose VideoCreated is not sent
    followers,  \* the Redis set  follower:<author>, and its reverse
    req,        \* the requests between the script and the publication
    created,    \* the VideoCreated messages "feed" has not acknowledged
    followed,   \* the same for FollowSwitched, those that say "followed"
    inbox,      \* inbox[u]: the author's videos in the ZSET of u
    outbox,     \* the author's own ZSET
    work,       \* the workers between two steps of a handler
    ver,        \* how often a request changed the set
    faults,     \* how many faults there were
    \* History, read by the properties only:
    excused     \* pairs <<u, v>> of which an event was lost, or never sent

videos == <<status, sending>>
index == <<inbox, outbox>>
queues == <<created, followed>>
vars == <<status, sending, followers, req, created, followed, inbox, outbox, work,
          ver, faults, excused>>

Status == {"created", "published", "private", "gone"}
Follow == [u : User, n : Nat]

Idle == [pc |-> "idle"]
Request == [pc : {"publish", "rollback"}, u : User, on : BOOLEAN, n : Nat]
Work == [pc : {"outbox"}, v : Video]
        \union [pc : {"scan", "push"}, v : Video,
                must : SUBSET User, done : SUBSET User, batch : SUBSET User]
        \union [pc : {"backfill"}, e : Follow, vs : SUBSET Video]

Fault == faults < MaxFaults /\ faults' = faults + 1
NoFault == faults' = faults

\* The videos a lost follow event may have been needed for.
Started == {v \in Video : status[v] # "created"}
Excuse(us, vs) == excused' = excused \union (us \X vs)

Init ==
    /\ status = [v \in Video |-> "created"] /\ sending = {}
    /\ followers = {}
    /\ req = [r \in Req |-> Idle]
    /\ created = {} /\ followed = {}
    /\ inbox = [u \in User |-> {}] /\ outbox = {}
    /\ work = [w \in Worker |-> Idle]
    /\ ver = 0 /\ faults = 0 /\ excused = {}

-----------------------------------------------------------------------------
(* The author: publish, switchPrivate, DeleteVideo *)

\* Mutant: the event is sent first, and the row is marked after it.
Publish_EventFirst(v) ==
    /\ status[v] = "created"
    /\ \/ v \notin sending /\ sending' = sending \union {v} /\ created' = created \union {v}
          /\ UNCHANGED status
       \/ v \in sending /\ sending' = sending \ {v} /\ status' = [status EXCEPT ![v] = "published"]
          /\ UNCHANGED created
    /\ UNCHANGED <<followers, req, followed, index, work, ver, faults, excused>>

Publish(v) ==
    /\ status[v] = "created"
    /\ status' = [status EXCEPT ![v] = "published"]
    /\ sending' = sending \union {v}
    /\ UNCHANGED <<followers, req, queues, index, work, ver, faults, excused>>

\* A publication that fails for the sender may be stored anyway; a retry of
\* publish finds the row published and sends nothing.
SendCreated(v) ==
    /\ v \in sending
    /\ sending' = sending \ {v}
    /\ \/ NoFault /\ created' = created \union {v} /\ UNCHANGED excused
       \/ Fault /\ created' \in {created, created \union {v}} /\ Excuse(User, {v})
    /\ UNCHANGED <<status, followers, req, followed, index, work, ver>>

SwitchPrivate(v) ==
    /\ \/ status[v] = "published" /\ status' = [status EXCEPT ![v] = "private"]
       \/ status[v] = "private" /\ status' = [status EXCEPT ![v] = "published"]
    /\ UNCHANGED <<sending, followers, req, queues, index, work, ver, faults, excused>>

\* The index keeps the video, and a page drops it.
DeleteVideo(v) ==
    /\ status[v] # "gone"
    /\ status' = [status EXCEPT ![v] = "gone"]
    /\ UNCHANGED <<sending, followers, req, queues, index, work, ver, faults, excused>>

-----------------------------------------------------------------------------
(* The follow switch: setFollow *)

\* A scan need not return who was not in the set all the time.
SetScript(u, on) ==
    /\ followers' = IF on THEN followers \union {u} ELSE followers \ {u}
    /\ work' = IF on THEN work
               ELSE [w \in Worker |-> IF work[w].pc \in {"scan", "push"}
                                      THEN [work[w] EXCEPT !.must = @ \ {u}] ELSE work[w]]

\* The script changes the set, or its answer is lost as well.  When it finds
\* the state it was to set, the request ends without an effect.
SetChanged(r, u, on) ==
    /\ req[r].pc = "idle"
    /\ ver < MaxSwitch
    /\ (u \in followers) # on
    /\ SetScript(u, on)
    /\ ver' = ver + 1
    /\ \/ /\ NoFault
          /\ req' = [req EXCEPT ![r] = [pc |-> "publish", u |-> u, on |-> on, n |-> ver + 1]]
          /\ UNCHANGED excused
       \/ /\ Fault
          /\ UNCHANGED req
          /\ IF on THEN Excuse({u}, Started) ELSE UNCHANGED excused
    /\ UNCHANGED <<videos, queues, index>>

\* The handler of this group ignores the switches that say "not followed".
Stored(r) == IF req[r].on THEN followed \union {[u |-> req[r].u, n |-> req[r].n]} ELSE followed

PublishOk(r) ==
    /\ req[r].pc = "publish"
    /\ followed' = Stored(r)
    /\ req' = [req EXCEPT ![r] = Idle]
    /\ UNCHANGED <<videos, followers, created, index, work, ver, faults, excused>>

PublishFails(r) ==
    /\ req[r].pc = "publish"
    /\ Fault
    /\ followed' \in {followed, Stored(r)}
    /\ req' = [req EXCEPT ![r].pc = "rollback"]
    /\ UNCHANGED <<videos, followers, created, index, work, ver, excused>>

\* Who is a follower again by the rollback, or still is for want of one, has
\* no event of it.
Rollback(r) ==
    LET u == req[r].u
    IN  /\ req[r].pc = "rollback"
        /\ SetScript(u, ~req[r].on) \/ UNCHANGED <<followers, work>>
        /\ req' = [req EXCEPT ![r] = Idle]
        /\ IF u \in followers' /\ (req[r].on \/ u \notin followers)
           THEN Excuse({u}, Started) ELSE UNCHANGED excused
        /\ UNCHANGED <<videos, queues, index, ver, faults>>

-----------------------------------------------------------------------------
(* HandleVideoCreated *)

Acknowledge(v) ==
    \/ created' = created \ {v} /\ NoFault
    \/ created' = created /\ Fault

\* The size of the set decides: nobody or too many, and the outbox is written.
CountFollowers(w, v) ==
    /\ work[w].pc = "idle"
    /\ v \in created
    /\ work' = [work EXCEPT ![w] =
          IF followers = {} \/ Cardinality(followers) >= Big
          THEN [pc |-> "outbox", v |-> v]
          ELSE [pc |-> "scan", v |-> v, must |-> followers, done |-> {}, batch |-> {}]]
    /\ UNCHANGED <<videos, followers, req, queues, index, ver, faults, excused>>

PushOutboxItem(w) ==
    /\ work[w].pc = "outbox"
    /\ outbox' = outbox \union {work[w].v}
    /\ Acknowledge(work[w].v)
    /\ work' = [work EXCEPT ![w] = Idle]
    /\ UNCHANGED <<videos, followers, req, followed, inbox, ver, excused>>

\* A page of the scan: any of the followers of this moment.
FollowerIDsPage(w) ==
    /\ work[w].pc = "scan"
    /\ \E batch \in SUBSET (followers \ work[w].done) :
          /\ batch # {}
          /\ work' = [work EXCEPT ![w].pc = "push", ![w].batch = batch]
    /\ UNCHANGED <<videos, followers, req, queues, index, ver, faults, excused>>

\* Mutant: a batch replaces the index instead of adding to it.
Push_Replaces(us, vs) == inbox' = [u \in us |-> inbox[u] \union vs]

Push(us, vs) == inbox' = [u \in User |-> IF u \in us THEN inbox[u] \union vs ELSE inbox[u]]

\* A pipeline is no transaction: when it fails, some of it may be done.
PushInboxItems(w) ==
    /\ work[w].pc = "push"
    /\ \/ /\ NoFault
          /\ Push(work[w].batch, {work[w].v})
          /\ work' = [work EXCEPT ![w].pc = "scan", ![w].done = @ \union work[w].batch,
                                  ![w].batch = {}]
       \/ /\ Fault
          /\ \E us \in SUBSET work[w].batch : Push(us, {work[w].v})
          /\ work' = [work EXCEPT ![w] = Idle]
    /\ UNCHANGED <<videos, followers, req, queues, outbox, ver, excused>>

\* The cursor is back at 0 when who was a follower throughout was returned.
ScanEnds(w) ==
    /\ work[w].pc = "scan"
    /\ work[w].must \subseteq work[w].done
    /\ Acknowledge(work[w].v)
    /\ work' = [work EXCEPT ![w] = Idle]
    /\ UNCHANGED <<videos, followers, req, followed, index, ver, excused>>

-----------------------------------------------------------------------------
(* HandleFollowSwitched *)

AcknowledgeFollow(e) ==
    \/ followed' = followed \ {e} /\ NoFault
    \/ followed' = followed /\ Fault

Published == {v \in Video : status[v] = "published"}

\* The author's published videos are read ...
ReadBackfill(w, e) ==
    /\ work[w].pc = "idle"
    /\ e \in followed
    /\ work' = [work EXCEPT ![w] = [pc |-> "backfill", e |-> e, vs |-> Published]]
    /\ Excuse({e.u}, {v \in Video : status[v] = "private"})
    /\ UNCHANGED <<videos, followers, req, queues, index, ver, faults>>

\* ... and pushed, in a pipeline again.
PushBackfill(w) ==
    LET e == work[w].e
    IN  /\ work[w].pc = "backfill"
        /\ \/ Push({e.u}, work[w].vs) /\ AcknowledgeFollow(e)
           \/ /\ Fault
              /\ \E vs \in SUBSET work[w].vs : Push({e.u}, vs)
              /\ UNCHANGED followed
        /\ work' = [work EXCEPT ![w] = Idle]
        /\ UNCHANGED <<videos, followers, req, created, outbox, ver, excused>>

-----------------------------------------------------------------------------
(* Failures *)

\* A step fails without an effect: the broker delivers again.
HandlerFails(w) ==
    /\ work[w].pc # "idle"
    /\ Fault
    /\ work' = [work EXCEPT ![w] = Idle]
    /\ UNCHANGED <<videos, followers, req, queues, index, ver, excused>>

\* The broker gives up on a message.
DropCreated(v) ==
    /\ v \in created
    /\ Fault
    /\ created' = created \ {v}
    /\ Excuse(User, {v})
    /\ UNCHANGED <<videos, followers, req, followed, index, work, ver>>

DropFollowed(e) ==
    /\ e \in followed
    /\ Fault
    /\ followed' = followed \ {e}
    /\ Excuse({e.u}, Started)
    /\ UNCHANGED <<videos, followers, req, created, index, work, ver>>

\* The process stops and starts again.
Restart ==
    /\ Fault
    /\ excused' = excused \union (User \X sending)
          \union ({req[r].u : r \in {s \in Req : req[s].pc # "idle" /\ req[s].on}} \X Started)
    /\ sending' = {}
    /\ req' = [r \in Req |-> Idle]
    /\ work' = [w \in Worker |-> Idle]
    /\ UNCHANGED <<status, followers, queues, index, ver>>

-----------------------------------------------------------------------------
Next ==
    \/ \E v \in Video :
          \/ Publish(v)
          \/ SendCreated(v)
          \/ SwitchPrivate(v)
          \/ DeleteVideo(v)
          \/ DropCreated(v)
    \/ \E r \in Req :
          \/ \E u \in User, on \in BOOLEAN : SetChanged(r, u, on)
          \/ PublishOk(r)
          \/ PublishFails(r)
          \/ Rollback(r)
    \/ \E w \in Worker :
          \/ \E v \in created : CountFollowers(w, v)
          \/ PushOutboxItem(w)
          \/ FollowerIDsPage(w)
          \/ PushInboxItems(w)
          \/ ScanEnds(w)
          \/ \E e \in followed : ReadBackfill(w, e)
          \/ PushBackfill(w)
          \/ HandlerFails(w)
    \/ \E e \in followed : DropFollowed(e)
    \/ Restart

Spec == Init /\ [][Next]_vars

-----------------------------------------------------------------------------
(* Properties *)

\* The values every variable takes.
TypeOK ==
    /\ status \in [Video -> Status] /\ sending \subseteq Video
    /\ followers \subseteq User
    /\ req \in [Req -> Request \union {Idle}]
    /\ created \subseteq Video /\ followed \subseteq Follow
    /\ inbox \in [User -> SUBSET Video] /\ outbox \subseteq Video
    /\ work \in [Worker -> Work \union {Idle}]
    /\ ver \in Nat /\ faults \in Nat
    /\ excused \subseteq User \X Video

\* v's VideoCreated is still to be sent or handled.
Publishing(v) == v \in sending \/ v \in created

\* A FollowSwitched of u is still to be sent or handled.
Following(u) ==
    \/ \E r \in Req : req[r].pc # "idle" /\ req[r].u = u /\ req[r].on
    \/ \E e \in followed : e.u = u

\* However the fan-out of a video interleaves with follows, unfollows, their
\* backfills and redeliveries: once the events are handled, a published video
\* is in the index of every follower, unless an event was lost, was never sent,
\* or the video was private when the follower was backfilled.
IndexComplete ==
    \A u \in followers, v \in Published :
        Publishing(v) \/ Following(u) \/ <<u, v>> \in excused \/ v \in inbox[u] \union outbox
=============================================================================
