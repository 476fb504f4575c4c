----------------------------- MODULE LikeSwitch -----------------------------
(***************************************************************************)
(* The like switch of one target (a video), from the HTTP request to the   *)
(* tables that follow it (modules/like, modules/video).  Targets share no  *)
(* state: each has its own Redis set, its own rows and its own counter.    *)
(*                                                                         *)
(* A request flips the membership of a user in the Redis set with a Lua    *)
(* script and, only when the script changed it, publishes LikeSwitched.    *)
(* The consumer group "like" copies the switch to the user_like table, the *)
(* group "video" copies the size of the set to video.like_count.  Messages *)
(* carry a key but no message group: the broker delivers them at least     *)
(* once and in any order, and a listener handles several at a time.        *)
(* Neither group reads what the other writes, so a behaviour follows the   *)
(* queue of one of them, chosen at the start.                              *)
(***************************************************************************)
EXTENDS Naturals, FiniteSets

CONSTANTS
    User,       \* the users who like the target
    Req,        \* the HTTP requests that may be in flight together
    Worker,     \* the listener threads of the group "video"
    MaxSwitch,  \* bound: no request starts once the set changed that often
    MaxFaults   \* bound: the faults of the network, the broker and the process

ASSUME UserAssumption == IsFiniteSet(User)
ASSUME BoundAssumption == MaxSwitch \in Nat /\ MaxFaults \in Nat

VARIABLES
    stage,      \* where the target is between published and cleaned up
    members,    \* the Redis set  like:video:<id>
    rows,       \* the users with a user_like row for the target
    count,      \* video.like_count
    req,        \* the requests between two of their steps
    group,      \* the consumer group this behaviour follows
    inbox,      \* the LikeSwitched messages that group has not acknowledged
    work,       \* the workers between CountLikes and SyncLikeCount
    faults,     \* how many faults there were
    \* History, read by the properties only:
    ver,        \* how often a request changed the set
    last,       \* last[u]: the value of ver at the last change made for u
    applied,    \* applied[u]: the number of the last switch of u copied to rows
    countVer,   \* the value of ver when the stored count was read
    rowCause,   \* rowCause[u]: what may keep u's row wrong until u switches again
    countCause, \* what may keep the count wrong until somebody switches again
    late        \* the users whose like crossed the cleanup of the target

history == <<ver, last, applied, countVer, rowCause, countCause, late>>
vars == <<stage, members, rows, count, req, group, inbox, work, faults,
          ver, last, applied, countVer, rowCause, countCause, late>>

Group == {"like", "video"}
Stage == {"live", "deleted", "queued", "rowsGone", "clean", "lost", "dropped"}
Event == [u : User, on : BOOLEAN, n : Nat]
Cause == {"rollback", "unpublished", "reordered", "staleWrite", "deadLetter"}

Idle == [pc |-> "idle"]
Request == [pc : {"set", "publish", "rollback"}, u : User, on : BOOLEAN, n : Nat]
Work == [pc : {"counted"}, e : Event, val : Nat, ver : Nat]

\* A request that changed the set and has not finished with its message.
Publishing(r) == req[r].pc \in {"publish", "rollback"}

\* After DeleteByTarget has run, what is written for the target stays.
Cleaned == stage \in {"rowsGone", "clean"}

Fault == faults < MaxFaults /\ faults' = faults + 1
NoFault == faults' = faults

Init ==
    /\ stage = "live"
    /\ members = {} /\ rows = {} /\ count = 0
    /\ req = [r \in Req |-> Idle]
    /\ group \in Group /\ inbox = {}
    /\ work = [w \in Worker |-> Idle]
    /\ faults = 0
    /\ ver = 0 /\ last = [u \in User |-> 0] /\ applied = [u \in User |-> 0]
    /\ countVer = 0
    /\ rowCause = [u \in User |-> {}] /\ countCause = {} /\ late = {}

-----------------------------------------------------------------------------
(* The request: SetVideoLike and setLike *)

\* SetVideoLike reads the row; a request for a missing target ends here.
Begin(r, u, on) ==
    /\ req[r].pc = "idle"
    /\ stage = "live"
    /\ ver < MaxSwitch
    /\ req' = [req EXCEPT ![r] = [pc |-> "set", u |-> u, on |-> on, n |-> 0]]
    /\ UNCHANGED <<group, stage, members, rows, count, inbox, work, faults, history>>

\* What the Lua script leaves in the set.
SetScript(u, on) == IF on THEN members \union {u} ELSE members \ {u}

\* The script found the state it was to set: nothing is published.
SetUnchanged(r) ==
    /\ req[r].pc = "set"
    /\ (req[r].u \in members) = req[r].on
    /\ req' = [req EXCEPT ![r] = Idle]
    /\ UNCHANGED <<group, stage, members, rows, count, inbox, work, faults, history>>

\* The script changed the set.  A lost reply (answered = FALSE) is an error to
\* the request, which returns it and publishes nothing.
SetChanged(r) ==
    LET u == req[r].u
        on == req[r].on
    IN  /\ req[r].pc = "set"
        /\ (u \in members) # on
        /\ members' = SetScript(u, on)
        /\ ver' = ver + 1
        /\ last' = [last EXCEPT ![u] = ver + 1]
        /\ late' = IF on /\ Cleaned THEN late \union {u} ELSE late
        /\ \E answered \in BOOLEAN :
              LET lost == IF answered THEN {} ELSE {"unpublished"}
              IN  /\ IF answered THEN NoFault ELSE Fault
                  /\ req' = [req EXCEPT ![r] = IF answered
                                THEN [pc |-> "publish", u |-> u, on |-> on, n |-> ver + 1]
                                ELSE Idle]
                  /\ rowCause' = [rowCause EXCEPT ![u] = lost]
                  /\ countCause' = lost
        /\ UNCHANGED <<group, stage, rows, count, inbox, work, applied, countVer>>

\* Mutants: the message says nothing of the direction, or always "liked".
Switched_NoDirection(r) == [u |-> req[r].u, n |-> req[r].n]
Switched_AlwaysLiked(r) == [u |-> req[r].u, on |-> TRUE, n |-> req[r].n]

\* LikeSwitched as r sends it.
Switched(r) == [u |-> req[r].u, on |-> req[r].on, n |-> req[r].n]
Stored(r) == inbox \union {Switched(r)}

PublishOk(r) ==
    /\ req[r].pc = "publish"
    /\ inbox' = Stored(r)
    /\ req' = [req EXCEPT ![r] = Idle]
    /\ UNCHANGED <<group, stage, members, rows, count, work, faults, history>>

\* Mutant: the request gives up without taking its switch back.
PublishFails_NoRollback(r) ==
    /\ req[r].pc = "publish"
    /\ Fault
    /\ req' = [req EXCEPT ![r] = Idle]
    /\ UNCHANGED <<group, stage, members, rows, count, inbox, work, history>>

\* Every attempt failed for the sender; the broker may have stored one anyway.
PublishFails(r) ==
    /\ req[r].pc = "publish"
    /\ Fault
    /\ inbox' \in {inbox, Stored(r)}
    /\ req' = [req EXCEPT ![r].pc = "rollback"]
    /\ UNCHANGED <<group, stage, members, rows, count, work, history>>

\* The rollback sets the opposite state, whatever the set holds by now.  It
\* may fail too, and publishes nothing in either case.
Rollback(r) ==
    LET u == req[r].u
        on == req[r].on
    IN  /\ req[r].pc = "rollback"
        /\ members' \in {members, SetScript(u, ~on)}
        /\ late' = IF ~on /\ Cleaned THEN late \union {u} ELSE late
        /\ rowCause' = IF members' # members \/ last[u] = req[r].n
                       THEN [rowCause EXCEPT ![u] = @ \union {"rollback"}] ELSE rowCause
        /\ countCause' = IF members' # members \/ ver = req[r].n
                         THEN countCause \union {"rollback"} ELSE countCause
        /\ req' = [req EXCEPT ![r] = Idle]
        /\ UNCHANGED <<group, stage, rows, count, inbox, work, faults, ver, last, applied, countVer>>

-----------------------------------------------------------------------------
(* The consumer groups *)

\* Acknowledged, or kept by the broker for another delivery: the handler
\* failed after its write, or its answer was lost.
Settle(e) ==
    \/ inbox' = inbox \ {e} /\ NoFault
    \/ inbox' = inbox /\ Fault

\* like.HandleSwitched: insert ignoring a duplicate, or delete.
CopyToRows(e) ==
    /\ group = "like"
    /\ e \in inbox
    /\ rows' = IF e.on THEN rows \union {e.u} ELSE rows \ {e.u}
    /\ Settle(e)
    /\ applied' = [applied EXCEPT ![e.u] = e.n]
    /\ rowCause' = IF e.n < applied[e.u]
                   THEN [rowCause EXCEPT ![e.u] = @ \union {"reordered"}] ELSE rowCause
    /\ late' = IF e.on /\ Cleaned THEN late \union {e.u} ELSE late
    /\ UNCHANGED <<group, stage, members, count, req, work, ver, last, countVer, countCause>>

\* Mutant: the handler adds to the count instead of counting the set.
CountLikes_Increment(w, e) ==
    /\ work[w].pc = "idle"
    /\ group = "video"
    /\ e \in inbox
    /\ work' = [work EXCEPT ![w] =
                  [pc |-> "counted", e |-> e, ver |-> ver,
                   val |-> IF e.on THEN count + 1 ELSE count - 1]]
    /\ UNCHANGED <<group, stage, members, rows, count, req, inbox, faults, history>>

\* video.HandleLikeSwitched: the size of the set now ...
CountLikes(w, e) ==
    /\ work[w].pc = "idle"
    /\ group = "video"
    /\ e \in inbox
    /\ work' = [work EXCEPT ![w] =
                  [pc |-> "counted", e |-> e, val |-> Cardinality(members), ver |-> ver]]
    /\ UNCHANGED <<group, stage, members, rows, count, req, inbox, faults, history>>

\* ... is stored later, when the row still exists.
SyncLikeCount(w) ==
    /\ work[w].pc = "counted"
    /\ count' = IF stage = "live" THEN work[w].val ELSE count
    /\ Settle(work[w].e)
    /\ work' = [work EXCEPT ![w] = Idle]
    /\ countVer' = work[w].ver
    /\ countCause' = IF work[w].ver < countVer
                     THEN countCause \union {"staleWrite"} ELSE countCause
    /\ UNCHANGED <<group, stage, members, rows, req, ver, last, applied, rowCause, late>>

\* A handler that keeps failing: the broker gives up on the message.
DeadLetter(e) ==
    /\ e \in inbox
    /\ Fault
    /\ inbox' = inbox \ {e}
    /\ rowCause' = IF group = "like" /\ e.n = last[e.u]
                   THEN [rowCause EXCEPT ![e.u] = @ \union {"deadLetter"}] ELSE rowCause
    /\ countCause' = IF group = "video" /\ e.n = ver
                     THEN countCause \union {"deadLetter"} ELSE countCause
    /\ UNCHANGED <<group, stage, members, rows, count, req, work,
                   ver, last, applied, countVer, late>>

-----------------------------------------------------------------------------
(* Deletion of the target, and its cleanup by the group "like" *)

\* DeleteVideo deletes the row, then publishes VideoDeleted.
DeleteRow ==
    /\ stage = "live"
    /\ stage' = "deleted"
    /\ UNCHANGED <<group, members, rows, count, req, inbox, work, faults, history>>

PublishDeleted ==
    /\ stage = "deleted"
    /\ \/ stage' = "queued" /\ NoFault
       \/ stage' = "lost" /\ Fault
    /\ UNCHANGED <<group, members, rows, count, req, inbox, work, history>>

\* HandleVideoDeleted: the rows first, ...
DeleteByTarget ==
    /\ group = "like"
    /\ stage = "queued"
    /\ stage' = "rowsGone"
    /\ rows' = {}
    /\ UNCHANGED <<group, members, count, req, inbox, work, faults, history>>

\* Mutant: the set is forgotten.
DeleteTargetSet_KeepsSet ==
    /\ stage = "rowsGone"
    /\ stage' = "clean" /\ NoFault
    /\ UNCHANGED <<group, members, rows, count, req, inbox, work, history>>

\* ... the set second; unless this is acknowledged, both again.
DeleteTargetSet ==
    /\ stage = "rowsGone"
    /\ members' = {}
    /\ \/ stage' = "clean" /\ NoFault
       \/ stage' = "queued" /\ Fault
    /\ UNCHANGED <<group, rows, count, req, inbox, work, history>>

DropDeleted ==
    /\ group = "like"
    /\ stage = "queued"
    /\ Fault
    /\ stage' = "dropped"
    /\ UNCHANGED <<group, members, rows, count, req, inbox, work, history>>

\* The server process stops and starts again: requests and handlers are gone,
\* what Redis, MySQL and the broker hold is not.
Restart ==
    LET Silent(n) == \E r \in Req : Publishing(r) /\ req[r].n = n
    IN  /\ Fault
        /\ req' = [r \in Req |-> Idle]
        /\ work' = [w \in Worker |-> Idle]
        /\ stage' = CASE stage = "rowsGone" -> "queued"
                      [] stage = "deleted" -> "lost"
                      [] OTHER -> stage
        /\ rowCause' = [u \in User |-> IF Silent(last[u])
                          THEN rowCause[u] \union {"unpublished"} ELSE rowCause[u]]
        /\ countCause' = IF Silent(ver) THEN countCause \union {"unpublished"} ELSE countCause
        /\ UNCHANGED <<group, members, rows, count, inbox, ver, last, applied, countVer, late>>

-----------------------------------------------------------------------------
Next ==
    \/ \E r \in Req :
          \/ \E u \in User, on \in BOOLEAN : Begin(r, u, on)
          \/ SetUnchanged(r)
          \/ SetChanged(r)
          \/ PublishOk(r)
          \/ PublishFails(r)
          \/ Rollback(r)
    \/ \E e \in inbox : CopyToRows(e)
    \/ \E w \in Worker, e \in inbox : CountLikes(w, e)
    \/ \E w \in Worker : SyncLikeCount(w)
    \/ \E e \in inbox : DeadLetter(e)
    \/ DeleteRow
    \/ PublishDeleted
    \/ DeleteByTarget
    \/ DeleteTargetSet
    \/ DropDeleted
    \/ Restart

Spec == Init /\ [][Next]_vars

\* Requests run to their end, a message that is stored is delivered as long as
\* it is not acknowledged, and a handler runs to its end; faults are bounded, so
\* weak fairness is enough.  Nobody has to like, delete or crash.
Fairness ==
    /\ \A r \in Req :
          WF_vars(SetUnchanged(r) \/ SetChanged(r) \/ PublishOk(r) \/ PublishFails(r) \/ Rollback(r))
    /\ WF_vars(\E e \in inbox : CopyToRows(e))
    /\ WF_vars(\E w \in Worker, e \in inbox : CountLikes(w, e))
    /\ \A w \in Worker : WF_vars(SyncLikeCount(w))

FairSpec == Spec /\ Fairness

-----------------------------------------------------------------------------
(* Properties *)

\* The values every variable of the switch takes.
TypeOK ==
    /\ stage \in Stage
    /\ members \in SUBSET User /\ rows \in SUBSET User /\ late \in SUBSET User
    /\ count \in Nat /\ ver \in Nat /\ countVer \in Nat /\ faults \in Nat
    /\ req \in [Req -> Request \union {Idle}]
    /\ group \in Group /\ inbox \in SUBSET Event
    /\ work \in [Worker -> Work \union {Idle}]
    /\ last \in [User -> Nat] /\ applied \in [User -> Nat]
    /\ rowCause \in [User -> SUBSET Cause] /\ countCause \in SUBSET Cause

\* Nothing has been cleaned up, so rows and set are to agree.
Kept == stage \in {"live", "deleted", "lost"}

\* No switch of u is on its way to the group "like".
RowSettled(u) ==
    /\ \A r \in Req : Publishing(r) => req[r].u # u
    /\ \A e \in inbox : e.u # u

\* No switch at all is on its way to the group "video".
CountSettled ==
    /\ \A r \in Req : ~Publishing(r)
    /\ inbox = {}

\* user_like ends up with the row of a user exactly when the Redis set holds
\* the user: once u's switches are settled, only a rollback, a switch that was
\* never published, an older message handled after a newer one or a message the
\* broker gave up can have left them apart, and u's next switch repairs that.
RowsFollowSet ==
    \A u \in User :
        group = "like" /\ Kept /\ RowSettled(u) /\ rowCause[u] = {} => (u \in rows <=> u \in members)

\* video.like_count ends up with the size of the set, however the switches of
\* several users and the two steps of several handlers interleave: only the
\* causes above, or a handler that stores an older size after a newer one, can
\* leave it wrong, and the next switch of any user repairs that.
CountFollowsSet ==
    group = "video" /\ stage = "live" /\ CountSettled /\ countCause = {} => count = Cardinality(members)

\* HandleVideoDeleted leaves nothing of the target, except for users whose like
\* was let in before the row was deleted and written after the cleanup began.
CleanupIsComplete == stage = "clean" => members \union rows \subseteq late

\* Every row and the count settle on the set for good, or on a recorded cause.
TablesConverge ==
    /\ \A u \in User :
          <>[](group = "like" /\ Kept => rowCause[u] # {} \/ (u \in rows <=> u \in members))
    /\ <>[](group = "video" /\ stage = "live" => countCause # {} \/ count = Cardinality(members))
=============================================================================
