----------------------------- MODULE FollowSync -----------------------------
(***************************************************************************)
(* Who follows one author: the two directions kept in Redis, the follow    *)
(* table and the counters of the table user that are derived from them     *)
(* (modules/follow, modules/user), and the two commands that repair them   *)
(* while the server runs: cmd/rebuild fills the sets from the table after  *)
(* Redis was lost, cmd/consistency copies the sets to the table, the table *)
(* to the sets and the sizes to the counters.                              *)
(*                                                                         *)
(* A request switches both directions in one Lua script, which looks at    *)
(* the forward direction only, and publishes FollowSwitched.  The groups   *)
(* "follow" (the table) and "user" (the counters) read nothing of each     *)
(* other: a behaviour follows the queue of one.  Other authors matter to   *)
(* nothing here, so that follow_count of a user is 0 or 1.                 *)
(***************************************************************************)
EXTENDS Naturals, FiniteSets

CONSTANTS
    User,       \* those who may follow the author
    Author,     \* the author, as the owner of a counter
    Req,        \* the HTTP requests that may be in flight together
    Worker,     \* the listener threads of the group "user"
    MaxSwitch,  \* bound: no request starts once the sets changed that often
    MaxFaults,  \* bound: the faults of the network, the broker, Redis, the process
    MaxRuns     \* bound: how often one of the commands is started

ASSUME UserAssumption == IsFiniteSet(User) /\ Author \notin User
ASSUME BoundAssumption == MaxSwitch \in Nat /\ MaxFaults \in Nat /\ MaxRuns \in Nat

VARIABLES
    fwd,        \* the users u whose Redis set  follow:<u>  holds the author
    rev,        \* the Redis set  follower:<author>
    rows,       \* the users with a row in the table follow
    count,      \* user.follow_count of the users, user.follower_count of the author
    req,        \* the requests between two of their steps
    group,      \* the consumer group this behaviour follows
    inbox,      \* the FollowSwitched messages that group has not acknowledged
    work,       \* the workers between two steps of HandleFollowSwitched
    tool,       \* the command that runs, between two of its steps
    runs,       \* how often a command was started
    faults,     \* how many faults there were
    \* History, read by the properties only:
    wish,       \* wish[u]: what a request last set, or found set, for u
    ver,        \* how often a set changed
    last,       \* last[c]: the value of ver when the set that c counts was last written
    applied,    \* applied[u]: the number of the last switch of u copied to rows
    countVer,   \* countVer[c]: the value of ver when the stored count[c] was read
    setCause,   \* setCause[u]: what took the sets from wish[u]
    rowCause,   \* rowCause[u]: what may keep u's row from wish[u] until u's next switch
    countCause, \* countCause[c]: what may keep count[c] from the size of its set
    split       \* the users whose two directions a command was between when they changed

sets == <<fwd, rev, wish, ver, last, setCause, split>>
tables == <<rows, applied, count, countVer>>
causes == <<rowCause, countCause>>
vars == <<fwd, rev, rows, count, req, group, inbox, work, tool, runs, faults,
          wish, ver, last, applied, countVer, setCause, rowCause, countCause, split>>

Counter == User \union {Author}
Idle == [pc |-> "idle"]
Publishing(r) == req[r].pc # "idle"

Fault == faults < MaxFaults /\ faults' = faults + 1
NoFault == faults' = faults

\* How many members the set has that c counts.
Size(c) == IF c = Author THEN Cardinality(rev) ELSE IF c \in fwd THEN 1 ELSE 0

\* Some follow already, and all stores agree on who.
Init ==
    /\ fwd \in SUBSET User /\ rev = fwd /\ rows = fwd
    /\ count = [c \in Counter |-> Size(c)]
    /\ req = [r \in Req |-> Idle]
    /\ group \in {"follow", "user"} /\ inbox = {}
    /\ work = [w \in Worker |-> Idle]
    /\ tool = Idle /\ runs = 0 /\ faults = 0
    /\ wish = [u \in User |-> u \in fwd]
    /\ ver = 0 /\ last = [c \in Counter |-> 0]
    /\ applied = [u \in User |-> 0] /\ countVer = [c \in Counter |-> 0]
    /\ setCause = [u \in User |-> {}] /\ rowCause = [u \in User |-> {}]
    /\ countCause = [c \in Counter |-> {}] /\ split = {}

-----------------------------------------------------------------------------
(* The sets *)

\* The counters whose set a step changes.
Changed == {c \in User : (c \in fwd) # (c \in fwd')} \union (IF rev' # rev THEN {Author} ELSE {})

\* The step changes sets: what it is number of, and why counters may not hear.
Numbered == [c \in Counter |-> IF c \in Changed THEN ver + 1 ELSE last[c]]
Unheard(why) == [c \in Counter |-> IF c \in Changed THEN countCause[c] \union why ELSE countCause[c]]
With(f, u, why) == [f EXCEPT ![u] = @ \union why]

\* A command has added u to one direction and not yet to the other.
Between(u) == tool.pc = "reverse" /\ tool.u = u

\* Mutant: the reverse direction is forgotten when a user is taken out.
SetScript_KeepsFollower(u, on) ==
    IF on THEN fwd' = fwd \union {u} /\ rev' = rev \union {u}
    ELSE fwd' = fwd \ {u} /\ rev' = rev

\* What the Lua script leaves when it found that the forward direction differs.
SetScript(u, on) ==
    IF on THEN fwd' = fwd \union {u} /\ rev' = rev \union {u}
    ELSE fwd' = fwd \ {u} /\ rev' = rev \ {u}

\* Both directions of u are written by one script.
Written(u, on) ==
    /\ SetScript(u, on)
    /\ wish' = [wish EXCEPT ![u] = on]
    /\ ver' = ver + 1
    /\ last' = [c \in Counter |-> IF c \in {u, Author} THEN ver + 1 ELSE last[c]]
    /\ setCause' = [setCause EXCEPT ![u] = {}]
    /\ split' = IF Between(u) THEN split \union {u} ELSE split \ {u}

-----------------------------------------------------------------------------
(* The request: SetFollow and setFollow *)

\* SetFollow has found the author; users are never deleted, so nothing can
\* change between that and the script.
Begin(r) == req[r].pc = "idle" /\ ver < MaxSwitch

\* The forward direction is as asked for: nothing is written or published,
\* whatever the other direction and the row are.
SetUnchanged(r, u, on) ==
    /\ Begin(r)
    /\ (u \in fwd) = on
    /\ wish' = [wish EXCEPT ![u] = on]
    /\ setCause' = [setCause EXCEPT ![u] = {}]
    /\ rowCause' = IF wish[u] # on THEN With(rowCause, u, {"unchanged"}) ELSE rowCause
    /\ UNCHANGED <<fwd, rev, ver, last, split, tables, countCause,
                   group, req, inbox, work, tool, runs, faults>>

\* The script changed the sets.  When its answer is lost nothing is published.
SetChanged(r, u, on) ==
    /\ Begin(r)
    /\ (u \in fwd) # on
    /\ Written(u, on)
    /\ \E answered \in BOOLEAN :
          LET lost == IF answered THEN {} ELSE {"unpublished"}
          IN  /\ IF answered THEN NoFault ELSE Fault
              /\ req' = [req EXCEPT ![r] = IF answered
                            THEN [pc |-> "publish", u |-> u, on |-> on, n |-> ver + 1]
                            ELSE Idle]
              /\ rowCause' = [rowCause EXCEPT ![u] = lost]
              /\ countCause' = [c \in Counter |-> IF c \in {u, Author} THEN lost ELSE countCause[c]]
    /\ UNCHANGED <<tables, group, inbox, work, tool, runs>>

\* Mutants: the message says nothing of the direction, or always "followed".
Switched_NoDirection(r) == [u |-> req[r].u, n |-> req[r].n]
Switched_AlwaysFollowed(r) == [u |-> req[r].u, on |-> TRUE, n |-> req[r].n]

\* FollowSwitched as r sends it.
Switched(r) == [u |-> req[r].u, on |-> req[r].on, n |-> req[r].n]
Stored(r) == inbox \union {Switched(r)}

PublishOk(r) ==
    /\ req[r].pc = "publish"
    /\ inbox' = Stored(r)
    /\ req' = [req EXCEPT ![r] = Idle]
    /\ UNCHANGED <<sets, tables, causes, group, work, tool, runs, faults>>

\* Every attempt failed for the sender; the broker may have stored one anyway.
PublishFails(r) ==
    /\ req[r].pc = "publish"
    /\ Fault
    /\ inbox' \in {inbox, Stored(r)}
    /\ req' = [req EXCEPT ![r].pc = "rollback"]
    /\ UNCHANGED <<sets, tables, causes, group, work, tool, runs>>

\* The same script takes the switch back; it may fail, or find it taken back.
Rollback(r) ==
    LET u == req[r].u
        on == req[r].on
    IN  /\ req[r].pc = "rollback"
        /\ req' = [req EXCEPT ![r] = Idle]
        /\ \/ /\ (u \in fwd) = on
              /\ Written(u, ~on)
              /\ countCause' = [c \in Counter |-> IF c \in {u, Author}
                                  THEN countCause[c] \union {"rollback"} ELSE countCause[c]]
           \/ /\ UNCHANGED sets
              /\ countCause' = [c \in Counter |-> IF c \in {u, Author} /\ last[c] = req[r].n
                                  THEN countCause[c] \union {"rollback"} ELSE countCause[c]]
        /\ rowCause' = With(rowCause, u, {"rollback"})
        /\ UNCHANGED <<tables, group, inbox, work, tool, runs, faults>>

-----------------------------------------------------------------------------
(* The consumer groups *)

\* Acknowledged, or delivered again.
Settle(e) ==
    \/ inbox' = inbox \ {e} /\ NoFault
    \/ inbox' = inbox /\ Fault

\* Mutant: the handler inserts whatever the message says.
CopyToRows_Create(e) ==
    /\ group = "follow" /\ e \in inbox
    /\ rows' = rows \union {e.u}
    /\ Settle(e)
    /\ applied' = [applied EXCEPT ![e.u] = e.n]
    /\ UNCHANGED <<sets, causes, count, countVer, group, req, work, tool, runs>>

\* follow.HandleSwitched: Create, which ignores a duplicate, or Delete.
CopyToRows(e) ==
    /\ group = "follow" /\ e \in inbox
    /\ rows' = IF e.on THEN rows \union {e.u} ELSE rows \ {e.u}
    /\ Settle(e)
    /\ applied' = [applied EXCEPT ![e.u] = e.n]
    /\ rowCause' = IF e.n < applied[e.u] THEN With(rowCause, e.u, {"reordered"}) ELSE rowCause
    /\ UNCHANGED <<sets, countCause, count, countVer, group, req, work, tool, runs>>

\* An UPDATE of count[c] to what was read when ver was v.
Write(c, val, v) ==
    /\ count' = [count EXCEPT ![c] = val]
    /\ countVer' = [countVer EXCEPT ![c] = v]
    /\ countCause' = [countCause EXCEPT ![c] = CASE v >= last[c] -> {}
                                                 [] v < countVer[c] -> @ \union {"staleWrite"}
                                                 [] OTHER -> @]

\* user.HandleFollowSwitched: SCARD of the follower's set, ...
CountFollowing(w, e) ==
    /\ group = "user" /\ e \in inbox
    /\ work[w].pc = "idle"
    /\ work' = [work EXCEPT ![w] = [pc |-> "following", e |-> e, val |-> Size(e.u), ver |-> ver]]
    /\ UNCHANGED <<sets, tables, causes, group, req, inbox, tool, runs, faults>>

\* Mutant: the author's counter is counted up and down.
CountFollowers_Increment(w) ==
    /\ work[w].pc = "following"
    /\ Write(work[w].e.u, work[w].val, work[w].ver)
    /\ work' = [work EXCEPT ![w] =
                  [pc |-> "followers", e |-> work[w].e, ver |-> ver,
                   val |-> IF work[w].e.on THEN count[Author] + 1 ELSE count[Author] - 1]]
    /\ UNCHANGED <<sets, rows, applied, rowCause, group, req, inbox, tool, runs, faults>>

\* ... its UPDATE and SCARD of the author's set, ...
CountFollowers(w) ==
    /\ work[w].pc = "following"
    /\ Write(work[w].e.u, work[w].val, work[w].ver)
    /\ work' = [work EXCEPT ![w] = [pc |-> "followers", e |-> work[w].e, val |-> Size(Author), ver |-> ver]]
    /\ UNCHANGED <<sets, rows, applied, rowCause, group, req, inbox, tool, runs, faults>>

\* ... and its UPDATE.
SyncFollowerCount(w) ==
    /\ work[w].pc = "followers"
    /\ Write(Author, work[w].val, work[w].ver)
    /\ Settle(work[w].e)
    /\ work' = [work EXCEPT ![w] = Idle]
    /\ UNCHANGED <<sets, rows, applied, rowCause, group, req, tool, runs>>

\* The handler returns an error, and its message is delivered again.
HandlerFails(w) ==
    /\ work[w].pc # "idle"
    /\ Fault
    /\ work' = [work EXCEPT ![w] = Idle]
    /\ UNCHANGED <<sets, tables, causes, group, req, inbox, tool, runs>>

\* The broker gives up.
DeadLetter(e) ==
    /\ e \in inbox
    /\ Fault
    /\ inbox' = inbox \ {e}
    /\ rowCause' = IF group = "follow" THEN With(rowCause, e.u, {"deadLetter"}) ELSE rowCause
    /\ countCause' = [c \in Counter |-> IF c \in {e.u, Author} /\ e.n = last[c]
                        THEN countCause[c] \union {"deadLetter"} ELSE countCause[c]]
    /\ UNCHANGED <<sets, tables, group, req, work, tool, runs>>

-----------------------------------------------------------------------------
(* The commands *)

Run(next) == tool' = next /\ UNCHANGED <<group, req, inbox, work, faults>>
Start == tool.pc = "idle" /\ runs < MaxRuns /\ runs' = runs + 1

\* syncFollowRows: SCAN of the keys  follow:*, ...
ScanKeys ==
    /\ Start
    /\ Run([pc |-> "keys", todo |-> fwd])
    /\ UNCHANGED <<sets, tables, causes>>

\* ... SMEMBERS of each, ...
Members(u) ==
    /\ tool.pc = "keys" /\ u \in tool.todo
    /\ Run(IF u \in fwd THEN [pc |-> "insert", todo |-> tool.todo \ {u}, u |-> u, ver |-> ver]
           ELSE [tool EXCEPT !.todo = @ \ {u}])
    /\ UNCHANGED <<sets, tables, causes, runs>>

\* ... INSERT of what is not there.  Rows are never deleted.
InsertRow ==
    /\ tool.pc = "insert"
    /\ rows' = rows \union {tool.u}
    /\ rowCause' = IF last[tool.u] > tool.ver \/ setCause[tool.u] # {}
                   THEN With(rowCause, tool.u, {"copied"}) ELSE rowCause
    /\ Run([pc |-> "keys", todo |-> tool.todo])
    /\ UNCHANGED <<sets, applied, count, countVer, countCause, runs>>

\* No switch of u is on its way to the table.
RowSettled(u) ==
    /\ \A r \in Req : Publishing(r) => req[r].u # u
    /\ \A e \in inbox : e.u # u

\* Rows that need not be what their user last asked for.
Doubtful == {u \in User : group = "user" \/ ~RowSettled(u) \/ rowCause[u] # {}}

Select(recount) ==
    /\ Run([pc |-> "add", todo |-> rows, doubtful |-> Doubtful, ver |-> ver, recount |-> recount])
    /\ UNCHANGED <<sets, tables, causes>>

\* The second half of syncFollowRows: SELECT of the table.
SelectRows == tool.pc = "keys" /\ tool.todo = {} /\ Select(TRUE) /\ UNCHANGED runs

\* cmd/rebuild, RestoreSets: the table is smaller than its page.
RestoreSets == Start /\ Select(FALSE)

\* A pipeline of SADD and SADD: between any two commands others may run.
AddForward(u) ==
    /\ tool.pc = "add" /\ u \in tool.todo
    /\ fwd' = fwd \union {u} /\ rev' = rev
    /\ ver' = IF u \in fwd THEN ver ELSE ver + 1
    /\ last' = Numbered
    /\ countCause' = Unheard({"restored"})
    /\ setCause' = [setCause EXCEPT ![u] =
                      IF wish[u] THEN {}
                      ELSE IF u \in tool.doubtful \/ last[u] > tool.ver \/ "unchanged" \in rowCause[u]
                      THEN @ \union {"restored"} ELSE @]
    /\ Run([pc |-> "reverse", u |-> u, next |-> [tool EXCEPT !.todo = @ \ {u}]])
    /\ UNCHANGED <<wish, split, tables, rowCause, runs>>

AddReverse ==
    /\ tool.pc = "reverse"
    /\ fwd' = fwd /\ rev' = rev \union {tool.u}
    /\ ver' = IF tool.u \in rev THEN ver ELSE ver + 1
    /\ last' = Numbered
    /\ countCause' = Unheard({"restored"})
    /\ Run(tool.next)
    /\ UNCHANGED <<wish, setCause, split, tables, rowCause, runs>>

Added == tool.pc = "add" /\ tool.todo = {}

EndRestore ==
    /\ Added /\ ~tool.recount
    /\ Run(Idle)
    /\ UNCHANGED <<sets, tables, causes, runs>>

\* recount("follow:*"): the sizes of all sets, ...
ScanFollowing ==
    /\ Added /\ tool.recount
    /\ Run([pc |-> "following", val |-> [u \in User |-> Size(u)], ver |-> ver])
    /\ UNCHANGED <<sets, tables, causes, runs>>

\* ... written to all rows of user, 0 where there is no set; then of follower:*, ...
ScanFollowers ==
    /\ tool.pc = "following"
    /\ count' = [c \in Counter |-> IF c = Author THEN count[c] ELSE tool.val[c]]
    /\ countVer' = [c \in Counter |-> IF c = Author THEN countVer[c] ELSE tool.ver]
    /\ countCause' = [c \in Counter |->
                        CASE c = Author -> countCause[c]
                          [] c # Author /\ tool.ver >= last[c] -> {}
                          [] c # Author /\ tool.ver < last[c] /\ tool.ver < countVer[c] ->
                                countCause[c] \union {"staleWrite"}
                          [] OTHER -> countCause[c]]
    /\ Run([pc |-> "followers", val |-> Size(Author), ver |-> ver])
    /\ UNCHANGED <<sets, rows, applied, rowCause, runs>>

\* ... and written.
EndRecount ==
    /\ tool.pc = "followers"
    /\ Write(Author, tool.val, tool.ver)
    /\ Run(Idle)
    /\ UNCHANGED <<sets, rows, applied, rowCause, runs>>

\* The command is stopped, or a statement of it fails.
Stop ==
    /\ tool.pc # "idle"
    /\ Fault
    /\ split' = IF tool.pc = "reverse" THEN split \union {tool.u} ELSE split
    /\ tool' = Idle
    /\ UNCHANGED <<fwd, rev, wish, ver, last, setCause, tables, causes, group, req, inbox, work, runs>>

-----------------------------------------------------------------------------
(* Faults of the stores and the process *)

\* Redis comes back empty.
LoseRedis ==
    /\ Fault
    /\ fwd' = {} /\ rev' = {}
    /\ ver' = ver + 1 /\ last' = Numbered
    /\ countCause' = Unheard({"redisLost"})
    /\ setCause' = [u \in User |-> IF wish[u] THEN setCause[u] \union {"redisLost"} ELSE {}]
    /\ split' = IF tool.pc = "reverse" THEN {tool.u} ELSE {}
    /\ UNCHANGED <<wish, tables, rowCause, group, req, inbox, work, tool, runs>>

\* The server stops and starts again; a command runs on.
Restart ==
    LET Silent(n) == \E r \in Req : Publishing(r) /\ req[r].n = n
    IN  /\ Fault
        /\ req' = [r \in Req |-> Idle]
        /\ work' = [w \in Worker |-> Idle]
        /\ rowCause' = [u \in User |-> IF \E r \in Req : Publishing(r) /\ req[r].u = u
                          THEN rowCause[u] \union {"unpublished"} ELSE rowCause[u]]
        /\ countCause' = [c \in Counter |-> IF Silent(last[c])
                            THEN countCause[c] \union {"unpublished"} ELSE countCause[c]]
        /\ UNCHANGED <<sets, tables, group, inbox, tool, runs>>

-----------------------------------------------------------------------------
Next ==
    \/ \E r \in Req :
          \/ \E u \in User, on \in BOOLEAN : SetUnchanged(r, u, on)
          \/ \E u \in User, on \in BOOLEAN : SetChanged(r, u, on)
          \/ PublishOk(r)
          \/ PublishFails(r)
          \/ Rollback(r)
    \/ \E e \in inbox : CopyToRows(e)
    \/ \E w \in Worker, e \in inbox : CountFollowing(w, e)
    \/ \E w \in Worker : CountFollowers(w)
    \/ \E w \in Worker : SyncFollowerCount(w)
    \/ \E w \in Worker : HandlerFails(w)
    \/ \E e \in inbox : DeadLetter(e)
    \/ ScanKeys
    \/ \E u \in User : Members(u)
    \/ InsertRow
    \/ SelectRows
    \/ RestoreSets
    \/ \E u \in User : AddForward(u)
    \/ AddReverse
    \/ EndRestore
    \/ ScanFollowing
    \/ ScanFollowers
    \/ EndRecount
    \/ Stop
    \/ LoseRedis
    \/ Restart

Spec == Init /\ [][Next]_vars

-----------------------------------------------------------------------------
(* Properties *)

\* The values the variables take.
TypeOK ==
    /\ fwd \in SUBSET User /\ rev \in SUBSET User /\ rows \in SUBSET User
    /\ \A c \in Counter : count[c] \in 0 .. (IF c = Author THEN Cardinality(User) ELSE 1)
    /\ req \in [Req -> [pc : {"publish", "rollback"}, u : User, on : BOOLEAN, n : Nat] \union {Idle}]
    /\ group \in {"follow", "user"} /\ inbox \in SUBSET [u : User, on : BOOLEAN, n : Nat]
    /\ \A w \in Worker : work[w].pc \in {"idle", "following", "followers"}
    /\ tool.pc \in {"idle", "keys", "insert", "add", "reverse", "following", "followers"}
    /\ wish \in [User -> BOOLEAN] /\ split \in SUBSET User
    /\ \A c \in Counter : last[c] <= ver /\ countVer[c] <= ver

\* follow:<u> and follower:<author> say the same of u: fan-out and the feed read
\* one, counters both.  They part only for a user whose switch, or a loss of
\* Redis, or the end of the command, fell between the two SADD of a command; and
\* then u's next switch repairs it, but no request that asks for what is there.
DirectionsAgree ==
    \A u \in User : ~Between(u) /\ u \notin split => (u \in fwd <=> u \in rev)

\* The sets hold what their user last asked for: a command undoes nobody's
\* unfollow unless the row it read was not settled, or was switched after it
\* was read; and after a loss of Redis nobody follows who did not.
WishKept ==
    \A u \in User : setCause[u] = {} => (u \in fwd <=> wish[u])

\* The table ends up with what a user last asked for, apart from the recorded
\* causes, whether Redis is lost and restored or the set is copied by a command.
RowsFollowWish ==
    group = "follow" =>
        \A u \in User : RowSettled(u) /\ rowCause[u] = {} => (u \in rows <=> wish[u])

\* No announced change of a set is on its way to a counter.
CountSettled ==
    /\ \A r \in Req : ~Publishing(r)
    /\ inbox = {}

\* Both counters end up with the sizes of their sets, though the handlers and a
\* recount read a size and write it later, unless a change was not announced or
\* an older size was written over a newer one.
CountsFollowSets ==
    group = "user" /\ CountSettled =>
        \A c \in Counter : countCause[c] = {} => count[c] = Size(c)
=============================================================================
