----------------------------- MODULE VideoCache -----------------------------
(***************************************************************************)
(* The detail record of one video: its row in MySQL, its entry in Redis    *)
(* and everybody who writes either (modules/video).  Videos share nothing. *)
(*                                                                         *)
(* A reader is served from the entry while it is fresh; a stale entry is   *)
(* served too and starts a shared reload in the background; without an     *)
(* entry, or with one too old, the reader waits for the shared reload.     *)
(* The owner's requests and the event handlers change the row and then     *)
(* delete the entry; a request that publishes also writes a new one.       *)
(* None of these hold a lock, so an entry may be written from a row that   *)
(* has changed since it was read.                                          *)
(*                                                                         *)
(* Time is kept as ages that stop counting once no comparison can tell     *)
(* them apart.  comment_count is left out: nothing invalidates it.         *)
(***************************************************************************)
EXTENDS Naturals, FiniteSets

CONSTANTS
    Reader,     \* readers of the video
    Op,         \* requests of the owner that may be in flight together
    Worker,     \* event handlers that change a cached column of the row
    TTL,        \* infoLogicalTTL: an entry is fresh while its age is below
    MaxStale,   \* infoMaxStaleSeconds: how much longer it may be served
    MissTTL,    \* infoMissTTL: the life of an entry that says "no such row"
    Delay,      \* the longest from a read of the row to the SET that uses it
    MaxVer,     \* bound on the changes of cached columns
    MaxFaults   \* bound on the failures of Redis and the broker

ASSUME TimeAssumption ==
    TTL \in Nat /\ MaxStale \in Nat /\ MissTTL \in Nat /\ Delay \in Nat
ASSUME BoundAssumption == MaxVer \in Nat /\ MaxFaults \in Nat

VARIABLES
    status,     \* video.status; "absent" before the row exists, "gone" after
    ver,        \* counts the changes of the cached columns of the row
    cache,      \* cache:video:info:<id>
    flight,     \* the call of refreshGroup that is running
    reader,     \* what each reader is about to do
    op,         \* the owner's requests between two steps
    sync,       \* the handlers that changed the row and owe the DEL
    faults,     \* how many faults there were
    \* History, read by the properties only:
    createdAge, \* since the row was inserted
    hiddenAge,  \* since the row was last made private or deleted
    cause       \* why the entry may be older than the row

vars == <<status, ver, cache, flight, reader, op, sync, faults,
          createdAge, hiddenAge, cause>>
row == <<status, ver, createdAge, hiddenAge>>
entry == <<cache, cause>>

Status == {"absent", "created", "failed", "published", "private", "gone"}
Hidden == status \in {"private", "gone"}
Exists == status \notin {"absent", "gone"}

NoEntry == [kind |-> "none", ver |-> 0, age |-> 0]
Miss == [kind |-> "miss", ver |-> 0, age |-> 0]
Hit(v) == [kind |-> "hit", ver |-> v, age |-> 0]
Entry == [kind : {"none", "hit", "miss"}, ver : Nat, age : Nat]

\* Ages count up to a cap.
Older(age, cap) == IF age < cap THEN age + 1 ELSE age
ServedFor == TTL + MaxStale
Served == cache.kind = "hit" /\ cache.age <= ServedFor

Load == [kind : {"load", "trigger"}, pc : {"read", "set", "miss"}, ver : Nat, age : Nat]
NoLoad == [kind |-> "none", pc |-> "idle", ver |-> 0, age |-> 0]

\* Between two calls, a reader is told apart only if its call broke.
Ready == {"idle", "wrongType"}
ReaderState == Ready \union {"load", "trigger", "wait"}

\* The transitions of UpdateStatus.
Transition == { <<"created", "published">>, <<"created", "failed">>, <<"failed", "created">>,
                <<"published", "private">>, <<"private", "published">> }
OpState == [pc : {"mark", "del", "set"}, change : Transition, ver : Nat, age : Nat]
           \union [pc : {"delEntry", "delRow"}]
NoOp == [pc |-> "idle"]

Fault == faults < MaxFaults /\ faults' = faults + 1
NoFault == faults' = faults

Init ==
    /\ status = "absent" /\ ver = 0
    /\ cache = NoEntry
    /\ flight = NoLoad
    /\ reader = [r \in Reader |-> "idle"]
    /\ op = [o \in Op |-> NoOp]
    /\ sync = {}
    /\ faults = 0
    /\ createdAge = 0 /\ hiddenAge = 0 /\ cause = {}

\* An entry written from version v of the row.
Fill(v) ==
    /\ cache' = Hit(v)
    /\ cause' = IF v < ver THEN {"crossed"} ELSE {}

Drop == cache' = NoEntry /\ cause' = {}

-----------------------------------------------------------------------------
(* Readers: getInfoWithCache *)

\* GET: no entry, or one that is too old to be served, asks for a load; a stale
\* one is served and triggers a refresh.
Get(r) ==
    /\ reader[r] \in Ready
    /\ reader' = [reader EXCEPT ![r] =
          CASE cache.kind = "miss" \/ (Served /\ cache.age < TTL) -> "idle"
            [] Served /\ cache.age >= TTL -> "trigger"
            [] OTHER -> "load"]
    /\ UNCHANGED <<row, entry, flight, op, sync, faults>>

\* DoChan: joins the call that is running, or starts one of its own kind.
Join(kind) ==
    flight' = IF flight.pc = "idle"
              THEN [kind |-> kind, pc |-> "read", ver |-> 0, age |-> 0] ELSE flight

\* triggerInfoRefresh does not wait for the result.
Trigger(r) ==
    /\ reader[r] = "trigger"
    /\ Join("trigger")
    /\ reader' = [reader EXCEPT ![r] = "idle"]
    /\ UNCHANGED <<row, entry, op, sync, faults>>

\* loadInfoShared does.
LoadShared(r) ==
    /\ reader[r] = "load"
    /\ Join("load")
    /\ reader' = [reader EXCEPT ![r] = "wait"]
    /\ UNCHANGED <<row, entry, op, sync, faults>>

\* The client went away.
Leave(r) ==
    /\ reader[r] = "wait"
    /\ reader' = [reader EXCEPT ![r] = "idle"]
    /\ UNCHANGED <<row, entry, flight, op, sync, faults>>

-----------------------------------------------------------------------------
(* The shared reload: loadInfoFromDBAndWriteCache *)

\* Mutant: the call is not forgotten when it ends.
Finish_NotForgotten(ok) ==
    /\ flight' = [flight EXCEPT !.pc = "idle"]
    /\ reader' = [r \in Reader |-> IF reader[r] = "wait" THEN "idle" ELSE reader[r]]

\* The call ends, with its value or an error, for everybody who waits; the
\* value of a refresh is not one a reader can use.
Finish(ok) ==
    /\ flight' = NoLoad
    /\ reader' = [r \in Reader |->
          IF reader[r] # "wait" THEN reader[r]
          ELSE IF ok /\ flight.kind = "trigger" THEN "wrongType" ELSE "idle"]

LoadFails ==
    /\ flight.pc # "idle"
    /\ Fault
    /\ Finish(FALSE)
    /\ UNCHANGED <<row, entry, op, sync>>

\* Mutants: the reload ignores the status, or takes what is not published for
\* missing.
LoadRead_IgnoresStatus ==
    /\ flight.pc = "read"
    /\ flight' = IF Exists THEN [flight EXCEPT !.pc = "set", !.ver = ver]
                 ELSE [flight EXCEPT !.pc = "miss"]
    /\ UNCHANGED <<row, entry, reader, op, sync, faults>>

LoadRead_MissesUnpublished ==
    /\ flight.pc = "read"
    /\ flight' = IF status = "published" THEN [flight EXCEPT !.pc = "set", !.ver = ver]
                 ELSE [flight EXCEPT !.pc = "miss"]
    /\ UNCHANGED <<row, entry, reader, op, sync, faults>>

\* The row is read.  A missing or a published row is written to the cache next;
\* any other row ends the call, and leaves the entry as it is.
LoadRead ==
    /\ flight.pc = "read"
    /\ \/ /\ status \in {"absent", "gone"}
          /\ flight' = [flight EXCEPT !.pc = "miss"]
          /\ UNCHANGED reader
       \/ /\ status = "published"
          /\ flight' = [flight EXCEPT !.pc = "set", !.ver = ver]
          /\ UNCHANGED reader
       \/ status \in {"created", "failed", "private"} /\ Finish(TRUE)
    /\ UNCHANGED <<row, entry, op, sync, faults>>

\* SetInfoCache, which may time out after Redis has done it.
LoadSet ==
    /\ flight.pc = "set"
    /\ Fill(flight.ver)
    /\ \/ Finish(TRUE) /\ NoFault
       \/ Finish(FALSE) /\ Fault
    /\ UNCHANGED <<row, op, sync>>

\* SetInfoMiss
LoadMiss ==
    /\ flight.pc = "miss"
    /\ cache' = Miss /\ cause' = {}
    /\ \/ Finish(TRUE) /\ NoFault
       \/ Finish(FALSE) /\ Fault
    /\ UNCHANGED <<row, op, sync>>

-----------------------------------------------------------------------------
(* The owner: CreateVideo, UpdateStatus, DeleteVideo *)

Create ==
    /\ status = "absent"
    /\ status' = "created"
    /\ createdAge' = 0
    /\ UNCHANGED <<ver, hiddenAge, entry, flight, reader, op, sync, faults>>

\* transitionStatus reads the row, of which a prewarm will be made.
ReadOwn(o, change) ==
    /\ op[o].pc = "idle"
    /\ Exists
    /\ op' = [op EXCEPT ![o] = [pc |-> "mark", change |-> change, age |-> 0,
                               ver |-> IF change[2] = "published" THEN ver ELSE 0]]
    /\ UNCHANGED <<row, entry, flight, reader, sync, faults>>

\* MarkStatus changes the row only from the status it expects.
MarkStatus(o) ==
    LET from == op[o].change[1]
        to == op[o].change[2]
    IN  /\ op[o].pc = "mark"
        /\ \/ /\ status = from
              /\ status' = to
              /\ hiddenAge' = IF to = "private" THEN 0 ELSE hiddenAge
              /\ op' = [op EXCEPT ![o].pc = "del", ![o].age = 0]
           \/ /\ status # from
              /\ op' = [op EXCEPT ![o] = NoOp]
              /\ UNCHANGED <<status, hiddenAge>>
        /\ UNCHANGED <<ver, createdAge, entry, flight, reader, sync, faults>>

\* refreshInfoCache deletes the entry; a failure ends it here, and is logged.
DeleteEntry(o) ==
    /\ op[o].pc = "del"
    /\ \/ /\ Drop /\ NoFault
          /\ op' = [op EXCEPT ![o] = IF op[o].change[2] = "published"
                       THEN [op[o] EXCEPT !.pc = "set"] ELSE NoOp]
       \/ /\ Fault
          /\ UNCHANGED entry
          /\ op' = [op EXCEPT ![o] = NoOp]
    /\ UNCHANGED <<row, flight, reader, sync>>

\* ... and writes the row as it was before the mark, now published.
Prewarm(o) ==
    /\ op[o].pc = "set"
    /\ Fill(op[o].ver)
    /\ op' = [op EXCEPT ![o] = NoOp]
    /\ UNCHANGED <<row, flight, reader, sync, faults>>

ReadToDelete(o) ==
    /\ op[o].pc = "idle"
    /\ Exists
    /\ op' = [op EXCEPT ![o] = [pc |-> "delEntry"]]
    /\ UNCHANGED <<row, entry, flight, reader, sync, faults>>

\* DeleteVideo: the entry first, the row second.
DeleteEntryFirst(o) ==
    /\ op[o].pc = "delEntry"
    /\ Drop
    /\ op' = [op EXCEPT ![o] = [pc |-> "delRow"]]
    /\ UNCHANGED <<row, flight, reader, sync, faults>>

DeleteRow(o) ==
    /\ op[o].pc = "delRow"
    /\ status' = "gone"
    /\ hiddenAge' = IF Hidden THEN hiddenAge ELSE 0
    /\ op' = [op EXCEPT ![o] = NoOp]
    /\ UNCHANGED <<ver, createdAge, entry, flight, reader, sync, faults>>

\* MySQL or Redis refuses a step, or the client goes away: the rest is not done.
GiveUp(o) ==
    /\ op[o].pc # "idle"
    /\ Fault
    /\ op' = [op EXCEPT ![o] = NoOp]
    /\ UNCHANGED <<row, entry, flight, reader, sync>>

-----------------------------------------------------------------------------
(* The handlers of LikeSwitched, FavoriteSwitched and UserUpdated *)

\* Mutant: the handler does not invalidate the entry after its update.
UpdateColumn_KeepsEntry(w) ==
    /\ w \notin sync
    /\ Exists
    /\ ver < MaxVer
    /\ ver' = ver + 1
    /\ UNCHANGED <<status, createdAge, hiddenAge, entry, flight, reader, op, sync, faults>>

UpdateColumn(w) ==
    /\ w \notin sync
    /\ Exists
    /\ ver < MaxVer
    /\ ver' = ver + 1
    /\ sync' = sync \union {w}
    /\ UNCHANGED <<status, createdAge, hiddenAge, entry, flight, reader, op, faults>>

\* DeleteInfoCache; when its answer is lost the broker delivers again.
Invalidate(w) ==
    /\ w \in sync
    /\ Drop
    /\ \/ sync' = sync \ {w} /\ NoFault
       \/ sync' = sync /\ Fault
    /\ UNCHANGED <<row, flight, reader, op>>

\* The broker gives up on the event, or the video is not one of the
\* infoInvalidateMaxIDs a change of profile invalidates.
NotInvalidated(w) ==
    /\ w \in sync
    /\ Fault
    /\ sync' = sync \ {w}
    /\ cause' = IF cache.kind = "hit" /\ cache.ver < ver
                THEN cause \union {"notInvalidated"} ELSE cause
    /\ UNCHANGED <<row, cache, flight, reader, op>>

-----------------------------------------------------------------------------
(* Redis and the clock *)

\* Memory pressure, the end of the physical life, an entry that does not parse.
Evict ==
    /\ cache.kind # "none"
    /\ Drop
    /\ UNCHANGED <<row, flight, reader, op, sync, faults>>

\* Request o will SET an entry, within Delay of its mark.
Writing(o) == op[o].pc \in {"del", "set"} /\ op[o].change[2] = "published"

\* A reload ends with its context, infoRefreshTimeout after it began; a reader
\* does not wait between its GET and DoChan.
Tick ==
    /\ \A r \in Reader : reader[r] \notin {"load", "trigger"}
    /\ flight.pc # "idle" => flight.age < Delay
    /\ \A o \in Op : Writing(o) => op[o].age < Delay
    /\ flight' = IF flight.pc = "idle" THEN flight ELSE [flight EXCEPT !.age = @ + 1]
    /\ op' = [o \in Op |-> IF Writing(o) THEN [op[o] EXCEPT !.age = @ + 1] ELSE op[o]]
    /\ \/ /\ cache.kind = "miss" /\ cache.age >= MissTTL
          /\ Drop
       \/ /\ cache.kind = "miss" /\ cache.age < MissTTL
          /\ cache' = [cache EXCEPT !.age = @ + 1]
          /\ UNCHANGED cause
       \/ /\ cache.kind = "hit"
          /\ cache' = [cache EXCEPT !.age = Older(@, ServedFor + 1)]
          /\ UNCHANGED cause
       \/ cache.kind = "none" /\ UNCHANGED entry
    /\ createdAge' = IF status = "absent" THEN 0 ELSE Older(createdAge, Delay + MissTTL + 1)
    /\ hiddenAge' = IF Hidden THEN Older(hiddenAge, Delay + ServedFor + 1) ELSE hiddenAge
    /\ UNCHANGED <<status, ver, reader, sync, faults>>

-----------------------------------------------------------------------------
Next ==
    \/ \E r \in Reader : Get(r) \/ Trigger(r) \/ LoadShared(r) \/ Leave(r)
    \/ LoadRead
    \/ LoadSet
    \/ LoadMiss
    \/ LoadFails
    \/ Create
    \/ \E o \in Op :
          \/ \E change \in Transition : ReadOwn(o, change)
          \/ MarkStatus(o)
          \/ DeleteEntry(o)
          \/ Prewarm(o)
          \/ ReadToDelete(o)
          \/ DeleteEntryFirst(o)
          \/ DeleteRow(o)
          \/ GiveUp(o)
    \/ \E w \in Worker : UpdateColumn(w) \/ Invalidate(w) \/ NotInvalidated(w)
    \/ Evict
    \/ Tick

Spec == Init /\ [][Next]_vars

-----------------------------------------------------------------------------
(* Properties *)

\* The values every variable takes.
TypeOK ==
    /\ status \in Status /\ ver \in Nat /\ faults \in Nat
    /\ cache \in Entry
    /\ flight \in Load \union {NoLoad}
    /\ reader \in [Reader -> ReaderState]
    /\ op \in [Op -> OpState \union {NoOp}]
    /\ sync \subseteq Worker
    /\ createdAge \in Nat /\ hiddenAge \in Nat
    /\ cause \subseteq {"crossed", "notInvalidated"}

\* A reload, a prewarm, a failed DEL or a fill between the two deletes of
\* DeleteVideo can leave the record of a private or deleted video in the cache,
\* and a refresh does not remove it; but no reader is served it later than
\* TTL + MaxStale after the write that may last have used the public row.
BoundedExposure == Served /\ Hidden => hiddenAge <= Delay + ServedFor

\* A reload that found no row, finished after the row was inserted, hides the
\* video behind "no such video" no longer than the life of that entry.
BoundedMiss == cache.kind = "miss" /\ Exists => createdAge <= Delay + MissTTL

\* After the handlers have run, an entry shows the columns of the row, unless
\* it was written by somebody who read the row before a handler changed it and
\* wrote after the handler's DEL, or the DEL was never done.
HitIsCurrent == cache.kind = "hit" /\ sync = {} /\ cause = {} => cache.ver = ver

\* The comments on refreshGroup and loadInfoShared: concurrent calls for one
\* video share the result of the one that runs.
JoinersShareTheResult == \A r \in Reader : reader[r] # "wrongType"

\* The comments "a private row does not enter the cache" and, on the order of
\* the two deletes, that no visible record of deleted content remains: once the
\* owner's requests are done, a hidden video has no record.
HiddenNotCached == Hidden /\ (\A o \in Op : op[o].pc = "idle") => ~Served
=============================================================================
