------------------------------- MODULE Notify -------------------------------
(***************************************************************************)
(* The notifications of one receiver about one target (modules/message).   *)
(* An actor has one detail row per target, whose unique key says whether   *)
(* the interaction was notified already; interactions of the same eight    *)
(* hours share a thread, which counts the actors and is read or unread.    *)
(* A handler inserts the detail, adds to the thread and binds the one to   *)
(* the other in three statements; cmd/consistency does the same for old    *)
(* rows, and cmd/msgclean deletes old threads that were read.              *)
(***************************************************************************)
EXTENDS Naturals, FiniteSets

CONSTANTS
    Actor,      \* who interacts with the target
    Bucket,     \* the windows of windowSeconds in which they do
    Worker,     \* listener threads of the group "message", and the backfill
    MaxEvents,  \* bound on the interactions, the backfilled ones included
    MaxFaults   \* bound on failing statements and lost answers

ASSUME BoundAssumption == MaxEvents \in Nat /\ MaxFaults \in Nat

VARIABLES
    events,     \* how many interactions came in, as an event or from the backfill
    inbox,      \* the events the group "message" has not acknowledged
    work,       \* the workers between two statements of Notify
    detail,     \* the actors with a message row
    bound,      \* bound[a]: message.thread_id of a's row
    thread,     \* thread[b]: the message_thread row of window b; id 0: none
    lastId,     \* the last id given to a thread
    old,        \* the windows older than what msgclean keeps
    cleaner,    \* msgclean between two statements
    faults,     \* how many faults there were
    \* History, read by the properties only:
    who,        \* who[b]: the actors counted in the thread of window b
    excused,    \* the actors a failure or the cleanup separated from a thread
    unreadGone  \* the threads msgclean deleted while they were unread

vars == <<events, inbox, work, detail, bound, thread, lastId, old, cleaner, faults,
          who, excused, unreadGone>>
rows == <<detail, bound, thread, lastId>>
history == <<who, excused, unreadGone>>

NoThread == [id |-> 0, count |-> 0, read |-> "no"]
Thread == [id : Nat, count : Nat, read : {"yes", "no"}]
Event == [a : Actor, b : Bucket]
Idle == [pc |-> "idle"]
Work == [pc : {"insert", "upsert", "bind"}, src : {"event", "backfill"}, e : Event]
Cleaner == [pc : {"picked", "deleting"}, ids : SUBSET Nat, locked : SUBSET Actor]

Fault == faults < MaxFaults /\ faults' = faults + 1
NoFault == faults' = faults

Init ==
    /\ events = 0 /\ inbox = {}
    /\ work = [w \in Worker |-> Idle]
    /\ detail = {} /\ bound = [a \in Actor |-> 0]
    /\ thread = [b \in Bucket |-> NoThread] /\ lastId = 0
    /\ old = {}
    /\ cleaner = Idle
    /\ faults = 0
    /\ who = [b \in Bucket |-> {}] /\ excused = {} /\ unreadGone = {}

-----------------------------------------------------------------------------
\* An interaction in the present: its event carries its time.
Interact(a, b) ==
    /\ events < MaxEvents /\ events' = events + 1
    /\ b \notin old
    /\ inbox' = inbox \union {[a |-> a, b |-> b]}
    /\ UNCHANGED <<work, rows, old, cleaner, faults, history>>

\* The handlers resolve the event, and skip it when its target is gone.
Skip(e) ==
    /\ inbox' = inbox \ {e}
    /\ UNCHANGED <<events, work, rows, old, cleaner, faults, history>>

\* Mutant: the time of the event is not passed on.
Resolve_NoTime(w, e) ==
    /\ work[w].pc = "idle"
    /\ work' = [work EXCEPT ![w] =
          [pc |-> "insert", src |-> "event", e |-> [a |-> e.a]]]
    /\ UNCHANGED <<events, inbox, rows, old, cleaner, faults, history>>

Resolve(w, e) ==
    /\ work[w].pc = "idle"
    /\ work' = [work EXCEPT ![w] = [pc |-> "insert", src |-> "event", e |-> e]]
    /\ UNCHANGED <<events, inbox, rows, old, cleaner, faults, history>>

\* Backfill notifies what it finds in the tables, at the time it happened.
Backfill(w, a, b) ==
    /\ work[w].pc = "idle"
    /\ events < MaxEvents /\ events' = events + 1
    /\ work' = [work EXCEPT ![w] =
          [pc |-> "insert", src |-> "backfill", e |-> [a |-> a, b |-> b]]]
    /\ UNCHANGED <<inbox, rows, old, cleaner, faults, history>>

\* Notify is done with its input: an event is acknowledged, or the
\* acknowledgement is lost.
Done(w) ==
    /\ work' = [work EXCEPT ![w] = Idle]
    /\ \/ NoFault /\ inbox' = IF work[w].src = "event" THEN inbox \ {work[w].e} ELSE inbox
       \/ Fault /\ UNCHANGED inbox

\* Notify returns an error: the event is delivered again.
Failed(w) == Fault /\ work' = [work EXCEPT ![w] = Idle] /\ UNCHANGED inbox

\* Mutant: a row that was there counts as inserted.
InsertDetail_IgnoresConflict(w) ==
    /\ work[w].pc = "insert"
    /\ detail' = detail \union {work[w].e.a}
    /\ work' = [work EXCEPT ![w].pc = "upsert"]
    /\ UNCHANGED <<events, inbox, bound, thread, lastId, old, cleaner, faults, history>>

\* The unique key waits for msgclean's transaction if that deletes the row.
InsertDetail(w) ==
    LET a == work[w].e.a
    IN  /\ work[w].pc = "insert"
        /\ cleaner.pc = "deleting" => a \notin cleaner.locked
        /\ \/ /\ a \in detail
              /\ Done(w)
              /\ UNCHANGED <<detail, bound, excused>>
           \/ /\ a \notin detail
              /\ detail' = detail \union {a}
              /\ bound' = [bound EXCEPT ![a] = 0]
              /\ \/ /\ NoFault
                    /\ work' = [work EXCEPT ![w].pc = "upsert"]
                    /\ excused' = excused \ {a}
                    /\ UNCHANGED inbox
                 \/ Failed(w) /\ excused' = excused \union {a}
        /\ UNCHANGED <<events, thread, lastId, old, cleaner, who, unreadGone>>

\* Mutant: a thread that was there is left as it is.
UpsertThread_DoNothing(w) ==
    LET b == work[w].e.b
    IN  /\ work[w].pc = "upsert"
        /\ work' = [work EXCEPT ![w].pc = "bind"]
        /\ \/ thread[b].id # 0 /\ UNCHANGED <<lastId, thread, who>>
           \/ /\ thread[b].id = 0
              /\ lastId' = lastId + 1
              /\ thread' = [thread EXCEPT ![b] = [id |-> lastId + 1, count |-> 1, read |-> "no"]]
              /\ who' = [who EXCEPT ![b] = {work[w].e.a}]
        /\ UNCHANGED <<events, inbox, detail, bound, old, cleaner, faults, excused, unreadGone>>

\* A new thread, or one more actor in an old one, unread again.
UpsertThread(w) ==
    LET a == work[w].e.a
        b == work[w].e.b
    IN  /\ work[w].pc = "upsert"
        /\ lastId' = IF thread[b].id = 0 THEN lastId + 1 ELSE lastId
        /\ thread' = [thread EXCEPT ![b] =
              [id |-> IF @.id = 0 THEN lastId + 1 ELSE @.id, count |-> @.count + 1, read |-> "no"]]
        /\ who' = [who EXCEPT ![b] = @ \union {a}]
        /\ \/ NoFault /\ work' = [work EXCEPT ![w].pc = "bind"] /\ UNCHANGED inbox
           \/ Failed(w)
        /\ UNCHANGED <<events, detail, bound, old, cleaner, excused, unreadGone>>

\* Without the thread there is no id to bind to, and the statement fails. It
\* waits for msgclean's transaction if that deletes the details of the thread:
\* the delete locks the gaps of the index on thread_id too.
BindThread(w) ==
    LET a == work[w].e.a
        b == work[w].e.b
    IN  /\ work[w].pc = "bind"
        /\ cleaner.pc = "deleting" => thread[b].id \notin cleaner.ids
        /\ \/ /\ thread[b].id # 0
              /\ bound' = IF a \in detail THEN [bound EXCEPT ![a] = thread[b].id] ELSE bound
              /\ Done(w)
           \/ /\ thread[b].id = 0
              /\ work' = [work EXCEPT ![w] = Idle]
              /\ NoFault
              /\ UNCHANGED <<inbox, bound>>
        /\ UNCHANGED <<events, detail, thread, lastId, old, cleaner, history>>

\* A statement fails, or the process stops, before it has changed anything.
Stop(w) ==
    /\ work[w].pc # "idle"
    /\ Failed(w)
    /\ excused' = IF work[w].pc = "upsert" THEN excused \union {work[w].e.a} ELSE excused
    /\ UNCHANGED <<events, rows, old, cleaner, who, unreadGone>>

\* The receiver reads; a thread that is read stays as it is.
MarkRead(b) ==
    /\ thread[b].id # 0 /\ thread[b].read = "no"
    /\ thread' = [thread EXCEPT ![b].read = "yes"]
    /\ UNCHANGED <<events, inbox, work, detail, bound, lastId, old, cleaner, faults, history>>

\* Time passes over window b.
Age(b) ==
    /\ b \notin old
    /\ old' = old \union {b}
    /\ UNCHANGED <<events, inbox, work, rows, cleaner, faults, history>>

-----------------------------------------------------------------------------
(* cmd/msgclean: Cleanup *)

\* A batch of the threads that were read and are old enough ...
Pluck ==
    /\ cleaner.pc = "idle"
    /\ \E bs \in SUBSET {b \in old : thread[b].id # 0 /\ thread[b].read = "yes"} :
          /\ bs # {}
          /\ cleaner' = [pc |-> "picked", ids |-> {thread[b].id : b \in bs}, locked |-> {}]
    /\ UNCHANGED <<events, inbox, work, rows, old, faults, history>>

\* ... loses first its details, ...
DeleteDetails ==
    /\ cleaner.pc = "picked"
    /\ cleaner' = [cleaner EXCEPT !.pc = "deleting",
                                  !.locked = {a \in detail : bound[a] \in cleaner.ids}]
    /\ UNCHANGED <<events, inbox, work, rows, old, faults, history>>

\* Mutant: the details stay.
DeleteThreads_KeepsDetails ==
    LET gone == {b \in Bucket : thread[b].id \in cleaner.ids}
    IN  /\ cleaner.pc = "deleting"
        /\ thread' = [b \in Bucket |-> IF b \in gone THEN NoThread ELSE thread[b]]
        /\ who' = [b \in Bucket |-> IF b \in gone THEN {} ELSE who[b]]
        /\ cleaner' = Idle
        /\ UNCHANGED <<events, inbox, work, detail, bound, lastId, old, faults, excused, unreadGone>>

\* ... then the threads themselves; both are seen with the commit.
DeleteThreads ==
    LET gone == {b \in Bucket : thread[b].id \in cleaner.ids}
    IN  /\ cleaner.pc = "deleting"
        /\ detail' = detail \ cleaner.locked
        /\ bound' = [a \in Actor |-> IF a \in cleaner.locked THEN 0 ELSE bound[a]]
        /\ thread' = [b \in Bucket |-> IF b \in gone THEN NoThread ELSE thread[b]]
        /\ who' = [b \in Bucket |-> IF b \in gone THEN {} ELSE who[b]]
        /\ excused' = excused \union UNION {who[b] : b \in gone}
        /\ unreadGone' = unreadGone \union {b \in gone : thread[b].read = "no"}
        /\ cleaner' = Idle
        /\ UNCHANGED <<events, inbox, work, lastId, old, faults>>

CleanupFails ==
    /\ cleaner.pc # "idle"
    /\ Fault
    /\ cleaner' = Idle
    /\ UNCHANGED <<events, inbox, work, rows, old, history>>

-----------------------------------------------------------------------------
Next ==
    \/ \E a \in Actor, b \in Bucket : Interact(a, b)
    \/ \E e \in inbox : Skip(e)
    \/ \E w \in Worker :
          \/ \E e \in inbox : Resolve(w, e)
          \/ \E a \in Actor, b \in Bucket : Backfill(w, a, b)
          \/ InsertDetail(w)
          \/ UpsertThread(w)
          \/ BindThread(w)
          \/ Stop(w)
    \/ \E b \in Bucket : MarkRead(b) \/ Age(b)
    \/ Pluck
    \/ DeleteDetails
    \/ DeleteThreads
    \/ CleanupFails

Spec == Init /\ [][Next]_vars

-----------------------------------------------------------------------------
(* Properties *)

\* The values every variable takes.
TypeOK ==
    /\ events \in Nat /\ lastId \in Nat /\ faults \in Nat
    /\ inbox \subseteq Event
    /\ work \in [Worker -> Work \union {Idle}]
    /\ detail \subseteq Actor /\ bound \in [Actor -> Nat]
    /\ thread \in [Bucket -> Thread] /\ \A b \in Bucket : thread[b].id = 0 => thread[b] = NoThread
    /\ old \subseteq Bucket
    /\ cleaner \in Cleaner \union {Idle}
    /\ who \in [Bucket -> SUBSET Actor] /\ excused \subseteq Actor /\ unreadGone \subseteq Bucket

\* The comment on Notify: however often an interaction is repeated, delivered
\* again or backfilled, a thread counts its actor once.
ActorCountedOnce == \A b \in Bucket : thread[b].count = Cardinality(who[b])

Busy(a) == \E w \in Worker : work[w].pc \in {"upsert", "bind"} /\ work[w].e.a = a

\* A detail row, which keeps its actor from ever being notified again, stands
\* for a notification that is shown, unless a failure after the insert or the
\* cleanup took the thread from it.
DetailIsShown ==
    \A a \in detail : a \notin excused => Busy(a) \/ \E b \in Bucket : a \in who[b]

\* The comment on Cleanup: no detail row that was bound to a thread is left
\* behind by it.
DetailsGoWithThreads ==
    \A a \in detail : bound[a] # 0 => \E b \in Bucket : thread[b].id = bound[a]

\* The comment on cmd/msgclean: unread notifications are not cleaned.
CleanupKeepsUnread == unreadGone = {}
=============================================================================
