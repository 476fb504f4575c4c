---------------------------- MODULE NotifyProofs ----------------------------
(***************************************************************************)
(* What Notify guarantees for every number of actors, windows, workers,    *)
(* events and faults.                                                      *)
(*                                                                         *)
(* The unique key lets one worker at a time carry an actor from the detail *)
(* row to the thread; everything else follows from what that worker may    *)
(* find: the actor is in no thread yet, its row is not bound, and so       *)
(* msgclean, which deletes rows by what they are bound to, leaves it.      *)
(***************************************************************************)
EXTENDS Notify, FiniteSetTheorems, TLAPS

\* w has inserted the detail of its actor and not bound it yet.
Binding(w) == work[w].pc \in {"upsert", "bind"}

\* A thread counts actors that have a detail row, which is bound to it or to
\* nothing; a window without a thread counts nobody.
ThreadInv ==
    \A b \in Bucket :
        /\ IsFiniteSet(who[b]) /\ thread[b].count = Cardinality(who[b])
        /\ who[b] \subseteq detail
        /\ thread[b].id = 0 => who[b] = {}
        /\ \A a \in who[b] : bound[a] # 0 => bound[a] = thread[b].id

\* Who binds an actor is alone in that, and the actor is counted nowhere before
\* the thread is written and at most there after.
BusyInv ==
    \A w \in Worker : Binding(w) =>
        LET a == work[w].e.a
            b == work[w].e.b
        IN  /\ a \in detail /\ bound[a] = 0
            /\ \A x \in Worker : Binding(x) /\ x # w => work[x].e.a # a
            /\ \A c \in Bucket : a \in who[c] => work[w].pc = "bind" /\ c = b
            /\ work[w].pc = "bind" => a \in excused \/ a \in who[b]

\* The rows that msgclean deletes are still all that are bound to its threads.
CleanerInv ==
    cleaner.pc # "idle" =>
        /\ 0 \notin cleaner.ids
        /\ cleaner.pc = "deleting" => cleaner.locked = {a \in detail : bound[a] \in cleaner.ids}

IInv ==
    TypeOK /\ ThreadInv /\ BusyInv /\ CleanerInv /\ DetailIsShown /\ DetailsGoWithThreads

-----------------------------------------------------------------------------
LEMMA InitInv == Init => IInv
<1> SUFFICES ASSUME Init PROVE IInv
  OBVIOUS
<1>1. TypeOK
  BY DEF Init, TypeOK, NoThread, Thread
<1>2. ThreadInv
  BY FS_EmptySet DEF Init, ThreadInv, NoThread
<1>3. BusyInv /\ CleanerInv /\ DetailIsShown /\ DetailsGoWithThreads
  BY DEF Init, BusyInv, Binding, CleanerInv, DetailIsShown, DetailsGoWithThreads, Idle
<1>4. QED
  BY <1>1, <1>2, <1>3 DEF IInv

-----------------------------------------------------------------------------
(* Types *)

\* What a worker at work holds.
LEMMA WorkType ==
    ASSUME TypeOK, NEW w \in Worker, work[w].pc # "idle"
    PROVE  work[w] \in Work /\ work[w].e \in Event /\ work[w].e.a \in Actor /\ work[w].e.b \in Bucket
  BY DEF TypeOK, Work, Event, Idle

LEMMA TypeNext == TypeOK /\ [Next]_vars => TypeOK'
<1> SUFFICES ASSUME TypeOK, [Next]_vars PROVE TypeOK'
  OBVIOUS
<1> USE BoundAssumption DEF TypeOK, Fault, NoFault
<1>1. ASSUME NEW a \in Actor, NEW b \in Bucket, Interact(a, b)  PROVE TypeOK'
  BY <1>1 DEF Interact, rows, history, Event
<1>2. ASSUME NEW e \in inbox, Skip(e)  PROVE TypeOK'
  BY <1>2 DEF Skip, rows, history
<1>3. ASSUME NEW w \in Worker, NEW e \in inbox, Resolve(w, e)  PROVE TypeOK'
  BY <1>3 DEF Resolve, rows, history, Work
<1>4. ASSUME NEW w \in Worker, NEW a \in Actor, NEW b \in Bucket, Backfill(w, a, b)  PROVE TypeOK'
  BY <1>4 DEF Backfill, rows, history, Work, Event
<1>5. ASSUME NEW w \in Worker, InsertDetail(w)  PROVE TypeOK'
  <2>1. work[w] \in Work /\ work[w].e.a \in Actor
    BY <1>5, WorkType DEF InsertDetail
  <2>2. work' \in [Worker -> Work \union {Idle}] /\ inbox' \subseteq Event /\ faults' \in Nat
    BY <1>5, <2>1 DEF InsertDetail, Done, Failed, Work
  <2>3. QED
    BY <1>5, <2>1, <2>2 DEF InsertDetail
<1>6. ASSUME NEW w \in Worker, UpsertThread(w)  PROVE TypeOK'
  <2>1. work[w] \in Work /\ work[w].e.a \in Actor /\ work[w].e.b \in Bucket
    BY <1>6, WorkType DEF UpsertThread
  <2>2. work' \in [Worker -> Work \union {Idle}] /\ inbox' \subseteq Event /\ faults' \in Nat
    BY <1>6, <2>1 DEF UpsertThread, Failed, Work
  <2>3. thread' \in [Bucket -> Thread] /\ \A b \in Bucket : thread'[b].id = 0 => thread'[b] = NoThread
    BY <1>6, <2>1 DEF UpsertThread, Thread
  <2>4. QED
    BY <1>6, <2>1, <2>2, <2>3 DEF UpsertThread
<1>7. ASSUME NEW w \in Worker, BindThread(w)  PROVE TypeOK'
  <2>1. work[w] \in Work /\ work[w].e.a \in Actor /\ work[w].e.b \in Bucket
    BY <1>7, WorkType DEF BindThread
  <2>2. QED
    BY <1>7, <2>1 DEF BindThread, Done, history, Thread
<1>8. ASSUME NEW w \in Worker, Stop(w)  PROVE TypeOK'
  BY <1>8, WorkType DEF Stop, Failed, rows
<1>9. ASSUME NEW b \in Bucket, MarkRead(b)  PROVE TypeOK'
  BY <1>9 DEF MarkRead, history, Thread
<1>10. ASSUME NEW b \in Bucket, Age(b)  PROVE TypeOK'
  BY <1>10 DEF Age, rows, history
<1>11. CASE Pluck
  BY <1>11 DEF Pluck, rows, history, Cleaner, Thread
<1>12. CASE DeleteDetails
  <2>1. cleaner \in Cleaner
    BY <1>12 DEF DeleteDetails, Idle
  <2>2. cleaner' = [pc |-> "deleting", ids |-> cleaner.ids,
                    locked |-> {a \in detail : bound[a] \in cleaner.ids}]
    BY <1>12, <2>1 DEF DeleteDetails, Cleaner
  <2>3. cleaner' \in Cleaner
    BY <2>1, <2>2 DEF Cleaner
  <2>4. QED
    BY <1>12, <2>3 DEF DeleteDetails, rows, history
<1>13. CASE DeleteThreads
  <2>1. thread' \in [Bucket -> Thread] /\ \A b \in Bucket : thread'[b].id = 0 => thread'[b] = NoThread
    BY <1>13 DEF DeleteThreads, NoThread, Thread
  <2>2. QED
    BY <1>13, <2>1 DEF DeleteThreads
<1>14. CASE CleanupFails
  BY <1>14 DEF CleanupFails, rows, history
<1>15. CASE UNCHANGED vars
  BY <1>15 DEF vars
<1>16. QED
  BY <1>1, <1>2, <1>3, <1>4, <1>5, <1>6, <1>7, <1>8, <1>9, <1>10, <1>11, <1>12, <1>13, <1>14, <1>15
     DEF Next

-----------------------------------------------------------------------------
(* Threads *)

LEMMA ThreadNext ==
    TypeOK /\ ThreadInv /\ BusyInv /\ CleanerInv /\ [Next]_vars => ThreadInv'
<1> SUFFICES ASSUME TypeOK, ThreadInv, BusyInv, CleanerInv, [Next]_vars PROVE ThreadInv'
  OBVIOUS
<1>1. ASSUME UNCHANGED <<detail, bound, thread, who>>  PROVE ThreadInv'
  BY <1>1 DEF ThreadInv
<1>2. ASSUME NEW w \in Worker, InsertDetail(w)  PROVE ThreadInv'
  <2>1. work[w].e.a \in Actor
    BY <1>2, WorkType DEF InsertDetail
  <2>2. QED
    BY <1>2, <2>1 DEF InsertDetail, ThreadInv, TypeOK
<1>3. ASSUME NEW w \in Worker, UpsertThread(w)  PROVE ThreadInv'
  <2> DEFINE a == work[w].e.a
             b == work[w].e.b
  <2>1. a \in Actor /\ b \in Bucket /\ Binding(w) /\ work[w].pc = "upsert"
    BY <1>3, WorkType DEF UpsertThread, Binding
  <2>2. a \in detail /\ bound[a] = 0 /\ a \notin who[b]
    BY <2>1 DEF BusyInv
  <2>3. detail' = detail /\ bound' = bound /\ who' = [who EXCEPT ![b] = @ \union {a}]
        /\ thread' = [thread EXCEPT ![b] =
              [id |-> IF @.id = 0 THEN lastId + 1 ELSE @.id, count |-> @.count + 1, read |-> "no"]]
    BY <1>3 DEF UpsertThread
  <2>4. ASSUME NEW c \in Bucket, c # b  PROVE who'[c] = who[c] /\ thread'[c] = thread[c]
    BY <2>1, <2>3, <2>4 DEF TypeOK
  <2>5. /\ who'[b] = who[b] \union {a}
        /\ thread'[b].id = IF thread[b].id = 0 THEN lastId + 1 ELSE thread[b].id
        /\ thread'[b].count = thread[b].count + 1
    BY <2>1, <2>3 DEF TypeOK
  <2>6. IsFiniteSet(who'[b]) /\ thread'[b].count = Cardinality(who'[b])
    <3>1. IsFiniteSet(who[b]) /\ thread[b].count = Cardinality(who[b])
      BY <2>1 DEF ThreadInv
    <3>2. IsFiniteSet(who[b] \union {a}) /\ Cardinality(who[b] \union {a}) = Cardinality(who[b]) + 1
      BY <2>2, <3>1, FS_AddElement
    <3>3. QED
      BY <2>5, <3>1, <3>2
  <2>7. thread'[b].id # 0
    BY <2>1, <2>5 DEF TypeOK
  <2>8. who'[b] \subseteq detail /\ \A x \in who'[b] : bound[x] # 0 => bound[x] = thread'[b].id
    BY <2>1, <2>2, <2>5 DEF ThreadInv
  <2>9. QED
    BY <2>3, <2>4, <2>6, <2>7, <2>8 DEF ThreadInv
<1>4. ASSUME NEW w \in Worker, BindThread(w)  PROVE ThreadInv'
  <2> DEFINE a == work[w].e.a
             b == work[w].e.b
  <2>1. a \in Actor /\ b \in Bucket /\ Binding(w)
    BY <1>4, WorkType DEF BindThread, Binding
  <2>2. \A c \in Bucket : a \in who[c] => c = b
    BY <2>1 DEF BusyInv
  <2>3. bound' \in {bound, [bound EXCEPT ![a] = thread[b].id]}
        /\ UNCHANGED <<detail, thread, who>>
    BY <1>4 DEF BindThread, history
  <2>4. \A c \in Bucket : \A x \in who[c] : bound'[x] # 0 => bound'[x] = thread[c].id
    BY <2>1, <2>2, <2>3 DEF ThreadInv, TypeOK
  <2>5. QED
    BY <2>3, <2>4 DEF ThreadInv
<1>5. ASSUME NEW b \in Bucket, MarkRead(b)  PROVE ThreadInv'
  <2>1. \A c \in Bucket : thread'[c].id = thread[c].id /\ thread'[c].count = thread[c].count
    BY <1>5 DEF MarkRead, TypeOK, Thread
  <2>2. QED
    BY <1>5, <2>1 DEF MarkRead, ThreadInv, history
<1>6. CASE DeleteThreads
  <2> DEFINE gone == {b \in Bucket : thread[b].id \in cleaner.ids}
  <2>1. /\ detail' = detail \ cleaner.locked
        /\ bound' = [a \in Actor |-> IF a \in cleaner.locked THEN 0 ELSE bound[a]]
        /\ thread' = [b \in Bucket |-> IF b \in gone THEN NoThread ELSE thread[b]]
        /\ who' = [b \in Bucket |-> IF b \in gone THEN {} ELSE who[b]]
    BY <1>6 DEF DeleteThreads
  <2>2. 0 \notin cleaner.ids /\ cleaner.locked = {a \in detail : bound[a] \in cleaner.ids}
    BY <1>6 DEF DeleteThreads, CleanerInv
  <2>3. ASSUME NEW b \in Bucket, b \in gone
        PROVE  who'[b] = {} /\ thread'[b] = NoThread
    BY <2>1, <2>3
  <2>4. ASSUME NEW b \in Bucket, b \notin gone
        PROVE  /\ who'[b] = who[b] /\ thread'[b] = thread[b]
               /\ who[b] \subseteq detail' /\ \A a \in who[b] : bound'[a] = bound[a]
    <3>1. who[b] \intersect cleaner.locked = {}
      BY <2>2, <2>4 DEF ThreadInv, TypeOK
    <3>2. QED
      BY <2>1, <2>4, <3>1 DEF ThreadInv, TypeOK
  <2>5. QED
    <3>1. SUFFICES ASSUME NEW b \in Bucket
                   PROVE  /\ IsFiniteSet(who'[b]) /\ thread'[b].count = Cardinality(who'[b])
                          /\ who'[b] \subseteq detail'
                          /\ thread'[b].id = 0 => who'[b] = {}
                          /\ \A a \in who'[b] : bound'[a] # 0 => bound'[a] = thread'[b].id
      BY DEF ThreadInv
    <3>2. CASE b \in gone
      <4>1. who'[b] = {} /\ thread'[b].count = 0
        BY <2>3, <3>2 DEF NoThread
      <4>2. QED
        BY <4>1, FS_EmptySet
    <3>3. CASE b \notin gone
      <4>1. /\ who'[b] = who[b] /\ thread'[b] = thread[b]
            /\ who[b] \subseteq detail' /\ \A a \in who[b] : bound'[a] = bound[a]
        BY <2>4, <3>3
      <4>2. /\ IsFiniteSet(who[b]) /\ thread[b].count = Cardinality(who[b])
            /\ thread[b].id = 0 => who[b] = {}
            /\ \A a \in who[b] : bound[a] # 0 => bound[a] = thread[b].id
        BY DEF ThreadInv
      <4>3. QED
        BY <4>1, <4>2
    <3>4. QED
      BY <3>2, <3>3
<1>7. QED
  BY <1>1, <1>2, <1>3, <1>4, <1>5, <1>6
     DEF Next, vars, rows, history, Interact, Skip, Resolve, Backfill, Stop, Age, Pluck, DeleteDetails,
         CleanupFails

-----------------------------------------------------------------------------
(* Workers *)

\* A worker that becomes idle leaves less to be shown.
LEMMA BusyStops ==
    ASSUME BusyInv, TypeOK, NEW w \in Worker, work' = [work EXCEPT ![w] = Idle],
           UNCHANGED <<detail, who>>, excused \subseteq excused',
           \A x \in Worker : Binding(x) /\ x # w => bound'[work[x].e.a] = bound[work[x].e.a]
    PROVE  BusyInv'
<1>1. \A x \in Worker : Binding(x)' => Binding(x) /\ x # w /\ work'[x] = work[x]
  BY DEF Binding, TypeOK, Idle
<1>2. QED
  BY <1>1 DEF BusyInv

LEMMA BusyNext ==
    TypeOK /\ ThreadInv /\ BusyInv /\ CleanerInv /\ [Next]_vars => BusyInv'
<1> SUFFICES ASSUME TypeOK, ThreadInv, BusyInv, CleanerInv, [Next]_vars PROVE BusyInv'
  OBVIOUS
<1>1. ASSUME UNCHANGED <<work, detail, bound, who, excused>>  PROVE BusyInv'
  BY <1>1 DEF BusyInv, Binding
<1>2. ASSUME NEW w \in Worker, work'[w].pc = "insert", UNCHANGED <<detail, bound, who, excused>>,
             \A x \in Worker \ {w} : work'[x] = work[x]
      PROVE  BusyInv'
  BY <1>2 DEF BusyInv, Binding
<1>3. ASSUME NEW w \in Worker, NEW e \in inbox, Resolve(w, e)  PROVE BusyInv'
  BY <1>2, <1>3 DEF Resolve, rows, history, TypeOK
<1>4. ASSUME NEW w \in Worker, NEW a \in Actor, NEW b \in Bucket, Backfill(w, a, b)  PROVE BusyInv'
  BY <1>2, <1>4 DEF Backfill, rows, history, TypeOK
<1>5. ASSUME NEW w \in Worker, InsertDetail(w)  PROVE BusyInv'
  <2> DEFINE a == work[w].e.a
  <2>1. work[w] \in Work /\ a \in Actor /\ work[w].pc = "insert"
    BY <1>5, WorkType DEF InsertDetail
  <2>2. CASE a \in detail
    BY <1>5, <2>2, BusyStops DEF InsertDetail, Done
  <2>3. CASE a \notin detail
    <3>1. detail' = detail \union {a} /\ bound' = [bound EXCEPT ![a] = 0] /\ who' = who
      BY <1>5, <2>3 DEF InsertDetail
    <3>2. \A x \in Worker : Binding(x) => work[x].e.a \in detail /\ work[x].e.a # a /\ x # w
      BY <2>1, <2>3 DEF BusyInv, Binding
    <3>3. \A c \in Bucket : a \notin who[c]
      BY <2>3 DEF ThreadInv
    <3>4. CASE work' = [work EXCEPT ![w].pc = "upsert"] /\ excused' = excused \ {a}
      <4>1. work'[w].pc = "upsert" /\ work'[w].e = work[w].e
        BY <2>1, <3>4 DEF TypeOK, Work
      <4>2. \A x \in Worker : x # w => work'[x] = work[x]
        BY <3>4 DEF TypeOK
      <4>3. \A x \in Worker : Binding(x)' => x = w \/ Binding(x)
        BY <4>2 DEF Binding
      <4>4. bound'[a] = 0 /\ \A x \in Worker : Binding(x) => bound'[work[x].e.a] = bound[work[x].e.a]
        BY <2>1, <3>1, <3>2 DEF TypeOK
      <4>5. QED
        BY <3>1, <3>2, <3>3, <3>4, <4>1, <4>2, <4>3, <4>4 DEF BusyInv, Binding
    <3>5. CASE work' = [work EXCEPT ![w] = Idle] /\ excused' = excused \union {a}
      <4>1. \A x \in Worker : Binding(x)' => Binding(x) /\ work'[x] = work[x]
        BY <3>5 DEF Binding, TypeOK, Idle
      <4>2. \A x \in Worker : Binding(x) => bound'[work[x].e.a] = bound[work[x].e.a]
        BY <2>1, <3>1, <3>2 DEF TypeOK
      <4>3. QED
        BY <3>1, <3>5, <4>1, <4>2 DEF BusyInv
    <3>6. QED
      BY <1>5, <2>3, <3>4, <3>5 DEF InsertDetail, Failed
  <2>4. QED
    BY <2>2, <2>3
<1>6. ASSUME NEW w \in Worker, UpsertThread(w)  PROVE BusyInv'
  <2> DEFINE a == work[w].e.a
             b == work[w].e.b
  <2>1. work[w] \in Work /\ a \in Actor /\ b \in Bucket /\ work[w].pc = "upsert" /\ Binding(w)
    BY <1>6, WorkType DEF UpsertThread, Binding
  <2>2. who' = [who EXCEPT ![b] = @ \union {a}] /\ UNCHANGED <<detail, bound, excused>>
    BY <1>6 DEF UpsertThread
  <2>3. \A c \in Bucket : who'[c] = IF c = b THEN who[c] \union {a} ELSE who[c]
    BY <2>1, <2>2 DEF TypeOK
  <2>4. \A x \in Worker : x # w => work'[x] = work[x]
    BY <1>6 DEF UpsertThread, Failed, TypeOK
  <2>5. \/ work'[w].pc = "bind" /\ work'[w].e = work[w].e
        \/ work'[w] = Idle
    BY <1>6, <2>1 DEF UpsertThread, Failed, TypeOK, Work
  <2>6. \A x \in Worker : Binding(x)' => Binding(x) /\ work'[x].e = work[x].e
    BY <2>1, <2>4, <2>5 DEF Binding, Idle
  <2>7. ASSUME NEW x \in Worker, Binding(x)'
        PROVE  LET d == work'[x].e.a
                   f == work'[x].e.b
               IN  /\ d \in detail' /\ bound'[d] = 0
                   /\ \A y \in Worker : Binding(y)' /\ y # x => work'[y].e.a # d
                   /\ \A c \in Bucket : d \in who'[c] => work'[x].pc = "bind" /\ c = f
                   /\ work'[x].pc = "bind" => d \in excused' \/ d \in who'[f]
    <3>1. CASE x = w
      <4>1. work'[w].pc = "bind"
        BY <2>5, <2>7, <3>1 DEF Binding, Idle
      <4>2. \A c \in Bucket : a \notin who[c]
        BY <2>1 DEF BusyInv
      <4>3. work'[x].e.a = a /\ work'[x].e.b = b /\ work'[x].pc = "bind"
        BY <2>6, <2>7, <3>1, <4>1
      <4>4. a \in detail' /\ bound'[a] = 0
        BY <2>1, <2>2 DEF BusyInv
      <4>5. \A y \in Worker : Binding(y)' /\ y # x => work'[y].e.a # a
        BY <2>1, <2>6, <3>1 DEF BusyInv
      <4>6. \A c \in Bucket : a \in who'[c] <=> c = b
        BY <2>1, <2>3, <4>2
      <4>7. QED
        BY <2>1, <4>3, <4>4, <4>5, <4>6
    <3>2. CASE x # w
      <4>1. work'[x] = work[x] /\ work[x].e.a # a /\ Binding(x) /\ work[x].e.b \in Bucket
        BY <2>1, <2>4, <2>6, <2>7, <3>2, WorkType DEF BusyInv, Binding
      <4>2. QED
        BY <2>2, <2>3, <2>6, <4>1 DEF BusyInv
    <3>3. QED
      BY <3>1, <3>2
  <2>8. QED
    BY <2>7 DEF BusyInv
<1>7. ASSUME NEW w \in Worker, BindThread(w)  PROVE BusyInv'
  <2>1. Binding(w) /\ work[w].e.a \in Actor
    BY <1>7, WorkType DEF BindThread, Binding
  <2>2. \A x \in Worker : Binding(x) /\ x # w => bound'[work[x].e.a] = bound[work[x].e.a]
    BY <1>7, <2>1 DEF BindThread, BusyInv, TypeOK
  <2>3. QED
    BY <1>7, <2>2, BusyStops DEF BindThread, Done, history
<1>8. ASSUME NEW w \in Worker, Stop(w)  PROVE BusyInv'
  BY <1>8, BusyStops DEF Stop, Failed, rows
<1>9. CASE DeleteThreads
  <2> DEFINE gone == {b \in Bucket : thread[b].id \in cleaner.ids}
  <2>1. /\ detail' = detail \ cleaner.locked
        /\ bound' = [a \in Actor |-> IF a \in cleaner.locked THEN 0 ELSE bound[a]]
        /\ who' = [b \in Bucket |-> IF b \in gone THEN {} ELSE who[b]]
        /\ excused' = excused \union UNION {who[b] : b \in gone}
        /\ work' = work
    BY <1>9 DEF DeleteThreads
  <2>2. 0 \notin cleaner.ids /\ cleaner.locked = {a \in detail : bound[a] \in cleaner.ids}
    BY <1>9 DEF DeleteThreads, CleanerInv
  <2>3. ASSUME NEW w \in Worker, Binding(w)
        PROVE  /\ work[w].e.a \in detail' /\ bound'[work[w].e.a] = 0
               /\ \A c \in Bucket : work[w].e.a \in who'[c] => work[w].e.a \in who[c]
               /\ work[w].pc = "bind" => work[w].e.a \in excused' \/ work[w].e.a \in who'[work[w].e.b]
    <3>1. work[w].e.a \in Actor /\ work[w].e.b \in Bucket
      BY <2>3, WorkType DEF Binding
    <3>2. work[w].e.a \in detail /\ bound[work[w].e.a] = 0
      BY <2>3 DEF BusyInv
    <3>3. QED
      BY <2>1, <2>2, <2>3, <3>1, <3>2 DEF BusyInv
  <2>4. QED
    BY <2>1, <2>3 DEF BusyInv, Binding
<1>10. QED
  BY <1>1, <1>3, <1>4, <1>5, <1>6, <1>7, <1>8, <1>9
     DEF Next, vars, rows, history, Interact, Skip, MarkRead, Age, Pluck, DeleteDetails, CleanupFails

-----------------------------------------------------------------------------
(* msgclean *)

LEMMA CleanerNext ==
    TypeOK /\ BusyInv /\ CleanerInv /\ [Next]_vars => CleanerInv'
<1> SUFFICES ASSUME TypeOK, BusyInv, CleanerInv, [Next]_vars PROVE CleanerInv'
  OBVIOUS
<1>1. ASSUME UNCHANGED <<detail, bound, cleaner>>  PROVE CleanerInv'
  BY <1>1 DEF CleanerInv
<1>2. ASSUME NEW w \in Worker, InsertDetail(w)  PROVE CleanerInv'
  <2>1. work[w].e.a \in Actor
    BY <1>2, WorkType DEF InsertDetail
  <2>2. CASE work[w].e.a \in detail
    BY <1>1, <1>2, <2>2 DEF InsertDetail
  <2>3. CASE work[w].e.a \notin detail
    BY <1>2, <2>1, <2>3 DEF InsertDetail, CleanerInv, TypeOK
  <2>4. QED
    BY <2>2, <2>3
<1>3. ASSUME NEW w \in Worker, BindThread(w)  PROVE CleanerInv'
  <2> DEFINE a == work[w].e.a
             b == work[w].e.b
  <2>1. a \in Actor /\ b \in Bucket /\ bound[a] = 0
    BY <1>3, WorkType DEF BindThread, BusyInv, Binding
  <2>2. bound' \in {bound, [bound EXCEPT ![a] = thread[b].id]} /\ UNCHANGED <<detail, cleaner>>
    BY <1>3 DEF BindThread
  <2>3. cleaner.pc = "deleting" => thread[b].id \notin cleaner.ids
    BY <1>3 DEF BindThread
  <2>4. cleaner.pc = "deleting" =>
           \A x \in Actor : bound'[x] \in cleaner.ids <=> bound[x] \in cleaner.ids
    BY <2>1, <2>2, <2>3 DEF CleanerInv, TypeOK
  <2>5. QED
    BY <2>2, <2>4 DEF CleanerInv, TypeOK
<1>4. CASE Pluck
  BY <1>4 DEF Pluck, CleanerInv
<1>5. CASE DeleteDetails
  <2>1. cleaner \in Cleaner
    BY <1>5 DEF DeleteDetails, TypeOK, Idle
  <2>2. cleaner'.ids = cleaner.ids /\ cleaner'.locked = {a \in detail : bound[a] \in cleaner.ids}
    BY <1>5, <2>1 DEF DeleteDetails, Cleaner
  <2>3. QED
    BY <1>5, <2>2 DEF DeleteDetails, CleanerInv, rows
<1>6. ASSUME cleaner' = Idle  PROVE CleanerInv'
  BY <1>6 DEF CleanerInv, Idle
<1>7. QED
  BY <1>1, <1>2, <1>3, <1>4, <1>5, <1>6
     DEF Next, vars, rows, history, Interact, Skip, Resolve, Backfill, UpsertThread, Stop, MarkRead, Age,
         DeleteThreads, CleanupFails

-----------------------------------------------------------------------------
(* What is shown *)

LEMMA ShownNext ==
    TypeOK /\ BusyInv /\ CleanerInv /\ DetailIsShown /\ [Next]_vars => DetailIsShown'
<1> SUFFICES ASSUME TypeOK, BusyInv, CleanerInv, DetailIsShown, [Next]_vars PROVE DetailIsShown'
  OBVIOUS
<1>1. ASSUME UNCHANGED <<work, detail, who, excused>>  PROVE DetailIsShown'
  BY <1>1 DEF DetailIsShown, Busy
<1>2. ASSUME NEW w \in Worker, work[w].pc = "idle", \A x \in Worker \ {w} : work'[x] = work[x],
             UNCHANGED <<detail, who, excused>>
      PROVE  DetailIsShown'
  BY <1>2 DEF DetailIsShown, Busy
<1>3. ASSUME NEW w \in Worker, NEW e \in inbox, Resolve(w, e)  PROVE DetailIsShown'
  BY <1>2, <1>3 DEF Resolve, rows, history, TypeOK
<1>4. ASSUME NEW w \in Worker, NEW a \in Actor, NEW b \in Bucket, Backfill(w, a, b)  PROVE DetailIsShown'
  BY <1>2, <1>4 DEF Backfill, rows, history, TypeOK
<1>5. ASSUME NEW w \in Worker, InsertDetail(w)  PROVE DetailIsShown'
  <2> DEFINE a == work[w].e.a
  <2>1. work[w] \in Work /\ a \in Actor /\ work[w].pc = "insert"
    BY <1>5, WorkType DEF InsertDetail
  <2>2. \A x \in Worker : x # w => work'[x] = work[x]
    BY <1>5 DEF InsertDetail, Done, Failed, TypeOK
  <2>3. \A x \in Actor : Busy(x) => Busy(x)'
    BY <2>1, <2>2 DEF Busy
  <2>4. CASE a \in detail
    BY <1>5, <2>3, <2>4 DEF InsertDetail, DetailIsShown, TypeOK
  <2>5. CASE a \notin detail
    <3>1. detail' = detail \union {a} /\ who' = who
      BY <1>5, <2>5 DEF InsertDetail
    <3>2. CASE work' = [work EXCEPT ![w].pc = "upsert"] /\ excused' = excused \ {a}
      <4>1. work'[w].pc = "upsert" /\ work'[w].e = work[w].e
        BY <2>1, <3>2 DEF TypeOK, Work
      <4>2. Busy(a)'
        BY <4>1 DEF Busy
      <4>3. QED
        BY <2>3, <3>1, <3>2, <4>2 DEF DetailIsShown, TypeOK
    <3>3. CASE excused' = excused \union {a}
      BY <2>3, <3>1, <3>3 DEF DetailIsShown, TypeOK
    <3>4. QED
      BY <1>5, <2>5, <3>2, <3>3 DEF InsertDetail
  <2>6. QED
    BY <2>4, <2>5
<1>6. ASSUME NEW w \in Worker, UpsertThread(w)  PROVE DetailIsShown'
  <2> DEFINE a == work[w].e.a
             b == work[w].e.b
  <2>1. work[w] \in Work /\ a \in Actor /\ b \in Bucket
    BY <1>6, WorkType DEF UpsertThread
  <2>2. who' = [who EXCEPT ![b] = @ \union {a}] /\ UNCHANGED <<detail, excused>>
    BY <1>6 DEF UpsertThread
  <2>3. a \in who'[b] /\ \A c \in Bucket : who[c] \subseteq who'[c]
    BY <2>1, <2>2 DEF TypeOK
  <2>4. \A x \in Worker : x # w => work'[x] = work[x]
    BY <1>6 DEF UpsertThread, Failed, TypeOK
  <2>5. \A x \in Actor : Busy(x) => x = a \/ Busy(x)'
    BY <2>4 DEF Busy
  <2>6. QED
    BY <2>1, <2>2, <2>3, <2>5 DEF DetailIsShown, TypeOK
<1>7. ASSUME NEW w \in Worker, BindThread(w)  PROVE DetailIsShown'
  <2> DEFINE a == work[w].e.a
             b == work[w].e.b
  <2>1. a \in Actor /\ b \in Bucket /\ (a \in excused \/ a \in who[b])
    BY <1>7, WorkType DEF BindThread, BusyInv, Binding
  <2>2. \A x \in Worker : x # w => work'[x] = work[x]
    BY <1>7 DEF BindThread, Done, TypeOK
  <2>3. \A x \in Actor : Busy(x) => x = a \/ Busy(x)'
    BY <2>2 DEF Busy
  <2>4. UNCHANGED <<detail, who, excused>>
    BY <1>7 DEF BindThread, history
  <2>5. QED
    BY <2>1, <2>3, <2>4 DEF DetailIsShown, TypeOK
<1>8. ASSUME NEW w \in Worker, Stop(w)  PROVE DetailIsShown'
  <2> DEFINE a == work[w].e.a
  <2>1. a \in Actor
    BY <1>8, WorkType DEF Stop
  <2>2. \A x \in Worker : x # w => work'[x] = work[x]
    BY <1>8 DEF Stop, Failed, TypeOK
  <2>3. \A x \in Actor : Busy(x) => x = a \/ Busy(x)'
    BY <2>2 DEF Busy
  <2>4. UNCHANGED <<detail, who>> /\ excused \subseteq excused'
    BY <1>8 DEF Stop, rows
  <2>5. CASE work[w].pc = "upsert"
    BY <1>8, <2>3, <2>4, <2>5 DEF Stop, DetailIsShown, TypeOK
  <2>6. CASE work[w].pc = "bind"
    BY <2>1, <2>3, <2>4, <2>6, WorkType DEF DetailIsShown, BusyInv, Binding, TypeOK
  <2>7. CASE work[w].pc \notin {"upsert", "bind"}
    BY <2>2, <2>4, <2>7 DEF DetailIsShown, Busy, TypeOK
  <2>8. QED
    BY <2>5, <2>6, <2>7
<1>9. CASE DeleteThreads
  BY <1>9 DEF DeleteThreads, DetailIsShown, Busy, TypeOK
<1>10. QED
  BY <1>1, <1>3, <1>4, <1>5, <1>6, <1>7, <1>8, <1>9
     DEF Next, vars, rows, history, Interact, Skip, MarkRead, Age, Pluck, DeleteDetails, CleanupFails

LEMMA BoundNext ==
    TypeOK /\ CleanerInv /\ DetailsGoWithThreads /\ [Next]_vars => DetailsGoWithThreads'
<1> SUFFICES ASSUME TypeOK, CleanerInv, DetailsGoWithThreads, [Next]_vars
             PROVE  DetailsGoWithThreads'
  OBVIOUS
<1>1. ASSUME UNCHANGED <<detail, bound, thread>>  PROVE DetailsGoWithThreads'
  BY <1>1 DEF DetailsGoWithThreads
<1>2. ASSUME NEW w \in Worker, InsertDetail(w)  PROVE DetailsGoWithThreads'
  BY <1>2, WorkType DEF InsertDetail, DetailsGoWithThreads, TypeOK
<1>3. ASSUME UNCHANGED <<detail, bound>>,
             \A b \in Bucket : thread[b].id # 0 => thread'[b].id = thread[b].id
      PROVE  DetailsGoWithThreads'
  BY <1>3 DEF DetailsGoWithThreads, TypeOK
<1>4. ASSUME NEW w \in Worker, UpsertThread(w)  PROVE DetailsGoWithThreads'
  BY <1>3, <1>4, WorkType DEF UpsertThread, TypeOK
<1>5. ASSUME NEW w \in Worker, BindThread(w)  PROVE DetailsGoWithThreads'
  BY <1>5, WorkType DEF BindThread, DetailsGoWithThreads, TypeOK
<1>6. ASSUME NEW b \in Bucket, MarkRead(b)  PROVE DetailsGoWithThreads'
  BY <1>3, <1>6 DEF MarkRead, TypeOK, Thread
<1>7. CASE DeleteThreads
  <2> DEFINE gone == {b \in Bucket : thread[b].id \in cleaner.ids}
  <2>1. /\ detail' = detail \ cleaner.locked
        /\ bound' = [a \in Actor |-> IF a \in cleaner.locked THEN 0 ELSE bound[a]]
        /\ thread' = [b \in Bucket |-> IF b \in gone THEN NoThread ELSE thread[b]]
        /\ cleaner.locked = {a \in detail : bound[a] \in cleaner.ids}
    BY <1>7 DEF DeleteThreads, CleanerInv
  <2>2. \A a \in detail' : bound'[a] = bound[a] /\ bound[a] \notin cleaner.ids
    BY <2>1 DEF TypeOK
  <2>3. \A b \in Bucket : thread[b].id \notin cleaner.ids => thread'[b] = thread[b]
    BY <2>1
  <2>4. QED
    BY <2>1, <2>2, <2>3 DEF DetailsGoWithThreads
<1>8. QED
  BY <1>1, <1>2, <1>4, <1>5, <1>6, <1>7
     DEF Next, vars, rows, history, Interact, Skip, Resolve, Backfill, Stop, Age, Pluck, DeleteDetails,
         CleanupFails

-----------------------------------------------------------------------------
LEMMA Invariance == Spec => []IInv
<1>1. IInv /\ [Next]_vars => IInv'
  BY TypeNext, ThreadNext, BusyNext, CleanerNext, ShownNext, BoundNext DEF IInv
<1>2. QED
  BY InitInv, <1>1, PTL DEF Spec

LEMMA Parts == IInv => TypeOK /\ ActorCountedOnce /\ DetailIsShown /\ DetailsGoWithThreads
  BY DEF IInv, ThreadInv, ActorCountedOnce

\* Every variable of the notifications keeps the values of its type.
THEOREM TypeCorrect == Spec => []TypeOK
  BY Invariance, Parts, PTL

\* A thread counts each of its actors once, whatever is delivered again,
\* backfilled or cleaned up meanwhile.
THEOREM CountedOnce == Spec => []ActorCountedOnce
  BY Invariance, Parts, PTL

\* A detail row whose actor lost nothing to a failure or the cleanup is shown in
\* a thread, or is about to be.
THEOREM DetailShown == Spec => []DetailIsShown
  BY Invariance, Parts, PTL

\* msgclean leaves no detail row bound to a thread that it deleted.
THEOREM DetailsGo == Spec => []DetailsGoWithThreads
  BY Invariance, Parts, PTL
=============================================================================
