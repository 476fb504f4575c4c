-------------------------- MODULE VideoCacheProofs --------------------------
(***************************************************************************)
(* What VideoCache guarantees for every number of readers, requests and    *)
(* handlers, every choice of the times, and any number of faults.          *)
(*                                                                         *)
(* The argument about time: whoever is going to SET an entry carries an age*)
(* that began before it read the row, so the row cannot have been hidden   *)
(* for longer than that; the context ends it at Delay, and from the SET on *)
(* the age of the entry grows with the age of what it shows.               *)
(***************************************************************************)
EXTENDS VideoCache, TLAPS

\* Who will write, and by when.
DelayInv ==
    /\ flight.age <= Delay
    /\ \A o \in Op : Writing(o) => op[o].age <= Delay
    /\ \A o \in Op : op[o].pc = "set" => op[o].change[2] = "published"

\* An entry, and the one that may be written next, of a hidden row.
HideInv ==
    /\ Hidden /\ cache.kind = "hit" => hiddenAge <= Delay + cache.age
    /\ Hidden /\ flight.pc = "set" => hiddenAge <= flight.age
    /\ Hidden => \A o \in Op : Writing(o) => hiddenAge <= op[o].age

\* An entry that says there is no row, and the one that may be written next.
MissInv ==
    /\ Exists /\ cache.kind = "miss" => createdAge <= Delay + cache.age
    /\ Exists /\ flight.pc = "miss" => createdAge <= flight.age
    /\ cache.kind = "miss" => cache.age <= MissTTL

\* No version is ahead of the row, and the entry is behind it for a reason.
VerInv ==
    /\ cache.kind = "hit" => cache.ver <= ver
    /\ flight.ver <= ver
    /\ \A o \in Op : op[o].pc \in {"mark", "del", "set"} => op[o].ver <= ver
    /\ HitIsCurrent

IInv == TypeOK /\ DelayInv /\ HideInv /\ MissInv /\ VerInv

-----------------------------------------------------------------------------
LEMMA InitInv == Init => IInv
  BY TimeAssumption DEF Init, IInv, TypeOK, DelayInv, HideInv, MissInv, VerInv, HitIsCurrent,
     Status, Entry, Load, NoLoad, NoOp, NoEntry, ReaderState, Ready, Hidden, Exists, Writing

\* Types.
LEMMA TypeNext == TypeOK /\ [Next]_vars => TypeOK'
<1> SUFFICES ASSUME TypeOK, [Next]_vars PROVE TypeOK'
  OBVIOUS
<1> USE TimeAssumption DEF TypeOK, Status, Entry, Load, NoLoad, ReaderState, Ready, OpState, NoOp, Transition,
            Fault, NoFault, row, entry
<1>1. ASSUME NEW r \in Reader, Get(r)  PROVE TypeOK'
  BY <1>1 DEF Get, Served, ServedFor
<1>2. ASSUME NEW r \in Reader, Trigger(r)  PROVE TypeOK'
  BY <1>2 DEF Trigger, Join
<1>3. ASSUME NEW r \in Reader, LoadShared(r)  PROVE TypeOK'
  BY <1>3 DEF LoadShared, Join
<1>4. ASSUME NEW r \in Reader, Leave(r)  PROVE TypeOK'
  BY <1>4 DEF Leave
<1>5. CASE LoadRead
  <2> flight \in Load
    BY <1>5 DEF LoadRead
  <2>1. CASE status \in {"absent", "gone"}
    <3>1. flight' = [kind |-> flight.kind, pc |-> "miss", ver |-> flight.ver, age |-> flight.age]
      BY <1>5, <2>1 DEF LoadRead
    <3>2. QED
      BY <1>5, <2>1, <3>1 DEF LoadRead
  <2>2. CASE status = "published"
    <3>1. flight' = [kind |-> flight.kind, pc |-> "set", ver |-> ver, age |-> flight.age]
      BY <1>5, <2>2 DEF LoadRead
    <3>2. QED
      BY <1>5, <2>2, <3>1 DEF LoadRead
  <2>3. CASE status \in {"created", "failed", "private"}
    BY <1>5, <2>3 DEF LoadRead, Finish
  <2>4. QED
    BY <2>1, <2>2, <2>3
<1>6. CASE LoadSet
  BY <1>6 DEF LoadSet, Finish, Fill, Hit
<1>7. CASE LoadMiss
  BY <1>7 DEF LoadMiss, Finish, Miss
<1>8. CASE LoadFails
  BY <1>8 DEF LoadFails, Finish
<1>9. CASE Create
  BY <1>9 DEF Create
<1>10. ASSUME NEW o \in Op, NEW change \in Transition, ReadOwn(o, change)  PROVE TypeOK'
  BY <1>10 DEF ReadOwn, Exists
<1>11. ASSUME NEW o \in Op, MarkStatus(o)  PROVE TypeOK'
  BY <1>11 DEF MarkStatus
<1>12. ASSUME NEW o \in Op, DeleteEntry(o)  PROVE TypeOK'
  BY <1>12 DEF DeleteEntry, Drop, NoEntry
<1>13. ASSUME NEW o \in Op, Prewarm(o)  PROVE TypeOK'
  BY <1>13 DEF Prewarm, Fill, Hit
<1>14. ASSUME NEW o \in Op, ReadToDelete(o)  PROVE TypeOK'
  BY <1>14 DEF ReadToDelete, Exists
<1>15. ASSUME NEW o \in Op, DeleteEntryFirst(o)  PROVE TypeOK'
  BY <1>15 DEF DeleteEntryFirst, Drop, NoEntry
<1>16. ASSUME NEW o \in Op, DeleteRow(o)  PROVE TypeOK'
  BY <1>16 DEF DeleteRow
<1>17. ASSUME NEW o \in Op, GiveUp(o)  PROVE TypeOK'
  BY <1>17 DEF GiveUp
<1>18. ASSUME NEW w \in Worker, UpdateColumn(w)  PROVE TypeOK'
  BY <1>18 DEF UpdateColumn, Exists
<1>19. ASSUME NEW w \in Worker, Invalidate(w)  PROVE TypeOK'
  BY <1>19 DEF Invalidate, Drop, NoEntry
<1>20. ASSUME NEW w \in Worker, NotInvalidated(w)  PROVE TypeOK'
  BY <1>20 DEF NotInvalidated
<1>21. CASE Evict
  BY <1>21 DEF Evict, Drop, NoEntry
<1>22. CASE Tick
  BY <1>22 DEF Tick, Drop, NoEntry, Older, Writing
<1>23. CASE UNCHANGED vars
  BY <1>23 DEF vars
<1>24. QED
  BY <1>1, <1>2, <1>3, <1>4, <1>5, <1>6, <1>7, <1>8, <1>9, <1>10, <1>11,
     <1>12, <1>13, <1>14, <1>15, <1>16, <1>17, <1>18, <1>19, <1>20, <1>21,
     <1>22, <1>23 DEF Next

\* Time does not pass over a write that is due.
LEMMA DelayNext == TypeOK /\ DelayInv /\ [Next]_vars => DelayInv'
<1> SUFFICES ASSUME TypeOK, DelayInv, [Next]_vars PROVE DelayInv'
  OBVIOUS
<1> USE TimeAssumption DEF TypeOK, DelayInv, Status, Entry, Load, NoLoad, OpState, NoOp, Transition,
            Fault, NoFault, row, entry, Writing
<1>1. ASSUME NEW r \in Reader, Get(r)  PROVE DelayInv'
  BY <1>1 DEF Get, Served, ServedFor
<1>2. ASSUME NEW r \in Reader, Trigger(r)  PROVE DelayInv'
  BY <1>2 DEF Trigger, Join
<1>3. ASSUME NEW r \in Reader, LoadShared(r)  PROVE DelayInv'
  BY <1>3 DEF LoadShared, Join
<1>4. ASSUME NEW r \in Reader, Leave(r)  PROVE DelayInv'
  BY <1>4 DEF Leave
<1>5. CASE LoadRead
  <2> flight \in Load
    BY <1>5 DEF LoadRead
  <2>1. CASE status \in {"absent", "gone"}
    <3>1. flight' = [kind |-> flight.kind, pc |-> "miss", ver |-> flight.ver, age |-> flight.age]
      BY <1>5, <2>1 DEF LoadRead
    <3>2. QED
      BY <1>5, <2>1, <3>1 DEF LoadRead
  <2>2. CASE status = "published"
    <3>1. flight' = [kind |-> flight.kind, pc |-> "set", ver |-> ver, age |-> flight.age]
      BY <1>5, <2>2 DEF LoadRead
    <3>2. QED
      BY <1>5, <2>2, <3>1 DEF LoadRead
  <2>3. CASE status \in {"created", "failed", "private"}
    BY <1>5, <2>3 DEF LoadRead, Finish
  <2>4. QED
    BY <2>1, <2>2, <2>3
<1>6. CASE LoadSet
  BY <1>6 DEF LoadSet, Finish, Fill, Hit
<1>7. CASE LoadMiss
  BY <1>7 DEF LoadMiss, Finish, Miss
<1>8. CASE LoadFails
  BY <1>8 DEF LoadFails, Finish
<1>9. CASE Create
  BY <1>9 DEF Create
<1>10. ASSUME NEW o \in Op, NEW change \in Transition, ReadOwn(o, change)  PROVE DelayInv'
  BY <1>10 DEF ReadOwn, Exists
<1>11. ASSUME NEW o \in Op, MarkStatus(o)  PROVE DelayInv'
  BY <1>11 DEF MarkStatus
<1>12. ASSUME NEW o \in Op, DeleteEntry(o)  PROVE DelayInv'
  BY <1>12 DEF DeleteEntry, Drop, NoEntry
<1>13. ASSUME NEW o \in Op, Prewarm(o)  PROVE DelayInv'
  BY <1>13 DEF Prewarm, Fill, Hit
<1>14. ASSUME NEW o \in Op, ReadToDelete(o)  PROVE DelayInv'
  BY <1>14 DEF ReadToDelete, Exists
<1>15. ASSUME NEW o \in Op, DeleteEntryFirst(o)  PROVE DelayInv'
  BY <1>15 DEF DeleteEntryFirst, Drop, NoEntry
<1>16. ASSUME NEW o \in Op, DeleteRow(o)  PROVE DelayInv'
  BY <1>16 DEF DeleteRow
<1>17. ASSUME NEW o \in Op, GiveUp(o)  PROVE DelayInv'
  BY <1>17 DEF GiveUp
<1>18. ASSUME NEW w \in Worker, UpdateColumn(w)  PROVE DelayInv'
  BY <1>18 DEF UpdateColumn, Exists
<1>19. ASSUME NEW w \in Worker, Invalidate(w)  PROVE DelayInv'
  BY <1>19 DEF Invalidate, Drop, NoEntry
<1>20. ASSUME NEW w \in Worker, NotInvalidated(w)  PROVE DelayInv'
  BY <1>20 DEF NotInvalidated
<1>21. CASE Evict
  BY <1>21 DEF Evict, Drop, NoEntry
<1>22. CASE Tick
  BY <1>22 DEF Tick, Drop, NoEntry, Older, Writing
<1>23. CASE UNCHANGED vars
  BY <1>23 DEF vars
<1>24. QED
  BY <1>1, <1>2, <1>3, <1>4, <1>5, <1>6, <1>7, <1>8, <1>9, <1>10, <1>11,
     <1>12, <1>13, <1>14, <1>15, <1>16, <1>17, <1>18, <1>19, <1>20, <1>21,
     <1>22, <1>23 DEF Next

\* An entry is at least as old, up to Delay, as the row is hidden.
LEMMA HideNext == TypeOK /\ DelayInv /\ HideInv /\ [Next]_vars => HideInv'
<1> SUFFICES ASSUME TypeOK, DelayInv, HideInv, [Next]_vars PROVE HideInv'
  OBVIOUS
<1> USE TimeAssumption DEF TypeOK, DelayInv, HideInv, Hidden, Status, Entry, Load, NoLoad, OpState, NoOp,
            Transition, Fault, NoFault, row, entry, Writing, ServedFor
<1>1. ASSUME NEW r \in Reader, Get(r)  PROVE HideInv'
  BY <1>1 DEF Get, Served, ServedFor
<1>2. ASSUME NEW r \in Reader, Trigger(r)  PROVE HideInv'
  BY <1>2 DEF Trigger, Join
<1>3. ASSUME NEW r \in Reader, LoadShared(r)  PROVE HideInv'
  BY <1>3 DEF LoadShared, Join
<1>4. ASSUME NEW r \in Reader, Leave(r)  PROVE HideInv'
  BY <1>4 DEF Leave
<1>5. CASE LoadRead
  <2> flight \in Load
    BY <1>5 DEF LoadRead
  <2>1. CASE status \in {"absent", "gone"}
    <3>1. flight' = [kind |-> flight.kind, pc |-> "miss", ver |-> flight.ver, age |-> flight.age]
      BY <1>5, <2>1 DEF LoadRead
    <3>2. QED
      BY <1>5, <2>1, <3>1 DEF LoadRead
  <2>2. CASE status = "published"
    <3>1. flight' = [kind |-> flight.kind, pc |-> "set", ver |-> ver, age |-> flight.age]
      BY <1>5, <2>2 DEF LoadRead
    <3>2. QED
      BY <1>5, <2>2, <3>1 DEF LoadRead
  <2>3. CASE status \in {"created", "failed", "private"}
    BY <1>5, <2>3 DEF LoadRead, Finish
  <2>4. QED
    BY <2>1, <2>2, <2>3
<1>6. CASE LoadSet
  BY <1>6 DEF LoadSet, Finish, Fill, Hit
<1>7. CASE LoadMiss
  BY <1>7 DEF LoadMiss, Finish, Miss
<1>8. CASE LoadFails
  BY <1>8 DEF LoadFails, Finish
<1>9. CASE Create
  BY <1>9 DEF Create
<1>10. ASSUME NEW o \in Op, NEW change \in Transition, ReadOwn(o, change)  PROVE HideInv'
  BY <1>10 DEF ReadOwn, Exists
<1>11. ASSUME NEW o \in Op, MarkStatus(o)  PROVE HideInv'
  BY <1>11 DEF MarkStatus
<1>12. ASSUME NEW o \in Op, DeleteEntry(o)  PROVE HideInv'
  BY <1>12 DEF DeleteEntry, Drop, NoEntry
<1>13. ASSUME NEW o \in Op, Prewarm(o)  PROVE HideInv'
  BY <1>13 DEF Prewarm, Fill, Hit
<1>14. ASSUME NEW o \in Op, ReadToDelete(o)  PROVE HideInv'
  BY <1>14 DEF ReadToDelete, Exists
<1>15. ASSUME NEW o \in Op, DeleteEntryFirst(o)  PROVE HideInv'
  BY <1>15 DEF DeleteEntryFirst, Drop, NoEntry
<1>16. ASSUME NEW o \in Op, DeleteRow(o)  PROVE HideInv'
  BY <1>16 DEF DeleteRow
<1>17. ASSUME NEW o \in Op, GiveUp(o)  PROVE HideInv'
  BY <1>17 DEF GiveUp
<1>18. ASSUME NEW w \in Worker, UpdateColumn(w)  PROVE HideInv'
  BY <1>18 DEF UpdateColumn, Exists
<1>19. ASSUME NEW w \in Worker, Invalidate(w)  PROVE HideInv'
  BY <1>19 DEF Invalidate, Drop, NoEntry
<1>20. ASSUME NEW w \in Worker, NotInvalidated(w)  PROVE HideInv'
  BY <1>20 DEF NotInvalidated
<1>21. CASE Evict
  BY <1>21 DEF Evict, Drop, NoEntry
<1>22. CASE Tick
  BY <1>22 DEF Tick, Drop, NoEntry, Older, Writing
<1>23. CASE UNCHANGED vars
  BY <1>23 DEF vars
<1>24. QED
  BY <1>1, <1>2, <1>3, <1>4, <1>5, <1>6, <1>7, <1>8, <1>9, <1>10, <1>11,
     <1>12, <1>13, <1>14, <1>15, <1>16, <1>17, <1>18, <1>19, <1>20, <1>21,
     <1>22, <1>23 DEF Next

\* A missing entry is at least as old, up to Delay, as the row.
LEMMA MissNext == TypeOK /\ DelayInv /\ MissInv /\ [Next]_vars => MissInv'
<1> SUFFICES ASSUME TypeOK, DelayInv, MissInv, [Next]_vars PROVE MissInv'
  OBVIOUS
<1> USE TimeAssumption DEF TypeOK, DelayInv, MissInv, Exists, Status, Entry, Load, NoLoad, OpState, NoOp,
            Transition, Fault, NoFault, row, entry, Writing
<1>1. ASSUME NEW r \in Reader, Get(r)  PROVE MissInv'
  BY <1>1 DEF Get, Served, ServedFor
<1>2. ASSUME NEW r \in Reader, Trigger(r)  PROVE MissInv'
  BY <1>2 DEF Trigger, Join
<1>3. ASSUME NEW r \in Reader, LoadShared(r)  PROVE MissInv'
  BY <1>3 DEF LoadShared, Join
<1>4. ASSUME NEW r \in Reader, Leave(r)  PROVE MissInv'
  BY <1>4 DEF Leave
<1>5. CASE LoadRead
  <2> flight \in Load
    BY <1>5 DEF LoadRead
  <2>1. CASE status \in {"absent", "gone"}
    <3>1. flight' = [kind |-> flight.kind, pc |-> "miss", ver |-> flight.ver, age |-> flight.age]
      BY <1>5, <2>1 DEF LoadRead
    <3>2. QED
      BY <1>5, <2>1, <3>1 DEF LoadRead
  <2>2. CASE status = "published"
    <3>1. flight' = [kind |-> flight.kind, pc |-> "set", ver |-> ver, age |-> flight.age]
      BY <1>5, <2>2 DEF LoadRead
    <3>2. QED
      BY <1>5, <2>2, <3>1 DEF LoadRead
  <2>3. CASE status \in {"created", "failed", "private"}
    BY <1>5, <2>3 DEF LoadRead, Finish
  <2>4. QED
    BY <2>1, <2>2, <2>3
<1>6. CASE LoadSet
  BY <1>6 DEF LoadSet, Finish, Fill, Hit
<1>7. CASE LoadMiss
  BY <1>7 DEF LoadMiss, Finish, Miss
<1>8. CASE LoadFails
  BY <1>8 DEF LoadFails, Finish
<1>9. CASE Create
  BY <1>9 DEF Create
<1>10. ASSUME NEW o \in Op, NEW change \in Transition, ReadOwn(o, change)  PROVE MissInv'
  BY <1>10 DEF ReadOwn, Exists
<1>11. ASSUME NEW o \in Op, MarkStatus(o)  PROVE MissInv'
  BY <1>11 DEF MarkStatus
<1>12. ASSUME NEW o \in Op, DeleteEntry(o)  PROVE MissInv'
  BY <1>12 DEF DeleteEntry, Drop, NoEntry
<1>13. ASSUME NEW o \in Op, Prewarm(o)  PROVE MissInv'
  BY <1>13 DEF Prewarm, Fill, Hit
<1>14. ASSUME NEW o \in Op, ReadToDelete(o)  PROVE MissInv'
  BY <1>14 DEF ReadToDelete, Exists
<1>15. ASSUME NEW o \in Op, DeleteEntryFirst(o)  PROVE MissInv'
  BY <1>15 DEF DeleteEntryFirst, Drop, NoEntry
<1>16. ASSUME NEW o \in Op, DeleteRow(o)  PROVE MissInv'
  BY <1>16 DEF DeleteRow
<1>17. ASSUME NEW o \in Op, GiveUp(o)  PROVE MissInv'
  BY <1>17 DEF GiveUp
<1>18. ASSUME NEW w \in Worker, UpdateColumn(w)  PROVE MissInv'
  BY <1>18 DEF UpdateColumn, Exists
<1>19. ASSUME NEW w \in Worker, Invalidate(w)  PROVE MissInv'
  BY <1>19 DEF Invalidate, Drop, NoEntry
<1>20. ASSUME NEW w \in Worker, NotInvalidated(w)  PROVE MissInv'
  BY <1>20 DEF NotInvalidated
<1>21. CASE Evict
  BY <1>21 DEF Evict, Drop, NoEntry
<1>22. CASE Tick
  BY <1>22 DEF Tick, Drop, NoEntry, Older, Writing
<1>23. CASE UNCHANGED vars
  BY <1>23 DEF vars
<1>24. QED
  BY <1>1, <1>2, <1>3, <1>4, <1>5, <1>6, <1>7, <1>8, <1>9, <1>10, <1>11,
     <1>12, <1>13, <1>14, <1>15, <1>16, <1>17, <1>18, <1>19, <1>20, <1>21,
     <1>22, <1>23 DEF Next

\* Every step that leaves an entry behind the row records why.
LEMMA VerNext == TypeOK /\ VerInv /\ [Next]_vars => VerInv'
<1> SUFFICES ASSUME TypeOK, VerInv, [Next]_vars PROVE VerInv'
  OBVIOUS
<1> USE TimeAssumption DEF TypeOK, VerInv, HitIsCurrent, Exists, Status, Entry, Load, NoLoad, OpState, NoOp,
            Transition, Fault, NoFault, row, entry
<1>1. ASSUME NEW r \in Reader, Get(r)  PROVE VerInv'
  BY <1>1 DEF Get, Served, ServedFor
<1>2. ASSUME NEW r \in Reader, Trigger(r)  PROVE VerInv'
  BY <1>2 DEF Trigger, Join
<1>3. ASSUME NEW r \in Reader, LoadShared(r)  PROVE VerInv'
  BY <1>3 DEF LoadShared, Join
<1>4. ASSUME NEW r \in Reader, Leave(r)  PROVE VerInv'
  BY <1>4 DEF Leave
<1>5. CASE LoadRead
  <2> flight \in Load
    BY <1>5 DEF LoadRead
  <2>1. CASE status \in {"absent", "gone"}
    <3>1. flight' = [kind |-> flight.kind, pc |-> "miss", ver |-> flight.ver, age |-> flight.age]
      BY <1>5, <2>1 DEF LoadRead
    <3>2. QED
      BY <1>5, <2>1, <3>1 DEF LoadRead
  <2>2. CASE status = "published"
    <3>1. flight' = [kind |-> flight.kind, pc |-> "set", ver |-> ver, age |-> flight.age]
      BY <1>5, <2>2 DEF LoadRead
    <3>2. QED
      BY <1>5, <2>2, <3>1 DEF LoadRead
  <2>3. CASE status \in {"created", "failed", "private"}
    BY <1>5, <2>3 DEF LoadRead, Finish
  <2>4. QED
    BY <2>1, <2>2, <2>3
<1>6. CASE LoadSet
  BY <1>6 DEF LoadSet, Finish, Fill, Hit
<1>7. CASE LoadMiss
  BY <1>7 DEF LoadMiss, Finish, Miss
<1>8. CASE LoadFails
  BY <1>8 DEF LoadFails, Finish
<1>9. CASE Create
  BY <1>9 DEF Create
<1>10. ASSUME NEW o \in Op, NEW change \in Transition, ReadOwn(o, change)  PROVE VerInv'
  BY <1>10 DEF ReadOwn, Exists
<1>11. ASSUME NEW o \in Op, MarkStatus(o)  PROVE VerInv'
  BY <1>11 DEF MarkStatus
<1>12. ASSUME NEW o \in Op, DeleteEntry(o)  PROVE VerInv'
  BY <1>12 DEF DeleteEntry, Drop, NoEntry
<1>13. ASSUME NEW o \in Op, Prewarm(o)  PROVE VerInv'
  BY <1>13 DEF Prewarm, Fill, Hit
<1>14. ASSUME NEW o \in Op, ReadToDelete(o)  PROVE VerInv'
  BY <1>14 DEF ReadToDelete, Exists
<1>15. ASSUME NEW o \in Op, DeleteEntryFirst(o)  PROVE VerInv'
  BY <1>15 DEF DeleteEntryFirst, Drop, NoEntry
<1>16. ASSUME NEW o \in Op, DeleteRow(o)  PROVE VerInv'
  BY <1>16 DEF DeleteRow
<1>17. ASSUME NEW o \in Op, GiveUp(o)  PROVE VerInv'
  BY <1>17 DEF GiveUp
<1>18. ASSUME NEW w \in Worker, UpdateColumn(w)  PROVE VerInv'
  BY <1>18 DEF UpdateColumn, Exists
<1>19. ASSUME NEW w \in Worker, Invalidate(w)  PROVE VerInv'
  BY <1>19 DEF Invalidate, Drop, NoEntry
<1>20. ASSUME NEW w \in Worker, NotInvalidated(w)  PROVE VerInv'
  BY <1>20 DEF NotInvalidated
<1>21. CASE Evict
  BY <1>21 DEF Evict, Drop, NoEntry
<1>22. CASE Tick
  BY <1>22 DEF Tick, Drop, NoEntry, Older, Writing
<1>23. CASE UNCHANGED vars
  BY <1>23 DEF vars
<1>24. QED
  BY <1>1, <1>2, <1>3, <1>4, <1>5, <1>6, <1>7, <1>8, <1>9, <1>10, <1>11,
     <1>12, <1>13, <1>14, <1>15, <1>16, <1>17, <1>18, <1>19, <1>20, <1>21,
     <1>22, <1>23 DEF Next

-----------------------------------------------------------------------------
LEMMA Invariance == Spec => []IInv
<1>1. IInv /\ [Next]_vars => IInv'
  BY TypeNext, DelayNext, HideNext, MissNext, VerNext DEF IInv
<1>2. QED
  BY InitInv, <1>1, PTL DEF Spec

LEMMA Bounds == IInv => BoundedExposure /\ BoundedMiss /\ HitIsCurrent
  BY TimeAssumption DEF IInv, TypeOK, Entry, HideInv, MissInv, VerInv, BoundedExposure, BoundedMiss,
     Served, ServedFor

\* Every variable of the cache keeps the values of its type.
THEOREM TypeCorrect == Spec => []TypeOK
<1>1. IInv => TypeOK
  BY DEF IInv
<1>2. QED
  BY Invariance, <1>1, PTL

\* A private or deleted video is served from the cache no longer than
\* Delay + TTL + MaxStale.
THEOREM ExposureIsBounded == Spec => []BoundedExposure
  BY Invariance, Bounds, PTL

\* A video is hidden by a "no such video" entry no longer than Delay + MissTTL.
THEOREM MissIsBounded == Spec => []BoundedMiss
  BY Invariance, Bounds, PTL

\* Only a fill that crossed a change, or a DEL that was never done, leaves an
\* entry behind the row.
THEOREM EntryIsCurrent == Spec => []HitIsCurrent
  BY Invariance, Bounds, PTL
=============================================================================
