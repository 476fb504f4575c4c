-------------------------- MODULE LikeSwitchProofs --------------------------
(***************************************************************************)
(* What LikeSwitch guarantees for every number of users, requests, workers,*)
(* switches and faults.                                                    *)
(*                                                                         *)
(* RowsFollowSet and CountFollowsSet speak of settled states only.  What   *)
(* carries them from one settled state to the next is the switch with the  *)
(* highest number: as long as nothing went wrong after it, either some     *)
(* request or message still carries it, or its effect has been copied.     *)
(***************************************************************************)
EXTENDS LikeSwitch, FiniteSetTheorems, TLAPS

\* The switches that may still reach the group: published, or about to be.
Carried == inbox \union {Switched(r) : r \in {x \in Req : Publishing(x)}}

\* Switches are numbered in the order in which they changed the set.
NumbersInOrder ==
    /\ \A u \in User : last[u] <= ver
    /\ \A e \in Carried : e.n <= last[e.u]
    /\ \A w \in Worker : work[w].pc = "counted" =>
          group = "video" /\ work[w].ver <= ver /\ work[w].e.n <= work[w].ver

\* A carried last switch says what the set holds.
CarriedIsCurrent ==
    \A u \in User : Kept /\ rowCause[u] = {} =>
        \A e \in Carried : e.u = u /\ e.n = last[u] => (e.on <=> u \in members)

\* The last switch of u is carried, or the row shows it.
RowInv ==
    \A u \in User : group = "like" /\ Kept /\ rowCause[u] = {} =>
        \/ \E e \in Carried : e.u = u /\ e.n = last[u]
        \/ applied[u] = last[u] /\ (u \in rows <=> u \in members)

\* The last switch of all is carried, or the count shows it; a worker that has
\* read since holds the present size of the set.
CountInv ==
    group = "video" /\ stage = "live" /\ countCause = {} =>
        /\ \/ \E e \in Carried : e.n = ver
           \/ countVer = ver /\ count = Cardinality(members)
        /\ \A w \in Worker : work[w].pc = "counted" /\ work[w].ver = ver
                               => work[w].val = Cardinality(members)

\* What is in the table or the set after the cleanup came late.
CleanInv ==
    /\ Cleaned => rows \subseteq late
    /\ stage = "clean" => members \subseteq late

IInv == TypeOK /\ NumbersInOrder /\ CarriedIsCurrent /\ RowInv /\ CountInv /\ CleanInv

-----------------------------------------------------------------------------
(* Types *)

LEMMA SetSize ==
    ASSUME NEW S \in SUBSET User
    PROVE  Cardinality(S) \in Nat
  BY UserAssumption, FS_Subset, FS_CardinalityType

LEMMA TypeInit == Init => TypeOK
  BY DEF Init, TypeOK, Stage, Group

LEMMA TypeNext == TypeOK /\ [Next]_vars => TypeOK'
<1> SUFFICES ASSUME TypeOK, [Next]_vars PROVE TypeOK'
  OBVIOUS
<1> USE DEF TypeOK, Request, Idle, Event, Group, Stage, Cause, Fault, NoFault, history
<1>1. ASSUME NEW r \in Req, NEW u \in User, NEW on \in BOOLEAN, Begin(r, u, on)
      PROVE  TypeOK'
  BY <1>1 DEF Begin
<1>2. ASSUME NEW r \in Req, SetUnchanged(r)  PROVE TypeOK'
  BY <1>2 DEF SetUnchanged
<1>3. ASSUME NEW r \in Req, SetChanged(r)  PROVE TypeOK'
  BY <1>3 DEF SetChanged, SetScript
<1>4. ASSUME NEW r \in Req, PublishOk(r)  PROVE TypeOK'
  BY <1>4 DEF PublishOk, Stored, Switched
<1>5. ASSUME NEW r \in Req, PublishFails(r)  PROVE TypeOK'
  BY <1>5 DEF PublishFails, Stored, Switched
<1>6. ASSUME NEW r \in Req, Rollback(r)  PROVE TypeOK'
  BY <1>6 DEF Rollback, SetScript
<1>7. ASSUME NEW e \in inbox, CopyToRows(e)  PROVE TypeOK'
  <2>1. e \in Event /\ e.u \in User /\ e.n \in Nat
    OBVIOUS
  <2>2. inbox' \in SUBSET Event /\ faults' \in Nat
    BY <1>7, SMT DEF CopyToRows, Settle
  <2>3. rows' \in SUBSET User /\ late' \in SUBSET User
    BY <1>7, <2>1 DEF CopyToRows
  <2>4. applied' \in [User -> Nat]
    BY <1>7, <2>1 DEF CopyToRows
  <2>5. rowCause' \in [User -> SUBSET Cause]
    BY <1>7, <2>1 DEF CopyToRows
  <2>6. QED
    BY <1>7, <2>2, <2>3, <2>4, <2>5 DEF CopyToRows
<1>8. ASSUME NEW w \in Worker, NEW e \in inbox, CountLikes(w, e)  PROVE TypeOK'
  BY <1>8, SetSize DEF CountLikes, Work
<1>9. ASSUME NEW w \in Worker, SyncLikeCount(w)  PROVE TypeOK'
  <2>1. work[w] \in Work
    BY <1>9 DEF SyncLikeCount, Work
  <2>2. work[w].val \in Nat /\ work[w].ver \in Nat /\ work[w].e \in Event
    BY <2>1 DEF Work
  <2>3. inbox' \in SUBSET Event /\ faults' \in Nat
    BY <1>9, SMT DEF SyncLikeCount, Settle
  <2>4. work' \in [Worker -> Work \union {Idle}]
    BY <1>9 DEF SyncLikeCount
  <2>5. count' \in Nat /\ countVer' \in Nat /\ countCause' \in SUBSET Cause
    BY <1>9, <2>2 DEF SyncLikeCount
  <2>6. QED
    BY <1>9, <2>3, <2>4, <2>5 DEF SyncLikeCount
<1>10. ASSUME NEW e \in inbox, DeadLetter(e)  PROVE TypeOK'
  BY <1>10 DEF DeadLetter
<1>11. CASE DeleteRow
  BY <1>11 DEF DeleteRow
<1>12. CASE PublishDeleted
  BY <1>12 DEF PublishDeleted
<1>13. CASE DeleteByTarget
  BY <1>13 DEF DeleteByTarget
<1>14. CASE DeleteTargetSet
  BY <1>14 DEF DeleteTargetSet
<1>15. CASE DropDeleted
  BY <1>15 DEF DropDeleted
<1>16. CASE Restart
  BY <1>16 DEF Restart
<1>17. CASE UNCHANGED vars
  BY <1>17 DEF vars
<1>18. QED
  BY <1>1, <1>2, <1>3, <1>4, <1>5, <1>6, <1>7, <1>8, <1>9, <1>10, <1>11, <1>12, <1>13,
     <1>14, <1>15, <1>16, <1>17 DEF Next

\* Every variable of the like switch keeps the values of its type.
THEOREM TypeCorrect == Spec => []TypeOK
  BY TypeInit, TypeNext, PTL DEF Spec

-----------------------------------------------------------------------------
(* How each step moves the carried switches *)

LEMMA CarriedType == TypeOK => Carried \in SUBSET Event
  BY DEF TypeOK, Carried, Publishing, Switched, Request, Idle, Event

LEMMA QuietRequest ==
    ASSUME TypeOK, NEW r \in Req, ~Publishing(r), ~Publishing(r)',
           inbox' = inbox, \A x \in Req \ {r} : req'[x] = req[x]
    PROVE  Carried' = Carried
  BY DEF Carried, Publishing, Switched

LEMMA ChangeCarries ==
    ASSUME TypeOK, NEW r \in Req, SetChanged(r)
    PROVE  /\ Carried \subseteq Carried'
           /\ \A e \in Carried' : \/ e \in Carried
                                 \/ e = [u |-> req[r].u, on |-> req[r].on, n |-> ver + 1]
           /\ countCause' = {} \/ rowCause'[req[r].u] = {}
                => [u |-> req[r].u, on |-> req[r].on, n |-> ver + 1] \in Carried'
<1> DEFINE new == [u |-> req[r].u, on |-> req[r].on, n |-> ver + 1]
<1>1. inbox' = inbox /\ req[r] \in Request /\ ~Publishing(r)
  BY DEF SetChanged, TypeOK, Request, Idle, Publishing
<1>2. PICK answered \in BOOLEAN :
          /\ req' = [req EXCEPT ![r] = IF answered
                        THEN [pc |-> "publish", u |-> req[r].u, on |-> req[r].on, n |-> ver + 1]
                        ELSE Idle]
          /\ rowCause' = [rowCause EXCEPT ![req[r].u] =
                              IF answered THEN {} ELSE {"unpublished"}]
          /\ countCause' = IF answered THEN {} ELSE {"unpublished"}
  BY DEF SetChanged
<1>3. \A x \in Req \ {r} : req'[x] = req[x]
  BY <1>2 DEF TypeOK
<1>4. Carried \subseteq Carried'
  BY <1>1, <1>3 DEF Carried, Publishing, Switched
<1>5. CASE answered
  <2>1. Publishing(r)' /\ Switched(r)' = new
    BY <1>2, <1>5 DEF Publishing, Switched, TypeOK
  <2>2. QED
    BY <1>1, <1>3, <1>4, <2>1 DEF Carried, Publishing, Switched
<1>6. CASE ~answered
  <2>1. ~Publishing(r)' /\ countCause' # {} /\ rowCause'[req[r].u] # {}
    BY <1>1, <1>2, <1>6 DEF Publishing, TypeOK, Idle, Request
  <2>2. QED
    BY <1>1, <1>3, <1>4, <2>1 DEF Carried, Publishing, Switched
<1>7. QED
  BY <1>5, <1>6

LEMMA PublishCarries ==
    ASSUME TypeOK, NEW r \in Req, PublishOk(r) \/ PublishFails(r)
    PROVE  Carried' = Carried
<1>1. req[r] \in Request /\ Publishing(r) /\ Switched(r) \in Carried
  BY DEF PublishOk, PublishFails, TypeOK, Request, Idle, Publishing, Carried
<1>2. \A x \in Req \ {r} : req'[x] = req[x]
  BY DEF PublishOk, PublishFails, TypeOK
<1>3. CASE PublishOk(r)
  <2>1. inbox' = inbox \union {Switched(r)} /\ ~Publishing(r)'
    BY <1>3 DEF PublishOk, Stored, Publishing, TypeOK, Idle
  <2>2. QED
    BY <1>1, <1>2, <2>1 DEF Carried, Publishing, Switched
<1>4. CASE PublishFails(r)
  <2>1. inbox' = inbox \/ inbox' = inbox \union {Switched(r)}
    BY <1>4 DEF PublishFails, Stored
  <2>2. Publishing(r)' /\ Switched(r)' = Switched(r)
    BY <1>1, <1>4 DEF PublishFails, Publishing, Switched, TypeOK, Request
  <2>3. QED
    BY <1>1, <1>2, <2>1, <2>2 DEF Carried, Publishing, Switched
<1>5. QED
  BY <1>3, <1>4

LEMMA RollbackCarries ==
    ASSUME TypeOK, NEW r \in Req, Rollback(r)
    PROVE  Carried' \subseteq Carried /\ Carried \ {Switched(r)} \subseteq Carried'
<1>1. inbox' = inbox /\ ~Publishing(r)' /\ \A x \in Req \ {r} : req'[x] = req[x]
  BY DEF Rollback, TypeOK, Publishing, Idle
<1>2. QED
  BY <1>1 DEF Carried, Publishing, Switched

LEMMA SettleCarries ==
    ASSUME TypeOK, NEW e, inbox' = inbox \ {e} \/ inbox' = inbox, req' = req
    PROVE  Carried' \subseteq Carried /\ Carried \ {e} \subseteq Carried'
  BY DEF Carried, Publishing, Switched

-----------------------------------------------------------------------------
(* The invariant *)

Unmoved == UNCHANGED <<group, stage, members, rows, count, work, ver, last,
                       applied, countVer, rowCause, countCause, late>>

\* A step that moves nothing the invariant speaks of.
LEMMA QuietStep ==
    ASSUME IInv, TypeOK', Carried' = Carried, Unmoved
    PROVE  IInv'
<1> USE DEF IInv, Unmoved
<1>1. NumbersInOrder' BY DEF NumbersInOrder
<1>2. CarriedIsCurrent' BY DEF CarriedIsCurrent, Kept
<1>3. RowInv' BY DEF RowInv, Kept
<1>4. CountInv' BY DEF CountInv
<1>5. CleanInv' BY DEF CleanInv, Cleaned
<1>6. QED BY <1>1, <1>2, <1>3, <1>4, <1>5

LEMMA ChangeStep ==
    ASSUME IInv, TypeOK', NEW r \in Req, SetChanged(r)
    PROVE  IInv'
<1> DEFINE u == req[r].u
           new == [u |-> req[r].u, on |-> req[r].on, n |-> ver + 1]
<1>1. TypeOK /\ Carried \in SUBSET Event
  BY CarriedType DEF IInv
<1>2. /\ Carried \subseteq Carried'
      /\ \A e \in Carried' : e \in Carried \/ e = new
      /\ countCause' = {} \/ rowCause'[u] = {} => new \in Carried'
  BY <1>1, ChangeCarries
<1>3. req[r] \in Request /\ u \in User /\ req[r].on \in BOOLEAN
  BY <1>1 DEF SetChanged, TypeOK, Request, Idle
<1>4. /\ ver \in Nat /\ ver' = ver + 1 /\ last' = [last EXCEPT ![u] = ver + 1]
      /\ members' = SetScript(u, req[r].on)
      /\ UNCHANGED <<group, stage, rows, count, work, applied, countVer>>
      /\ \A x \in User \ {u} : rowCause'[x] = rowCause[x]
  BY <1>1 DEF SetChanged, TypeOK
<1>5. /\ \A x \in User : last'[x] = IF x = u THEN ver + 1 ELSE last[x]
      /\ \A x \in User \ {u} : x \in members' <=> x \in members
      /\ u \in members' <=> req[r].on
  BY <1>1, <1>3, <1>4 DEF TypeOK, SetScript
<1>6. \A e \in Carried : e.u \in User /\ e.n \in Nat /\ e.n <= ver /\ last[e.u] \in Nat
  BY <1>1 DEF IInv, NumbersInOrder, Event, TypeOK
<1>7. NumbersInOrder'
  <2>1. \A x \in User : last'[x] <= ver'
    BY <1>1, <1>4, <1>5 DEF IInv, NumbersInOrder, TypeOK
  <2>2. \A e \in Carried' : e.n <= last'[e.u]
    BY <1>1, <1>2, <1>3, <1>4, <1>5, <1>6 DEF IInv, NumbersInOrder
  <2>3. \A w \in Worker : work[w].pc = "counted" => work[w] \in Work
    BY <1>1 DEF TypeOK, Work, Idle
  <2>4. \A w \in Worker : work'[w].pc = "counted" =>
            group' = "video" /\ work'[w].ver <= ver' /\ work'[w].e.n <= work'[w].ver
    BY <1>4, <2>3 DEF IInv, NumbersInOrder, Work
  <2>5. QED
    BY <2>1, <2>2, <2>4 DEF NumbersInOrder
<1>8. CarriedIsCurrent'
  <2> SUFFICES ASSUME NEW x \in User, Kept, rowCause'[x] = {}, NEW e \in Carried',
                      e.u = x, e.n = last'[x]
               PROVE  e.on <=> x \in members'
    BY <1>4 DEF CarriedIsCurrent, Kept
  <2>1. CASE x = u
    BY <1>2, <1>4, <1>5, <1>6, <2>1
  <2>2. CASE x # u
    BY <1>2, <1>4, <1>5, <2>2 DEF IInv, CarriedIsCurrent
  <2>3. QED BY <2>1, <2>2
<1>9. RowInv'
  <2> SUFFICES ASSUME NEW x \in User, group = "like", Kept, rowCause'[x] = {}
               PROVE  \/ \E e \in Carried' : e.u = x /\ e.n = last'[x]
                      \/ applied[x] = last'[x] /\ (x \in rows <=> x \in members')
    BY <1>4 DEF RowInv, Kept
  <2>1. CASE x = u
    BY <1>2, <1>3, <1>5, <2>1
  <2>2. CASE x # u
    BY <1>2, <1>4, <1>5, <2>2 DEF IInv, RowInv
  <2>3. QED BY <2>1, <2>2
<1>10. CountInv'
  <2>1. countCause' = {} => \E e \in Carried' : e.n = ver'
    BY <1>2, <1>4
  <2>2. \A w \in Worker : ~(work'[w].pc = "counted" /\ work'[w].ver = ver')
    BY <1>1, <1>4 DEF IInv, NumbersInOrder
  <2>3. QED
    BY <2>1, <2>2 DEF CountInv
<1>11. CleanInv'
  BY <1>3, <1>4 DEF IInv, CleanInv, Cleaned, SetChanged, SetScript
<1>12. QED
  BY <1>7, <1>8, <1>9, <1>10, <1>11 DEF IInv

LEMMA RollbackStep ==
    ASSUME IInv, TypeOK', NEW r \in Req, Rollback(r)
    PROVE  IInv'
<1> DEFINE u == req[r].u
<1>1. TypeOK /\ Carried \in SUBSET Event
  BY CarriedType DEF IInv
<1>2. Carried' \subseteq Carried /\ Carried \ {Switched(r)} \subseteq Carried'
  BY <1>1, RollbackCarries
<1>3. req[r] \in Request /\ u \in User /\ Switched(r).n = req[r].n /\ Switched(r).u = u
  BY <1>1 DEF Rollback, TypeOK, Request, Idle, Switched
<1>4. UNCHANGED <<group, stage, rows, count, work, ver, last, applied, countVer>>
  BY DEF Rollback
<1>5. /\ \A x \in User \ {u} : rowCause'[x] = rowCause[x]
      /\ \A x \in User \ {u} : x \in members' <=> x \in members
      /\ rowCause'[u] = {} => /\ rowCause[u] = {} /\ members' = members
                              /\ last[u] # req[r].n
      /\ countCause' = {} => /\ countCause = {} /\ members' = members /\ ver # req[r].n
  BY <1>1, <1>3 DEF Rollback, TypeOK, SetScript
<1>6. NumbersInOrder'
  BY <1>2, <1>4 DEF IInv, NumbersInOrder
<1>7. CarriedIsCurrent'
  BY <1>2, <1>4, <1>5 DEF IInv, CarriedIsCurrent, Kept
<1>8. RowInv'
  BY <1>2, <1>3, <1>4, <1>5 DEF IInv, RowInv, Kept
<1>9. CountInv'
  BY <1>2, <1>3, <1>4, <1>5 DEF IInv, CountInv
<1>10. CleanInv'
  BY <1>3, <1>4 DEF IInv, CleanInv, Cleaned, Rollback, SetScript
<1>11. QED
  BY <1>6, <1>7, <1>8, <1>9, <1>10 DEF IInv

LEMMA CopyStep ==
    ASSUME IInv, TypeOK', NEW e \in inbox, CopyToRows(e)
    PROVE  IInv'
<1>1. TypeOK /\ e \in Carried /\ e.u \in User /\ e.n \in Nat /\ e.on \in BOOLEAN
  BY DEF IInv, TypeOK, Event, Carried
<1>2. /\ inbox' = inbox \ {e} \/ inbox' = inbox
      /\ UNCHANGED <<group, stage, members, count, req, work, ver, last, countVer, countCause>>
      /\ group = "like"
  BY DEF CopyToRows, Settle
<1>3. Carried' \subseteq Carried /\ Carried \ {e} \subseteq Carried'
  BY <1>1, <1>2, SettleCarries
<1>4. /\ \A x \in User \ {e.u} : applied'[x] = applied[x] /\ (x \in rows' <=> x \in rows)
      /\ applied'[e.u] = e.n /\ (e.u \in rows' <=> e.on)
  BY <1>1 DEF CopyToRows, TypeOK
<1>5. /\ \A x \in User : rowCause'[x] = {} => rowCause[x] = {}
      /\ e.n < applied[e.u] => rowCause'[e.u] # {}
  BY <1>1 DEF CopyToRows, TypeOK
<1>6. NumbersInOrder'
  BY <1>2, <1>3 DEF IInv, NumbersInOrder
<1>7. CarriedIsCurrent'
  BY <1>2, <1>3, <1>5 DEF IInv, CarriedIsCurrent, Kept
<1>8. RowInv'
  <2> SUFFICES ASSUME NEW x \in User, Kept, rowCause'[x] = {}
               PROVE  \/ \E f \in Carried' : f.u = x /\ f.n = last[x]
                      \/ applied'[x] = last[x] /\ (x \in rows' <=> x \in members)
    BY <1>2 DEF RowInv, Kept
  <2>1. rowCause[x] = {}
    BY <1>5
  <2>2. CASE x = e.u /\ e.n = last[x]
    BY <1>1, <1>4, <2>1, <2>2 DEF IInv, CarriedIsCurrent
  <2>3. CASE x = e.u /\ e.n # last[x]
    <3>1. e.n < last[x] /\ ~(e.n < applied[x])
      BY <1>1, <1>5, <2>3 DEF IInv, NumbersInOrder, TypeOK
    <3>2. applied[x] # last[x]
      BY <3>1
    <3>3. QED
      BY <1>2, <1>3, <2>1, <2>3, <3>2 DEF IInv, RowInv
  <2>4. CASE x # e.u
    BY <1>2, <1>3, <1>4, <2>1, <2>4 DEF IInv, RowInv
  <2>5. QED BY <2>2, <2>3, <2>4
<1>9. CountInv'
  BY <1>2 DEF CountInv
<1>10. CleanInv'
  BY <1>1, <1>2 DEF IInv, CleanInv, Cleaned, CopyToRows
<1>11. QED
  BY <1>6, <1>7, <1>8, <1>9, <1>10 DEF IInv

LEMMA CountStep ==
    ASSUME IInv, TypeOK', NEW w \in Worker, NEW e \in inbox, CountLikes(w, e)
    PROVE  IInv'
<1>1. /\ UNCHANGED <<group, stage, members, rows, count, req, inbox, history>>
      /\ group = "video" /\ TypeOK
  BY DEF CountLikes, IInv
<1>2. Carried' = Carried
  BY <1>1 DEF Carried, Publishing, Switched
<1>3. /\ \A x \in Worker \ {w} : work'[x] = work[x]
      /\ work'[w].ver = ver /\ work'[w].e = e /\ work'[w].val = Cardinality(members)
  BY <1>1 DEF CountLikes, TypeOK
<1>4. e \in Carried /\ e.u \in User /\ e.n \in Nat /\ ver \in Nat /\ last[e.u] \in Nat
  BY <1>1 DEF TypeOK, Event, Carried
<1>5. e.n <= ver
  BY <1>4 DEF IInv, NumbersInOrder
<1>6. NumbersInOrder'
  BY <1>1, <1>2, <1>3, <1>4, <1>5 DEF IInv, NumbersInOrder, history
<1>7. CarriedIsCurrent'
  BY <1>1, <1>2 DEF IInv, CarriedIsCurrent, Kept, history
<1>8. RowInv'
  BY <1>1 DEF RowInv
<1>9. CountInv'
  BY <1>1, <1>2, <1>3 DEF IInv, CountInv, history
<1>10. CleanInv'
  BY <1>1 DEF IInv, CleanInv, Cleaned, history
<1>11. QED
  BY <1>6, <1>7, <1>8, <1>9, <1>10 DEF IInv

LEMMA SyncStep ==
    ASSUME IInv, TypeOK', NEW w \in Worker, SyncLikeCount(w)
    PROVE  IInv'
<1> DEFINE e == work[w].e
<1>1. TypeOK /\ work[w] \in Work /\ e.n \in Nat /\ work[w].ver \in Nat /\ ver \in Nat
  BY DEF IInv, TypeOK, SyncLikeCount, Work, Idle, Event
<1>2. /\ inbox' = inbox \ {e} \/ inbox' = inbox
      /\ UNCHANGED <<group, stage, members, rows, req, ver, last, applied, rowCause, late>>
  BY DEF SyncLikeCount, Settle
<1>3. Carried' \subseteq Carried /\ Carried \ {e} \subseteq Carried'
  BY <1>1, <1>2, SettleCarries
<1>4. group = "video" /\ work[w].ver <= ver /\ e.n <= work[w].ver
  BY DEF IInv, NumbersInOrder, SyncLikeCount
<1>5. \A x \in Worker : work'[x].pc = "counted" => work'[x] = work[x]
  BY <1>1 DEF SyncLikeCount, TypeOK, Idle
<1>6. NumbersInOrder'
  BY <1>2, <1>3, <1>5 DEF IInv, NumbersInOrder
<1>7. CarriedIsCurrent'
  BY <1>2, <1>3 DEF IInv, CarriedIsCurrent, Kept
<1>8. RowInv'
  BY <1>2, <1>4 DEF RowInv
<1>9. CountInv'
  <2> SUFFICES ASSUME group = "video", stage = "live", countCause' = {}
               PROVE  /\ \/ \E f \in Carried' : f.n = ver
                         \/ countVer' = ver /\ count' = Cardinality(members)
                      /\ \A x \in Worker : work'[x].pc = "counted" /\ work'[x].ver = ver
                                              => work'[x].val = Cardinality(members)
    BY <1>2 DEF CountInv
  <2>1. /\ countCause = {} /\ ~(work[w].ver < countVer)
        /\ countVer' = work[w].ver /\ count' = work[w].val
    BY DEF SyncLikeCount
  <2>2. \A x \in Worker : work[x].pc = "counted" /\ work[x].ver = ver
                             => work[x].val = Cardinality(members)
    BY <2>1 DEF IInv, CountInv
  <2>3. CASE work[w].ver = ver
    BY <1>5, <2>1, <2>2, <2>3 DEF SyncLikeCount
  <2>4. CASE work[w].ver # ver
    <3>1. countVer # ver /\ e.n # ver
      BY <1>1, <1>4, <2>1, <2>4
    <3>2. \E f \in Carried : f.n = ver
      BY <2>1, <3>1 DEF IInv, CountInv
    <3>3. QED
      BY <1>3, <1>5, <2>2, <3>1, <3>2
  <2>5. QED BY <2>3, <2>4
<1>10. CleanInv'
  BY <1>2 DEF IInv, CleanInv, Cleaned
<1>11. QED
  BY <1>6, <1>7, <1>8, <1>9, <1>10 DEF IInv

LEMMA DeadLetterStep ==
    ASSUME IInv, TypeOK', NEW e \in inbox, DeadLetter(e)
    PROVE  IInv'
<1>1. TypeOK /\ e.u \in User
  BY DEF IInv, TypeOK, Event
<1>2. /\ inbox' = inbox \ {e}
      /\ UNCHANGED <<group, stage, members, rows, count, req, work,
                     ver, last, applied, countVer, late>>
  BY DEF DeadLetter
<1>3. Carried' \subseteq Carried /\ Carried \ {e} \subseteq Carried'
  BY <1>1, <1>2, SettleCarries
<1>4. /\ \A x \in User : rowCause'[x] = {} => rowCause[x] = {}
      /\ countCause' = {} => countCause = {}
      /\ group = "like" /\ e.n = last[e.u] => rowCause'[e.u] # {}
      /\ group = "video" /\ e.n = ver => countCause' # {}
  BY <1>1 DEF DeadLetter, TypeOK
<1>5. NumbersInOrder'
  BY <1>2, <1>3 DEF IInv, NumbersInOrder
<1>6. CarriedIsCurrent'
  BY <1>2, <1>3, <1>4 DEF IInv, CarriedIsCurrent, Kept
<1>7. RowInv'
  BY <1>2, <1>3, <1>4 DEF IInv, RowInv, Kept
<1>8. CountInv'
  BY <1>2, <1>3, <1>4 DEF IInv, CountInv
<1>9. CleanInv'
  BY <1>2 DEF IInv, CleanInv, Cleaned
<1>10. QED
  BY <1>5, <1>6, <1>7, <1>8, <1>9 DEF IInv

\* The target only ever leaves the stages in which rows and set are to agree.
LEMMA StageStep ==
    ASSUME IInv, TypeOK',
           DeleteRow \/ PublishDeleted \/ DeleteByTarget \/ DeleteTargetSet \/ DropDeleted
    PROVE  IInv'
<1>1. /\ UNCHANGED <<group, count, req, inbox, work, history>>
      /\ stage' # "live"
      /\ Kept' => Kept /\ members' = members /\ rows' = rows
      /\ Cleaned' => rows' \subseteq late
      /\ stage' = "clean" => members' \subseteq late
  BY DEF DeleteRow, PublishDeleted, DeleteByTarget, DeleteTargetSet, DropDeleted,
         Kept, Cleaned, IInv, CleanInv
<1>2. Carried' = Carried
  BY <1>1 DEF Carried, Publishing, Switched
<1>3. NumbersInOrder'
  BY <1>1, <1>2 DEF IInv, NumbersInOrder, history
<1>4. CarriedIsCurrent'
  BY <1>1, <1>2 DEF IInv, CarriedIsCurrent, history
<1>5. RowInv'
  BY <1>1, <1>2 DEF IInv, RowInv, history
<1>6. CountInv'
  BY <1>1 DEF CountInv
<1>7. CleanInv'
  BY <1>1 DEF CleanInv, history
<1>8. QED
  BY <1>3, <1>4, <1>5, <1>6, <1>7 DEF IInv

LEMMA RestartStep ==
    ASSUME IInv, TypeOK', Restart
    PROVE  IInv'
<1>1. /\ UNCHANGED <<group, members, rows, count, inbox, ver, last, applied, countVer, late>>
      /\ \A r \in Req : ~Publishing(r)'
      /\ \A w \in Worker : work'[w].pc # "counted"
      /\ Kept' => Kept
      /\ stage' = "live" => stage = "live"
      /\ ~(stage' = "rowsGone")
      /\ stage' = "clean" => stage = "clean"
  BY DEF Restart, Publishing, Idle, Kept
<1>2. Carried' = inbox /\ inbox \subseteq Carried
  BY <1>1 DEF Carried
<1>3. TypeOK
  BY DEF IInv
<1>4. /\ \A x \in User : rowCause'[x] = {} =>
            rowCause[x] = {} /\ ~\E r \in Req : Publishing(r) /\ req[r].n = last[x]
      /\ countCause' = {} =>
            countCause = {} /\ ~\E r \in Req : Publishing(r) /\ req[r].n = ver
  BY <1>3 DEF Restart, TypeOK
<1>5. \A e \in Carried : e \in inbox \/ \E r \in Req : Publishing(r) /\ req[r].n = e.n
  BY DEF Carried, Switched
<1>6. NumbersInOrder'
  BY <1>1, <1>2 DEF IInv, NumbersInOrder
<1>7. CarriedIsCurrent'
  BY <1>1, <1>2, <1>4 DEF IInv, CarriedIsCurrent
<1>8. RowInv'
  BY <1>1, <1>2, <1>4, <1>5 DEF IInv, RowInv
<1>9. CountInv'
  BY <1>1, <1>2, <1>4, <1>5 DEF IInv, CountInv
<1>10. CleanInv'
  BY <1>1 DEF IInv, CleanInv, Cleaned
<1>11. QED
  BY <1>6, <1>7, <1>8, <1>9, <1>10 DEF IInv

LEMMA InvInit == Init => IInv
<1> SUFFICES ASSUME Init PROVE IInv
  OBVIOUS
<1>1. TypeOK
  BY TypeInit
<1>2. Carried = {} /\ \A w \in Worker : work[w].pc # "counted"
  BY DEF Init, Carried, Publishing, Idle
<1>3. Cardinality(members) = 0
  BY FS_EmptySet DEF Init
<1>4. QED
  BY <1>1, <1>2, <1>3 DEF Init, IInv, NumbersInOrder, CarriedIsCurrent, RowInv, CountInv,
                          CleanInv, Cleaned

LEMMA InvNext == IInv /\ [Next]_vars => IInv'
<1> SUFFICES ASSUME IInv, [Next]_vars PROVE IInv'
  OBVIOUS
<1>1. TypeOK /\ TypeOK'
  BY TypeNext DEF IInv
<1>2. ASSUME NEW r \in Req, NEW u \in User, NEW on \in BOOLEAN, Begin(r, u, on)
      PROVE  IInv'
  <2>1. Carried' = Carried
    BY <1>1, <1>2, QuietRequest DEF Begin, Publishing, TypeOK
  <2>2. QED
    BY <1>1, <1>2, <2>1, QuietStep DEF Begin, Unmoved, history
<1>3. ASSUME NEW r \in Req, SetUnchanged(r)  PROVE IInv'
  <2>1. Carried' = Carried
    BY <1>1, <1>3, QuietRequest DEF SetUnchanged, Publishing, TypeOK, Idle
  <2>2. QED
    BY <1>1, <1>3, <2>1, QuietStep DEF SetUnchanged, Unmoved, history
<1>4. ASSUME NEW r \in Req, SetChanged(r)  PROVE IInv'
  BY <1>1, <1>4, ChangeStep
<1>5. ASSUME NEW r \in Req, PublishOk(r) \/ PublishFails(r)  PROVE IInv'
  <2>1. Carried' = Carried
    BY <1>1, <1>5, PublishCarries
  <2>2. Unmoved
    BY <1>5 DEF PublishOk, PublishFails, Unmoved, history
  <2>3. QED
    BY <1>1, <2>1, <2>2, QuietStep
<1>6. ASSUME NEW r \in Req, Rollback(r)  PROVE IInv'
  BY <1>1, <1>6, RollbackStep
<1>7. ASSUME NEW e \in inbox, CopyToRows(e)  PROVE IInv'
  BY <1>1, <1>7, CopyStep
<1>8. ASSUME NEW w \in Worker, NEW e \in inbox, CountLikes(w, e)  PROVE IInv'
  BY <1>1, <1>8, CountStep
<1>9. ASSUME NEW w \in Worker, SyncLikeCount(w)  PROVE IInv'
  BY <1>1, <1>9, SyncStep
<1>10. ASSUME NEW e \in inbox, DeadLetter(e)  PROVE IInv'
  BY <1>1, <1>10, DeadLetterStep
<1>11. CASE DeleteRow \/ PublishDeleted \/ DeleteByTarget \/ DeleteTargetSet \/ DropDeleted
  BY <1>1, <1>11, StageStep
<1>12. CASE Restart
  BY <1>1, <1>12, RestartStep
<1>13. CASE UNCHANGED vars
  <2>1. Carried' = Carried
    BY <1>13 DEF vars, Carried, Publishing, Switched
  <2>2. QED
    BY <1>1, <1>13, <2>1, QuietStep DEF vars, Unmoved
<1>14. QED
  BY <1>2, <1>3, <1>4, <1>5, <1>6, <1>7, <1>8, <1>9, <1>10, <1>11, <1>12, <1>13 DEF Next

LEMMA Invariance == Spec => []IInv
  BY InvInit, InvNext, PTL DEF Spec

LEMMA Settled == IInv => RowsFollowSet /\ CountFollowsSet /\ CleanupIsComplete
<1> SUFFICES ASSUME IInv PROVE RowsFollowSet /\ CountFollowsSet /\ CleanupIsComplete
  OBVIOUS
<1>1. TypeOK
  BY DEF IInv
<1>2. RowsFollowSet
  <2> SUFFICES ASSUME NEW u \in User, group = "like", Kept, RowSettled(u), rowCause[u] = {}
               PROVE  u \in rows <=> u \in members
    BY DEF RowsFollowSet
  <2>1. \A e \in Carried : e.u # u
    BY DEF RowSettled, Carried, Switched
  <2>2. QED
    BY <2>1 DEF IInv, RowInv
<1>3. CountFollowsSet
  BY DEF CountFollowsSet, CountSettled, IInv, CountInv, Carried
<1>4. CleanupIsComplete
  BY DEF CleanupIsComplete, IInv, CleanInv, Cleaned
<1>5. QED
  BY <1>2, <1>3, <1>4

\* The rows of user_like agree with the Redis set wherever the switches of a user
\* are settled and nothing recorded went wrong since the last of them.
THEOREM RowsFollow == Spec => []RowsFollowSet
  BY Invariance, Settled, PTL

\* The stored count is the size of the set under the same conditions.
THEOREM CountFollows == Spec => []CountFollowsSet
  BY Invariance, Settled, PTL

\* The cleanup of a deleted target leaves late likes only.
THEOREM CleanupComplete == Spec => []CleanupIsComplete
  BY Invariance, Settled, PTL
=============================================================================
