----------------------------- MODULE PagesProofs -----------------------------
(***************************************************************************)
(* Proofs about the lists that are read page by page, for any number of    *)
(* items and authors, any page size, any number of extra candidates and    *)
(* any bound on what happens in between.                                   *)
(*                                                                         *)
(* A list is sorted by a strict total order on keys, and a page is what    *)
(* comes first of what a query finds (FirstIsFirst).  So whatever a page   *)
(* does not take comes after all of it, and the next page, which starts    *)
(* after the last item of this one (SomeLast), can still take it.          *)
(*                                                                         *)
(* The follow feed needs more: its page is the cut of several ranges.  An  *)
(* item that was there all the time is in a ZSET the request reads         *)
(* (KeysInv), and its range took it or took Count others (PickInv); if     *)
(* enough of these can be shown, they push whatever comes after the item   *)
(* off the page (CrowdedOut), so the cursor does not pass it.              *)
(***************************************************************************)
EXTENDS Pages, FiniteSetTheorems, WellFoundedInduction, TLAPS

-----------------------------------------------------------------------------
(* The order of a list *)

Sorted == list \in List /\ at \in [Item -> 1 .. MaxTime]
Pair == Nat \X Nat

LEMMA AfterIsOrder ==
    /\ \A a \in Pair : ~After(a, a)
    /\ \A a, b, c \in Pair : After(a, b) /\ After(b, c) => After(a, c)
    /\ \A a, b, c \in Pair : After(a, b) /\ ~After(c, b) => ~After(c, a)
  BY DEF After, Pair

LEMMA KeyType ==
    ASSUME Sorted, NEW i \in Item
    PROVE  /\ Key(i) \in Pair /\ Key(i)[2] = i /\ i \in Nat
           /\ Key(i)[1] \in Nat /\ at[i] \in Nat
           /\ list = "following" => Key(i)[1] = 0
           /\ list # "following" => Key(i)[1] = at[i]
           /\ Key(i)[1] \in 0 .. MaxTime
  BY ItemAssumption, BoundAssumption DEF Sorted, Key, Pair

LEMMA KeysDiffer ==
    ASSUME Sorted
    PROVE  \A i, j \in Item : i # j => After(Key(i), Key(j)) \/ After(Key(j), Key(i))
<1> SUFFICES ASSUME NEW i \in Item, NEW j \in Item, i # j
             PROVE  After(Key(i), Key(j)) \/ After(Key(j), Key(i))
  OBVIOUS
<1>1. PICK a \in Pair : a = Key(i) /\ a[2] = i
  BY KeyType
<1>2. PICK b \in Pair : b = Key(j) /\ b[2] = j
  BY KeyType
<1>3. After(a, b) \/ After(b, a)
  BY <1>1, <1>2 DEF After, Pair
<1>4. QED
  BY <1>1, <1>2, <1>3

LEMMA KeysInOrder ==
    ASSUME Sorted
    PROVE  /\ \A i \in Item : ~After(Key(i), Key(i))
           /\ \A i, j, k \in Item : After(Key(i), Key(j)) /\ After(Key(j), Key(k)) => After(Key(i), Key(k))
  BY KeyType, AfterIsOrder

\* A set of items has a first and a last one.
Before(i, S) == {j \in S : After(Key(j), Key(i))}
Behind(i, S) == {j \in S : After(Key(i), Key(j))}

LEMMA SomeMinimal ==
    ASSUME NEW U, U # {}, U \subseteq SUBSET Item
    PROVE  \E X \in U : \A Y \in U : Y \subseteq X => Y = X
<1>1. IsWellFoundedOn(StrictSubsetOrdering(Item), SUBSET Item)
  <2>1. FiniteSubsetsOf(Item) = SUBSET Item
    BY ItemAssumption, FS_FiniteSubsetsOfFinite
  <2>2. IsWellFoundedOn(StrictSubsetOrdering(Item), FiniteSubsetsOf(Item))
    BY FS_StrictSubsetOrderingWellFounded
  <2>3. QED
    BY <2>1, <2>2
<1>2. PICK X \in U : \A Y \in U : ~ (<<Y, X>> \in StrictSubsetOrdering(Item))
  BY <1>1, WFMin
<1>3. QED
  BY <1>2 DEF StrictSubsetOrdering

LEMMA SomeFirst ==
    ASSUME Sorted, NEW S \in SUBSET Item, S # {}
    PROVE  \E i \in S : Before(i, S) = {}
<1>1. PICK i \in S : \A j \in S : Before(j, S) \subseteq Before(i, S) => Before(j, S) = Before(i, S)
  <2> DEFINE U == {Before(x, S) : x \in S}
  <2>1. U # {} /\ U \subseteq SUBSET Item
    BY DEF Before
  <2> HIDE DEF U
  <2>2. PICK X \in U : \A Y \in U : Y \subseteq X => Y = X
    BY <2>1, SomeMinimal
  <2> USE DEF U
  <2>3. QED
    BY <2>2
<1>2. ASSUME NEW j \in Before(i, S)  PROVE FALSE
  <2>1. Before(j, S) \subseteq Before(i, S)
    BY KeysInOrder DEF Before
  <2>2. j \notin Before(j, S)
    BY KeysInOrder DEF Before
  <2>3. j \in S
    BY DEF Before
  <2>4. QED
    BY <1>1, <2>1, <2>2, <2>3
<1>3. QED
  BY <1>2

LEMMA SomeLast ==
    ASSUME Sorted, NEW S \in SUBSET Item, S # {}
    PROVE  \E i \in S : \A j \in S \ {i} : After(Key(j), Key(i))
<1>1. PICK i \in S : \A j \in S : Behind(j, S) \subseteq Behind(i, S) => Behind(j, S) = Behind(i, S)
  <2> DEFINE U == {Behind(x, S) : x \in S}
  <2>1. U # {} /\ U \subseteq SUBSET Item
    BY DEF Behind
  <2> HIDE DEF U
  <2>2. PICK X \in U : \A Y \in U : Y \subseteq X => Y = X
    BY <2>1, SomeMinimal
  <2> USE DEF U
  <2>3. QED
    BY <2>2
<1>2. ASSUME NEW j \in Behind(i, S)  PROVE FALSE
  <2>1. Behind(j, S) \subseteq Behind(i, S)
    BY KeysInOrder DEF Behind
  <2>2. j \notin Behind(j, S)
    BY KeysInOrder DEF Behind
  <2>3. j \in S
    BY DEF Behind
  <2>4. QED
    BY <1>1, <2>1, <2>2, <2>3
<1>3. QED
  BY <1>2, KeysDiffer DEF Behind

-----------------------------------------------------------------------------
(* The cut *)

LEMMA ItemSets ==
    ASSUME NEW S \in SUBSET Item
    PROVE  /\ IsFiniteSet(S) /\ Cardinality(S) \in Nat
           /\ \A T \in SUBSET S : IsFiniteSet(T) /\ Cardinality(T) \in Nat /\ Cardinality(T) <= Cardinality(S)
  BY ItemAssumption, FS_Subset, FS_CardinalityType

\* First(n, S) is S up to some item, and it has n items if it is not all of S.
LEMMA FirstCuts ==
    ASSUME Sorted, NEW n \in Nat, NEW S \in SUBSET Item
    PROVE  /\ First(n, S) \subseteq S
           /\ \A i \in First(n, S) : Cardinality(Before(i, S)) < n
           /\ \A i \in S \ First(n, S) : n <= Cardinality(Before(i, S))
<1>1. \A i \in S : Before(i, S) \in SUBSET S
  BY DEF Before
<1>2. \A i \in S : Cardinality(Before(i, S)) \in Nat
  BY <1>1, ItemSets
<1>3. First(n, S) = {i \in S : Cardinality(Before(i, S)) < n}
  BY DEF First, Before
<1>4. QED
  BY <1>2, <1>3

LEMMA FirstIsFirst ==
    ASSUME Sorted, NEW n \in Nat, NEW S \in SUBSET Item, NEW i \in S \ First(n, S)
    PROVE  /\ \A x \in First(n, S) : After(Key(x), Key(i))
           /\ n < Cardinality(S)
<1>1. ASSUME NEW x \in First(n, S), ~After(Key(x), Key(i))  PROVE FALSE
  <2>1. x \in S /\ x # i /\ Cardinality(Before(x, S)) < n /\ n <= Cardinality(Before(i, S))
    BY FirstCuts
  <2>2. After(Key(i), Key(x))
    BY <1>1, <2>1, KeysDiffer
  <2>3. Before(i, S) \subseteq Before(x, S) /\ Before(x, S) \in SUBSET Item
    BY <2>1, <2>2, KeysInOrder DEF Before
  <2>4. Cardinality(Before(i, S)) <= Cardinality(Before(x, S)) /\ Cardinality(Before(x, S)) \in Nat
        /\ Cardinality(Before(i, S)) \in Nat
    BY <2>3, ItemSets
  <2>5. QED
    BY <2>1, <2>4
<1>2. n < Cardinality(S)
  <2>1. n <= Cardinality(Before(i, S))
    BY FirstCuts
  <2>2. Before(i, S) \in SUBSET S /\ i \in S /\ i \notin Before(i, S)
    BY KeysInOrder DEF Before
  <2>3. Before(i, S) # S /\ IsFiniteSet(S) /\ Cardinality(S) \in Nat /\ Cardinality(Before(i, S)) \in Nat
    BY <2>2, ItemSets
  <2>4. Cardinality(Before(i, S)) <= Cardinality(S) /\ Cardinality(Before(i, S)) # Cardinality(S)
    BY <2>2, <2>3, FS_Subset
  <2>5. QED
    BY <2>1, <2>3, <2>4
<1>3. QED
  BY <1>1, <1>2

LEMMA FirstNotEmpty ==
    ASSUME Sorted, NEW n \in Nat \ {0}, NEW S \in SUBSET Item, S # {}
    PROVE  First(n, S) # {}
<1>1. PICK i \in S : Before(i, S) = {}
  BY SomeFirst
<1>2. Cardinality(Before(i, S)) < n
  BY <1>1, FS_EmptySet
<1>3. QED
  BY <1>2 DEF First, Before

LEMMA FirstIsBounded ==
    ASSUME Sorted, NEW n \in Nat, NEW S \in SUBSET Item
    PROVE  Cardinality(First(n, S)) <= n
<1> DEFINE F == First(n, S)
<1>0. F \in SUBSET S /\ F \in SUBSET Item /\ IsFiniteSet(F) /\ Cardinality(F) \in Nat
  BY FirstCuts, ItemSets
<1>1. CASE F = {}
  BY <1>1, FS_EmptySet
<1>2. CASE F # {}
  <2>1. PICK x \in F : \A y \in F \ {x} : After(Key(y), Key(x))
    BY <1>0, <1>2, SomeLast
  <2>2. F \ {x} \in SUBSET Before(x, S) /\ Before(x, S) \in SUBSET Item
    BY <1>0, <2>1 DEF Before
  <2>3. Cardinality(Before(x, S)) < n
    BY FirstCuts
  <2>4. Cardinality(F \ {x}) <= Cardinality(Before(x, S)) /\ Cardinality(Before(x, S)) \in Nat
        /\ Cardinality(F \ {x}) = Cardinality(F) - 1
    BY <1>0, <2>2, ItemSets, FS_RemoveElement
  <2>5. QED
    BY <1>0, <2>3, <2>4
<1>3. QED
  BY <1>1, <1>2

\* What ZREVRANGE takes, or a ZSET keeps, of S.
LEMMA HeadsAreHigh ==
    ASSUME NEW n \in Nat, NEW S \in SUBSET Item, NEW T \in Heads(n, S)
    PROVE  /\ T \in SUBSET S /\ Cardinality(T) <= n
           /\ \A i \in S \ T : Cardinality(T) = n /\ \A j \in T : at[j] >= at[i]
<1>1. /\ T \in SUBSET S /\ Cardinality(T) = IF Cardinality(S) < n THEN Cardinality(S) ELSE n
      /\ \A i \in T, j \in S \ T : at[i] >= at[j]
  BY DEF Heads
<1>2. IsFiniteSet(S) /\ Cardinality(S) \in Nat /\ (Cardinality(T) = Cardinality(S) => T = S)
  BY <1>1, ItemSets, FS_Subset
<1>3. Cardinality(T) <= n
  BY <1>1, <1>2
<1>4. \A i \in S \ T : Cardinality(T) = n
  BY <1>1, <1>2
<1>5. QED
  BY <1>1, <1>3, <1>4

-----------------------------------------------------------------------------
(* The invariant *)

\* The request for a page of the follow feed.
Request ==
    {Idle}
    \union [pc : {"keys", "table"}, f : SUBSET Author]
    \union [pc : {"range"}, f : SUBSET Author, keys : SUBSET ZSet]
    \union [pc : {"rows"}, f : SUBSET Author, pick : UNION {[K -> SUBSET Item] : K \in SUBSET ZSet}]

TableTypes ==
    /\ list \in List /\ at \in [Item -> 1 .. MaxTime] /\ by \in [Item -> Author]
    /\ last \in Nat /\ rows \in SUBSET Item /\ hidden \in SUBSET rows
    /\ changes \in 0 .. MaxChange[list]
IndexTypes ==
    /\ follows \in SUBSET Author /\ zset \in [ZSet -> SUBSET Item]
    /\ \A z \in ZSet : Cardinality(zset[z]) <= MaxLen
    /\ \A a \in Author : \A i \in zset[a] : by[i] = a
ReaderTypes ==
    /\ request \in Request
    /\ cursor = <<>> \/ cursor \in (0 .. MaxTime) \X Item
    /\ ended \in BOOLEAN /\ shown \in SUBSET Item /\ moved \in SUBSET shown
    /\ window \in [open : SUBSET Item, wanted : SUBSET Author]
    /\ stay \in SUBSET (ZSet \X Item) /\ excused \in SUBSET Item
PageTypes == TableTypes /\ IndexTypes /\ ReaderTypes

\* The cursor is the place of an item that was shown, and none of those shown
\* comes after it, unless it moved.
CursorInv ==
    /\ cursor = <<>> => shown = {}
    /\ cursor # <<>> => cursor[2] \in shown /\ (list = "following" => cursor[1] = 0)
    /\ \A i \in shown \ moved : ~After(cursor, Key(i))

\* What is watched is where it was, and not shown.
StayInv == \A p \in stay : p \in Standing /\ p[2] \notin shown

\* A request knows of no more authors than were followed since it came, and of
\* all those that still are.
RequestInv ==
    request # Idle =>
        /\ list = "follow" /\ ~ended
        /\ Visible \subseteq window.open
        /\ follows \subseteq window.wanted /\ request.f \subseteq window.wanted
        /\ \A p \in stay : by[p[2]] \in request.f

\* It reads every ZSET that an item watched is in, and took the item from it, or
\* as many others as it takes, none with a lower score.
KeysInv == request.pc = "range" => \A p \in stay : p[1] \in request.keys
PickInv ==
    request.pc = "rows" => \A p \in stay :
        /\ p[1] \in DOMAIN request.pick
        /\ \/ p[2] \in excused
           \/ p[2] \in request.pick[p[1]]
           \/ /\ Cardinality(request.pick[p[1]]) = Count
              /\ \A j \in request.pick[p[1]] : at[j] >= at[p[2]]

PageInv ==
    /\ PageTypes /\ CursorInv /\ StayInv /\ RequestInv /\ KeysInv /\ PickInv
    /\ NothingSkipped

-----------------------------------------------------------------------------
(* What happens to a list *)

LEMMA Sets == Sorted => (\A i \in Item : Key(i) \in Pair) /\ Visible \subseteq rows
  BY KeyType DEF Visible

LEMMA RequestFields ==
    ASSUME request \in Request
    PROVE  /\ request.pc \in {"idle", "keys", "range", "rows", "table"}
           /\ request.pc = "idle" <=> request = Idle
           /\ request # Idle => request.f \in SUBSET Author
           /\ request.pc = "range" => request \in [pc : {"range"}, f : SUBSET Author, keys : SUBSET ZSet]
           /\ request.pc = "rows" => /\ DOMAIN request.pick \in SUBSET ZSet
                                     /\ request.pick \in [DOMAIN request.pick -> SUBSET Item]
<1>1. CASE request = Idle
  BY <1>1 DEF Idle
<1>2. CASE request \in [pc : {"keys", "table"}, f : SUBSET Author]
  BY <1>2 DEF Idle
<1>3. CASE request \in [pc : {"range"}, f : SUBSET Author, keys : SUBSET ZSet]
  BY <1>3 DEF Idle
<1>4. CASE request \in [pc : {"rows"}, f : SUBSET Author,
                        pick : UNION {[K -> SUBSET Item] : K \in SUBSET ZSet}]
  <2>1. request.pc = "rows" /\ request.f \in SUBSET Author /\ request # Idle
    BY <1>4 DEF Idle
  <2>2. PICK K \in SUBSET ZSet : request.pick \in [K -> SUBSET Item]
    BY <1>4
  <2>3. QED
    BY <2>1, <2>2 DEF Idle
<1>5. QED
  BY <1>1, <1>2, <1>3, <1>4 DEF Request

LEMMA ZSets ==
    /\ Author \subseteq ZSet /\ Inbox \in ZSet /\ Inbox \notin Author
    /\ ZSet \subseteq Author \union {Inbox}
  BY AuthorAssumption DEF ZSet, Inbox

LEMMA TypesInit == Init => PageTypes
<1> SUFFICES ASSUME Init PROVE PageTypes
  OBVIOUS
<1>0. list \in List /\ at \in [Item -> 1 .. MaxTime] /\ Sorted
  BY DEF Init, Times, Sorted
<1>1. SomeAuthor \in Author
  BY AuthorAssumption DEF SomeAuthor
<1>2. last \in Nat /\ changes \in 0 .. MaxChange[list]
  BY <1>0, ItemAssumption, BoundAssumption, ItemSets DEF Init
<1>3. CASE list = "follow"
  <2>1. rows = Item /\ by \in [Item -> Author] /\ follows = Author
    BY <1>3 DEF Init, InitFollowFeed
  <2>2. hidden \in SUBSET rows
    BY <1>3 DEF Init, InitFollowFeed, First
  <2>3. PICK big \in SUBSET Author : zset = Indexed(big)
    BY <1>3 DEF Init, InitFollowFeed
  <2>4. ASSUME NEW z \in ZSet
        PROVE  \/ zset[z] = First(MaxLen, {i \in rows : by[i] \notin big}) /\ z = Inbox
               \/ zset[z] = First(MaxLen, {i \in rows : by[i] = z})
               \/ zset[z] = {}
    BY <2>3, ZSets DEF Indexed
  <2>5. ASSUME NEW z \in ZSet
        PROVE  /\ zset[z] \in SUBSET Item /\ Cardinality(zset[z]) <= MaxLen
               /\ z \in Author => \A i \in zset[z] : by[i] = z
    <3>1. ASSUME NEW X \in SUBSET Item
          PROVE  First(MaxLen, X) \in SUBSET X /\ Cardinality(First(MaxLen, X)) <= MaxLen
      BY <1>0, FirstCuts, FirstIsBounded, PageAssumption
    <3>2. CASE zset[z] = First(MaxLen, {i \in rows : by[i] \notin big}) /\ z = Inbox
      BY <2>1, <3>1, <3>2, ZSets
    <3>3. CASE zset[z] = First(MaxLen, {i \in rows : by[i] = z})
      <4>1. zset[z] \in SUBSET {i \in rows : by[i] = z} /\ Cardinality(zset[z]) <= MaxLen
        BY <2>1, <3>1, <3>3
      <4>2. QED
        BY <2>1, <4>1
    <3>4. CASE zset[z] = {}
      BY <3>4, FS_EmptySet, PageAssumption
    <3>5. QED
      BY <2>4, <3>2, <3>3, <3>4
  <2>6. zset \in [ZSet -> SUBSET Item]
    <3>1. zset = [z \in ZSet |-> zset[z]]
      BY <2>3 DEF Indexed
    <3>2. QED
      BY <2>5, <3>1
  <2>7. TableTypes /\ IndexTypes
    BY <1>0, <1>2, <2>1, <2>2, <2>5, <2>6, ZSets DEF TableTypes, IndexTypes
  <2>8. ReaderTypes
    BY DEF Init, ReaderTypes, Request, Standing
  <2>9. QED
    BY <2>7, <2>8 DEF PageTypes
<1>4. CASE list # "follow"
  <2>1. /\ rows \in SUBSET Item /\ hidden \in SUBSET rows /\ by \in [Item -> Author]
        /\ follows = {} /\ zset = [z \in ZSet |-> {}]
    BY <1>1, <1>4 DEF Init, InitTable
  <2>2. IndexTypes
    BY <2>1, ZSets, FS_EmptySet, PageAssumption DEF IndexTypes
  <2>3. TableTypes
    BY <1>0, <1>2, <2>1 DEF TableTypes
  <2>4. ReaderTypes
    BY DEF Init, ReaderTypes, Request, Standing
  <2>5. QED
    BY <2>2, <2>3, <2>4 DEF PageTypes
<1>5. QED
  BY <1>3, <1>4

LEMMA PageInit == Init => PageInv
<1> SUFFICES ASSUME Init PROVE PageInv
  OBVIOUS
<1>1. request.pc = "idle" /\ request = Idle /\ shown = {} /\ cursor = <<>> /\ ended = FALSE /\ stay = Standing
  BY DEF Init, Idle
<1>2. PageTypes
  BY TypesInit
<1>3. CursorInv /\ StayInv /\ RequestInv /\ KeysInv /\ PickInv /\ NothingSkipped
  BY <1>1 DEF CursorInv, StayInv, RequestInv, KeysInv, PickInv, NothingSkipped
<1>4. QED
  BY <1>2, <1>3 DEF PageInv

\* The steps of all but the reader.
Changes ==
    \/ Insert
    \/ \E i \in Item : SwitchStatus(i) \/ Delete(i) \/ Move(i) \/ PushInboxItems(i) \/ PushOutboxItem(i)
    \/ \E a \in Author : SetFollow(a) \/ PushInboxItemsForFollower(a)
    \/ \E z \in ZSet : Expire(z)

LEMMA NextSteps == Next => Changes \/ Read
  BY DEF Next, Changes

LEMMA ChangeFrame ==
    ASSUME Changes
    PROVE  /\ UNCHANGED <<list, by, request, cursor, ended, shown, excused>>
           /\ changes < MaxChange[list] /\ changes' = changes + 1
           /\ \E still : Watched(still)
  BY DEF Changes, Insert, SwitchStatus, Delete, Move, PushInboxItems, PushOutboxItem, SetFollow,
         PushInboxItemsForFollower, Expire, Push, Happens, scroll

LEMMA ChangedKeys ==
    ASSUME PageTypes, Changes
    PROVE  /\ at' \in [Item -> 1 .. MaxTime]
           /\ moved' = moved \union {i \in shown : Key(i)' # Key(i)}
           /\ \A p \in stay' : Key(p[2])' = Key(p[2]) /\ at'[p[2]] = at[p[2]]
           /\ list # "messages" => at' = at
<1>0. /\ at \in [Item -> 1 .. MaxTime] /\ shown \in SUBSET Item /\ stay \in SUBSET (ZSet \X Item)
      /\ list' = list
  BY ChangeFrame DEF PageTypes, TableTypes, ReaderTypes
<1>1. ASSUME NEW i \in Item, Move(i)
      PROVE  /\ at' \in [Item -> 1 .. MaxTime]
             /\ moved' = moved \union {j \in shown : Key(j)' # Key(j)}
             /\ \A p \in stay' : Key(p[2])' = Key(p[2]) /\ at'[p[2]] = at[p[2]]
             /\ list # "messages" => at' = at
  <2>1. PICK t \in 1 .. MaxTime : t # at[i] /\ at' = [at EXCEPT ![i] = t]
    BY <1>1 DEF Move
  <2>2. list = "messages" /\ moved' = moved \union ({i} \intersect shown)
    BY <1>1 DEF Move
  <2>3. \A j \in Item : IF j = i THEN Key(j)' # Key(j) ELSE Key(j)' = Key(j) /\ at'[j] = at[j]
    BY <1>0, <2>1, <2>2 DEF Key
  <2>4. \A p \in stay' : p[2] \in Item /\ p[2] # i
    BY <1>0, <1>1 DEF Move, Watched
  <2>5. moved' = moved \union {j \in shown : Key(j)' # Key(j)}
    BY <1>0, <2>2, <2>3
  <2>6. QED
    BY <1>0, <2>1, <2>2, <2>3, <2>4, <2>5
<1>2. CASE ~\E i \in Item : Move(i)
  <2>1. at' = at /\ moved' = moved
    BY <1>2 DEF Changes, Insert, SwitchStatus, Delete, PushInboxItems, PushOutboxItem, SetFollow,
                PushInboxItemsForFollower, Expire, Push
  <2>2. \A j : Key(j)' = Key(j)
    BY <1>0, <2>1 DEF Key
  <2>3. QED
    BY <1>0, <2>1, <2>2
<1>3. QED
  BY <1>1, <1>2

LEMMA TableTypesChange == PageTypes /\ Changes => TableTypes'
<1> SUFFICES ASSUME PageTypes, Changes PROVE TableTypes'
  OBVIOUS
<1> USE DEF PageTypes, TableTypes
<1>1. /\ list' \in List /\ by' \in [Item -> Author] /\ at' \in [Item -> 1 .. MaxTime]
      /\ changes' \in 0 .. MaxChange[list]'
  BY ChangeFrame, ChangedKeys, BoundAssumption
<1>2. CASE Insert
  BY <1>1, <1>2, ItemAssumption DEF Insert
<1>3. ASSUME NEW i \in Item, SwitchStatus(i) \/ Delete(i)  PROVE TableTypes'
  BY <1>1, <1>3 DEF SwitchStatus, Delete
<1>4. CASE UNCHANGED <<last, rows, hidden>>
  BY <1>1, <1>4
<1>5. QED
  BY <1>2, <1>3, <1>4 DEF Changes, Move, PushInboxItems, PushOutboxItem, SetFollow,
                          PushInboxItemsForFollower, Expire, Push, table

LEMMA Pushed ==
    ASSUME PageTypes, NEW z \in ZSet, NEW new \in SUBSET Item, Push(z, new),
           z \in Author => \A i \in new : by[i] = z
    PROVE  IndexTypes'
<1> USE DEF PageTypes, IndexTypes
<1>1. PICK kept \in Heads(MaxLen, zset[z] \union new) : zset' = [zset EXCEPT ![z] = kept]
  BY DEF Push, Kept
<1>2. kept \in SUBSET (zset[z] \union new) /\ Cardinality(kept) <= MaxLen
  <2>1. zset[z] \union new \in SUBSET Item /\ MaxLen \in Nat
    BY PageAssumption
  <2>2. QED
    BY <2>1, HeadsAreHigh
<1>3. UNCHANGED <<by, follows>>
  BY DEF Push, Happens
<1>4. kept \in SUBSET Item
  BY <1>2
<1>5. zset' \in [ZSet -> SUBSET Item]
  BY <1>1, <1>4
<1>6. \A x \in ZSet : Cardinality(zset'[x]) <= MaxLen
  BY <1>1, <1>2
<1>7. \A a \in Author : \A i \in zset'[a] : by[i] = a
  BY <1>1, <1>2, ZSets
<1>8. QED
  BY <1>3, <1>5, <1>6, <1>7

LEMMA IndexTypesChange == PageTypes /\ Changes => IndexTypes'
<1> SUFFICES ASSUME PageTypes, Changes PROVE IndexTypes'
  OBVIOUS
<1> USE DEF PageTypes, IndexTypes
<1>1. ASSUME NEW i \in Item, PushInboxItems(i) \/ PushOutboxItem(i)  PROVE IndexTypes'
  <2>1. by[i] \in Author /\ by[i] \in ZSet /\ {i} \in SUBSET Item
    BY ZSets DEF TableTypes
  <2>2. CASE PushInboxItems(i)
    BY <2>1, <2>2, Pushed, ZSets DEF PushInboxItems
  <2>3. CASE PushOutboxItem(i)
    BY <2>1, <2>3, Pushed DEF PushOutboxItem
  <2>4. QED
    BY <1>1, <2>2, <2>3
<1>2. ASSUME NEW a \in Author, PushInboxItemsForFollower(a)  PROVE IndexTypes'
  <2>1. {i \in rows \ hidden : by[i] = a} \in SUBSET Item
    BY DEF TableTypes
  <2>2. QED
    BY <1>2, <2>1, Pushed, ZSets DEF PushInboxItemsForFollower
<1>3. ASSUME NEW a \in Author, SetFollow(a)  PROVE IndexTypes'
  BY <1>3 DEF SetFollow, Happens
<1>4. ASSUME NEW z \in ZSet, Expire(z)  PROVE IndexTypes'
  <2>1. zset' = [zset EXCEPT ![z] = {}] /\ UNCHANGED <<by, follows>>
    BY <1>4 DEF Expire, Happens
  <2>2. \A x \in ZSet : zset'[x] = {} \/ zset'[x] = zset[x]
    BY <2>1
  <2>3. \A x \in ZSet : Cardinality(zset'[x]) <= MaxLen
    BY <2>2, FS_EmptySet, PageAssumption
  <2>4. \A a \in Author : \A i \in zset'[a] : by[i] = a
    BY <2>2, ZSets
  <2>5. zset' \in [ZSet -> SUBSET Item]
    BY <2>1
  <2>6. QED
    BY <2>1, <2>3, <2>4, <2>5
<1>5. CASE UNCHANGED <<by, follows, zset>>
  BY <1>5
<1>6. QED
  BY <1>1, <1>2, <1>3, <1>4, <1>5, ChangeFrame DEF Changes, Insert, SwitchStatus, Delete, Move, index

LEMMA ChangeNext == PageInv /\ Changes => PageInv'
<1> SUFFICES ASSUME PageInv, Changes PROVE PageInv'
  OBVIOUS
<1> USE DEF PageInv
<1>1. TableTypes' /\ IndexTypes'
  BY TableTypesChange, IndexTypesChange
<1>2. /\ UNCHANGED <<list, by, request, cursor, ended, shown, excused>>
      /\ moved' = moved \union {i \in shown : Key(i)' # Key(i)}
      /\ \A p \in stay' : Key(p[2])' = Key(p[2]) /\ at'[p[2]] = at[p[2]]
      /\ list # "messages" => at' = at
  BY ChangeFrame, ChangedKeys
<1>3. /\ stay' \subseteq stay /\ stay' \subseteq Standing'
      /\ window' = IF request = Idle THEN window
                   ELSE [open |-> window.open \union Visible', wanted |-> window.wanted \union follows']
  BY ChangeFrame DEF Watched
<1>4. ReaderTypes'
  <2>1. Visible' \in SUBSET Item /\ follows' \in SUBSET Author
    BY <1>1 DEF TableTypes, IndexTypes, Visible
  <2>2. window' \in [open : SUBSET Item, wanted : SUBSET Author]
    BY <1>3, <2>1 DEF PageTypes, ReaderTypes
  <2>3. moved' \in SUBSET shown'
    BY <1>2 DEF PageTypes, ReaderTypes
  <2>4. stay' \in SUBSET (ZSet \X Item)
    BY <1>3 DEF PageTypes, ReaderTypes
  <2>5. QED
    BY <1>2, <2>2, <2>3, <2>4 DEF PageTypes, ReaderTypes
<1>5. CursorInv'
  BY <1>2 DEF CursorInv
<1>6. StayInv'
  BY <1>2, <1>3 DEF StayInv
<1>7. RequestInv'
  <2> SUFFICES ASSUME request # Idle
               PROVE  /\ list = "follow" /\ ~ended
                      /\ Visible' \subseteq window'.open
                      /\ follows' \subseteq window'.wanted /\ request.f \subseteq window'.wanted
                      /\ \A p \in stay' : by[p[2]] \in request.f
    BY <1>2 DEF RequestInv
  <2>1. /\ list = "follow" /\ ~ended /\ request.f \subseteq window.wanted
        /\ \A p \in stay : by[p[2]] \in request.f
    BY DEF RequestInv
  <2>2. window' = [open |-> window.open \union Visible', wanted |-> window.wanted \union follows']
    BY <1>3
  <2>3. QED
    BY <1>3, <2>1, <2>2
<1>8. KeysInv'
  BY <1>2, <1>3 DEF KeysInv
<1>9. PickInv'
  <2> SUFFICES ASSUME request.pc = "rows", NEW p \in stay'
               PROVE  /\ p[1] \in DOMAIN request.pick
                      /\ \/ p[2] \in excused
                         \/ p[2] \in request.pick[p[1]]
                         \/ /\ Cardinality(request.pick[p[1]]) = Count
                            /\ \A j \in request.pick[p[1]] : at'[j] >= at'[p[2]]
    BY <1>2 DEF PickInv, Count
  <2>1. at' = at
    <3>1. request # Idle
      BY DEF Idle
    <3>2. QED
      BY <1>2, <3>1 DEF RequestInv
  <2>2. p \in stay
    BY <1>3
  <2>3. QED
    BY <2>1, <2>2 DEF PickInv
<1>10. NothingSkipped'
  <2>1. ASSUME NEW p \in stay', p[2] \notin excused
        PROVE  ~ended /\ (cursor = <<>> \/ After(cursor, Key(p[2]))')
    <3>1. p \in stay /\ Key(p[2])' = Key(p[2]) /\ cursor' = cursor
      BY <1>2, <1>3
    <3>2. ~ended /\ (cursor = <<>> \/ After(cursor, Key(p[2])))
      BY <2>1, <3>1 DEF NothingSkipped
    <3>3. QED
      BY <3>1, <3>2 DEF After
  <2>2. QED
    BY <1>2, <2>1 DEF NothingSkipped
<1>11. QED
  BY <1>1, <1>4, <1>5, <1>6, <1>7, <1>8, <1>9, <1>10 DEF PageTypes

-----------------------------------------------------------------------------
(* A page *)

\* What a page may hold, and whom it may leave to a later page.
Fits(page) ==
    /\ page \in SUBSET Visible
    /\ page \subseteq Wanted(IF request = Idle THEN follows ELSE window.wanted)
    /\ \A i \in page : cursor = <<>> \/ After(cursor, Key(i))
Complete(page, more) ==
    \A p \in stay : \/ p[2] \in page
                    \/ p[2] \in excused'
                    \/ more /\ page # {} /\ \A i \in page : After(Key(i), Key(p[2]))

LEMMA Shown ==
    ASSUME PageInv, NEW page, NEW more \in BOOLEAN, Show(page, more), Fits(page)
    PROVE  /\ UNCHANGED <<list, at, by, last, rows, hidden, follows, zset, changes, Visible, Standing>>
           /\ \A i : Key(i)' = Key(i)
           /\ page \in SUBSET Item /\ Sorted
           /\ page \intersect shown \subseteq moved
           /\ \/ page = {} /\ cursor' = cursor
              \/ \E i \in page : /\ \A j \in page \ {i} : After(Key(j), Key(i))
                                 /\ cursor' = Key(i)
<1> USE DEF PageInv
<1>1. /\ UNCHANGED <<list, at, by, last, rows, hidden, follows, zset, changes>>
      /\ cursor' = IF page = {} THEN cursor ELSE LastKey(page)
  BY DEF Show, NoChange, table, index
<1>2. UNCHANGED <<Visible, Standing>> /\ \A i : Key(i)' = Key(i)
  BY <1>1 DEF Visible, Standing, Found, Key
<1>3. page \in SUBSET Item /\ Sorted
  BY DEF PageTypes, TableTypes, Visible, Fits, Sorted
<1>4. page \intersect shown \subseteq moved
  BY DEF CursorInv, Fits
<1>5. CASE page # {}
  <2>1. \E i \in page : \A j \in page \ {i} : After(Key(j), Key(i))
    BY <1>3, <1>5, SomeLast
  <2>2. PICK i \in page : i = CHOOSE x \in page : \A j \in page \ {x} : After(Key(j), Key(x))
    BY <2>1
  <2>3. (\A j \in page \ {i} : After(Key(j), Key(i))) /\ cursor' = Key(i)
    BY <1>1, <1>5, <2>1, <2>2 DEF LastKey
  <2>4. QED
    BY <1>1, <1>2, <1>3, <1>4, <2>3
<1>6. QED
  BY <1>1, <1>2, <1>3, <1>4, <1>5

LEMMA ShowNext ==
    ASSUME PageInv, NEW page, NEW more \in BOOLEAN, Show(page, more), Fits(page), Complete(page, more),
           excused \subseteq excused', excused' \in SUBSET Item
    PROVE  PageInv'
<1> USE DEF PageInv
<1>1. /\ UNCHANGED <<list, at, by, last, rows, hidden, follows, zset, changes, Visible, Standing>>
      /\ \A i : Key(i)' = Key(i)
      /\ page \in SUBSET Item /\ Sorted
      /\ \/ page = {} /\ cursor' = cursor
         \/ \E i \in page : /\ \A j \in page \ {i} : After(Key(j), Key(i))
                            /\ cursor' = Key(i)
  BY Shown
<1>2. /\ shown' = shown \union page /\ moved' = moved \ page
      /\ stay' = stay \ (ZSet \X page) /\ ended' = ~more
      /\ request' = Idle /\ window' = [open |-> {}, wanted |-> {}]
  BY DEF Show
<1>3. \A p \in stay' : p \in stay /\ p[2] \notin page
  BY <1>2 DEF PageTypes, ReaderTypes
<1>4. TableTypes' /\ IndexTypes'
  BY <1>1 DEF PageTypes, TableTypes, IndexTypes
<1>5. ReaderTypes'
  <2>1. cursor' = <<>> \/ cursor' \in (0 .. MaxTime) \X Item
    <3>1. CASE page = {} /\ cursor' = cursor
      BY <3>1 DEF PageTypes, ReaderTypes
    <3>2. ASSUME NEW i \in page, cursor' = Key(i)  PROVE cursor' \in (0 .. MaxTime) \X Item
      <4>1. i \in Item /\ Key(i)[1] \in 0 .. MaxTime /\ Key(i)[2] = i
        BY <1>1, <3>2, KeyType
      <4>2. Key(i) = <<Key(i)[1], Key(i)[2]>>
        BY DEF Key
      <4>3. QED
        BY <3>2, <4>1, <4>2
    <3>3. QED
      BY <1>1, <3>1, <3>2
  <2>2. ended' \in BOOLEAN /\ shown' \in SUBSET Item /\ moved' \in SUBSET shown'
    BY <1>1, <1>2 DEF PageTypes, ReaderTypes
  <2>3. stay' \in SUBSET (ZSet \X Item) /\ window' \in [open : SUBSET Item, wanted : SUBSET Author]
    BY <1>2 DEF PageTypes, ReaderTypes
  <2>4. QED
    BY <1>2, <2>1, <2>2, <2>3 DEF ReaderTypes, Request, Idle
<1>6. CursorInv'
  <2>1. CASE page = {} /\ cursor' = cursor
    BY <1>1, <1>2, <2>1 DEF CursorInv
  <2>2. ASSUME NEW x \in page, \A j \in page \ {x} : After(Key(j), Key(x)), cursor' = Key(x)
        PROVE  CursorInv'
    <3>1. PICK k \in Pair : k = Key(x) /\ k[2] = x /\ (list = "following" => k[1] = 0)
      BY <1>1, <2>2, KeyType
    <3>2. ASSUME NEW i \in page  PROVE ~After(k, Key(i))
      BY <1>1, <2>2, <3>1, <3>2, KeysInOrder
    <3>3. ASSUME NEW i \in shown \ moved  PROVE ~After(k, Key(i))
      <4>1. cursor # <<>> /\ ~After(cursor, Key(i)) /\ After(cursor, k) /\ i \in Item
        BY <3>1, <3>3 DEF CursorInv, Fits, PageTypes, ReaderTypes
      <4>2. PICK c \in Pair : c = cursor
        <5>1. cursor \in (0 .. MaxTime) \X Item /\ Item \subseteq Nat /\ 0 .. MaxTime \subseteq Nat
          BY <4>1, ItemAssumption, BoundAssumption DEF PageTypes, ReaderTypes
        <5>2. QED
          BY <5>1 DEF Pair
      <4>3. PICK y \in Pair : y = Key(i)
        BY <1>1, <4>1, KeyType
      <4>4. QED
        BY <4>1, <4>2, <4>3, AfterIsOrder
    <3>4. \A i \in shown' \ moved' : ~After(k, Key(i))
      BY <1>2, <3>2, <3>3
    <3>5. k # <<>>
      BY <3>1 DEF Pair
    <3>6. QED
      BY <1>1, <1>2, <2>2, <3>1, <3>4, <3>5 DEF CursorInv, After
  <2>3. QED
    BY <1>1, <2>1, <2>2
<1>7. StayInv'
  <2>1. \A p \in stay' : p \in Standing' /\ p[2] \notin shown'
    BY <1>1, <1>2, <1>3 DEF StayInv
  <2>2. QED
    BY <2>1 DEF StayInv
<1>8. RequestInv' /\ KeysInv' /\ PickInv'
  <2>1. request' = Idle /\ request'.pc = "idle"
    BY <1>2 DEF Idle
  <2>2. QED
    BY <2>1 DEF RequestInv, KeysInv, PickInv, Idle
<1>9. NothingSkipped'
  <2>1. ASSUME NEW p \in stay', p[2] \notin excused'
        PROVE  ~ended' /\ (cursor' = <<>> \/ After(cursor', Key(p[2])))
    <3>1. p \in stay /\ p[2] \notin page
      BY <1>3
    <3>2. more /\ page # {} /\ \A i \in page : After(Key(i), Key(p[2]))
      BY <2>1, <3>1 DEF Complete
    <3>3. QED
      BY <1>1, <1>2, <3>2
  <2>2. QED
    BY <1>1, <2>1 DEF NothingSkipped, After
<1>10. QED
  BY <1>4, <1>5, <1>6, <1>7, <1>8, <1>9 DEF PageTypes

LEMMA ShowAnswers ==
    ASSUME PageInv, NEW page, NEW more \in BOOLEAN, Show(page, more), Fits(page)
    PROVE  Promise!Answer
<1> USE DEF PageInv
<1>1. /\ UNCHANGED <<list, at, by, last, rows, hidden, follows, zset, changes, Visible, Standing>>
      /\ \A i : Key(i)' = Key(i)
      /\ page \in SUBSET Item /\ Sorted
      /\ page \intersect shown \subseteq moved
      /\ \/ page = {} /\ cursor' = cursor
         \/ \E i \in page : /\ \A j \in page \ {i} : After(Key(j), Key(i))
                            /\ cursor' = Key(i)
  BY Shown
<1>2. shown' = shown \union page /\ moved' = moved \ page /\ request' = Idle
  BY DEF Show
<1> DEFINE k == [i \in Item |-> Key(i)]
           w == IF request = Idle
                THEN [open |-> Visible, wanted |-> Wanted(follows)]
                ELSE [open |-> window.open, wanted |-> Wanted(window.wanted)]
<1>3. k' = k
  BY <1>1
<1>4. Wanted(follows)' = Wanted(follows)
  BY <1>1 DEF Wanted
<1>5. page \in SUBSET (w.open \intersect w.wanted)
  BY DEF Fits, RequestInv
<1>6. \A i \in page : cursor = <<>> \/ Promise!After(cursor, k[i])
  BY <1>1 DEF Fits, After, Promise!After
<1>7. \/ page = {} /\ cursor' = cursor
      \/ \E i \in page : /\ \A j \in page \ {i} : Promise!After(k[j], k[i])
                         /\ cursor' = k[i]
  BY <1>1 DEF After, Promise!After
<1>8. (request' # Idle) = FALSE
  BY <1>2
<1>9. w' = [open |-> Visible, wanted |-> Wanted(follows)]'
  BY <1>2 DEF Idle
<1>10. w' = Promise!Now
  BY <1>1, <1>4, <1>9 DEF Promise!Now
<1>11. UNCHANGED <<k, Visible, Wanted(follows)>>
  BY <1>1, <1>3, <1>4
<1>12. QED
  BY <1>1, <1>2, <1>5, <1>6, <1>7, <1>8, <1>10, <1>11 DEF Promise!Answer

-----------------------------------------------------------------------------
(* Lists that are one query *)

LEMMA CountedCut ==
    ASSUME Sorted, NEW T \in SUBSET Item, NEW i \in T, i \notin First(Limit, First(Limit + 1, T))
    PROVE  /\ Limit < Cardinality(T) /\ First(Limit, First(Limit + 1, T)) # {}
           /\ \A x \in First(Limit, First(Limit + 1, T)) : After(Key(x), Key(i))
<1> DEFINE F == First(Limit + 1, T)
<1>0. Limit \in Nat \ {0} /\ Limit + 1 \in Nat \ {0} /\ Limit \in Nat /\ Limit + 1 \in Nat
  BY PageAssumption
<1>1. F \in SUBSET T /\ F \in SUBSET Item
  BY <1>0, FirstCuts
<1>2. F # {}
  BY <1>0, FirstNotEmpty
<1> HIDE DEF F
<1>3. First(Limit, F) # {} /\ First(Limit, F) \subseteq F
  BY <1>0, <1>1, <1>2, FirstNotEmpty, FirstCuts
<1>4. Cardinality(T) \in Nat /\ Cardinality(F) \in Nat /\ Cardinality(F) <= Cardinality(T)
  BY <1>1, ItemSets
<1>5. CASE i \in F
  <2>1. i \in F \ First(Limit, F)
    BY <1>5 DEF F
  <2>2. (\A x \in First(Limit, F) : After(Key(x), Key(i))) /\ Limit < Cardinality(F)
    BY <1>0, <1>1, <2>1, FirstIsFirst
  <2>3. QED
    BY <1>0, <1>3, <1>4, <2>2 DEF F
<1>6. CASE i \notin F
  <2>1. (\A x \in F : After(Key(x), Key(i))) /\ Limit + 1 < Cardinality(T)
    BY <1>0, <1>6, FirstIsFirst DEF F
  <2>2. QED
    BY <1>0, <1>3, <1>4, <2>1 DEF F
<1>7. QED
  BY <1>5, <1>6

\* A page cut from what the query finds, T, is as a page should be.
LEMMA CutNext ==
    ASSUME PageInv, NEW T \in SUBSET Visible, Counted(T) \/ Uncounted(T),
           T \subseteq Wanted(IF request = Idle THEN follows ELSE window.wanted),
           \A i \in T : cursor = <<>> \/ After(cursor, Key(i)),
           excused \subseteq excused', excused' \in SUBSET Item,
           \A p \in stay : p[2] \in T \/ p[2] \in excused'
    PROVE  PageInv' /\ Promise!Answer
<1>0. Sorted /\ T \in SUBSET Item /\ Limit \in Nat \ {0} /\ Limit \in Nat /\ Limit + 1 \in Nat
  BY PageAssumption DEF PageInv, PageTypes, TableTypes, Visible, Sorted
<1>1. CASE Counted(T)
  <2>1. PICK page : page = First(Limit, First(Limit + 1, T))
    OBVIOUS
  <2>2. Show(page, Cardinality(T) > Limit)
    BY <1>1, <2>1 DEF Counted
  <2>3. page \in SUBSET T
    <3>1. First(Limit + 1, T) \in SUBSET T /\ First(Limit + 1, T) \in SUBSET Item
      BY <1>0, FirstCuts
    <3>2. QED
      BY <1>0, <2>1, <3>1, FirstCuts
  <2>4. Fits(page)
    BY <2>3 DEF Fits
  <2>5. ASSUME NEW i \in T, i \notin page
        PROVE  Cardinality(T) > Limit /\ page # {} /\ \A x \in page : After(Key(x), Key(i))
    <3>1. Limit < Cardinality(T) /\ page # {} /\ \A x \in page : After(Key(x), Key(i))
      BY <1>0, <2>1, <2>5, CountedCut
    <3>2. QED
      BY <3>1
  <2>6. Complete(page, Cardinality(T) > Limit)
    BY <2>5 DEF Complete
  <2>7. PICK more \in BOOLEAN : more = (Cardinality(T) > Limit)
    <3>1. Cardinality(T) \in Nat
      BY <1>0, ItemSets
    <3>2. (Cardinality(T) > Limit) \in BOOLEAN
      BY <1>0, <3>1
    <3>3. QED
      BY <3>2
  <2>8. Show(page, more) /\ Complete(page, more)
    BY <2>2, <2>6, <2>7 DEF Complete
  <2>9. QED
    BY <2>4, <2>8, ShowNext, ShowAnswers
<1>2. CASE Uncounted(T)
  <2>1. PICK page : page = First(Limit, T)
    OBVIOUS
  <2>2. Show(page, T # {})
    BY <1>2, <2>1 DEF Uncounted
  <2>3. page \in SUBSET T
    BY <1>0, <2>1, FirstCuts
  <2>4. Fits(page)
    BY <2>3 DEF Fits
  <2>5. ASSUME NEW i \in T, i \notin page
        PROVE  T # {} /\ page # {} /\ \A x \in page : After(Key(x), Key(i))
    BY <1>0, <2>1, <2>5, FirstIsFirst, FirstNotEmpty
  <2>6. Complete(page, T # {})
    BY <2>5 DEF Complete
  <2>7. QED
    BY <2>2, <2>4, <2>6, ShowNext, ShowAnswers
<1>3. QED
  BY <1>1, <1>2

\* What an item and the cursor are.
LEMMA Places ==
    ASSUME PageInv, NEW i \in Item
    PROVE  /\ i \in Nat /\ at[i] \in Nat
           /\ Key(i) = IF list = "following" THEN <<0, i>> ELSE <<at[i], i>>
           /\ cursor # <<>> => /\ cursor[1] \in Nat /\ cursor[2] \in Nat /\ cursor[2] \in shown
                               /\ list = "following" => cursor[1] = 0
<1>1. Sorted
  BY DEF PageInv, PageTypes, TableTypes, Sorted
<1>2. i \in Nat /\ at[i] \in Nat
  BY <1>1, KeyType
<1>3. cursor # <<>> => cursor[1] \in Nat /\ cursor[2] \in Nat
  <2>1. Item \subseteq Nat /\ 0 .. MaxTime \subseteq Nat
    BY ItemAssumption, BoundAssumption
  <2>2. QED
    BY <2>1 DEF PageInv, PageTypes, ReaderTypes
<1>4. QED
  BY <1>2, <1>3 DEF Key, PageInv, CursorInv

\* A query by time and id misses those whose id and time disagree.
LEMMA TimeAndID ==
    ASSUME PageInv, NEW S \in SUBSET Item, list # "following"
    PROVE  /\ \A i \in ByTime(S) : cursor = <<>> \/ After(cursor, Key(i))
           /\ \A p \in stay : p[2] \in S => p[2] \in ByTime(S) \/ p[2] \in excused \union Inverted(S)
<1>1. ASSUME NEW i \in ByTime(S), cursor # <<>>  PROVE After(cursor, Key(i))
  <2>1. i \in Item /\ at[i] <= cursor[1] /\ i < cursor[2]
    BY <1>1 DEF ByTime
  <2>2. QED
    BY <1>1, <2>1, Places DEF After
<1>2. ASSUME NEW p \in stay, p[2] \in S, p[2] \notin excused, cursor # <<>>
      PROVE  p[2] \in ByTime(S) \/ p[2] \in Inverted(S)
  <2>1. PICK i \in S : i = p[2]
    BY <1>2
  <2>2. After(cursor, Key(i)) /\ i \notin shown
    BY <1>2, <2>1 DEF PageInv, NothingSkipped, StayInv
  <2>3. i # cursor[2]
    BY <1>2, <2>2, Places
  <2>4. (at[i] <= cursor[1] /\ i < cursor[2]) \/ (at[i] < cursor[1] /\ i > cursor[2])
    BY <1>2, <2>2, <2>3, Places DEF After
  <2>5. QED
    BY <1>2, <2>1, <2>4 DEF ByTime, Inverted
<1>3. CASE cursor = <<>>
  BY <1>3 DEF ByTime
<1>4. QED
  BY <1>1, <1>2, <1>3

\* The lists that are read from a table.
Table(of) == of \in List \ {"follow"} /\ Ask(of)

LEMMA WatchedOnTable ==
    ASSUME PageInv, NEW of, Table(of)
    PROVE  /\ \A p \in stay : p[2] \in Visible
           /\ \A authors : Wanted(authors) = Item
           /\ Visible \in SUBSET Item /\ list = of
           /\ excused \in SUBSET Item
<1>1. list = of /\ of # "follow" /\ excused \in SUBSET Item
  BY DEF Table, Ask, PageInv, PageTypes, ReaderTypes
<1>2. \A p \in stay : p[2] \in Visible
  BY DEF PageInv, StayInv, Standing, Found
<1>3. Visible \in SUBSET Item
  BY DEF PageInv, PageTypes, TableTypes, Visible
<1>4. QED
  BY <1>1, <1>2, <1>3 DEF Wanted

LEMMA ByTimeNext ==
    ASSUME PageInv, NEW of, Table(of), of # "following",
           CountedByTime \/ UncountedByTime(Visible)
    PROVE  PageInv' /\ Promise!Answer
<1>1. /\ Visible \in SUBSET Item /\ list # "following" /\ (\A authors : Wanted(authors) = Item)
      /\ \A p \in stay : p[2] \in Visible
      /\ excused \in SUBSET Item
  BY WatchedOnTable
<1>2. ByTime(Visible) \in SUBSET Visible /\ Inverted(Visible) \in SUBSET Item
  BY <1>1 DEF ByTime, Inverted
<1>3. /\ \A i \in ByTime(Visible) : cursor = <<>> \/ After(cursor, Key(i))
      /\ \A p \in stay : p[2] \in ByTime(Visible) \/ p[2] \in excused \union Inverted(Visible)
  BY <1>1, TimeAndID
<1>4. excused' = excused \union Inverted(Visible) /\ (Counted(ByTime(Visible)) \/ Uncounted(ByTime(Visible)))
  BY DEF CountedByTime, UncountedByTime
<1>5. PICK T : T = ByTime(Visible)
  OBVIOUS
<1>6. /\ T \in SUBSET Visible
      /\ Counted(T) \/ Uncounted(T)
      /\ T \subseteq Wanted(IF request = Idle THEN follows ELSE window.wanted)
      /\ \A i \in T : cursor = <<>> \/ After(cursor, Key(i))
      /\ excused \subseteq excused' /\ excused' \in SUBSET Item
      /\ \A p \in stay : p[2] \in T \/ p[2] \in excused'
  BY <1>1, <1>2, <1>3, <1>4, <1>5
<1>7. QED
  BY <1>6, CutNext

LEMMA ByIDNext ==
    ASSUME PageInv, Ask("following"), Counted(ByID(Visible)), UNCHANGED excused
    PROVE  PageInv' /\ Promise!Answer
<1>0. Table("following")
  BY DEF Table, List
<1>1. /\ Visible \in SUBSET Item /\ list = "following" /\ (\A authors : Wanted(authors) = Item)
      /\ \A p \in stay : p[2] \in Visible
      /\ excused \in SUBSET Item
  BY <1>0, WatchedOnTable
<1>2. PICK T : T = ByID(Visible)
  OBVIOUS
<1>3. T \in SUBSET Visible
  BY <1>2 DEF ByID
<1>4. ASSUME NEW i \in Visible, cursor # <<>>  PROVE i < cursor[2] <=> After(cursor, Key(i))
  <2>1. i \in Item
    BY <1>1
  <2>2. QED
    BY <1>1, <1>4, <2>1, Places DEF After
<1>5. \A i \in T : cursor = <<>> \/ After(cursor, Key(i))
  BY <1>2, <1>3, <1>4 DEF ByID
<1>6. \A p \in stay : p[2] \in T \/ p[2] \in excused'
  BY <1>1, <1>2, <1>4 DEF ByID, PageInv, NothingSkipped
<1>7. QED
  BY <1>1, <1>2, <1>3, <1>5, <1>6, CutNext

LEMMA ByTimeOrIDNext ==
    ASSUME PageInv, ListMine
    PROVE  PageInv' /\ Promise!Answer
<1>0. Table("messages")
  BY DEF Table, List, ListMine
<1>1. /\ Visible \in SUBSET Item /\ list = "messages" /\ (\A authors : Wanted(authors) = Item)
      /\ \A p \in stay : p[2] \in Visible
      /\ excused \in SUBSET Item
  BY <1>0, WatchedOnTable
<1>2. PICK T : T = ByTimeOrID(Visible)
  OBVIOUS
<1>3. T \in SUBSET Visible /\ Uncounted(T) /\ excused' = excused
  BY <1>2 DEF ByTimeOrID, ListMine
<1>4. \A i \in Visible : Key(i) = <<at[i], i>>
  BY <1>1 DEF Key
<1>5. \A i \in T : cursor = <<>> \/ After(cursor, Key(i))
  BY <1>2, <1>4 DEF ByTimeOrID
<1>6. \A p \in stay : p[2] \in T \/ p[2] \in excused'
  BY <1>1, <1>2, <1>3, <1>4 DEF ByTimeOrID, PageInv, NothingSkipped
<1>7. QED
  BY <1>1, <1>3, <1>5, <1>6, CutNext

Queries ==
    \/ ListFollowing
    \/ ListFollowers
    \/ ListAuthorVideos
    \/ ListMyLikedVideos
    \/ ListMyFavorites
    \/ ListByVideo
    \/ ListReplies
    \/ GetFeedVideos
    \/ GetMyVideos
    \/ ListMine

LEMMA QueryNext == PageInv /\ Queries => PageInv' /\ Promise!Answer
<1> SUFFICES ASSUME PageInv, Queries PROVE PageInv' /\ Promise!Answer
  OBVIOUS
<1>1. CASE ListFollowing \/ ListFollowers
  BY <1>1, ByIDNext DEF ListFollowing, ListFollowers
<1>2. CASE ListAuthorVideos \/ ListMyLikedVideos \/ ListMyFavorites \/ ListByVideo \/ ListReplies
  <2>1. Table("author") /\ CountedByTime
    BY <1>2 DEF ListAuthorVideos, ListMyLikedVideos, ListMyFavorites, ListByVideo, ListReplies, Table, List
  <2>2. QED
    BY <2>1, ByTimeNext
<1>3. CASE GetFeedVideos \/ GetMyVideos
  <2>1. (Table("feed") \/ Table("mine")) /\ UncountedByTime(Visible)
    BY <1>3 DEF GetFeedVideos, GetMyVideos, Table, List
  <2>2. QED
    BY <2>1, ByTimeNext
<1>4. CASE ListMine
  BY <1>4, ByTimeOrIDNext
<1>5. QED
  BY <1>1, <1>2, <1>3, <1>4 DEF Queries

-----------------------------------------------------------------------------
(* The follow feed *)

\* A step of a request leaves everything else alone.
LEMMA Stepped ==
    ASSUME PageInv, NEW next, Step(next)
    PROVE  /\ UNCHANGED <<list, at, by, last, rows, hidden, follows, zset, changes, cursor, ended, shown,
                          moved, stay, excused, Visible, Standing>>
           /\ \A i : Key(i)' = Key(i)
           /\ \A authors : Wanted(authors)' = Wanted(authors)
           /\ request' = next
<1>1. /\ UNCHANGED <<list, at, by, last, rows, hidden, follows, zset, changes, cursor, ended, shown,
                     moved, stay, excused>>
      /\ request' = next
  BY DEF Step, NoChange, table, index, scroll
<1>2. UNCHANGED <<Visible, Standing>> /\ \A i : Key(i)' = Key(i)
  BY <1>1 DEF Visible, Standing, Found, Key
<1>3. \A authors : Wanted(authors)' = Wanted(authors)
  BY <1>1 DEF Wanted
<1>4. QED
  BY <1>1, <1>2, <1>3

LEMMA StepNext ==
    ASSUME PageInv, NEW next \in Request, Step(next),
           window' \in [open : SUBSET Item, wanted : SUBSET Author],
           RequestInv', KeysInv', PickInv'
    PROVE  PageInv'
<1> USE DEF PageInv
<1>1. /\ UNCHANGED <<list, at, by, last, rows, hidden, follows, zset, changes, cursor, ended, shown,
                     moved, stay, excused, Visible, Standing>>
      /\ \A i : Key(i)' = Key(i)
      /\ request' = next
  BY Stepped
<1>2. TableTypes' /\ IndexTypes' /\ ReaderTypes'
  BY <1>1 DEF PageTypes, TableTypes, IndexTypes, ReaderTypes
<1>3. CursorInv' /\ StayInv'
  BY <1>1 DEF CursorInv, StayInv, After
<1>4. NothingSkipped'
  BY <1>1 DEF NothingSkipped, After
<1>5. QED
  BY <1>2, <1>3, <1>4 DEF PageTypes

\* To the abstract list a step between receipt and answer is none.
LEMMA StepStutters ==
    ASSUME PageInv, NEW next, Step(next), request # Idle, next # Idle, UNCHANGED window
    PROVE  UNCHANGED Promise!vars
<1>1. /\ UNCHANGED <<list, at, by, follows, cursor, shown, moved, Visible>>
      /\ \A i : Key(i)' = Key(i)
      /\ \A authors : Wanted(authors)' = Wanted(authors)
      /\ request' = next
  BY Stepped
<1> DEFINE w == IF request = Idle
                THEN [open |-> Visible, wanted |-> Wanted(follows)]
                ELSE [open |-> window.open, wanted |-> Wanted(window.wanted)]
           k == [i \in Item |-> Key(i)]
<1>2. w' = w
  <2>1. w = [open |-> window.open, wanted |-> Wanted(window.wanted)]
    OBVIOUS
  <2>2. w' = [open |-> window.open, wanted |-> Wanted(window.wanted)]'
    BY <1>1 DEF Idle
  <2>3. Wanted(window.wanted)' = Wanted(window.wanted)
    BY <1>1 DEF Wanted
  <2>4. QED
    BY <2>1, <2>2, <2>3
<1>3. k' = k
  BY <1>1
<1>4. Wanted(follows)' = Wanted(follows)
  BY <1>1 DEF Wanted
<1>5. (request # Idle)' = (request # Idle)
  BY <1>1 DEF Idle
<1> HIDE DEF w, k
<1>6. UNCHANGED <<k, Visible, Wanted(follows), request # Idle, w, shown, moved, cursor>>
  BY <1>1, <1>2, <1>3, <1>4, <1>5
<1>7. QED
  BY <1>6 DEF Promise!vars, w, k

\* What is watched while a request is under way.
LEMMA WatchedFeed ==
    ASSUME PageInv, list = "follow", NEW p \in stay
    PROVE  /\ p[1] \in ZSet /\ p[2] \in Item
           /\ p[2] \in Visible /\ by[p[2]] \in follows /\ p[2] \in zset[p[1]]
           /\ p[1] \in Author => by[p[2]] = p[1]
           /\ request # Idle => by[p[2]] \in request.f
<1>1. p[1] \in ZSet /\ p[2] \in Item
  BY DEF PageInv, PageTypes, ReaderTypes
<1>2. p[2] \in Visible /\ by[p[2]] \in follows /\ p[2] \in zset[p[1]]
  BY DEF PageInv, StayInv, Standing, Found
<1>3. p[1] \in Author => by[p[2]] = p[1]
  BY <1>2 DEF PageInv, PageTypes, IndexTypes
<1>4. request # Idle => by[p[2]] \in request.f
  BY DEF PageInv, RequestInv
<1>5. QED
  BY <1>1, <1>2, <1>3, <1>4

LEMMA GetNext ==
    ASSUME PageInv, GetFollowFeedVideos
    PROVE  PageInv' /\ (Promise!Ask \/ Promise!Answer)
<1>0. list = "follow" /\ request = Idle /\ ~ended
  BY DEF GetFollowFeedVideos, Ask
<1>1. CASE follows = {} /\ Show({}, FALSE) /\ UNCHANGED excused
  <2>1. stay = {}
    BY <1>0, <1>1, WatchedFeed
  <2>2. Fits({}) /\ Complete({}, FALSE)
    BY <2>1 DEF Fits, Complete
  <2>3. excused \subseteq excused' /\ excused' \in SUBSET Item
    BY <1>1 DEF PageInv, PageTypes, ReaderTypes
  <2>4. QED
    BY <1>1, <2>2, <2>3, ShowNext, ShowAnswers
<1>2. CASE /\ Step([pc |-> "keys", f |-> follows])
           /\ window' = [open |-> Visible, wanted |-> follows]
  <2>1. /\ UNCHANGED <<list, at, by, follows, zset, cursor, ended, shown, moved, stay, excused, Visible>>
        /\ (\A i : Key(i)' = Key(i)) /\ (\A authors : Wanted(authors)' = Wanted(authors))
        /\ request' = [pc |-> "keys", f |-> follows]
    BY <1>2, Stepped
  <2>2. follows \in SUBSET Author /\ Visible \in SUBSET Item
    BY DEF PageInv, PageTypes, TableTypes, IndexTypes, Visible
  <2>3. [pc |-> "keys", f |-> follows] \in Request /\ request' # Idle /\ request'.pc = "keys"
    BY <2>1, <2>2 DEF Request, Idle
  <2>4. \A p \in stay : by[p[2]] \in follows
    BY <1>0, WatchedFeed
  <2>5. RequestInv'
    BY <1>0, <1>2, <2>1, <2>3, <2>4 DEF RequestInv
  <2>6. KeysInv' /\ PickInv'
    BY <2>3 DEF KeysInv, PickInv
  <2>7. PageInv'
    BY <1>2, <2>2, <2>3, <2>5, <2>6, StepNext
  <2> DEFINE w == IF request = Idle
                  THEN [open |-> Visible, wanted |-> Wanted(follows)]
                  ELSE [open |-> window.open, wanted |-> Wanted(window.wanted)]
             k == [i \in Item |-> Key(i)]
  <2>8. w' = [open |-> window'.open, wanted |-> Wanted(window.wanted)']
    BY <2>1, <2>3 DEF Idle
  <2>9. Wanted(window.wanted)' = Wanted(follows) /\ Wanted(follows)' = Wanted(follows)
    BY <1>2, <2>1 DEF Wanted
  <2>10. w' = Promise!Now
    BY <1>2, <2>8, <2>9 DEF Promise!Now
  <2>11. k' = k
    BY <2>1
  <2>12. (request' # Idle) = TRUE
    BY <2>3
  <2>13. Promise!Ask
    BY <1>0, <2>1, <2>9, <2>10, <2>11, <2>12 DEF Promise!Ask, Idle
  <2>14. QED
    BY <2>7, <2>13
<1>3. QED
  BY <1>1, <1>2 DEF GetFollowFeedVideos

LEMMA OutboxNext ==
    ASSUME PageInv, HasOutbox
    PROVE  PageInv' /\ UNCHANGED Promise!vars
<1> DEFINE keys == {Inbox} \union {a \in request.f : zset[a] # {}}
           next == [pc |-> "range", f |-> request.f, keys |-> keys]
<1>0. request.pc = "keys" /\ Step(next) /\ UNCHANGED window
  BY DEF HasOutbox
<1>1. request # Idle /\ request.f \in SUBSET Author
  <2>1. request \in Request
    BY DEF PageInv, PageTypes, ReaderTypes
  <2>2. QED
    BY <1>0, <2>1, RequestFields
<1>2. keys \in SUBSET ZSet
  BY <1>1, ZSets
<1>3. list = "follow"
  BY <1>1 DEF PageInv, RequestInv
<1>4. \A p \in stay : p[1] \in keys
  <2>1. ASSUME NEW p \in stay  PROVE p[1] \in keys
    <3>1. /\ p[1] \in ZSet /\ p[2] \in zset[p[1]]
          /\ p[1] \in Author => by[p[2]] = p[1]
          /\ by[p[2]] \in request.f
      BY <1>1, <1>3, WatchedFeed
    <3>2. p[1] = Inbox \/ p[1] \in Author
      BY <3>1, ZSets
    <3>3. QED
      BY <3>1, <3>2
  <2>2. QED
    BY <2>1
<1> HIDE DEF keys
<1>5. next \in Request /\ next # Idle /\ next.pc = "range" /\ next.f = request.f /\ next.keys = keys
  BY <1>1, <1>2 DEF Request, Idle
<1> HIDE DEF next
<1>6. UNCHANGED <<list, by, follows, ended, stay, Visible>> /\ request' = next
  BY <1>0, Stepped
<1>7. RequestInv'
  BY <1>0, <1>1, <1>5, <1>6 DEF RequestInv, PageInv
<1>8. KeysInv' /\ PickInv'
  BY <1>4, <1>5, <1>6 DEF KeysInv, PickInv
<1>9. window' \in [open : SUBSET Item, wanted : SUBSET Author]
  BY <1>0 DEF PageInv, PageTypes, ReaderTypes
<1>10. QED
  BY <1>0, <1>1, <1>5, <1>7, <1>8, <1>9, StepNext, StepStutters

\* On to the table, with the authors of the request.
LEMMA ToTable ==
    ASSUME PageInv, request # Idle, Step([pc |-> "table", f |-> request.f]), UNCHANGED window
    PROVE  PageInv' /\ UNCHANGED Promise!vars
<1> DEFINE next == [pc |-> "table", f |-> request.f]
<1>1. request.f \in SUBSET Author
  <2>1. request \in Request
    BY DEF PageInv, PageTypes, ReaderTypes
  <2>2. QED
    BY <2>1, RequestFields
<1>2. next \in Request /\ next # Idle /\ next.pc = "table" /\ next.f = request.f
  BY <1>1 DEF Request, Idle
<1> HIDE DEF next
<1>3. UNCHANGED <<list, by, follows, ended, stay, Visible>> /\ request' = next
  BY Stepped DEF next
<1>4. RequestInv'
  BY <1>2, <1>3 DEF RequestInv, PageInv
<1>5. KeysInv' /\ PickInv'
  BY <1>2, <1>3 DEF KeysInv, PickInv
<1>6. window' \in [open : SUBSET Item, wanted : SUBSET Author]
  BY DEF PageInv, PageTypes, ReaderTypes
<1>7. Step(next)
  BY DEF next
<1>8. QED
  BY <1>2, <1>4, <1>5, <1>6, <1>7, StepNext, StepStutters

\* What a range takes of a ZSET: an item that is watched, or Count others, none
\* with a lower score.
LEMMA RangeTakes ==
    ASSUME PageInv, request.pc = "range", NEW z \in request.keys, NEW T \in Taken(z)
    PROVE  /\ T \in SUBSET Item
           /\ \A p \in stay : p[1] = z => \/ p[2] \in excused
                                          \/ p[2] \in T
                                          \/ Cardinality(T) = Count /\ \A j \in T : at[j] >= at[p[2]]
<1> DEFINE S == {i \in zset[z] : cursor = <<>> \/ at[i] <= cursor[1]}
<1>0. request # Idle /\ list = "follow" /\ z \in ZSet
  <2>1. request # Idle
    BY DEF Idle
  <2>2. request \in Request
    BY DEF PageInv, PageTypes, ReaderTypes
  <2>3. request.keys \in SUBSET ZSet
    BY <2>2, RequestFields
  <2>4. QED
    BY <2>1, <2>3 DEF PageInv, RequestInv
<1>1. S \in SUBSET Item
  BY <1>0 DEF PageInv, PageTypes, IndexTypes
<1>2. Count \in Nat /\ T \in Heads(Count, S)
  BY PageAssumption DEF Taken, Count
<1>3. T \in SUBSET S /\ \A i \in S \ T : Cardinality(T) = Count /\ \A j \in T : at[j] >= at[i]
  BY <1>1, <1>2, HeadsAreHigh
<1>4. ASSUME NEW p \in stay, p[1] = z, p[2] \notin excused  PROVE p[2] \in S
  <2>1. p[2] \in zset[z] /\ p[2] \in Item
    BY <1>0, <1>4, WatchedFeed
  <2>2. cursor = <<>> \/ After(cursor, Key(p[2]))
    BY <1>4 DEF PageInv, NothingSkipped
  <2>3. cursor = <<>> \/ at[p[2]] <= cursor[1]
    BY <1>0, <2>1, <2>2, Places DEF After
  <2>4. QED
    BY <2>1, <2>3
<1>5. QED
  BY <1>1, <1>3, <1>4

LEMMA PageNext ==
    ASSUME PageInv, FollowPage
    PROVE  PageInv' /\ UNCHANGED Promise!vars
<1>0. request.pc = "range" /\ request # Idle /\ UNCHANGED window
  BY DEF FollowPage, Idle
<1>1. request.f \in SUBSET Author /\ request.keys \in SUBSET ZSet
  <2>1. request \in Request
    BY DEF PageInv, PageTypes, ReaderTypes
  <2>2. QED
    BY <1>0, <2>1, RequestFields
<1>2. PICK pick \in [request.keys -> UNION {Taken(z) : z \in request.keys}] :
        /\ \A z \in request.keys : pick[z] \in Taken(z)
        /\ Step(IF \A z \in request.keys : pick[z] = {}
                THEN [pc |-> "table", f |-> request.f]
                ELSE [pc |-> "rows", f |-> request.f, pick |-> pick])
  BY DEF FollowPage
<1>3. CASE \A z \in request.keys : pick[z] = {}
  <2>1. Step([pc |-> "table", f |-> request.f])
    BY <1>2, <1>3
  <2>2. QED
    BY <1>0, <2>1, ToTable
<1>4. CASE ~\A z \in request.keys : pick[z] = {}
  <2> DEFINE next == [pc |-> "rows", f |-> request.f, pick |-> pick]
  <2>0. Step(next)
    BY <1>2, <1>4
  <2>1. pick \in [request.keys -> SUBSET Item]
    <3>1. \A z \in request.keys : pick[z] \in SUBSET Item
      BY <1>0, <1>2, RangeTakes
    <3>2. QED
      BY <1>2, <3>1
  <2>2. next \in Request /\ next # Idle /\ next.pc = "rows" /\ next.f = request.f /\ next.pick = pick
    <3>1. pick \in UNION {[K -> SUBSET Item] : K \in SUBSET ZSet}
      BY <1>1, <2>1
    <3>2. next \in [pc : {"rows"}, f : SUBSET Author, pick : UNION {[K -> SUBSET Item] : K \in SUBSET ZSet}]
      BY <1>1, <3>1
    <3>3. QED
      BY <3>2 DEF Request, Idle
  <2> HIDE DEF next
  <2>3. UNCHANGED <<list, at, by, follows, ended, stay, excused, Visible>> /\ request' = next
    BY <2>0, Stepped
  <2>4. RequestInv'
    BY <1>0, <2>2, <2>3 DEF RequestInv, PageInv
  <2>5. KeysInv'
    BY <2>2, <2>3 DEF KeysInv
  <2>6. ASSUME NEW p \in stay
        PROVE  /\ p[1] \in DOMAIN pick
               /\ \/ p[2] \in excused
                  \/ p[2] \in pick[p[1]]
                  \/ Cardinality(pick[p[1]]) = Count /\ \A j \in pick[p[1]] : at[j] >= at[p[2]]
    <3>1. p[1] \in request.keys
      BY <1>0 DEF PageInv, KeysInv
    <3>2. pick[p[1]] \in Taken(p[1])
      BY <1>2, <3>1
    <3>3. QED
      BY <1>0, <2>1, <3>1, <3>2, RangeTakes
  <2>7. PickInv'
    <3> SUFFICES ASSUME NEW p \in stay
                 PROVE  /\ p[1] \in DOMAIN pick
                        /\ \/ p[2] \in excused
                           \/ p[2] \in pick[p[1]]
                           \/ /\ Cardinality(pick[p[1]]) = Count
                              /\ \A j \in pick[p[1]] : at[j] >= at[p[2]]
      BY <2>2, <2>3 DEF PickInv, Count
    <3>1. QED
      BY <2>6
  <2>8. window' \in [open : SUBSET Item, wanted : SUBSET Author]
    BY <1>0 DEF PageInv, PageTypes, ReaderTypes
  <2>9. QED
    BY <1>0, <2>0, <2>2, <2>4, <2>5, <2>7, <2>8, StepNext, StepStutters
<1>5. QED
  BY <1>3, <1>4

\* Whoever was crowded out of its ZSET's range by Limit or more that can be
\* shown comes after the page, whatever the other ranges brought.
LEMMA CrowdedOut ==
    ASSUME Sorted, NEW F \in SUBSET Item, NEW G \in SUBSET Item, NEW n \in Nat, NEW i \in Item,
           G \subseteq F, G \subseteq Visible, Limit <= Cardinality(G), \A j \in G : After(Key(j), Key(i)),
           NEW x \in First(Limit, First(n, F) \intersect Visible), x # i
    PROVE  After(Key(x), Key(i))
<1> DEFINE found == First(n, F) \intersect Visible
<1>0. Limit \in Nat /\ found \in SUBSET Item /\ First(n, F) \in SUBSET F
  BY PageAssumption, FirstCuts
<1>1. x \in found /\ Cardinality(Before(x, found)) < Limit
  BY <1>0, FirstCuts
<1>2. x \in First(n, F) /\ x \in Item
  BY <1>0, <1>1
<1>3. SUFFICES ASSUME After(Key(i), Key(x)) PROVE FALSE
  BY <1>2, KeysDiffer
<1>4. \A j \in G : After(Key(j), Key(x))
  BY <1>2, <1>3, KeysInOrder
<1>5. ASSUME NEW j \in G  PROVE j \in First(n, F)
  <2>1. SUFFICES ASSUME j \in F \ First(n, F) PROVE FALSE
    BY <1>5
  <2>2. After(Key(x), Key(j)) /\ After(Key(j), Key(x))
    BY <1>2, <1>4, <1>5, <2>1, FirstIsFirst
  <2>3. QED
    BY <1>2, <1>5, <2>2, KeysInOrder
<1>6. G \subseteq Before(x, found)
  BY <1>4, <1>5 DEF Before
<1>7. Before(x, found) \in SUBSET Item
  BY <1>0 DEF Before
<1>8. /\ Cardinality(G) <= Cardinality(Before(x, found))
      /\ Cardinality(G) \in Nat /\ Cardinality(Before(x, found)) \in Nat
  BY <1>6, <1>7, ItemSets
<1>9. QED
  BY <1>0, <1>1, <1>8

LEMMA FilterNext ==
    ASSUME PageInv, FilterByIDs
    PROVE  PageInv' /\ (UNCHANGED Promise!vars \/ Promise!Answer)
<1>0. request.pc = "rows" /\ request # Idle
  BY DEF FilterByIDs, Idle
<1>1. list = "follow" /\ Sorted /\ ~ended
  BY <1>0 DEF PageInv, RequestInv, PageTypes, TableTypes, Sorted
<1>2. PICK pick : pick = request.pick
  OBVIOUS
<1>3. PICK P : P = UNION {pick[z] : z \in DOMAIN pick}
  OBVIOUS
<1>4. PICK found : found = First(Count, Fresh(P)) \intersect Visible
  OBVIOUS
<1>5. \/ /\ Step([pc |-> "table", f |-> request.f])
         /\ UNCHANGED window
      \/ /\ found # {}
         /\ Show(First(Limit, found), TRUE)
         /\ excused' = excused \union LeftOut(pick)
  BY <1>2, <1>3, <1>4 DEF FilterByIDs
<1>6. CASE Step([pc |-> "table", f |-> request.f]) /\ UNCHANGED window
  BY <1>0, <1>6, ToTable
<1>7. CASE /\ found # {}
           /\ Show(First(Limit, found), TRUE)
           /\ excused' = excused \union LeftOut(pick)
  <2>0. Limit \in Nat \ {0} /\ Limit \in Nat /\ Extra \in Nat /\ Count \in Nat /\ Count = Limit + Extra
    BY PageAssumption DEF Count
  <2>1. DOMAIN pick \in SUBSET ZSet /\ pick \in [DOMAIN pick -> SUBSET Item]
    <3>1. request \in Request
      BY DEF PageInv, PageTypes, ReaderTypes
    <3>2. QED
      BY <1>0, <1>2, <3>1, RequestFields
  <2>2. P \in SUBSET Item /\ \A z \in DOMAIN pick : pick[z] \in SUBSET P
    BY <1>3, <2>1
  <2>3. Fresh(P) \in SUBSET P /\ Fresh(P) \in SUBSET Item
    BY <2>2 DEF Fresh
  <2>4. found \in SUBSET Visible /\ found \in SUBSET Item /\ found \subseteq Fresh(P)
    BY <1>1, <1>4, <2>0, <2>3, FirstCuts
  <2>5. PICK page : page = First(Limit, found)
    OBVIOUS
  <2>6. page \in SUBSET found /\ page # {}
    BY <1>1, <1>7, <2>0, <2>4, <2>5, FirstCuts, FirstNotEmpty
  <2>7. \A i \in Item : Key(i) = <<at[i], i>>
    BY <1>1 DEF Key
  <2>8. Fits(page)
    <3>1. page \in SUBSET Visible
      BY <2>4, <2>6
    <3>2. request.f \subseteq window.wanted
      BY <1>0 DEF PageInv, RequestInv
    <3>3. page \subseteq Wanted(window.wanted)
      BY <2>2, <2>4, <2>6, <3>2 DEF Wanted, Fresh
    <3>4. \A i \in page : cursor = <<>> \/ After(cursor, Key(i))
      BY <2>2, <2>4, <2>6, <2>7 DEF Fresh
    <3>5. QED
      BY <1>0, <3>1, <3>3, <3>4 DEF Fits
  <2>9. ASSUME NEW p \in stay, p[2] \notin page, p[2] \notin excused'
        PROVE  \A x \in page : After(Key(x), Key(p[2]))
    <3>1. PICK z \in ZSet, i \in Item : z = p[1] /\ i = p[2]
      BY <1>1, <2>9, WatchedFeed
    <3>2. i \in Visible /\ i \in zset[z] /\ by[i] \in request.f
      BY <1>0, <1>1, <2>9, <3>1, WatchedFeed
    <3>3. i \notin excused /\ i \notin LeftOut(pick)
      BY <1>7, <2>9, <3>1
    <3>4. cursor = <<>> \/ After(cursor, <<at[i], i>>)
      BY <2>7, <2>9, <3>1, <3>3 DEF PageInv, NothingSkipped
    <3>5. /\ z \in DOMAIN pick
          /\ \/ i \in pick[z]
             \/ Cardinality(pick[z]) = Count /\ \A j \in pick[z] : at[j] >= at[i]
      BY <1>0, <1>2, <2>9, <3>1, <3>3 DEF PageInv, PickInv
    <3>6. CASE i \in pick[z]
      <4>1. i \in Fresh(P)
        BY <2>2, <3>2, <3>4, <3>5, <3>6 DEF Fresh
      <4>2. CASE i \in First(Count, Fresh(P))
        <5>1. i \in found \ First(Limit, found)
          BY <1>4, <2>5, <2>9, <3>1, <3>2, <4>2
        <5>2. QED
          BY <1>1, <2>0, <2>4, <2>5, <3>1, <5>1, FirstIsFirst
      <4>3. CASE i \notin First(Count, Fresh(P))
        <5>1. \A x \in First(Count, Fresh(P)) : After(Key(x), Key(i))
          BY <1>1, <2>0, <2>3, <4>1, <4>3, FirstIsFirst
        <5>2. QED
          BY <1>4, <2>6, <3>1, <5>1
      <4>4. QED
        BY <4>2, <4>3
    <3>7. CASE i \notin pick[z] /\ Cardinality(pick[z]) = Count /\ \A j \in pick[z] : at[j] >= at[i]
      <4> DEFINE G == Fresh(pick[z]) \intersect Visible
      <4>0. pick[z] \in SUBSET Item /\ pick[z] \in SUBSET P
        BY <2>1, <2>2, <3>5
      <4>1. G \in SUBSET pick[z] /\ G \in SUBSET Item /\ G \subseteq Fresh(P) /\ G \subseteq Visible
        BY <4>0 DEF Fresh
      <4>2. /\ ~(Cardinality(pick[z] \ G) > Extra)
            /\ \A j \in pick[z] : at[j] # at[i]
        <5>1. i \in zset[z] \ pick[z]
          BY <3>2, <3>7
        <5> DEFINE L(y) == {x \in zset[y] \ pick[y] :
                              \/ Cardinality(pick[y] \ (Fresh(pick[y]) \intersect Visible)) > Extra
                              \/ \E j \in pick[y] : at[j] = at[x]}
        <5>2. LeftOut(pick) = UNION {L(y) : y \in DOMAIN pick}
          BY DEF LeftOut
        <5> HIDE DEF L
        <5>3. L(z) \subseteq LeftOut(pick)
          BY <3>5, <5>2
        <5>4. i \notin L(z)
          BY <3>3, <5>3
        <5>5. QED
          BY <5>1, <5>4 DEF L
      <4>3. Limit <= Cardinality(G)
        <5>1. IsFiniteSet(pick[z]) /\ IsFiniteSet(G) /\ Cardinality(pick[z]) \in Nat /\ Cardinality(G) \in Nat
          BY <4>0, <4>1, ItemSets
        <5>2. pick[z] \intersect G = G
          BY <4>1
        <5>3. Cardinality(pick[z] \ G) = Cardinality(pick[z]) - Cardinality(G)
          <6> HIDE DEF G
          <6>1. Cardinality(pick[z] \ G) = Cardinality(pick[z]) - Cardinality(pick[z] \intersect G)
            BY <5>1, FS_Difference
          <6>2. QED
            BY <5>2, <6>1
        <5>4. QED
          BY <2>0, <3>7, <4>2, <5>1, <5>3
      <4>4. \A j \in G : After(Key(j), Key(i))
        <5>1. ASSUME NEW j \in G  PROVE After(Key(j), Key(i))
          <6>1. j \in Item /\ j \in pick[z]
            BY <4>1
          <6>2. at[j] >= at[i] /\ at[j] # at[i] /\ at[j] \in Nat /\ at[i] \in Nat
            BY <3>7, <4>2, <6>1, Places
          <6>3. QED
            BY <2>7, <6>1, <6>2 DEF After
        <5>2. QED
          BY <5>1
      <4> HIDE DEF G
      <4>5. \A x \in page : x # i
        BY <2>9, <3>1
      <4>6. QED
        BY <1>1, <1>4, <2>0, <2>3, <2>5, <3>1, <4>1, <4>3, <4>4, <4>5, CrowdedOut
    <3>8. QED
      BY <3>5, <3>6, <3>7
  <2>10. Complete(page, TRUE)
    BY <2>6, <2>9 DEF Complete
  <2>11. excused \subseteq excused' /\ excused' \in SUBSET Item
    <3>1. LeftOut(pick) \in SUBSET Item
      BY <2>1 DEF LeftOut, PageInv, PageTypes, IndexTypes
    <3>2. QED
      BY <1>7, <3>1 DEF PageInv, PageTypes, ReaderTypes
  <2>12. Show(page, TRUE)
    BY <1>7, <2>5
  <2>13. QED
    BY <2>8, <2>10, <2>11, <2>12, ShowNext, ShowAnswers
<1>8. QED
  BY <1>5, <1>6, <1>7

LEMMA TableNext ==
    ASSUME PageInv, ListFollowFeedFromTable
    PROVE  PageInv' /\ Promise!Answer
<1>0. request.pc = "table" /\ request # Idle
  BY DEF ListFollowFeedFromTable, Idle
<1>1. list = "follow" /\ request.f \subseteq window.wanted
  BY <1>0 DEF PageInv, RequestInv
<1>2. PICK F : F = {i \in Visible : by[i] \in request.f}
  OBVIOUS
<1>3. F \in SUBSET Visible /\ F \in SUBSET Item
  BY <1>2 DEF PageInv, PageTypes, TableTypes, Visible
<1>4. PICK T : T = ByTime(F)
  OBVIOUS
<1>5. T \in SUBSET Visible /\ T \in SUBSET F /\ Inverted(F) \in SUBSET Item
  BY <1>3, <1>4 DEF ByTime, Inverted
<1>6. Uncounted(T) /\ excused' = excused \union Inverted(F)
  BY <1>2, <1>4 DEF ListFollowFeedFromTable, UncountedByTime
<1>7. T \subseteq Wanted(IF request = Idle THEN follows ELSE window.wanted)
  BY <1>0, <1>1, <1>2, <1>3, <1>5 DEF Wanted
<1>8. /\ \A i \in T : cursor = <<>> \/ After(cursor, Key(i))
      /\ \A p \in stay : p[2] \in F => p[2] \in T \/ p[2] \in excused \union Inverted(F)
  BY <1>1, <1>3, <1>4, TimeAndID
<1>9. \A p \in stay : p[2] \in F
  BY <1>0, <1>1, <1>2, WatchedFeed
<1>10. excused \subseteq excused' /\ excused' \in SUBSET Item
  BY <1>5, <1>6 DEF PageInv, PageTypes, ReaderTypes
<1>11. QED
  BY <1>5, <1>6, <1>7, <1>8, <1>9, <1>10, CutNext

LEMMA ReadNext ==
    ASSUME PageInv, Read
    PROVE  PageInv' /\ (Promise!Ask \/ Promise!Answer \/ UNCHANGED Promise!vars)
<1>1. CASE Queries
  BY <1>1, QueryNext
<1>2. CASE GetFollowFeedVideos
  BY <1>2, GetNext
<1>3. CASE HasOutbox
  BY <1>3, OutboxNext
<1>4. CASE FollowPage
  BY <1>4, PageNext
<1>5. CASE FilterByIDs
  BY <1>5, FilterNext
<1>6. CASE ListFollowFeedFromTable
  BY <1>6, TableNext
<1>7. QED
  BY <1>1, <1>2, <1>3, <1>4, <1>5, <1>6 DEF Read, Queries

LEMMA PageStep == PageInv /\ [Next]_vars => PageInv'
<1> SUFFICES ASSUME PageInv, [Next]_vars PROVE PageInv'
  OBVIOUS
<1>1. CASE Changes
  BY <1>1, ChangeNext
<1>2. CASE Read
  BY <1>2, ReadNext
<1>3. CASE UNCHANGED vars
  <2>1. /\ UNCHANGED <<list, at, by, last, rows, hidden, follows, zset, request, cursor, ended, changes,
                       shown, moved, window, stay, excused>>
    BY <1>3 DEF vars
  <2>2. UNCHANGED <<Visible, Standing>> /\ \A i : Key(i)' = Key(i)
    BY <2>1 DEF Visible, Standing, Found, Key
  <2>3. PageTypes'
    BY <2>1 DEF PageInv, PageTypes, TableTypes, IndexTypes, ReaderTypes
  <2>4. CursorInv' /\ StayInv' /\ NothingSkipped'
    BY <2>1, <2>2 DEF PageInv, CursorInv, StayInv, NothingSkipped, After
  <2>5. RequestInv' /\ KeysInv' /\ PickInv'
    BY <2>1, <2>2 DEF PageInv, RequestInv, KeysInv, PickInv, Count, Idle
  <2>6. QED
    BY <2>3, <2>4, <2>5 DEF PageInv
<1>4. QED
  BY <1>1, <1>2, <1>3, NextSteps

\* The invariant of every list that is read page by page.
THEOREM Invariant == Spec => []PageInv
<1>1. QED
  BY PageInit, PageStep, PTL DEF Spec

-----------------------------------------------------------------------------
(* What follows *)

\* The variables have their types: no ZSET is longer than its cap, whatever is
\* pushed to it, and the cursor is the place of an item.
THEOREM TypeCorrect == Spec => []TypeOK
<1>1. PageInv => TypeOK
  <2> SUFFICES ASSUME PageInv PROVE TypeOK
    OBVIOUS
  <2>1. request.pc \in {"idle", "keys", "range", "rows", "table"}
    BY RequestFields DEF PageInv, PageTypes, ReaderTypes
  <2>2. QED
    BY <2>1 DEF TypeOK, PageInv, PageTypes, TableTypes, IndexTypes, ReaderTypes
<1>2. QED
  BY <1>1, Invariant, PTL

\* A reader who scrolls by "id < cursor", by "created_at <= time AND id < cursor"
\* or through the ranges of the follow feed is shown whatever was there all the
\* time, but for what NothingSkipped names.
THEOREM NoneSkipped == Spec => []NothingSkipped
<1>1. PageInv => NothingSkipped
  BY DEF PageInv
<1>2. QED
  BY <1>1, Invariant, PTL

LEMMA PromiseInit == Init => Promise!Init
<1> SUFFICES ASSUME Init PROVE Promise!Init
  OBVIOUS
<1>1. PageInv
  BY PageInit
<1>2. Sorted /\ Visible \in SUBSET Item
  BY <1>1 DEF PageInv, PageTypes, TableTypes, Visible, Sorted
<1>3. [i \in Item |-> Key(i)] \in [Item -> Nat \X Nat]
  BY <1>2, KeyType DEF Pair
<1>4. Wanted(follows) \in SUBSET Item
  BY DEF Wanted
<1>5. request = Idle /\ shown = {} /\ moved = {} /\ cursor = <<>>
  BY DEF Init
<1>6. QED
  BY <1>2, <1>3, <1>4, <1>5 DEF Promise!Init, Promise!Now

LEMMA ChangeIsChange == PageInv /\ Changes => Promise!Change
<1> SUFFICES ASSUME PageInv, Changes PROVE Promise!Change
  OBVIOUS
<1>1. /\ UNCHANGED <<list, by, request, cursor, ended, shown, excused>>
      /\ moved' = moved \union {i \in shown : Key(i)' # Key(i)}
      /\ TableTypes'
  BY ChangeFrame, ChangedKeys, TableTypesChange DEF PageInv
<1>2. window' = IF request = Idle THEN window
                ELSE [open |-> window.open \union Visible', wanted |-> window.wanted \union follows']
  BY ChangeFrame DEF Watched
<1>3. Sorted' /\ Visible' \in SUBSET Item
  BY <1>1 DEF TableTypes, Visible, Sorted
<1>4. \A i \in Item : Key(i)' \in Nat \X Nat
  <2>1. \A i \in Item : IF list' = "following" THEN Key(i)' = <<0, i>> ELSE Key(i)' = <<at'[i], i>>
    BY DEF Key
  <2>2. ASSUME NEW i \in Item  PROVE at'[i] \in Nat /\ i \in Nat
    BY <1>3, ItemAssumption, BoundAssumption DEF Sorted
  <2>3. QED
    BY <2>1, <2>2
<1> DEFINE k == [i \in Item |-> Key(i)]
           w == IF request = Idle
                THEN [open |-> Visible, wanted |-> Wanted(follows)]
                ELSE [open |-> window.open, wanted |-> Wanted(window.wanted)]
<1>5. k' \in [Item -> Nat \X Nat]
  BY <1>4
<1>6. {i \in shown : Key(i)' # Key(i)} = {i \in shown : k'[i] # k[i]}
  BY DEF PageInv, PageTypes, ReaderTypes
<1>7. Wanted(follows)' \in SUBSET Item
  BY DEF Wanted
<1>8. w' = IF request # Idle
           THEN [open |-> w.open \union Visible', wanted |-> w.wanted \union Wanted(follows)']
           ELSE [open |-> Visible', wanted |-> Wanted(follows)']
  <2>1. CASE request = Idle
    BY <1>1, <2>1 DEF Idle
  <2>2. CASE request # Idle
    <3>1. w' = [open |-> window'.open, wanted |-> Wanted(window.wanted)']
      BY <1>1, <2>2 DEF Idle
    <3>2. window' = [open |-> window.open \union Visible', wanted |-> window.wanted \union follows']
      BY <1>2, <2>2
    <3>3. Wanted(window.wanted)' = Wanted(window.wanted) \union Wanted(follows)'
      BY <1>1, <3>2 DEF Wanted
    <3>4. QED
      BY <2>2, <3>1, <3>2, <3>3
  <2>3. QED
    BY <2>1, <2>2
<1>9. (request # Idle)' = (request # Idle)
  BY <1>1 DEF Idle
<1>10. Promise!Now' = [open |-> Visible', wanted |-> Wanted(follows)']
  BY DEF Promise!Now
<1>11. moved' = moved \union {i \in shown : k'[i] # k[i]}
  BY <1>1, <1>6
<1>12. QED
  BY <1>1, <1>3, <1>5, <1>7, <1>8, <1>9, <1>10, <1>11 DEF Promise!Change

\* Every list implements Listing: though FollowPage and FilterByIDs read what is
\* changed meanwhile, a page shows only what was visible and followed at some time
\* since its request came, and goes on strictly after the page before it.
THEOREM ListsKeepPromise == Spec => Implements
<1>1. PageInv /\ [Next]_vars => [Promise!Next]_(Promise!vars)
  <2> SUFFICES ASSUME PageInv, [Next]_vars PROVE Promise!Next \/ UNCHANGED Promise!vars
    OBVIOUS
  <2>1. CASE Changes
    BY <2>1, ChangeIsChange DEF Promise!Next
  <2>2. CASE Read
    BY <2>2, ReadNext DEF Promise!Next
  <2>3. CASE UNCHANGED vars
    <3>1. UNCHANGED <<list, at, by, rows, hidden, follows, request, window, shown, moved, cursor>>
      BY <2>3 DEF vars
    <3>2. QED
      BY <3>1 DEF Promise!vars, Visible, Wanted, Key, Idle
  <2>4. QED
    BY <2>1, <2>2, <2>3, NextSteps
<1>2. QED
  BY <1>1, PromiseInit, Invariant, PTL DEF Spec, Implements, Promise!Spec
=============================================================================
