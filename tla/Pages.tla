------------------------------- MODULE Pages -------------------------------
(***************************************************************************)
(* The lists of the product, read page by page while rows come and go.     *)
(* Most are one query on a table that continues from a cursor of two       *)
(* fields.  The follow feed (feed.GetFollowFeedVideos, feedrepo.FollowPage)*)
(* is read in steps: the authors the reader follows, which of them have an *)
(* outbox, a range of each ZSET, the rows of what the ranges returned; and *)
(* a query on the table when that shows nothing.                           *)
(*                                                                         *)
(* An item is the id of its row, and "list" is the list one reader scrolls *)
(* from its first page to its end.  FollowFeed is about how the ZSETs are  *)
(* written; here they hold what earlier events, caps and expiries left.    *)
(***************************************************************************)
EXTENDS Naturals, FiniteSets

CONSTANTS
    Item,       \* ids, in the order they are given out: 1 .. n
    Author,     \* whom the reader of the follow feed may follow
    MaxTime,    \* the times, to the millisecond, that matter
    Limit,      \* items on a page
    Extra,      \* followCandidateExtra
    MaxLen,     \* followInboxMaxLen and followOutboxMaxLen
    MaxChange   \* bound on what happens to a list while it is read, by list

List == {"following", "feed", "mine", "author", "messages", "follow"}

ASSUME ItemAssumption == IsFiniteSet(Item) /\ Item \subseteq Nat \ {0}
ASSUME AuthorAssumption == Author # {} /\ "inbox" \notin Author
ASSUME PageAssumption == Limit \in Nat \ {0} /\ Extra \in Nat /\ MaxLen \in Nat \ {0}
ASSUME BoundAssumption == MaxTime \in Nat /\ MaxChange \in [List -> Nat]

VARIABLES
    list,       \* the list that is read
    at,         \* created_at, or last_at of a notification
    by,         \* author_id
    last,       \* the last id given out
    rows,       \* the rows there are
    hidden,     \* those of videos that are not published
    follows,    \* the Redis set  follow:<reader>
    zset,       \* the reader's inbox and the outboxes of the authors
    request,    \* the request for a page of the follow feed, between two steps
    cursor,     \* the fields of the last item shown, <<>> before the first
    ended,      \* the reader was told, or found, that nothing is left
    changes,    \* how often something happened to the list
    \* History, read by the properties only:
    shown,      \* the items shown
    moved,      \* those that got another time since
    window,     \* what was visible, and followed, since the request was received
    stay,       \* <<w, i>>: i was in w since before the first page and is not shown yet
    excused     \* items that a query or a range is known to have left out

scroll == <<cursor, ended, shown>>
index == <<follows, zset>>
table == <<last, rows, hidden>>
vars == <<list, at, by, last, rows, hidden, follows, zset, request, cursor, ended, changes,
          shown, moved, window, stay, excused>>

Idle == [pc |-> "idle"]
Inbox == "inbox"
ZSet == Author \union {Inbox}

-----------------------------------------------------------------------------
(* Order and cut *)

\* The fields a list is sorted by: the lists of relations go by id alone.
Key(i) == IF list = "following" THEN <<0, i>> ELSE <<at[i], i>>

After(a, b) == b[1] < a[1] \/ (b[1] = a[1] /\ b[2] < a[2])

\* ORDER BY ... LIMIT n, and sort.Slice followed by a cut.
First(n, S) == {i \in S : Cardinality({j \in S : After(Key(j), Key(i))}) < n}

\* The first n of a ZSET by score: members with one score are in the order of
\* their strings, "9:1" before "10:1", which is as good as any.
Heads(n, S) ==
    {T \in SUBSET S :
        /\ Cardinality(T) = IF Cardinality(S) < n THEN Cardinality(S) ELSE n
        /\ \A i \in T, j \in S \ T : at[i] >= at[j]}

Visible == IF list = "mine" THEN rows ELSE rows \ hidden
Wanted(authors) == {i \in Item : list # "follow" \/ by[i] \in authors}

\* i is to be found in w: in a ZSET, or in a table that is read by query.
Found(w, i, there, authors, sets) ==
    /\ i \in there
    /\ IF list = "follow" THEN by[i] \in authors /\ i \in sets[w] ELSE w = Inbox

Standing == {p \in ZSet \X Item : Found(p[1], p[2], Visible, follows, zset)}

\* Rows take their time when the statement starts and their id when it runs:
\* two that run together may get them in opposite orders.
Times == {t \in [Item -> 1 .. MaxTime] :
            \A i \in Item : i + 1 \in Item => t[i + 1] + 1 >= t[i] /\ t[i + 1] <= t[i] + 1}

\* Lists of videos, or of what is joined with them: a row may be left out.
WithStatus == {"feed", "mine", "author", "follow"}

\* The index as events leave it: the authors in big have an outbox, what the
\* others published is in the inbox.
Indexed(big) ==
    [z \in ZSet |-> IF z = Inbox THEN First(MaxLen, {i \in rows : by[i] \notin big})
                    ELSE IF z \in big THEN First(MaxLen, {i \in rows : by[i] = z})
                    ELSE {}]

SomeAuthor == CHOOSE a \in Author : TRUE

InitFollowFeed ==
    /\ rows = Item /\ \A i, j \in Item : i < j => at[i] <= at[j]
    /\ \E n \in {0, Extra + 1} : hidden = First(n, rows)
    /\ by \in [Item -> Author] /\ by[1] = SomeAuthor /\ follows = Author
    /\ \E big \in SUBSET Author : zset = Indexed(big)

InitTable ==
    /\ rows = {i \in Item : i <= last}
    /\ hidden \in SUBSET (IF list \in WithStatus THEN rows ELSE {})
    /\ by = [i \in Item |-> SomeAuthor]
    /\ follows = {} /\ zset = [z \in ZSet |-> {}]

Init ==
    /\ list \in List
    /\ at \in Times
    /\ last \in Item \union {0}
    /\ IF list = "follow" THEN last = Cardinality(Item) /\ InitFollowFeed ELSE InitTable
    /\ request = Idle /\ cursor = <<>> /\ ended = FALSE /\ changes = 0
    /\ shown = {} /\ moved = {} /\ window = [open |-> {}, wanted |-> {}]
    /\ stay = Standing /\ excused = {}

-----------------------------------------------------------------------------
(* What happens to a list while it is read *)

Happens ==
    /\ changes < MaxChange[list] /\ ~ended
    /\ changes' = changes + 1
    /\ UNCHANGED <<list, by, request, scroll, excused>>

\* What was found all the time, and what could be seen since the request came.
Watched(still) ==
    /\ stay' = (stay \intersect Standing') \intersect still
    /\ window' = IF request = Idle THEN window
                 ELSE [open |-> window.open \union Visible', wanted |-> window.wanted \union follows']

\* A new row; a video is not published yet.
Insert ==
    /\ Happens
    /\ last + 1 \in Item
    /\ last' = last + 1
    /\ rows' = rows \union {last'}
    /\ hidden' = IF list \in WithStatus THEN hidden \union {last'} ELSE hidden
    /\ UNCHANGED <<at, index, moved>>
    /\ Watched(ZSet \X Item)

\* Published, made private, made public again.
SwitchStatus(i) ==
    /\ Happens
    /\ list \in WithStatus /\ i \in rows
    /\ hidden' = IF i \in hidden THEN hidden \ {i} ELSE hidden \union {i}
    /\ UNCHANGED <<at, last, rows, index, moved>>
    /\ Watched(ZSet \X Item)

\* A video, a comment, a like or a relation is gone; the index keeps it.
Delete(i) ==
    /\ Happens
    /\ i \in rows
    /\ rows' = rows \ {i} /\ hidden' = hidden \ {i}
    /\ UNCHANGED <<at, last, index, moved>>
    /\ Watched(ZSet \X Item)

\* UpsertThread: the notification takes the time of the event handled last,
\* which need not be the latest event.
Move(i) ==
    /\ Happens
    /\ list = "messages" /\ i \in rows
    /\ \E t \in 1 .. MaxTime : t # at[i] /\ at' = [at EXCEPT ![i] = t]
    /\ moved' = moved \union ({i} \intersect shown)
    /\ UNCHANGED <<table, index>>
    /\ Watched(ZSet \X (Item \ {i}))

SetFollow(a) ==
    /\ Happens
    /\ list = "follow"
    /\ follows' = IF a \in follows THEN follows \ {a} ELSE follows \union {a}
    /\ UNCHANGED <<at, table, zset, moved>>
    /\ Watched(ZSet \X Item)

\* Mutant: the oldest are not cut off.
Kept_All(S) == {S}

\* ZREMRANGEBYRANK down to MaxLen.
Kept(S) == Heads(MaxLen, S)

\* ZADD and the cut; a member that is there is no change.
Push(z, new) ==
    /\ Happens
    /\ list = "follow"
    /\ \E kept \in Kept(zset[z] \union new) : zset' = [zset EXCEPT ![z] = kept]
    /\ zset' # zset
    /\ UNCHANGED <<at, table, follows, moved>>
    /\ Watched(ZSet \X Item)

PushInboxItems(i) == i \in rows /\ Push(Inbox, {i})
PushOutboxItem(i) == i \in rows /\ Push(by[i], {i})

\* HandleFollowSwitched: followBackfillLimit is not below the author's videos here.
PushInboxItemsForFollower(a) == Push(Inbox, {i \in rows \ hidden : by[i] = a})

\* followIndexTTL has passed since the last push.
Expire(z) ==
    /\ Happens
    /\ zset[z] # {}
    /\ zset' = [zset EXCEPT ![z] = {}]
    /\ UNCHANGED <<at, table, follows, moved>>
    /\ Watched(ZSet \X Item)

-----------------------------------------------------------------------------
(* What a page shows *)

NoChange == UNCHANGED <<list, at, by, table, index, changes>>

\* The client asks again with the fields of the last item it got.
LastKey(page) == Key(CHOOSE i \in page : \A j \in page \ {i} : After(Key(j), Key(i)))

Show(page, more) ==
    /\ shown' = shown \union page /\ moved' = moved \ page
    /\ stay' = stay \ (ZSet \X page)
    /\ cursor' = IF page = {} THEN cursor ELSE LastKey(page)
    /\ ended' = ~more
    /\ request' = Idle /\ window' = [open |-> {}, wanted |-> {}]
    /\ NoChange

\* One more row than a page is read to learn whether there is another page.
Counted(S) == Show(First(Limit, First(Limit + 1, S)), Cardinality(S) > Limit)

\* Nothing says so: the reader finds the end in an empty page.
Uncounted(S) == Show(First(Limit, S), S # {})

\* WHERE id < ?
ByID(S) == {i \in S : cursor = <<>> \/ i < cursor[2]}

\* WHERE created_at <= ? AND id < ?
ByTime(S) == {i \in S : cursor = <<>> \/ (at[i] <= cursor[1] /\ i < cursor[2])}

\* Those of S that come later in the list and have a higher id.
Inverted(S) == {i \in S : cursor # <<>> /\ at[i] < cursor[1] /\ i > cursor[2]}

\* WHERE last_at < ? OR (last_at = ? AND id < ?)
ByTimeOrID(S) == {i \in S : cursor = <<>> \/ After(cursor, <<at[i], i>>)}

-----------------------------------------------------------------------------
(* Lists that are one query *)

Ask(of) == list = of /\ request = Idle /\ ~ended

ListFollowing == Ask("following") /\ Counted(ByID(Visible)) /\ UNCHANGED excused
ListFollowers == Ask("following") /\ Counted(ByID(Visible)) /\ UNCHANGED excused

CountedByTime == Counted(ByTime(Visible)) /\ excused' = excused \union Inverted(Visible)
UncountedByTime(S) == Uncounted(ByTime(S)) /\ excused' = excused \union Inverted(S)

ListAuthorVideos == Ask("author") /\ CountedByTime
ListMyLikedVideos == Ask("author") /\ CountedByTime
ListMyFavorites == Ask("author") /\ CountedByTime
ListByVideo == Ask("author") /\ CountedByTime
ListReplies == Ask("author") /\ CountedByTime

GetFeedVideos == Ask("feed") /\ UncountedByTime(Visible)
GetMyVideos == Ask("mine") /\ UncountedByTime(Visible)

ListMine == Ask("messages") /\ Uncounted(ByTimeOrID(Visible)) /\ UNCHANGED excused

-----------------------------------------------------------------------------
(* The follow feed *)

Step(next) == request' = next /\ NoChange /\ UNCHANGED <<scroll, moved, stay, excused>>

\* FollowingIDs; who follows nobody is shown nothing.
GetFollowFeedVideos ==
    /\ Ask("follow")
    /\ \/ follows = {} /\ Show({}, FALSE) /\ UNCHANGED excused
       \/ /\ follows # {}
          /\ Step([pc |-> "keys", f |-> follows])
          /\ window' = [open |-> Visible, wanted |-> follows]

\* Authors with an outbox are read there, the others are in the inbox.
HasOutbox ==
    /\ request.pc = "keys"
    /\ Step([pc |-> "range", f |-> request.f,
             keys |-> {Inbox} \union {a \in request.f : zset[a] # {}}])
    /\ UNCHANGED window

\* Mutant: no more candidates than the page has items.
Count_NoExtra == Limit

\* How many members are taken of every ZSET.
Count == Limit + Extra

\* ZREVRANGEBYSCORE up to the time of the cursor.
Taken(z) == Heads(Count, {i \in zset[z] : cursor = <<>> \/ at[i] <= cursor[1]})

\* One pipeline reads them all.
FollowPage ==
    /\ request.pc = "range"
    /\ \E pick \in [request.keys -> UNION {Taken(z) : z \in request.keys}] :
          /\ \A z \in request.keys : pick[z] \in Taken(z)
          /\ Step(IF \A z \in request.keys : pick[z] = {}
                  THEN [pc |-> "table", f |-> request.f]
                  ELSE [pc |-> "rows", f |-> request.f, pick |-> pick])
    /\ UNCHANGED window

\* Mutant: what has the time of the last item is taken again.
Fresh_Ties(S) == {i \in S : by[i] \in request.f}

\* What was picked of followed authors and comes after the cursor.
Fresh(S) == {i \in S : by[i] \in request.f /\ (cursor = <<>> \/ After(cursor, <<at[i], i>>))}

\* Members that a range left out for members that are not shown, and those a
\* range could as well have taken.
LeftOut(pick) ==
    UNION {{i \in zset[z] \ pick[z] :
              \/ Cardinality(pick[z] \ (Fresh(pick[z]) \intersect Visible)) > Extra
              \/ \E j \in pick[z] : at[j] = at[i]} : z \in DOMAIN pick}

\* The rows of the picked members, in the order of the index.
FilterByIDs ==
    /\ request.pc = "rows"
    /\ LET pick == request.pick
           found == First(Count, Fresh(UNION {pick[z] : z \in DOMAIN pick})) \intersect Visible
       IN  \/ /\ found = {}
              /\ Step([pc |-> "table", f |-> request.f])
              /\ UNCHANGED window
           \/ /\ found # {}
              /\ Show(First(Limit, found), TRUE)
              /\ excused' = excused \union LeftOut(pick)

\* listFollowFeedFromTable, when the index gave nothing to show.
ListFollowFeedFromTable ==
    /\ request.pc = "table"
    /\ UncountedByTime({i \in Visible : by[i] \in request.f})

-----------------------------------------------------------------------------
Read ==
    \/ ListFollowing
    \/ ListFollowers
    \/ ListAuthorVideos
    \/ ListMyLikedVideos
    \/ ListMyFavorites
    \/ ListByVideo
    \/ ListReplies
    \/ GetFeedVideos
    \/ GetMyVideos
    \/ ListMine
    \/ GetFollowFeedVideos
    \/ HasOutbox
    \/ FollowPage
    \/ FilterByIDs
    \/ ListFollowFeedFromTable

Next ==
    \/ Insert
    \/ \E i \in Item : SwitchStatus(i)
    \/ \E i \in Item : Delete(i)
    \/ \E i \in Item : Move(i)
    \/ \E a \in Author : SetFollow(a)
    \/ \E i \in Item : PushInboxItems(i)
    \/ \E i \in Item : PushOutboxItem(i)
    \/ \E a \in Author : PushInboxItemsForFollower(a)
    \/ \E z \in ZSet : Expire(z)
    \/ Read

Spec == Init /\ [][Next]_vars

-----------------------------------------------------------------------------
(* Properties *)

\* The values the variables take.
TypeOK ==
    /\ list \in List /\ at \in [Item -> 1 .. MaxTime] /\ by \in [Item -> Author]
    /\ last \in Nat /\ rows \in SUBSET Item /\ hidden \in SUBSET rows
    /\ follows \in SUBSET Author
    /\ zset \in [ZSet -> SUBSET Item] /\ \A z \in ZSet : Cardinality(zset[z]) <= MaxLen
    /\ request.pc \in {"idle", "keys", "range", "rows", "table"}
    /\ cursor = <<>> \/ cursor \in (0 .. MaxTime) \X Item
    /\ ended \in BOOLEAN /\ changes \in 0 .. MaxChange[list]
    /\ shown \in SUBSET Item /\ moved \in SUBSET shown
    /\ stay \in SUBSET (ZSet \X Item) /\ excused \in SUBSET Item

\* A reader who scrolls to the end is shown whatever was there all the time,
\* whatever came, went, was hidden or moved meanwhile.  Left out are only items
\* whose id and time disagree with those of a page's last item, and in the
\* follow feed those a range had no room for: more than Extra of the members it
\* took were not to be shown, or it had to choose between equal scores.
NothingSkipped ==
    \A p \in stay :
        \/ p[2] \in excused
        \/ ~ended /\ (cursor = <<>> \/ After(cursor, Key(p[2])))

\* Every list is read as Listing promises, though a page of the follow feed is
\* put together of several reads: no page shows what was neither visible nor
\* followed since the request came, or what was on an earlier page.
Promise ==
    INSTANCE Listing WITH
        key <- [i \in Item |-> Key(i)],
        open <- Visible,
        wanted <- Wanted(follows),
        pending <- request # Idle,
        window <- IF request = Idle
                  THEN [open |-> Visible, wanted |-> Wanted(follows)]
                  ELSE [open |-> window.open, wanted |-> Wanted(window.wanted)],
        floor <- cursor

Implements == Promise!Spec
=============================================================================
