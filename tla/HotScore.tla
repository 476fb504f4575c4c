------------------------------ MODULE HotScore ------------------------------
(***************************************************************************)
(* The heat of one video (modules/feed): likes, favourites and comments    *)
(* add points to a bucket per minute, and the ranking sums the buckets of  *)
(* the last minutes.  A source is a user together with a kind of           *)
(* interaction; its points in the window are to count once, however often  *)
(* it interacts and however often the broker delivers each event.          *)
(*                                                                         *)
(* The handler computes how long the mark of the source has to live and    *)
(* then runs the Lua script that sets the mark and adds the points.        *)
(***************************************************************************)
EXTENDS Naturals

CONSTANTS
    Source,     \* pairs of a user and a hotType
    Worker,     \* listener threads of the group "feed"
    Minutes,    \* HotRetentionMinutes: length of the widest window
    M,          \* ticks of the clock in a minute
    Delay,      \* the longest from computing markTTL to the script's end
    Skew,       \* how far the clock that stamped an event may be ahead
    MaxTime,    \* bound on the clock
    MaxEvents   \* bound on the interactions

ASSUME TimeAssumption ==
    /\ Minutes \in Nat \ {0} /\ M \in Nat \ {0}
    /\ Delay \in Nat /\ Skew \in Nat /\ MaxTime \in Nat /\ MaxEvents \in Nat

VARIABLES
    now,        \* the clock
    inbox,      \* the events the group "feed" has not acknowledged
    work,       \* the workers between score and ScoreOnce's script
    mark,       \* mark[s]: when feed:hot:mark of s expires
    points,     \* points[s][m]: how often s was counted in the bucket of m
    bucketEnd,  \* bucketEnd[m]: when the bucket of minute m expires
    merged,     \* the merge key: its minute, and the sources it counts
    events,     \* how many interactions there were
    \* History, read by the properties only:
    counted     \* the interactions the script has counted, and when

vars == <<now, inbox, work, mark, points, bucketEnd, merged, events, counted>>

\* Mutant: the minute of the event itself is not retained.
Retention_Short == (Minutes - 1) * M

Retention == Minutes * M
Minute(t) == t \div M
Bucket == 0 .. Minute(MaxTime)

\* The minutes a query may sum; a narrower interval reads fewer.
InWindow(m) == m <= Minute(now) /\ Minute(now) < m + Minutes

Event == [s : Source, at : Nat]
Idle == [pc |-> "idle"]
Work == [pc : {"script"}, e : Event, at : Nat, ttl : Nat, since : Nat]
Counted == [s : Source, at : Nat, t : Nat]

Init ==
    /\ now = 0
    /\ inbox = {}
    /\ work = [w \in Worker |-> Idle]
    /\ mark = [s \in Source |-> 0]
    /\ points = [s \in Source |-> [m \in Bucket |-> 0]]
    /\ bucketEnd = [m \in Bucket |-> 0]
    /\ merged = [minute |-> 0, top |-> {}]
    /\ events = 0
    /\ counted = {}

-----------------------------------------------------------------------------
\* A like, favourite or comment is published with the time it happened.
Interact(s) ==
    /\ events < MaxEvents
    /\ events' = events + 1
    /\ \E at \in now .. now + Skew : inbox' = inbox \union {[s |-> s, at |-> at]}
    /\ UNCHANGED <<now, work, mark, points, bucketEnd, merged, counted>>

\* Acknowledged, or delivered again.
Settle(e) == inbox' \in {inbox \ {e}, inbox}

\* Mutant: the bucket is that of the time the event claims.
HappenedAt_Unclamped(e) == e.at

\* A time ahead of the clock counts as now.
HappenedAt(e) == IF e.at > now THEN now ELSE e.at

\* score: an event older than the retention is dropped; for another, the mark
\* is to live as long as the minute of the event can be read.
TooOld(w, e) ==
    /\ work[w].pc = "idle"
    /\ e \in inbox
    /\ now - HappenedAt(e) >= Retention
    /\ Settle(e)
    /\ UNCHANGED <<now, work, mark, points, bucketEnd, merged, events, counted>>

\* Mutants: no event is too old; a late event marks for the whole retention.
Score_NoCutoff(w, e) ==
    /\ work[w].pc = "idle"
    /\ e \in inbox
    /\ work' = [work EXCEPT ![w] =
          [pc |-> "script", e |-> e, at |-> HappenedAt(e),
           ttl |-> Retention - (now - HappenedAt(e)), since |-> now]]
    /\ UNCHANGED <<now, inbox, mark, points, bucketEnd, merged, events, counted>>

Score_FullTtl(w, e) ==
    /\ work[w].pc = "idle"
    /\ e \in inbox
    /\ now - HappenedAt(e) < Retention
    /\ work' = [work EXCEPT ![w] =
          [pc |-> "script", e |-> e, at |-> HappenedAt(e), ttl |-> Retention, since |-> now]]
    /\ UNCHANGED <<now, inbox, mark, points, bucketEnd, merged, events, counted>>

Score(w, e) ==
    /\ work[w].pc = "idle"
    /\ e \in inbox
    /\ now - HappenedAt(e) < Retention
    /\ work' = [work EXCEPT ![w] =
          [pc |-> "script", e |-> e, at |-> HappenedAt(e),
           ttl |-> Retention - (now - HappenedAt(e)), since |-> now]]
    /\ UNCHANGED <<now, inbox, mark, points, bucketEnd, merged, events, counted>>

Marked(s) == now < mark[s]

\* The script finds the mark: nothing is counted.
ScoredBefore(w) ==
    /\ work[w].pc = "script"
    /\ Marked(work[w].e.s)
    /\ Settle(work[w].e)
    /\ work' = [work EXCEPT ![w] = Idle]
    /\ UNCHANGED <<now, mark, points, bucketEnd, merged, events, counted>>

\* The script sets the mark, adds the points and keeps the bucket; an answer
\* that is lost has the event delivered again.
ScoreOnce(w) ==
    LET s == work[w].e.s
        m == Minute(work[w].at)
    IN  /\ work[w].pc = "script"
        /\ ~Marked(s)
        /\ mark' = [mark EXCEPT ![s] = now + work[w].ttl]
        /\ points' = [points EXCEPT ![s][m] = @ + 1]
        /\ bucketEnd' = [bucketEnd EXCEPT ![m] = now + Retention]
        /\ counted' = counted \union {[s |-> s, at |-> work[w].at, t |-> now]}
        /\ Settle(work[w].e)
        /\ work' = [work EXCEPT ![w] = Idle]
        /\ UNCHANGED <<now, merged, events>>

\* HandleVideoDeleted: the buckets of the retention forget the video.
RemoveFromHotBuckets ==
    /\ points' = [s \in Source |-> [m \in Bucket |-> IF InWindow(m) THEN 0 ELSE points[s][m]]]
    /\ counted' = {}
    /\ UNCHANGED <<now, inbox, work, mark, bucketEnd, merged, events>>

\* Mutant: the oldest minute of the window is left out.
HotPage_ShortWindow ==
    /\ merged.minute # Minute(now) \/ merged.top = {}
    /\ merged' = [minute |-> Minute(now),
                  top |-> {s \in Source : \E m \in Bucket :
                              InWindow(m) /\ Minute(now) + 1 < m + Minutes /\ points[s][m] > 0}]
    /\ UNCHANGED <<now, inbox, work, mark, points, bucketEnd, events, counted>>

\* HotPage: without a key for this minute, or with an empty one, the buckets
\* are summed.
HotPage ==
    /\ merged.minute # Minute(now) \/ merged.top = {}
    /\ merged' = [minute |-> Minute(now),
                  top |-> {s \in Source : \E m \in Bucket : InWindow(m) /\ points[s][m] > 0}]
    /\ UNCHANGED <<now, inbox, work, mark, points, bucketEnd, events, counted>>

\* A bucket goes when its time comes; a script does not take longer than Delay.
Tick ==
    /\ now < MaxTime
    /\ \A w \in Worker : work[w].pc = "script" => now < work[w].since + Delay
    /\ now' = now + 1
    /\ points' = [s \in Source |->
          [m \in Bucket |-> IF bucketEnd[m] <= now + 1 THEN 0 ELSE points[s][m]]]
    /\ UNCHANGED <<inbox, work, mark, bucketEnd, merged, events, counted>>

Next ==
    \/ \E s \in Source : Interact(s)
    \/ \E w \in Worker :
          \/ \E e \in inbox : TooOld(w, e) \/ Score(w, e)
          \/ ScoredBefore(w)
          \/ ScoreOnce(w)
    \/ RemoveFromHotBuckets
    \/ HotPage
    \/ Tick

Spec == Init /\ [][Next]_vars

-----------------------------------------------------------------------------
(* Properties *)

\* The values every variable takes.
TypeOK ==
    /\ now \in 0 .. MaxTime
    /\ inbox \subseteq Event
    /\ work \in [Worker -> Work \union {Idle}]
    /\ mark \in [Source -> Nat]
    /\ points \in [Source -> [Bucket -> Nat]]
    /\ bucketEnd \in [Bucket -> Nat]
    /\ merged \in [minute : Nat, top : SUBSET Source]
    /\ events \in Nat
    /\ counted \subseteq Counted

\* The comment on scoreOnceScript: in every window that can be asked for, a
\* source counts once, however its events are repeated, reordered or delayed.
CountsOncePerWindow ==
    \A s \in Source : \A m, n \in Bucket :
        InWindow(m) /\ InWindow(n) /\ points[s][m] > 0 /\ points[s][n] > 0
            => m = n /\ points[s][m] = 1

\* The comment on HotRetentionMinutes: what was counted is kept as long as a
\* window may ask for it, unless the video was removed.  In the code nothing else
\* takes points back, and HandleLikeSwitched, HandleFavoriteSwitched and
\* HandleCommentCreated say so; the API document (section 7) says that an unlike
\* and the deletion of a comment do.
KeptForTheWindow ==
    \A c \in counted : InWindow(Minute(c.at)) => points[c.s][Minute(c.at)] > 0

\* A mark silences its source no longer than the window shows its points, up to
\* the time the script took.
MarkEndsWithWindow ==
    \A s \in Source : \A c \in counted :
        c.s = s /\ (\A d \in counted : d.s = s => d.t <= c.t)
            => mark[s] <= c.at + Retention + Delay

\* The comment on maxHotInterval: the page of this minute shows what had been
\* counted when the minute began.
PageLagsAMinute ==
    merged.minute = Minute(now) /\ merged.top # {} =>
        \A c \in counted : Minute(c.t) < merged.minute /\ InWindow(Minute(c.at)) => c.s \in merged.top
=============================================================================
