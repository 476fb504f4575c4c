--------------------------- MODULE HotScoreProofs ---------------------------
(***************************************************************************)
(* That a source counts once in every window, for every retention, every   *)
(* length of a minute, every delay and any number of sources, workers and  *)
(* events; and that what was counted stays, and is shown, while a window   *)
(* may ask for it.  The mark of a source outlives the window that shows    *)
(* its points because its life is counted from the event and not from the  *)
(* script.                                                                 *)
(***************************************************************************)
EXTENDS HotScore, TLAPS

\* A worker that is about to run the script has a life for the mark that
\* reaches from when it was computed to the end of the event's retention.
WorkInv ==
    \A w \in Worker : work[w].pc = "script" =>
        /\ work[w].at <= work[w].since /\ work[w].since <= now
        /\ work[w].at + Retention <= work[w].since + work[w].ttl

\* Whoever has points in a bucket is marked until no window reads the bucket.
MarkInv ==
    \A s \in Source, m \in Bucket : points[s][m] > 0 =>
        m <= Minute(now) /\ (m + Minutes) * M <= mark[s]

\* That life reaches no further than the retention, is not over when it begins,
\* and the script runs within Delay.
LifeInv ==
    \A w \in Worker : work[w].pc = "script" =>
        /\ work[w].since + work[w].ttl = work[w].at + Retention /\ work[w].ttl > 0
        /\ now <= work[w].since + Delay

\* What was counted was counted in the past, its bucket is kept until no window
\* reads it, and its source has been marked beyond that moment.
CountedInv ==
    \A c \in counted :
        /\ c.at <= c.t /\ c.t <= now
        /\ (Minute(c.at) + Minutes) * M <= bucketEnd[Minute(c.at)]
        /\ c.t < mark[c.s]

IInv ==
    /\ TypeOK /\ WorkInv /\ MarkInv /\ CountsOncePerWindow
    /\ LifeInv /\ CountedInv /\ merged.minute <= Minute(now)
    /\ KeptForTheWindow /\ MarkEndsWithWindow /\ PageLagsAMinute

-----------------------------------------------------------------------------
(* Minutes *)

LEMMA DivBounds ==
    ASSUME NEW t \in Nat
    PROVE  Minute(t) \in Nat /\ Minute(t) * M <= t /\ t < (Minute(t) + 1) * M
  BY TimeAssumption DEF Minute

LEMMA MulMono ==
    ASSUME NEW a \in Nat, NEW b \in Nat, a <= b
    PROVE  a * M <= b * M
  BY TimeAssumption

LEMMA MulCancel ==
    ASSUME NEW a \in Nat, NEW b \in Nat, a * M < b * M
    PROVE  a < b
  BY TimeAssumption

LEMMA MinuteMono ==
    ASSUME NEW t \in Nat, NEW u \in Nat, t <= u
    PROVE  Minute(t) <= Minute(u)
<1>1. Minute(t) * M < (Minute(u) + 1) * M
  BY DivBounds, TimeAssumption
<1>2. QED
  BY <1>1, MulCancel, DivBounds

\* A bucket whose last moment has passed is in no window.
LEMMA WindowEnds ==
    ASSUME NEW m \in Nat, NEW t \in Nat, (m + Minutes) * M <= t
    PROVE  m + Minutes <= Minute(t)
<1>1. (m + Minutes) * M < (Minute(t) + 1) * M
  BY DivBounds, TimeAssumption
<1>2. QED
  BY <1>1, MulCancel, DivBounds, TimeAssumption

LEMMA BucketType == Bucket \subseteq Nat /\ \A t \in 0 .. MaxTime : Minute(t) \in Bucket
  BY DivBounds, MinuteMono, TimeAssumption DEF Bucket

-----------------------------------------------------------------------------
LEMMA InitInv == Init => IInv
<1> SUFFICES ASSUME Init PROVE IInv
  OBVIOUS
<1>1. TypeOK
  BY TimeAssumption DEF Init, TypeOK, Idle
<1>2. WorkInv /\ MarkInv /\ CountsOncePerWindow
  BY DEF Init, WorkInv, MarkInv, CountsOncePerWindow, Idle
<1>3. LifeInv /\ CountedInv /\ KeptForTheWindow /\ MarkEndsWithWindow /\ PageLagsAMinute
  BY DEF Init, LifeInv, CountedInv, KeptForTheWindow, MarkEndsWithWindow, PageLagsAMinute, Idle
<1>4. merged.minute <= Minute(now)
  BY DivBounds DEF Init
<1>5. QED
  BY <1>1, <1>2, <1>3, <1>4 DEF IInv

LEMMA RetentionType == Retention \in Nat
  BY TimeAssumption DEF Retention

\* Types.
LEMMA TypeNext == TypeOK /\ WorkInv /\ [Next]_vars => TypeOK'
<1> SUFFICES ASSUME TypeOK, WorkInv, [Next]_vars PROVE TypeOK'
  OBVIOUS
<1> USE TimeAssumption, RetentionType DEF TypeOK, Event, Idle
<1>1. ASSUME NEW s \in Source, Interact(s)  PROVE TypeOK'
  BY <1>1 DEF Interact
<1>2. ASSUME NEW w \in Worker, NEW e \in inbox, TooOld(w, e)  PROVE TypeOK'
  BY <1>2 DEF TooOld, Settle
<1>3. ASSUME NEW w \in Worker, NEW e \in inbox, Score(w, e)  PROVE TypeOK'
  <2>1. HappenedAt(e) \in Nat /\ HappenedAt(e) <= now
    BY DEF HappenedAt
  <2>2. Retention - (now - HappenedAt(e)) \in Nat
    BY <1>3, <2>1 DEF Score
  <2>3. QED
    BY <1>3, <2>1, <2>2 DEF Score, Work
<1>4. ASSUME NEW w \in Worker, ScoredBefore(w)  PROVE TypeOK'
  BY <1>4 DEF ScoredBefore, Settle
<1>5. ASSUME NEW w \in Worker, ScoreOnce(w)  PROVE TypeOK'
  <2>1. work[w] \in Work
    BY <1>5 DEF ScoreOnce
  <2>2. work[w].at \in 0 .. MaxTime /\ work[w].ttl \in Nat /\ work[w].e \in Event
    BY <1>5, <2>1 DEF ScoreOnce, Work, WorkInv
  <2>3. Minute(work[w].at) \in Bucket
    BY <2>2, BucketType
  <2>4. mark' \in [Source -> Nat]
    BY <1>5, <2>2 DEF ScoreOnce
  <2>5. points' \in [Source -> [Bucket -> Nat]]
    BY <1>5, <2>2, <2>3 DEF ScoreOnce
  <2>6. counted' \subseteq Counted
    BY <1>5, <2>2 DEF ScoreOnce, Counted
  <2>7. bucketEnd' \in [Bucket -> Nat] /\ inbox' \subseteq Event
    BY <1>5, <2>2, <2>3 DEF ScoreOnce, Settle
  <2>8. QED
    BY <1>5, <2>4, <2>5, <2>6, <2>7 DEF ScoreOnce
<1>6. CASE RemoveFromHotBuckets
  BY <1>6 DEF RemoveFromHotBuckets, Counted
<1>7. CASE HotPage
  BY <1>7, DivBounds DEF HotPage
<1>8. CASE Tick
  BY <1>8 DEF Tick
<1>9. CASE UNCHANGED vars
  BY <1>9 DEF vars
<1>10. QED
  BY <1>1, <1>2, <1>3, <1>4, <1>5, <1>6, <1>7, <1>8, <1>9 DEF Next

LEMMA WorkNext == TypeOK /\ WorkInv /\ [Next]_vars => WorkInv'
<1> SUFFICES ASSUME TypeOK, WorkInv, [Next]_vars PROVE WorkInv'
  OBVIOUS
<1> USE TimeAssumption, RetentionType DEF TypeOK, WorkInv, Event, Idle, Work
<1>1. ASSUME NEW s \in Source, Interact(s)  PROVE WorkInv'
  BY <1>1 DEF Interact
<1>2. ASSUME NEW w \in Worker, NEW e \in inbox, TooOld(w, e)  PROVE WorkInv'
  BY <1>2 DEF TooOld
<1>3. ASSUME NEW w \in Worker, NEW e \in inbox, Score(w, e)  PROVE WorkInv'
  <2>1. HappenedAt(e) \in Nat /\ HappenedAt(e) <= now
    BY DEF HappenedAt
  <2>2. QED
    BY <1>3, <2>1 DEF Score
<1>4. ASSUME NEW w \in Worker, ScoredBefore(w)  PROVE WorkInv'
  BY <1>4 DEF ScoredBefore
<1>5. ASSUME NEW w \in Worker, ScoreOnce(w)  PROVE WorkInv'
  BY <1>5 DEF ScoreOnce
<1>6. CASE RemoveFromHotBuckets
  BY <1>6 DEF RemoveFromHotBuckets
<1>7. CASE HotPage
  BY <1>7 DEF HotPage
<1>8. CASE Tick
  BY <1>8 DEF Tick
<1>9. CASE UNCHANGED vars
  BY <1>9 DEF vars
<1>10. QED
  BY <1>1, <1>2, <1>3, <1>4, <1>5, <1>6, <1>7, <1>8, <1>9 DEF Next

-----------------------------------------------------------------------------
(* Points *)

\* A source without a mark has no points in the window.
LEMMA Unmarked ==
    ASSUME TypeOK, MarkInv, NEW s \in Source, ~Marked(s), NEW m \in Bucket, InWindow(m)
    PROVE  points[s][m] = 0
<1> SUFFICES ASSUME points[s][m] > 0 PROVE FALSE
  BY DEF TypeOK
<1>1. (m + Minutes) * M <= now
  BY BucketType, TimeAssumption DEF MarkInv, Marked, TypeOK
<1>2. m + Minutes <= Minute(now)
  BY <1>1, WindowEnds, BucketType DEF TypeOK
<1>3. QED
  BY <1>2, BucketType, DivBounds, TimeAssumption DEF InWindow, TypeOK

\* The script sets a mark that lasts as long as the bucket it counts in.
LEMMA ScriptMarks ==
    ASSUME TypeOK, WorkInv, NEW w \in Worker, work[w].pc = "script"
    PROVE  /\ Minute(work[w].at) \in Bucket /\ Minute(work[w].at) <= Minute(now)
           /\ (Minute(work[w].at) + Minutes) * M <= now + work[w].ttl
<1>1. work[w] \in Work
  BY DEF TypeOK, Idle
<1> DEFINE at == work[w].at
           m == Minute(at)
<1>2. at \in Nat /\ at <= now /\ work[w].ttl \in Nat /\ at + Retention <= now + work[w].ttl
  BY <1>1, RetentionType DEF WorkInv, TypeOK, Work
<1>3. m \in Bucket /\ m <= Minute(now) /\ m \in Nat /\ m * M <= at
  BY <1>2, BucketType, MinuteMono, DivBounds, TimeAssumption DEF TypeOK
<1>4. (m + Minutes) * M = m * M + Retention
  BY <1>3, TimeAssumption DEF Retention
<1>5. QED
  BY <1>2, <1>3, <1>4, RetentionType, TimeAssumption DEF TypeOK

LEMMA PointsNext ==
    TypeOK /\ WorkInv /\ MarkInv /\ CountsOncePerWindow /\ [Next]_vars
        => MarkInv' /\ CountsOncePerWindow'
<1> SUFFICES ASSUME TypeOK, WorkInv, MarkInv, CountsOncePerWindow, [Next]_vars
             PROVE  MarkInv' /\ CountsOncePerWindow'
  OBVIOUS
<1>1. ASSUME UNCHANGED <<now, mark, points>>  PROVE MarkInv' /\ CountsOncePerWindow'
  BY <1>1 DEF MarkInv, CountsOncePerWindow, InWindow
<1>2. ASSUME NEW w \in Worker, ScoreOnce(w)  PROVE MarkInv' /\ CountsOncePerWindow'
  <2> DEFINE s == work[w].e.s
             m == Minute(work[w].at)
  <2>1. work[w].pc = "script" /\ work[w] \in Work /\ s \in Source /\ ~Marked(s)
    BY <1>2 DEF ScoreOnce, TypeOK, Idle, Work, Event
  <2>2. m \in Bucket /\ m <= Minute(now) /\ (m + Minutes) * M <= now + work[w].ttl
    BY <2>1, ScriptMarks
  <2>3. mark' = [mark EXCEPT ![s] = now + work[w].ttl] /\ now' = now
        /\ mark[s] <= now + work[w].ttl
    BY <1>2, <2>1 DEF ScoreOnce, Marked, TypeOK, Work
  <2>4. points' = [points EXCEPT ![s] = [points[s] EXCEPT ![m] = @ + 1]]
    BY <1>2, <2>1, <2>2 DEF ScoreOnce, TypeOK
  <2>5. ASSUME NEW x \in Source, NEW n \in Bucket, <<x, n>> # <<s, m>>
        PROVE  points'[x][n] = points[x][n]
    BY <2>1, <2>2, <2>4, <2>5 DEF TypeOK
  <2>6. points'[s][m] = points[s][m] + 1
    BY <2>1, <2>2, <2>4 DEF TypeOK
  <2>7. MarkInv'
    <3> SUFFICES ASSUME NEW x \in Source, NEW n \in Bucket, points'[x][n] > 0
                 PROVE  n <= Minute(now) /\ (n + Minutes) * M <= mark'[x]
      BY <2>3 DEF MarkInv
    <3>1. CASE x = s /\ n = m
      BY <3>1, <2>1, <2>2, <2>3 DEF TypeOK
    <3>2. CASE <<x, n>> # <<s, m>>
      <4>1. n <= Minute(now) /\ (n + Minutes) * M <= mark[x]
        BY <3>2, <2>5 DEF MarkInv
      <4>2. mark[x] <= mark'[x] /\ mark[x] \in Nat /\ mark'[x] \in Nat
        BY <2>1, <2>3 DEF TypeOK, Work
      <4>3. (n + Minutes) * M \in Nat
        BY BucketType, TimeAssumption
      <4>4. QED
        BY <4>1, <4>2, <4>3
    <3>3. QED
      BY <3>1, <3>2
  <2>8. CountsOncePerWindow'
    <3>1. \A n \in Bucket : InWindow(n) => points[s][n] = 0
      BY <2>1, Unmarked
    <3>2. \A n \in Bucket : InWindow(n)' <=> InWindow(n)
      BY <2>3 DEF InWindow
    <3>3. QED
      BY <2>1, <2>2, <2>5, <2>6, <3>1, <3>2 DEF CountsOncePerWindow, TypeOK
  <2>9. QED
    BY <2>7, <2>8
<1>3. CASE RemoveFromHotBuckets
  BY <1>3 DEF RemoveFromHotBuckets, MarkInv, CountsOncePerWindow, InWindow, TypeOK
<1>4. CASE Tick
  <2>1. Minute(now) <= Minute(now') /\ Minute(now) \in Nat /\ Minute(now') \in Nat
    BY <1>4, MinuteMono, DivBounds DEF Tick, TypeOK
  <2>2. \A x \in Source, n \in Bucket : points'[x][n] > 0 => points'[x][n] = points[x][n]
    BY <1>4 DEF Tick, TypeOK
  <2>3. MarkInv'
    BY <1>4, <2>1, <2>2, BucketType DEF Tick, MarkInv, TypeOK
  <2>4. \A x \in Source, n \in Bucket : points'[x][n] > 0 /\ InWindow(n)' => InWindow(n)
    BY <2>1, <2>2, BucketType, TimeAssumption DEF InWindow, MarkInv
  <2>5. QED
    BY <2>2, <2>3, <2>4 DEF CountsOncePerWindow
<1>5. QED
  BY <1>1, <1>2, <1>3, <1>4 DEF Next, vars, Interact, TooOld, Score, ScoredBefore, HotPage

-----------------------------------------------------------------------------
(* What was counted *)

LEMMA LifeNext == TypeOK /\ WorkInv /\ LifeInv /\ [Next]_vars => LifeInv'
<1> SUFFICES ASSUME TypeOK, WorkInv, LifeInv, [Next]_vars PROVE LifeInv'
  OBVIOUS
<1>1. ASSUME UNCHANGED <<now, work>>  PROVE LifeInv'
  BY <1>1 DEF LifeInv
<1>2. ASSUME NEW w \in Worker, NEW e \in inbox, Score(w, e)  PROVE LifeInv'
  <2>1. HappenedAt(e) \in Nat /\ HappenedAt(e) <= now /\ now \in Nat
    BY TimeAssumption DEF HappenedAt, TypeOK, Event
  <2>2. /\ work'[w] = [pc |-> "script", e |-> e, at |-> HappenedAt(e),
                       ttl |-> Retention - (now - HappenedAt(e)), since |-> now]
        /\ \A x \in Worker : x # w => work'[x] = work[x]
        /\ now' = now /\ now - HappenedAt(e) < Retention
    BY <1>2 DEF Score, TypeOK
  <2>3. QED
    BY <2>1, <2>2, RetentionType, TimeAssumption DEF LifeInv
<1>3. ASSUME NEW w \in Worker, work' = [work EXCEPT ![w] = Idle], now' = now  PROVE LifeInv'
  BY <1>3 DEF LifeInv, TypeOK, Idle
<1>4. ASSUME NEW w \in Worker, ScoredBefore(w) \/ ScoreOnce(w)  PROVE LifeInv'
  BY <1>3, <1>4 DEF ScoredBefore, ScoreOnce
<1>5. CASE Tick
  <2>1. \A w \in Worker : work[w].pc = "script" => work[w].since \in Nat
    BY DEF TypeOK, Work, Idle
  <2>2. QED
    BY <1>5, <2>1, TimeAssumption DEF Tick, LifeInv, TypeOK
<1>6. QED
  BY <1>1, <1>2, <1>4, <1>5 DEF Next, vars, Interact, TooOld, RemoveFromHotBuckets, HotPage

\* Sums of minutes.
LEMMA EndOfWindow ==
    ASSUME NEW at \in Nat
    PROVE  (Minute(at) + Minutes) * M <= at + Retention /\ (Minute(at) + Minutes) * M \in Nat
<1>1. Minute(at) \in Nat /\ Minute(at) * M <= at
  BY DivBounds
<1>2. (Minute(at) + Minutes) * M = Minute(at) * M + Retention
  BY <1>1, TimeAssumption DEF Retention
<1>3. QED
  BY <1>1, <1>2, RetentionType, TimeAssumption

\* What the script of w counts.
LEMMA ScriptCounts ==
    ASSUME TypeOK, WorkInv, LifeInv, NEW w \in Worker, work[w].pc = "script"
    PROVE  /\ work[w].e.s \in Source
           /\ work[w].at \in Nat /\ work[w].at <= now
           /\ work[w].ttl \in Nat /\ work[w].ttl > 0
           /\ (Minute(work[w].at) + Minutes) * M <= now + Retention
           /\ now + work[w].ttl <= work[w].at + Retention + Delay
<1>1. /\ work[w].e.s \in Source /\ work[w].at \in Nat /\ work[w].ttl \in Nat /\ work[w].since \in Nat
  BY DEF TypeOK, Work, Event, Idle
<1>2. now \in Nat /\ work[w].at <= work[w].since /\ work[w].since <= now
  BY TimeAssumption DEF WorkInv, TypeOK
<1>3. /\ work[w].since + work[w].ttl = work[w].at + Retention /\ work[w].ttl > 0
      /\ now <= work[w].since + Delay
  BY DEF LifeInv
<1>4. (Minute(work[w].at) + Minutes) * M <= work[w].at + Retention
      /\ (Minute(work[w].at) + Minutes) * M \in Nat
  BY <1>1, EndOfWindow
<1>5. QED
  BY <1>1, <1>2, <1>3, <1>4, RetentionType, TimeAssumption

\* The script is the only step that counts, extends a mark or keeps a bucket.
LEMMA ScoreOnceEffect ==
    ASSUME TypeOK, WorkInv, NEW w \in Worker, ScoreOnce(w)
    PROVE  LET s == work[w].e.s
               m == Minute(work[w].at)
           IN  /\ mark'[s] = now + work[w].ttl /\ \A x \in Source : x # s => mark'[x] = mark[x]
               /\ m \in Bucket
               /\ bucketEnd'[m] = now + Retention
               /\ \A n \in Bucket : n # m => bucketEnd'[n] = bucketEnd[n]
               /\ points'[s][m] > 0
               /\ \A x \in Source, n \in Bucket : points[x][n] > 0 => points'[x][n] > 0
               /\ mark[s] <= now
               /\ now' = now /\ merged' = merged
               /\ counted' = counted \union {[s |-> s, at |-> work[w].at, t |-> now]}
<1> DEFINE s == work[w].e.s
           m == Minute(work[w].at)
<1>1. work[w].pc = "script" /\ s \in Source
  BY DEF ScoreOnce, TypeOK, Work, Event, Idle
<1>2. m \in Bucket
  BY <1>1, ScriptMarks
<1>3. mark'[s] = now + work[w].ttl /\ \A x \in Source : x # s => mark'[x] = mark[x]
  BY <1>1 DEF ScoreOnce, TypeOK
<1>4. bucketEnd'[m] = now + Retention /\ \A n \in Bucket : n # m => bucketEnd'[n] = bucketEnd[n]
  BY <1>2 DEF ScoreOnce, TypeOK
<1>5. points'[s][m] > 0 /\ \A x \in Source, n \in Bucket : points[x][n] > 0 => points'[x][n] > 0
  BY <1>1, <1>2 DEF ScoreOnce, TypeOK
<1>6. mark[s] <= now
  BY <1>1, TimeAssumption DEF ScoreOnce, Marked, TypeOK
<1>7. QED
  BY <1>2, <1>3, <1>4, <1>5, <1>6 DEF ScoreOnce

LEMMA CountedType ==
    ASSUME TypeOK, CountedInv, NEW c \in counted
    PROVE  /\ c.s \in Source /\ c.at \in Nat /\ c.t \in Nat
           /\ Minute(c.at) \in Nat /\ Minute(c.at) \in Bucket /\ Minute(c.at) <= Minute(now)
<1>1. c.s \in Source /\ c.at \in Nat /\ c.t \in Nat /\ now \in 0 .. MaxTime
  BY DEF TypeOK, Counted
<1>2. c.at <= now
  BY <1>1, TimeAssumption DEF CountedInv
<1>3. c.at \in 0 .. MaxTime
  BY <1>1, <1>2, TimeAssumption
<1>4. QED
  BY <1>1, <1>2, <1>3, BucketType, DivBounds, MinuteMono, TimeAssumption

LEMMA CountedNext ==
    TypeOK /\ WorkInv /\ LifeInv /\ CountedInv /\ [Next]_vars => CountedInv'
<1> SUFFICES ASSUME TypeOK, WorkInv, LifeInv, CountedInv, [Next]_vars PROVE CountedInv'
  OBVIOUS
<1>1. ASSUME UNCHANGED <<now, mark, bucketEnd, counted>>  PROVE CountedInv'
  BY <1>1 DEF CountedInv
<1>2. ASSUME NEW w \in Worker, ScoreOnce(w)  PROVE CountedInv'
  <2> DEFINE s == work[w].e.s
             m == Minute(work[w].at)
             new == [s |-> s, at |-> work[w].at, t |-> now]
  <2>1. work[w].pc = "script"
    BY <1>2 DEF ScoreOnce
  <2>2. /\ mark'[s] = now + work[w].ttl /\ \A x \in Source : x # s => mark'[x] = mark[x]
        /\ bucketEnd'[m] = now + Retention
        /\ \A n \in Bucket : n # m => bucketEnd'[n] = bucketEnd[n]
        /\ mark[s] <= now /\ now' = now
        /\ counted' = counted \union {new}
    BY <1>2, ScoreOnceEffect
  <2>3. /\ work[w].at \in Nat /\ work[w].at <= now /\ work[w].ttl \in Nat /\ work[w].ttl > 0
        /\ (m + Minutes) * M <= now + Retention /\ now \in Nat
    BY <2>1, ScriptCounts, TimeAssumption DEF TypeOK
  <2>4. ASSUME NEW c \in counted
        PROVE  /\ c.at <= c.t /\ c.t <= now
               /\ (Minute(c.at) + Minutes) * M <= bucketEnd'[Minute(c.at)]
               /\ c.t < mark'[c.s]
    <3>1. c.at <= c.t /\ c.t <= now /\ (Minute(c.at) + Minutes) * M <= bucketEnd[Minute(c.at)]
          /\ c.t < mark[c.s] /\ c.t \in Nat /\ c.s \in Source /\ Minute(c.at) \in Bucket
      BY CountedType DEF CountedInv
    <3>2. (Minute(c.at) + Minutes) * M <= bucketEnd'[Minute(c.at)]
      BY <2>2, <2>3, <3>1
    <3>3. c.t < mark'[c.s]
      BY <2>2, <2>3, <3>1
    <3>4. QED
      BY <3>1, <3>2, <3>3
  <2>5. /\ new.at <= new.t /\ new.t <= now
        /\ (Minute(new.at) + Minutes) * M <= bucketEnd'[Minute(new.at)]
        /\ new.t < mark'[new.s]
    BY <2>2, <2>3
  <2>6. QED
    BY <2>2, <2>4, <2>5 DEF CountedInv
<1>3. CASE RemoveFromHotBuckets
  BY <1>3 DEF RemoveFromHotBuckets, CountedInv
<1>4. CASE Tick
  BY <1>4, CountedType, TimeAssumption DEF Tick, CountedInv, TypeOK
<1>5. QED
  BY <1>1, <1>2, <1>3, <1>4 DEF Next, vars, Interact, TooOld, Score, ScoredBefore, HotPage

\* A bucket that a window reads has not come to its end.
LEMMA NotOver ==
    ASSUME NEW t \in Nat, NEW m \in Nat, NEW end \in Nat, Minute(t) < m + Minutes, (m + Minutes) * M <= end
    PROVE  t < end
<1>1. Minute(t) \in Nat /\ t < (Minute(t) + 1) * M /\ Minute(t) + 1 <= m + Minutes
  BY DivBounds, TimeAssumption
<1>2. (Minute(t) + 1) * M <= (m + Minutes) * M
  BY <1>1, MulMono, TimeAssumption
<1>3. (Minute(t) + 1) * M \in Nat /\ (m + Minutes) * M \in Nat
  BY <1>1, TimeAssumption
<1>4. QED
  BY <1>1, <1>2, <1>3

\* A minute that was over is never asked for again.
LEMMA WindowStays ==
    ASSUME TypeOK, Tick, NEW m \in Nat, m <= Minute(now), InWindow(m)'
    PROVE  InWindow(m)
<1>1. Minute(now) <= Minute(now') /\ Minute(now) \in Nat /\ Minute(now') \in Nat
  BY MinuteMono, DivBounds, TimeAssumption DEF Tick, TypeOK
<1>2. QED
  BY <1>1, TimeAssumption DEF InWindow

LEMMA KeptNext ==
    TypeOK /\ WorkInv /\ LifeInv /\ CountedInv /\ KeptForTheWindow /\ [Next]_vars => KeptForTheWindow'
<1> SUFFICES ASSUME TypeOK, WorkInv, LifeInv, CountedInv, KeptForTheWindow, [Next]_vars
             PROVE  KeptForTheWindow'
  OBVIOUS
<1>1. ASSUME UNCHANGED <<now, points, counted>>  PROVE KeptForTheWindow'
  BY <1>1 DEF KeptForTheWindow, InWindow
<1>2. ASSUME NEW w \in Worker, ScoreOnce(w)  PROVE KeptForTheWindow'
  <2> DEFINE s == work[w].e.s
             m == Minute(work[w].at)
             new == [s |-> s, at |-> work[w].at, t |-> now]
  <2>1. /\ points'[s][m] > 0
        /\ \A x \in Source, n \in Bucket : points[x][n] > 0 => points'[x][n] > 0
        /\ now' = now /\ counted' = counted \union {new}
    BY <1>2, ScoreOnceEffect
  <2>2. \A c \in counted : InWindow(Minute(c.at)) => points'[c.s][Minute(c.at)] > 0
    BY <2>1, CountedType DEF KeptForTheWindow
  <2>3. QED
    BY <2>1, <2>2 DEF KeptForTheWindow, InWindow
<1>3. CASE RemoveFromHotBuckets
  BY <1>3 DEF RemoveFromHotBuckets, KeptForTheWindow
<1>4. CASE Tick
  <2> SUFFICES ASSUME NEW c \in counted, InWindow(Minute(c.at))'
               PROVE  points'[c.s][Minute(c.at)] > 0
    BY <1>4 DEF Tick, KeptForTheWindow
  <2> DEFINE m == Minute(c.at)
  <2>1. c.s \in Source /\ m \in Nat /\ m \in Bucket /\ m <= Minute(now)
    BY CountedType
  <2>2. points[c.s][m] > 0
    BY <1>4, <2>1, WindowStays DEF KeptForTheWindow
  <2>3. now' \in Nat /\ Minute(now') < m + Minutes /\ now' = now + 1
    BY <1>4, TimeAssumption DEF Tick, TypeOK, InWindow
  <2>4. bucketEnd[m] \in Nat /\ (m + Minutes) * M <= bucketEnd[m]
    BY <2>1 DEF TypeOK, CountedInv
  <2>5. now + 1 < bucketEnd[m]
    BY <2>1, <2>3, <2>4, NotOver
  <2>6. points'[c.s][m] = points[c.s][m]
    BY <1>4, <2>1, <2>4, <2>5, TimeAssumption DEF Tick, TypeOK
  <2>7. QED
    BY <2>2, <2>6
<1>5. QED
  BY <1>1, <1>2, <1>3, <1>4 DEF Next, vars, Interact, TooOld, Score, ScoredBefore, HotPage

LEMMA MarkEndNext ==
    TypeOK /\ WorkInv /\ LifeInv /\ CountedInv /\ MarkEndsWithWindow /\ [Next]_vars => MarkEndsWithWindow'
<1> SUFFICES ASSUME TypeOK, WorkInv, LifeInv, CountedInv, MarkEndsWithWindow, [Next]_vars
             PROVE  MarkEndsWithWindow'
  OBVIOUS
<1>1. ASSUME UNCHANGED <<mark, counted>>  PROVE MarkEndsWithWindow'
  BY <1>1 DEF MarkEndsWithWindow
<1>2. ASSUME NEW w \in Worker, ScoreOnce(w)  PROVE MarkEndsWithWindow'
  <2> DEFINE s == work[w].e.s
             new == [s |-> s, at |-> work[w].at, t |-> now]
  <2>1. work[w].pc = "script" /\ s \in Source
    BY <1>2, ScriptCounts DEF ScoreOnce
  <2>2. /\ mark'[s] = now + work[w].ttl /\ \A x \in Source : x # s => mark'[x] = mark[x]
        /\ mark[s] <= now /\ counted' = counted \union {new}
    BY <1>2, ScoreOnceEffect
  <2>3. now + work[w].ttl <= work[w].at + Retention + Delay
    BY <2>1, ScriptCounts
  <2>4. \A c \in counted : c.s = s => c.t < now
    BY <2>1, <2>2, CountedType, TimeAssumption DEF CountedInv, TypeOK
  <2>5. SUFFICES ASSUME NEW x \in Source, NEW c \in counted', c.s = x,
                        \A d \in counted' : d.s = x => d.t <= c.t
                 PROVE  mark'[x] <= c.at + Retention + Delay
    BY DEF MarkEndsWithWindow, Retention
  <2>6. CASE x # s
    <3>1. c \in counted /\ \A d \in counted : d.s = x => d.t <= c.t
      BY <2>2, <2>5, <2>6
    <3>2. QED
      BY <2>2, <2>5, <2>6, <3>1 DEF MarkEndsWithWindow
  <2>7. CASE x = s
    <3>0. new \in counted' /\ new.s = x
      BY <2>2, <2>7
    <3>1. new.t <= c.t /\ new.t = now
      BY <2>5, <3>0
    <3>2. c \notin counted
      BY <2>4, <2>5, <2>7, <3>1, CountedType, TimeAssumption DEF TypeOK
    <3>3. c = new
      BY <2>2, <3>2
    <3>4. QED
      BY <2>2, <2>3, <2>7, <3>3
  <2>8. QED
    BY <2>6, <2>7
<1>3. CASE RemoveFromHotBuckets
  BY <1>3 DEF RemoveFromHotBuckets, MarkEndsWithWindow
<1>4. QED
  BY <1>1, <1>2, <1>3 DEF Next, vars, Interact, TooOld, Score, ScoredBefore, HotPage, Tick

-----------------------------------------------------------------------------
(* The page *)

LEMMA PageNext ==
    TypeOK /\ WorkInv /\ CountedInv /\ KeptForTheWindow /\ merged.minute <= Minute(now)
        /\ PageLagsAMinute /\ [Next]_vars
    => (merged.minute <= Minute(now))' /\ PageLagsAMinute'
<1> SUFFICES ASSUME TypeOK, WorkInv, CountedInv, KeptForTheWindow, merged.minute <= Minute(now),
                    PageLagsAMinute, [Next]_vars
             PROVE  (merged.minute <= Minute(now))' /\ PageLagsAMinute'
  OBVIOUS
<1>1. ASSUME UNCHANGED <<now, merged, counted>>
      PROVE  (merged.minute <= Minute(now))' /\ PageLagsAMinute'
  BY <1>1 DEF PageLagsAMinute, InWindow, Minute
<1>2. ASSUME NEW w \in Worker, ScoreOnce(w)
      PROVE  (merged.minute <= Minute(now))' /\ PageLagsAMinute'
  <2> DEFINE new == [s |-> work[w].e.s, at |-> work[w].at, t |-> now]
  <2>1. now' = now /\ merged' = merged /\ counted' = counted \union {new}
    BY <1>2, ScoreOnceEffect
  <2>2. Minute(now) \in Nat /\ merged.minute \in Nat
    BY DivBounds, TimeAssumption DEF TypeOK
  <2>3. ~(Minute(new.t) < Minute(now))
    BY <2>2
  <2>4. QED
    BY <2>1, <2>3 DEF PageLagsAMinute, InWindow
<1>3. CASE RemoveFromHotBuckets
  BY <1>3 DEF RemoveFromHotBuckets, PageLagsAMinute
<1>4. CASE HotPage
  <2>1. /\ merged' = [minute |-> Minute(now),
                      top |-> {s \in Source : \E m \in Bucket : InWindow(m) /\ points[s][m] > 0}]
        /\ now' = now /\ counted' = counted
    BY <1>4 DEF HotPage
  <2>2. \A c \in counted : InWindow(Minute(c.at)) => c.s \in merged'.top
    BY <2>1, CountedType DEF KeptForTheWindow
  <2>3. Minute(now) \in Nat
    BY DivBounds, TimeAssumption DEF TypeOK
  <2>4. QED
    BY <2>1, <2>2, <2>3 DEF PageLagsAMinute, InWindow
<1>5. CASE Tick
  <2>1. Minute(now) <= Minute(now') /\ Minute(now) \in Nat /\ Minute(now') \in Nat
        /\ merged.minute \in Nat
    BY <1>5, MinuteMono, DivBounds, TimeAssumption DEF Tick, TypeOK
  <2>2. merged' = merged /\ counted' = counted
    BY <1>5 DEF Tick
  <2>3. \A c \in counted : InWindow(Minute(c.at))' => InWindow(Minute(c.at))
    BY <1>5, CountedType, WindowStays
  <2>4. QED
    BY <2>1, <2>2, <2>3 DEF PageLagsAMinute
<1>6. QED
  BY <1>1, <1>2, <1>3, <1>4, <1>5 DEF Next, vars, Interact, TooOld, Score, ScoredBefore

-----------------------------------------------------------------------------
LEMMA Invariance == Spec => []IInv
<1>1. IInv /\ [Next]_vars => IInv'
  BY TypeNext, WorkNext, PointsNext, LifeNext, CountedNext, KeptNext, MarkEndNext, PageNext DEF IInv
<1>2. QED
  BY InitInv, <1>1, PTL DEF Spec

LEMMA Parts ==
    IInv => /\ TypeOK /\ CountsOncePerWindow
            /\ KeptForTheWindow /\ MarkEndsWithWindow /\ PageLagsAMinute
  BY DEF IInv

\* Every variable of the heat keeps the values of its type.
THEOREM TypeCorrect == Spec => []TypeOK
  BY Invariance, Parts, PTL

\* A source counts at most once in every window, whatever is repeated,
\* reordered or delayed.
THEOREM OncePerWindow == Spec => []CountsOncePerWindow
  BY Invariance, Parts, PTL

\* The points of what was counted last as long as any window asks for them.
THEOREM PointsAreKept == Spec => []KeptForTheWindow
  BY Invariance, Parts, PTL

\* The mark left by the latest count of a source ends with the window of that
\* count, or at most Delay later.
THEOREM MarkEnds == Spec => []MarkEndsWithWindow
  BY Invariance, Parts, PTL

\* The page of the present minute lacks nothing that was counted before it.
THEOREM PageLags == Spec => []PageLagsAMinute
  BY Invariance, Parts, PTL
=============================================================================
