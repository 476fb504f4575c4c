# feed_video in TLA+

This directory models feed_video, a short-video service: one Go process (`src/back`) with
HTTP handlers and message consumers over MySQL, Redis and RocketMQ, and two state machines
of its browser client (`src/front`), the login state and the upload queue. The modules describe the parts whose correctness depends on the order in which requests,
messages, caches and failures meet; TLC checks them on small instances, and TLAPS proves
the most important results for all values of the constants. Paths below are relative to
`src/back/`, those that begin with `front/` to `src/`; `modules/` and `platform/` stand for
`internal/modules/` and `internal/platform/`. `PROJECT.json` lists the components,
runs, hazards and theorems, and says for every definition which lines it models.

## 1. The system

One process runs two kinds of threads. A gin handler serves each HTTP request, any number
at a time. Each consumer group (`like`, `favorite`, `follow`, `video`, `comment`, `feed`,
`message`, `user`) has one RocketMQ push consumer, whose listener handles several messages
concurrently. Messages carry a key and no message group (`platform/mq/producer/producer.go:64-79`),
so their order is not kept, neither between topics nor for one key. A handler that returns
an error has its message delivered again; after the broker's limit of redeliveries, or when
the error is permanent, the message goes aside (`platform/mq/consumer/consumer.go:112-168`).

| component | state | operations | talks to |
|---|---|---|---|
| like (`modules/like`) | Redis set per target, table `user_like` | switch, lists; handles LikeSwitched, VideoDeleted | video and comment (existence), producer |
| favorite (`modules/favorite`) | the same under other keys | the same | video, producer |
| follow (`modules/follow`) | two Redis sets per pair, table `follow` | switch, lists, scan of followers; handles FollowSwitched | user, producer |
| video (`modules/video`) | table `video`, cache `cache:video:info`, singleflight group | create, publish, switch private, delete, read through the cache; handles LikeSwitched, FavoriteSwitched, UserUpdated, VideoDeleted | like and favorite (sizes), upload, producer |
| comment (`modules/comment`) | table `comment` with `reply_count`, `video.comment_count` | create, reply, delete, list; handles LikeSwitched, UserUpdated, VideoDeleted | video, like, producer |
| feed (`modules/feed`) | minute buckets, marks and merge key of the hot ranking; inbox and outbox ZSETs | hot, follow and latest pages; handles six topics | video, follow |
| message (`modules/message`) | tables `message`, `message_thread` | list, mark read, notify, backfill, cleanup; handles three topics | video, comment, user |
| user (`modules/user`) | table `user` with five counters | register, log in, profile; handles four topics | auth, producer |
| auth (`platform/auth`) | Redis sessions | issue, refresh, revoke, middleware | - |
| mq (`platform/mq`) | - | publish, dispatch, failed topic | RocketMQ |
| commands (`cmd/consistency`, `cmd/rebuild`, `cmd/msgclean`) | - | recount, restore sets from tables, backfill and clean notifications | all tables and sets |
| front end (`src/front`) | Vue state, upload queue | - | HTTP API |

What is hard here, in the order in which it shaped the models:

1. **Redis first, tables later.** A switch (like, favorite, follow) changes a Redis set in a
   script and publishes an event only when it did; rows and counters follow by messages that
   may be lost, repeated or reordered, and a failed publication is answered by a rollback that
   other requests may have overtaken.
2. **Read, then write.** The counter handler reads a size and stores it later; cache reloads
   read a row and SET an entry later; comment deletion reads a row before the transaction.
3. **A cache over a row that is hidden, deleted and updated** by several requests, with a
   logical expiry, background refresh and shared reloads.
4. **Fan-out against follow.** A new video goes to the followers found by a scan while the
   followers change; a new follower is backfilled from a read of the table.
5. **Once per window, once per actor.** Deduplication by an expiring mark (ranking) and by a
   unique row (notifications), against redelivery, repetition, delay and a skewed clock.
6. **Crashes and partial failures**, since no outbox table ties a change to its event.
7. **Pages over moving rows**: a cursor of two fields, a page merged from several ZSETs that are
   cut and expire, a fallback to the table.
8. **A client with a state of its own**: tabs that share a token, uploads that go on while the
   video is deleted, an answer that arrives after the retry.
9. **Repair beside traffic**: commands that copy sets to rows and rows to sets, and recount.

For each component, what makes it correct:

- *like*: when a user's switches are settled, the row of the user agrees with the set and the
  counter with its size; deleting the target leaves nothing behind. Model: `LikeSwitch`.
- *video cache*: how long a hidden or deleted video can still be served, how long a video that
  exists can look missing, and that what is served is current. Model: `VideoCache`.
- *comment*: counters match the rows, no reply outlives its thread, no like outlives its
  comment. Model: `CommentTree`.
- *hot ranking*: a user's interaction of one kind counts once in every window, and as long as
  the window can show it. Model: `HotScore`.
- *notifications*: a thread counts each actor once, an interaction that was taken note of is
  shown, details and threads go together, unread ones stay. Model: `Notify`.
- *follow feed*: every published video reaches the index of every follower. Model: `FollowFeed`.
- *follow*: the two directions of the Redis sets agree, rows and both counters follow them, and
  rebuilding sets or counters under live traffic undoes no switch. Model: `FollowSync`.
- *lists*: a reader who scrolls to the end is shown whatever stayed, and nothing twice, hidden or
  not followed. Model: `Pages`, as an implementation of `Listing`.
- *auth and login state*: a login is good for one refresh token, and for none after the logout;
  the token a browser holds works. Model: `Session`.
- *profile*: after an edit, videos and comments end with the newest name and avatar, and the
  avatar is there. Model: `Profile`.
- *publication*: who can see a video can play it, a deleted one leaves no file, the author's count
  follows, and an upload that ends as done is published. Model: `Publication`.

## 2. The modules

Each component has one module with its state as VARIABLES, one action per handler step, and
its properties at the end. A step ends where another thread or a failure can get in between:
at every statement against MySQL, every command or script against Redis, every publication.
One statement, one transaction or one Lua script is atomic. `MC<module>` adds the symmetry set
or a bound for TLC and nothing else; `<module>Proofs` holds the theorems. `Listing` is an
abstract specification that `Pages` refines. `Account` composes `FollowSync` (extended),
`Session`, `Profile` and `Publication` (instances).

Conventions used in all of them. `faults` counts the failures a behaviour may contain
(a lost answer, a failed publication, a failed handler, a message given up, a restart),
and `MaxFaults` bounds it. A publication that fails for the sender may have been stored by the
broker or not. A message stays in the queue until a handler acknowledges it, may be picked up by
several workers, and acknowledging may fail; so delivery is at least once and unordered.
Variables marked "history" are read by properties only and never by a guard. Definitions
that begin with another's name and carry an underscore (`CountLikes_Increment`) are the
faulty versions each property is tried against, and no specification uses them.

### LikeSwitch - `modules/like`, `modules/video/logic.go:505-528`
`members` is the Redis set, `rows` table `user_like`, `count` the column `like_count`.
A request goes through `Begin` (the existence check), `SetUnchanged` or `SetChanged` (the
script, whose answer may be lost), `PublishOk` or `PublishFails`, and `Rollback`, which writes
the opposite state whatever happened since. `CopyToRows` is the handler of group `like`;
`CountLikes` and `SyncLikeCount` are the two steps of group `video`. `DeleteRow`,
`PublishDeleted`, `DeleteByTarget` and `DeleteTargetSet` follow the deletion of the target.
The two groups read nothing of each other, so a behaviour follows the queue of one of them,
chosen in `Init`; every property names the group it is about. The causes in `rowCause` and
`countCause` are the ways in which the code does lose track: `rollback`, `unpublished`,
`reordered`, `staleWrite`, `deadLetter`. Each is recorded when it happens and is erased when
the next switch replaces what it spoiled, so the properties say both that nothing else can go
wrong and that the damage is not permanent. An observer should read them as the list of what
this design accepts: in particular a like followed by an unlike may be copied in the wrong
order (`reordered`), and `SyncLikeCount` may overwrite a newer size (`staleWrite`).

### VideoCache - `modules/video/logic.go`, `modules/video/repo/repo.go`
One video: `status` and `ver` are the row, `cache` the entry (a hit, the mark of a missing
video, or nothing), `flight` the one running call of the singleflight group, `op` the owner's
requests, `sync` the handlers that have changed a column and still owe the DEL. `Get` is what
`getInfoWithCache` decides: serve, serve and refresh, reload, or not found. `Trigger` starts
a refresh, `LoadShared` joins or starts a reload; the two share a key. `ReadOwn`,
`MarkStatus`, `DeleteEntry` and `Prewarm` are a transition; `DeleteEntryFirst` and
`DeleteRow` the deletion; `UpdateColumn` and `Invalidate` a handler. Ages advance with `Tick`.
`Delay` bounds the time from the read of a row to the SET or the end of the call (the contexts
have deadlines; the constant is a parameter and not one of the code's). Time passes only while
every pending write is within it.

### CommentTree - `modules/comment`
One video. `rows` and `parent` are the comments, replies to replies included, which the code
accepts. `Create` and `Delete` are two steps each (checks, then the transaction). `CreateReply` takes the
lock on its parent by failing when the parent is gone. `lost` and `lostAt` count the decrements
for a reply that another request had deleted already.
`liked` is where a comment is liked: its Redis set, table `user_like`, or both. Likes of different
users never meet, so they are those of one user. A like takes the steps it takes in `LikeSwitch`:
`BeginLike` finds the comment, `SetLike` runs the script, `Publish` sends LikeSwitched or fails with
the message stored or not, `Rollback` writes the opposite state, and `HandleSwitched` copies the message to
`user_like` whenever it comes and as often as it comes, without asking for the comment. clearCommentLikes is
two statements, `DeleteByTargets` and `DeleteTargetSets`, each of which may fail and is then only logged.
`excused` are the likes that are there for good: those set or copied after their place was
cleared, those whose clearing failed or never came to run, and those of comments that went with the video.

### HotScore - `modules/feed/logic.go:317-400`, `modules/feed/repo/repo.go:15-180`
`now` is the clock, `points[s][m]` what source `s` (a user and a kind of interaction) has in
the bucket of minute `m`, `mark` the key that suppresses a repetition, `bucketEnd` and
`merged` the expiry of buckets and the merged page. `HappenedAt` clamps an event's time that
lies ahead of the clock, `Score` drops what is past retention and computes how long the mark
must live, and `ScoreOnce` runs the script later, at most `Delay` afterwards. `Skew` is how
far the sender's clock may be ahead. Events that take a like or a favorite back and the deletion
of a comment have no action, since no handler does anything about them (`logic.go:357-358`, `376`, `391`).

### Notify - `modules/message`, `cmd/msgclean`
One receiver and target. `detail` is table `message` (unique per actor), `thread` table
`message_thread` (one per window of time), `bound` the column `thread_id`. A handler resolves
the event, inserts the detail, upserts the thread and binds the detail; it stops when the
detail is there. The cleaner chooses read and old threads, deletes their details, then the
threads. Binding waits while the cleaner holds the index range of the thread's details.

### FollowFeed - `modules/feed/logic.go:223-315`, `modules/follow`, `modules/video`
One author. `followers` is the author's Redis set; `inbox` and `outbox` are the ZSETs.
`Publish` marks the row and `SendCreated` sends the event. `CountFollowers` decides between
outbox and fan-out, `FollowerIDsPage` and `PushInboxItems` alternate, and `ScanEnds` needs
only what SSCAN guarantees: who was in the set from beginning to end was returned (`must`);
who came or went may be returned or not. `ReadBackfill` and `PushBackfill` are the handler of
FollowSwitched. `excused` records the pairs of follower and video for which an event was lost
or never sent, and those of a video that was private when its follower was backfilled: these
are the gaps the design leaves, since making a video public again sends nothing to the feed.
The page itself is in `Pages`.

### Listing and Pages - the lists of every module, `modules/feed/logic.go:151-221`, `modules/feed/repo/repo.go:210-391`
`Listing` says what a paged list promises, without saying how: each page continues strictly after
the last item of the page before, so nothing is shown twice unless it moved, and what it
shows was visible, and followed, at some time while the page was being read. `Pages` is the code. `list`
chooses one list for the behaviour. Most are one query: by id alone (follow relations), by
`created_at <= ? AND id < ?` with an extra row that says whether more follows (`Counted`:
an author's videos, likes, favorites, comments, replies) or without (`Uncounted`: latest feed, own
videos), or by `last_at < ? OR (last_at = ? AND id < ?)` (notifications). The follow feed takes
five steps between which anything may happen: the followed authors, `HasOutbox`, one
pipeline of ranges (`FollowPage`), the rows (`FilterByIDs`), and the table when that left nothing.
Ids and times are given out by concurrent inserts and may disagree by a step (`Times`). `Implements`
instantiates `Listing` with the key of an item, the visible rows and the followed authors.
`NothingSkipped` is what `Listing` does not say; `excused` records the two ways in which the code
does skip: an item whose id and time are inverted with respect to the cursor (the AND in the
query drops it), and a member of a ZSET that a range left out for more than
`followCandidateExtra` members that were not to be shown, or among equal scores.

### FollowSync - `modules/follow`, `modules/user/logic.go:167-196`, `cmd/rebuild`, `cmd/consistency`
One author. `fwd` and `rev` are the two directions, `rows` the table, `count` the counters. The
switch is LikeSwitch's with two sets written by one script that looks at the forward one. `tool` is
a command between two of its steps: `ScanKeys`, `Members`, `InsertRow`, `SelectRows`, `AddForward`,
`AddReverse` (syncFollowRows), `ScanFollowing`, `ScanFollowers`, `EndRecount`
(rebuildFollowCounts), and `RestoreSets` for cmd/rebuild. `LoseRedis` empties the sets. `wish` is
what the user last asked for and was told. A command adds what it read before, so it can
bring back a relation that was taken out meanwhile, or of which the row had not yet followed
(`setCause`: `restored`); `split` are users whose switch fell between the two SADD of a command.

### Session - `platform/auth`, `front/utils/http.ts`, `front/composables/useAuth.ts`
Tokens are numbered as they are issued; `line` maps each to its login, `live` are those with a
record in Redis, `stored` the one in localStorage, `held` each tab's copy, `call` what a tab waits
for. A refresh is `Refresh`, `GetSession`, `Rotate`, `Accept`; a logout `Logout`, `Revoke`, `Clear`.
Calls fail or a tab is closed at any of them. Access tokens are checked without state and are
left out: a 401 may come at any time.

### Profile - `modules/user/logic.go:105-155`, `platform/upload`, HandleUserUpdated of video and comment
`user` is the row, `avatars` the files in OSS, `edit` the requests, `notices` the UserUpdated
messages of one group, `copy` one row that copies name and avatar, written by a request of its own
(`ReadUser`, `Insert`). `edits` numbers the versions of the profile, so that an event handled late is
told from the last. `SaveFails` is an upload that
reports an error and stores the file or not, `UpdateFails` an UPDATE that reports one and is committed or
not; `Withdrawn` is the deletion of the new avatar that follows, and may fail too.

### Publication - `modules/video/logic.go:62-266,444-483`, `modules/video/consumer.go`, `front/composables/useUploadQueue.ts`
One video, from the browser's task (`task`: cover, play file, report) over the row (`status`) and the
files in OSS to the groups that hear of it: `user` (`CountByAuthor`, `SyncVideoCount`) and `video`
(`DeleteFiles`). `ask` holds the requests on the server, among them those the owner sends from any
page: private, public again, delete. Every path of `UpdateStatus` and `DeleteVideo` is there,
with the early returns that answer success. `RebuildContentCounts` is the recount of
cmd/consistency. The upload of a file is done, or fails for the browser and is stored or not;
checkpoints of a multipart upload only change how long it takes.

### Account
The four modules above use different keys, columns and topics, and no step of one reads what
another writes, so a behaviour follows one of them (`part`) and the others stay. They share the
bound on faults and the requests' names.

## 3. What the runs check

| run | instance | result |
|---|---|---|
| `like_switch` | 2 users, 2 requests, 2 workers, 2 changes of the set, 1 fault, `FairSpec` | `RowsFollowSet`, `CountFollowsSet`, `CleanupIsComplete`, `TablesConverge` hold |
| `video_cache` | 1 reader, 2 owner requests, 1 handler, 1 fault, times of 0 or 1 | `BoundedExposure`, `BoundedMiss`, `HitIsCurrent` hold |
| `video_cache_shared` | 2 readers | counterexample to `JoinersShareTheResult` |
| `video_cache_hidden` | 2 owner requests, no fault | counterexample to `HiddenNotCached` |
| `comment_tree` | 3 comments, 2 requests, 2 likes, 1 fault | `CountsDriftDown`, `RepliesKeepTheirThread`, `LikesGoWithComments` hold |
| `comment_count_exact` | 2 requests, no fault | counterexample to `CommentCountIsExact` |
| `hot_score` | 2 sources, 2 workers, window of 2 minutes of 2 ticks, clock 0 to 5 | `CountsOncePerWindow`, `KeptForTheWindow`, `MarkEndsWithWindow`, `PageLagsAMinute` hold |
| `notify` | 2 actors, 2 windows of time, 2 workers, 3 events, 1 fault | `ActorCountedOnce`, `DetailIsShown`, `DetailsGoWithThreads` hold |
| `notify_keeps_unread` | 2 actors, 1 window, no fault | counterexample to `CleanupKeepsUnread` |
| `follow_feed` | 2 users, 1 video, 2 requests, 2 workers, `Big` = 2, 3 changes, 1 fault | `IndexComplete` holds |
| `pages` | 4 items, 2 authors, 2 times, pages of 1 with 1 candidate more, ZSETs of 3, 2 changes while reading (1 for the follow feed) | `NothingSkipped` and `Implements` hold |
| `account`, follows | 1 follower, 2 requests, 1 worker, 2 switches, 1 command, 1 fault | `DirectionsAgree`, `WishKept`, `RowsFollowWish`, `CountsFollowSets` hold |
| `account`, sessions | 2 tabs, 3 tokens, 1 fault | `SessionEnds`, `StoredIsLive` hold |
| `account`, profiles | 2 requests, 2 edits, 1 fault | `CopiesSettle`, `AvatarIsStored` hold |
| `account`, videos | 2 requests, 2 workers, 2 requests of the owner, 2 uploads, 1 fault | `FilesFollowRow`, `CountFollowsVideo`, `DoneIsPublished` hold |

Every passing run also checks its module's `TypeOK` (`account` those of all its parts), and each property is known to fail for at
least one plausible fault of the code (`mutants` in `PROJECT.json`): a counter incremented by
the handler instead of read from the set, a reload that ignores the status, the lock on the
parent comment left out, a mark that does not reach the end of the window, the event of a
publication sent before the row is marked, and so on.

**Why the bounds are enough to be of use.** Two requests and two workers are what it takes to
overtake: all races found in this code are between two threads, with a third thread or a fault to
set the stage. `like_switch` allows a change and its reversal, or the switches of two users. In `video_cache` a life of one
tick and `MaxStale` = 0 keep both expired and valid entries reachable; the theorems hold for
any times. `comment_tree` needs three comments for a thread, its reply and a reply to that, two
requests for a deletion that meets another, a creation or a like, and two likes for a like and its
reversal; three requests with one like were run as well (3.3 million states). In `hot_score` the clock passes three minutes of
two ticks, so a window of two minutes opens and closes. `follow_feed` crosses `Big` in both
directions with two users, and a scan has several pages when a user joins while it runs.
In `pages` two pages of one item
leave room for an item before, between and after them, an extra candidate that is hidden, and a
cut that drops the oldest member. In `account` two requests, two tabs or two edits cross, with one
fault to set the stage; the bounds are the smallest at which each of the recorded causes
occurs: leaving out any one of them makes its property fail. Larger instances were run
without an error: three switches, two followers, or two runs of the commands (up to 5.2 million
states), four tokens (16.4 million) or two faults with three, three edits (1.3 million), and two
faults in a publication (2.1 million). Deadlock is not checked: all modules stop when their bounds are used up, and the system itself
may be idle.

**Fairness.** Only `TablesConverge` needs it, and weak fairness is enough. `Fairness` asks that a
request that has begun runs to its end (a goroutine that is runnable runs), that a message
in the queue is handed to a handler as long as it is not acknowledged or given up (the broker
delivers it again, `consumer.go:112-168`), and that a handler runs to its end. Nothing is assumed
of users: no request has to begin, no video to be deleted. Faults are bounded, as an
eventual result needs: with a failure for ever nothing converges.

## 4. Where the code and its documents part

Four of the runs find a behaviour that a comment in the repository excludes.

1. `video_cache_shared`: `triggerInfoRefresh` and `loadInfoShared` use one singleflight key
   (`modules/video/logic.go:641-688`). A refresh returns nil; a reader that finds no entry while a
   refresh runs shares its call, and the type assertion at line 681 turns nil into an error.
2. `video_cache_hidden`: the prewarm of a publish (line 299) and reloads write what they read
   before a concurrent switch to private deleted the entry; the comment at line 425 says that
   private rows are not in the cache. `BoundedExposure` says how long such an entry is served.
3. `comment_count_exact`: `DeleteReply` (`modules/comment/repo/repo.go:70-82`) decrements both
   counters without looking at how many rows its DELETE removed. `CountsDriftDown` says
   that this is the only way a counter departs from its rows, and always downwards.
4. `notify_keeps_unread`: `Cleanup` (`modules/message/repo/repo.go:146-176`) deletes the threads
   it chose by id only; one that became unread in between goes too, against
   `cmd/msgclean/main.go:18`.

The recorded causes of the passing runs name what else the code lets happen, and a reader of
its comments would not expect. The counterexamples appear when the cause is left out.

- *A false success (`failedLate`).* `runUpload` shows the task as failed before its report
  `failed` is answered (`front/composables/useUploadQueue.ts:110-114`), so a retry may run while
  the report is still on its way. The report then takes effect after the retry's `created`; `publish`
  finds the status failed, takes it for "已经发布过" (video/logic.go:257-259) and answers success. The
  task leaves the queue, the video stays failed.
- *A deletion nobody hears of (`stale`).* `DeleteVideo` decides by the status it read before the
  row was deleted (video/logic.go:466); a publication in between means that no VideoDeleted follows.
- *An upload that outlives its video (`uploadedLate`).* `removeTask` does not stop `runUpload`; files
  stored after the deletion stay in OSS.
- *Sessions (`crossed`, `astray`).* `Rotate` does not ask whether the record is still there: two
  refreshes with one token leave two, and a refresh that read before a logout brings the session
  back. A tab logs out with its own copy of the token, which another tab's refresh may have
  replaced: "结束当前这条会话" (user/logic.go:162) ends nothing then. Sharing a refresh
  "避免旧 refresh token 被重复使用" (`front/utils/http.ts:41`) does so within one tab only.
- *Profiles.* An UpdateProfile whose publication fails answers an error, keeps the change, and no
  copy hears of it (`unpublished`). An UPDATE that reports an error and is committed leaves the row
  with an avatar that is deleted (`committed`); two new avatars that cross leave a file behind
  (`crossed`). Where Save reports an error and the object is stored (`unsaved`,
  user/logic.go:122-125), or one of the two deletions fails (`undeleted`, lines 131 and 137, errors ignored),
  a file is left that nobody knows of. A comment whose author could not be read is stored without a name (`unread`).
- *Likes of deleted comments (`excused` in `CommentTree`).* A LikeSwitched that is handled after
  clearCommentLikes inserts a row in `user_like` for a comment that is gone: `HandleSwitched`
  (like/logic.go:204-206) does not look for it, and no later step deletes it. A request that found the comment
  before its deletion, or one that rolls an unlike back, adds to the set in the same way. When
  one half of clearCommentLikes fails (comment/logic.go:177-182) it is logged and not tried again, though
  the comment on Delete (line 135) has the likes among what is handled synchronously; and
  HandleVideoDeleted of the comments (334-348) clears none.
- *Follow sets.* "执行完之后两个方向的集合都等于目标态" (follow/repo/repo.go:67) does not hold when the
  forward direction is as asked and the reverse one is not, which a command or a loss of Redis between
  two SADD can leave (`split`). cmd/consistency calls the sets authoritative (main.go:22-25) and
  fills them from the table, which can undo an unfollow that has not reached it.
- *Pages.* `created_at <= ? AND id < ?` (video/repo/repo.go:119, 151, 162) skips a row whose time is
  older and whose id is higher; members of equal score are taken in the order of their strings,
  so the cut of a range may separate them where feed/repo/repo.go:369 says that
  nothing of one millisecond is repeated or left out ("不会重复也不会漏").
- *Heat that is not taken back.* `后端接口.md:258-259` lists "视频点赞/取消点赞（`+2` / `-2`）" and
  "评论新增/删除（`+1` / `-1`）": an unlike and the deletion of a comment would subtract. The code says and does
  otherwise: "取消点赞不回减分数" (feed/logic.go:357-358), "取消收藏不回减" (376), "评论删除不回减" (391), and a
  deletion publishes no event (comment/logic.go:134-136). `KeptForTheWindow` states what the code promises, which is that
  counted points stay; of the document's promise it is the negation.

Read while modelling, and not checked: `后端接口.md:153` caps the interval of the ranking at
1440 minutes where `maxHotInterval` is 70; `modules/feed/logic.go:260` speaks of serial
handling per author, which the messages' lack of a group does not give; `consumer.go:37` names
the failed topic with a dot where the code uses an underscore; the report of the move to
RocketMQ (`docs/reports/2026-11-03`, line 90) says that redelivery scores twice, which
`CountsOncePerWindow` shows the mark to prevent within a window.

## 5. What is proved

TLAPS proves, for every value of the constants that the named assumptions allow, every safety
property that the passing runs check, and that `Pages` implements `Listing`:

| theorem | module | assumptions |
|---|---|---|
| `TypeCorrect`, `RowsFollow`, `CountFollows`, `CleanupComplete` | `LikeSwitchProofs` | finitely many users, bounds |
| `TypeCorrect`, `ExposureIsBounded`, `MissIsBounded`, `EntryIsCurrent` | `VideoCacheProofs` | times are naturals, bounds |
| `TypeCorrect`, `CountersDriftDown`, `ThreadsStayWhole`, `LikesGo` | `CommentTreeProofs` | finitely many comments, bounds |
| `TypeCorrect`, `OncePerWindow`, `PointsAreKept`, `MarkEnds`, `PageLags` | `HotScoreProofs` | `TimeAssumption` (`Minutes` and `M` positive) |
| `TypeCorrect`, `CountedOnce`, `DetailShown`, `DetailsGo` | `NotifyProofs` | bounds |
| `TypeCorrect`, `EveryFollowerReached` | `FollowFeedProofs` | finitely many users, `Big` positive, bounds |
| `FollowsTyped`, `Directions`, `SetsKeepTheWish`, `RowsSettle`, `CountersSettle` | `AccountProofs` | finitely many users, the author not among them, bounds |
| `PartsTyped`, `OneToken`, `LoggedIn`, `CopiesFollow`, `OneAvatar`, `FilesAndRow`, `VideosCounted`, `DoneMeansPublished` | `AccountProofs` | bounds |
| `TypeCorrect`, `NoneSkipped`, `ListsKeepPromise` | `PagesProofs` | finitely many ids, at least one author, pages of at least one item, bounds |

The bounds (`MaxFaults` and the like) are any naturals: they keep TLC's instances finite, and the
proofs need of them no more than that the counters are numbers. "Without a recorded cause" in the
properties is not an assumption of the theorems: the causes are variables that the actions set where
the code loses track, and erase where it recovers.

*LikeSwitch.* The properties speak of settled states only, so they are not inductive. The
invariant adds what carries them over unsettled ones. Each change of the set gets the next
number. `NumbersInOrder` bounds the numbers in flight; `CarriedIsCurrent` says that a carried
switch with a user's last number agrees with the set; `RowInv` that a user's last switch is
either carried by a request or message, or applied to the row; `CountInv` that the last
switch of all is carried or the stored count is the size, and that a worker which has
read since then holds the present size. `CleanInv` follows the stages of the deletion. When
nothing is carried, the second alternatives are the properties.

*VideoCache.* Age is carried through the pipeline: who will write an entry has an `age` that
began before it read the row, so a hidden row has been hidden no longer than that (`HideInv`);
the context ends it at `Delay` (`DelayInv`), and after the SET entry and row age together.
`MissInv` is the same for rows not found. `VerInv` says that no reader is ahead of the row, and
that an entry behind it has a recorded cause or a handler that owes the DEL.

*CommentTree.* The properties compare counters with the rows below a parent, so a proof has to know
that a step takes a row from one parent only. `TreeInv` says it: a comment has at most one parent,
which got its id before it, and an id not given out has none and counts none. Then a creation adds
one child to one parent, a deletion of a reply takes one, and the deletion of a thread takes none from
comments that stay; `lost` and `lostAt` make up the difference. With it the four properties are inductive.
For the likes (`LikesNext`), a step that takes a comment away leaves a request that owes the clearing of both
its places (`Owes`) or excuses what is there; a step that pays a part of that removes the likes or excuses
them; and a like that is set where its comment is gone is still owed to a clearing, or excused on the spot.

*HotScore.* A worker about to run the script holds a life for the mark that, from the time it
was computed, reaches exactly the end of the event's retention (`WorkInv`, `LifeInv`); so whoever has
points in a bucket is marked until no window reads that bucket (`MarkInv`), and not longer than `Delay`
after that. A second count would need the mark to have ended inside the window. `CountedInv` keeps the
bucket of what was counted until no window reads it. The proof of the arithmetic of minutes is a handful of
lemmas about `\div` (`DivBounds`, `MinuteMono`, `WindowEnds`).

*Notify.* The unique key of table `message` admits one worker at a time for an actor (`BusyInv`): the
one whose INSERT succeeded, until it has bound the row. Before it writes the thread its actor is counted
nowhere, afterwards only there, and the row is not bound, so msgclean, which finds rows by what they are
bound to, leaves it. `ThreadInv` says that a thread counts actors with a row that is bound to it or to
nothing; `CleanerInv` that what the cleaner holds is still all that is bound to its threads, since
binding waits for it, so that deleting the threads leaves no row behind.

*FollowFeed.* A scan owes nothing to who followed after it began, so completeness has to be
carried by the follow event. `Owed(u, v)` says that an event of `u` is still to be sent, or is
in the queue and whoever is handling it has read `v`; `ScanInv` says that a scan's served
followers have the video and that who came since is owed it; `IndexInv` that a video which is
out is being published, owed or in the index. `NumbersInv` makes the event of a new follow
distinct from all that workers hold, and `MarkedInv` is the order of row and event in
`publish`: without it a backfill could read the table before the row is marked and
be over after the scan, and the follower would have the video from neither.

*Account.* A behaviour follows one part, and each part has an invariant of its own that the steps of the
others leave alone.

- Sessions (`SessionInv`): a token descends from one login (`LineInv`), an uncrossed login has one live token
  and none that lapsed beside it (`OneLive`), and a token that is on its way to a tab is known to nobody
  else (`FreshInv`), so that storing it cannot be undone by an older answer.
- Profile (`ProfileInv`): edits are numbered, and whatever carries the newest number (a request, a notice,
  the copy) agrees with the row (`NewestAgrees`); the last edit is carried or copied (`LastEditHeard`);
  each avatar is brought by one request, and every one that is stored is the row's or about to be deleted
  by somebody (`OwnAvatar`, `AvatarsOwned`).
- Publication (`VideoInv`): changes of the published state are numbered likewise (`NewestCount`, `LastTurnHeard`);
  whoever publishes has all files before the row says so (`FilesInv`), and a deletion is carried until the
  files are gone (`FilesGo`). The task of the upload queue waits for one request at most (`TaskWaits`), and a row
  that failed is that of a task that failed (`FailureInv`), unless a late report came in between.
- Follows (`FollowInv`): as in LikeSwitch, but a row has to agree with the newest switch that is carried
  for its user, not only with the last (`NewestIsWish`), because the commands write the row and the sets too. What
  a command has read says what a user wished unless the sets changed since (`ToolInv`, `BetweenInv`). A size that was
  read since the last change is the set's (`NewestSize`); the handler stores the follower's counter before the
  author's (`FollowerFirst`), so what failed half-way is still owed.

*Pages.* The lists are sorted by a strict total order on keys (`AfterIsOrder`, `KeysDiffer`), and a page is what
comes first of what a query finds: `FirstIsFirst` says that whatever the cut leaves out comes after all
that it takes, `SomeLast` that a page has a last item, from which the next one goes on. `CursorInv` is
what makes a page new: none of the items shown comes after the cursor, unless it moved. `NothingSkipped` is
nearly inductive for the lists of one query. For the follow feed it needs what a request
knows: `RequestInv` (the authors it asked for are among those followed since it came, and include
all that still are), `KeysInv` (it reads every ZSET an item that stayed is in) and `PickInv` (the range of that
ZSET took the item, or `Limit + Extra` others, none with a lower score). `CrowdedOut` is the heart of it: if
no more than `Extra` of those are not to be shown, `Limit` of them come before the item, and the cut of the merged
ranges ends before it too, whatever the other ranges brought. The refinement follows the code: what is not
the reader's is a `Change`, the first step of a request `Ask`, the page `Answer`; the steps between change
nothing that `Listing` sees, because what its `window` says is what was visible and followed since the request came.

The proofs changed the models in three places. `failedLate` was erased whenever the row was marked as created:
`DoneIsPublished` then fails with two faults and three tries, when the late report meets a retry
whose request the browser has given up; it is now erased only by the request the task waits for.
Overlapping arms of CASE, of which TLC takes the first and TLA+ any, became IF. And `Pages` says that there
is an author and that no author is the inbox.

Only model-checked: `TablesConverge`, since liveness under fairness and ENABLED are outside what this
prover does, and the four counterexamples. Nothing here is defined by recursion, so no induction over data is
needed. What the theorems do not say is that the models are the code: that is for the map and a reader.

## 6. Not modelled

- *The switch of favorites*: the same script, publication, rollback, handlers and cleanup as
  like; the result of `LikeSwitch` is read over. Its list is in `Pages`.
- *cmd/consistency for likes, favorites, comments and replies*: the steps are those that `FollowSync`
  models for follows; the recount of comments is one statement, like that of videos. The report of
  orphans only reads.
- *The failed topic*: `dispatch` forwards there what is permanently wrong; nothing reads it.
  In the modules such a message is one the broker gives up.
- *Key checks, STS, signed URLs, configuration, migrations, response formats*: I/O and strings.
- *Register, searches by name, titles of notifications*: one statement, or reads.
- *The limit `infoInvalidateMaxIDs` beyond one entry's view*: in `VideoCache` an entry may be one
  that is not invalidated (`NotInvalidated`).
- *Front end*: the views' own state and the optimistic like button.

## 7. Plan

Done, in this order: LikeSwitch, VideoCache, CommentTree, HotScore, Notify, FollowFeed, Pages with
Listing, FollowSync, Session, Profile, Publication, Account; and the proofs of every safety property and of
the refinement. What is left:

1. abstract specifications of the parts whose promise is only stated as invariants so far: a switch whose
   row and count follow a set eventually (LikeSwitch, FollowSync), an inbox that holds what was published
   (FollowFeed);
2. the recounts and repairs for likes, favorites and comments as actions of their own, should they come to
   differ from those for follows;
3. proofs that are shorter: the frame lemmas of `AccountProofs` are most of its length.
