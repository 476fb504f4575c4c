---------------------------- MODULE Publication ----------------------------
(***************************************************************************)
(* One video from its upload to its deletion: the browser's upload task    *)
(* (composables/useUploadQueue.ts), the status of the row and the requests *)
(* that change it (video.UpdateStatus, DeleteVideo), the two files in OSS, *)
(* and what follows the events VideoCreated, VideoPrivateSwitched and      *)
(* VideoDeleted in the groups "user" (user.video_count) and "video" (the   *)
(* files).                                                                 *)
(*                                                                         *)
(* The browser uploads to OSS directly; the server only looks whether the  *)
(* files are there.  A behaviour follows the queue of one of the groups,   *)
(* and the author has no other video.  The entry of the video in the cache *)
(* is VideoCache's and the feed's index FollowFeed's.                      *)
(***************************************************************************)
EXTENDS Integers

CONSTANTS
    Req,        \* the requests that may be in flight together
    Worker,     \* the listener threads of the group "user"
    MaxAsks,    \* bound: how many requests the owner sends besides the task
    MaxTries,   \* bound: how often the task uploads
    MaxFaults   \* bound: the faults of OSS, network, broker and process

VARIABLES
    status,     \* of the row, "none" before it is created
    files,      \* the files of the video that are in OSS
    task,       \* the upload task: what it does next, or waits for
    tries,      \* how often it started to upload
    ask,        \* the requests between two steps of the server
    asks,       \* how many the owner sent
    queue,      \* the group whose queue this behaviour follows
    news,       \* the messages it has not acknowledged
    tally,      \* the workers between two steps of syncVideoCount
    videoCount, \* user.video_count of the author
    faults,
    \* History, read by the properties only:
    turns,      \* how often the video became or ceased to be published
    countTurns, \* the value of turns when the stored count was read
    countCause, \* what may keep the count from the rows until the next turn is heard
    fileCause,  \* what may keep files of a deleted video
    failedLate  \* a report of failure took effect after the upload had been retried

causes == <<countCause, fileCause>>
client == <<task, tries>>
counting == <<tally, videoCount, countTurns>>
vars == <<status, files, task, tries, ask, asks, queue, news, tally, videoCount, faults,
          turns, countTurns, countCause, fileCause, failedLate>>

File == {"cover", "play"}
Idle == [pc |-> "idle"]

Fault == faults < MaxFaults /\ faults' = faults + 1
NoFault == faults' = faults

Init ==
    /\ status = "none" /\ files = {}
    /\ task = "none" /\ tries = 0
    /\ ask = [r \in Req |-> Idle] /\ asks = 0
    /\ queue \in {"user", "video"} /\ news = {}
    /\ tally = [w \in Worker |-> Idle] /\ videoCount = 0
    /\ faults = 0
    /\ turns = 0 /\ countTurns = 0
    /\ countCause = {} /\ fileCause = {} /\ failedLate = FALSE

-----------------------------------------------------------------------------
(* The upload task *)

\* The request that the browser sends; by "task" if the task waits for its answer.
Send(r, kind, by) ==
    /\ ask[r].pc = "idle"
    /\ ask' = [ask EXCEPT ![r] = [pc |-> kind, by |-> by, try |-> tries]]

\* The row as CreateVideo inserts it.
CreateVideo == status' = "created"

\* startUpload: credential and CreateVideo.  The answer may be lost: no task.
StartUpload ==
    /\ status = "none"
    /\ CreateVideo
    /\ \/ task' = "cover" /\ tries' = 1 /\ NoFault
       \/ UNCHANGED client /\ Fault
    /\ UNCHANGED <<files, ask, asks, queue, news, counting, turns, causes, failedLate>>

\* runUpload: the cover, then the play file.  Nothing stops it when the video is
\* deleted, and OSS may hold a file whose upload failed for the browser.
Put(file, next) ==
    /\ task = file
    /\ \/ task' = next /\ NoFault
       \/ task' = "fail" /\ Fault
    /\ \/ files' = files \union {file}
          /\ fileCause' = IF status = "deleted" THEN fileCause \union {"uploadedLate"} ELSE fileCause
       \/ task' = "fail" /\ UNCHANGED <<files, fileCause>>
    /\ UNCHANGED <<status, tries, ask, asks, queue, news, counting, turns, countCause, failedLate>>

AskPublish(r) ==
    /\ task = "publish"
    /\ Send(r, "published", "task")
    /\ task' = "asked"
    /\ UNCHANGED <<status, files, tries, asks, queue, news, counting, faults, turns, causes, failedLate>>

\* The browser gives up a request after 12 s; the server does not.
GiveUp(r) ==
    /\ ask[r].pc # "idle" /\ ask[r].by = "task"
    /\ Fault
    /\ ask' = [ask EXCEPT ![r].by = "nobody"]
    /\ task' = IF task = "asked" THEN "fail" ELSE "failed"
    /\ UNCHANGED <<status, files, tries, asks, queue, news, counting, turns, causes, failedLate>>

\* The task shows itself as failed and reports it, without minding the answer.
ReportFailure(r) ==
    /\ task = "fail"
    /\ Send(r, "failed", "nobody")
    /\ task' = "failed"
    /\ UNCHANGED <<status, files, tries, asks, queue, news, counting, faults, turns, causes, failedLate>>

\* Mutant: the task uploads again without taking the status back.
Retry_Silently(r) ==
    /\ task = "failed" /\ tries < MaxTries
    /\ task' = "cover" /\ tries' = tries + 1 /\ ask' = ask
    /\ UNCHANGED <<status, files, asks, queue, news, counting, faults, turns, causes, failedLate>>

\* retryTask asks for the status "created", and a credential for the same files.
Retry(r) ==
    /\ task = "failed" /\ tries < MaxTries
    /\ Send(r, "created", "task")
    /\ task' = "retry" /\ tries' = tries + 1
    /\ UNCHANGED <<status, files, asks, queue, news, counting, faults, turns, causes, failedLate>>

\* The owner's other requests.  The server takes them whatever the page shows.
Ask(r, kind) ==
    /\ status # "none"
    /\ asks < MaxAsks /\ asks' = asks + 1
    /\ Send(r, kind, "nobody")
    /\ UNCHANGED <<status, files, client, queue, news, counting, faults, turns, causes, failedLate>>

-----------------------------------------------------------------------------
(* The server: UpdateStatus and DeleteVideo *)

To(r, pc) == ask' = [ask EXCEPT ![r].pc = pc]

\* r is answered, and the task goes on if it waits for it.
Answer(r, ok) ==
    /\ ask' = [ask EXCEPT ![r] = Idle]
    /\ task' = IF ask[r].by # "task" THEN task
               ELSE CASE task = "asked" /\ ok -> "done"
                      [] task = "asked" /\ ~ok -> "fail"
                      [] task = "retry" /\ ok -> "cover"
                      [] OTHER -> "failed"

\* The step of r changes the status to s; turns counts the changes that the
\* number of published videos depends on.
Turn(s) ==
    /\ status' = s
    /\ turns' = IF (status = "published") # (s = "published") THEN turns + 1 ELSE turns
Stays == UNCHANGED <<status, turns>>

\* "published": the row tells a first publication from the end of privacy.
ReadStatus(r) ==
    /\ ask[r].pc = "published"
    /\ CASE status = "deleted" -> Answer(r, FALSE)
         [] status = "private" -> To(r, "unprivate") /\ UNCHANGED task
         [] OTHER -> To(r, "head") /\ UNCHANGED task
    /\ UNCHANGED <<status, files, tries, asks, queue, news, counting, faults, turns, causes, failedLate>>

\* Mutant: only the cover is looked for.
Uploaded_CoverOnly == "cover" \in files

\* What publish finds with Head.
Uploaded == files = File

Head(r) ==
    /\ ask[r].pc = "head"
    /\ IF Uploaded THEN To(r, "publish") /\ UNCHANGED task ELSE Answer(r, FALSE)
    /\ UNCHANGED <<status, files, tries, asks, queue, news, counting, faults, turns, causes, failedLate>>

Announcing(r, kind) ==
    ask' = [ask EXCEPT ![r] = [pc |-> "announce", kind |-> kind, by |-> ask[r].by, turn |-> turns']]

\* The end of publish.  A row that is no longer "created" was published, it says.
Publish(r) ==
    /\ ask[r].pc = "publish"
    /\ IF status = "created"
       THEN Turn("published") /\ Announcing(r, "created") /\ UNCHANGED task
       ELSE Stays /\ Answer(r, status # "deleted")
    /\ UNCHANGED <<files, tries, asks, queue, news, counting, faults, causes, failedLate>>

\* switchPrivate, in one of its directions.
SwitchPrivate(r, from, to) ==
    /\ IF status = from
       THEN Turn(to) /\ Announcing(r, "switched") /\ UNCHANGED task
       ELSE Stays /\ Answer(r, status = to)
    /\ UNCHANGED <<files, tries, asks, queue, news, counting, faults, causes, failedLate>>
Hide(r) == ask[r].pc = "private" /\ SwitchPrivate(r, "published", "private")
Unhide(r) == ask[r].pc = "unprivate" /\ SwitchPrivate(r, "private", "published")

\* "failed" and "created" answer alike whether or not the status was changed.
MarkFailed(r) ==
    /\ ask[r].pc = "failed"
    /\ IF status = "created" THEN Turn("failed") ELSE Stays
    /\ failedLate' = (failedLate \/ (status = "created" /\ ask[r].try < tries))
    /\ Answer(r, TRUE)
    /\ UNCHANGED <<files, tries, asks, queue, news, counting, faults, causes>>

MarkCreated(r) ==
    /\ ask[r].pc = "created"
    /\ IF status = "failed" THEN Turn("created") ELSE Stays
    /\ failedLate' = (failedLate /\ ask[r].by # "task")
    /\ Answer(r, status # "deleted")
    /\ UNCHANGED <<files, tries, asks, queue, news, counting, faults, causes>>

\* DeleteVideo reads the row, ...
ReadForDelete(r) ==
    /\ ask[r].pc = "delete"
    /\ ask' = [ask EXCEPT ![r] = IF status = "deleted" THEN Idle
                                 ELSE [pc |-> "row", by |-> "nobody", was |-> status]]
    /\ UNCHANGED <<status, files, client, asks, queue, news, counting, faults, turns, causes, failedLate>>

\* No group needs to hear of a video with such a status.
Unpublished(was) == was \in {"created", "failed"}

\* ... and deletes it.  What follows depends on the status it read.
DeleteRow(r) ==
    /\ ask[r].pc = "row"
    /\ Turn("deleted")
    /\ IF Unpublished(ask[r].was)
       THEN /\ To(r, "cleanup")
            /\ countCause' = IF status = "published" THEN countCause \union {"stale"} ELSE countCause
       ELSE Announcing(r, "deleted") /\ UNCHANGED countCause
    /\ UNCHANGED <<files, client, asks, queue, news, counting, faults, fileCause, failedLate>>

\* The files of a video that was not published are deleted at once; what fails
\* stays.
Cleanup(r) ==
    /\ ask[r].pc = "cleanup"
    /\ \/ files' = {} /\ NoFault /\ fileCause' = fileCause \ {"uploadedLate"}
       \/ files' \in SUBSET files /\ Fault /\ fileCause' = fileCause \union {"undeleted"}
    /\ ask' = [ask EXCEPT ![r] = Idle]
    /\ UNCHANGED <<status, client, asks, queue, news, counting, turns, countCause, failedLate>>

\* The event of r, as the followed group receives it.
Event(r) == [kind |-> ask[r].kind, turn |-> ask[r].turn]
Stored(r) == IF queue = "user" \/ ask[r].kind = "deleted" THEN news \union {Event(r)} ELSE news

AnnounceOk(r) ==
    /\ ask[r].pc = "announce"
    /\ news' = Stored(r)
    /\ Answer(r, TRUE)
    /\ UNCHANGED <<status, files, tries, asks, queue, counting, faults, turns, causes, failedLate>>

Silent(kind) == IF kind = "deleted" THEN fileCause \union {"unpublished"} ELSE fileCause

\* The publication fails for the sender: an error for VideoCreated and
\* VideoDeleted, which nobody publishes again, and a line in the log otherwise.
AnnounceFails(r) ==
    /\ ask[r].pc = "announce"
    /\ Fault
    /\ news' \in {news, Stored(r)}
    /\ countCause' = countCause \union {"unpublished"}
    /\ fileCause' = Silent(ask[r].kind)
    /\ Answer(r, ask[r].kind = "switched")
    /\ UNCHANGED <<status, files, tries, asks, queue, counting, turns, failedLate>>

-----------------------------------------------------------------------------
(* The consumer groups *)

\* Acknowledged, or delivered again.
Settle(e) ==
    \/ news' = news \ {e} /\ NoFault
    \/ news' = news /\ Fault

\* group "video", handleVideoDeleted: the play file, then the cover.
DeleteFiles(e) ==
    /\ queue = "video" /\ e \in news
    /\ \/ files' = {} /\ Settle(e) /\ fileCause' = fileCause \ {"uploadedLate"}
       \/ files' \in {files, files \ {"play"}} /\ Fault /\ UNCHANGED <<news, fileCause>>
    /\ UNCHANGED <<status, client, ask, asks, queue, counting, turns, countCause, failedLate>>

\* Mutant: every video that is there counts.
Listed_All == status # "deleted"

\* The videos that CountByAuthor counts.
Listed == status = "published"
Count == IF Listed THEN 1 ELSE 0

\* Mutant: the number is counted up and down.
CountByAuthor_Increment(w, e) ==
    /\ queue = "user" /\ e \in news /\ tally[w].pc = "idle"
    /\ tally' = [tally EXCEPT ![w] = [pc |-> "store", e |-> e, turns |-> turns,
                                      val |-> IF e.kind = "deleted" THEN videoCount - 1 ELSE videoCount + 1]]
    /\ UNCHANGED <<status, files, client, ask, asks, queue, news, videoCount, faults,
                   turns, countTurns, causes, failedLate>>

\* group "user", syncVideoCount: CountByAuthor, ...
CountByAuthor(w, e) ==
    /\ queue = "user" /\ e \in news /\ tally[w].pc = "idle"
    /\ tally' = [tally EXCEPT ![w] = [pc |-> "store", e |-> e, turns |-> turns, val |-> Count]]
    /\ UNCHANGED <<status, files, client, ask, asks, queue, news, videoCount, faults,
                   turns, countTurns, causes, failedLate>>

\* ... and SyncVideoCount.
SyncVideoCount(w) ==
    LET at == tally[w].turns
    IN  /\ tally[w].pc = "store"
        /\ videoCount' = tally[w].val /\ countTurns' = at
        /\ countCause' = CASE at = turns -> {}
                           [] at < turns /\ at < countTurns -> countCause \union {"staleWrite"}
                           [] OTHER -> countCause
        /\ Settle(tally[w].e)
        /\ tally' = [tally EXCEPT ![w] = Idle]
        /\ UNCHANGED <<status, files, client, ask, asks, queue, turns, fileCause, failedLate>>

\* cmd/consistency, rebuildContentCounts: one UPDATE counts and stores.
RebuildContentCounts ==
    /\ videoCount # Count
    /\ videoCount' = Count /\ countTurns' = turns
    /\ countCause' = {}
    /\ UNCHANGED <<status, files, client, ask, asks, queue, news, tally, faults, turns, fileCause, failedLate>>

\* The broker gives up.
DeadLetter(e) ==
    /\ e \in news
    /\ Fault
    /\ news' = news \ {e}
    /\ countCause' = IF e.turn = turns THEN countCause \union {"deadLetter"} ELSE countCause
    /\ fileCause' = IF e.kind = "deleted" THEN fileCause \union {"deadLetter"} ELSE fileCause
    /\ UNCHANGED <<status, files, client, ask, asks, queue, counting, turns, failedLate>>

\* The server stops and starts again; the task is told of an error.
Restart ==
    LET Lost(pc) == \E r \in Req : ask[r].pc = pc
        LostDeletion == \E r \in Req : ask[r].pc = "announce" /\ ask[r].kind = "deleted"
    IN  /\ Fault
        /\ ask' = [r \in Req |-> Idle] /\ tally' = [w \in Worker |-> Idle]
        /\ task' = CASE task = "asked" -> "fail"
                     [] task = "retry" -> "failed"
                     [] OTHER -> task
        /\ countCause' = IF Lost("announce") THEN countCause \union {"unpublished"} ELSE countCause
        /\ fileCause' = IF Lost("cleanup") \/ LostDeletion THEN fileCause \union {"unpublished"} ELSE fileCause
        /\ UNCHANGED <<status, files, tries, asks, queue, news, videoCount, turns, countTurns, failedLate>>

-----------------------------------------------------------------------------
Next ==
    \/ StartUpload
    \/ Put("cover", "play")
    \/ Put("play", "publish")
    \/ \E r \in Req :
          \/ AskPublish(r)
          \/ GiveUp(r)
          \/ ReportFailure(r)
          \/ Retry(r)
          \/ \E kind \in {"private", "published", "delete"} : Ask(r, kind)
          \/ ReadStatus(r)
          \/ Head(r)
          \/ Publish(r)
          \/ Hide(r)
          \/ Unhide(r)
          \/ MarkFailed(r)
          \/ MarkCreated(r)
          \/ ReadForDelete(r)
          \/ DeleteRow(r)
          \/ Cleanup(r)
          \/ AnnounceOk(r)
          \/ AnnounceFails(r)
    \/ \E e \in news : DeleteFiles(e)
    \/ \E w \in Worker, e \in news : CountByAuthor(w, e)
    \/ \E w \in Worker : SyncVideoCount(w)
    \/ RebuildContentCounts
    \/ \E e \in news : DeadLetter(e)
    \/ Restart

Spec == Init /\ [][Next]_vars

-----------------------------------------------------------------------------
(* Properties *)

\* The values the variables take.
TypeOK ==
    /\ status \in {"none", "created", "failed", "published", "private", "deleted"}
    /\ files \subseteq File
    /\ task \in {"none", "cover", "play", "publish", "asked", "fail", "failed", "retry", "done"}
    /\ \A r \in Req : ask[r].pc \in {"idle", "published", "private", "failed", "created", "delete", "head",
                                     "publish", "unprivate", "row", "cleanup", "announce"}
    /\ queue \in {"user", "video"} /\ \A e \in news : e.turn <= turns
    /\ videoCount \in {0, 1} /\ countTurns <= turns

\* No event or deletion of files is on its way.
Settled ==
    /\ \A r \in Req : ask[r].pc \notin {"announce", "cleanup"}
    /\ news = {}

\* Whoever can see the video can play it; and a deleted video leaves no file,
\* whichever way it is deleted and whatever upload or publication it crosses,
\* unless the upload went on, or the deletion of a file or the event was lost.
FilesFollowRow ==
    /\ status \in {"published", "private"} => files = File
    /\ queue = "video" /\ Settled /\ status = "deleted" /\ fileCause = {} => files = {}

\* The author's number of videos ends up with the rows that are published,
\* unless an event was not published or given up, an older number was written
\* after a newer one, or the deletion took the video for one never published.
CountFollowsVideo ==
    queue = "user" /\ Settled /\ countCause = {} => videoCount = (IF status = "published" THEN 1 ELSE 0)

\* A task that left the queue as done has published its video, through all
\* failures and retries, unless the report of an earlier failure overtook the
\* retry: publish then takes the failed video for a published one.
DoneIsPublished ==
    task = "done" /\ ~failedLate => status \in {"published", "private", "deleted"}
=============================================================================
