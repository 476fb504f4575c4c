------------------------------ MODULE Profile ------------------------------
(***************************************************************************)
(* The name and avatar of one user (user.UpdateProfile), the file of the   *)
(* avatar in OSS (platform/upload), and the copies of both in the rows of  *)
(* the user's videos and comments, which follow the event UserUpdated      *)
(* (HandleUserUpdated of modules video and comment).                       *)
(*                                                                         *)
(* A behaviour follows one row that copies the profile, written by         *)
(* CreateVideo or by Create of a comment, and the queue of the group that  *)
(* keeps it.  Names and avatars are numbered by the request that brought   *)
(* them; 0 is what Register stored, of which the avatar is the shared one. *)
(***************************************************************************)
EXTENDS Naturals

CONSTANTS
    Req,        \* the UpdateProfile requests that may be in flight together
    MaxEdits,   \* bound: how many such requests are begun
    MaxFaults   \* bound: the faults of OSS, MySQL, the broker and the process

VARIABLES
    user,       \* nick_name and avatar_url in the table user
    copy,       \* the name and avatar of the row that copies them, or NoRow
    avatars,    \* the avatars stored in OSS, the shared one apart
    edit,       \* the requests between two steps of UpdateProfile
    post,       \* the request that creates the copying row, between its two steps
    notices,    \* the UserUpdated messages the group has not acknowledged
    begun,      \* how many requests began
    faults,
    \* History, read by the properties only:
    edits,      \* how often the row of the user was updated
    copyEdits,  \* the value of edits when what copy holds was read
    told,       \* the highest value of edits in a handled message
    copyCause,  \* what may keep the copy from the profile until the next edit is heard
    avatarCause   \* what may keep the files from the profile

tables == <<user, copy, edits, copyEdits, told>>
vars == <<user, copy, avatars, edit, post, notices, begun, faults,
          edits, copyEdits, told, copyCause, avatarCause>>

NoRow == [name |-> MaxEdits + 2, avatar |-> MaxEdits + 2]
Blank == [name |-> MaxEdits + 1, avatar |-> MaxEdits + 1]
Idle == [pc |-> "idle"]

Fault == faults < MaxFaults /\ faults' = faults + 1
NoFault == faults' = faults

Init ==
    /\ user = [name |-> 0, avatar |-> 0] /\ copy = NoRow
    /\ avatars = {}
    /\ edit = [r \in Req |-> Idle] /\ post = Idle
    /\ notices = {} /\ begun = 0 /\ faults = 0
    /\ edits = 0 /\ copyEdits = 0 /\ told = 0
    /\ copyCause = {} /\ avatarCause = {}

Goes(r, next) == edit' = [edit EXCEPT ![r] = next]
To(r, pc) == Goes(r, [edit[r] EXCEPT !.pc = pc])

-----------------------------------------------------------------------------
(* UpdateProfile *)

\* Uploader.Save and Delete; deleting what is not there succeeds.
Saved(n) == avatars \union {n}
Deleted(n) == avatars \ {n}

\* The row is read, and a new avatar, if any, saved under a name of its own.
Begin(r, newName, newAvatar) ==
    /\ edit[r].pc = "idle" /\ begun < MaxEdits
    /\ begun' = begun + 1
    /\ Goes(r, [pc |-> "update", n |-> begun + 1, old |-> user.avatar,
                newName |-> newName, newAvatar |-> newAvatar])
    /\ avatars' = IF newAvatar THEN Saved(begun + 1) ELSE avatars
    /\ UNCHANGED <<tables, post, notices, faults, copyCause, avatarCause>>

\* Save reports an error, and the request ends.  OSS may hold the avatar all the
\* same; nobody knows its name.
SaveFails(r) ==
    /\ edit[r].pc = "idle" /\ begun < MaxEdits
    /\ Fault
    /\ begun' = begun + 1
    /\ \/ avatars' = Saved(begun + 1) /\ avatarCause' = avatarCause \union {"unsaved"}
       \/ UNCHANGED <<avatars, avatarCause>>
    /\ UNCHANGED <<tables, edit, post, notices, copyCause>>

\* The profile after the UPDATE of the columns that r brings.
Updated(r) ==
    [name   |-> IF edit[r].newName THEN edit[r].n ELSE user.name,
     avatar |-> IF edit[r].newAvatar THEN edit[r].n ELSE user.avatar]
Brings(r) == edit[r].newName \/ edit[r].newAvatar

\* Without columns nothing is written.
UpdateProfile(r) ==
    /\ edit[r].pc = "update"
    /\ user' = Updated(r)
    /\ edits' = IF Brings(r) THEN edits + 1 ELSE edits
    /\ avatarCause' = IF edit[r].newAvatar /\ user.avatar # edit[r].old
                    THEN avatarCause \union {"crossed"} ELSE avatarCause
    /\ To(r, IF edit[r].newAvatar /\ edit[r].old # 0 THEN "old" ELSE "reread")
    /\ UNCHANGED <<copy, copyEdits, told, avatars, post, notices, begun, faults, copyCause>>

\* What is left of the files when the UPDATE of r fails.  The new avatar is deleted,
\* which may fail too: it stays, and so does the old one if the UPDATE took place.
Withdrawn(r, committed) ==
    \/ /\ avatars' = Deleted(edit[r].n)
       /\ avatarCause' = IF committed /\ edit[r].newAvatar
                         THEN avatarCause \union {"committed"} ELSE avatarCause
    \/ /\ edit[r].newAvatar /\ avatars' = avatars
       /\ avatarCause' = avatarCause \union {"undeleted"}

\* The UPDATE returns an error, and may have been committed all the same.
UpdateFails(r) ==
    /\ edit[r].pc = "update" /\ Brings(r)
    /\ Fault
    /\ \E committed \in BOOLEAN :
          /\ user' = IF committed THEN Updated(r) ELSE user
          /\ edits' = IF committed THEN edits + 1 ELSE edits
          /\ copyCause' = IF committed THEN copyCause \union {"unpublished"} ELSE copyCause
          /\ Withdrawn(r, committed)
    /\ Goes(r, Idle)
    /\ UNCHANGED <<copy, copyEdits, told, post, notices, begun>>

\* Mutant: the avatar that the row has now is deleted.
OldAvatar_Current(r) == user.avatar

\* What the row had when the request began.
OldAvatar(r) == edit[r].old

\* The old avatar is deleted; an error is ignored.
DeleteOld(r) ==
    /\ edit[r].pc = "old"
    /\ \/ avatars' = Deleted(OldAvatar(r)) /\ NoFault /\ avatarCause' = avatarCause
       \/ avatars' = avatars /\ Fault /\ avatarCause' = avatarCause \union {"undeleted"}
    /\ To(r, "reread")
    /\ UNCHANGED <<tables, post, notices, begun, copyCause>>

\* Mutant: the event carries the avatar read at the beginning of the request.
Notice_OldAvatar(r) == [n |-> edit[r].n, edits |-> edits, name |-> user.name, avatar |-> edit[r].old]

\* What the event says: the row as it is read again.
Notice(r) == [n |-> edit[r].n, edits |-> edits, name |-> user.name, avatar |-> user.avatar]

Reread(r) ==
    /\ edit[r].pc = "reread"
    /\ Goes(r, [pc |-> "publish", notice |-> Notice(r)])
    /\ UNCHANGED <<tables, avatars, post, notices, begun, faults, copyCause, avatarCause>>

PublishOk(r) ==
    /\ edit[r].pc = "publish"
    /\ notices' = notices \union {edit[r].notice}
    /\ Goes(r, Idle)
    /\ UNCHANGED <<tables, avatars, post, begun, faults, copyCause, avatarCause>>

\* The row cannot be read again, or the publication fails: the answer is an
\* error, the profile stays changed, and nothing is tried again.
AnnounceFails(r) ==
    /\ edit[r].pc \in {"reread", "publish"}
    /\ Fault
    /\ \/ notices' = notices
       \/ edit[r].pc = "publish" /\ notices' = notices \union {edit[r].notice}
    /\ copyCause' = copyCause \union {"unpublished"}
    /\ Goes(r, Idle)
    /\ UNCHANGED <<tables, avatars, post, begun, avatarCause>>

\* The process stops and starts again.
Restart ==
    /\ Fault
    /\ copyCause' = IF \E r \in Req : edit[r].pc \in {"old", "reread", "publish"}
                    THEN copyCause \union {"unpublished"} ELSE copyCause
    /\ avatarCause' = IF \E r \in Req : edit[r].pc = "old" \/ (edit[r].pc = "update" /\ edit[r].newAvatar)
                    THEN avatarCause \union {"undeleted"} ELSE avatarCause
    /\ edit' = [r \in Req |-> Idle] /\ post' = Idle
    /\ UNCHANGED <<tables, avatars, notices, begun>>

-----------------------------------------------------------------------------
(* The row that copies the profile *)

\* CreateVideo and Create read the user, ...
ReadUser ==
    /\ copy = NoRow /\ post.pc = "idle"
    /\ post' = [pc |-> "insert", row |-> user, edits |-> edits]
    /\ UNCHANGED <<tables, avatars, edit, notices, begun, faults, copyCause, avatarCause>>

\* ... and a comment goes on without a name when it cannot, ...
UserUnread ==
    /\ copy = NoRow /\ post.pc = "idle"
    /\ Fault
    /\ post' = [pc |-> "insert", row |-> Blank, edits |-> 0]
    /\ copyCause' = copyCause \union {"unread"}
    /\ UNCHANGED <<tables, avatars, edit, notices, begun, avatarCause>>

\* ... and insert.
Insert ==
    /\ post.pc = "insert"
    /\ copy' = post.row /\ copyEdits' = post.edits
    /\ copyCause' = IF post.edits < told THEN copyCause \union {"insertedLate"} ELSE copyCause
    /\ post' = Idle
    /\ UNCHANGED <<user, edits, told, avatars, edit, notices, begun, faults, avatarCause>>

\* What UpdateAuthorInfo, or UpdateCommenterInfo, leaves of a row that is there.
Copied(e) == IF copy = NoRow THEN copy ELSE [name |-> e.name, avatar |-> e.avatar]

\* HandleUserUpdated: one UPDATE of all rows there are; then the message is
\* acknowledged, or delivered again.
UpdateCopies(e) ==
    /\ e \in notices
    /\ \/ notices' = notices \ {e} /\ NoFault
       \/ notices' = notices /\ Fault
    /\ copy' = Copied(e)
    /\ copyEdits' = IF copy = NoRow THEN copyEdits ELSE e.edits
    /\ told' = IF e.edits > told THEN e.edits ELSE told
    /\ copyCause' = CASE copy # NoRow /\ e.edits = edits -> {}
                      [] copy # NoRow /\ e.edits < copyEdits -> copyCause \union {"reordered"}
                      [] OTHER -> copyCause
    /\ UNCHANGED <<user, edits, avatars, edit, post, begun, avatarCause>>

\* The broker gives up.
DeadLetter(e) ==
    /\ e \in notices
    /\ Fault
    /\ notices' = notices \ {e}
    /\ copyCause' = IF e.edits = edits THEN copyCause \union {"deadLetter"} ELSE copyCause
    /\ UNCHANGED <<tables, avatars, edit, post, begun, avatarCause>>

-----------------------------------------------------------------------------
Next ==
    \/ \E r \in Req :
          \/ \E newName, newAvatar \in BOOLEAN : Begin(r, newName, newAvatar)
          \/ SaveFails(r)
          \/ UpdateProfile(r)
          \/ UpdateFails(r)
          \/ DeleteOld(r)
          \/ Reread(r)
          \/ PublishOk(r)
          \/ AnnounceFails(r)
    \/ Restart
    \/ ReadUser
    \/ UserUnread
    \/ Insert
    \/ \E e \in notices : UpdateCopies(e)
    \/ \E e \in notices : DeadLetter(e)

Spec == Init /\ [][Next]_vars

-----------------------------------------------------------------------------
(* Properties *)

Shown(n) == [name : 0 .. n, avatar : 0 .. n]

\* The values the variables take.
TypeOK ==
    /\ user \in Shown(begun) /\ copy \in Shown(begun) \union {NoRow, Blank}
    /\ avatars \subseteq 1 .. begun
    /\ \A r \in Req : edit[r].pc \in {"idle", "update", "old", "reread", "publish"}
    /\ post.pc \in {"idle", "insert"}
    /\ \A e \in notices : e.edits <= edits
    /\ begun \in 0 .. MaxEdits /\ edits <= begun /\ told <= edits /\ copyEdits <= edits

Settled == \A r \in Req : edit[r].pc = "idle"

\* Videos and comments end up with the name and avatar of their author, however
\* edits, their messages and the creation of the row interleave, unless an edit
\* was not announced, its message was handled after a newer one, given up or
\* handled before a row written from what was read earlier.
CopiesSettle ==
    Settled /\ post.pc = "idle" /\ notices = {} /\ copyCause = {} /\ copy # NoRow => copy = user

\* The avatar a user has is in OSS, whoever else's request deletes one, unless an
\* UPDATE that reported an error was committed and its avatar withdrawn; and no
\* other file of the user is left, unless two requests that bring one crossed, an
\* upload that reported an error stored one, or a deletion was not made.
AvatarIsStored ==
    /\ "committed" \notin avatarCause => user.avatar \in avatars \union {0}
    /\ Settled /\ avatarCause = {} => avatars \subseteq {user.avatar}
=============================================================================
