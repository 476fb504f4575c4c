------------------------------ MODULE Account ------------------------------
(***************************************************************************)
(* What is kept of one user besides content: who follows them (FollowSync),*)
(* their login sessions (Session), their name and avatar (Profile) and the *)
(* video they publish (Publication).                                       *)
(*                                                                         *)
(* The four use different keys, columns and topics, and no step of one     *)
(* reads what another writes; so a behaviour follows one of them, and the  *)
(* others stay as they were.  They have their faults in common.            *)
(***************************************************************************)
EXTENDS FollowSync, Sequences

CONSTANTS
    Tab, MaxToken,                  \* of Session
    MaxEdits,                       \* of Profile
    Listener, MaxAsks, MaxTries     \* of Publication: the threads of the group "user", ...

ASSUME PartsBoundAssumption ==
    MaxToken \in Nat /\ MaxEdits \in Nat /\ MaxAsks \in Nat /\ MaxTries \in Nat

VARIABLES
    part,       \* the part that this behaviour follows
    line, live, stored, held, call, lapsed, unheard, ended, crossed, astray,
    user, copy, avatars, edit, post, notices, begun, edits, copyEdits, told, copyCause, avatarCause,
    status, files, task, tries, ask, asks, queue, news, tally, videoCount,
    turns, countTurns, videoCause, fileCause, failedLate

follows == <<sets, tables, causes, req, group, inbox, work, tool, runs>>
sessions == <<line, live, stored, held, call, lapsed, unheard, ended, crossed, astray>>
profiles == <<user, copy, avatars, edit, post, notices, begun,
              edits, copyEdits, told, copyCause, avatarCause>>
videos == <<status, files, task, tries, ask, asks, queue, news, tally, videoCount,
            turns, countTurns, videoCause, fileCause, failedLate>>

S == INSTANCE Session
P == INSTANCE Profile
V == INSTANCE Publication WITH Worker <- Listener, countCause <- videoCause

\* A part that is not followed starts in one state only.
AccountInit ==
    /\ part \in {"follows", "sessions", "profiles", "videos"}
    /\ Init /\ S!Init /\ P!Init /\ V!Init
    /\ part # "follows" => fwd = {} /\ group = "user"
    /\ part # "videos" => queue = "user"

AccountNext ==
    \/ part = "follows" /\ Next /\ UNCHANGED <<part, sessions, profiles, videos>>
    \/ part = "sessions" /\ S!Next /\ UNCHANGED <<part, follows, profiles, videos>>
    \/ part = "profiles" /\ P!Next /\ UNCHANGED <<part, follows, sessions, videos>>
    \/ part = "videos" /\ V!Next /\ UNCHANGED <<part, follows, sessions, profiles>>

AccountSpec == AccountInit /\ [][AccountNext]_<<part, faults, follows, sessions, profiles, videos>>

-----------------------------------------------------------------------------
(* Properties *)

\* The values the variables of the parts take; those of FollowSync in its TypeOK.
PartsTypeOK == S!TypeOK /\ P!TypeOK /\ V!TypeOK

\* See Session: a login is good for one token, and for none after a logout.
SessionEnds == S!SessionEnds

\* See Session: whoever looks logged in can refresh the stored token.
StoredIsLive == S!StoredIsLive

\* See Profile: videos and comments end up with their author's name and avatar.
CopiesSettle == P!CopiesSettle

\* See Profile: a user's avatar is stored, and no other.
AvatarIsStored == P!AvatarIsStored

\* See Publication: visible videos have their files, deleted ones leave none.
FilesFollowRow == V!FilesFollowRow

\* See Publication: user.video_count follows the published rows.
CountFollowsVideo == V!CountFollowsVideo

\* See Publication: an upload reported as done is published.
DoneIsPublished == V!DoneIsPublished
=============================================================================
