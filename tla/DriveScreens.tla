---------------------------- MODULE DriveScreens ----------------------------
(***************************************************************************)
(* What the driver sees of the uploads: PostDriveActivity, HomeActivity and   *)
(* SessionStore on the main thread of the phone app, UploadService with its    *)
(* thread, and UploadProgress, which both share. Messages to the main thread    *)
(* are handled in order, between the clicks of the driver. What the upload      *)
(* itself does is the module Upload; here it ends well or not.                  *)
(***************************************************************************)
EXTENDS Integers, SequencesExt

CONSTANTS
    Sessions,    \* the drives on the phone
    MaxScreens,  \* upload screens on top of each other (a bound)
    MaxUploads,  \* uploads started and kills of the process (a bound)
    MaxPosts,    \* messages that wait for the main thread (a bound)
    None

VARIABLES
    onDisk,   \* the sessions whose folder exists
    flagged,  \* [uploaded, skipped]: the folders that hold the flag
    old,      \* the folders past the retention that applies to them
    active,   \* UploadProgress.activeSessionDir
    current,  \* UploadProgress.current: [of, is]
    posts,    \* messages to the main thread
    thread,   \* the upload thread: [of, at, cancelled], or None
    screens,  \* the upload screens, the last one visible: [of, watching, shows, hid, asking]
    prompt,   \* the session of the "Unfinished Upload" dialog, or None
    login,    \* a token is stored
    notifies, \* the app may post notifications
    used      \* of MaxUploads

vars == <<onDisk, flagged, old, active, current, posts, thread, screens, prompt, login,
          notifies, used>>

disk    == <<onDisk, flagged, old>>
account == <<login, notifies>>

Init ==
    /\ onDisk = Sessions /\ flagged = [uploaded |-> {}, skipped |-> {}] /\ old = {}
    /\ active = None /\ current = None /\ posts = <<>> /\ thread = None
    /\ screens = <<>> /\ prompt = None /\ login = TRUE /\ used = 0
    /\ notifies \in BOOLEAN

State(s, is) == [kind |-> "state", of |-> s, is |-> is]
Msg(kind, s, is) == [kind |-> kind, of |-> s, is |-> is]

Top == Last(screens)
SetTop(screen) == screens' = Append(Front(screens), screen)
Visible == screens # <<>>

\* onStart: UploadProgress.observe.
Observed == Append(posts, Msg("observe", None, Len(screens')))

-----------------------------------------------------------------------------
(* SessionStore and HomeActivity *)

SweptAlways(s) == s \in old                                                     \* mutant
\* sweepStaleSessions: the retention of a session depends on its flag, see Age.
Swept(s) == s \in old /\ active # s

\* findPendingSessions, and not the one that is uploading.
Pending(s) == s \in onDisk \ (flagged.uploaded \cup flagged.skipped \cup old) /\ active # s

\* HomeActivity.onCreate, at a launch or when the screen is built anew.
Launch ==
    /\ login /\ ~Visible /\ prompt = None
    /\ onDisk' = {s \in onDisk : ~Swept(s)}
    /\ \/ prompt' \in {s \in Sessions : Pending(s)}
       \/ UNCHANGED prompt
    /\ UNCHANGED <<flagged, old, active, current, posts, thread, screens, account, used>>

\* 24 hours, or two minutes after uploaded.flag.
Age == \E s \in onDisk \ old :
    /\ old' = old \cup {s}
    /\ UNCHANGED <<onDisk, flagged, active, current, posts, thread, screens, prompt,
                   account, used>>

Screen(s) == [of |-> s, watching |-> FALSE, shows |-> "question", hid |-> FALSE, asking |-> FALSE]

\* The upload screen opens over the one that is visible, which stops observing.
Open(s) ==
    /\ Len(screens) < MaxScreens
    /\ screens' = (IF Visible THEN Append(Front(screens), [Top EXCEPT !.hid = TRUE]) ELSE <<>>)
                  \o <<Screen(s)>>
    /\ posts' = Observed

\* After the drive; over another one only by the notification of a failed upload.
OpenScreen == \E s \in onDisk :
    /\ login /\ Len(posts) < MaxPosts
    /\ Visible => notifies
    /\ Open(s)
    /\ UNCHANGED <<disk, active, current, thread, prompt, account, used>>

PromptUpload ==
    /\ prompt # None /\ ~Visible /\ Len(posts) < MaxPosts
    /\ Open(prompt) /\ prompt' = None
    /\ UNCHANGED <<disk, active, current, thread, account, used>>

PromptSkip ==
    /\ prompt # None /\ ~Visible
    /\ flagged' = [flagged EXCEPT !.skipped = @ \cup ({prompt} \cap onDisk)]
    /\ prompt' = None
    /\ UNCHANGED <<onDisk, old, active, current, posts, thread, screens, account, used>>

-----------------------------------------------------------------------------
(* PostDriveActivity *)

\* finish: the screen below, if any, comes back and observes again.
Leave ==
    /\ screens' = Front(screens)
    /\ posts' = IF screens' = <<>> THEN posts ELSE Observed

\* UploadService.start, from the visible screen.
StartService ==
    LET s == Top.of IN
    /\ SetTop([Top EXCEPT !.watching = TRUE, !.shows = "progress", !.hid = FALSE, !.asking = FALSE])
    /\ IF active # None THEN UNCHANGED <<active, current, posts>>
       ELSE \/ /\ active' = s
               /\ current' = State(s, "uploading")
               /\ posts' = posts \o <<current', Msg("start", s, None)>>
            \/ /\ active' = None                \* Android refused a foreground service
               /\ current' = State(s, "failed")
               /\ posts' = posts \o <<State(s, "uploading"), current'>>

\* uploadDrive: without the permission to notify the driver is asked first.
ClickYes ==
    /\ Visible /\ Top.shows = "question" /\ ~Top.asking
    /\ used < MaxUploads /\ Len(posts) < MaxPosts
    /\ Top.of \in onDisk /\ active \in {None, Top.of}
    /\ IF notifies THEN StartService
       ELSE SetTop([Top EXCEPT !.asking = TRUE]) /\ UNCHANGED <<active, current, posts>>
    /\ used' = used + 1
    /\ UNCHANGED <<disk, thread, prompt, account>>

Answered ==
    /\ Visible /\ Top.asking /\ Len(posts) < MaxPosts
    /\ StartService
    /\ notifies' \in BOOLEAN
    /\ UNCHANGED <<disk, thread, prompt, login, used>>

ClickNo ==
    /\ Visible /\ ~Top.asking
    /\ flagged' = IF Top.watching \/ Top.of \notin onDisk THEN flagged
                  ELSE [flagged EXCEPT !.skipped = @ \cup {Top.of}]
    /\ Leave
    /\ UNCHANGED <<onDisk, old, active, current, thread, prompt, account, used>>

Back ==
    /\ Visible /\ ~Top.asking
    /\ Leave
    /\ UNCHANGED <<disk, active, current, thread, prompt, account, used>>

ShowsAnyResult(screen, state) == TRUE                                           \* mutant
\* renderUpload and finishWatching: a result only where this upload was watched.
Concerns(screen, state) ==
    state.of = screen.of /\ (state.is \in {"uploading", "finalizing"} \/ screen.watching)

Rendered(screen, state) ==
    IF ~Concerns(screen, state) THEN screen
    ELSE IF state.is \in {"uploading", "finalizing"}
         THEN [screen EXCEPT !.watching = TRUE, !.shows = "progress", !.hid = FALSE]
         ELSE [screen EXCEPT !.watching = FALSE,
                             !.shows = IF state.is = "succeeded" THEN "done" ELSE "question"]

-----------------------------------------------------------------------------
(* The messages of the main thread *)

\* A state reaches the visible screen; a login that expired while it was watched sends the
\* driver to the login screen and clears the others.
Deliver(state) ==
    IF ~Visible THEN UNCHANGED screens
    ELSE IF state.is = "expired" /\ Concerns(Top, state) THEN screens' = <<>>
    ELSE SetTop(Rendered(Top, state))

StaysBusy(m) == UNCHANGED active                                                \* mutant
\* finishUpload lets the next upload begin.
Released(m) == active' = None

OnMessage ==
    LET m == Head(posts) IN
    /\ posts # <<>>
    /\ CASE m.kind = "state" ->
              Deliver(m) /\ posts' = Tail(posts) /\ UNCHANGED <<active, current, thread>>
         [] m.kind = "observe" ->
              /\ IF current # None /\ Len(screens) = m.is THEN Deliver(current)
                 ELSE UNCHANGED screens
              /\ posts' = Tail(posts) /\ UNCHANGED <<active, current, thread>>
         [] m.kind = "start" ->                 \* onStartCommand
              /\ active' = m.of
              /\ thread' = [of |-> m.of, at |-> "sending", cancelled |-> FALSE]
              /\ posts' = Tail(posts) /\ UNCHANGED <<current, screens>>
         [] m.kind = "finish" ->
              /\ Released(m)
              /\ current' = State(m.of, m.is) /\ posts' = Append(Tail(posts), current')
              /\ UNCHANGED <<thread, screens>>
    /\ UNCHANGED <<disk, prompt, account, used>>

-----------------------------------------------------------------------------
(* The upload thread, Android and the login *)

Posted(is) == current' = State(thread.of, is) /\ posts' = Append(posts, current')

Progress ==
    /\ thread # None /\ ~thread.cancelled /\ Len(posts) < MaxPosts
    /\ \/ thread.at = "sending" /\ Posted("uploading") /\ UNCHANGED thread
       \/ /\ thread.at = "sending" /\ Posted("finalizing")
          /\ thread' = [thread EXCEPT !.at = "finalizing"]
    /\ UNCHANGED <<disk, active, screens, prompt, account, used>>

\* The thread ends with a result, which finishUpload publishes on the main thread.
Ends(is) == thread' = None /\ posts' = Append(posts, Msg("finish", thread.of, is))

Succeeds ==
    /\ thread # None /\ thread.at = "finalizing"
    /\ flagged' = [flagged EXCEPT !.uploaded = @ \cup ({thread.of} \cap onDisk)]
    /\ old' = old \ {thread.of}
    /\ Ends("succeeded")
    /\ UNCHANGED <<onDisk, active, current, screens, prompt, account, used>>

\* A 401 clears what the app has stored.
Fails ==
    /\ thread # None
    /\ \/ Ends("failed") /\ UNCHANGED login
       \/ ~thread.cancelled /\ Ends("expired") /\ login' = FALSE
    /\ UNCHANGED <<disk, active, current, screens, prompt, notifies, used>>

\* onTimeout: the service stops, its thread ends at the next request.
TimeLimit ==
    /\ thread # None /\ ~thread.cancelled
    /\ thread' = [thread EXCEPT !.cancelled = TRUE]
    /\ UNCHANGED <<disk, active, current, posts, screens, prompt, account, used>>

\* The process dies and Android builds the visible screen anew, from what it saved.
Kill ==
    /\ used < MaxUploads /\ used' = used + 1
    /\ active' = None /\ current' = None /\ thread' = None /\ prompt' = None
    /\ screens' = [i \in DOMAIN screens |->
                    [Screen(screens[i].of) EXCEPT !.watching = screens[i].watching]]
    /\ posts' = IF screens' = <<>> THEN <<>> ELSE <<Msg("observe", None, Len(screens'))>>
    /\ UNCHANGED <<disk, account>>

Logout ==
    /\ login /\ ~Visible
    /\ login' = FALSE /\ prompt' = None
    /\ UNCHANGED <<disk, active, current, posts, thread, screens, notifies, used>>

\* SplashActivity
Login ==
    /\ ~login /\ ~Visible
    /\ login' = TRUE
    /\ UNCHANGED <<disk, active, current, posts, thread, screens, prompt, notifies, used>>

Next == \/ Launch \/ Age \/ OpenScreen \/ PromptUpload \/ PromptSkip
        \/ ClickYes \/ Answered \/ ClickNo \/ Back \/ OnMessage
        \/ Progress \/ Succeeds \/ Fails \/ TimeLimit \/ Kill \/ Logout \/ Login

Spec == Init /\ [][Next]_vars

-----------------------------------------------------------------------------
Waits(kind, s) == \E i \in DOMAIN posts : posts[i].kind = kind /\ posts[i].of = s

\* The session that counts as uploading is the one the service is about to upload, uploads or
\* has uploaded without having said so: no second one beside it, and none that blocks the next
\* one with nothing left to end it.
OneUpload == \A s \in Sessions :
    active = s <=> Waits("start", s) \/ Waits("finish", s) \/ (thread # None /\ thread.of = s)

\* The folder of a drive that is uploading stays.
FolderStays == thread # None => thread.of \in onDisk

\* A screen the driver has kept open shows progress only while there is an upload of its
\* drive, once it has handled what was posted.
ScreenTrue == Visible /\ posts = <<>> /\ Top.shows = "progress" /\ ~Top.hid => active = Top.of

\* The screens tell the driver the truth about the one upload there is.
UploadsTold == OneUpload /\ ScreenTrue /\ FolderStays

\* Checked by hand: "so a screen that comes back sees the result" (UploadProgress.current).
BackSeesResult == Visible /\ posts = <<>> /\ Top.shows = "progress" => active = Top.of

\* Checked by hand: "leaving must not mark the drive skipped" while it is uploading.
SkippedIdle == [][\A s \in flagged'.skipped \ flagged.skipped : active # s]_vars
=============================================================================
