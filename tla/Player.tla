-------------------------------- MODULE Player ------------------------------
(***************************************************************************)
(* The player: one VLCPlayerActivity over PlayerBaseActivity, from its     *)
(* first resume to its end.  What the activity does it does for a message  *)
(* of the looper of the main thread; the system, libVLC, the audio service *)
(* and the executor of the tasks post messages to it, in any order.        *)
(* Positions are counted in steps of five seconds.                         *)
(***************************************************************************)
EXTENDS Integers, SequencesExt

CONSTANTS
    Length,    \* of the video
    SubtitleChoices,   \* subtitles to choose from
    MaxDisturbed       \* bound: pauses, faults, losses of the audio focus, acts of the user

ASSUME PlayerAssumption ==
    /\ Length \in Nat \ {0} /\ 0 \notin SubtitleChoices
    /\ MaxDisturbed \in Nat

Without    == 0  \* subtitles
NoPosition == -1

VARIABLES
    looper,            \* the messages that wait for the main thread
    activity,          \* created, resumed, paused or destroyed
    finishing,         \* finish was called
    dialog,            \* a failed preparation is on the screen
    crashed,           \* an exception has ended the application
    mSwitchingView,
    mEndReached,
    service,           \* of the audio: unbound, asked, answered or started
    VIDEO_RESUME_TIME,
    isTorrentVideoReady,
    mPrepareVideoTask, \* none or made
    executor,          \* the tasks of the serial executor
    running,           \* the first of them has begun
    vlc,               \* state and time
    focus,             \* of the audio: none, held or lost
    isRouteSelected, isCastEnabled,
    position,          \* of the subtitles that are chosen
    subtitles,         \* beside the video
    left,              \* history: where the activity was paused
    hasty,             \* history: it was paused before the service had started it
    regained,          \* history: the focus came back while it was paused
    overlap,           \* history: libVLC was started while a route connected
    disturbed          \* bound

leaving   == <<finishing, mEndReached>>
screen    == <<dialog, crashed>>
lifecycle == <<activity, leaving, screen, mSwitchingView, service, VIDEO_RESUME_TIME>>
prepare   == <<isTorrentVideoReady, mPrepareVideoTask, executor, running>>
cast      == <<isRouteSelected, isCastEnabled>>
subs      == <<position, subtitles>>
hist      == <<left, hasty, regained, overlap>>
vars == <<looper, lifecycle, prepare, vlc, focus, cast, subs, hist, disturbed>>

Init ==
    /\ looper = <<"onResume">>
    /\ activity = "created" /\ finishing = FALSE /\ dialog = FALSE /\ crashed = FALSE
    /\ mSwitchingView = FALSE /\ mEndReached = FALSE /\ service = "unbound" /\ VIDEO_RESUME_TIME = NoPosition
    /\ isTorrentVideoReady = FALSE /\ mPrepareVideoTask = "none"
    /\ executor = <<>> /\ running = FALSE
    /\ vlc = [state |-> "idle", time |-> NoPosition]
    /\ focus = "none"
    /\ isRouteSelected = FALSE /\ isCastEnabled = FALSE
    /\ position \in SubtitleChoices \cup {Without} /\ subtitles = Without
    /\ left = NoPosition /\ hasty = FALSE /\ regained = FALSE /\ overlap = FALSE
    /\ disturbed = 0

-----------------------------------------------------------------------------
(* The looper.                                                              *)

\* The next message is m; handling it posts more.
Handle(m, posted) ==
    /\ looper # <<>> /\ Head(looper) = m
    /\ looper' = Tail(looper) \o posted

Post(m) == looper' = Append(looper, m)

Lifecycle == {"onResume", "onPause", "onDestroy"}
Events    == {"playing", "stopped", "parsed", "end", "voutLost", "hwError"}
Results   == {"succeeded", "failed"}

Disturb == disturbed < MaxDisturbed /\ disturbed' = disturbed + 1

\* Is there a message of the set in the queue?
Waits(S) == \E i \in DOMAIN looper : looper[i] \in S

\* libVLC finds the handler only while the activity lives.
Event(e) == IF activity = "destroyed" THEN <<>> ELSE <<e>>

-----------------------------------------------------------------------------
(* libVLC.                                                                  *)

HasInput == vlc.state \in {"opening", "resuming", "playing", "paused"}

\* Nothing is known of the medium until it is open.
IsOpen == HasInput /\ vlc.state # "opening"

\* isPlaying is false until the input is open.
IsPlaying == vlc.state = "playing"

PlayIndex(time) == vlc' = [state |-> "opening", time |-> time]

\* play goes on where it was paused, and begins again otherwise.
Play ==
    vlc' = CASE vlc.state = "paused" -> [vlc EXCEPT !.state = "resuming"]
             [] vlc.state \in {"stopped", "ended"} -> [state |-> "opening", time |-> 0]
             [] OTHER -> vlc

PauseVlc == vlc' = IF IsPlaying THEN [vlc EXCEPT !.state = "paused"] ELSE vlc

Stop == vlc' = IF vlc.state = "idle" THEN vlc ELSE [state |-> "stopped", time |-> NoPosition]

\* The event that stop posts before it returns.
Stopped == IF vlc.state \in {"idle", "stopped"} THEN <<>> ELSE <<"stopped">>

\* A start while the route is being connected.
Overlap == overlap' = (overlap \/ (isRouteSelected /\ ~isCastEnabled))

OpenInput ==
    /\ vlc.state \in {"opening", "resuming"}
    /\ vlc' = [vlc EXCEPT !.state = "playing"]
    /\ looper' = looper \o Event("playing")
    /\ UNCHANGED <<lifecycle, prepare, focus, cast, subs, hist, disturbed>>

Advance ==
    /\ IsPlaying
    /\ IF vlc.time < Length
         THEN vlc' = [vlc EXCEPT !.time = @ + 1] /\ UNCHANGED looper
         ELSE vlc' = [vlc EXCEPT !.state = "ended"] /\ looper' = looper \o Event("end")
    /\ UNCHANGED <<lifecycle, prepare, focus, cast, subs, hist, disturbed>>

\* The medium has no video track, the track is lost, or the decoder fails.
Fault(e) ==
    /\ vlc.state \in {"opening", "resuming", "playing"} \cup (IF e = "voutLost" THEN {"ended"} ELSE {})
    /\ activity # "destroyed"
    /\ Disturb
    /\ Post(e)
    /\ UNCHANGED <<lifecycle, prepare, vlc, focus, cast, subs, hist>>

-----------------------------------------------------------------------------
(* Tasks.                                                                   *)

Task(kind, choice) == [kind |-> kind, choice |-> choice, cancelled |-> FALSE]

PrepareTasks == {"load", "reload"}

\* cancel(true) on the tasks of the kinds.
Cancelled(kinds) ==
    [i \in DOMAIN executor |->
        [executor[i] EXCEPT !.cancelled = @ \/ executor[i].kind \in kinds]]

\* The message of a task that is cancelled only ends it, in onCancelled.
Revoked(queue) == [i \in DOMAIN queue |-> IF queue[i] \in Results THEN "revoked" ELSE queue[i]]

Prepare(tasks) ==
    /\ isTorrentVideoReady' = FALSE
    /\ mPrepareVideoTask' = "made"
    /\ executor' = tasks

LoadVideo ==
    IF mPrepareVideoTask # "none"
      THEN UNCHANGED <<isTorrentVideoReady, mPrepareVideoTask, executor>>
      ELSE Prepare(Append(executor, Task("load", Without)))

ReloadTasks_NotCancelled == Append(executor, Task("reload", Without))

ReloadTasks_NotExecuted == Cancelled(PrepareTasks)

ReloadTasks == Append(Cancelled(PrepareTasks), Task("reload", Without))

StartTask ==
    /\ executor # <<>> /\ ~running
    /\ IF Head(executor).cancelled
         THEN executor' = Tail(executor) /\ UNCHANGED running
         ELSE running' = TRUE /\ UNCHANGED executor
    /\ UNCHANGED <<looper, lifecycle, isTorrentVideoReady, mPrepareVideoTask, vlc, focus, cast, subs,
                   hist, disturbed>>

EndTask == running /\ executor' = Tail(executor) /\ running' = FALSE

\* The message of a task cancelled before its end changes nothing and is left out.
EndPrepare(result) ==
    /\ EndTask
    /\ Head(executor).kind \in PrepareTasks
    /\ Head(executor).kind = "reload" => result = "succeeded"
    /\ IF Head(executor).cancelled THEN UNCHANGED looper ELSE Post(result)
    /\ UNCHANGED <<lifecycle, isTorrentVideoReady, mPrepareVideoTask, vlc, focus, cast, subs, hist, disturbed>>

\* What is beside the video after a load, which deletes the old file first.
Loaded_KeepsOld(choice) == IF choice = Without THEN {subtitles} ELSE {choice, Without}

Loaded(choice) == {choice, Without}

\* A task that is cancelled while it runs goes on to its end.
EndSubtitle ==
    /\ EndTask
    /\ Head(executor).kind = "subtitle"
    /\ subtitles' \in Loaded(Head(executor).choice)
    /\ UNCHANGED <<looper, lifecycle, isTorrentVideoReady, mPrepareVideoTask, vlc, focus, cast, position,
                   hist, disturbed>>

DownloadSubtitle(tasks, choice) == executor' = Append(tasks, Task("subtitle", choice))

-----------------------------------------------------------------------------
(* The activity.                                                            *)

\* The system posts the next message of the life of the activity.
Schedule(m) ==
    /\ ~Waits(Lifecycle)
    /\ CASE m = "onResume"  -> activity = "paused" /\ ~finishing
         [] m = "onPause"   -> activity = "resumed" /\ (finishing \/ disturbed < MaxDisturbed)
         [] m = "onDestroy" -> activity = "paused" /\ finishing
    /\ Post(m)
    /\ UNCHANGED <<lifecycle, prepare, vlc, focus, cast, subs, hist, disturbed>>

\* An activity that finishes is not resumed any more.
SkipResume ==
    /\ finishing /\ Handle("onResume", <<>>)
    /\ UNCHANGED <<lifecycle, prepare, vlc, focus, cast, subs, hist, disturbed>>

OnResume ==
    /\ ~finishing /\ Handle("onResume", <<>>)
    /\ activity' = "resumed"
    /\ IF dialog THEN UNCHANGED <<mSwitchingView, service>>
                 ELSE mSwitchingView' = FALSE /\ service' = "asked"
    /\ regained' = FALSE
    /\ UNCHANGED <<leaving, screen, VIDEO_RESUME_TIME, prepare, vlc, focus, cast, subs,
                   left, hasty, overlap, disturbed>>

\* The service answers once, unless it has been unbound before.
Connect ==
    /\ service = "asked"
    /\ \/ service' = "answered" /\ Post("connected") /\ UNCHANGED disturbed
       \/ /\ Disturb
          /\ service' = "unbound" /\ Post("unconnected")
    /\ UNCHANGED <<activity, leaving, screen, mSwitchingView, VIDEO_RESUME_TIME, prepare, vlc,
                   focus, cast, subs, hist>>

\* The position to go on from; nothing is saved of the first five seconds.
SavedTime ==
    IF ~IsOpen \/ Length - vlc.time < 1 THEN 0
    ELSE IF vlc.time >= 1 THEN vlc.time - 1 ELSE VIDEO_RESUME_TIME

OnPause ==
    /\ Handle("onPause", IF mSwitchingView THEN <<>> ELSE Stopped)
    /\ activity' = "paused" /\ service' = "unbound"
    /\ IF mSwitchingView
         THEN UNCHANGED <<vlc, VIDEO_RESUME_TIME, left>>
         ELSE /\ Stop
              /\ VIDEO_RESUME_TIME' = SavedTime
              /\ left' = IF IsOpen THEN vlc.time ELSE NoPosition
    /\ hasty' = (hasty \/ service \in {"asked", "answered"})
    /\ IF finishing THEN UNCHANGED disturbed ELSE disturbed' = disturbed + 1
    /\ UNCHANGED <<leaving, screen, mSwitchingView, prepare, focus, cast, subs,
                   regained, overlap>>

OnDestroy ==
    /\ looper # <<>> /\ Head(looper) = "onDestroy"
    /\ looper' = Revoked(Tail(looper))
    /\ activity' = "destroyed"
    /\ executor' = Cancelled(PrepareTasks \cup {"subtitle"})
    /\ UNCHANGED <<leaving, screen, mSwitchingView, service, VIDEO_RESUME_TIME,
                   isTorrentVideoReady, mPrepareVideoTask, running, vlc, focus, cast, subs, hist, disturbed>>

ResumeFrom_Forgets == 0

ResumeFrom == IF VIDEO_RESUME_TIME > 0 THEN VIDEO_RESUME_TIME ELSE 0

\* AUDIO_SERVICE_CONNECTION_SUCCESS, startPlayback.
OnConnected ==
    /\ Handle("connected", <<>>)
    /\ service' = IF service = "answered" THEN "started" ELSE service
    /\ IF isTorrentVideoReady
         THEN /\ PlayIndex(ResumeFrom) /\ VIDEO_RESUME_TIME' = NoPosition
              /\ left' = NoPosition /\ Overlap
              /\ UNCHANGED <<isTorrentVideoReady, mPrepareVideoTask, executor>>
         ELSE /\ LoadVideo
              /\ UNCHANGED <<vlc, VIDEO_RESUME_TIME, left, overlap>>
    /\ hasty' = (hasty /\ (service # "answered" \/ "connected" \in ToSet(Tail(looper))))
    /\ UNCHANGED <<activity, leaving, screen, mSwitchingView, running, focus, cast, subs,
                   regained, disturbed>>

OnUnconnected ==
    /\ Handle("unconnected", <<>>)
    /\ finishing' = TRUE
    /\ UNCHANGED <<activity, mEndReached, screen, mSwitchingView, service, VIDEO_RESUME_TIME, prepare, vlc,
                   focus, cast, subs, hist, disturbed>>

\* popcornPlay(time).
PopcornPlayAt_Anyway(time) == PlayIndex(time) /\ left' = NoPosition /\ Overlap

PopcornPlayAt(time) ==
    IF activity = "resumed"
      THEN PlayIndex(time) /\ left' = NoPosition /\ Overlap
      ELSE UNCHANGED <<vlc, left, overlap>>

OnSucceeded ==
    /\ Handle("succeeded", <<>>)
    /\ isTorrentVideoReady' = TRUE
    /\ subtitles' = Without
    /\ DownloadSubtitle(Cancelled({"subtitle"}), position)
    /\ PopcornPlayAt(0)
    /\ UNCHANGED <<lifecycle, mPrepareVideoTask, running, focus, cast, position, hasty, regained, disturbed>>

\* A dialog cannot be shown any more once the state of the activity is saved.
OnFailed ==
    /\ Handle("failed", <<>>)
    /\ \/ dialog' = TRUE /\ UNCHANGED crashed
       \/ activity # "resumed" /\ crashed' = TRUE /\ UNCHANGED dialog
    /\ UNCHANGED <<activity, leaving, mSwitchingView, service, VIDEO_RESUME_TIME, isTorrentVideoReady,
                   mPrepareVideoTask, executor, running, vlc, focus, cast, subs, hist, disturbed>>

OnCancelled ==
    /\ Handle("revoked", <<>>)
    /\ UNCHANGED <<lifecycle, prepare, vlc, focus, cast, subs, hist, disturbed>>

-----------------------------------------------------------------------------
(* Events of libVLC.                                                        *)

Ignore ==
    /\ mSwitchingView /\ looper # <<>> /\ Head(looper) \in Events
    /\ looper' = Tail(looper)
    /\ UNCHANGED <<lifecycle, prepare, vlc, focus, cast, subs, hist, disturbed>>

PauseForCast_Never == UNCHANGED vlc

PauseForCast == IF isCastEnabled THEN PauseVlc ELSE UNCHANGED vlc

OnPlaying ==
    /\ ~mSwitchingView /\ Handle("playing", <<>>)
    /\ focus' = "held"
    /\ PauseForCast
    /\ UNCHANGED <<lifecycle, prepare, cast, subs, hist, disturbed>>

Abandon == focus' = "none"

OnStopped ==
    /\ ~mSwitchingView /\ Handle("stopped", <<>>)
    /\ Abandon
    /\ UNCHANGED <<lifecycle, prepare, vlc, cast, subs, hist, disturbed>>

\* reloadVideo.
OnParsed ==
    /\ ~mSwitchingView
    /\ looper # <<>> /\ Head(looper) = "parsed"
    /\ looper' = Revoked(Tail(looper)) \o Stopped
    /\ Stop
    /\ Prepare(ReloadTasks)
    /\ left' = NoPosition
    /\ UNCHANGED <<lifecycle, running, focus, cast, subs, hasty, regained, overlap, disturbed>>

\* It is the end of the video, or only of what has been downloaded.
OnEnd ==
    /\ ~mSwitchingView /\ Handle("end", <<>>)
    /\ \/ Abandon /\ mEndReached' = TRUE /\ finishing' = TRUE
       \/ UNCHANGED <<focus, leaving>>
    /\ UNCHANGED <<activity, screen, mSwitchingView, service, VIDEO_RESUME_TIME, prepare, vlc, cast,
                   subs, hist, disturbed>>

OnVoutLost ==
    /\ ~mSwitchingView /\ Handle("voutLost", <<>>)
    /\ IF mEndReached THEN UNCHANGED <<mSwitchingView, finishing>>
                      ELSE mSwitchingView' = TRUE /\ finishing' = TRUE
    /\ UNCHANGED <<activity, mEndReached, screen, service, VIDEO_RESUME_TIME, prepare, vlc, focus, cast, subs,
                   hist, disturbed>>

\* errorReplay, from fifteen seconds before.
OnHwError ==
    /\ ~mSwitchingView /\ Handle("hwError", Stopped)
    /\ IF activity = "resumed"
         THEN PopcornPlayAt(IF HasInput /\ vlc.time > 3 THEN vlc.time - 3 ELSE 0)
         ELSE Stop /\ UNCHANGED <<left, overlap>>
    /\ UNCHANGED <<lifecycle, prepare, focus, cast, subs, hasty, regained, disturbed>>

-----------------------------------------------------------------------------
(* The focus of the audio.                                                  *)

LoseFocus ==
    /\ focus = "held" /\ focus' = "lost" /\ Disturb
    /\ Post("loss")
    /\ UNCHANGED <<lifecycle, prepare, vlc, cast, subs, hist>>

GainFocus ==
    /\ focus = "lost" /\ focus' = "held"
    /\ Post("gain")
    /\ UNCHANGED <<lifecycle, prepare, vlc, cast, subs, hist, disturbed>>

\* The listener is not called any more once the focus is abandoned.
OnLoss ==
    /\ Handle("loss", <<>>)
    /\ IF focus = "none" THEN UNCHANGED vlc ELSE PauseVlc
    /\ UNCHANGED <<lifecycle, prepare, focus, cast, subs, hist, disturbed>>

OnGain ==
    /\ Handle("gain", <<>>)
    /\ IF focus = "none" \/ vlc.state \in {"idle", "opening", "resuming", "playing"}
         THEN UNCHANGED <<vlc, regained, overlap>>
         ELSE /\ Play /\ Overlap
              /\ regained' = (regained \/ activity # "resumed")
    /\ UNCHANGED <<lifecycle, prepare, focus, cast, subs, left, hasty, disturbed>>

-----------------------------------------------------------------------------
(* The user, and the Chromecast.                                            *)

Act == activity = "resumed" /\ Disturb

Close ==
    /\ Act /\ finishing' = TRUE
    /\ UNCHANGED <<looper, activity, mEndReached, screen, mSwitchingView, service, VIDEO_RESUME_TIME, prepare, vlc,
                   focus, cast, subs, hist>>

PopcornPlay        == IF isCastEnabled \/ isRouteSelected THEN UNCHANGED vlc ELSE Play
PopcornPause       == IF isCastEnabled \/ isRouteSelected THEN UNCHANGED vlc ELSE PauseVlc

PlayPause ==
    /\ Act /\ vlc.state # "idle"
    /\ IF ~isCastEnabled /\ IsPlaying THEN PopcornPause ELSE PopcornPlay
    /\ UNCHANGED <<looper, lifecycle, prepare, focus, cast, subs, hist>>

\* The player is never set before the start, and stops at the end itself.
Target(delta) ==
    LET time == vlc.time + delta IN IF time < 0 THEN 0 ELSE IF time > Length THEN Length ELSE time

\* If canSeekTo allows it.
Seek(delta) ==
    /\ Act /\ IsOpen
    /\ vlc' = [vlc EXCEPT !.time = Target(delta)]
    /\ UNCHANGED <<looper, lifecycle, prepare, focus, cast, subs, hist>>

ChooseSubtitle(choice) ==
    /\ Act /\ vlc.state # "idle"
    /\ position' = choice
    /\ DownloadSubtitle(Cancelled({"subtitle"}), choice)
    /\ UNCHANGED <<looper, lifecycle, isTorrentVideoReady, mPrepareVideoTask, running, vlc, focus, cast,
                   subtitles, hist>>

SelectRoute ==
    /\ Act /\ ~isRouteSelected
    /\ isRouteSelected' = TRUE
    /\ PauseVlc
    /\ overlap' = (vlc.state \in {"opening", "resuming"})
    /\ UNCHANGED <<looper, lifecycle, prepare, focus, isCastEnabled, subs, left, hasty, regained>>

\* The medium is loaded on the Chromecast, if there was one to load.
CastLoaded ==
    /\ isRouteSelected /\ ~isCastEnabled /\ vlc.state # "idle" /\ activity # "destroyed"
    /\ isCastEnabled' = TRUE
    /\ UNCHANGED <<looper, lifecycle, prepare, vlc, focus, isRouteSelected, subs, hist, disturbed>>

\* The route is given up by the user, with the position it has reached, or lost.
TearDown(time) ==
    /\ isRouteSelected /\ activity # "destroyed"
    /\ isRouteSelected' = FALSE /\ isCastEnabled' = FALSE /\ overlap' = FALSE
    /\ vlc' = IF HasInput /\ time > 0 THEN [vlc EXCEPT !.time = time] ELSE vlc
    /\ UNCHANGED <<looper, lifecycle, prepare, focus, subs, left, hasty, regained, disturbed>>

-----------------------------------------------------------------------------
MainThread ==
    \/ SkipResume \/ OnResume \/ OnPause \/ OnDestroy \/ OnConnected \/ OnUnconnected \/ OnSucceeded \/ OnFailed \/ OnCancelled
    \/ Ignore \/ OnPlaying \/ OnStopped \/ OnParsed \/ OnEnd \/ OnVoutLost \/ OnHwError
    \/ OnLoss \/ OnGain

Tasks == StartTask \/ (\E result \in Results : EndPrepare(result)) \/ EndSubtitle

User ==
    \/ Close \/ PlayPause \/ SelectRoute
    \/ \E delta \in {-2, 2} : Seek(delta)
    \/ \E choice \in SubtitleChoices \cup {Without} : ChooseSubtitle(choice)

Outside ==
    \/ \E m \in Lifecycle : Schedule(m)
    \/ Connect \/ OpenInput \/ Advance
    \/ \E e \in {"parsed", "voutLost", "hwError"} : Fault(e)
    \/ LoseFocus \/ GainFocus \/ CastLoaded
    \/ \E time \in 0 .. Length : TearDown(time)

Next == ~crashed /\ (MainThread \/ Tasks \/ User \/ Outside)

Fairness ==
    /\ WF_vars(~crashed /\ MainThread) /\ WF_vars(~crashed /\ Tasks)
    /\ WF_vars(~crashed /\ Connect) /\ WF_vars(~crashed /\ OpenInput)

Spec == Init /\ [][Next]_vars /\ Fairness

-----------------------------------------------------------------------------
Messages == Lifecycle \cup Events \cup Results \cup {"revoked", "connected", "unconnected", "loss", "gain"}

Kinds  == PrepareTasks \cup {"subtitle"}
States == {"idle", "opening", "resuming", "playing", "paused", "stopped", "ended"}
Times  == NoPosition .. Length
Subtitles == SubtitleChoices \cup {Without}
TaskRecords == [kind : Kinds, choice : Subtitles, cancelled : BOOLEAN]
VlcRecords  == [state : States, time : Times]

TypeOK ==
    /\ looper \in Seq(Messages)
    /\ activity \in {"created", "resumed", "paused", "destroyed"}
    /\ finishing \in BOOLEAN /\ mEndReached \in BOOLEAN /\ dialog \in BOOLEAN /\ crashed \in BOOLEAN
    /\ mSwitchingView \in BOOLEAN /\ service \in {"unbound", "asked", "answered", "started"}
    /\ VIDEO_RESUME_TIME \in Times /\ left \in Times
    /\ isTorrentVideoReady \in BOOLEAN /\ mPrepareVideoTask \in {"none", "made"}
    /\ executor \in Seq(TaskRecords)
    /\ running \in BOOLEAN /\ (running => executor # <<>>)
    /\ vlc \in VlcRecords
    /\ focus \in {"none", "held", "lost"}
    /\ isRouteSelected \in BOOLEAN /\ isCastEnabled \in BOOLEAN
    /\ position \in Subtitles /\ subtitles \in Subtitles
    /\ hasty \in BOOLEAN /\ regained \in BOOLEAN /\ overlap \in BOOLEAN /\ disturbed \in Nat

(* An activity that is paused, or gone, is silent: neither a preparation    *)
(* that ends nor an error that is replayed starts libVLC.  Except when the  *)
(* video was lost and the sound goes on on purpose, when the activity was   *)
(* paused in the middle of its start, and when the audio focus came back    *)
(* before it was abandoned: those do play.  One that is gone has given the  *)
(* focus back, so that no later gain of it plays a video nobody sees.       *)
SilentWhenPaused ==
    activity \in {"paused", "destroyed"} /\ ~mSwitchingView /\ ~hasty /\ ~regained =>
        /\ vlc.state \notin {"opening", "resuming", "playing"}
        /\ activity = "destroyed" => focus = "none"

(* The video counts as ready only by the preparation that was asked for     *)
(* last: none that could still deliver its result is left behind it, so     *)
(* that a video that plays is not started again from its beginning.         *)
ReadyIsCurrent ==
    isTorrentVideoReady =>
        /\ \A i \in DOMAIN executor : executor[i].kind \in PrepareTasks => executor[i].cancelled
        /\ ~Waits(Results)

(* While the Chromecast plays, the device does not, or is about to learn    *)
(* that it must not; except for a start in the middle of the connection.    *)
OneScreen ==
    activity # "destroyed" /\ isCastEnabled /\ IsPlaying /\ ~overlap /\ ~mSwitchingView => Waits({"playing"})

(* The subtitles beside the video are the ones chosen last, once the tasks  *)
(* are through, whatever was cancelled and however the video was reloaded.  *)
SubtitlesAsChosen ==
    executor = <<>> /\ activity # "destroyed" /\ subtitles # Without => subtitles = position

\* Where a video goes on that was left at a position.
GoesOnAt(time) == IF Length - time < 1 THEN 0 ELSE time - 1

(* A video goes on five seconds before the position it was left at, or from *)
(* its start if it was at its end.  A pause before the medium is open       *)
(* forgets the position, and then nothing is promised.                      *)
PositionKept ==
    [][OnConnected /\ isTorrentVideoReady /\ left > 0 => vlc'.time = GoesOnAt(left)]_vars

(* A player that stays on the screen begins to play in the end, through     *)
(* pauses before and during its preparation and through reloads.            *)
PlaybackStarts ==
    activity = "resumed" ~>
        vlc.state \in {"playing", "paused", "ended"} \/ activity # "resumed" \/ finishing \/ dialog \/ crashed
=============================================================================
