------------------------------ MODULE Playback ------------------------------
(***************************************************************************)
(* The player over the download manager.  A player activity prepares its   *)
(* video in a background task (PrepareVideoTask), on the same session,     *)
(* preferences and cache directory as the worker of TorrentService, which  *)
(* goes on all the time.  AsyncTask.execute runs the tasks of the whole    *)
(* application one after the other: a task waits until the one before it   *)
(* has ended, also when the activity that began that one is gone.          *)
(*                                                                         *)
(* "Watch now" plays from the cache directory, where one fixed file,       *)
(* watchnow.torrent, holds the torrent file; a download is played from its *)
(* own directory.  Each step of a task is one call, as in TorrentService.  *)
(***************************************************************************)
EXTENDS TorrentService

CONSTANTS
    LocalContents,  \* contents opened from a file, the others from the catalogue
    MaxPlays        \* bound: how often the user presses "watch"

ASSUME PlayAssumption ==
    /\ LocalContents \subseteq Contents /\ MaxPlays \in Nat
    /\ CacheDir \notin Downloads

VARIABLES
    \* what survives the process
    watchFile,    \* the content of the torrent file in the cache directory
    lastTorrent,  \* LAST_TORRENT_PREF, the content of the last "watch now"
    \* the application
    screen,       \* the player activity
    waiting,      \* the task that waits for the executor and is still wanted
    task,         \* the task that runs
    \* the user
    plays,
    \* history, of one life of the process
    cut,          \* contents a LOAD has prepared after its player was left
    touched,      \* contents the manager has paused, resumed or removed under a player
    disturbed     \* the cache has changed under a "watch now" that needs it

prefs   == <<watchFile, lastTorrent>>
player  == <<screen, waiting, task>>
history == <<cut, touched, disturbed>>
playVars == <<vars, prefs, player, plays, history>>

\* The player of "asked" from "place": the fields mContentFile and wasPaused.
Closed == [open |-> FALSE, place |-> CacheDir, asked |-> NoName,
           name |-> NoName, wasPaused |-> FALSE]
Player(place, c) == [Closed EXCEPT !.open = TRUE, !.place = place, !.asked = c]

\* A task: "at" is its next step, "own" says that it was not cancelled.
NoTask == [at |-> "none", place |-> CacheDir, asked |-> NoName, name |-> NoName, own |-> FALSE]
FetchTask(c) == [NoTask EXCEPT !.at = "fetch", !.asked = c, !.own = TRUE]
LoadTask(place, c) ==
    [NoTask EXCEPT !.at = IF place = CacheDir THEN "check" ELSE "name",
                   !.place = place, !.asked = c, !.own = TRUE]

PlayInit ==
    /\ Init
    /\ watchFile \in {NoName, lastContent}
    /\ lastTorrent = lastContent
    /\ screen = Closed /\ waiting = NoTask /\ task = NoTask
    /\ plays = 0 /\ cut = {} /\ touched = {} /\ disturbed = FALSE

\* The name GetTorrentName finds in the torrent file in place.
NameIn(place) == IF place = CacheDir THEN watchFile ELSE NameOf(place)

-----------------------------------------------------------------------------
(* "Watch", from the screens.                                               *)

Fetching == waiting.at = "fetch" \/ (task.at = "fetch" /\ task.own)

\* The catalogue is in front: no player, and no fetch that covers the screen.
Free == open /\ ~screen.open /\ ~Fetching

OpenPlayer(place, c) == screen' = Player(place, c) /\ waiting' = LoadTask(place, c)

\* What is not downloaded is watched from the cache, which is cleared first
\* unless it holds the same content.
Watch(c) ==
    /\ Free /\ plays < MaxPlays
    /\ \A d \in RowsOf : ContentOf[d] # c
    /\ plays' = plays + 1
    /\ lastTorrent' = c
    /\ cached' = IF lastTorrent = c THEN cached ELSE {}
    /\ UNCHANGED <<session, disk, lastContent, queue, work, user, task>>

\* From the catalogue: WatchTask fetches the torrent file.
WatchNow(c) ==
    /\ c \notin LocalContents
    /\ Watch(c)
    /\ watchFile' = IF lastTorrent = c THEN watchFile ELSE NoName
    /\ waiting' = FetchTask(c)
    /\ UNCHANGED screen

\* From a file: it is copied at once, on the main thread.
WatchFile(c) ==
    /\ c \in LocalContents
    /\ Watch(c)
    /\ watchFile' = c
    /\ OpenPlayer(CacheDir, c)

\* Too large for the disk: the cache is cleared all the same.
NoSpace(c) ==
    /\ Free /\ plays < MaxPlays /\ lastTorrent # c
    /\ \A d \in RowsOf : ContentOf[d] # c
    /\ plays' = plays + 1
    /\ cached' = {} /\ watchFile' = NoName /\ lastTorrent' = NoName
    /\ UNCHANGED <<session, disk, lastContent, queue, work, user, player>>

WatchDownload(d) ==
    /\ Free /\ plays < MaxPlays /\ d \in RowsOf
    /\ plays' = plays + 1
    /\ OpenPlayer(d, ContentOf[d])
    /\ UNCHANGED <<vars, prefs, task>>

\* The fetch is no longer wanted.  One that runs goes on: cancel does not
\* stop the network.
BreakPrepare ==
    /\ Fetching
    /\ waiting' = NoTask
    /\ task' = [task EXCEPT !.own = FALSE]
    /\ UNCHANGED <<vars, prefs, screen, plays>>

-----------------------------------------------------------------------------
(* The executor and the two kinds of task.                                  *)

\* One task at a time.
StartTask ==
    /\ task = NoTask /\ waiting # NoTask
    /\ task' = waiting /\ waiting' = NoTask
    /\ UNCHANGED <<vars, prefs, screen, plays>>

WrittenFile_Kept(file) == IF watchFile # NoName THEN watchFile ELSE file

\* loadTorrentFile overwrites what is there.
WrittenFile(file) == file

\* WatchTask has written the file, whatever the server sent.  The result goes
\* to the loader, if it is still there, and opens the player.
Fetched(file) ==
    /\ task.at = "fetch"
    /\ watchFile' = WrittenFile(file)
    /\ task' = NoTask
    /\ IF task.own THEN OpenPlayer(CacheDir, task.asked) ELSE UNCHANGED <<screen, waiting>>
    /\ UNCHANGED <<vars, lastTorrent, plays>>

\* The connection fails, before or after something was written.
FetchFails ==
    /\ task.at = "fetch"
    /\ watchFile' \in {watchFile, NoName}
    /\ task' = NoTask
    /\ UNCHANGED <<vars, lastTorrent, screen, waiting, plays>>

Step(from, to) == task.at = from /\ task' = [task EXCEPT !.at = to]

\* What a step of a task over the session leaves alone.
OnlySession == UNCHANGED <<disk, cache, queue, work, user, prefs, waiting, plays>>

\* checkLastWatched keeps the torrent of the same content while its file exists.
KeepsLast == lastContent = NoName \/ (lastContent = watchFile /\ lastContent \in cached)

CheckLastWatched ==
    /\ Step("check", IF KeepsLast THEN "add" ELSE "forget")
    /\ IF KeepsLast THEN UNCHANGED session
                    ELSE RemoveTorrent(lastContent)
    /\ OnlySession /\ UNCHANGED screen

ForgetWatched ==
    /\ Step("forget", "add")
    /\ lastContent' = NoName
    /\ UNCHANGED <<session, disk, cached, queue, work, user, prefs, screen, waiting, plays>>

AddWatched ==
    /\ Step("add", "name")
    /\ AddTorrent(CacheDir, watchFile)
    /\ OnlySession /\ UNCHANGED screen

\* The fields of the activity that began the task.
SetFields(name, wasPaused) ==
    screen' = IF task.own THEN [screen EXCEPT !.name = name, !.wasPaused = wasPaused]
                          ELSE screen

\* mContentFile; without a name the torrent was not added.
ReadName ==
    LET name == NameIn(task.place) IN
    /\ task.at = "name"
    /\ task' = IF name = NoName THEN NoTask ELSE [task EXCEPT !.at = "files", !.name = name]
    /\ SetFields(name, FALSE)
    /\ UNCHANGED <<vars, prefs, waiting, plays>>

\* setFilePriority finds no file when the session does not have the torrent.
ChooseFile ==
    /\ Step("files", IF task.name \in gTorrents THEN "state" ELSE "drop")
    /\ UNCHANGED <<vars, prefs, screen, waiting, plays>>

AfterState_NotResumed(wasPaused) == "load"

AfterState(wasPaused) == IF wasPaused THEN "resume" ELSE "load"

ReadState ==
    LET wasPaused == task.name \in paused IN
    /\ Step("state", AfterState(wasPaused))
    /\ SetFields(task.name, wasPaused)
    /\ UNCHANGED <<vars, prefs, waiting, plays>>

ResumeWatched ==
    /\ Step("resume", "load")
    /\ ResumeTorrent(task.name)
    /\ OnlySession /\ UNCHANGED screen

AfterLoad_NotSaved == "loop"

\* Only what is not a download is remembered.
AfterLoad == IF task.place = CacheDir THEN "save" ELSE "loop"

\* Prioritizer.load; it finds no piece to play in an empty video.
LoadPieces(playable) ==
    /\ task.name \in gTorrents
    /\ Step("load", IF playable THEN AfterLoad ELSE "drop")
    /\ UNCHANGED <<vars, prefs, screen, waiting, plays>>

DropTorrent ==
    /\ task.at = "drop"
    /\ task' = NoTask
    /\ RemoveTorrent(task.name)
    /\ OnlySession /\ UNCHANGED screen

SaveWatched ==
    /\ Step("save", "loop")
    /\ lastContent' = task.name
    /\ UNCHANGED <<session, disk, cached, queue, work, user, prefs, screen, waiting, plays>>

\* The loop ends when the pieces are there, or when the task was cancelled.
EndLoop ==
    /\ task.at = "loop"
    /\ task' = NoTask
    /\ UNCHANGED <<vars, prefs, screen, waiting, plays>>

\* The torrent writes its file into the cache directory.
Allocate(c) ==
    /\ c \in gTorrents \ (paused \cup cached) /\ savePath[c] = CacheDir
    /\ cached' = cached \cup {c}
    /\ UNCHANGED <<session, disk, lastContent, queue, work, user, prefs, player, plays>>

-----------------------------------------------------------------------------
(* The end of the player.                                                   *)

CancelLoad_Running == task' = task

\* cancelAsyncTask: a task that waits never runs, one that runs is told so.
CancelLoad == task' = [task EXCEPT !.own = FALSE]

StopWatched_DownloadsGoOn ==
    IF screen.name # NoName /\ screen.place = CacheDir
      THEN PauseTorrent(screen.name)
      ELSE UNCHANGED session

StopWatched_AsBefore ==
    IF screen.name # NoName /\ screen.wasPaused
      THEN PauseTorrent(screen.name)
      ELSE UNCHANGED session

\* A download goes on if it was running before, a "watch now" never.
StopWatched ==
    IF screen.name # NoName /\ (screen.place = CacheDir \/ screen.wasPaused)
      THEN PauseTorrent(screen.name)
      ELSE UNCHANGED session

DestroyTorrent ==
    /\ screen.open
    /\ screen' = Closed
    /\ waiting' = NoTask
    /\ CancelLoad
    /\ StopWatched
    /\ UNCHANGED <<disk, cache, queue, work, user, prefs, plays>>

-----------------------------------------------------------------------------
(* The download manager meanwhile.                                          *)

\* The move of the video last watched clears the cache, and so may an exit.
Clears == (work.at = "moveLast" /\ work' # work) \/ (exits' # exits /\ lastContent' = NoName)

Manager ==
    /\ \/ WorkerStep \/ Launch
       \/ \E d \in Downloads : Network(d)
       \/ Free /\ User
       \/ Free /\ Exit
    /\ watchFile' \in IF Clears THEN {NoName} ELSE {watchFile}
    /\ UNCHANGED <<lastTorrent, player, plays>>

\* GetPiecePriorities returns null for a torrent the session does not have.
NullPriorities ==
    /\ task.at = "load" /\ task.name \notin gTorrents
    /\ ProcessDies /\ UNCHANGED kills

Die(death) ==
    /\ death
    /\ screen' = Closed /\ waiting' = NoTask /\ task' = NoTask
    /\ cut' = {} /\ touched' = {} /\ disturbed' = FALSE
    /\ UNCHANGED <<prefs, plays>>

-----------------------------------------------------------------------------
(* What the properties except: the races that the code does not handle.     *)

\* A LOAD before its loop: it does not look at its cancellation.
Preparing(t) == t.at \notin {"none", "fetch", "loop"}

WatchingNow ==
    \/ screen.open /\ screen.place = CacheDir
    \/ task.at \notin {"none", "fetch"} /\ task.place = CacheDir

\* The manager moves the video last watched to the directory of a download.
Moving == work.at \in {"removeLast", "moveLast", "forgetLast"}

\* The torrent file changes between the choice of the user and the end of LOAD,
\* or the manager moves the video last watched while a "watch now" goes on.
Disturbs ==
    \/ /\ \E t \in {waiting, task} : Preparing(t) /\ t.place = CacheDir
       /\ watchFile' # watchFile
    \/ Moving /\ WatchingNow

Changed(c) == savePath'[c] # savePath[c] \/ (c \in paused) # (c \in paused')

Touched == {c \in {task.asked, task.name, screen.asked, screen.name} \ {NoName} : Changed(c)}

Remember ==
    /\ cut' = cut \cup IF Preparing(task') /\ ~task'.own
                          THEN {task'.asked, task'.name} \ {NoName} ELSE {}
    /\ touched' = touched \cup IF UNCHANGED player THEN Touched ELSE {}
    /\ disturbed' = (disturbed \/ Disturbs)

-----------------------------------------------------------------------------
TaskStep ==
    \/ StartTask
    \/ CheckLastWatched \/ ForgetWatched \/ AddWatched \/ ReadName \/ ChooseFile
    \/ ReadState \/ ResumeWatched \/ DropTorrent \/ SaveWatched
    \/ \E playable \in BOOLEAN : LoadPieces(playable)

FetchEnds == FetchFails \/ \E file \in {task.asked, NoName} : Fetched(file)

UserWatches ==
    \/ \E c \in Contents : WatchNow(c) \/ WatchFile(c) \/ NoSpace(c)
    \/ \E d \in Downloads : WatchDownload(d)
    \/ BreakPrepare \/ DestroyTorrent

PlayNext ==
    \/ Manager /\ Remember
    \/ TaskStep /\ Remember
    \/ FetchEnds /\ Remember
    \/ EndLoop /\ Remember
    \/ UserWatches /\ Remember
    \/ \E c \in Contents : Allocate(c) /\ Remember
    \/ Die(Crash) \/ Die(NullPriorities)

\* The tasks run, a server answers or fails, a null is dereferenced, and a loop
\* that was cancelled ends.  That the pieces arrive is not assumed.
PlayFairness ==
    /\ WF_playVars(TaskStep /\ Remember)
    /\ WF_playVars(FetchEnds /\ Remember)
    /\ WF_playVars(Die(NullPriorities))
    /\ WF_playVars(~task.own /\ EndLoop /\ Remember)

PlaySpec == PlayInit /\ [][PlayNext]_playVars /\ PlayFairness

-----------------------------------------------------------------------------
Names == Contents \cup {NoName}

Tasks == [at : {"none", "fetch", "check", "forget", "add", "name", "files", "state", "resume",
                "load", "drop", "save", "loop"},
          place : Places, asked : Names, name : Names, own : BOOLEAN]

(* The session, the preferences, the player and its tasks have their types. *)
PlayTypeOK ==
    /\ SessionOK /\ DiskOK
    /\ watchFile \in Names /\ lastTorrent \in Names
    /\ screen \in [open : BOOLEAN, place : Places, asked : Names, name : Names,
                    wasPaused : BOOLEAN]
    /\ task \in Tasks /\ waiting \in Tasks
    /\ plays \in 0 .. MaxPlays
    /\ cut \subseteq Contents /\ touched \subseteq Contents /\ disturbed \in BOOLEAN

\* No player, and no task of one that was left.
AtRest == ~screen.open /\ task.at \in {"none", "fetch"}

(* A torrent that is saved in the cache directory is the one remembered as  *)
(* last watched, or a task has yet to remember it: otherwise no later       *)
(* "watch now" and no exit would ever remove it.                            *)
WatchedIsRemembered ==
    ~disturbed => \A c \in gTorrents : savePath[c] = CacheDir =>
        \/ c = lastContent
        \/ Preparing(task) /\ task.place = CacheDir

(* A download that was paused is paused again after it was played, whatever *)
(* the manager did to it meanwhile, unless its player was left during the   *)
(* preparation, or a "watch now" was disturbed and has added the content of *)
(* the download to the cache.                                               *)
PausedAgain ==
    AtRest /\ Steady => \A d \in RowsIn(PAUSED) \ doubted :
        Alone(d) /\ ContentOf[d] \in gTorrents =>
            \/ ContentOf[d] \in paused \cup cut
            \/ disturbed /\ savePath[ContentOf[d]] = CacheDir

(* The torrent of a "watch now" stops with its player, unless that was left *)
(* during the preparation: nothing is downloaded that nobody watches or     *)
(* asked for.                                                               *)
WatchNowStops ==
    AtRest /\ ~disturbed => \A c \in gTorrents \ {ContentOf[d] : d \in RowsOf} :
        savePath[c] = CacheDir => c \in paused \cup cut

(* What plays from the cache is what the user has asked for last, although  *)
(* one file serves every "watch now" and an abandoned fetch still writes it.*)
PlaysAsked ==
    screen.open /\ screen.place = CacheDir /\ ~disturbed => screen.name \in {NoName, lastTorrent}

(* While a player waits for its pieces, its torrent is there and runs.      *)
PreparationRuns ==
    task.own /\ task.at = "loop" => task.name \in (gTorrents \ paused) \cup touched

(* A task that is wanted gets the executor, whatever the tasks of players   *)
(* left before are doing, or is given up.                                   *)
WaitingStarts == (waiting # NoTask) ~> (waiting = NoTask)
=============================================================================
