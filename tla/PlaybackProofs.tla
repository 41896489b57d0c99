--------------------------- MODULE PlaybackProofs ---------------------------
(***************************************************************************)
(* The player over the download manager, for any downloads, contents,      *)
(* requests, exits and deaths: what plays is what was asked for, what is   *)
(* downloaded to the cache is remembered, what is waited for runs, and     *)
(* what a player has started stops with it.                                *)
(***************************************************************************)
EXTENDS Playback, TorrentServiceProofs

InCache == {c \in Contents : savePath[c] = CacheDir}

Screens == [open : BOOLEAN, place : Places, asked : Names, name : Names, wasPaused : BOOLEAN]

\* A LOAD knows the name of its content.
PastName == {"files", "state", "resume", "load", "drop", "save", "loop"}

LoadLabels == {"check", "forget", "add", "name"} \cup PastName

PlayTypes ==
    /\ watchFile \in Names /\ lastTorrent \in Names
    /\ screen \in Screens /\ task \in Tasks /\ waiting \in Tasks
    /\ plays \in 0 .. MaxPlays
    /\ cut \subseteq Contents /\ touched \subseteq Contents /\ disturbed \in BOOLEAN

\* Which steps a task may stand before.
TaskShape ==
    /\ task.at \in {"fetch", "check", "forget", "add", "save"} => task.place = CacheDir
    /\ task.at \in PastName => task.name \in Contents
    /\ task.at = "none" => ~task.own
    /\ waiting = NoTask \/ (waiting.own /\ waiting.at \in {"fetch", "check", "name"})
    /\ waiting.at \in {"fetch", "check"} => waiting.place = CacheDir
    /\ waiting.at = "name" => waiting.place # CacheDir

\* The player on the screen is the one that began t.
Began(t) == screen.open /\ screen.place = t.place /\ screen.asked = t.asked

\* Of the tasks one at most is wanted, by what is on the screen.
ScreenOK ==
    /\ waiting.at = "fetch" => ~screen.open
    /\ waiting.at \in {"check", "name"} => Began(waiting) /\ screen.name = NoName
    /\ task.own =>
        /\ waiting = NoTask
        /\ task.at = "fetch" => ~screen.open
        /\ task.at # "fetch" => Began(task)
        /\ task.at \in PastName => screen.name = task.name

\* A "watch now" is of what was asked for last.
AskedOK ==
    /\ waiting.at = "fetch" => waiting.asked = lastTorrent
    /\ task.own /\ task.at = "fetch" => task.asked = lastTorrent
    /\ screen.open /\ screen.place = CacheDir => screen.asked = lastTorrent

\* The file in the cache is the one a "watch now" is going to read.
FileOK ==
    ~disturbed =>
        /\ waiting.at = "check" => watchFile \in {NoName, waiting.asked}
        /\ task.at \in {"check", "forget", "add", "name"} /\ task.place = CacheDir =>
                watchFile \in {NoName, task.asked}
        /\ task.at \in PastName /\ task.place = CacheDir => task.name = task.asked
        /\ screen.open /\ screen.place = CacheDir => screen.name \in {NoName, screen.asked}

LoadsCache == Preparing(task) /\ task.place = CacheDir

\* The one torrent of the cache is remembered, or the task knows it.
CacheOK ==
    ~disturbed =>
        /\ ~LoadsCache \/ task.at \in {"check", "add"} => InCache \subseteq {lastContent}
        /\ LoadsCache /\ task.at = "forget" => InCache = {}
        /\ LoadsCache /\ task.at = "name" => InCache \subseteq {watchFile}
        /\ LoadsCache /\ task.at \in PastName => InCache \subseteq {task.name}

\* What is added to the cache replaces nothing that is remembered.
KeptOK == ~disturbed /\ task.at = "add" => lastContent \in {NoName, watchFile}

\* What the manager is going to forget is not in the session any more.
MovingOK ==
    ~disturbed /\ ~WatchingNow =>
        /\ work.at = "removeLast" => lastContent \in {NoName, NameOf(work.row)}
        /\ work.at \in {"moveLast", "forgetLast"} => InCache = {}

\* Once LOAD has seen the torrent only the manager can take it away.
PrepOK ==
    task.own =>
        /\ task.at \in {"state", "resume"} => task.name \in gTorrents \cup touched
        /\ task.at \in {"load", "save", "loop"} => task.name \in (gTorrents \ paused) \cup touched

Service == TypeOK /\ LabelsOK

PlayInv ==
    /\ Service /\ PlayTypes
    /\ TaskShape /\ ScreenOK /\ AskedOK /\ FileOK
    /\ CacheOK /\ KeptOK /\ MovingOK /\ PrepOK

-----------------------------------------------------------------------------
(* The fields of tasks and players.                                         *)

LEMMA PlaceTypes ==
    /\ CacheDir \in Places /\ CacheDir # Nowhere /\ NoName \in Names /\ NoName \notin Contents
    /\ Contents \subseteq Names
    /\ \A d \in Downloads : d \in Places /\ d # CacheDir /\ ContentOf[d] \in Contents
BY PlaceAssumption, ContentAssumption, DownloadAssumption, PlayAssumption DEF Names

LEMMA NewTasks ==
    /\ NoTask \in Tasks /\ NoTask.at = "none" /\ ~NoTask.own /\ NoTask.place = CacheDir
    /\ \A c \in Names :
          /\ FetchTask(c) \in Tasks /\ FetchTask(c).at = "fetch" /\ FetchTask(c).place = CacheDir
          /\ FetchTask(c).asked = c /\ FetchTask(c).own
    /\ \A place \in Places, c \in Names :
          /\ LoadTask(place, c) \in Tasks /\ LoadTask(place, c).place = place
          /\ LoadTask(place, c).at = IF place = CacheDir THEN "check" ELSE "name"
          /\ LoadTask(place, c).asked = c /\ LoadTask(place, c).own
<1>1. NoTask = [at |-> "none", place |-> CacheDir, asked |-> NoName, name |-> NoName, own |-> FALSE]
  BY DEF NoTask
<1>2. NoTask \in Tasks
  BY <1>1, PlaceTypes DEF Tasks
<1>3. NoTask.at = "none" /\ ~NoTask.own /\ NoTask.place = CacheDir
  BY <1>1
<1>4. PICK t \in Tasks : t = NoTask /\ t.at = "none" /\ ~t.own /\ t.place = CacheDir
  BY <1>2, <1>3
<1>5. ASSUME NEW c \in Names
      PROVE  /\ FetchTask(c) \in Tasks /\ FetchTask(c).at = "fetch" /\ FetchTask(c).place = CacheDir
             /\ FetchTask(c).asked = c /\ FetchTask(c).own
  <2>1. FetchTask(c) = [t EXCEPT !.at = "fetch", !.asked = c, !.own = TRUE]
    BY <1>4 DEF FetchTask
  <2> QED BY <1>4, <2>1 DEF Tasks
<1>6. ASSUME NEW place \in Places, NEW c \in Names
      PROVE  /\ LoadTask(place, c) \in Tasks /\ LoadTask(place, c).place = place
             /\ LoadTask(place, c).at = IF place = CacheDir THEN "check" ELSE "name"
             /\ LoadTask(place, c).asked = c /\ LoadTask(place, c).own
  <2>1. LoadTask(place, c) = [t EXCEPT !.at = IF place = CacheDir THEN "check" ELSE "name",
                                       !.place = place, !.asked = c, !.own = TRUE]
    BY <1>4 DEF LoadTask
  <2> QED BY <1>4, <2>1 DEF Tasks
<1> QED BY <1>4, <1>5, <1>6

LEMMA NewPlayers ==
    /\ Closed \in Screens /\ ~Closed.open
    /\ \A place \in Places, c \in Names :
          /\ Player(place, c) \in Screens /\ Player(place, c).open /\ Player(place, c).place = place
          /\ Player(place, c).asked = c /\ Player(place, c).name = NoName
<1>1. Closed = [open |-> FALSE, place |-> CacheDir, asked |-> NoName, name |-> NoName,
                wasPaused |-> FALSE]
  BY DEF Closed
<1>2. Closed \in Screens
  BY <1>1, PlaceTypes DEF Screens
<1>3. ~Closed.open /\ Closed.name = NoName
  BY <1>1
<1>4. PICK s \in Screens : s = Closed /\ ~s.open /\ s.name = NoName
  BY <1>2, <1>3
<1>5. ASSUME NEW place \in Places, NEW c \in Names
      PROVE  /\ Player(place, c) \in Screens /\ Player(place, c).open /\ Player(place, c).place = place
             /\ Player(place, c).asked = c /\ Player(place, c).name = NoName
  <2>1. Player(place, c) = [s EXCEPT !.open = TRUE, !.place = place, !.asked = c]
    BY <1>4 DEF Player
  <2> QED BY <1>4, <2>1 DEF Screens
<1> QED BY <1>4, <1>5

LEMMA TaskFields ==
    ASSUME NEW t \in Tasks
    PROVE  /\ t.own \in BOOLEAN /\ t.asked \in Names /\ t.name \in Names /\ t.place \in Places
           /\ [t EXCEPT !.own = FALSE] \in Tasks /\ ~[t EXCEPT !.own = FALSE].own
           /\ [t EXCEPT !.own = FALSE].at = t.at /\ [t EXCEPT !.own = FALSE].place = t.place
           /\ [t EXCEPT !.own = FALSE].asked = t.asked /\ [t EXCEPT !.own = FALSE].name = t.name
           /\ \A to \in LoadLabels :
                /\ [t EXCEPT !.at = to] \in Tasks /\ [t EXCEPT !.at = to].at = to
                /\ [t EXCEPT !.at = to].place = t.place /\ [t EXCEPT !.at = to].asked = t.asked
                /\ [t EXCEPT !.at = to].name = t.name /\ [t EXCEPT !.at = to].own = t.own
           /\ \A n \in Names :
                /\ [t EXCEPT !.at = "files", !.name = n] \in Tasks
                /\ [t EXCEPT !.at = "files", !.name = n].at = "files"
                /\ [t EXCEPT !.at = "files", !.name = n].place = t.place
                /\ [t EXCEPT !.at = "files", !.name = n].asked = t.asked
                /\ [t EXCEPT !.at = "files", !.name = n].name = n
                /\ [t EXCEPT !.at = "files", !.name = n].own = t.own
<1>1. t.own \in BOOLEAN /\ t.asked \in Names /\ t.name \in Names /\ t.place \in Places
  BY DEF Tasks
<1>2. /\ [t EXCEPT !.own = FALSE] \in Tasks /\ ~[t EXCEPT !.own = FALSE].own
      /\ [t EXCEPT !.own = FALSE].at = t.at /\ [t EXCEPT !.own = FALSE].place = t.place
      /\ [t EXCEPT !.own = FALSE].asked = t.asked /\ [t EXCEPT !.own = FALSE].name = t.name
  BY DEF Tasks
<1>3. ASSUME NEW to \in LoadLabels
      PROVE  /\ [t EXCEPT !.at = to] \in Tasks /\ [t EXCEPT !.at = to].at = to
             /\ [t EXCEPT !.at = to].place = t.place /\ [t EXCEPT !.at = to].asked = t.asked
             /\ [t EXCEPT !.at = to].name = t.name /\ [t EXCEPT !.at = to].own = t.own
  BY DEF Tasks, LoadLabels, PastName
<1>4. ASSUME NEW n \in Names
      PROVE  /\ [t EXCEPT !.at = "files", !.name = n] \in Tasks
             /\ [t EXCEPT !.at = "files", !.name = n].at = "files"
             /\ [t EXCEPT !.at = "files", !.name = n].place = t.place
             /\ [t EXCEPT !.at = "files", !.name = n].asked = t.asked
             /\ [t EXCEPT !.at = "files", !.name = n].name = n
             /\ [t EXCEPT !.at = "files", !.name = n].own = t.own
  BY DEF Tasks
<1> QED BY <1>1, <1>2, <1>3, <1>4

LEMMA StepFields ==
    ASSUME task \in Tasks, NEW from, NEW to \in LoadLabels, Step(from, to)
    PROVE  /\ task' \in Tasks /\ task'.at = to /\ task'.place = task.place
           /\ task'.name = task.name /\ task'.asked = task.asked /\ task'.own = task.own
<1>1. task' = [task EXCEPT !.at = to]
  BY DEF Step
<1> QED BY <1>1, TaskFields

LEMMA NameFields ==
    ASSUME task \in Tasks, NEW n \in Names, task' = [task EXCEPT !.at = "files", !.name = n]
    PROVE  /\ task' \in Tasks /\ task'.at = "files" /\ task'.place = task.place
           /\ task'.asked = task.asked /\ task'.name = n /\ task'.own = task.own
BY DEF Tasks

LEMMA ScreenFields ==
    ASSUME NEW s \in Screens
    PROVE  /\ s.open \in BOOLEAN /\ s.asked \in Names /\ s.name \in Names /\ s.place \in Places
           /\ \A n \in Names, was \in BOOLEAN :
                /\ [s EXCEPT !.name = n, !.wasPaused = was] \in Screens
                /\ [s EXCEPT !.name = n, !.wasPaused = was].open = s.open
                /\ [s EXCEPT !.name = n, !.wasPaused = was].place = s.place
                /\ [s EXCEPT !.name = n, !.wasPaused = was].asked = s.asked
                /\ [s EXCEPT !.name = n, !.wasPaused = was].name = n
                /\ [s EXCEPT !.name = n, !.wasPaused = was].wasPaused = was
BY DEF Screens

-----------------------------------------------------------------------------
(* The history.                                                             *)

\* What holds until the next disturbance.
LEMMA Calm ==
    ASSUME Remember, disturbed \in BOOLEAN
    PROVE  /\ disturbed' \in BOOLEAN
           /\ touched \subseteq touched'
           /\ ~disturbed' =>
                /\ ~disturbed /\ ~(Moving /\ WatchingNow)
                /\ (Preparing(waiting) /\ waiting.place = CacheDir) \/ LoadsCache =>
                        watchFile' = watchFile
<1>1. disturbed' = (disturbed \/ Disturbs)
  BY DEF Remember
<1>2. Disturbs <=> \/ /\ \E t \in {waiting, task} : Preparing(t) /\ t.place = CacheDir
                      /\ watchFile' # watchFile
                   \/ Moving /\ WatchingNow
  BY DEF Disturbs
<1>3. disturbed' \in BOOLEAN /\ (disturbed' <=> disturbed \/ Disturbs)
  BY <1>1
<1>4. touched \subseteq touched'
  BY DEF Remember
<1> QED BY <1>2, <1>3, <1>4 DEF LoadsCache

LEMMA HistoryTypes ==
    ASSUME PlayTypes, Remember, task' \in Tasks
    PROVE  cut' \subseteq Contents /\ touched' \subseteq Contents /\ disturbed' \in BOOLEAN
<1>1. /\ screen.asked \in Names /\ screen.name \in Names
      /\ task.asked \in Names /\ task.name \in Names
      /\ task'.asked \in Names /\ task'.name \in Names
  BY TaskFields, ScreenFields DEF PlayTypes, Tasks
<1>2. cut' \subseteq Contents
  BY <1>1 DEF Remember, PlayTypes, Names
<1>3. touched' \subseteq Contents
  BY <1>1 DEF Remember, PlayTypes, Names, Touched
<1> QED BY <1>2, <1>3, Calm DEF PlayTypes

-----------------------------------------------------------------------------
(* What the steps have in common.                                           *)

LEMMA ServiceKept ==
    ASSUME Service, SessionOK', UNCHANGED <<disk, queue, work, user>>,
           lastContent' \in Contents \cup {NoName}, cached' \subseteq Contents
    PROVE  Service'
<1>1. DiskOK'
  BY DEF Service, TypeOK, DiskOK, disk
<1>2. UserOK' /\ queue' \in Seq(Intents) /\ work' \in Works
  BY Unchanged DEF Service, TypeOK
<1>3. LabelsOK'
  BY DEF Service, LabelsOK
<1> QED BY <1>1, <1>2, <1>3 DEF Service, TypeOK

LEMMA SameService ==
    ASSUME Service, UNCHANGED <<session, disk, queue, work, user>>,
           lastContent' \in Contents \cup {NoName}, cached' \subseteq Contents
    PROVE  Service'
BY ServiceKept, Unchanged DEF Service, TypeOK

LEMMA SameCache ==
    ASSUME UNCHANGED session
    PROVE  InCache' = InCache /\ gTorrents' = gTorrents /\ paused' = paused
BY DEF InCache, gTorrents, session

\* The manager has not come nearer to forgetting the video.
LEMMA MovingKept ==
    ASSUME MovingOK, Remember, disturbed \in BOOLEAN, UNCHANGED <<work, torrentFile>>,
           lastContent' \in {lastContent, NoName}, InCache' \subseteq InCache
    PROVE  MovingOK'
<1> SUFFICES ASSUME ~disturbed', Moving
             PROVE  /\ work.at = "removeLast" => lastContent' \in {NoName, NameOf(work.row)'}
                    /\ work.at \in {"moveLast", "forgetLast"} => InCache' = {}
  BY DEF MovingOK, Moving
<1>1. ~disturbed /\ ~WatchingNow
  BY Calm
<1>2. NameOf(work.row)' = NameOf(work.row)
  BY DEF NameOf
<1> QED BY <1>1, <1>2 DEF MovingOK

\* A "watch now" that goes on while the manager moves the video is a disturbance.
LEMMA MovingWatched ==
    ASSUME Remember, disturbed \in BOOLEAN, work' = work, WatchingNow
    PROVE  MovingOK'
<1> SUFFICES ASSUME ~disturbed', Moving PROVE FALSE
  BY DEF MovingOK, Moving
<1> QED BY Calm

\* A task goes on with its player, to another of its steps.
LEMMA OneStep ==
    ASSUME PlayInv, Remember, NEW to \in LoadLabels \ {"check"}, Step(task.at, to),
           task.at \notin {"none", "fetch", "loop"}, UNCHANGED <<prefs, waiting, plays>>,
           to \in {"forget", "add", "save"} => task.place = CacheDir,
           to \in {"forget", "add", "name"} => task.at \in {"check", "forget", "add"},
           to \in PastName => task.at \in PastName,
           screen' \in Screens, screen'.open = screen.open, screen'.place = screen.place,
           screen'.asked = screen.asked, screen'.name = screen.name
    PROVE  /\ task'.at = to /\ task'.place = task.place /\ task'.name = task.name
           /\ task'.asked = task.asked /\ task'.own = task.own
           /\ PlayTypes' /\ TaskShape' /\ ScreenOK' /\ AskedOK' /\ FileOK'
<1>1. task \in Tasks
  BY DEF PlayInv, PlayTypes
<1>2. /\ task' \in Tasks /\ task'.at = to /\ task'.place = task.place /\ task'.name = task.name
      /\ task'.asked = task.asked /\ task'.own = task.own
  BY <1>1, StepFields
<1>3. to \notin {"none", "fetch", "check"}
  BY DEF LoadLabels, PastName
<1>4. PlayTypes'
  BY <1>2, HistoryTypes DEF PlayInv, PlayTypes, prefs
<1>5. TaskShape'
  BY <1>2, <1>3 DEF PlayInv, TaskShape, PastName
<1>6. Began(task)' <=> Began(task)
  BY <1>2 DEF Began
<1>7. Began(waiting)' <=> Began(waiting)
  BY DEF Began
<1>8. ScreenOK'
  BY <1>2, <1>3, <1>6, <1>7 DEF PlayInv, ScreenOK
<1>9. AskedOK'
  BY <1>2, <1>3 DEF PlayInv, AskedOK, prefs
<1>10. ASSUME ~disturbed' PROVE ~disturbed
  BY <1>10, Calm DEF PlayInv, PlayTypes
<1>11. /\ to \in {"check", "forget", "add", "name"} => task.at \in {"check", "forget", "add", "name"}
       /\ watchFile' = watchFile
  BY <1>3 DEF prefs
<1>12. FileOK'
  BY <1>2, <1>10, <1>11 DEF PlayInv, FileOK
<1> QED BY <1>2, <1>4, <1>5, <1>8, <1>9, <1>12

\* A task ends.
LEMMA TaskEnds ==
    ASSUME PlayInv, Remember, task.at # "none", task' = NoTask, screen' = screen,
           UNCHANGED <<lastTorrent, waiting, plays>>, watchFile' \in Names
    PROVE  /\ PlayTypes' /\ TaskShape' /\ ScreenOK' /\ AskedOK' /\ FileOK'
           /\ ~LoadsCache' /\ PrepOK' /\ KeptOK'
<1>1. task' \in Tasks /\ task'.at = "none" /\ ~task'.own
  BY NewTasks
<1>2. PlayTypes'
  BY <1>1, HistoryTypes DEF PlayInv, PlayTypes
<1>3. TaskShape'
  BY <1>1 DEF PlayInv, TaskShape, PastName
<1>4. ScreenOK'
  BY <1>1 DEF PlayInv, ScreenOK, Began
<1>5. AskedOK'
  BY <1>1 DEF PlayInv, AskedOK
<1>6. ASSUME ~disturbed' PROVE ~disturbed /\ (waiting.at = "check" => watchFile' = watchFile)
  BY <1>6, Calm DEF PlayInv, PlayTypes, TaskShape, Preparing
<1>7. FileOK'
  BY <1>1, <1>6 DEF PlayInv, FileOK, PastName
<1>8. ~LoadsCache' /\ PrepOK' /\ KeptOK'
  BY <1>1 DEF LoadsCache, Preparing, PrepOK, KeptOK
<1> QED BY <1>2, <1>3, <1>4, <1>5, <1>7, <1>8

LEMMA CacheRemove ==
    ASSUME SessionOK, NEW name, RemoveTorrent(name)
    PROVE  InCache' = InCache \ {name}
BY RemovePlace, PlaceTypes DEF InCache

LEMMA CacheAdd ==
    ASSUME SessionOK, NEW place, NEW name, AddTorrent(place, name)
    PROVE  /\ InCache' \subseteq InCache \cup {name}
           /\ place # CacheDir => InCache' \subseteq InCache
BY AddPlace DEF InCache

-----------------------------------------------------------------------------
(* The steps of the tasks.                                                  *)

LEMMA StartStep ==
    ASSUME PlayInv, StartTask, Remember
    PROVE  PlayInv'
<1> USE DEF PlayInv
<1>1. /\ task = NoTask /\ waiting # NoTask /\ task' = waiting /\ waiting' = NoTask
      /\ UNCHANGED <<vars, prefs, screen, plays>>
  BY DEF StartTask
<1>2. waiting.own /\ waiting.at \in {"fetch", "check", "name"} /\ waiting \in Tasks
  BY <1>1 DEF TaskShape, PlayTypes
<1>3. Service'
  BY <1>1, SameService DEF vars, cache, Service, TypeOK, DiskOK
<1>4. PlayTypes'
  BY <1>1, <1>2, NewTasks, HistoryTypes DEF PlayTypes, prefs
<1>5. TaskShape'
  BY <1>1, <1>2, NewTasks DEF TaskShape, PastName
<1>6. ScreenOK'
  BY <1>1, <1>2, NewTasks DEF ScreenOK, Began, PastName
<1>7. AskedOK'
  BY <1>1, <1>2, NewTasks DEF AskedOK, prefs
<1>8. ASSUME ~disturbed' PROVE ~disturbed
  BY <1>8, Calm DEF PlayTypes
<1>9. FileOK'
  <2>1. waiting.at = "name" => waiting.place # CacheDir
    BY DEF TaskShape
  <2> QED BY <1>1, <1>2, <1>8, <2>1, NewTasks DEF FileOK, PastName, prefs
<1>10. ~LoadsCache /\ InCache' = InCache /\ lastContent' = lastContent
  BY <1>1, NewTasks, SameCache DEF LoadsCache, Preparing, vars, cache
<1>11. CacheOK'
  <2>1. task'.at \in {"fetch", "check"} \/ ~LoadsCache'
    BY <1>1, <1>2 DEF LoadsCache, TaskShape
  <2>2. task'.at \in {"fetch", "check", "name"} /\ (task'.at = "fetch" => ~LoadsCache')
    BY <1>1, <1>2 DEF LoadsCache, Preparing
  <2> QED BY <1>8, <1>10, <2>1, <2>2 DEF CacheOK, PastName
<1>12. KeptOK' /\ PrepOK'
  BY <1>1, <1>2 DEF KeptOK, PrepOK
<1>13. MovingOK'
  BY <1>1, <1>10, MovingKept DEF vars, disk, PlayTypes
<1> QED BY <1>3, <1>4, <1>5, <1>6, <1>7, <1>9, <1>11, <1>12, <1>13

LEMMA CheckStep ==
    ASSUME PlayInv, CheckLastWatched, Remember
    PROVE  PlayInv'
<1> USE DEF PlayInv
<1>1. /\ task.at = "check" /\ task.place = CacheDir /\ LoadsCache
      /\ UNCHANGED <<disk, cache, queue, work, user, prefs, waiting, plays, screen>>
  BY DEF CheckLastWatched, Step, OnlySession, TaskShape, LoadsCache, Preparing
<1>2. PICK to \in {"add", "forget"} : Step(task.at, to) /\ (to = "add" <=> KeepsLast)
  BY <1>1 DEF CheckLastWatched
<1>3. to \in LoadLabels \ {"check"} /\ to \notin PastName
  BY DEF LoadLabels, PastName
<1>4. /\ task'.at = to /\ task'.place = task.place
      /\ PlayTypes' /\ TaskShape' /\ ScreenOK' /\ AskedOK' /\ FileOK'
  BY <1>1, <1>2, <1>3, OneStep DEF PlayTypes
<1>5. /\ to = "add" => InCache' = InCache
      /\ to = "forget" => InCache' = InCache \ {lastContent}
      /\ SessionOK'
  BY <1>2, SameCache, CacheRemove, RemoveType, Unchanged DEF CheckLastWatched, Service, TypeOK
<1>6. Service'
  BY <1>1, <1>5, ServiceKept DEF cache, Service, TypeOK, DiskOK
<1>7. ASSUME ~disturbed' PROVE ~disturbed
  BY <1>7, Calm DEF PlayTypes
<1>8. lastContent' = lastContent /\ watchFile' = watchFile
  BY <1>1 DEF cache, prefs
<1>9. CacheOK'
  BY <1>1, <1>4, <1>5, <1>7, <1>8 DEF CacheOK, PastName
<1>10. KeptOK'
  BY <1>2, <1>4, <1>8 DEF KeptOK, KeepsLast
<1>11. PrepOK'
  BY <1>4 DEF PrepOK
<1>12. MovingOK'
  BY <1>1, <1>5, <1>8, MovingKept DEF disk, PlayTypes
<1> QED BY <1>4, <1>6, <1>9, <1>10, <1>11, <1>12

LEMMA ForgetStep ==
    ASSUME PlayInv, ForgetWatched, Remember
    PROVE  PlayInv'
<1> USE DEF PlayInv
<1>1. /\ task.at = "forget" /\ task.place = CacheDir /\ LoadsCache /\ Step(task.at, "add")
      /\ lastContent' = NoName
      /\ UNCHANGED <<session, disk, cached, queue, work, user, prefs, screen, waiting, plays>>
  BY DEF ForgetWatched, Step, TaskShape, LoadsCache, Preparing
<1>2. "add" \in LoadLabels \ {"check"} /\ "add" \notin PastName
  BY DEF LoadLabels, PastName
<1>3. /\ task'.at = "add" /\ task'.place = task.place
      /\ PlayTypes' /\ TaskShape' /\ ScreenOK' /\ AskedOK' /\ FileOK'
  BY <1>1, <1>2, OneStep DEF PlayTypes
<1>4. Service'
  BY <1>1, SameService DEF Service, TypeOK, DiskOK
<1>5. ASSUME ~disturbed' PROVE ~disturbed
  BY <1>5, Calm DEF PlayTypes
<1>6. InCache' = InCache
  BY <1>1, SameCache
<1>7. CacheOK'
  BY <1>1, <1>3, <1>5, <1>6 DEF CacheOK, PastName
<1>8. KeptOK' /\ PrepOK'
  BY <1>1, <1>3 DEF KeptOK, PrepOK
<1>9. MovingOK'
  BY <1>1, <1>6, MovingKept DEF disk, PlayTypes
<1> QED BY <1>3, <1>4, <1>7, <1>8, <1>9

LEMMA AddStep ==
    ASSUME PlayInv, AddWatched, Remember
    PROVE  PlayInv'
<1> USE DEF PlayInv
<1>1. /\ task.at = "add" /\ task.place = CacheDir /\ LoadsCache /\ Step(task.at, "name")
      /\ AddTorrent(CacheDir, watchFile)
      /\ UNCHANGED <<disk, cache, queue, work, user, prefs, waiting, plays, screen>>
  BY DEF AddWatched, Step, OnlySession, TaskShape, LoadsCache, Preparing
<1>2. "name" \in LoadLabels \ {"check"} /\ "name" \notin PastName
  BY DEF LoadLabels, PastName
<1>3. /\ task'.at = "name" /\ task'.place = task.place
      /\ PlayTypes' /\ TaskShape' /\ ScreenOK' /\ AskedOK' /\ FileOK'
  BY <1>1, <1>2, OneStep DEF PlayTypes
<1>4. SessionOK' /\ InCache' \subseteq InCache \cup {watchFile}
  BY <1>1, AddType, CacheAdd, PlaceTypes DEF Service, TypeOK
<1>5. Service'
  BY <1>1, <1>4, ServiceKept DEF cache, Service, TypeOK, DiskOK
<1>6. ASSUME ~disturbed' PROVE ~disturbed
  BY <1>6, Calm DEF PlayTypes
<1>7. ASSUME ~disturbed PROVE InCache' \subseteq {watchFile}
  <2>1. InCache \subseteq {lastContent} /\ lastContent \in {NoName, watchFile}
    BY <1>1, <1>7 DEF CacheOK, KeptOK
  <2>2. NoName \notin InCache
    BY PlaceTypes DEF InCache
  <2>3. InCache \subseteq {watchFile}
    BY <2>1, <2>2
  <2> QED BY <1>4, <2>3
<1>8. watchFile' = watchFile
  BY <1>1 DEF prefs
<1>9. CacheOK'
  BY <1>1, <1>3, <1>6, <1>7, <1>8 DEF CacheOK, LoadsCache, Preparing, PastName
<1>10. KeptOK' /\ PrepOK'
  BY <1>3 DEF KeptOK, PrepOK
<1>11. MovingOK'
  BY <1>1, MovingWatched DEF WatchingNow, PlayTypes
<1> QED BY <1>3, <1>5, <1>9, <1>10, <1>11

LEMMA NameStep ==
    ASSUME PlayInv, ReadName, Remember
    PROVE  PlayInv'
<1> USE DEF PlayInv
<1> DEFINE name == NameIn(task.place)
<1>1. /\ task.at = "name" /\ SetFields(name, FALSE) /\ UNCHANGED <<vars, prefs, waiting, plays>>
      /\ task' = IF name = NoName THEN NoTask ELSE [task EXCEPT !.at = "files", !.name = name]
  BY DEF ReadName
<1>2. name \in Names /\ (task.place = CacheDir => name = watchFile)
  <2>1. task.place \in Places
    BY TaskFields DEF PlayTypes
  <2>2. task.place # CacheDir => task.place \in Downloads
    BY <2>1, DownloadAssumption
  <2> QED BY <2>2, NameType, PlaceTypes DEF NameIn, PlayTypes
<1> HIDE DEF name
<1>3. Service'
  BY <1>1, SameService DEF vars, cache, Service, TypeOK, DiskOK
<1>4. /\ screen' \in Screens /\ screen'.open = screen.open /\ screen'.place = screen.place
      /\ screen'.asked = screen.asked
      /\ screen'.name = IF task.own THEN name ELSE screen.name
  <2>1. screen \in Screens /\ task.own \in BOOLEAN
    BY TaskFields DEF PlayTypes
  <2>2. CASE task.own
    <3>1. screen' = [screen EXCEPT !.name = name, !.wasPaused = FALSE] /\ FALSE \in BOOLEAN
      BY <1>1, <2>2 DEF SetFields
    <3>2. /\ screen' \in Screens /\ screen'.open = screen.open /\ screen'.place = screen.place
          /\ screen'.asked = screen.asked /\ screen'.name = name
      BY <1>2, <2>1, <3>1, ScreenFields
    <3> QED BY <2>2, <3>2
  <2>3. CASE ~task.own
    BY <1>1, <2>1, <2>3 DEF SetFields
  <2> QED BY <2>2, <2>3
<1>5. ASSUME ~disturbed' PROVE ~disturbed
  BY <1>5, Calm DEF PlayTypes
<1>6. /\ InCache' = InCache /\ lastContent' = lastContent
      /\ watchFile' = watchFile /\ lastTorrent' = lastTorrent
  BY <1>1, SameCache DEF vars, cache, prefs
<1>7. MovingOK'
  BY <1>1, <1>6, MovingKept DEF vars, disk, PlayTypes
<1>8. task.own => waiting = NoTask /\ Began(task) /\ screen.open
  BY <1>1 DEF ScreenOK, Began
<1>9. LoadsCache <=> task.place = CacheDir
  BY <1>1 DEF LoadsCache, Preparing
<1>10. waiting = NoTask => waiting.at = "none"
  BY NewTasks
<1>11. ASSUME ~disturbed', screen'.open, screen'.place = CacheDir
       PROVE  screen'.name \in {NoName, screen'.asked}
  <2>1. CASE task.own
    <3>1. task.place = CacheDir /\ task.asked = screen.asked
      BY <1>4, <1>8, <1>11, <2>1 DEF Began
    <3>2. watchFile \in {NoName, task.asked}
      BY <1>1, <1>5, <1>11, <3>1 DEF FileOK
    <3> QED BY <1>2, <1>4, <2>1, <3>1, <3>2
  <2>2. CASE ~task.own
    BY <1>4, <1>5, <1>11, <2>2 DEF FileOK
  <2> QED BY <2>1, <2>2
<1>12. AskedOK' /\ (waiting.at \in {"check", "name"} => Began(waiting)' /\ screen'.name = NoName)
  <2>1. waiting.at \in {"check", "name"} => ~task.own
    BY <1>8, <1>10
  <2>2. AskedOK'
    <3>1. ~(task'.own /\ task'.at = "fetch")
      BY <1>1, <1>2, TaskFields, NewTasks DEF PlayTypes
    <3> QED BY <1>1, <1>4, <1>6, <3>1 DEF AskedOK
  <2> QED BY <1>1, <1>4, <2>1, <2>2 DEF ScreenOK, Began
<1>13. CASE name = NoName
  <2>1. task' \in Tasks /\ task'.at = "none" /\ ~task'.own
    BY <1>1, <1>13, NewTasks
  <2>2. PlayTypes'
    BY <1>1, <1>4, <2>1, HistoryTypes DEF PlayTypes, prefs
  <2>3. TaskShape'
    BY <1>1, <2>1 DEF TaskShape, PastName
  <2>4. ScreenOK'
    BY <1>1, <1>4, <1>12, <2>1 DEF ScreenOK
  <2>5. FileOK'
    BY <1>1, <1>5, <1>6, <1>11, <2>1 DEF FileOK, PastName
  <2>6. ~LoadsCache' /\ PrepOK' /\ KeptOK'
    BY <2>1 DEF LoadsCache, Preparing, PrepOK, KeptOK
  <2>7. ASSUME ~disturbed' PROVE InCache \subseteq {lastContent}
    <3>1. NoName \notin InCache
      BY PlaceTypes DEF InCache
    <3>2. LoadsCache => InCache \subseteq {watchFile}
      BY <1>1, <1>5, <2>7 DEF CacheOK
    <3>3. ~LoadsCache => InCache \subseteq {lastContent}
      BY <1>5, <2>7 DEF CacheOK
    <3> QED BY <1>2, <1>9, <1>13, <3>1, <3>2, <3>3
  <2>8. CacheOK'
    BY <1>6, <2>6, <2>7 DEF CacheOK
  <2> QED BY <1>3, <1>7, <1>12, <2>2, <2>3, <2>4, <2>5, <2>6, <2>8
<1>14. CASE name # NoName
  <2>1. /\ task' \in Tasks /\ task'.at = "files" /\ task'.place = task.place /\ task'.asked = task.asked
        /\ task'.name = name /\ task'.own = task.own
    <3>1. task' = [task EXCEPT !.at = "files", !.name = name] /\ task \in Tasks
      BY <1>1, <1>14 DEF PlayTypes
    <3> QED BY <1>2, <3>1, NameFields
  <2>2. PlayTypes'
    BY <1>1, <1>4, <2>1, HistoryTypes DEF PlayTypes, prefs
  <2>3. name \in Contents
    BY <1>2, <1>14 DEF Names
  <2>4. TaskShape'
    BY <1>1, <2>1, <2>3 DEF TaskShape, PastName
  <2>5. ScreenOK'
    BY <1>1, <1>4, <1>8, <1>12, <2>1 DEF ScreenOK, Began
  <2>6. FileOK'
    <3>1. ASSUME ~disturbed', task.place = CacheDir PROVE name = task.asked
      BY <1>1, <1>2, <1>5, <1>14, <3>1 DEF FileOK
    <3> QED BY <1>1, <1>5, <1>6, <1>11, <2>1, <3>1 DEF FileOK
  <2>7. KeptOK' /\ PrepOK' /\ (LoadsCache' <=> LoadsCache)
    BY <1>1, <2>1 DEF KeptOK, PrepOK, LoadsCache, Preparing
  <2>8. CacheOK'
    BY <1>1, <1>2, <1>5, <1>6, <1>9, <2>1, <2>7 DEF CacheOK
  <2> QED BY <1>3, <1>7, <1>12, <2>2, <2>4, <2>5, <2>6, <2>7, <2>8
<1> QED BY <1>13, <1>14

\* LOAD knows the name, and its step touches neither place nor memory.
LEMMA PastStep ==
    ASSUME PlayInv, Remember, task.at \in PastName \ {"loop"}, NEW to \in PastName, Step(task.at, to),
           UNCHANGED <<prefs, waiting, plays, work, disk, cache>>, InCache' = InCache,
           to = "save" => task.place = CacheDir, to = "loop" => task.place # CacheDir,
           screen' \in Screens, screen'.open = screen.open, screen'.place = screen.place,
           screen'.asked = screen.asked, screen'.name = screen.name
    PROVE  /\ task'.at = to /\ task'.name = task.name /\ task'.own = task.own
           /\ PlayTypes' /\ TaskShape' /\ ScreenOK' /\ AskedOK' /\ FileOK'
           /\ CacheOK' /\ KeptOK' /\ MovingOK'
<1> USE DEF PlayInv
<1>1. /\ to \in LoadLabels \ {"check"} /\ to \notin {"forget", "add", "name"}
      /\ task.at \notin {"none", "fetch", "loop"}
  BY DEF LoadLabels, PastName
<1>2. /\ task'.at = to /\ task'.place = task.place /\ task'.name = task.name /\ task'.own = task.own
      /\ PlayTypes' /\ TaskShape' /\ ScreenOK' /\ AskedOK' /\ FileOK'
  BY <1>1, OneStep
<1>3. (LoadsCache' <=> LoadsCache) /\ (LoadsCache <=> task.place = CacheDir)
  BY <1>1, <1>2 DEF LoadsCache, Preparing, PastName
<1>4. ASSUME ~disturbed' PROVE ~disturbed
  BY <1>4, Calm DEF PlayTypes
<1>5. CacheOK'
  BY <1>1, <1>2, <1>3, <1>4 DEF CacheOK, cache, PastName
<1>6. KeptOK'
  BY <1>1, <1>2 DEF KeptOK
<1>7. MovingOK'
  BY MovingKept DEF disk, cache, PlayTypes
<1> QED BY <1>2, <1>5, <1>6, <1>7

LEMMA ChooseStep ==
    ASSUME PlayInv, ChooseFile, Remember
    PROVE  PlayInv'
<1> USE DEF PlayInv
<1>1. task.at = "files" /\ UNCHANGED <<vars, prefs, screen, waiting, plays>>
  BY DEF ChooseFile, Step
<1>2. PICK to \in {"state", "drop"} : Step(task.at, to) /\ (to = "state" => task.name \in gTorrents)
  BY <1>1 DEF ChooseFile
<1>3. Service'
  BY <1>1, SameService DEF vars, cache, Service, TypeOK, DiskOK
<1>4. task.at \in PastName \ {"loop"} /\ to \in PastName
  BY <1>1 DEF PastName
<1>5. /\ task'.at = to /\ task'.name = task.name /\ task'.own = task.own
      /\ PlayTypes' /\ TaskShape' /\ ScreenOK' /\ AskedOK' /\ FileOK'
      /\ CacheOK' /\ KeptOK' /\ MovingOK'
  BY <1>1, <1>2, <1>4, PastStep, SameCache DEF vars, PlayTypes
<1>6. PrepOK'
  BY <1>1, <1>2, <1>5, SameCache DEF PrepOK, vars
<1> QED BY <1>3, <1>5, <1>6

\* Only wasPaused may change: the content has got its name before.
LEMMA StateFields ==
    ASSUME PlayTypes, ScreenOK, ReadState
    PROVE  /\ screen' \in Screens /\ screen'.open = screen.open /\ screen'.place = screen.place
           /\ screen'.asked = screen.asked /\ screen'.name = screen.name
           /\ ~task.own => screen' = screen
           /\ task.own => (screen'.wasPaused <=> task.name \in paused)
<1>1. screen \in Screens /\ task.own \in BOOLEAN /\ task.name \in Names
  BY TaskFields DEF PlayTypes
<1>2. CASE task.own
  <2>1. PICK was \in BOOLEAN : /\ screen' = [screen EXCEPT !.name = task.name, !.wasPaused = was]
                               /\ was <=> task.name \in paused
    <3>1. (task.name \in paused) \in BOOLEAN
      OBVIOUS
    <3> WITNESS (task.name \in paused) \in BOOLEAN
    <3> QED BY <1>2 DEF ReadState, SetFields
  <2> DEFINE s == [screen EXCEPT !.name = task.name, !.wasPaused = was]
  <2>2. /\ s \in Screens /\ s.open = screen.open /\ s.place = screen.place
        /\ s.asked = screen.asked /\ s.name = task.name /\ s.wasPaused = was
    BY <1>1 DEF Screens
  <2>3. screen' = s
    BY <2>1
  <2>4. screen.name = task.name
    BY <1>2 DEF ReadState, Step, ScreenOK, PastName
  <2> HIDE DEF s
  <2> QED BY <1>2, <2>1, <2>2, <2>3, <2>4
<1>3. CASE ~task.own
  BY <1>1, <1>3 DEF ReadState, SetFields
<1> QED BY <1>1, <1>2, <1>3

LEMMA StateStep ==
    ASSUME PlayInv, ReadState, Remember
    PROVE  PlayInv'
<1> USE DEF PlayInv
<1>1. task.at = "state" /\ UNCHANGED <<vars, prefs, waiting, plays>>
  BY DEF ReadState, Step
<1>2. PICK to \in {"resume", "load"} : Step(task.at, to) /\ (to = "load" => task.name \notin paused)
  BY <1>1 DEF ReadState, AfterState
<1>3. Service'
  BY <1>1, SameService DEF vars, cache, Service, TypeOK, DiskOK
<1>4. /\ screen' \in Screens /\ screen'.open = screen.open /\ screen'.place = screen.place
      /\ screen'.asked = screen.asked /\ screen'.name = screen.name
  BY StateFields
<1>5. task.at \in PastName \ {"loop"} /\ to \in PastName
  BY <1>1 DEF PastName
<1>6. InCache' = InCache /\ gTorrents' = gTorrents /\ paused' = paused
  BY <1>1, SameCache DEF vars
<1>7. /\ task'.at = to /\ task'.name = task.name /\ task'.own = task.own
      /\ PlayTypes' /\ TaskShape' /\ ScreenOK' /\ AskedOK' /\ FileOK'
      /\ CacheOK' /\ KeptOK' /\ MovingOK'
  BY <1>1, <1>2, <1>4, <1>5, <1>6, PastStep DEF vars
<1>8. touched \subseteq touched'
  BY Calm DEF PlayTypes
<1>9. PrepOK'
  BY <1>1, <1>2, <1>6, <1>7, <1>8 DEF PrepOK
<1> QED BY <1>3, <1>7, <1>9

LEMMA ResumeStep ==
    ASSUME PlayInv, ResumeWatched, Remember
    PROVE  PlayInv'
<1> USE DEF PlayInv
<1>1. /\ task.at = "resume" /\ Step(task.at, "load") /\ ResumeTorrent(task.name)
      /\ UNCHANGED <<disk, cache, queue, work, user, prefs, waiting, plays, screen>>
  BY DEF ResumeWatched, Step, OnlySession
<1>2. /\ paused' = paused \ {task.name} /\ InCache' = InCache /\ gTorrents' = gTorrents
      /\ SessionOK'
  BY <1>1, PauseType DEF ResumeTorrent, InCache, gTorrents, Service, TypeOK
<1>3. Service'
  BY <1>1, <1>2, ServiceKept DEF cache, Service, TypeOK, DiskOK
<1>4. task.at \in PastName \ {"loop"} /\ "load" \in PastName
  BY <1>1 DEF PastName
<1>5. /\ task'.at = "load" /\ task'.name = task.name /\ task'.own = task.own
      /\ PlayTypes' /\ TaskShape' /\ ScreenOK' /\ AskedOK' /\ FileOK'
      /\ CacheOK' /\ KeptOK' /\ MovingOK'
  BY <1>1, <1>2, <1>4, PastStep DEF PlayTypes
<1>6. touched \subseteq touched'
  BY Calm DEF PlayTypes
<1>7. PrepOK'
  BY <1>1, <1>2, <1>5, <1>6 DEF PrepOK
<1> QED BY <1>3, <1>5, <1>7

LEMMA LoadStep ==
    ASSUME PlayInv, NEW playable \in BOOLEAN, LoadPieces(playable), Remember
    PROVE  PlayInv'
<1> USE DEF PlayInv
<1>1. task.at = "load" /\ UNCHANGED <<vars, prefs, screen, waiting, plays>>
  BY DEF LoadPieces, Step
<1>2. PICK to \in {"save", "loop", "drop"} :
           /\ Step(task.at, to)
           /\ to = "save" => task.place = CacheDir
           /\ to = "loop" => task.place # CacheDir
  BY <1>1 DEF LoadPieces, AfterLoad
<1>3. Service'
  BY <1>1, SameService DEF vars, cache, Service, TypeOK, DiskOK
<1>4. task.at \in PastName \ {"loop"} /\ to \in PastName
  BY <1>1 DEF PastName
<1>5. InCache' = InCache /\ gTorrents' = gTorrents /\ paused' = paused
  BY <1>1, SameCache DEF vars
<1>6. /\ task'.at = to /\ task'.name = task.name /\ task'.own = task.own
      /\ PlayTypes' /\ TaskShape' /\ ScreenOK' /\ AskedOK' /\ FileOK'
      /\ CacheOK' /\ KeptOK' /\ MovingOK'
  BY <1>1, <1>2, <1>4, <1>5, PastStep DEF vars, PlayTypes
<1>7. touched \subseteq touched'
  BY Calm DEF PlayTypes
<1>8. PrepOK'
  BY <1>1, <1>5, <1>6, <1>7 DEF PrepOK
<1> QED BY <1>3, <1>6, <1>8

LEMMA DropStep ==
    ASSUME PlayInv, DropTorrent, Remember
    PROVE  PlayInv'
<1> USE DEF PlayInv
<1>1. /\ task.at = "drop" /\ task' = NoTask /\ RemoveTorrent(task.name)
      /\ UNCHANGED <<disk, cache, queue, work, user, prefs, waiting, plays, screen>>
  BY DEF DropTorrent, OnlySession
<1>2. InCache' = InCache \ {task.name} /\ SessionOK'
  BY <1>1, CacheRemove, RemoveType DEF Service, TypeOK
<1>3. Service'
  BY <1>1, <1>2, ServiceKept DEF cache, Service, TypeOK, DiskOK
<1>4. PlayTypes' /\ TaskShape' /\ ScreenOK' /\ AskedOK' /\ FileOK' /\ ~LoadsCache' /\ PrepOK' /\ KeptOK'
  BY <1>1, TaskEnds DEF prefs, PlayTypes
<1>5. ASSUME ~disturbed' PROVE InCache' \subseteq {lastContent}
  <2>1. ~disturbed
    BY <1>5, Calm DEF PlayTypes
  <2> QED BY <1>1, <1>2, <2>1 DEF CacheOK, PastName
<1>6. CacheOK'
  BY <1>1, <1>4, <1>5 DEF CacheOK, cache
<1>7. MovingOK'
  BY <1>1, <1>2, MovingKept DEF disk, cache, PlayTypes
<1> QED BY <1>3, <1>4, <1>6, <1>7

LEMMA SaveStep ==
    ASSUME PlayInv, SaveWatched, Remember
    PROVE  PlayInv'
<1> USE DEF PlayInv
<1>1. /\ task.at = "save" /\ task.place = CacheDir /\ LoadsCache /\ Step(task.at, "loop")
      /\ lastContent' = task.name /\ task.name \in Contents
      /\ UNCHANGED <<session, disk, cached, queue, work, user, prefs, screen, waiting, plays>>
  BY DEF SaveWatched, Step, TaskShape, LoadsCache, Preparing, PastName
<1>2. "loop" \in LoadLabels \ {"check"} /\ task.at \in PastName
  BY <1>1 DEF LoadLabels, PastName
<1>3. /\ task'.at = "loop" /\ task'.name = task.name /\ task'.own = task.own
      /\ PlayTypes' /\ TaskShape' /\ ScreenOK' /\ AskedOK' /\ FileOK'
  BY <1>1, <1>2, OneStep DEF PlayTypes
<1>4. Service'
  BY <1>1, SameService DEF Service, TypeOK, DiskOK
<1>5. ASSUME ~disturbed' PROVE ~disturbed
  BY <1>5, Calm DEF PlayTypes
<1>6. InCache' = InCache /\ gTorrents' = gTorrents /\ paused' = paused
  BY <1>1, SameCache
<1>7. ~LoadsCache' /\ KeptOK'
  BY <1>3 DEF LoadsCache, Preparing, KeptOK
<1>8. CacheOK'
  BY <1>1, <1>2, <1>3, <1>5, <1>6, <1>7 DEF CacheOK
<1>9. touched \subseteq touched'
  BY Calm DEF PlayTypes
<1>10. PrepOK'
  BY <1>1, <1>3, <1>6, <1>9 DEF PrepOK
<1>11. MovingOK'
  BY <1>1, MovingWatched DEF WatchingNow, PlayTypes
<1> QED BY <1>3, <1>4, <1>7, <1>8, <1>10, <1>11

LEMMA TaskNext ==
    ASSUME PlayInv, TaskStep, Remember
    PROVE  PlayInv'
BY StartStep, CheckStep, ForgetStep, AddStep, NameStep, ChooseStep, StateStep, ResumeStep, LoadStep,
   DropStep, SaveStep DEF TaskStep

-----------------------------------------------------------------------------
(* The other steps of the application.                                      *)

\* The session, the cache and what is remembered of it stay.
LEMMA RestKept ==
    ASSUME PlayInv, Remember, work' = work, torrentFile' = torrentFile,
           lastContent' = lastContent, InCache' \subseteq InCache,
           \/ task'.at = task.at /\ task'.place = task.place /\ task'.name = task.name
           \/ task'.at = "none" /\ ~LoadsCache
    PROVE  CacheOK' /\ KeptOK' /\ MovingOK'
<1> USE DEF PlayInv
<1>1. MovingOK'
  BY MovingKept DEF PlayTypes
<1>2. ASSUME ~disturbed' PROVE ~disturbed /\ (LoadsCache => watchFile' = watchFile)
  BY <1>2, Calm DEF PlayTypes
<1>3. CASE task'.at = "none" /\ ~LoadsCache
  <2>1. ~LoadsCache' /\ KeptOK'
    BY <1>3 DEF LoadsCache, Preparing, KeptOK
  <2>2. CacheOK'
    BY <1>2, <1>3, <2>1 DEF CacheOK
  <2> QED BY <1>1, <2>1, <2>2
<1>4. CASE task'.at = task.at /\ task'.place = task.place /\ task'.name = task.name
  <2>1. LoadsCache' <=> LoadsCache
    BY <1>4 DEF LoadsCache, Preparing
  <2>2. CacheOK'
    BY <1>2, <1>4, <2>1 DEF CacheOK
  <2>3. task.at = "add" => LoadsCache
    BY DEF TaskShape, LoadsCache, Preparing
  <2>4. KeptOK'
    BY <1>2, <1>4, <2>3 DEF KeptOK
  <2> QED BY <1>1, <2>2, <2>4
<1> QED BY <1>3, <1>4

LEMMA EndKept ==
    ASSUME PlayInv, Remember, task.at \in {"fetch", "loop"}, task' = NoTask, UNCHANGED vars
    PROVE  Service' /\ CacheOK' /\ KeptOK' /\ MovingOK'
<1>1. task'.at = "none" /\ ~LoadsCache
  BY NewTasks DEF LoadsCache, Preparing
<1>2. /\ work' = work /\ torrentFile' = torrentFile /\ lastContent' = lastContent
      /\ InCache' \subseteq InCache
  BY SameCache DEF vars, disk, cache
<1>3. Service'
  BY SameService DEF PlayInv, vars, cache, Service, TypeOK, DiskOK
<1> QED BY <1>1, <1>2, <1>3, RestKept

\* A player opens, and its LOAD waits.
LEMMA Opens ==
    ASSUME PlayInv, Remember, NEW place \in Places, NEW c \in Names, OpenPlayer(place, c),
           task' \in {task, NoTask}, ~task'.own, watchFile' \in Names, lastTorrent' \in Names,
           plays' \in 0 .. MaxPlays,
           place = CacheDir => lastTorrent' = c /\ watchFile' \in {NoName, c}
    PROVE  PlayTypes' /\ TaskShape' /\ ScreenOK' /\ AskedOK' /\ FileOK' /\ PrepOK'
<1> USE DEF PlayInv
<1>1. /\ waiting' \in Tasks /\ waiting'.place = place /\ waiting'.asked = c /\ waiting'.own
      /\ waiting'.at = IF place = CacheDir THEN "check" ELSE "name"
  BY NewTasks DEF OpenPlayer
<1>2. /\ screen' \in Screens /\ screen'.open /\ screen'.place = place /\ screen'.asked = c
      /\ screen'.name = NoName
  BY NewPlayers DEF OpenPlayer
<1>3. PlayTypes'
  BY <1>1, <1>2, NewTasks, HistoryTypes DEF PlayTypes
<1>4. TaskShape'
  BY <1>1, NewTasks DEF TaskShape, PastName
<1>5. ScreenOK'
  BY <1>1, <1>2 DEF ScreenOK, Began
<1>6. AskedOK'
  BY <1>1, <1>2 DEF AskedOK
<1>7. ASSUME ~disturbed' PROVE ~disturbed /\ (LoadsCache => watchFile' = watchFile)
  BY <1>7, Calm DEF PlayTypes
<1>8. FileOK'
  <2>1. CASE task' = task
    <3>1. task.at \in {"check", "forget", "add", "name"} /\ task.place = CacheDir => LoadsCache
      BY DEF LoadsCache, Preparing
    <3> QED BY <1>1, <1>2, <1>7, <2>1, <3>1 DEF FileOK
  <2>2. CASE task' = NoTask
    BY <1>1, <1>2, <1>7, <2>2, NewTasks DEF FileOK, PastName
  <2> QED BY <2>1, <2>2
<1>9. PrepOK'
  BY DEF PrepOK
<1> QED BY <1>3, <1>4, <1>5, <1>6, <1>8, <1>9

LEMMA FetchKept ==
    ASSUME PlayInv, Remember, task.at = "fetch", task' = NoTask,
           UNCHANGED <<vars, lastTorrent, plays>>, watchFile' \in {watchFile, task.asked, NoName},
           \/ UNCHANGED <<screen, waiting>>
           \/ /\ task.own /\ OpenPlayer(CacheDir, task.asked)
              /\ watchFile' \in {NoName, task.asked}
    PROVE  PlayInv'
<1> USE DEF PlayInv
<1>1. Service' /\ CacheOK' /\ KeptOK' /\ MovingOK'
  BY EndKept
<1>2. task.asked \in Names /\ watchFile' \in Names
  <2>1. task \in Tasks /\ watchFile \in Names /\ NoName \in Names
    BY PlaceTypes DEF PlayTypes
  <2>2. task.asked \in Names
    BY <2>1, TaskFields
  <2> QED BY <2>1, <2>2
<1>3. CASE UNCHANGED <<screen, waiting>>
  BY <1>1, <1>2, <1>3, TaskEnds
<1>4. CASE task.own /\ OpenPlayer(CacheDir, task.asked) /\ watchFile' \in {NoName, task.asked}
  <2>1. lastTorrent' = task.asked /\ lastTorrent' \in Names /\ plays' \in 0 .. MaxPlays
    BY <1>2, <1>4 DEF AskedOK, PlayTypes
  <2>2. CacheDir \in Places /\ ~task'.own
    BY PlaceTypes, NewTasks
  <2>3. PlayTypes' /\ TaskShape' /\ ScreenOK' /\ AskedOK' /\ FileOK' /\ PrepOK'
    BY <1>2, <1>4, <2>1, <2>2, Opens
  <2> QED BY <1>1, <2>3
<1> QED BY <1>3, <1>4

LEMMA FetchStep ==
    ASSUME PlayInv, FetchEnds, Remember
    PROVE  PlayInv'
BY FetchKept DEF FetchEnds, FetchFails, Fetched, WrittenFile

LEMMA LoopStep ==
    ASSUME PlayInv, EndLoop, Remember
    PROVE  PlayInv'
<1> USE DEF PlayInv
<1>1. /\ task.at = "loop" /\ task' = NoTask /\ UNCHANGED <<vars, prefs, screen, waiting, plays>>
  BY DEF EndLoop
<1>2. Service' /\ CacheOK' /\ KeptOK' /\ MovingOK'
  <2>1. task.at \in {"fetch", "loop"} /\ task' = NoTask /\ UNCHANGED vars
    BY <1>1
  <2> QED BY <2>1, EndKept
<1>3. watchFile' \in Names /\ lastTorrent' = lastTorrent
  BY <1>1 DEF prefs, PlayTypes
<1>4. PlayTypes' /\ TaskShape' /\ ScreenOK' /\ AskedOK' /\ FileOK' /\ PrepOK'
  BY <1>1, <1>3, TaskEnds
<1> QED BY <1>2, <1>4

\* The player stays, and the session keeps what it had.
LEMMA PlayerKept ==
    ASSUME PlayInv, Remember, UNCHANGED <<player, plays, lastTorrent>>,
           watchFile' \in {watchFile, NoName}
    PROVE  PlayTypes' /\ TaskShape' /\ ScreenOK' /\ AskedOK' /\ FileOK' /\ PrepOK'
<1> USE DEF PlayInv
<1>1. screen' = screen /\ waiting' = waiting /\ task' = task
  BY DEF player
<1>2. PlayTypes'
  BY <1>1, PlaceTypes, HistoryTypes DEF PlayTypes
<1>3. TaskShape' /\ ScreenOK' /\ AskedOK'
  BY <1>1 DEF TaskShape, ScreenOK, AskedOK, Began
<1>4. ASSUME ~disturbed' PROVE ~disturbed
  BY <1>4, Calm DEF PlayTypes
<1>5. FileOK'
  BY <1>1, <1>4 DEF FileOK
<1>6. ASSUME task.at \in PastName, task.own, Changed(task.name)
      PROVE  task.name \in touched'
  <2>1. task.name \in Contents
    BY <1>6 DEF TaskShape
  <2>2. task.name \in Touched
    BY <1>6, <2>1, PlaceTypes DEF Touched
  <2> QED BY <2>2 DEF Remember
<1>7. touched \subseteq touched'
  BY Calm DEF PlayTypes
<1>8. ASSUME task.at \in PastName, task.own, ~Changed(task.name)
      PROVE  /\ task.name \in gTorrents => task.name \in gTorrents'
             /\ task.name \notin paused => task.name \notin paused'
  BY <1>8 DEF Changed, gTorrents
<1>9. PrepOK'
  <2>1. task.at \in {"state", "resume", "load", "save", "loop"} => task.at \in PastName
    BY DEF PastName
  <2> QED BY <1>1, <1>6, <1>7, <1>8, <2>1 DEF PrepOK
<1> QED BY <1>2, <1>3, <1>5, <1>9

LEMMA AllocateStep ==
    ASSUME PlayInv, NEW c \in Contents, Allocate(c), Remember
    PROVE  PlayInv'
<1> USE DEF PlayInv
<1>1. /\ cached' = cached \cup {c}
      /\ UNCHANGED <<session, disk, lastContent, queue, work, user, prefs, player, plays>>
  BY DEF Allocate
<1>2. Service'
  BY <1>1, SameService DEF Service, TypeOK, DiskOK
<1>3. CacheOK' /\ KeptOK' /\ MovingOK'
  BY <1>1, RestKept, SameCache DEF disk, player
<1>4. PlayTypes' /\ TaskShape' /\ ScreenOK' /\ AskedOK' /\ FileOK' /\ PrepOK'
  BY <1>1, PlayerKept DEF prefs
<1> QED BY <1>2, <1>3, <1>4

-----------------------------------------------------------------------------
(* The steps of the user.                                                   *)

\* While the catalogue is in front nothing is wanted of the tasks.
LEMMA FreeIdle ==
    ASSUME PlayInv, Free
    PROVE  waiting = NoTask /\ ~task.own /\ ~screen.open
<1> USE DEF PlayInv
<1>1. ~screen.open /\ waiting.at # "fetch" /\ ~(task.at = "fetch" /\ task.own)
  BY DEF Free, Fetching
<1>2. waiting.at \notin {"check", "name"}
  BY <1>1 DEF ScreenOK, Began
<1>3. waiting = NoTask
  BY <1>1, <1>2 DEF TaskShape
<1>4. ~task.own
  BY <1>1 DEF ScreenOK, Began
<1> QED BY <1>1, <1>3, <1>4

\* What pressing "watch" leaves alone.
LEMMA WatchKept ==
    ASSUME PlayInv, Remember, UNCHANGED <<session, disk, lastContent, queue, work, user, task>>,
           cached' \subseteq Contents
    PROVE  Service' /\ CacheOK' /\ KeptOK' /\ MovingOK'
<1> USE DEF PlayInv
<1>1. Service'
  BY SameService DEF Service, TypeOK, DiskOK
<1>2. CacheOK' /\ KeptOK' /\ MovingOK'
  BY RestKept, SameCache DEF disk
<1> QED BY <1>1, <1>2

LEMMA WatchNowStep ==
    ASSUME PlayInv, NEW c \in Contents, WatchNow(c), Remember
    PROVE  PlayInv'
<1> USE DEF PlayInv
<1>1. /\ Free /\ plays < MaxPlays /\ plays' = plays + 1
      /\ UNCHANGED <<session, disk, lastContent, queue, work, user, task>>
      /\ lastTorrent' = c /\ watchFile' \in {watchFile, NoName}
      /\ waiting' = FetchTask(c) /\ screen' = screen
  BY DEF WatchNow, Watch
<1>2. cached' \subseteq Contents
  BY DEF WatchNow, Watch, Service, TypeOK, DiskOK
<1>3. Service' /\ CacheOK' /\ KeptOK' /\ MovingOK'
  BY <1>1, <1>2, WatchKept
<1>4. c \in Names /\ watchFile' \in Names /\ plays' \in 0 .. MaxPlays
  BY <1>1, PlaceTypes, PlayAssumption DEF PlayTypes
<1>5. /\ waiting' \in Tasks /\ waiting'.at = "fetch" /\ waiting'.place = CacheDir
      /\ waiting'.asked = c /\ waiting'.own
  BY <1>1, <1>4, NewTasks
<1>6. ~task.own /\ ~screen.open /\ task' = task
  BY <1>1, FreeIdle
<1>7. PlayTypes'
  BY <1>1, <1>4, <1>5, HistoryTypes DEF PlayTypes
<1>8. TaskShape' /\ ScreenOK' /\ AskedOK' /\ PrepOK'
  BY <1>1, <1>5, <1>6 DEF TaskShape, ScreenOK, AskedOK, PrepOK
<1>9. ASSUME ~disturbed' PROVE ~disturbed
  BY <1>9, Calm DEF PlayTypes
<1>10. FileOK'
  BY <1>1, <1>5, <1>6, <1>9 DEF FileOK
<1> QED BY <1>3, <1>7, <1>8, <1>10

LEMMA WatchFileStep ==
    ASSUME PlayInv, NEW c \in Contents, WatchFile(c), Remember
    PROVE  PlayInv'
<1> USE DEF PlayInv
<1>1. /\ Free /\ plays < MaxPlays /\ plays' = plays + 1
      /\ UNCHANGED <<session, disk, lastContent, queue, work, user, task>>
      /\ lastTorrent' = c /\ watchFile' = c /\ OpenPlayer(CacheDir, c)
  BY DEF WatchFile, Watch
<1>2. cached' \subseteq Contents
  BY DEF WatchFile, Watch, Service, TypeOK, DiskOK
<1>3. Service' /\ CacheOK' /\ KeptOK' /\ MovingOK'
  BY <1>1, <1>2, WatchKept
<1>4. c \in Names /\ CacheDir \in Places /\ plays' \in 0 .. MaxPlays
  BY <1>1, PlaceTypes, PlayAssumption DEF PlayTypes
<1>5. ~task'.own /\ task' \in {task, NoTask}
  BY <1>1, FreeIdle
<1>6. PlayTypes' /\ TaskShape' /\ ScreenOK' /\ AskedOK' /\ FileOK' /\ PrepOK'
  BY <1>1, <1>4, <1>5, Opens
<1> QED BY <1>3, <1>6

LEMMA NoSpaceStep ==
    ASSUME PlayInv, NEW c \in Contents, NoSpace(c), Remember
    PROVE  PlayInv'
<1> USE DEF PlayInv
<1>1. /\ Free /\ plays < MaxPlays /\ plays' = plays + 1
      /\ UNCHANGED <<session, disk, lastContent, queue, work, user, task, screen, waiting>>
      /\ cached' = {} /\ lastTorrent' = NoName /\ watchFile' = NoName
  BY DEF NoSpace, player
<1>2. Service' /\ CacheOK' /\ KeptOK' /\ MovingOK'
  BY <1>1, WatchKept
<1>3. NoName \in Names /\ plays' \in 0 .. MaxPlays
  BY <1>1, PlaceTypes, PlayAssumption DEF PlayTypes
<1>4. waiting.at = "none" /\ ~task.own /\ ~screen.open
  BY <1>1, FreeIdle, NewTasks
<1>5. PlayTypes'
  BY <1>1, <1>3, HistoryTypes DEF PlayTypes
<1>6. TaskShape' /\ ScreenOK' /\ AskedOK' /\ PrepOK'
  BY <1>1, <1>4 DEF TaskShape, ScreenOK, AskedOK, PrepOK
<1>7. ASSUME ~disturbed' PROVE ~disturbed
  BY <1>7, Calm DEF PlayTypes
<1>8. FileOK'
  BY <1>1, <1>4, <1>7 DEF FileOK
<1> QED BY <1>2, <1>5, <1>6, <1>8

LEMMA WatchDownloadStep ==
    ASSUME PlayInv, NEW d \in Downloads, WatchDownload(d), Remember
    PROVE  PlayInv'
<1> USE DEF PlayInv
<1>1. /\ Free /\ plays < MaxPlays /\ plays' = plays + 1
      /\ UNCHANGED <<vars, prefs, task>> /\ OpenPlayer(d, ContentOf[d])
  BY DEF WatchDownload
<1>2. Service' /\ CacheOK' /\ KeptOK' /\ MovingOK'
  <2>1. cached' \subseteq Contents
    BY <1>1 DEF vars, cache, Service, TypeOK, DiskOK
  <2> QED BY <1>1, <2>1, WatchKept DEF vars, cache
<1>3. d \in Places /\ d # CacheDir /\ ContentOf[d] \in Names /\ plays' \in 0 .. MaxPlays
  BY <1>1, PlaceTypes, PlayAssumption DEF PlayTypes
<1>4. ~task'.own /\ task' \in {task, NoTask}
  BY <1>1, FreeIdle
<1>5. watchFile' \in Names /\ lastTorrent' \in Names
  BY <1>1 DEF prefs, PlayTypes
<1>6. PlayTypes' /\ TaskShape' /\ ScreenOK' /\ AskedOK' /\ FileOK' /\ PrepOK'
  BY <1>1, <1>3, <1>4, <1>5, Opens
<1> QED BY <1>2, <1>6

\* What was wanted of the tasks is not any more; one that runs goes on.
LEMMA Revokes ==
    ASSUME PlayInv, Remember, task' = [task EXCEPT !.own = FALSE], waiting' = NoTask,
           screen' \in {screen, Closed}, UNCHANGED <<prefs, plays, lastContent, work, torrentFile>>,
           InCache' \subseteq InCache
    PROVE  /\ PlayTypes' /\ TaskShape' /\ ScreenOK' /\ AskedOK' /\ FileOK' /\ PrepOK'
           /\ CacheOK' /\ KeptOK' /\ MovingOK'
<1> USE DEF PlayInv
<1>1. /\ task' \in Tasks /\ ~task'.own /\ task'.at = task.at /\ task'.place = task.place
      /\ task'.asked = task.asked /\ task'.name = task.name
  BY TaskFields DEF PlayTypes
<1>2. waiting' \in Tasks /\ waiting'.at = "none"
  BY NewTasks
<1>3. screen' \in Screens /\ (screen'.open => screen' = screen)
  BY NewPlayers DEF PlayTypes
<1>4. watchFile' = watchFile /\ lastTorrent' = lastTorrent
  BY DEF prefs
<1>5. PlayTypes'
  BY <1>1, <1>2, <1>3, HistoryTypes DEF PlayTypes, prefs
<1>6. TaskShape'
  BY <1>1, <1>2 DEF TaskShape
<1>7. ScreenOK' /\ PrepOK'
  BY <1>1, <1>2 DEF ScreenOK, PrepOK
<1>8. AskedOK'
  BY <1>1, <1>2, <1>3, <1>4 DEF AskedOK
<1>9. ASSUME ~disturbed' PROVE ~disturbed
  BY <1>9, Calm DEF PlayTypes
<1>10. FileOK'
  BY <1>1, <1>2, <1>3, <1>4, <1>9 DEF FileOK
<1>11. CacheOK' /\ KeptOK' /\ MovingOK'
  BY <1>1, RestKept
<1> QED BY <1>5, <1>6, <1>7, <1>8, <1>10, <1>11

LEMMA BreakStep ==
    ASSUME PlayInv, BreakPrepare, Remember
    PROVE  PlayInv'
<1> USE DEF PlayInv
<1>1. /\ task' = [task EXCEPT !.own = FALSE] /\ waiting' = NoTask
      /\ UNCHANGED <<vars, prefs, screen, plays>>
  BY DEF BreakPrepare
<1>2. Service'
  BY <1>1, SameService DEF vars, cache, Service, TypeOK, DiskOK
<1> QED BY <1>1, <1>2, Revokes, SameCache DEF vars, disk, cache

LEMMA DestroyStep ==
    ASSUME PlayInv, DestroyTorrent, Remember
    PROVE  PlayInv'
<1> USE DEF PlayInv
<1>1. /\ task' = [task EXCEPT !.own = FALSE] /\ waiting' = NoTask /\ screen' = Closed
      /\ UNCHANGED <<disk, cache, queue, work, user, prefs, plays>> /\ StopWatched
  BY DEF DestroyTorrent, CancelLoad
<1>2. SessionOK' /\ InCache' = InCache
  <2>1. CASE PauseTorrent(screen.name)
    BY <2>1, PauseType DEF Service, TypeOK, PauseTorrent, InCache
  <2>2. CASE UNCHANGED session
    BY <2>2, Unchanged, SameCache DEF Service, TypeOK
  <2> QED BY <1>1, <2>1, <2>2 DEF StopWatched
<1>3. Service'
  BY <1>1, <1>2, ServiceKept DEF cache, Service, TypeOK, DiskOK
<1> QED BY <1>1, <1>2, <1>3, Revokes DEF disk, cache

LEMMA UserNext ==
    ASSUME PlayInv, UserWatches, Remember
    PROVE  PlayInv'
BY WatchNowStep, WatchFileStep, NoSpaceStep, WatchDownloadStep, BreakStep, DestroyStep DEF UserWatches

-----------------------------------------------------------------------------
(* The download manager.                                                    *)

\* The places where the manager adds torrents are not the cache.
LEMMA RowPlaces ==
    ASSUME TypeOK, NEW d \in Downloads, RowStep(d)
    PROVE  InCache' \subseteq InCache
<1> USE DEF TypeOK
<1>1. CASE InitRow(d) \/ AddTorrentOf(d)
  <2>1. AddTorrent(d, NameOf(d)) \/ savePath' = savePath
    BY <1>1 DEF InitRow, AddTorrentOf, session
  <2>2. d # CacheDir
    BY PlaceTypes
  <2>3. CASE AddTorrent(d, NameOf(d))
    BY <2>2, <2>3, CacheAdd
  <2>4. CASE savePath' = savePath
    BY <2>4 DEF InCache
  <2> QED BY <2>1, <2>3, <2>4
<1>2. CASE RemoveLast(d) \/ Remove(d) \/ RemoveEach(d)
  <2>1. RemoveTorrent(NameOf(d))
    BY <1>2 DEF RemoveLast, Remove, RemoveFirst, RemoveEach
  <2> QED BY <2>1, CacheRemove
<1>3. CASE Pause(d) \/ Resume(d) \/ PauseRow(d) \/ ResumeRow(d) \/ InitName(d)
  BY <1>3, SamePlace DEF InCache
<1>4. CASE \/ NextRow(d) \/ DeleteDirectory(d) \/ AddInsert(d) \/ CheckLast(d) \/ MoveLast(d)
           \/ ForgetLast(d) \/ DeleteRow(d)
  BY <1>4 DEF NextRow, DeleteDirectory, AddInsert, CheckLast, MoveLast, ForgetLast, DeleteRow,
              session, InCache
<1> QED BY <1>1, <1>2, <1>3, <1>4 DEF RowStep

LEMMA ManagerPlaces ==
    ASSUME TypeOK, Manager
    PROVE  InCache' \subseteq InCache
<1> USE DEF TypeOK
<1>1. CASE WorkerStep
  <2>1. CASE OnHandleIntent \/ NoMoreRows \/ DeleteRows \/ ClearDownloads
    BY <2>1 DEF OnHandleIntent, NoMoreRows, DeleteRows, ClearDownloads, session, InCache
  <2> QED BY <1>1, <2>1, RowPlaces DEF WorkerStep
<1>2. ASSUME NEW d \in Downloads, Network(d) PROVE InCache' \subseteq InCache
  BY <1>2 DEF Network, CopyFails, LoadFails, Fetch, session, InCache
<1>3. CASE User \/ Launch
  BY <1>3 DEF User, RequestRow, RequestAll, Request, HandleDownload, Launch, session, InCache
<1>4. CASE Exit
  <2>1. CASE ClearOnExit
    BY <2>1, CacheRemove DEF ClearOnExit
  <2>2. CASE UNCHANGED <<session, cache>>
    BY <2>2, SameCache
  <2> QED BY <1>4, <2>1, <2>2 DEF Exit
<1> QED BY <1>1, <1>2, <1>3, <1>4 DEF Manager

\* The manager forgets the video last watched in two places.
LEMMA ManagerMemory ==
    ASSUME Manager
    PROVE  \/ lastContent' = lastContent
           \/ \E d \in Downloads : ForgetLast(d)
           \/ Exit /\ ClearOnExit
<1>1. ASSUME NEW d \in Downloads, RowStep(d), ~ForgetLast(d) PROVE lastContent' = lastContent
  BY <1>1 DEF RowStep, NextRow, InitRow, InitName, DeleteDirectory, AddInsert, CheckLast, RemoveLast,
         MoveLast, AddTorrentOf, Remove, DeleteRow, RemoveEach, Pause, Resume,
         PauseRow, ResumeRow, RowChanges, cache
<1>2. CASE OnHandleIntent \/ NoMoreRows \/ DeleteRows \/ ClearDownloads
  BY <1>2 DEF OnHandleIntent, NoMoreRows, DeleteRows, ClearDownloads, cache
<1>3. ASSUME NEW d \in Downloads, Network(d) PROVE lastContent' = lastContent
  BY <1>3 DEF Network, CopyFails, LoadFails, Fetch, cache
<1>4. CASE User \/ Launch
  BY <1>4 DEF User, RequestRow, RequestAll, Request, HandleDownload, Launch, cache
<1>5. CASE Exit
  BY <1>5 DEF Exit, cache
<1> QED BY <1>1, <1>2, <1>3, <1>4, <1>5 DEF Manager, WorkerStep

\* The manager forgets the video under a "watch now": a disturbance, or there
\* is nothing of it left in the cache.
LEMMA ManagerCache ==
    ASSUME PlayInv, Manager, Remember
    PROVE  CacheOK' /\ KeptOK'
<1> USE DEF PlayInv
<1>1. InCache' \subseteq InCache
  BY ManagerPlaces DEF Service
<1>2. /\ task' = task /\ (LoadsCache' <=> LoadsCache)
  BY DEF Manager, player, LoadsCache, Preparing
<1>3. ASSUME ~disturbed'
      PROVE  ~disturbed /\ ~(Moving /\ WatchingNow) /\ (LoadsCache => watchFile' = watchFile)
  BY <1>3, Calm DEF PlayTypes
<1>4. task.at = "add" => LoadsCache
  BY DEF TaskShape, LoadsCache, Preparing
<1>5. CASE lastContent' = lastContent
  <2>1. CacheOK'
    BY <1>1, <1>2, <1>3, <1>5 DEF CacheOK
  <2>2. KeptOK'
    BY <1>2, <1>3, <1>4, <1>5 DEF KeptOK
  <2> QED BY <2>1, <2>2
<1>6. ASSUME NEW d \in Downloads, ForgetLast(d) PROVE CacheOK' /\ KeptOK'
  <2>1. work.at = "forgetLast" /\ Moving /\ lastContent' = NoName
    BY <1>6 DEF ForgetLast, At, Moving
  <2>2. LoadsCache => WatchingNow
    BY DEF LoadsCache, Preparing, WatchingNow
  <2>3. ASSUME ~disturbed' PROVE ~LoadsCache /\ InCache' = {}
    BY <1>1, <1>3, <2>1, <2>2, <2>3 DEF MovingOK
  <2>4. CacheOK'
    BY <1>2, <2>3 DEF CacheOK
  <2>5. KeptOK'
    BY <2>1 DEF KeptOK
  <2> QED BY <2>4, <2>5
<1>7. CASE ClearOnExit
  <2>1. lastContent' = NoName /\ InCache' = InCache \ {lastContent}
    BY <1>7, CacheRemove DEF ClearOnExit, Service, TypeOK
  <2>2. CacheOK'
    BY <1>2, <1>3, <2>1 DEF CacheOK
  <2>3. KeptOK'
    BY <2>1 DEF KeptOK
  <2> QED BY <2>2, <2>3
<1> QED BY <1>5, <1>6, <1>7, ManagerMemory

\* Where the move of the video begins and where its steps lead.
LEMMA ManagerMoves ==
    ASSUME TypeOK, LabelsOK, Manager
    PROVE  \/ work' = work /\ (work.at # "fetch" => torrentFile' = torrentFile)
           \/ ~Moving'
           \/ \E d \in Downloads : CheckLast(d) \/ RemoveLast(d) \/ MoveLast(d)
<1> USE DEF TypeOK
<1>1. ASSUME NEW d \in Downloads, RowStep(d), ~CheckLast(d), ~RemoveLast(d), ~MoveLast(d)
      PROVE  ~Moving'
  <2>1. CASE AddInsert(d)
    BY <2>1, GotoWork DEF AddInsert, Moving
  <2>2. CASE ForgetLast(d)
    BY <2>2, GotoWork DEF ForgetLast, Moving
  <2>3. CASE NextRow(d) \/ Deleting(d) \/ Returning(d) \/ Toggling(d)
    BY <2>3, NextRowWork, DeletingWork, ReturningWork, TogglingWork DEF Moving, Idle
  <2> QED BY <1>1, <2>1, <2>2, <2>3, RowStepKinds DEF Added
<1>2. CASE OnHandleIntent
  BY <1>2, IntentWork DEF Moving, Intents, Loops, RowActions
<1>3. CASE NoMoreRows \/ DeleteRows \/ ClearDownloads
  BY <1>3, GotoWork DEF NoMoreRows, DeleteRows, ClearDownloads, Idle, Moving
<1>4. ASSUME NEW d \in Downloads, Network(d)
      PROVE  ~Moving' \/ (work' = work /\ work.at = "fetch")
  BY <1>4, NetworkWork DEF Moving, Idle, At
<1>5. CASE User \/ Launch \/ Exit
  BY <1>5 DEF User, RequestRow, RequestAll, Request, HandleDownload, Launch, Exit, disk
<1> QED BY <1>1, <1>2, <1>3, <1>4, <1>5 DEF Manager, WorkerStep

LEMMA ManagerMoving ==
    ASSUME PlayInv, Manager, Remember
    PROVE  MovingOK'
<1> USE DEF PlayInv
<1>1. InCache' \subseteq InCache /\ (WatchingNow' <=> WatchingNow)
  BY ManagerPlaces DEF Service, Manager, player, WatchingNow
<1>2. ASSUME NEW d \in Downloads, CheckLast(d) PROVE MovingOK'
  <2>1. \/ Goto("removeLast") /\ NameOf(d) = lastContent
        \/ Goto("addTorrent")
    BY <1>2 DEF CheckLast
  <2>2. work' = [work EXCEPT !.at = "removeLast"] \/ work' = [work EXCEPT !.at = "addTorrent"]
    BY <2>1 DEF Goto
  <2>3. work.row = d /\ lastContent' = lastContent /\ torrentFile' = torrentFile
    BY <1>2 DEF CheckLast, At, disk, cache
  <2>4. work'.row = d /\ work'.at \in {"removeLast", "addTorrent"}
        /\ (work'.at = "removeLast" => NameOf(d) = lastContent)
    BY <2>1, <2>3, GotoWork DEF Service, TypeOK
  <2>5. NameOf(work.row)' = NameOf(d)
    BY <2>3, <2>4 DEF NameOf
  <2> QED BY <2>3, <2>4, <2>5 DEF MovingOK
<1>3. ASSUME NEW d \in Downloads, RemoveLast(d) PROVE MovingOK'
  <2>1. work.at = "removeLast" /\ work.row = d /\ work'.at = "moveLast"
    BY <1>3, GotoWork DEF RemoveLast, At, Service, TypeOK
  <2>2. InCache' = InCache \ {NameOf(d)}
    BY <1>3, CacheRemove DEF RemoveLast, Service, TypeOK
  <2>3. ASSUME ~disturbed', ~WatchingNow' PROVE InCache' = {}
    <3>1. ~disturbed /\ ~WatchingNow
      BY <1>1, <2>3, Calm DEF PlayTypes
    <3>2. ~LoadsCache
      BY <3>1 DEF LoadsCache, Preparing, WatchingNow
    <3>3. InCache \subseteq {lastContent} /\ lastContent \in {NoName, NameOf(d)}
      BY <2>1, <3>1, <3>2 DEF CacheOK, MovingOK
    <3>4. NoName \notin InCache
      BY PlaceTypes DEF InCache
    <3> QED BY <2>2, <3>3, <3>4
  <2> QED BY <2>1, <2>3 DEF MovingOK
<1>4. ASSUME NEW d \in Downloads, MoveLast(d) PROVE MovingOK'
  <2>1. work.at = "moveLast" /\ work'.at = "forgetLast"
    BY <1>4, GotoWork DEF MoveLast, At, Service, TypeOK
  <2>2. ASSUME ~disturbed', ~WatchingNow' PROVE InCache' = {}
    BY <1>1, <2>1, <2>2, Calm DEF MovingOK, PlayTypes
  <2> QED BY <2>1, <2>2 DEF MovingOK
<1>5. CASE ~Moving'
  BY <1>5 DEF Moving, MovingOK
<1>6. CASE work' = work /\ torrentFile' = torrentFile
  <2>1. lastContent' \in {lastContent, NoName}
    BY ManagerMemory DEF ForgetLast, ClearOnExit
  <2> QED BY <1>1, <1>6, <2>1, MovingKept DEF PlayTypes
<1>7. CASE work' = work /\ work.at = "fetch"
  BY <1>7 DEF MovingOK
<1> QED BY <1>2, <1>3, <1>4, <1>5, <1>6, <1>7, ManagerMoves DEF Service

LEMMA ManagerStep ==
    ASSUME PlayInv, Manager, Remember
    PROVE  PlayInv'
<1> USE DEF PlayInv
<1>1. Next
  BY DEF Manager, Next, Application
<1>2. Service'
  BY <1>1, NextType, NextLabels DEF Service
<1>3. UNCHANGED <<player, plays, lastTorrent>> /\ watchFile' \in {watchFile, NoName}
  BY DEF Manager
<1>4. PlayTypes' /\ TaskShape' /\ ScreenOK' /\ AskedOK' /\ FileOK' /\ PrepOK'
  BY <1>3, PlayerKept
<1> QED BY <1>2, <1>4, ManagerCache, ManagerMoving

-----------------------------------------------------------------------------
(* The process begins and dies, and the whole.                              *)

LEMMA DieStep ==
    ASSUME PlayInv, Die(Crash) \/ Die(NullPriorities)
    PROVE  PlayInv'
<1> USE DEF PlayInv
<1>1. /\ screen' = Closed /\ waiting' = NoTask /\ task' = NoTask
      /\ cut' = {} /\ touched' = {} /\ disturbed' = FALSE
      /\ UNCHANGED <<prefs, plays>> /\ ProcessDies
      /\ Crash \/ UNCHANGED kills
  BY DEF Die, Crash, NullPriorities
<1>2. InCache' = {} /\ lastContent' = lastContent /\ work'.at = "idle"
  BY <1>1, PlaceTypes DEF ProcessDies, InCache, cache, Idle
<1>3. Service'
  <2>1. CASE Crash
    <3>1. Next
      BY <2>1 DEF Next, Application
    <3> QED BY <3>1, NextType, NextLabels DEF Service
  <2>2. CASE UNCHANGED kills
    <3>1. SessionOK'
      BY <1>1 DEF ProcessDies, SessionOK, gTorrents
    <3>2. DiskOK'
      BY <1>1 DEF ProcessDies, Service, TypeOK, DiskOK, disk, cache
    <3>3. UserOK'
      BY <1>1, <2>2 DEF ProcessDies, Service, TypeOK, UserOK
    <3>4. queue' \in Seq(Intents) /\ work' \in Works /\ LabelsOK'
      BY <1>1, IdleType, IdleLabels DEF ProcessDies
    <3> QED BY <3>1, <3>2, <3>3, <3>4 DEF Service, TypeOK
  <2> QED BY <1>1, <2>1, <2>2
<1>4. PlayTypes'
  BY <1>1, NewTasks, NewPlayers DEF PlayTypes, prefs
<1>5. TaskShape' /\ ScreenOK' /\ AskedOK' /\ FileOK'
  BY <1>1, NewTasks, NewPlayers DEF TaskShape, ScreenOK, AskedOK, FileOK, PastName
<1>6. CacheOK' /\ KeptOK' /\ MovingOK' /\ PrepOK'
  BY <1>1, <1>2, NewTasks DEF CacheOK, LoadsCache, Preparing, KeptOK, MovingOK, PrepOK
<1> QED BY <1>3, <1>4, <1>5, <1>6

LEMMA PlayInitInv == PlayInit => PlayInv
<1> SUFFICES ASSUME PlayInit PROVE PlayInv
  OBVIOUS
<1>1. /\ Init /\ watchFile \in {NoName, lastContent} /\ lastTorrent = lastContent
      /\ screen = Closed /\ waiting = NoTask /\ task = NoTask
      /\ plays = 0 /\ cut = {} /\ touched = {} /\ disturbed = FALSE
  BY DEF PlayInit
<1>2. Service
  BY <1>1, InitType, InitLabels DEF Service
<1>3. InCache = {} /\ work.at = "idle"
  BY <1>1, PlaceTypes DEF Init, SessionInit, InCache, Idle
<1>4. lastContent \in Names
  BY <1>2 DEF Service, TypeOK, DiskOK, Names
<1>5. PlayTypes
  <2>1. plays \in 0 .. MaxPlays
    BY <1>1, PlayAssumption
  <2>2. watchFile \in Names /\ lastTorrent \in Names
    BY <1>1, <1>4, PlaceTypes
  <2>3. screen \in Screens /\ task \in Tasks /\ waiting \in Tasks
    BY <1>1, NewTasks, NewPlayers
  <2> QED BY <1>1, <2>1, <2>2, <2>3 DEF PlayTypes
<1>6. TaskShape /\ ScreenOK /\ AskedOK /\ FileOK
  BY <1>1, NewTasks, NewPlayers DEF TaskShape, ScreenOK, AskedOK, FileOK, PastName
<1>7. CacheOK /\ KeptOK /\ MovingOK /\ PrepOK
  BY <1>1, <1>3, NewTasks DEF CacheOK, LoadsCache, Preparing, KeptOK, MovingOK, PrepOK
<1> QED BY <1>2, <1>5, <1>6, <1>7 DEF PlayInv

LEMMA PlayNextInv ==
    ASSUME PlayInv, [PlayNext]_playVars
    PROVE  PlayInv'
<1>1. CASE PlayNext
  BY <1>1, ManagerStep, TaskNext, FetchStep, LoopStep, UserNext, AllocateStep, DieStep DEF PlayNext
<1>2. CASE UNCHANGED playVars
  <2>1. /\ UNCHANGED vars /\ watchFile' = watchFile /\ lastTorrent' = lastTorrent
        /\ screen' = screen /\ waiting' = waiting /\ task' = task /\ plays' = plays
        /\ cut' = cut /\ touched' = touched /\ disturbed' = disturbed
    BY <1>2 DEF playVars, prefs, player, history
  <2>2. Service'
    BY <2>1, NextType, NextLabels DEF PlayInv, Service
  <2>3. /\ savePath' = savePath /\ paused' = paused /\ lastContent' = lastContent
        /\ work' = work /\ torrentFile' = torrentFile
    BY <2>1 DEF vars, session, disk, cache
  <2>4. PlayTypes' /\ TaskShape' /\ ScreenOK' /\ AskedOK' /\ FileOK'
    BY <2>1 DEF PlayInv, PlayTypes, TaskShape, ScreenOK, Began, AskedOK, FileOK
  <2>5. CacheOK' /\ KeptOK' /\ PrepOK'
    BY <2>1, <2>3 DEF PlayInv, CacheOK, InCache, LoadsCache, Preparing, KeptOK, PrepOK, gTorrents
  <2>6. MovingOK'
    BY <2>1, <2>3 DEF PlayInv, MovingOK, InCache, WatchingNow, NameOf
  <2> QED BY <2>2, <2>4, <2>5, <2>6 DEF PlayInv
<1> QED BY <1>1, <1>2

LEMMA PlayInvariant == PlaySpec => []PlayInv
<1>1. PlayInv /\ [PlayNext]_playVars => PlayInv'
  BY PlayNextInv
<1> QED BY <1>1, PlayInitInv, PTL DEF PlaySpec

(* Type correctness: the session, the preferences, the player and the tasks *)
(* keep their types whatever the player and the manager do to each other.   *)
THEOREM PlayTypeCorrect == PlaySpec => []PlayTypeOK
<1>1. PlayInv => PlayTypeOK
  BY DEF PlayInv, Service, TypeOK, PlayTypes, Screens, PlayTypeOK
<1> QED BY <1>1, PlayInvariant, PTL

(* For any abandoned fetches, exits and deaths, the player in front plays   *)
(* from the cache what the user asked for last (unless the torrent file was *)
(* replaced under its LOAD): a task that was left writes no name into it.   *)
THEOREM PlaysAskedHolds == PlaySpec => []PlaysAsked
<1>1. PlayInv => PlaysAsked
  BY DEF PlayInv, FileOK, AskedOK, PlaysAsked
<1> QED BY <1>1, PlayInvariant, PTL

(* A torrent saved in the cache is the one of LAST_CONTENT or a running     *)
(* LOAD is about to make it so: an exit or a later "watch now" removes it.  *)
THEOREM CacheIsRemembered == PlaySpec => []WatchedIsRemembered
<1>1. ASSUME PlayInv, ~disturbed, NEW c \in gTorrents, savePath[c] = CacheDir, ~LoadsCache
      PROVE  c = lastContent
  BY <1>1 DEF PlayInv, CacheOK, InCache, gTorrents
<1>2. PlayInv => WatchedIsRemembered
  BY <1>1 DEF WatchedIsRemembered, LoadsCache
<1> QED BY <1>2, PlayInvariant, PTL

(* A player that waits for its pieces waits for a torrent that is there and *)
(* not paused, unless the manager has paused or removed it meanwhile.       *)
THEOREM PreparedRuns == PlaySpec => []PreparationRuns
<1>1. PlayInv => PreparationRuns
  BY DEF PlayInv, PrepOK, PreparationRuns
<1> QED BY <1>1, PlayInvariant, PTL

-----------------------------------------------------------------------------
(* What a player has started stops with it.                                 *)

\* A player is going to pause the torrent of c when it is left.
Plays(c) ==
    \/ screen.open /\ screen.name = c /\ (screen.place = CacheDir \/ screen.wasPaused)
    \/ /\ task.own /\ task.at = "name" /\ task.place = CacheDir
       /\ c = watchFile /\ savePath[c] = CacheDir

Stops(c) == c \in paused \cup cut \/ Plays(c)

\* The exception is a "watch now" that was disturbed.
Quiet(c) == c \in gTorrents => Stops(c) \/ (disturbed /\ savePath[c] = CacheDir)

\* The row of d has not lost its torrent to a removal.
Covers(d) ==
    /\ d \in RowsOf /\ torrentFile[d] = "whole"
    /\ ~At("deleteRow", d)
    /\ work.action = "removeAll" => d \in work.rest \/ At("removeEach", d)

RowCovers(c) == \E d \in Downloads : ContentOf[d] = c /\ Covers(d)

\* What is in the cache runs only for a player, or by a request for a row.
CacheQuiet == \A c \in Contents : savePath[c] = CacheDir => Quiet(c) \/ RowCovers(c)

\* A row that is paused runs only for a player.
RowsQuiet ==
    \A d \in Downloads :
        Settled(d) /\ d \notin doubted /\ Alone(d) /\ table[d] = PAUSED
            => Quiet(ContentOf[d]) \/ At("resumeRow", d)

PauseFirst ==
    Reconciled /\ work.at = "pauseRow" /\ work.row \in RowsOf /\ Alone(work.row)
        => Quiet(ContentOf[work.row])

\* What the fields of the player say while its LOAD goes on.
PlayerShape ==
    task.own =>
        /\ task.at \in {"check", "forget", "add", "name"} => screen.name = NoName
        /\ task.at \in {"files", "state"} => ~screen.wasPaused
        /\ task.at = "resume" => screen.wasPaused

CutOK == Preparing(task) /\ ~task.own => {task.asked, task.name} \ {NoName} \subseteq cut

StopInv ==
    /\ PlayInv /\ TableRows /\ PlayerShape /\ CutOK
    /\ CacheQuiet /\ RowsQuiet /\ PauseFirst

\* What a step of the player does to the torrent of c.
StaysQuiet(c) ==
    /\ Quiet(c) => Quiet(c)'
    /\ savePath'[c] = CacheDir => savePath[c] \in {CacheDir, Nowhere}

LEMMA RemoveQuiet ==
    ASSUME SessionOK, NEW name, RemoveTorrent(name), NEW c \in Contents
    PROVE  /\ savePath'[c] \in {savePath[c], Nowhere}
           /\ c \in paused /\ c \in gTorrents' => c \in paused'
BY DEF RemoveTorrent, session, SessionOK, gTorrents

\* A torrent that goes on where it was needs a player as long as it had one.
LEMMA QuietKept ==
    ASSUME Remember, disturbed \in BOOLEAN, NEW c \in Contents, Quiet(c),
           savePath'[c] \in {savePath[c], Nowhere},
           c \in paused /\ c \in gTorrents' => c \in paused' \/ Stops(c)',
           Plays(c) /\ c \in gTorrents' => Stops(c)' \/ (disturbed' /\ savePath'[c] = CacheDir)
    PROVE  Quiet(c)'
<1> SUFFICES ASSUME c \in gTorrents' PROVE Stops(c)' \/ (disturbed' /\ savePath'[c] = CacheDir)
  BY DEF Quiet
<1>1. savePath'[c] = savePath[c] /\ c \in gTorrents
  BY DEF gTorrents
<1>2. Stops(c) \/ (disturbed /\ savePath[c] = CacheDir)
  BY <1>1 DEF Quiet
<1>3. cut \subseteq cut' /\ (disturbed => disturbed')
  BY DEF Remember
<1> QED BY <1>1, <1>2, <1>3 DEF Stops

\* A LOAD that does not read the name of its content leaves its player alone.
LEMMA PlaysKept ==
    ASSUME NEW c, Plays(c), ~(task.own /\ task.at = "name"), screen' = screen \/ ~screen.open
    PROVE  Plays(c)'
BY DEF Plays

LEMMA RemainsQuiet ==
    ASSUME Remember, disturbed \in BOOLEAN, NEW c \in Contents,
           ~(task.own /\ task.at = "name"), screen' = screen \/ ~screen.open,
           savePath'[c] \in {savePath[c], Nowhere},
           c \in paused /\ c \in gTorrents' => c \in paused'
    PROVE  StaysQuiet(c)
<1>1. Quiet(c) => Quiet(c)'
  BY PlaysKept, QuietKept DEF Stops
<1> QED BY <1>1, PlaceTypes DEF StaysQuiet

\* The same of a step that leaves the session alone.
LEMMA SameQuiet ==
    ASSUME PlayInv, Remember, UNCHANGED session, ~(task.own /\ task.at = "name"),
           screen' = screen \/ ~screen.open
    PROVE  \A c \in Contents : StaysQuiet(c)
<1>1. UNCHANGED <<savePath, paused>> /\ disturbed \in BOOLEAN
  BY DEF session, PlayInv, PlayTypes
<1> QED BY <1>1, RemainsQuiet

LEMMA CutStep ==
    ASSUME Remember
    PROVE  CutOK'
BY DEF Remember, CutOK

-----------------------------------------------------------------------------
(* The steps of the player.                                                 *)

LEMMA FreeQuiet ==
    ASSUME PlayInv, Free \/ Fetching
    PROVE  ~(task.own /\ task.at = "name")
<1>1. ScreenOK
  BY DEF PlayInv
<1> QED BY <1>1, FreeIdle, NewTasks DEF ScreenOK, Fetching

LEMMA WatchQuiet ==
    ASSUME PlayInv, UserWatches, ~DestroyTorrent, Remember, NEW c \in Contents
    PROVE  StaysQuiet(c)
<1>1. UNCHANGED session /\ (Free \/ Fetching)
  BY DEF UserWatches, WatchNow, WatchFile, NoSpace, WatchDownload, BreakPrepare, DestroyTorrent,
         Watch, vars
<1>2. screen' = screen \/ ~screen.open
  BY FreeIdle
     DEF UserWatches, WatchNow, WatchFile, NoSpace, WatchDownload, BreakPrepare, Watch, player
<1> QED BY <1>1, <1>2, FreeQuiet, SameQuiet

\* A player that is left before the content has its name leaves it to the LOAD.
LEMMA DestroyQuiet ==
    ASSUME PlayInv, DestroyTorrent, Remember, NEW c \in Contents
    PROVE  StaysQuiet(c)
<1> USE DEF PlayInv
<1>1. /\ task' = [task EXCEPT !.own = FALSE] /\ watchFile' = watchFile
      /\ savePath' = savePath /\ paused \subseteq paused'
  BY DEF DestroyTorrent, CancelLoad, StopWatched, PauseTorrent, session, prefs
<1>2. /\ ~task'.own /\ task'.at = task.at /\ task'.place = task.place /\ task'.asked = task.asked
  BY <1>1, TaskFields DEF PlayTypes
<1>3. gTorrents' = gTorrents /\ c # NoName
  BY <1>1, PlaceTypes DEF gTorrents
<1>4. ASSUME screen.name = c, screen.place = CacheDir \/ screen.wasPaused, c \in gTorrents
      PROVE  c \in paused'
  BY <1>3, <1>4 DEF DestroyTorrent, StopWatched, PauseTorrent
<1>5. ASSUME task.at = "name", task.place = CacheDir, c = watchFile, savePath[c] = CacheDir
      PROVE  c \in cut' \/ (disturbed' /\ savePath'[c] = CacheDir)
  <2>1. CASE disturbed
    BY <1>1, <1>5, <2>1 DEF Remember
  <2>2. CASE ~disturbed
    <3>1. c = task'.asked
      BY <1>2, <1>3, <1>5, <2>2 DEF FileOK
    <3>2. Preparing(task')
      BY <1>2, <1>5 DEF Preparing
    <3> QED BY <1>2, <1>3, <3>1, <3>2 DEF Remember
  <2> QED BY <2>1, <2>2 DEF PlayTypes
<1>6. Plays(c) /\ c \in gTorrents' => Stops(c)' \/ (disturbed' /\ savePath'[c] = CacheDir)
  BY <1>3, <1>4, <1>5 DEF Plays, Stops
<1>7. Quiet(c) => Quiet(c)'
  BY <1>1, <1>6, QuietKept DEF PlayTypes
<1> QED BY <1>1, <1>7 DEF StaysQuiet

LEMMA AllocateQuiet ==
    ASSUME PlayInv, NEW e \in Contents, Allocate(e), Remember, NEW c \in Contents
    PROVE  StaysQuiet(c)
<1>1. UNCHANGED <<savePath, paused, screen, task, watchFile>> /\ disturbed \in BOOLEAN
  BY DEF Allocate, session, player, prefs, PlayInv, PlayTypes
<1>2. Plays(c) => Plays(c)'
  BY <1>1 DEF Plays
<1>3. Quiet(c) => Quiet(c)'
  BY <1>1, <1>2, QuietKept DEF Stops
<1> QED BY <1>1, <1>3 DEF StaysQuiet

-----------------------------------------------------------------------------
(* The steps of its tasks.                                                  *)

LEMMA FetchQuiet ==
    ASSUME PlayInv, FetchEnds \/ EndLoop, Remember, NEW c \in Contents
    PROVE  StaysQuiet(c)
<1>1. UNCHANGED session /\ task.at \in {"fetch", "loop"}
  BY DEF FetchEnds, FetchFails, Fetched, EndLoop, vars
<1>2. screen' = screen \/ ~screen.open
  BY DEF FetchEnds, FetchFails, Fetched, EndLoop, PlayInv, ScreenOK
<1> QED BY <1>1, <1>2, SameQuiet

\* The torrent that is added runs for the player that waits for its name.
LEMMA AddQuiet ==
    ASSUME PlayInv, AddWatched, Remember, NEW c \in Contents
    PROVE  StaysQuiet(c)
<1> USE DEF PlayInv
<1>1. /\ task.at = "add" /\ Step("add", "name") /\ AddTorrent(CacheDir, watchFile)
      /\ screen' = screen /\ watchFile' = watchFile /\ task.place = CacheDir
  BY DEF AddWatched, Step, OnlySession, TaskShape, prefs
<1>2. /\ task'.at = "name" /\ task'.place = CacheDir /\ task'.asked = task.asked
      /\ task'.own = task.own
  BY <1>1, StepFields DEF PlayTypes, LoadLabels
<1>3. SessionOK
  BY DEF Service, TypeOK
<1>4. CASE c # watchFile \/ c \in gTorrents
  <2>1. savePath'[c] = savePath[c] /\ (c \in paused' <=> c \in paused)
    BY <1>1, <1>3, <1>4 DEF AddTorrent, session, SessionOK
  <2> QED BY <1>1, <2>1, RemainsQuiet DEF PlayTypes
<1>5. CASE c = watchFile /\ c \notin gTorrents
  <2>1. savePath[c] = Nowhere /\ savePath'[c] = CacheDir
    BY <1>1, <1>3, <1>5 DEF AddTorrent, SessionOK, gTorrents
  <2>2. CASE disturbed'
    BY <2>1, <2>2 DEF StaysQuiet, Quiet
  <2>3. CASE ~disturbed'
    <3>1. c = task.asked /\ c # NoName
      BY <1>1, <1>5, <2>3, Calm, PlaceTypes DEF PlayTypes, FileOK
    <3>2. task.own => Plays(c)'
      BY <1>1, <1>2, <1>5, <2>1 DEF Plays
    <3>3. ~task.own => c \in cut'
      BY <1>2, <3>1 DEF Remember, Preparing
    <3> QED BY <2>1, <3>2, <3>3 DEF StaysQuiet, Quiet, Stops
  <2> QED BY <2>2, <2>3
<1> QED BY <1>4, <1>5

\* The player gets the name.
LEMMA NameQuiet ==
    ASSUME PlayInv, PlayerShape, ReadName, Remember, NEW c \in Contents
    PROVE  StaysQuiet(c)
<1> USE DEF PlayInv
<1>1. /\ task.at = "name" /\ SetFields(NameIn(task.place), FALSE)
      /\ UNCHANGED <<savePath, paused>> /\ gTorrents' = gTorrents
  BY DEF ReadName, vars, session, gTorrents
<1>2. CASE ~task.own
  BY <1>1, <1>2, RemainsQuiet DEF SetFields, PlayTypes
<1>3. CASE task.own
  <2>1. screen.name = NoName /\ Began(task) /\ screen \in Screens
    BY <1>1, <1>3 DEF PlayerShape, ScreenOK, PlayTypes
  <2>2. ASSUME task.place = CacheDir, c = watchFile PROVE Plays(c)'
    <3>1. screen' = [screen EXCEPT !.name = c, !.wasPaused = FALSE] /\ c \in Names
      BY <1>1, <1>3, <2>2, PlaceTypes DEF SetFields, NameIn
    <3>2. screen'.open /\ screen'.place = CacheDir /\ screen'.name = c
      BY <2>1, <2>2, <3>1, ScreenFields DEF Began
    <3> QED BY <3>2 DEF Plays
  <2>3. Plays(c) => Plays(c)'
    BY <2>1, <2>2, PlaceTypes DEF Plays
  <2>4. Quiet(c) => Quiet(c)'
    BY <1>1, <2>3, QuietKept DEF PlayTypes, Stops
  <2> QED BY <1>1, <2>4 DEF StaysQuiet
<1> QED BY <1>2, <1>3 DEF PlayTypes, Tasks

\* A player that learns that its content was paused did not know it before.
LEMMA StateQuiet ==
    ASSUME PlayInv, PlayerShape, ReadState, Remember, NEW c \in Contents
    PROVE  StaysQuiet(c)
<1> USE DEF PlayInv
<1>1. /\ task.at = "state"
      /\ UNCHANGED <<savePath, paused>> /\ gTorrents' = gTorrents
  BY DEF ReadState, Step, vars, session, gTorrents
<1>2. /\ screen'.open = screen.open /\ screen'.place = screen.place /\ screen'.name = screen.name
      /\ ~task.own => screen' = screen
  BY StateFields
<1>3. task.own => ~screen.wasPaused
  BY <1>1 DEF PlayerShape
<1>4. Plays(c) => Plays(c)'
  BY <1>1, <1>2, <1>3 DEF Plays
<1>5. Quiet(c) => Quiet(c)'
  BY <1>1, <1>4, QuietKept DEF PlayTypes, Stops
<1> QED BY <1>1, <1>5 DEF StaysQuiet

\* What is resumed is paused again by its player.
LEMMA ResumeQuiet ==
    ASSUME PlayInv, PlayerShape, ResumeWatched, Remember, NEW c \in Contents
    PROVE  StaysQuiet(c)
<1> USE DEF PlayInv
<1>1. /\ task.at = "resume" /\ Step("resume", "load") /\ screen' = screen
      /\ savePath' = savePath /\ paused' = paused \ {task.name} /\ gTorrents' = gTorrents
  BY DEF ResumeWatched, ResumeTorrent, Step, gTorrents
<1>2. CASE c # task.name
  BY <1>1, <1>2, RemainsQuiet DEF PlayTypes
<1>3. CASE c = task.name
  <2>1. task.own => Plays(c)'
    BY <1>1, <1>3 DEF PlayerShape, ScreenOK, Began, PastName, Plays
  <2>2. task'.own = task.own /\ task'.name = c /\ Preparing(task')
    BY <1>1, <1>3, StepFields DEF PlayTypes, LoadLabels, PastName, Preparing
  <2>3. ~task.own => c \in cut'
    BY <2>2, PlaceTypes DEF Remember
  <2> QED BY <1>1, <2>1, <2>3 DEF StaysQuiet, Quiet, Stops
<1> QED BY <1>2, <1>3

LEMMA TaskQuiet ==
    ASSUME PlayInv, PlayerShape, TaskStep, Remember, NEW c \in Contents
    PROVE  StaysQuiet(c)
<1> USE DEF PlayInv
<1>1. SessionOK /\ disturbed \in BOOLEAN
  BY DEF Service, TypeOK, PlayTypes
<1>2. CASE CheckLastWatched \/ DropTorrent
  <2>1. task.at \in {"check", "drop"} /\ screen' = screen
    BY <1>2 DEF CheckLastWatched, DropTorrent, Step
  <2>2. CASE UNCHANGED session
    BY <2>1, <2>2, SameQuiet
  <2>3. CASE \E name : RemoveTorrent(name)
    BY <1>1, <2>1, <2>3, RemoveQuiet, RemainsQuiet
  <2> QED BY <1>2, <2>2, <2>3 DEF CheckLastWatched, DropTorrent
<1>3. CASE \/ StartTask \/ ForgetWatched \/ ChooseFile \/ SaveWatched
           \/ \E playable \in BOOLEAN : LoadPieces(playable)
  <2>1. UNCHANGED session /\ screen' = screen
    BY <1>3 DEF StartTask, ForgetWatched, ChooseFile, SaveWatched, LoadPieces, vars
  <2>2. ~(task.own /\ task.at = "name")
    BY <1>3, NewTasks DEF StartTask, ForgetWatched, ChooseFile, SaveWatched, LoadPieces, Step
  <2> QED BY <2>1, <2>2, SameQuiet
<1> QED BY <1>2, <1>3, AddQuiet, NameQuiet, StateQuiet, ResumeQuiet DEF TaskStep

-----------------------------------------------------------------------------
(* The fields of the player.                                                *)

LEMMA ShapeKept ==
    ASSUME PlayerShape, task'.own => task.own, task'.at = task.at, screen' = screen
    PROVE  PlayerShape'
BY DEF PlayerShape

LEMMA ShapeTask ==
    ASSUME PlayInv, PlayerShape, TaskStep
    PROVE  PlayerShape'
<1> USE DEF PlayInv
<1>1. task \in Tasks /\ screen \in Screens
  BY DEF PlayTypes
<1>2. CASE StartTask
  BY <1>2, NewTasks DEF StartTask, TaskShape, ScreenOK, PlayerShape
<1>3. CASE CheckLastWatched \/ ForgetWatched \/ AddWatched
  <2>1. /\ task.at \in {"check", "forget", "add"} /\ screen' = screen
        /\ \E to \in {"forget", "add", "name"} : Step(task.at, to)
    BY <1>3 DEF CheckLastWatched, ForgetWatched, AddWatched, Step
  <2>2. task'.own = task.own /\ task'.at \in {"forget", "add", "name"}
    BY <1>1, <2>1, StepFields DEF LoadLabels
  <2> QED BY <2>1, <2>2 DEF PlayerShape
<1>4. CASE ReadName
  <2>1. CASE NameIn(task.place) = NoName
    BY <1>4, <2>1, NewTasks DEF ReadName, PlayerShape
  <2>2. CASE NameIn(task.place) # NoName
    <3>1. NameIn(task.place) \in Names
      BY <1>1, <1>4, NameType, TaskFields, PlaceTypes, PlaceAssumption, DownloadAssumption
         DEF NameIn, PlayTypes, Names, TaskShape
    <3>2. task'.own = task.own /\ task'.at = "files"
      BY <1>1, <1>4, <2>2, <3>1, NameFields DEF ReadName
    <3>3. task.own => ~screen'.wasPaused
      BY <1>1, <1>4, <3>1, ScreenFields DEF ReadName, SetFields
    <3> QED BY <3>2, <3>3 DEF PlayerShape
  <2> QED BY <2>1, <2>2
<1>5. CASE ChooseFile
  <2>1. /\ task.at = "files" /\ screen' = screen
        /\ \E to \in {"state", "drop"} : Step(task.at, to)
    BY <1>5 DEF ChooseFile, Step
  <2>2. task'.own = task.own /\ task'.at \in {"state", "drop"}
    BY <1>1, <2>1, StepFields DEF LoadLabels, PastName
  <2> QED BY <2>1, <2>2 DEF PlayerShape
<1>6. CASE ReadState
  <2>1. PICK to \in {"resume", "load"} : Step("state", to) /\ (to = "resume" => task.name \in paused)
    BY <1>6 DEF ReadState, AfterState
  <2>2. task'.own = task.own /\ task'.at = to
    BY <1>1, <2>1, StepFields DEF LoadLabels, PastName
  <2> QED BY <1>6, <2>1, <2>2, StateFields DEF PlayerShape
<1>7. CASE ResumeWatched \/ SaveWatched \/ \E playable \in BOOLEAN : LoadPieces(playable)
  <2>1. \E to \in {"load", "save", "loop", "drop"} : Step(task.at, to)
    BY <1>7 DEF ResumeWatched, SaveWatched, LoadPieces, AfterLoad, Step
  <2>2. task'.at \in {"load", "save", "loop", "drop"}
    BY <1>1, <2>1, StepFields DEF LoadLabels, PastName
  <2> QED BY <2>2 DEF PlayerShape
<1>8. CASE DropTorrent
  BY <1>8, NewTasks DEF DropTorrent, PlayerShape
<1> QED BY <1>2, <1>3, <1>4, <1>5, <1>6, <1>7, <1>8 DEF TaskStep

LEMMA ShapeOther ==
    ASSUME PlayInv, PlayerShape,
           \/ FetchEnds \/ EndLoop \/ UserWatches \/ Manager
           \/ \E c \in Contents : Allocate(c)
    PROVE  PlayerShape'
<1>1. CASE FetchEnds \/ EndLoop
  BY <1>1, NewTasks DEF FetchEnds, FetchFails, Fetched, EndLoop, PlayerShape
<1>2. CASE BreakPrepare \/ DestroyTorrent
  <2>1. task \in Tasks
    BY DEF PlayInv, PlayTypes
  <2>2. ~[task EXCEPT !.own = FALSE].own
    BY <2>1, TaskFields
  <2>3. task' = [task EXCEPT !.own = FALSE]
    BY <1>2, Zenon DEF BreakPrepare, DestroyTorrent, CancelLoad
  <2>4. ~task'.own
    BY <2>2, <2>3, Zenon
  <2> QED BY <2>4 DEF PlayerShape
<1>3. CASE UserWatches /\ ~BreakPrepare /\ ~DestroyTorrent
  <2>1. task' = task /\ Free
    BY <1>3 DEF UserWatches, WatchNow, WatchFile, NoSpace, WatchDownload, Watch, player
  <2> QED BY <2>1, FreeIdle DEF PlayerShape
<1>4. CASE Manager \/ \E c \in Contents : Allocate(c)
  BY <1>4, ShapeKept DEF Manager, Allocate, player
<1> QED BY <1>1, <1>2, <1>3, <1>4

-----------------------------------------------------------------------------
(* The download manager meanwhile.                                          *)

\* A row covers its torrent until the torrent is removed.
LEMMA CoversRowStep ==
    ASSUME TableRows, NEW e \in Downloads, RowStep(e), NEW d \in Downloads, Covers(d)
    PROVE  Covers(d)' \/ (e = d /\ (Remove(d) \/ RemoveEach(d)))
<1> USE DEF TableRows, TableInv, TypeOK, TableOK
<1>1. d \in RowsOf /\ torrentFile[d] = "whole" /\ d \in directories /\ NameOf(d) = ContentOf[d]
  BY DEF Covers, FilesOK, NameOf
<1>2. NameOf(d) # NoName
  BY <1>1, PlaceTypes
<1>3. table[d] # NoRow
  BY <1>1 DEF RowsOf
<1>4. CASE e = d /\ ~Remove(d) /\ ~RemoveEach(d)
  <2>1. d \in RowsOf'
    <3> SUFFICES ASSUME d \notin RowsOf' PROVE FALSE
      OBVIOUS
    <3>1. Deleting(d) \/ CopyFails(d) \/ DeleteRows
      BY <1>1, <1>4, RowGoes DEF Next, WorkerStep
    <3>2. ~CopyFails(d) /\ ~DeleteRows
      BY <1>4
         DEF RowStep, NextRow, InitRow, InitName, DeleteDirectory, AddInsert, CheckLast, RemoveLast,
             MoveLast, ForgetLast, AddTorrentOf, DeleteRow, Pause, Resume, PauseRow, ResumeRow,
             CopyFails, DeleteRows, At
    <3>3. ~DeleteRow(d)
      BY DEF DeleteRow, Covers
    <3>4. table' = table
      BY <1>1, <1>2, <1>4, <3>1, <3>2, <3>3
         DEF Deleting, InitRow, InitChecks, InitName, AddTorrentOf, disk
    <3> QED BY <1>1, <3>4 DEF RowsOf
  <2>2. torrentFile'[d] = "whole"
    BY <1>1, <1>4, <2>1, FileGoes DEF Next, WorkerStep
  <2>3. ~At("deleteRow", d)'
    <3>1. \/ NextRow(d) \/ Added(d) \/ Returning(d) \/ Toggling(d)
          \/ InitRow(d) \/ InitName(d) \/ DeleteRow(d) \/ AddTorrentOf(d)
      BY <1>4, RowStepKinds DEF Deleting
    <3>2. CASE InitRow(d) \/ InitName(d) \/ DeleteRow(d) \/ AddTorrentOf(d)
      <4>1. (\E label \in {"initName", "deleteDirectory"} : Goto(label)) \/ Return
        BY <3>2 DEF InitRow, InitName, DeleteRow, AddTorrentOf, AfterAdd
      <4> QED BY <4>1, GotoWork, ReturnWork DEF At, Idle
    <3> QED BY <3>1, <3>2, NextRowWork, AddedWork, ReturningWork, TogglingWork
            DEF At, WithFile, Inserted, Idle
  <2>4. ASSUME work'.action = "removeAll" PROVE At("removeEach", d)'
    <3>1. NextRow(d) \/ Returning(d)
      BY <1>4, <2>4, RowStepKinds, AddedWork, DeletingWork, TogglingWork DEF Loops
    <3>2. ~Returning(d)
      <4>1. work.action = "removeAll"
        BY <2>4, <3>1, NextRowWork, ReturningWork DEF Idle
      <4> QED BY <1>4, <4>1 DEF Returning, DeleteDirectory, PauseRow, ResumeRow, At, LabelsOK
    <3> QED BY <2>4, <3>1, <3>2, NextRowWork DEF At
  <2> QED BY <2>1, <2>2, <2>3, <2>4 DEF Covers
<1>5. CASE e # d
  <2>1. d \in RowsOf' /\ torrentFile'[d] = "whole"
    BY <1>1, <1>3, <1>5, RowStepTable, RowStepFiles DEF RowsOf
  <2>2. ~At("deleteRow", d)'
    BY <1>5, RowStepKinds, NextRowWork, AddedWork, DeletingWork, ReturningWork, TogglingWork
       DEF At, WithFile, Inserted, Idle
  <2>3. ASSUME work'.action = "removeAll" PROVE d \in work'.rest
    <3>1. NextRow(e) \/ Returning(e)
      BY <2>3, RowStepKinds, AddedWork, DeletingWork, TogglingWork DEF Loops
    <3>2. work.action = "removeAll" /\ work'.rest \in {work.rest, work.rest \ {e}}
      BY <2>3, <3>1, NextRowWork, ReturningWork DEF Idle
    <3>3. ~At("removeEach", d)
      BY <1>5, <3>1
         DEF NextRow, Returning, DeleteDirectory, RemoveEach, PauseRow, ResumeRow, At
    <3> QED BY <1>5, <3>2, <3>3 DEF Covers
  <2> QED BY <2>1, <2>2, <2>3 DEF Covers
<1> QED BY <1>4, <1>5

LEMMA CoversKept ==
    ASSUME TableRows, Manager, NEW d \in Downloads, Covers(d)
    PROVE  Covers(d)' \/ Remove(d) \/ RemoveEach(d)
<1> USE DEF TableRows, TableInv, TypeOK, TableOK
<1>1. d \in RowsOf /\ torrentFile[d] = "whole"
  BY DEF Covers
<1>2. CASE OnHandleIntent
  <2>1. table' = table /\ torrentFile' = torrentFile /\ work'.rest = CursorOf(work'.action)
    BY <1>2, IntentWork DEF OnHandleIntent, disk
  <2>2. CursorOf("removeAll") = RowsOf
    BY DEF CursorOf
  <2>3. work'.at # "deleteRow"
    BY <1>2, IntentWork DEF Intents, Loops, RowActions
  <2> QED BY <1>1, <2>1, <2>2, <2>3 DEF Covers, RowsOf, At
<1>3. CASE NoMoreRows
  <2>1. disk' = disk /\ work.at = "next" /\ work.rest = {}
    BY <1>3 DEF NoMoreRows
  <2>2. work.action # "removeAll"
    BY <2>1 DEF Covers, At
  <2>3. work' = Idle
    BY <1>3, <2>2 DEF NoMoreRows
  <2> QED BY <1>1, <2>1, <2>3 DEF Covers, RowsOf, At, Idle, disk
<1>4. CASE DeleteRows \/ ClearDownloads
  BY <1>4 DEF DeleteRows, ClearDownloads, Covers, LoopOK, RowsFirst, LabelsOK, At
<1>5. ASSUME NEW e \in Downloads, Network(e) PROVE Covers(d)'
  <2>1. At("fetch", e) /\ work.action \notin Loops /\ torrentFile[e] # "whole"
    BY <1>5, NetworkWork DEF FilesOK
  <2>2. table'[d] = table[d] /\ torrentFile'[d] = torrentFile[d]
    BY <1>1, <1>5, <2>1 DEF Network, CopyFails, LoadFails, Fetch, disk, DiskOK
  <2>3. work'.at # "deleteRow" /\ work'.action # "removeAll"
    BY <1>5, <2>1, NetworkWork DEF At, Loops, Idle
  <2> QED BY <1>1, <2>2, <2>3 DEF Covers, RowsOf, At
<1>6. CASE User \/ Launch \/ Exit
  <2>1. work' = work /\ table' = table
    BY <1>6, ScreenWork
  <2>2. torrentFile' = torrentFile
    BY <1>6 DEF User, RequestRow, RequestAll, Request, HandleDownload, Launch, Exit, disk
  <2> QED BY <1>1, <2>1, <2>2 DEF Covers, RowsOf, At
<1> QED BY <1>2, <1>3, <1>4, <1>5, <1>6, CoversRowStep DEF Manager, WorkerStep

\* What the manager does to the torrent of c.
LEMMA ManagerSession ==
    ASSUME TypeOK, Manager, NEW c \in Contents
    PROVE  \/ /\ savePath'[c] \in {savePath[c], Nowhere}
              /\ c \in paused /\ c \in gTorrents' => c \in paused'
           \/ \E d \in Downloads : /\ InitRow(d) \/ AddTorrentOf(d)
                                   /\ c = NameOf(d) /\ savePath'[c] = d
           \/ \E d \in Downloads : Resume(d) /\ c = NameOf(d) /\ savePath' = savePath
<1> USE DEF TypeOK
<1> DEFINE Same == /\ savePath'[c] \in {savePath[c], Nowhere}
                   /\ c \in paused /\ c \in gTorrents' => c \in paused'
<1>1. UNCHANGED session => Same
  BY DEF session
<1>2. ASSUME NEW name, RemoveTorrent(name) \/ PauseTorrent(name) PROVE Same
  BY <1>2, RemoveQuiet DEF PauseTorrent
<1>3. ASSUME NEW d \in Downloads, RowStep(d), ~Resume(d), ~InitRow(d), ~AddTorrentOf(d) PROVE Same
  BY <1>1, <1>2, <1>3
     DEF RowStep, NextRow, InitName, RestoreState, DeleteDirectory, AddInsert, CheckLast, RemoveLast,
         MoveLast, ForgetLast, Remove, RemoveFirst, DeleteRow, RemoveEach, Pause, PauseRow,
         ResumeRow, RowChanges
<1>4. ASSUME NEW d \in Downloads, InitRow(d) \/ AddTorrentOf(d)
      PROVE  Same \/ (c = NameOf(d) /\ savePath'[c] = d)
  <2>1. UNCHANGED session \/ AddTorrent(d, NameOf(d))
    BY <1>4 DEF InitRow, AddTorrentOf
  <2>2. ASSUME AddTorrent(d, NameOf(d)), c # NameOf(d) \/ c \in gTorrents PROVE Same
    BY <2>2 DEF AddTorrent, session, SessionOK
  <2>3. ASSUME AddTorrent(d, NameOf(d)), c = NameOf(d), c \notin gTorrents PROVE savePath'[c] = d
    BY <2>3 DEF AddTorrent, SessionOK
  <2> QED BY <1>1, <2>1, <2>2, <2>3
<1>5. ASSUME NEW d \in Downloads, Resume(d)
      PROVE  Same \/ (c = NameOf(d) /\ savePath' = savePath)
  BY <1>5 DEF Resume, ResumeTorrent
<1>6. CASE \/ OnHandleIntent \/ NoMoreRows \/ DeleteRows \/ ClearDownloads \/ User \/ Launch \/ Exit
           \/ \E d \in Downloads : Network(d)
  BY <1>1, <1>2, <1>6
     DEF OnHandleIntent, NoMoreRows, DeleteRows, ClearDownloads, User, RequestRow, RequestAll,
         Request, HandleDownload, Launch, Exit, ClearOnExit, Network, CopyFails, LoadFails, Fetch
<1> QED BY <1>3, <1>4, <1>5, <1>6 DEF Manager, WorkerStep


LEMMA ManagerNext ==
    ASSUME Manager
    PROVE  Next
BY DEF Manager, Next, Application

\* The player goes on, and knows its content or is disturbed.
LEMMA ManagerQuiet ==
    ASSUME PlayInv, Manager, Remember, NEW c \in Contents, Quiet(c),
           savePath'[c] \in {savePath[c], Nowhere},
           c \in paused /\ c \in gTorrents' => c \in paused'
    PROVE  Quiet(c)'
<1>1. screen' = screen /\ task' = task
  BY DEF Manager, player
<1>2. ASSUME Plays(c), c \in gTorrents'
      PROVE  Stops(c)' \/ (disturbed' /\ savePath'[c] = CacheDir)
  <2>1. CASE screen.open /\ screen.name = c /\ (screen.place = CacheDir \/ screen.wasPaused)
    BY <1>1, <2>1 DEF Stops, Plays
  <2>2. CASE /\ task.own /\ task.at = "name" /\ task.place = CacheDir
             /\ c = watchFile /\ savePath[c] = CacheDir
    <3>1. savePath'[c] = CacheDir
      BY <1>2, <2>2 DEF gTorrents
    <3>2. disturbed' \/ watchFile' = watchFile
      BY <2>2, Calm DEF PlayInv, PlayTypes, LoadsCache, Preparing
    <3> QED BY <1>1, <2>2, <3>1, <3>2 DEF Stops, Plays
  <2> QED BY <1>2, <2>1, <2>2 DEF Plays
<1> QED BY <1>2, QuietKept DEF PlayInv, PlayTypes, Stops

\* Removing it stops it.
LEMMA RemovedGone ==
    ASSUME SessionOK, FilesOK, NEW d \in Downloads, Covers(d), Remove(d) \/ RemoveEach(d)
    PROVE  savePath'[ContentOf[d]] = Nowhere
<1>1. NameOf(d) = ContentOf[d] /\ ContentOf[d] \in Contents
  BY PlaceTypes DEF Covers, NameOf
<1> QED BY <1>1, RemovePlace DEF Remove, RemoveFirst, RemoveEach

\* A request to resume a row reaches no content of the cache but its own.
LEMMA ResumeCovers ==
    ASSUME TableRows, NEW d \in Downloads, Resume(d), NameOf(d) # NoName
    PROVE  Covers(d)'
<1> USE DEF TableRows, TableInv, TypeOK, TableOK
<1>1. At("resume", d) /\ torrentFile[d] = "whole" /\ disk' = disk
  BY DEF Resume, NameOf
<1>2. d \in RowsOf
  BY <1>1 DEF ResumeOK, Resumes, At
<1>3. work'.at = "resumeRow" /\ work'.action # "removeAll"
  BY GotoWork, TogglingWork DEF Resume, Toggling
<1> QED BY <1>1, <1>2, <1>3 DEF Covers, RowsOf, At, disk

LEMMA ManagerCacheQuiet ==
    ASSUME StopInv, Manager, Remember
    PROVE  CacheQuiet'
<1> USE DEF StopInv
<1> SUFFICES ASSUME NEW c \in Contents, savePath'[c] = CacheDir, ~RowCovers(c)'
             PROVE  Quiet(c)'
  BY DEF CacheQuiet
<1>1. TypeOK /\ FilesOK /\ SessionOK
  BY DEF PlayInv, Service, TypeOK, TableRows, TableInv
<1>2. savePath[c] = CacheDir
  BY <1>1, ManagerPlaces DEF InCache
<1>3. ~RowCovers(c)
  <2> SUFFICES ASSUME NEW d \in Downloads, ContentOf[d] = c, Covers(d) PROVE FALSE
    BY DEF RowCovers
  <2>1. ~Covers(d)'
    BY DEF RowCovers
  <2>2. savePath'[c] = Nowhere
    BY <1>1, <2>1, CoversKept, RemovedGone
  <2> QED BY <2>2, PlaceTypes
<1>4. Quiet(c)
  BY <1>2, <1>3 DEF CacheQuiet
<1>5. ASSUME NEW d \in Downloads, Resume(d), c = NameOf(d) PROVE FALSE
  <2>1. ContentOf[d] = c /\ NameOf(d) # NoName
    BY <1>5, NameType, PlaceTypes
  <2>2. Covers(d)'
    BY <1>5, <2>1, ResumeCovers
  <2> QED BY <2>1, <2>2 DEF RowCovers
<1>6. \A d \in Downloads : savePath'[c] # d
  BY PlaceTypes
<1> QED BY <1>1, <1>4, <1>5, <1>6, ManagerSession, ManagerQuiet

-----------------------------------------------------------------------------
(* The rows that are paused.                                                *)

\* What another download does leaves the torrent of a row that is alone.
LEMMA OtherQuiet ==
    ASSUME StopInv, Manager, Remember, NEW e \in Downloads, RowStep(e), NEW d \in Downloads \ {e},
           Settled(d)', d \notin doubted', Alone(d)', table'[d] = PAUSED
    PROVE  Quiet(ContentOf[d])'
<1> USE DEF StopInv, PlayInv, Service, TypeOK, TableRows
<1>1. Settled(d) /\ ~At("resumeRow", d)
  BY OtherSettled, RowStepBusy
<1>2. table[d] = PAUSED /\ d \notin doubted /\ Alone(d)
  BY RowStepTable, RowStepUser DEF Alone
<1>3. ContentOf[d] \in Contents /\ ContentOf[d] # NameOf(e)
  BY <1>2, PlaceTypes, OtherName DEF TableInv
<1>4. /\ savePath'[ContentOf[d]] = savePath[ContentOf[d]]
      /\ ContentOf[d] \in paused' <=> ContentOf[d] \in paused
  BY <1>3, RowStepSession
<1>5. Quiet(ContentOf[d])
  BY <1>1, <1>2 DEF RowsQuiet
<1> QED BY <1>3, <1>4, <1>5, ManagerQuiet

LEMMA OwnQuiet ==
    ASSUME StopInv, Manager, Remember, NEW d \in Downloads, RowStep(d),
           Settled(d)', d \notin doubted', Alone(d)', table'[d] = PAUSED
    PROVE  Quiet(ContentOf[d])' \/ At("resumeRow", d)'
<1> USE DEF StopInv, PlayInv, Service, TypeOK, TableRows, TableInv, TableOK
<1>1. ContentOf[d] \in Contents /\ Alone(d)
  BY PlaceTypes, RowStepUser DEF Alone
<1>2. CASE InitName(d) /\ NameOf(d) # NoName
  <2>1. table' = table /\ work.state = PAUSED
    BY <1>2 DEF InitName, At, CopiesOK
  <2>2. NameOf(d) = ContentOf[d] /\ PauseTorrent(NameOf(d))
    BY <1>1, <1>2, <2>1, NameType DEF InitName, RestoreState
  <2> QED BY <2>2 DEF PauseTorrent, Quiet, Stops, gTorrents
<1>3. CASE AddTorrentOf(d) /\ NameOf(d) # NoName
  BY <1>3 DEF AddTorrentOf, At, CopiesOK, Inserted, PAUSED, DOWNLOADING
<1>4. CASE Settled(d) /\ (Pause(d) \/ NextRow(d))
  <2>1. /\ savePath' = savePath /\ paused \subseteq paused' /\ table' = table /\ doubted' = doubted
        /\ ~At("resumeRow", d)
    BY <1>4 DEF Pause, NextRow, PauseTorrent, session, disk, user, At
  <2>2. Quiet(ContentOf[d])
    BY <1>1, <1>4, <2>1 DEF RowsQuiet
  <2> QED BY <1>1, <2>1, <2>2, ManagerQuiet
<1>5. CASE Resume(d)
  <2>1. work'.at = "resumeRow" /\ work'.row = d
    BY <1>5, GotoWork DEF Resume, At
  <2> QED BY <2>1 DEF At
<1>6. CASE PauseRow(d)
  <2>1. d \in RowsOf /\ Reconciled /\ At("pauseRow", d)
    <3>1. d \in RowsOf' /\ Reconciled'
      BY DEF Settled
    <3> QED BY <1>6, <3>1, RowStepTable, RowStepUser
            DEF PauseRow, RowChanges, AddInsert, Reconciled, At
  <2>2. UNCHANGED <<savePath, paused>>
    BY <1>6 DEF PauseRow, RowChanges, session
  <2>3. Quiet(ContentOf[d])
    BY <1>1, <2>1 DEF PauseFirst, At
  <2> QED BY <1>1, <2>2, <2>3, ManagerQuiet
<1>7. CASE ResumeRow(d)
  <2>1. /\ d \in RowsOf' <=> d \in RowsOf
        /\ d \in RowsOf \ doubted' => table'[d] = DOWNLOADING
    BY <1>7, UpdatedRow DEF ResumeRow, States, PAUSED, DOWNLOADING
  <2> QED BY <2>1 DEF Settled, PAUSED, DOWNLOADING
<1>8. CASE Settled(d) /\ (InitRow(d) \/ InitName(d) \/ AddTorrentOf(d))
  <2>1. Busy(d)
    BY <1>8 DEF InitRow, InitName, AddTorrentOf, At, LabelsOK, Busy, Inserted
  <2> QED BY <1>8, <2>1 DEF Settled
<1>9. CASE \/ AddInsert(d) \/ CheckLast(d) \/ RemoveLast(d) \/ MoveLast(d) \/ ForgetLast(d)
           \/ Remove(d) \/ RemoveEach(d)
  BY <1>9, BusyAfter DEF Settled
<1>10. CASE DeleteRow(d) \/ DeleteDirectory(d)
  <2>1. table'[d] = NoRow
    BY <1>10 DEF DeleteRow, DeleteDirectory, At, RowsFirst, DiskOK
  <2> QED BY <2>1 DEF NoRow, PAUSED
<1> QED BY <1>2, <1>3, <1>4, <1>5, <1>6, <1>7, <1>8, <1>9, <1>10, OwnSettled DEF RowStep

LEMMA ManagerRowsQuiet ==
    ASSUME StopInv, Manager, Remember
    PROVE  RowsQuiet'
<1> USE DEF StopInv, PlayInv, Service, TypeOK, TableRows
<1> SUFFICES ASSUME NEW d \in Downloads, Settled(d)', d \notin doubted', Alone(d)',
                    table'[d] = PAUSED
             PROVE  Quiet(ContentOf[d])' \/ At("resumeRow", d)'
  BY DEF RowsQuiet
<1>1. ASSUME Settled(d), table'[d] = table[d], doubted' = doubted, asked \subseteq asked',
             UNCHANGED <<savePath, paused>>, At("resumeRow", d) => At("resumeRow", d)'
      PROVE  Quiet(ContentOf[d])' \/ At("resumeRow", d)'
  <2>1. Alone(d) /\ ContentOf[d] \in Contents
    BY <1>1, AloneBefore, PlaceTypes
  <2>2. Quiet(ContentOf[d]) \/ At("resumeRow", d)
    BY <1>1, <2>1 DEF RowsQuiet
  <2> QED BY <1>1, <2>1, <2>2, ManagerQuiet
<1>2. CASE OnHandleIntent
  BY <1>1, <1>2, IntentSettled DEF OnHandleIntent, disk, user, session, At, Idle
<1>3. CASE NoMoreRows \/ DeleteRows \/ ClearDownloads
  BY <1>1, <1>3, LoopSettled DEF NoMoreRows, disk, user, session, At
<1>4. ASSUME NEW e \in Downloads, Network(e)
      PROVE  Quiet(ContentOf[d])' \/ At("resumeRow", d)'
  <2>1. d # e /\ Settled(d) /\ ~At("resumeRow", d)
    BY <1>4, NetworkSettled DEF Network, CopyFails, LoadFails, Fetch, At
  <2> QED BY <1>1, <1>4, <2>1 DEF Network, CopyFails, LoadFails, Fetch, user, session, disk, DiskOK
<1>5. CASE User \/ Launch \/ Exit
  <2>1. User /\ Settled(d) /\ table' = table /\ work' = work
    BY <1>5, ScreenSettled, ScreenWork
  <2>2. UNCHANGED <<savePath, paused, doubted>> /\ asked \subseteq asked'
    BY <2>1 DEF User, RequestRow, RequestAll, Request, HandleDownload, session
  <2> QED BY <1>1, <2>1, <2>2 DEF At
<1> QED BY <1>2, <1>3, <1>4, <1>5, OtherQuiet, OwnQuiet DEF Manager, WorkerStep

LEMMA ManagerPauseFirst ==
    ASSUME StopInv, Manager, Remember
    PROVE  PauseFirst'
<1> USE DEF StopInv, PlayInv, Service, TypeOK, TableRows, TableInv, TableOK
<1> SUFFICES ASSUME Reconciled', work'.at = "pauseRow", work'.row \in RowsOf', Alone(work.row)'
             PROVE  Quiet(ContentOf[work.row])'
  BY DEF PauseFirst
<1>1. ASSUME NEW d \in Downloads, RowStep(d) PROVE Quiet(ContentOf[work.row])'
  <2>1. Pause(d)
    <3>1. Toggling(d)
      BY <1>1, RowStepKinds, NextRowWork, AddedWork, DeletingWork, ReturningWork
         DEF WithFile, Inserted, Idle
    <3>2. ~Resume(d)
      BY GotoWork DEF Resume
    <3> QED BY <3>1, <3>2 DEF Toggling
  <2>2. /\ At("pause", d) /\ work'.row = d /\ disk' = disk /\ UNCHANGED <<queue, open, asked>>
        /\ PauseTorrent(NameOf(d))
    BY <2>1, GotoWork DEF Pause, At, user
  <2>3. Settled(d)
    BY <2>2 DEF Settled, Busy, CopiesOK, Toggled, Inserted, At, Reconciled, RowsOf, disk
  <2>4. NameOf(d) = ContentOf[d]
    BY <2>3 DEF HasFile, NameOf
  <2> QED BY <2>2, <2>4 DEF PauseTorrent, Quiet, Stops, gTorrents
<1>2. CASE \/ OnHandleIntent \/ NoMoreRows \/ DeleteRows \/ ClearDownloads
           \/ \E d \in Downloads : Network(d)
  <2>1. ~OnHandleIntent
    BY IntentWork DEF Intents, Loops, RowActions
  <2>2. ~NoMoreRows /\ ~DeleteRows /\ ~ClearDownloads
    BY GotoWork DEF NoMoreRows, DeleteRows, ClearDownloads, Idle
  <2>3. ASSUME NEW d \in Downloads, Network(d) PROVE FALSE
    BY <2>3, NetworkWork DEF Idle, At
  <2> QED BY <1>2, <2>1, <2>2, <2>3
<1>3. CASE User \/ Launch \/ Exit
  <2>1. work' = work /\ table' = table
    BY <1>3, ScreenWork
  <2>2. PICK d \in Downloads : d = work.row /\ d = work'.row /\ d \in RowsOf' /\ Alone(d)'
    BY <2>1 DEF RowsOf, Alone
  <2>3. Settled(d)'
    BY <2>1, <2>2 DEF Settled, Busy, CopiesOK, Toggled, Inserted, At
  <2>4. User /\ Settled(d)
    BY <1>3, <2>3, ScreenSettled
  <2>5. UNCHANGED <<savePath, paused>> /\ asked \subseteq asked'
    BY <2>4 DEF User, RequestRow, RequestAll, Request, HandleDownload, session
  <2>6. Quiet(ContentOf[d]) /\ ContentOf[d] \in Contents
    BY <2>1, <2>2, <2>4, <2>5, AloneBefore, PlaceTypes DEF PauseFirst, Settled
  <2>7. Quiet(ContentOf[d])'
    BY <2>5, <2>6, ManagerQuiet
  <2> QED BY <2>2, <2>7
<1> QED BY <1>1, <1>2, <1>3 DEF Manager, WorkerStep


-----------------------------------------------------------------------------
(* Every step.                                                              *)

\* A step of the player leaves the table and the worker alone.
LEMMA PlayerStops ==
    ASSUME StopInv, PlayInv', Remember, UNCHANGED <<disk, queue, work, user>>,
           \A c \in Contents : StaysQuiet(c)
    PROVE  TableRows' /\ CutOK' /\ CacheQuiet' /\ RowsQuiet' /\ PauseFirst'
<1> USE DEF StopInv
<1>1. UNCHANGED <<table, torrentFile, queue, work, open, asked, doubted>>
  BY DEF disk, user
<1>2. /\ RowsOf' = RowsOf /\ Reconciled' = Reconciled
      /\ \A d : Settled(d)' = Settled(d) /\ Alone(d)' = Alone(d) /\ Covers(d)' = Covers(d)
                /\ At("resumeRow", d)' = At("resumeRow", d)
  BY <1>1 DEF RowsOf, Reconciled, Settled, Busy, At, Alone, Covers
<1>3. TableRows'
  BY TableRowsSame DEF PlayInv, Service
<1>4. CacheQuiet'
  <2> SUFFICES ASSUME NEW c \in Contents, savePath'[c] = CacheDir, ~RowCovers(c)'
               PROVE  Quiet(c)'
    BY DEF CacheQuiet
  <2>1. ~RowCovers(c)
    BY <1>2 DEF RowCovers
  <2>2. CASE savePath[c] = CacheDir
    BY <2>1, <2>2 DEF CacheQuiet, StaysQuiet
  <2>3. CASE savePath[c] = Nowhere
    BY <2>3 DEF Quiet, gTorrents, StaysQuiet
  <2> QED BY <2>2, <2>3 DEF StaysQuiet
<1>5. RowsQuiet'
  BY <1>1, <1>2, PlaceTypes DEF RowsQuiet, StaysQuiet
<1>6. PauseFirst'
  <2> SUFFICES ASSUME Reconciled', work'.at = "pauseRow", work'.row \in RowsOf', Alone(work.row)'
               PROVE  Quiet(ContentOf[work.row])'
    BY DEF PauseFirst
  <2>1. PICK d \in Downloads : d = work.row /\ d = work'.row
    BY <1>1, <1>2 DEF RowsOf
  <2>2. Quiet(ContentOf[d]) /\ ContentOf[d] \in Contents
    BY <1>1, <1>2, <2>1, PlaceTypes DEF PauseFirst, Alone
  <2> QED BY <2>1, <2>2 DEF StaysQuiet
<1> QED BY <1>3, <1>4, <1>5, <1>6, CutStep

LEMMA PlayerRest ==
    ASSUME TaskStep \/ FetchEnds \/ EndLoop \/ UserWatches \/ \E c \in Contents : Allocate(c)
    PROVE  UNCHANGED <<disk, queue, work, user>>
BY DEF TaskStep, StartTask, CheckLastWatched, ForgetWatched, AddWatched, ReadName, ChooseFile,
       ReadState, ResumeWatched, DropTorrent, SaveWatched, LoadPieces, FetchEnds, FetchFails,
       Fetched, EndLoop, UserWatches, WatchNow, WatchFile, NoSpace, WatchDownload, Watch,
       BreakPrepare, DestroyTorrent, Allocate, OnlySession, vars, user

\* The process that dies takes the torrents with it.
LEMMA DieStops ==
    ASSUME StopInv, PlayInv', Die(Crash) \/ Die(NullPriorities)
    PROVE  StopInv'
<1>1. ProcessDies /\ task' = NoTask /\ ~task'.own /\ task'.at = "none"
  BY NewTasks DEF Die, Crash, NullPriorities
<1>2. TableRows'
  BY <1>1, TableRowsDie DEF StopInv, PlayInv, Service
<1>3. PlayerShape' /\ CutOK'
  BY <1>1 DEF PlayerShape, CutOK, Preparing
<1>4. CacheQuiet'
  BY <1>1, PlaceTypes DEF ProcessDies, CacheQuiet
<1>5. RowsQuiet' /\ PauseFirst'
  BY <1>1, DeadSettled DEF RowsQuiet, PauseFirst, ProcessDies, Reconciled
<1> QED BY <1>2, <1>3, <1>4, <1>5 DEF StopInv

LEMMA StopNext ==
    ASSUME StopInv, [PlayNext]_playVars
    PROVE  StopInv'
<1>1. PlayInv'
  BY PlayNextInv DEF StopInv
<1>2. PlayInv /\ PlayerShape
  BY DEF StopInv
<1>3. CASE Manager /\ Remember
  <2>1. TableRows'
    BY <1>1, <1>3, ManagerNext, TableRowsStep DEF StopInv, PlayInv, Service
  <2>2. PlayerShape' /\ CutOK'
    BY <1>2, <1>3, ShapeOther, CutStep
  <2> QED BY <1>1, <1>3, <2>1, <2>2, ManagerCacheQuiet, ManagerRowsQuiet, ManagerPauseFirst
          DEF StopInv
<1>4. CASE /\ Remember
           /\ TaskStep \/ FetchEnds \/ EndLoop \/ UserWatches \/ \E c \in Contents : Allocate(c)
  <2>1. \A c \in Contents : StaysQuiet(c)
    BY <1>2, <1>4, TaskQuiet, FetchQuiet, WatchQuiet, DestroyQuiet, AllocateQuiet
  <2>2. PlayerShape'
    BY <1>2, <1>4, ShapeTask, ShapeOther
  <2>3. UNCHANGED <<disk, queue, work, user>>
    BY <1>4, PlayerRest
  <2>4. TableRows' /\ CutOK' /\ CacheQuiet' /\ RowsQuiet' /\ PauseFirst'
    BY <1>1, <1>4, <2>1, <2>3, PlayerStops
  <2> QED BY <1>1, <2>2, <2>4 DEF StopInv
<1>5. CASE UNCHANGED playVars
  <2>1. /\ UNCHANGED <<disk, queue, work, user>> /\ UNCHANGED <<savePath, paused, watchFile>>
        /\ UNCHANGED <<screen, task, cut, disturbed, table, torrentFile, open, asked, doubted>>
    BY <1>5 DEF playVars, vars, session, disk, user, prefs, player, history
  <2>2. TableRows'
    BY <1>1, <2>1, TableRowsSame DEF StopInv, PlayInv, Service
  <2>3. PlayerShape' /\ CutOK'
    BY <2>1 DEF StopInv, PlayerShape, CutOK
  <2>4. /\ \A c : Quiet(c)' = Quiet(c) /\ RowCovers(c)' = RowCovers(c)
        /\ \A d : Settled(d)' = Settled(d) /\ Alone(d)' = Alone(d)
                  /\ At("resumeRow", d)' = At("resumeRow", d)
        /\ Reconciled' = Reconciled /\ RowsOf' = RowsOf
    BY <2>1 DEF Quiet, Stops, Plays, gTorrents, RowCovers, Covers, Settled, Busy, At, Alone,
                Reconciled, RowsOf
  <2>5. CacheQuiet' /\ RowsQuiet' /\ PauseFirst'
    BY <2>1, <2>4 DEF StopInv, CacheQuiet, RowsQuiet, PauseFirst
  <2> QED BY <1>1, <2>2, <2>3, <2>5 DEF StopInv
<1> QED BY <1>1, <1>3, <1>4, <1>5, DieStops DEF PlayNext

LEMMA StopInit == PlayInit => StopInv
<1> SUFFICES ASSUME PlayInit PROVE StopInv
  OBVIOUS
<1>1. PlayInv
  BY PlayInitInv
<1>2. Init /\ task = NoTask /\ ~task.own /\ task.at = "none"
  BY NewTasks DEF PlayInit
<1>3. work = Idle /\ queue = <<>> /\ open = FALSE /\ savePath = [c \in Contents |-> Nowhere]
  BY <1>2 DEF Init, SessionInit
<1>4. TypeOK /\ IInv /\ FilesOK /\ RowsFirst /\ CopiesOK
  BY <1>2, InitRows DEF RowsInv, RInv
<1>5. HasFile /\ LoopOK /\ ResumeOK
  BY <1>3 DEF HasFile, Settled, Reconciled, LoopOK, ResumeOK, Resumes, At, Idle
<1>6. PlayerShape /\ CutOK
  BY <1>2 DEF PlayerShape, CutOK, Preparing
<1>7. CacheQuiet /\ RowsQuiet /\ PauseFirst
  BY <1>3, PlaceTypes DEF CacheQuiet, RowsQuiet, PauseFirst, Settled, Reconciled
<1> QED BY <1>1, <1>4, <1>5, <1>6, <1>7 DEF StopInv, TableRows, TableInv, IInv

LEMMA StopInvariant == PlaySpec => []StopInv
<1>1. StopInv /\ [PlayNext]_playVars => StopInv'
  BY StopNext
<1> QED BY <1>1, StopInit, PTL DEF PlaySpec

\* Without a player and its LOAD nothing plays.
LEMMA RestQuiet ==
    ASSUME AtRest, NEW c \in gTorrents, Quiet(c)
    PROVE  c \in paused \cup cut \/ (disturbed /\ savePath[c] = CacheDir)
BY DEF AtRest, Quiet, Stops, Plays

(* For any number of players, requests, exits and deaths: a torrent in the  *)
(* cache that no row stands for is paused when no player is open, unless    *)
(* its player was left during the preparation.                              *)
THEOREM WatchedStops == PlaySpec => []WatchNowStops
<1>1. ASSUME StopInv, AtRest, ~disturbed, NEW c \in gTorrents, savePath[c] = CacheDir,
             \A d \in RowsOf : ContentOf[d] # c
      PROVE  c \in paused \cup cut
  <2>1. c \in Contents /\ ~RowCovers(c)
    BY <1>1 DEF gTorrents, RowCovers, Covers
  <2>2. Quiet(c)
    BY <1>1, <2>1 DEF StopInv, CacheQuiet
  <2> QED BY <1>1, <2>2, RestQuiet
<1>2. StopInv => WatchNowStops
  BY <1>1 DEF WatchNowStops
<1> QED BY <1>2, StopInvariant, PTL

(* A download whose row says "paused" is paused when no player is open,     *)
(* whatever was watched of it and whatever the manager did meanwhile.       *)
THEOREM PausedIsPausedAgain == PlaySpec => []PausedAgain
<1>1. ASSUME StopInv, AtRest, Steady, NEW d \in RowsIn(PAUSED) \ doubted, Alone(d),
             ContentOf[d] \in gTorrents
      PROVE  \/ ContentOf[d] \in paused \cup cut
             \/ disturbed /\ savePath[ContentOf[d]] = CacheDir
  <2>1. d \in RowsOf /\ table[d] = PAUSED /\ d \in Downloads
    BY <1>1 DEF RowsIn, RowsOf, PAUSED, NoRow
  <2>2. Settled(d) /\ ~At("resumeRow", d)
    BY <1>1, <2>1, SteadyRows
  <2>3. Quiet(ContentOf[d])
    BY <1>1, <2>1, <2>2 DEF StopInv, RowsQuiet
  <2> QED BY <1>1, <2>3, RestQuiet
<1>2. StopInv => PausedAgain
  BY <1>1 DEF PausedAgain
<1> QED BY <1>2, StopInvariant, PTL
=============================================================================
