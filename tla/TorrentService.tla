--------------------------- MODULE TorrentService ---------------------------
(***************************************************************************)
(* The download manager: the IntentService that owns the Downloads table,  *)
(* the download directories and, through LibTorrent, the running torrents. *)
(*                                                                         *)
(* One worker handles the intents one after the other.  Each of its steps  *)
(* is one call that outlives it (a database write, a file operation, a JNI *)
(* call, a write of the preferences), and the process may be killed before *)
(* any of them: the table, the files and the preferences stay, the queue   *)
(* and the torrents are lost.  An exit of the user, on the contrary, kills *)
(* nothing: the worker goes on, the torrents stay.  Either way the next    *)
(* start of the application sends ACTION_INIT.                             *)
(***************************************************************************)
EXTENDS LibTorrent, Sequences, FiniteSets

CONSTANTS
    MaxDownloads,   \* bound: downloads the user asks for
    LocalDownloads, \* those whose torrentUrl is a file:// URL
    ContentOf,      \* the content of the torrent behind each download
    MaxRequests,    \* bound: other requests of the user
    MaxEnds         \* bound: exits of the user and deaths of the process

Downloads == 1 .. MaxDownloads  \* a row of the table and its directory
CacheDir  == 0

ASSUME DownloadAssumption ==
    /\ MaxDownloads \in Nat /\ MaxRequests \in Nat /\ MaxEnds \in Nat
    /\ LocalDownloads \subseteq Downloads
    /\ ContentOf \in [Downloads -> Contents]
    /\ Places = Downloads \cup {CacheDir}

DOWNLOADING == "downloading"
PAUSED      == "paused"
NoRow       == "no row"

VARIABLES
    \* what survives the process
    table,        \* the state column of every row of the Downloads table
    directories,  \* the download directories that exist
    torrentFile,  \* the torrent file in each of them: none, broken or whole
    lastContent,  \* LAST_CONTENT, the content last watched without downloading
    cached,       \* the contents whose video file is in the cache directory
    \* the service
    queue,        \* intents delivered and not handled
    work,         \* what the worker is doing
    \* the user
    open,         \* MainActivity is open
    asked,        \* downloads asked for
    requests, exits, kills,
    doubted       \* history: rows whose last pause or resume carried an old state

disk   == <<table, directories, torrentFile>>
cache  == <<lastContent, cached>>
counts == <<requests, exits, kills>>
user   == <<open, asked, counts, doubted>>
vars   == <<session, disk, cache, queue, work, user>>

RowsOf == {d \in Downloads : table[d] # NoRow}
RowsIn(state) == {d \in Downloads : table[d] = state}

Loops == {"init", "resumeAll", "pauseAll", "removeAll"}

\* The worker runs the intent "action" and stands before its step "at", with
\* the row it works on, the state in its copy of the row, and the rows its
\* cursor has still to give.
Idle == [action |-> "none", at |-> "idle", row |-> 0, state |-> NoRow, rest |-> {}]
At(label, d) == work.at = label /\ work.row = d
Goto(label)  == work' = [work EXCEPT !.at = label]
Return == IF work.action \in Loops THEN Goto("next") ELSE work' = Idle

\* The name GetTorrentName finds in the torrent file of d.
NameOf(d) == IF torrentFile[d] = "whole" THEN ContentOf[d] ELSE NoName

Intent(action, d, state) == [action |-> action, row |-> d, state |-> state]
ActionInit == Intent("init", 0, NoRow)

Init ==
    /\ SessionInit
    /\ table = [d \in Downloads |-> NoRow]
    /\ directories = {}
    /\ torrentFile = [d \in Downloads |-> "none"]
    /\ \/ lastContent = NoName /\ cached = {}
       \/ \E c \in Contents : lastContent = c /\ cached \in {{}, {c}}
    /\ queue = <<>>
    /\ work = Idle
    /\ open = FALSE /\ asked = {} /\ doubted = {}
    /\ requests = 0 /\ exits = 0 /\ kills = 0

-----------------------------------------------------------------------------
(* Requests, from the screens.                                              *)

\* handleDownload makes the directory at once; the service does the rest.
HandleDownload(d) ==
    /\ d \notin asked /\ 1 .. d - 1 \subseteq asked
    /\ asked' = asked \cup {d}
    /\ directories' = directories \cup {d}
    /\ queue' = Append(queue, Intent("add", d, DOWNLOADING))
    /\ UNCHANGED <<session, table, torrentFile, cache, work, open, counts, doubted>>

Request(intent) ==
    /\ requests < MaxRequests
    /\ requests' = requests + 1
    /\ queue' = Append(queue, intent)
    /\ UNCHANGED <<session, disk, cache, work, open, asked, exits, kills, doubted>>

\* The intent carries a copy of the row as the screen has read it.
RequestRow ==
    \E d \in RowsOf, action \in {"remove", "resume", "pause"} :
        Request(Intent(action, d, table[d]))

RequestAll ==
    \E action \in {"resumeAll", "pauseAll", "removeAll"} :
        Request(Intent(action, 0, NoRow))

-----------------------------------------------------------------------------
(* The worker: the loops over the table.                                    *)

\* The rows the cursor of an intent gives.
CursorOf(action) ==
    CASE action = "resumeAll" -> RowsIn(PAUSED)
      [] action = "pauseAll"  -> RowsIn(DOWNLOADING)
      [] action \in {"init", "removeAll"} -> RowsOf
      [] OTHER -> {}

OnHandleIntent ==
    /\ work = Idle /\ queue # <<>>
    /\ queue' = Tail(queue)
    /\ LET i == Head(queue) IN
       work' = [action |-> i.action, at |-> IF i.action \in Loops THEN "next" ELSE i.action,
                row |-> i.row, state |-> i.state, rest |-> CursorOf(i.action)]
    /\ UNCHANGED <<session, disk, cache, user>>

\* The first step of the body of each loop.
BodyOf == [init |-> "initRow", resumeAll |-> "resume", pauseAll |-> "pause",
           removeAll |-> "removeEach"]

NextRow_SameRow(d) ==
    /\ work.at = "next" /\ d \in work.rest
    /\ work' = [work EXCEPT !.at = BodyOf[work.action], !.row = d, !.state = table[d]]
    /\ UNCHANGED <<session, disk, cache, queue, user>>

\* populate: the copy of the row the cursor stands on.
NextRow(d) ==
    /\ work.at = "next" /\ d \in work.rest
    /\ work' = [work EXCEPT !.at = BodyOf[work.action], !.row = d, !.state = table[d],
                            !.rest = @ \ {d}]
    /\ UNCHANGED <<session, disk, cache, queue, user>>

\* removeAll goes on only if the cursor had a row.
NoMoreRows ==
    /\ work.at = "next" /\ work.rest = {}
    /\ IF work.action = "removeAll" /\ RowsOf # {} THEN Goto("deleteRows") ELSE work' = Idle
    /\ UNCHANGED <<session, disk, cache, queue, user>>

-----------------------------------------------------------------------------
(* The worker: init.                                                        *)

InitChecks_NewOnly(d) ==
    d \in directories /\ torrentFile[d] # "none" /\ ContentOf[d] \notin gTorrents

\* What init wants of a row before it adds the torrent again.
InitChecks(d) == d \in directories /\ torrentFile[d] # "none"

InitRow(d) ==
    /\ At("initRow", d)
    /\ IF InitChecks(d)
         THEN AddTorrent(d, NameOf(d)) /\ Goto("initName") /\ UNCHANGED table
         ELSE /\ table' = [table EXCEPT ![d] = NoRow]
              /\ Goto("deleteDirectory")
              /\ UNCHANGED session
    /\ UNCHANGED <<directories, torrentFile, cache, queue, user>>

RestoreState_Running(d) == UNCHANGED session

\* A row that was paused before the restart stays paused.
RestoreState(d) ==
    IF work.state = PAUSED THEN PauseTorrent(NameOf(d)) ELSE UNCHANGED session

InitName(d) ==
    /\ At("initName", d)
    /\ IF NameOf(d) = NoName
         THEN /\ table' = [table EXCEPT ![d] = NoRow]
              /\ Goto("deleteDirectory")
              /\ UNCHANGED session
         ELSE RestoreState(d) /\ Return /\ UNCHANGED table
    /\ UNCHANGED <<directories, torrentFile, cache, queue, user>>

\* The last step of init for a bad row, of a failed add and of remove.
DeleteDirectory(d) ==
    /\ At("deleteDirectory", d)
    /\ directories' = directories \ {d}
    /\ torrentFile' = [torrentFile EXCEPT ![d] = "none"]
    /\ Return
    /\ UNCHANGED <<session, table, cache, queue, user>>

-----------------------------------------------------------------------------
(* The worker: add.                                                         *)

AddInsert(d) ==
    /\ At("add", d)
    /\ table' = [table EXCEPT ![d] = DOWNLOADING]
    /\ Goto("fetch")
    /\ UNCHANGED <<session, directories, torrentFile, cache, queue, user>>

\* The torrent file arrives, whatever the server has sent.  A local copy makes
\* the directory it needs, a download over http does not.
Fetch(d, file) ==
    /\ At("fetch", d) /\ d \in directories \cup LocalDownloads
    /\ directories' = directories \cup {d}
    /\ torrentFile' = [torrentFile EXCEPT ![d] = file]
    /\ Goto("checkLast")
    /\ UNCHANGED <<session, table, cache, queue, user>>

CopyFails_KeepRow(d) ==
    /\ At("fetch", d) /\ d \in LocalDownloads
    /\ Return
    /\ UNCHANGED <<session, disk, cache, queue, user>>

\* The row of a copy that failed is deleted and its directory stays.
CopyFails(d) ==
    /\ At("fetch", d) /\ d \in LocalDownloads
    /\ table' = [table EXCEPT ![d] = NoRow]
    /\ Return
    /\ UNCHANGED <<session, directories, torrentFile, cache, queue, user>>

\* A download that failed leaves what it has written and is tried again; one
\* that never connected changes nothing.
LoadFails(d) ==
    /\ At("fetch", d) /\ d \in directories \ LocalDownloads
    /\ torrentFile' = [torrentFile EXCEPT ![d] = "broken"]
    /\ UNCHANGED <<session, table, directories, cache, queue, work, user>>

CheckLast(d) ==
    /\ At("checkLast", d)
    /\ Goto(IF NameOf(d) # NoName /\ NameOf(d) = lastContent THEN "removeLast"
                                                           ELSE "addTorrent")
    /\ UNCHANGED <<session, disk, cache, queue, user>>

RemoveLast(d) ==
    /\ At("removeLast", d)
    /\ RemoveTorrent(NameOf(d))
    /\ Goto("moveLast")
    /\ UNCHANGED <<disk, cache, queue, user>>

\* The video moves to the directory of the download, the cache is cleared.
MoveLast(d) ==
    /\ At("moveLast", d)
    /\ cached' = {}
    /\ Goto("forgetLast")
    /\ UNCHANGED <<session, disk, lastContent, queue, user>>

ForgetLast(d) ==
    /\ At("forgetLast", d)
    /\ lastContent' = NoName
    /\ Goto("addTorrent")
    /\ UNCHANGED <<session, disk, cached, queue, user>>

AfterAdd_KeepDirectory == work' = Idle

\* A torrent file that cannot be read takes its directory with it.
AfterAdd == Goto("deleteDirectory")

AddTorrentOf(d) ==
    /\ At("addTorrent", d)
    /\ AddTorrent(d, NameOf(d))
    /\ IF NameOf(d) # NoName
         THEN Return /\ UNCHANGED table
         ELSE AfterAdd /\ table' = [table EXCEPT ![d] = NoRow]
    /\ UNCHANGED <<directories, torrentFile, cache, queue, user>>

-----------------------------------------------------------------------------
(* The worker: remove and removeAll.                                        *)

RemoveFirst_Nothing(d) == UNCHANGED session

\* The torrent stops before anything of it is deleted.
RemoveFirst(d) == RemoveTorrent(NameOf(d))

Remove(d) ==
    /\ At("remove", d)
    /\ RemoveFirst(d)
    /\ Goto("deleteRow")
    /\ UNCHANGED <<disk, cache, queue, user>>

DeleteRow(d) ==
    /\ At("deleteRow", d)
    /\ table' = [table EXCEPT ![d] = NoRow]
    /\ Goto("deleteDirectory")
    /\ UNCHANGED <<session, directories, torrentFile, cache, queue, user>>

RemoveEach(d) ==
    /\ At("removeEach", d)
    /\ RemoveTorrent(NameOf(d))
    /\ Return
    /\ UNCHANGED <<disk, cache, queue, user>>

DeleteRows ==
    /\ work.at = "deleteRows"
    /\ table' = [d \in Downloads |-> NoRow]
    /\ Goto("clearDownloads")
    /\ UNCHANGED <<session, directories, torrentFile, cache, queue, user>>

\* Every download directory, also of a download whose intent is still queued.
ClearDownloads ==
    /\ work.at = "clearDownloads"
    /\ directories' = {}
    /\ torrentFile' = [d \in Downloads |-> "none"]
    /\ work' = Idle
    /\ UNCHANGED <<session, table, cache, queue, user>>

-----------------------------------------------------------------------------
(* The worker: pause and resume, of one row or in a loop.  The torrent is   *)
(* changed first, then the row, and the row only when the copy of it in the *)
(* intent says that there is something to change.                           *)

Pause(d) ==
    /\ At("pause", d)
    /\ PauseTorrent(NameOf(d))
    /\ Goto("pauseRow")
    /\ UNCHANGED <<disk, cache, queue, user>>

Resume(d) ==
    /\ At("resume", d)
    /\ ResumeTorrent(NameOf(d))
    /\ Goto("resumeRow")
    /\ UNCHANGED <<disk, cache, queue, user>>

UpdateRow(d, from, to) ==
    table' = IF work.state = from /\ table[d] # NoRow THEN [table EXCEPT ![d] = to] ELSE table

RowChanges(d, from, to) ==
    /\ UpdateRow(d, from, to)
    /\ doubted' = IF work.state = table[d] THEN doubted \ {d} ELSE doubted \cup {d}
    /\ Return
    /\ UNCHANGED <<session, directories, torrentFile, cache, queue, open, asked, counts>>

PauseRow(d)  == At("pauseRow", d) /\ RowChanges(d, DOWNLOADING, PAUSED)
ResumeRow(d) == At("resumeRow", d) /\ RowChanges(d, PAUSED, DOWNLOADING)

-----------------------------------------------------------------------------
(* The application.                                                         *)

\* MainActivity is created: ACTION_INIT, in a process that has just begun or
\* in the one an exit has left.
Launch ==
    /\ ~open
    /\ open' = TRUE
    /\ queue' = Append(queue, ActionInit)
    /\ UNCHANGED <<session, disk, cache, work, asked, counts, doubted>>

ClearOnExit_KeepTorrent == lastContent' = NoName /\ cached' = {} /\ UNCHANGED session

\* The preference clear-on-exit: the content last watched and the cache go.
ClearOnExit == RemoveTorrent(lastContent) /\ lastContent' = NoName /\ cached' = {}

\* The activity ends and pauses the session.  AbortSession aborts nothing, so
\* that the process keeps its torrents and its queue.
Exit ==
    /\ open /\ exits + kills < MaxEnds
    /\ open' = FALSE
    /\ exits' = exits + 1
    /\ ClearOnExit \/ UNCHANGED <<session, cache>>
    /\ UNCHANGED <<disk, queue, work, asked, requests, kills, doubted>>

\* The process dies, with the session and the queue.
ProcessDies ==
    /\ open' = FALSE
    /\ savePath' = [c \in Contents |-> Nowhere] /\ paused' = {}
    /\ queue' = <<>>
    /\ work' = Idle
    /\ doubted' = {}
    /\ UNCHANGED <<disk, cache, asked, requests, exits>>

Crash ==
    /\ exits + kills < MaxEnds
    /\ kills' = kills + 1
    /\ ProcessDies

-----------------------------------------------------------------------------
RowStep(d) ==
    \/ NextRow(d) \/ InitRow(d) \/ InitName(d) \/ DeleteDirectory(d)
    \/ AddInsert(d) \/ CheckLast(d) \/ RemoveLast(d) \/ MoveLast(d) \/ ForgetLast(d)
    \/ AddTorrentOf(d) \/ Remove(d) \/ DeleteRow(d) \/ RemoveEach(d)
    \/ Pause(d) \/ Resume(d) \/ PauseRow(d) \/ ResumeRow(d)

WorkerStep ==
    \/ OnHandleIntent \/ NoMoreRows \/ DeleteRows \/ ClearDownloads
    \/ \E d \in Downloads : RowStep(d)

Network(d) == CopyFails(d) \/ LoadFails(d) \/ \E file \in {"broken", "whole"} : Fetch(d, file)

User == open /\ (RequestRow \/ RequestAll \/ \E d \in Downloads : HandleDownload(d))

Application == Launch \/ Exit \/ Crash

Next == WorkerStep \/ (\E d \in Downloads : Network(d)) \/ User \/ Application

\* The worker runs, and a server that is asked again and again answers.
Fairness ==
    /\ WF_vars(WorkerStep)
    /\ \A d \in Downloads : WF_vars(\E file \in {"broken", "whole"} : Fetch(d, file))

Spec == Init /\ [][Next]_vars /\ Fairness

-----------------------------------------------------------------------------
States == {DOWNLOADING, PAUSED}

RowLabels == {"initRow", "initName", "deleteDirectory", "add", "fetch", "checkLast",
              "removeLast", "moveLast", "forgetLast", "addTorrent", "remove", "deleteRow",
              "removeEach", "pause", "pauseRow", "resume", "resumeRow"}
Labels == RowLabels \cup {"idle", "next", "deleteRows", "clearDownloads"}
RowActions == {"add", "remove", "pause", "resume"}

Intents == [action : Loops, row : {0}, state : {NoRow}]
              \cup [action : RowActions, row : Downloads, state : States]

Works == [action : Loops \cup RowActions \cup {"none"}, at : Labels,
          row : Downloads \cup {0}, state : States \cup {NoRow}, rest : SUBSET Downloads]

DiskOK ==
    /\ table \in [Downloads -> States \cup {NoRow}]
    /\ directories \subseteq Downloads
    /\ torrentFile \in [Downloads -> {"none", "broken", "whole"}]
    /\ lastContent \in Contents \cup {NoName} /\ cached \subseteq Contents

UserOK ==
    /\ open \in BOOLEAN /\ asked \subseteq Downloads /\ doubted \subseteq Downloads
    /\ requests \in 0 .. MaxRequests
    /\ exits \in Nat /\ kills \in Nat /\ exits + kills <= MaxEnds

(* The table, the files, the torrents, the queue and the worker have their  *)
(* types; a torrent that is paused exists.                                  *)
TypeOK == SessionOK /\ DiskOK /\ queue \in Seq(Intents) /\ work \in Works /\ UserOK

(* A torrent is saved only in the directory of a row of the table, with the *)
(* torrent file that names it, at every moment: what the session downloads  *)
(* can be seen and removed by the user.                                     *)
NoStrayTorrent ==
    \A c \in gTorrents :
        /\ savePath[c] \in RowsOf \cap directories
        /\ NameOf(savePath[c]) = c

\* The application is open, its reconciliation at start is over and no intent
\* is being handled.
Steady == open /\ work = Idle /\ \A i \in 1 .. Len(queue) : queue[i] # ActionInit

\* No other download that was asked for has the same content.
Alone(d) == \A e \in asked \ {d} : ContentOf[e] # ContentOf[d]

(* Between two intents every row has its directory, its torrent file and    *)
(* its torrent, whatever an exit or the death of the process interrupted.   *)
RowsHaveTorrents ==
    Steady => \A d \in RowsOf :
        /\ d \in directories /\ torrentFile[d] = "whole"
        /\ Alone(d) => ContentOf[d] \in gTorrents

(* Between two intents a row is paused if and only if its torrent is, also  *)
(* after a restart, unless the last pause or resume of the row came with an *)
(* old copy of it.                                                          *)
StatesAgree ==
    Steady => \A d \in RowsOf \ doubted :
        Alone(d) => (table[d] = PAUSED <=> ContentOf[d] \in paused)

\* The directories of downloads the service has not begun to add.
Pending == {d \in Downloads : \E i \in 1 .. Len(queue) : queue[i] = Intent("add", d, DOWNLOADING)}

(* Unless the process died or a local copy failed, a directory without a    *)
(* row is one whose download is still queued: no disk space is lost.        *)
DirectoriesHaveRows ==
    work = Idle /\ kills = 0 => directories \subseteq RowsOf \cup Pending \cup LocalDownloads

\* The directory of the download went while its intent was queued: the loop of
\* add never leaves this state.
WaitsForever ==
    work.at = "fetch" /\ work.row \notin directories \cup LocalDownloads

(* Every intent is handled, provided that the network answers in the end    *)
(* and the directory of the download being added is still there.            *)
QueueDrains == []<>((work = Idle /\ queue = <<>>) \/ WaitsForever)

(* A content that is downloaded is no longer remembered as the one last     *)
(* watched, whose torrent the next "watch now" removes.                     *)
LastWatchedIsNoDownload ==
    Steady => \A d \in RowsOf : NameOf(d) # lastContent
=============================================================================
