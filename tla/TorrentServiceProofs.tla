------------------------ MODULE TorrentServiceProofs ------------------------
(***************************************************************************)
(* For every number of downloads, contents, requests, exits and deaths of  *)
(* the process: the types are right, and no torrent is saved outside of the *)
(* directory of a row (NoStrayTorrent).  The second is not inductive: it   *)
(* needs to know where the worker stands when it deletes a row, a          *)
(* directory or a torrent file, and that the queue asks for each download  *)
(* only once.                                                              *)
(*                                                                         *)
(* With that invariant the download manager implements DownloadLife; and   *)
(* between two intents of an application that has been reconciled every    *)
(* row has its torrent file and its torrent, both agree on whether the     *)
(* download is paused, and no directory is left without a row.  To the     *)
(* invariant the refinement adds where the torrent files are: a download   *)
(* that is still to be fetched has no readable one, and the files that are *)
(* deleted are those of no row.                                            *)
(*                                                                         *)
(* The last part says what holds of the table whatever else adds torrents  *)
(* to the session, for PlaybackProofs.                                     *)
(***************************************************************************)
EXTENDS TorrentServiceRefinement, TLAPS

\* The steps of add between the insertion of the row and the end.
Inserted == {"fetch", "checkLast", "removeLast", "moveLast", "forgetLast", "addTorrent"}
WithFile  == Inserted \ {"fetch"}

(* The labels of a loop belong to its intent.                               *)
LabelsOK ==
    /\ work.at \in RowLabels => work.row \in Downloads
    /\ work.at = "next" => work.action \in Loops
    /\ work.at \in {"initRow", "initName"} => work.action = "init"
    /\ work.at \in {"removeEach", "deleteRows", "clearDownloads"} => work.action = "removeAll"
    /\ work.action = "removeAll" =>
            work.at \in {"next", "removeEach", "deleteRows", "clearDownloads"}
    /\ work.at \in {"add", "remove", "deleteRow"} \cup Inserted => work.action \notin Loops

\* Element i of the queue asks to add download d.
Adds(i, d) == queue[i].action = "add" /\ queue[i].row = d

(* A download is asked for once and added once.                             *)
AddsOK ==
    /\ RowsOf \subseteq asked
    /\ \A i \in 1 .. Len(queue), d \in Downloads :
          Adds(i, d) => d \in asked /\ table[d] = NoRow
    /\ \A i, j \in 1 .. Len(queue), d \in Downloads : Adds(i, d) /\ Adds(j, d) => i = j
    /\ work.at = "add" =>
          /\ work.row \in asked /\ table[work.row] = NoRow
          /\ \A i \in 1 .. Len(queue) : ~Adds(i, work.row)

(* The row being added is in the table, and its directory exists from the   *)
(* moment the torrent file is there.                                        *)
RowAdded ==
    /\ work.at \in Inserted => table[work.row] # NoRow
    /\ work.at \in WithFile => work.row \in directories

(* Nothing is saved yet, or any more, in the directory the worker fills or  *)
(* deletes.                                                                 *)
Vacant ==
    work.at \in {"add", "deleteRow", "deleteDirectory"} \cup Inserted =>
        \A c \in Contents : savePath[c] # work.row

(* The rows init has not seen are still in the table.                       *)
CursorOK ==
    work.action = "init" =>
        /\ work.rest \subseteq RowsOf
        /\ work.at = "initRow" => table[work.row] # NoRow
        /\ work.at \in {"initRow", "initName"} => work.row \notin work.rest

(* removeAll has removed the torrents of the rows it has seen.              *)
RemovedSoFar ==
    work.action = "removeAll" =>
        \A c \in gTorrents :
            \/ work.at \in {"next", "removeEach"} /\ savePath[c] \in work.rest
            \/ work.at = "removeEach" /\ savePath[c] = work.row

\* What the table, the directories and the queue say without the session.
TableOK == LabelsOK /\ AddsOK /\ RowAdded

IInv == TableOK /\ Vacant /\ CursorOK /\ RemovedSoFar /\ NoStrayTorrent

-----------------------------------------------------------------------------
(* The session: a torrent is added in one place or nothing moves.           *)

LEMMA NameType ==
    ASSUME NEW d \in Downloads
    PROVE  NameOf(d) = NoName \/ (NameOf(d) = ContentOf[d] /\ NameOf(d) \in Contents)
BY DownloadAssumption DEF NameOf

LEMMA AddType ==
    ASSUME SessionOK, NEW place \in Places, NEW name, AddTorrent(place, name)
    PROVE  SessionOK'
BY PlaceAssumption DEF SessionOK, AddTorrent, gTorrents, session

LEMMA RemoveType ==
    ASSUME SessionOK, NEW name, RemoveTorrent(name)
    PROVE  SessionOK'
BY PlaceAssumption DEF SessionOK, RemoveTorrent, gTorrents, session

LEMMA PauseType ==
    ASSUME SessionOK, NEW name, PauseTorrent(name) \/ ResumeTorrent(name)
    PROVE  SessionOK'
BY DEF SessionOK, PauseTorrent, ResumeTorrent, gTorrents

LEMMA RestoreType ==
    ASSUME SessionOK, NEW d, RestoreState(d)
    PROVE  SessionOK'
<1>1. CASE work.state = PAUSED
  BY <1>1, PauseType DEF RestoreState
<1>2. CASE work.state # PAUSED
  BY <1>2 DEF RestoreState, SessionOK, gTorrents, session
<1> QED BY <1>1, <1>2

-----------------------------------------------------------------------------
(* The worker: where a step leaves it.                                      *)

LEMMA LabelType ==
    {"idle", "next", "initName", "deleteDirectory", "fetch", "checkLast", "removeLast",
     "moveLast", "forgetLast", "addTorrent", "deleteRow", "deleteRows", "clearDownloads",
     "pauseRow", "resumeRow"} \subseteq Labels
BY DEF Labels, RowLabels

LEMMA ActionType ==
    /\ RowActions \subseteq Labels
    /\ \A action \in Loops : BodyOf[action] \in Labels
BY DEF RowActions, Loops, BodyOf, Labels, RowLabels

LEMMA GotoType ==
    ASSUME work \in Works, NEW label \in Labels, Goto(label)
    PROVE  work' \in Works
BY DEF Works, Goto

LEMMA IdleType == Idle \in Works
BY LabelType DEF Works, Idle

LEMMA ReturnType ==
    ASSUME work \in Works, Return
    PROVE  work' \in Works
BY LabelType, GotoType, IdleType DEF Return

LEMMA RowType ==
    ASSUME DiskOK, NEW d, d \in RowsOf
    PROVE  d \in Downloads /\ table[d] \in States
BY DEF DiskOK, RowsOf

LEMMA CursorType ==
    ASSUME NEW action \in Loops \cup RowActions
    PROVE  CursorOf(action) \subseteq Downloads
BY DEF CursorOf, RowsIn, RowsOf, Loops, RowActions

LEMMA IntentType ==
    /\ \A action \in Loops : Intent(action, 0, NoRow) \in Intents
    /\ \A action \in RowActions, d \in Downloads, state \in States :
            Intent(action, d, state) \in Intents
BY DEF Intent, Intents

LEMMA InitIntentType == ActionInit \in Intents
BY IntentType DEF ActionInit, Loops

LEMMA QueueType ==
    ASSUME queue \in Seq(Intents), NEW i \in Intents, queue' = Append(queue, i)
    PROVE  queue' \in Seq(Intents)
OBVIOUS

-----------------------------------------------------------------------------
(* Types.                                                                   *)

LEMMA BoundType == MaxRequests \in Nat /\ MaxEnds \in Nat
BY DownloadAssumption

LEMMA InitType == Init => TypeOK
<1> SUFFICES ASSUME Init PROVE TypeOK
  OBVIOUS
<1>1. SessionOK
  BY DEF Init, SessionInit, SessionOK, gTorrents
<1>2. DiskOK
  BY DEF Init, DiskOK
<1>3. queue \in Seq(Intents)
  BY DEF Init
<1>4. work \in Works
  BY IdleType DEF Init
<1>5. UserOK
  <2>1. open \in BOOLEAN
    BY DEF Init
  <2>2. asked = {} /\ doubted = {} /\ requests = 0 /\ exits = 0 /\ kills = 0
    BY DEF Init
  <2> QED BY <2>1, <2>2, BoundType DEF UserOK
<1> QED BY <1>1, <1>2, <1>3, <1>4, <1>5 DEF TypeOK

\* What a step leaves alone keeps its type.
LEMMA Unchanged ==
    /\ SessionOK /\ UNCHANGED session => SessionOK'
    /\ DiskOK /\ UNCHANGED <<disk, cache>> => DiskOK'
    /\ UserOK /\ UNCHANGED user => UserOK'
BY DEF SessionOK, gTorrents, session, DiskOK, disk, cache, UserOK, user, counts

LEMMA RowStepType ==
    ASSUME TypeOK, LabelsOK, NEW d \in Downloads, RowStep(d)
    PROVE  TypeOK'
<1> USE DEF TypeOK
<1>1. CASE NextRow(d)
  <2>1. BodyOf[work.action] \in Labels
    BY <1>1, ActionType DEF NextRow, LabelsOK
  <2>2. work' \in Works
    BY <1>1, <2>1 DEF NextRow, Works, DiskOK
  <2> QED BY <1>1, <2>2, Unchanged DEF NextRow
<1>2. CASE InitRow(d)
  <2>1. SessionOK'
    BY <1>2, AddType, Unchanged, DownloadAssumption DEF InitRow
  <2>2. DiskOK'
    BY <1>2 DEF InitRow, DiskOK, cache
  <2>3. work' \in Works
    BY <1>2, GotoType, LabelType DEF InitRow
  <2> QED BY <1>2, <2>1, <2>2, <2>3, Unchanged DEF InitRow
<1>3. CASE InitName(d)
  <2>1. SessionOK'
    BY <1>3, RestoreType, Unchanged DEF InitName
  <2>2. DiskOK'
    BY <1>3 DEF InitName, DiskOK, cache
  <2>3. work' \in Works
    BY <1>3, GotoType, ReturnType, LabelType DEF InitName
  <2> QED BY <1>3, <2>1, <2>2, <2>3, Unchanged DEF InitName
<1>4. CASE DeleteDirectory(d)
  <2>1. DiskOK'
    BY <1>4 DEF DeleteDirectory, DiskOK, cache
  <2> QED BY <1>4, <2>1, ReturnType, Unchanged DEF DeleteDirectory
<1>5. CASE AddInsert(d)
  <2>1. DiskOK'
    BY <1>5 DEF AddInsert, DiskOK, cache, States
  <2> QED BY <1>5, <2>1, GotoType, LabelType, Unchanged DEF AddInsert
<1>6. CASE CheckLast(d)
  BY <1>6, GotoType, LabelType, Unchanged DEF CheckLast, disk, cache
<1>7. CASE RemoveLast(d)
  BY <1>7, RemoveType, GotoType, LabelType, Unchanged DEF RemoveLast, disk, cache
<1>8. CASE MoveLast(d)
  <2>1. DiskOK'
    BY <1>8 DEF MoveLast, DiskOK, disk
  <2> QED BY <1>8, <2>1, GotoType, LabelType, Unchanged DEF MoveLast
<1>9. CASE ForgetLast(d)
  <2>1. DiskOK'
    BY <1>9 DEF ForgetLast, DiskOK, disk
  <2> QED BY <1>9, <2>1, GotoType, LabelType, Unchanged DEF ForgetLast
<1>10. CASE AddTorrentOf(d)
  <2>1. SessionOK'
    BY <1>10, AddType, DownloadAssumption DEF AddTorrentOf
  <2>2. DiskOK'
    BY <1>10 DEF AddTorrentOf, DiskOK, cache
  <2>3. work' \in Works
    BY <1>10, GotoType, ReturnType, LabelType DEF AddTorrentOf, AfterAdd
  <2> QED BY <1>10, <2>1, <2>2, <2>3, Unchanged DEF AddTorrentOf
<1>11. CASE Remove(d)
  BY <1>11, RemoveType, GotoType, LabelType, Unchanged DEF Remove, RemoveFirst, disk, cache
<1>12. CASE DeleteRow(d)
  <2>1. DiskOK'
    BY <1>12 DEF DeleteRow, DiskOK, cache
  <2> QED BY <1>12, <2>1, GotoType, LabelType, Unchanged DEF DeleteRow
<1>13. CASE RemoveEach(d)
  BY <1>13, RemoveType, ReturnType, Unchanged DEF RemoveEach, disk, cache
<1>14. CASE Pause(d)
  BY <1>14, PauseType, GotoType, LabelType, Unchanged DEF Pause, disk, cache
<1>15. CASE Resume(d)
  BY <1>15, PauseType, GotoType, LabelType, Unchanged DEF Resume, disk, cache
<1>16. CASE PauseRow(d) \/ ResumeRow(d)
  <2>1. PICK from, to \in States : RowChanges(d, from, to)
    BY <1>16 DEF PauseRow, ResumeRow, States
  <2>2. DiskOK'
    BY <2>1 DEF RowChanges, UpdateRow, DiskOK, cache
  <2>3. UserOK'
    BY <2>1 DEF RowChanges, UserOK, counts
  <2> QED BY <2>1, <2>2, <2>3, ReturnType, Unchanged DEF RowChanges
<1> QED
  BY <1>1, <1>2, <1>3, <1>4, <1>5, <1>6, <1>7, <1>8, <1>9, <1>10, <1>11, <1>12, <1>13,
     <1>14, <1>15, <1>16 DEF RowStep

LEMMA WorkerStepType ==
    ASSUME TypeOK, LabelsOK, WorkerStep
    PROVE  TypeOK'
<1> USE DEF TypeOK
<1>1. CASE OnHandleIntent
  <2>1. Head(queue) \in Intents /\ queue' \in Seq(Intents)
    BY <1>1 DEF OnHandleIntent
  <2>2. CursorOf(Head(queue).action) \subseteq Downloads
    BY <2>1, CursorType DEF Intents
  <2>3. Head(queue).action \in Loops \/ Head(queue).action \in Labels
    BY <2>1, ActionType DEF Intents
  <2>4. work' \in Works
    BY <1>1, <2>1, <2>2, <2>3, LabelType DEF OnHandleIntent, Works, Intents
  <2> QED BY <1>1, <2>1, <2>4, Unchanged DEF OnHandleIntent
<1>2. CASE NoMoreRows
  BY <1>2, GotoType, IdleType, LabelType, Unchanged DEF NoMoreRows
<1>3. CASE DeleteRows
  <2>1. DiskOK'
    BY <1>3 DEF DeleteRows, DiskOK, cache
  <2> QED BY <1>3, <2>1, GotoType, LabelType, Unchanged DEF DeleteRows
<1>4. CASE ClearDownloads
  <2>1. DiskOK'
    BY <1>4 DEF ClearDownloads, DiskOK, cache
  <2> QED BY <1>4, <2>1, IdleType, Unchanged DEF ClearDownloads
<1> QED BY <1>1, <1>2, <1>3, <1>4, RowStepType DEF WorkerStep

LEMMA OtherStepType ==
    ASSUME TypeOK, (\E d \in Downloads : Network(d)) \/ User \/ Application
    PROVE  TypeOK'
<1> USE DEF TypeOK
<1>1. ASSUME NEW d \in Downloads, CopyFails(d) PROVE TypeOK'
  <2>1. DiskOK'
    BY <1>1 DEF CopyFails, DiskOK, cache
  <2> QED BY <1>1, <2>1, ReturnType, Unchanged DEF CopyFails
<1>2. ASSUME NEW d \in Downloads, LoadFails(d) PROVE TypeOK'
  <2>1. DiskOK'
    BY <1>2 DEF LoadFails, DiskOK, cache
  <2> QED BY <1>2, <2>1, Unchanged DEF LoadFails
<1>3. ASSUME NEW d \in Downloads, NEW file \in {"broken", "whole"}, Fetch(d, file)
      PROVE  TypeOK'
  <2>1. DiskOK'
    BY <1>3 DEF Fetch, DiskOK, cache
  <2> QED BY <1>3, <2>1, GotoType, LabelType, Unchanged DEF Fetch
<1>4. ASSUME NEW i \in Intents, Request(i) PROVE TypeOK'
  <2>1. UserOK'
    BY <1>4, DownloadAssumption DEF Request, UserOK
  <2> QED BY <1>4, <2>1, QueueType, Unchanged DEF Request
<1>5. CASE RequestRow
  <2>1. PICK d \in RowsOf, action \in {"remove", "resume", "pause"} :
            Request(Intent(action, d, table[d]))
    BY <1>5 DEF RequestRow
  <2>2. d \in Downloads /\ table[d] \in States /\ action \in RowActions
    BY RowType DEF RowActions
  <2> QED BY <2>1, <2>2, <1>4, IntentType
<1>6. CASE RequestAll
  <2>1. PICK action \in {"resumeAll", "pauseAll", "removeAll"} : Request(Intent(action, 0, NoRow))
    BY <1>6 DEF RequestAll
  <2>2. action \in Loops
    BY DEF Loops
  <2> QED BY <2>1, <2>2, <1>4, IntentType
<1>7. ASSUME NEW d \in Downloads, HandleDownload(d) PROVE TypeOK'
  <2>1. DiskOK'
    BY <1>7 DEF HandleDownload, DiskOK, cache
  <2>2. UserOK'
    BY <1>7 DEF HandleDownload, UserOK, counts
  <2>3. Intent("add", d, DOWNLOADING) \in Intents
    BY IntentType DEF RowActions, States
  <2> QED BY <1>7, <2>1, <2>2, <2>3, QueueType, Unchanged DEF HandleDownload
<1>8. CASE Launch
  <2>1. UserOK'
    BY <1>8 DEF Launch, UserOK, counts
  <2> QED BY <1>8, <2>1, QueueType, InitIntentType, Unchanged DEF Launch
<1>9. CASE Exit
  <2>1. UserOK'
    <3>1. exits' + kills' <= MaxEnds
      BY <1>9, BoundType DEF Exit, UserOK
    <3>2. open' \in BOOLEAN
      BY <1>9 DEF Exit
    <3>3. UNCHANGED <<asked, doubted, requests, kills>> /\ exits' = exits + 1
      BY <1>9 DEF Exit
    <3> QED BY <3>1, <3>2, <3>3 DEF UserOK
  <2>2. SessionOK' /\ DiskOK'
    <3>1. CASE ClearOnExit
      <4>1. DiskOK'
        BY <1>9, <3>1 DEF Exit, ClearOnExit, DiskOK, disk
      <4> QED BY <3>1, <4>1, RemoveType DEF ClearOnExit
    <3>2. CASE UNCHANGED <<session, cache>>
      BY <1>9, <3>2, Unchanged DEF Exit
    <3> QED BY <1>9, <3>1, <3>2 DEF Exit
  <2> QED BY <1>9, <2>1, <2>2 DEF Exit
<1>10. CASE Crash
  <2>1. SessionOK'
    BY <1>10 DEF Crash, ProcessDies, SessionOK, gTorrents
  <2>2. DiskOK'
    BY <1>10 DEF Crash, ProcessDies, DiskOK, disk, cache
  <2>3. UserOK'
    <3>1. exits' + kills' <= MaxEnds
      BY <1>10, BoundType DEF Crash, ProcessDies, UserOK
    <3>2. open' \in BOOLEAN
      BY <1>10 DEF Crash, ProcessDies
    <3>3. UNCHANGED <<asked, requests, exits>> /\ doubted' = {} /\ kills' = kills + 1
      BY <1>10 DEF Crash, ProcessDies
    <3> QED BY <3>1, <3>2, <3>3 DEF UserOK
  <2> QED BY <1>10, <2>1, <2>2, <2>3, IdleType DEF Crash, ProcessDies
<1> QED BY <1>1, <1>2, <1>3, <1>5, <1>6, <1>7, <1>8, <1>9, <1>10 DEF Network, User, Application

LEMMA NextType ==
    ASSUME TypeOK, LabelsOK, [Next]_vars
    PROVE  TypeOK'
<1>1. CASE Next
  BY <1>1, WorkerStepType, OtherStepType DEF Next
<1>2. CASE UNCHANGED vars
  BY <1>2, Unchanged DEF vars, TypeOK
<1> QED BY <1>1, <1>2

-----------------------------------------------------------------------------
(* Labels.                                                                  *)

LEMMA InitLabels == Init => LabelsOK
BY DEF Init, LabelsOK, Idle, RowLabels, Inserted

\* A step that goes on with the same row, to a label of the same intent.
LEMMA GotoLabels ==
    ASSUME work \in Works, LabelsOK, NEW label, Goto(label),
           label \in RowLabels => work.row \in Downloads,
           label = "next" => work.action \in Loops,
           label \in {"initRow", "initName"} => work.action = "init",
           label \in {"removeEach", "deleteRows", "clearDownloads"} => work.action = "removeAll",
           work.action = "removeAll" =>
               label \in {"next", "removeEach", "deleteRows", "clearDownloads"},
           label \in {"add", "remove", "deleteRow"} \cup Inserted => work.action \notin Loops
    PROVE  LabelsOK'
BY DEF Goto, LabelsOK, Works

LEMMA IdleLabels ==
    ASSUME work' = Idle
    PROVE  LabelsOK'
BY DEF Idle, LabelsOK, RowLabels, Inserted

LEMMA ReturnLabels ==
    ASSUME work \in Works, LabelsOK, Return
    PROVE  LabelsOK'
<1>1. CASE work.action \in Loops
  BY <1>1, GotoLabels DEF Return, RowLabels, Inserted
<1>2. CASE work.action \notin Loops
  BY <1>2, IdleLabels DEF Return
<1> QED BY <1>1, <1>2

\* The steps of an add, of a remove and of a pause or a resume.
LEMMA OnceLabels ==
    ASSUME work \in Works, LabelsOK, work.action \notin Loops, work.row \in Downloads,
           NEW label \in Inserted \cup {"deleteRow", "deleteDirectory"}, Goto(label)
    PROVE  LabelsOK'
BY GotoLabels DEF Inserted, Loops

LEMMA RowStepLabels ==
    ASSUME TypeOK, LabelsOK, NEW d \in Downloads, RowStep(d)
    PROVE  LabelsOK'
<1> USE DEF TypeOK
<1>1. CASE NextRow(d)
  <2>1. work' = [work EXCEPT !.at = BodyOf[work.action], !.row = d, !.state = table[d],
                             !.rest = @ \ {d}]
    BY <1>1 DEF NextRow
  <2>2. work.action \in Loops
    BY <1>1 DEF NextRow, LabelsOK
  <2>3. work'.at = BodyOf[work.action] /\ work'.row = d /\ work'.action = work.action
    BY <2>1 DEF Works
  <2> QED BY <2>2, <2>3 DEF LabelsOK, BodyOf, Loops, Inserted
<1>2. CASE InitRow(d) \/ InitName(d)
  <2>1. work.action = "init" /\ work.row = d
    BY <1>2 DEF InitRow, InitName, At, LabelsOK
  <2>2. \/ Goto("initName") \/ Goto("deleteDirectory") \/ Return
    BY <1>2 DEF InitRow, InitName
  <2> QED BY <2>1, <2>2, GotoLabels, ReturnLabels DEF Inserted
<1>3. CASE DeleteDirectory(d) \/ RemoveEach(d) \/ PauseRow(d) \/ ResumeRow(d)
  BY <1>3, ReturnLabels DEF DeleteDirectory, RemoveEach, PauseRow, ResumeRow, RowChanges
<1>4. CASE AddInsert(d) \/ CheckLast(d) \/ RemoveLast(d) \/ MoveLast(d) \/ ForgetLast(d)
  <2>1. work.action \notin Loops /\ work.row = d
    BY <1>4 DEF AddInsert, CheckLast, RemoveLast, MoveLast, ForgetLast, At, LabelsOK, Inserted
  <2>2. \E label \in Inserted : Goto(label)
    BY <1>4 DEF AddInsert, CheckLast, RemoveLast, MoveLast, ForgetLast, Inserted
  <2> QED BY <2>1, <2>2, OnceLabels
<1>5. CASE AddTorrentOf(d)
  <2>1. work.action \notin Loops /\ work.row = d
    BY <1>5 DEF AddTorrentOf, At, LabelsOK, Inserted
  <2>2. Return \/ Goto("deleteDirectory")
    BY <1>5 DEF AddTorrentOf, AfterAdd
  <2> QED BY <2>1, <2>2, OnceLabels, ReturnLabels
<1>6. CASE Remove(d) \/ DeleteRow(d)
  <2>1. work.action \notin Loops /\ work.row = d
    BY <1>6 DEF Remove, DeleteRow, At, LabelsOK
  <2>2. Goto("deleteRow") \/ Goto("deleteDirectory")
    BY <1>6 DEF Remove, DeleteRow
  <2> QED BY <2>1, <2>2, OnceLabels
<1>7. CASE Pause(d) \/ Resume(d)
  <2>1. work.action # "removeAll" /\ work.row = d
    BY <1>7 DEF Pause, Resume, At, LabelsOK
  <2>2. Goto("pauseRow") \/ Goto("resumeRow")
    BY <1>7 DEF Pause, Resume
  <2> QED BY <2>1, <2>2, GotoLabels DEF Inserted
<1> QED BY <1>1, <1>2, <1>3, <1>4, <1>5, <1>6, <1>7 DEF RowStep

LEMMA NextLabels ==
    ASSUME TypeOK, LabelsOK, [Next]_vars
    PROVE  LabelsOK'
<1> USE DEF TypeOK
<1>1. CASE OnHandleIntent
  <2>1. Head(queue) \in Intents
    BY <1>1 DEF OnHandleIntent
  <2> DEFINE i == Head(queue)
  <2>2. /\ work'.at = IF i.action \in Loops THEN "next" ELSE i.action
        /\ work'.action = i.action /\ work'.row = i.row
    BY <1>1 DEF OnHandleIntent
  <2>3. CASE i.action \in Loops
    BY <2>2, <2>3 DEF LabelsOK, RowLabels, Inserted, Loops
  <2>4. CASE i.action \notin Loops
    <3>1. i.action \in RowActions /\ i.row \in Downloads
      BY <2>1, <2>4 DEF Intents
    <3> QED BY <2>2, <2>4, <3>1 DEF LabelsOK, RowActions, Inserted, Loops
  <2> QED BY <2>3, <2>4
<1>2. CASE NoMoreRows
  BY <1>2, GotoLabels, IdleLabels DEF NoMoreRows, RowLabels, Inserted
<1>3. CASE DeleteRows
  BY <1>3, GotoLabels DEF DeleteRows, RowLabels, Inserted, LabelsOK
<1>4. CASE ClearDownloads \/ Crash
  BY <1>4, IdleLabels DEF ClearDownloads, Crash, ProcessDies
<1>5. ASSUME NEW d \in Downloads, Network(d) PROVE LabelsOK'
  <2>1. CASE LoadFails(d)
    BY <2>1 DEF LoadFails, LabelsOK
  <2>2. CASE CopyFails(d)
    BY <2>2, ReturnLabels DEF CopyFails
  <2>3. ASSUME NEW file, Fetch(d, file) PROVE LabelsOK'
    <3>1. work.action \notin Loops /\ work.row = d
      BY <2>3 DEF Fetch, At, LabelsOK, Inserted
    <3> QED BY <2>3, <3>1, OnceLabels DEF Fetch, Inserted
  <2> QED BY <1>5, <2>1, <2>2, <2>3 DEF Network
<1>6. CASE User \/ Launch \/ Exit \/ UNCHANGED vars
  BY <1>6 DEF User, RequestRow, RequestAll, Request, HandleDownload, Launch, Exit, vars, LabelsOK
<1> QED
  BY <1>1, <1>2, <1>3, <1>4, <1>5, <1>6, RowStepLabels DEF Next, WorkerStep, Application

(* Type correctness: every variable keeps its type, in particular only      *)
(* torrents that exist are paused.                                          *)
THEOREM TypeCorrect == Spec => []TypeOK
<1>1. Init => TypeOK /\ LabelsOK
  BY InitType, InitLabels
<1>2. TypeOK /\ LabelsOK /\ [Next]_vars => (TypeOK /\ LabelsOK)'
  BY NextType, NextLabels
<1> QED BY <1>1, <1>2, PTL DEF Spec

-----------------------------------------------------------------------------
(* What the calls of the session do to the places.                          *)

LEMMA AddPlace ==
    ASSUME SessionOK, NEW place, NEW name, AddTorrent(place, name)
    PROVE  \A c \in Contents : savePath'[c] = savePath[c] \/ (c = name /\ savePath'[c] = place)
BY DEF SessionOK, AddTorrent, session

LEMMA RemovePlace ==
    ASSUME SessionOK, NEW name, RemoveTorrent(name)
    PROVE  \A c \in Contents : savePath'[c] = IF c = name THEN Nowhere ELSE savePath[c]
BY DEF SessionOK, RemoveTorrent, gTorrents, session

LEMMA SamePlace ==
    ASSUME NEW d, Pause(d) \/ Resume(d) \/ PauseRow(d) \/ ResumeRow(d) \/ InitName(d)
    PROVE  savePath' = savePath
BY DEF Pause, Resume, PauseRow, ResumeRow, RowChanges, InitName, RestoreState, PauseTorrent,
       ResumeTorrent, session

\* The places lost to a step are of no use to NoStrayTorrent.
LEMMA StrayKept ==
    ASSUME NoStrayTorrent,
           \A c \in Contents : savePath'[c] \in {savePath[c], Nowhere},
           RowsOf \subseteq RowsOf', directories \subseteq directories',
           torrentFile' = torrentFile
    PROVE  NoStrayTorrent'
BY DEF NoStrayTorrent, gTorrents, NameOf

-----------------------------------------------------------------------------
(* The induction.                                                           *)

LEMMA InitInv == Init => IInv
<1> SUFFICES ASSUME Init PROVE IInv
  OBVIOUS
<1>1. LabelsOK
  BY InitLabels
<1>2. AddsOK
  <2>1. queue = <<>> /\ RowsOf = {} /\ work.at = "idle"
    BY DEF Init, RowsOf, Idle
  <2> QED BY <2>1 DEF AddsOK, Adds
<1>3. RowAdded /\ Vacant /\ CursorOK /\ RemovedSoFar
  BY DEF Init, Idle, RowAdded, Vacant, CursorOK, RemovedSoFar, Inserted, WithFile
<1>4. NoStrayTorrent
  BY DEF Init, SessionInit, NoStrayTorrent, gTorrents
<1> QED BY <1>1, <1>2, <1>3, <1>4 DEF IInv, TableOK

\* The screens add nothing to the session and leave the worker alone.
LEMMA ScreenWork ==
    ASSUME SessionOK, User \/ Launch \/ Exit
    PROVE  /\ work' = work /\ table' = table /\ directories \subseteq directories'
           /\ \A c \in Contents : savePath'[c] \in {savePath[c], Nowhere}
<1>1. CASE User \/ Launch
  BY <1>1 DEF User, RequestRow, RequestAll, Request, HandleDownload, Launch, session, disk
<1>2. CASE Exit
  <2>1. \A c \in Contents : savePath'[c] \in {savePath[c], Nowhere}
    BY <1>2, RemovePlace DEF Exit, ClearOnExit, session
  <2> QED BY <1>2, <2>1 DEF Exit, disk
<1> QED BY <1>1, <1>2

LEMMA StrayStep ==
    ASSUME TypeOK, IInv, Next
    PROVE  NoStrayTorrent'
<1> USE DEF TypeOK, IInv, TableOK
<1>1. ASSUME NEW d \in Downloads, RowStep(d) PROVE NoStrayTorrent'
  <2>1. CASE InitRow(d)
    <3>1. CASE InitChecks(d)
      <4>1. AddTorrent(d, NameOf(d)) /\ UNCHANGED <<table, directories, torrentFile>>
        BY <2>1, <3>1 DEF InitRow
      <4>2. d \in RowsOf /\ d \in directories
        BY <2>1, <3>1 DEF InitRow, InitChecks, At, CursorOK, LabelsOK, RowsOf
      <4> QED BY <4>1, <4>2, AddPlace DEF NoStrayTorrent, gTorrents, RowsOf, NameOf
    <3>2. CASE ~InitChecks(d)
      <4>1. table' = [table EXCEPT ![d] = NoRow] /\ UNCHANGED <<savePath, directories, torrentFile>>
        BY <2>1, <3>2 DEF InitRow, session
      <4>2. \A c \in gTorrents : savePath[c] # d
        BY <3>2, ContentAssumption DEF NoStrayTorrent, InitChecks, NameOf, gTorrents
      <4> QED BY <4>1, <4>2 DEF NoStrayTorrent, gTorrents, RowsOf, NameOf, DiskOK
    <3> QED BY <3>1, <3>2
  <2>2. CASE InitName(d)
    <3>1. CASE NameOf(d) = NoName
      <4>1. table' = [table EXCEPT ![d] = NoRow] /\ UNCHANGED <<savePath, directories, torrentFile>>
        BY <2>2, <3>1, SamePlace DEF InitName
      <4>2. \A c \in gTorrents : savePath[c] # d
        BY <3>1, ContentAssumption DEF NoStrayTorrent, gTorrents
      <4> QED BY <4>1, <4>2 DEF NoStrayTorrent, gTorrents, RowsOf, NameOf, DiskOK
    <3>2. CASE NameOf(d) # NoName
      BY <2>2, <3>2, SamePlace, StrayKept DEF InitName, RowsOf
    <3> QED BY <3>1, <3>2
  <2>3. CASE DeleteDirectory(d)
    <3>1. \A c \in gTorrents : savePath[c] # d
      BY <2>3 DEF DeleteDirectory, At, Vacant, gTorrents
    <3> QED BY <2>3, <3>1 DEF DeleteDirectory, NoStrayTorrent, gTorrents, RowsOf, NameOf, session,
                              DiskOK
  <2>4. CASE AddTorrentOf(d)
    <3>1. d \in RowsOf /\ d \in directories
      BY <2>4 DEF AddTorrentOf, At, RowAdded, Inserted, WithFile, RowsOf
    <3>2. CASE NameOf(d) = NoName
      <4>1. savePath' = savePath
        BY <2>4, <3>2, ContentAssumption DEF AddTorrentOf, AddTorrent, session
      <4>2. \A c \in gTorrents : savePath[c] # d
        BY <3>2, ContentAssumption DEF NoStrayTorrent, gTorrents
      <4> QED BY <2>4, <3>2, <4>1, <4>2 DEF AddTorrentOf, NoStrayTorrent, gTorrents, RowsOf,
                                            NameOf, DiskOK
    <3>3. CASE NameOf(d) # NoName
      <4>1. AddTorrent(d, NameOf(d)) /\ UNCHANGED <<table, directories, torrentFile>>
        BY <2>4, <3>3 DEF AddTorrentOf
      <4> QED BY <3>1, <4>1, AddPlace DEF NoStrayTorrent, gTorrents, RowsOf, NameOf
    <3> QED BY <3>2, <3>3
  <2>5. CASE DeleteRow(d)
    <3>1. \A c \in gTorrents : savePath[c] # d
      BY <2>5 DEF DeleteRow, At, Vacant, gTorrents
    <3> QED BY <2>5, <3>1 DEF DeleteRow, NoStrayTorrent, gTorrents, RowsOf, NameOf, session, DiskOK
  <2>6. CASE RemoveLast(d) \/ Remove(d) \/ RemoveEach(d)
    <3>1. RemoveTorrent(NameOf(d)) /\ UNCHANGED disk
      BY <2>6 DEF RemoveLast, Remove, RemoveFirst, RemoveEach
    <3> QED BY <3>1, RemovePlace, StrayKept DEF disk, RowsOf
  <2>7. CASE Pause(d) \/ Resume(d)
    BY <2>7, SamePlace, StrayKept DEF Pause, Resume, disk, RowsOf
  <2>8. CASE PauseRow(d) \/ ResumeRow(d)
    <3>1. PICK from, to \in States : RowChanges(d, from, to)
      BY <2>8 DEF PauseRow, ResumeRow, States
    <3>2. RowsOf \subseteq RowsOf'
      BY <3>1 DEF RowChanges, UpdateRow, RowsOf, DiskOK, States, DOWNLOADING, PAUSED, NoRow
    <3> QED BY <3>1, <3>2, <2>8, SamePlace, StrayKept DEF RowChanges
  <2>9. CASE AddInsert(d)
    <3>1. RowsOf \subseteq RowsOf'
      BY <2>9 DEF AddInsert, RowsOf, DiskOK, DOWNLOADING, NoRow
    <3> QED BY <2>9, <3>1, StrayKept DEF AddInsert, session
  <2>10. CASE NextRow(d) \/ CheckLast(d) \/ MoveLast(d) \/ ForgetLast(d)
    BY <2>10, StrayKept DEF NextRow, CheckLast, MoveLast, ForgetLast, session, disk, RowsOf
  <2> QED BY <1>1, <2>1, <2>2, <2>3, <2>4, <2>5, <2>6, <2>7, <2>8, <2>9, <2>10 DEF RowStep
<1>2. CASE OnHandleIntent \/ NoMoreRows
  BY <1>2, StrayKept DEF OnHandleIntent, NoMoreRows, session, disk, RowsOf
<1>3. CASE DeleteRows \/ ClearDownloads
  <2>1. gTorrents = {}
    BY <1>3 DEF DeleteRows, ClearDownloads, LabelsOK, RemovedSoFar
  <2> QED BY <1>3, <2>1 DEF DeleteRows, ClearDownloads, NoStrayTorrent, gTorrents, session
<1>4. ASSUME NEW d \in Downloads, Network(d) PROVE NoStrayTorrent'
  <2>1. \A c \in gTorrents : savePath[c] # d
    BY <1>4 DEF Network, CopyFails, LoadFails, Fetch, At, Vacant, Inserted, gTorrents
  <2>2. savePath' = savePath /\ directories \subseteq directories'
    BY <1>4 DEF Network, CopyFails, LoadFails, Fetch, session
  <2>3. \A e \in Downloads \ {d} : table'[e] = table[e] /\ torrentFile'[e] = torrentFile[e]
    BY <1>4 DEF Network, CopyFails, LoadFails, Fetch, DiskOK
  <2> QED BY <2>1, <2>2, <2>3 DEF NoStrayTorrent, gTorrents, RowsOf, NameOf
<1>5. CASE User \/ Launch \/ Exit
  <2>1. table' = table /\ torrentFile' = torrentFile
    BY <1>5 DEF User, RequestRow, RequestAll, Request, HandleDownload, Launch, Exit, disk
  <2> QED BY <1>5, <2>1, ScreenWork, StrayKept DEF RowsOf
<1>6. CASE Crash
  BY <1>6 DEF Crash, ProcessDies, NoStrayTorrent, gTorrents
<1> QED BY <1>1, <1>2, <1>3, <1>4, <1>5, <1>6 DEF Next, WorkerStep, Application

-----------------------------------------------------------------------------
(* Where a step leaves the worker.                                          *)

LEMMA GotoWork ==
    ASSUME work \in Works, NEW label, Goto(label)
    PROVE  /\ work'.at = label /\ work'.action = work.action
           /\ work'.row = work.row /\ work'.rest = work.rest
BY DEF Goto, Works

LEMMA ReturnWork ==
    ASSUME work \in Works, Return
    PROVE  \/ /\ work'.at = "next" /\ work'.action = work.action
              /\ work'.rest = work.rest /\ work.action \in Loops
           \/ work' = Idle
BY GotoWork DEF Return

LEMMA NextRowWork ==
    ASSUME work \in Works, LabelsOK, NEW d, NextRow(d)
    PROVE  /\ work'.action = work.action /\ work'.row = d /\ work'.rest = work.rest \ {d}
           /\ work'.at = BodyOf[work.action]
           /\ work'.at \in {"initRow", "resume", "pause", "removeEach"}
           /\ work.action = "init" => work'.at = "initRow"
           /\ work.action = "removeAll" => work'.at = "removeEach"
<1>1. work.action \in Loops
  BY DEF NextRow, LabelsOK
<1>2. /\ work'.action = work.action /\ work'.row = d /\ work'.rest = work.rest \ {d}
      /\ work'.at = BodyOf[work.action]
  BY DEF NextRow, Works
<1> QED BY <1>1, <1>2 DEF BodyOf, Loops

\* The labels a step of the worker other than OnHandleIntent may go to.
Added(d) == AddInsert(d) \/ CheckLast(d) \/ RemoveLast(d) \/ MoveLast(d) \/ ForgetLast(d)

LEMMA AddedWork ==
    ASSUME work \in Works, LabelsOK, NEW d, Added(d)
    PROVE  /\ work'.at \in WithFile \cup {"fetch"} /\ (work'.at = "fetch" => AddInsert(d))
           /\ work.row = d /\ work'.row = d
           /\ work'.action = work.action /\ work.action \notin Loops
<1>1. work.row = d /\ work.action \notin Loops
  BY DEF Added, AddInsert, CheckLast, RemoveLast, MoveLast, ForgetLast, At, LabelsOK, Inserted
<1>2. \/ AddInsert(d) /\ Goto("fetch")
      \/ \E label \in WithFile : Goto(label)
  BY DEF Added, AddInsert, CheckLast, RemoveLast, MoveLast, ForgetLast, WithFile, Inserted
<1> QED BY <1>1, <1>2, GotoWork DEF WithFile

Deleting(d) == InitRow(d) \/ InitName(d) \/ Remove(d) \/ DeleteRow(d) \/ AddTorrentOf(d)

LEMMA DeletingWork ==
    ASSUME work \in Works, LabelsOK, NEW d, Deleting(d)
    PROVE  /\ work.row = d
           /\ work'.at \in {"initName", "deleteDirectory", "deleteRow", "next", "idle"}
           /\ work'.at \in {"initName", "deleteDirectory", "deleteRow"} => work'.row = d
           /\ work'.action # "removeAll"
           /\ work'.action = "init" => work.action = "init" /\ work'.rest = work.rest
           /\ work'.at = "initName" => InitRow(d)
<1>1. work.row = d /\ work.action # "removeAll"
  BY DEF Deleting, InitRow, InitName, Remove, DeleteRow, AddTorrentOf, At, LabelsOK, Inserted
<1>2. \/ InitRow(d) /\ Goto("initName")
      \/ \E label \in {"deleteDirectory", "deleteRow"} : Goto(label)
      \/ Return
  BY DEF Deleting, InitRow, InitName, Remove, DeleteRow, AddTorrentOf, AfterAdd
<1> QED BY <1>1, <1>2, GotoWork, ReturnWork DEF Idle

Returning(d) == DeleteDirectory(d) \/ RemoveEach(d) \/ PauseRow(d) \/ ResumeRow(d)

Toggling(d) == Pause(d) \/ Resume(d)

LEMMA TogglingWork ==
    ASSUME work \in Works, LabelsOK, NEW d, Toggling(d)
    PROVE  /\ work'.at \in {"pauseRow", "resumeRow"} /\ work'.action = work.action
           /\ work'.rest = work.rest /\ work.action # "removeAll"
<1>1. work.action # "removeAll"
  BY DEF Toggling, Pause, Resume, At, LabelsOK
<1>2. Goto("pauseRow") \/ Goto("resumeRow")
  BY DEF Toggling, Pause, Resume
<1> QED BY <1>1, <1>2, GotoWork

LEMMA ReturningWork ==
    ASSUME work \in Works, NEW d, Returning(d)
    PROVE  \/ /\ work'.at = "next" /\ work'.action = work.action
              /\ work'.rest = work.rest /\ work.action \in Loops
           \/ work' = Idle
BY ReturnWork DEF Returning, DeleteDirectory, RemoveEach, PauseRow, ResumeRow, RowChanges

LEMMA RowStepKinds ==
    ASSUME NEW d, RowStep(d)
    PROVE  NextRow(d) \/ Added(d) \/ Deleting(d) \/ Returning(d) \/ Toggling(d)
BY DEF RowStep, Added, Deleting, Returning, Toggling

\* A step of the worker on a row does not touch the queue, and brings a row
\* into the table only when it inserts the one it adds.
LEMMA RowStepTable ==
    ASSUME TypeOK, NEW d \in Downloads, RowStep(d)
    PROVE  /\ queue' = queue /\ asked' = asked
           /\ RowsOf' \subseteq RowsOf \/ AddInsert(d)
           /\ \A e \in Downloads \ {d} : table'[e] = table[e]
<1> USE DEF TypeOK
<1>1. queue' = queue /\ asked' = asked
  BY DEF RowStep, NextRow, InitRow, InitName, DeleteDirectory, AddInsert, CheckLast, RemoveLast,
         MoveLast, ForgetLast, AddTorrentOf, Remove, DeleteRow, RemoveEach, Pause, Resume,
         PauseRow, ResumeRow, RowChanges, user
<1>2. CASE PauseRow(d) \/ ResumeRow(d)
  BY <1>1, <1>2 DEF PauseRow, ResumeRow, RowChanges, UpdateRow, RowsOf, DiskOK
<1>3. CASE ~PauseRow(d) /\ ~ResumeRow(d)
  <2>1. \/ table' = table
        \/ table' = [table EXCEPT ![d] = NoRow]
        \/ AddInsert(d) /\ table' = [table EXCEPT ![d] = DOWNLOADING]
    BY <1>3 DEF RowStep, NextRow, InitRow, InitName, DeleteDirectory, AddInsert, CheckLast,
                RemoveLast, MoveLast, ForgetLast, AddTorrentOf, Remove, DeleteRow, RemoveEach,
                Pause, Resume, disk
  <2> QED BY <1>1, <2>1 DEF RowsOf, DiskOK
<1> QED BY <1>2, <1>3

LEMMA NetworkWork ==
    ASSUME TypeOK, LabelsOK, NEW d \in Downloads, Network(d)
    PROVE  /\ work.action \notin Loops /\ At("fetch", d)
           /\ \/ work' = Idle
              \/ work' = work /\ table' = table /\ directories' = directories
              \/ /\ work'.at = "checkLast" /\ work'.action = work.action /\ work'.row = d
                 /\ table' = table /\ directories' = directories \cup {d}
           /\ savePath' = savePath /\ queue' = queue /\ asked' = asked /\ RowsOf' \subseteq RowsOf
<1> USE DEF TypeOK
<1>1. work.action \notin Loops /\ At("fetch", d)
  BY DEF Network, CopyFails, LoadFails, Fetch, At, LabelsOK, Inserted
<1>2. CASE CopyFails(d)
  BY <1>1, <1>2 DEF CopyFails, Return, session, user, RowsOf, DiskOK
<1>3. CASE LoadFails(d)
  BY <1>1, <1>3 DEF LoadFails, session, user, RowsOf
<1>4. ASSUME NEW file, Fetch(d, file)
      PROVE  /\ work'.at = "checkLast" /\ work'.action = work.action /\ work'.row = d
             /\ table' = table /\ directories' = directories \cup {d}
             /\ savePath' = savePath /\ queue' = queue /\ asked' = asked
  BY <1>1, <1>4, GotoWork DEF Fetch, session, user, At
<1> QED BY <1>1, <1>2, <1>3, <1>4 DEF Network, RowsOf

LEMMA CrashWork ==
    ASSUME Crash
    PROVE  /\ work' = Idle /\ queue' = <<>> /\ table' = table /\ asked' = asked
BY DEF Crash, ProcessDies, disk

\* The intent handled is one of the queue, and the others move up.
LEMMA IntentWork ==
    ASSUME TypeOK, OnHandleIntent
    PROVE  /\ queue \in Seq(Intents) /\ Len(queue) >= 1 /\ queue' = Tail(queue)
           /\ work'.action = queue[1].action /\ work'.row = queue[1].row
           /\ work'.at = IF work'.action \in Loops THEN "next" ELSE work'.action
           /\ work'.rest = CursorOf(work'.action)
           /\ queue[1] \in Intents
           /\ savePath' = savePath /\ table' = table /\ asked' = asked
BY DEF TypeOK, OnHandleIntent, session, disk, user

-----------------------------------------------------------------------------
(* A download is asked for once and added once.                             *)

LEMMA AddsKept ==
    ASSUME AddsOK, queue' = queue, asked' = asked, RowsOf' \subseteq RowsOf, work'.at # "add"
    PROVE  AddsOK'
<1>1. \A d \in Downloads : table[d] = NoRow => table'[d] = NoRow
  BY DEF RowsOf
<1> QED BY <1>1 DEF AddsOK, Adds

LEMMA AddsRowStep ==
    ASSUME TypeOK, LabelsOK, AddsOK, NEW d \in Downloads, RowStep(d)
    PROVE  AddsOK'
<1> USE DEF TypeOK
<1>1. work'.at # "add"
  BY RowStepKinds, NextRowWork, AddedWork, DeletingWork, ReturningWork, TogglingWork
     DEF WithFile, Inserted, Idle
<1>2. CASE ~AddInsert(d)
  BY <1>1, <1>2, RowStepTable, AddsKept
<1>3. CASE AddInsert(d)
  <2>1. d \in asked /\ \A i \in 1 .. Len(queue) : ~Adds(i, d)
    BY <1>3 DEF AddInsert, At, AddsOK
  <2>2. queue' = queue /\ asked' = asked /\ \A e \in Downloads \ {d} : table'[e] = table[e]
    BY RowStepTable
  <2>3. RowsOf' \subseteq asked'
    BY <2>1, <2>2 DEF RowsOf, AddsOK
  <2> QED BY <1>1, <2>1, <2>2, <2>3 DEF AddsOK, Adds
<1> QED BY <1>2, <1>3

LEMMA AddsIntent ==
    ASSUME TypeOK, AddsOK, OnHandleIntent
    PROVE  AddsOK'
<1>1. /\ Len(queue') = Len(queue) - 1 /\ Len(queue) \in Nat
      /\ \A i \in 1 .. Len(queue') : queue'[i] = queue[i + 1]
  BY IntentWork
<1>2. \A i \in 1 .. Len(queue'), d \in Downloads : Adds(i, d)' => Adds(i + 1, d)
  BY <1>1 DEF Adds
<1>3. \A i \in 1 .. Len(queue') : i + 1 \in 1 .. Len(queue) /\ i + 1 # 1
  BY <1>1
<1>4. RowsOf' \subseteq asked'
  BY IntentWork DEF AddsOK, RowsOf
<1>5. ASSUME NEW d \in Downloads, work'.at = "add", work'.row = d
      PROVE  d \in asked' /\ table'[d] = NoRow /\ \A i \in 1 .. Len(queue') : ~Adds(i, d)'
  <2>1. 1 \in 1 .. Len(queue) /\ Adds(1, d)
    BY <1>5, IntentWork DEF Adds, Loops
  <2>2. d \in asked' /\ table'[d] = NoRow
    BY <2>1, IntentWork DEF AddsOK
  <2>3. \A i \in 1 .. Len(queue') : ~Adds(i, d)'
    BY <1>2, <1>3, <2>1 DEF AddsOK
  <2> QED BY <2>2, <2>3
<1>6. \A i \in 1 .. Len(queue'), d \in Downloads :
          Adds(i, d)' => d \in asked' /\ table'[d] = NoRow
  BY <1>2, <1>3, IntentWork DEF AddsOK
<1>7. ASSUME NEW i \in 1 .. Len(queue'), NEW j \in 1 .. Len(queue'), NEW d \in Downloads,
             Adds(i, d)', Adds(j, d)'
      PROVE  i = j
  <2>1. i + 1 = j + 1
    BY <1>2, <1>3, <1>7 DEF AddsOK
  <2> QED BY <2>1, <1>1
<1>8. work'.at = "add" => work'.row \in Downloads
  BY IntentWork DEF Intents, Loops, RowActions
<1> QED BY <1>4, <1>5, <1>6, <1>7, <1>8 DEF AddsOK

LEMMA AddsStep ==
    ASSUME TypeOK, LabelsOK, AddsOK, Next
    PROVE  AddsOK'
<1> USE DEF TypeOK
<1>1. CASE NoMoreRows \/ DeleteRows \/ ClearDownloads
  <2>1. work'.at # "add"
    BY <1>1, GotoWork DEF NoMoreRows, DeleteRows, ClearDownloads, Idle
  <2> QED BY <1>1, <2>1, AddsKept DEF NoMoreRows, DeleteRows, ClearDownloads, user, disk, RowsOf
<1>2. ASSUME NEW d \in Downloads, Network(d) PROVE AddsOK'
  <2>1. work'.at # "add"
    BY <1>2, NetworkWork DEF Idle, At
  <2> QED BY <1>2, <2>1, NetworkWork, AddsKept
<1>3. ASSUME NEW i \in Intents, i.action # "add", Request(i) PROVE AddsOK'
  <2>1. queue' = Append(queue, i) /\ UNCHANGED <<table, work, asked>>
    BY <1>3 DEF Request, disk
  <2>2. \A k \in 1 .. Len(queue') : \A d : Adds(k, d)' => k \in 1 .. Len(queue) /\ Adds(k, d)
    BY <1>3, <2>1 DEF Adds
  <2> QED BY <2>1, <2>2 DEF AddsOK, RowsOf
<1>4. CASE RequestRow
  <2>1. PICK d \in RowsOf, action \in {"remove", "resume", "pause"} :
            Request(Intent(action, d, table[d]))
    BY <1>4 DEF RequestRow
  <2>2. Intent(action, d, table[d]) \in Intents
    BY RowType, IntentType DEF RowActions
  <2> QED BY <2>1, <2>2, <1>3 DEF Intent
<1>5. CASE RequestAll
  <2>1. PICK action \in {"resumeAll", "pauseAll", "removeAll"} : Request(Intent(action, 0, NoRow))
    BY <1>5 DEF RequestAll
  <2>2. Intent(action, 0, NoRow) \in Intents
    BY IntentType DEF Loops
  <2> QED BY <2>1, <2>2, <1>3 DEF Intent
<1>6. ASSUME NEW d \in Downloads, HandleDownload(d) PROVE AddsOK'
  <2>1. /\ d \notin asked /\ asked' = asked \cup {d} /\ UNCHANGED <<table, work>>
        /\ queue' = Append(queue, Intent("add", d, DOWNLOADING))
    BY <1>6 DEF HandleDownload
  <2>2. \A k \in 1 .. Len(queue') : \A e :
            Adds(k, e)' => \/ k \in 1 .. Len(queue) /\ Adds(k, e)
                           \/ k = Len(queue) + 1 /\ e = d
    BY <2>1 DEF Adds, Intent
  <2>3. table[d] = NoRow /\ \A k \in 1 .. Len(queue) : ~Adds(k, d)
    BY <2>1 DEF AddsOK, RowsOf
  <2> QED BY <2>1, <2>2, <2>3 DEF AddsOK, RowsOf
<1>7. CASE Launch
  <2>1. queue' = Append(queue, ActionInit) /\ UNCHANGED <<table, work, asked>>
    BY <1>7 DEF Launch, disk
  <2>2. \A k \in 1 .. Len(queue') : \A d : Adds(k, d)' => k \in 1 .. Len(queue) /\ Adds(k, d)
    BY <2>1 DEF Adds, ActionInit, Intent
  <2> QED BY <2>1, <2>2 DEF AddsOK, RowsOf
<1>8. CASE Exit
  BY <1>8 DEF Exit, disk, AddsOK, Adds, RowsOf
<1>9. CASE Crash
  BY <1>9, CrashWork DEF AddsOK, Adds, RowsOf, Idle
<1> QED
  BY <1>1, <1>2, <1>4, <1>5, <1>6, <1>7, <1>8, <1>9, AddsIntent, AddsRowStep
     DEF Next, WorkerStep, User, Application

-----------------------------------------------------------------------------
(* The row being added and its directory.                                   *)

LEMMA RowAddedStep ==
    ASSUME TypeOK, TableOK, Next
    PROVE  RowAdded'
<1> USE DEF TypeOK, TableOK
<1>1. ASSUME NEW d \in Downloads, Added(d) PROVE RowAdded'
  <2>1. work.row = d /\ work'.row = d /\ work'.at \in WithFile \cup {"fetch"}
    BY <1>1, AddedWork
  <2>2. directories' = directories
    BY <1>1 DEF Added, AddInsert, CheckLast, RemoveLast, MoveLast, ForgetLast, disk
  <2>3. CASE AddInsert(d)
    <3>1. table'[d] # NoRow /\ work'.at = "fetch"
      BY <2>3, GotoWork DEF AddInsert, DiskOK, NoRow, DOWNLOADING
    <3> QED BY <2>1, <3>1 DEF RowAdded, WithFile
  <2>4. CASE ~AddInsert(d)
    <3>1. table' = table /\ work.at \in WithFile
      BY <1>1, <2>4 DEF Added, CheckLast, RemoveLast, MoveLast, ForgetLast, disk, At, WithFile,
                        Inserted
    <3> QED BY <2>1, <2>2, <3>1 DEF RowAdded, WithFile
  <2> QED BY <2>3, <2>4
<1>2. ASSUME NEW d \in Downloads, NextRow(d) \/ Deleting(d) \/ Returning(d) \/ Toggling(d)
      PROVE  RowAdded'
  <2>1. work'.at \notin Inserted
    BY <1>2, NextRowWork, DeletingWork, ReturningWork, TogglingWork DEF Inserted, Idle
  <2> QED BY <2>1 DEF RowAdded, WithFile
<1>3. CASE OnHandleIntent \/ NoMoreRows \/ DeleteRows \/ ClearDownloads \/ Crash
  <2>1. work'.at \notin Inserted
    BY <1>3, IntentWork, GotoWork, CrashWork
       DEF NoMoreRows, DeleteRows, ClearDownloads, Idle, Inserted, Intents, Loops, RowActions
  <2> QED BY <2>1 DEF RowAdded, WithFile
<1>4. ASSUME NEW d \in Downloads, Network(d) PROVE RowAdded'
  BY <1>4, NetworkWork DEF RowAdded, WithFile, Inserted, At, Idle
<1>5. CASE User \/ Launch \/ Exit
  BY <1>5, ScreenWork DEF RowAdded, Inserted, WithFile
<1> QED BY <1>1, <1>2, <1>3, <1>4, <1>5, RowStepKinds DEF Next, WorkerStep, Application

-----------------------------------------------------------------------------
(* The places the worker fills or deletes.                                  *)

\* A row that is not in the table or has no torrent file has no torrent.
LEMMA NothingSaved ==
    ASSUME NoStrayTorrent, NEW d \in Downloads,
           d \notin RowsOf \/ d \notin directories \/ NameOf(d) = NoName
    PROVE  \A c \in Contents : savePath[c] # d
BY ContentAssumption, DownloadAssumption, PlaceAssumption DEF NoStrayTorrent, gTorrents

LEMMA DeletingPlaces ==
    ASSUME TypeOK, IInv, NEW d \in Downloads, Deleting(d),
           work'.at \in {"deleteDirectory", "deleteRow"}
    PROVE  \A c \in Contents : savePath'[c] # d
<1> USE DEF TypeOK, IInv, TableOK
<1>1. CASE InitRow(d)
  <2>1. ~InitChecks(d) /\ savePath' = savePath
    BY <1>1, GotoWork DEF InitRow, session
  <2> QED BY <2>1, NothingSaved DEF InitChecks, NameOf
<1>2. CASE InitName(d)
  <2>1. NameOf(d) = NoName /\ savePath' = savePath
    BY <1>2, SamePlace, ReturnWork DEF InitName, Idle
  <2> QED BY <2>1, NothingSaved
<1>3. CASE Remove(d)
  <2>1. \A c \in Contents : savePath'[c] = IF c = NameOf(d) THEN Nowhere ELSE savePath[c]
    BY <1>3, RemovePlace DEF Remove, RemoveFirst
  <2>2. Nowhere # d
    BY DownloadAssumption, PlaceAssumption
  <2> QED BY <2>1, <2>2 DEF NoStrayTorrent, gTorrents
<1>4. CASE DeleteRow(d)
  BY <1>4 DEF DeleteRow, At, Vacant, session
<1>5. CASE AddTorrentOf(d)
  <2>1. NameOf(d) = NoName
    BY <1>5, ReturnWork DEF AddTorrentOf, Idle
  <2>2. savePath' = savePath
    BY <1>5, <2>1, ContentAssumption DEF AddTorrentOf, AddTorrent, session
  <2> QED BY <2>1, <2>2, NothingSaved
<1> QED BY <1>1, <1>2, <1>3, <1>4, <1>5 DEF Deleting

LEMMA VacantStep ==
    ASSUME TypeOK, IInv, Next
    PROVE  Vacant'
<1> USE DEF TypeOK, IInv, TableOK
<1>1. ASSUME NEW d \in Downloads, Added(d) PROVE Vacant'
  <2>1. /\ work.row = d /\ work'.row = d
        /\ work.at \in {"add"} \cup Inserted
    BY <1>1, AddedWork DEF Added, AddInsert, CheckLast, RemoveLast, MoveLast, ForgetLast, At,
                          Inserted
  <2>2. \A c \in Contents : savePath'[c] \in {savePath[c], Nowhere}
    BY <1>1, RemovePlace DEF Added, AddInsert, CheckLast, RemoveLast, MoveLast, ForgetLast, session
  <2>3. Nowhere # d
    BY DownloadAssumption, PlaceAssumption
  <2> QED BY <2>1, <2>2, <2>3 DEF Vacant
<1>2. ASSUME NEW d \in Downloads, Deleting(d) PROVE Vacant'
  BY <1>2, DeletingWork, DeletingPlaces DEF Vacant, Inserted
<1>3. ASSUME NEW d \in Downloads, NextRow(d) \/ Returning(d) \/ Toggling(d) PROVE Vacant'
  BY <1>3, NextRowWork, ReturningWork, TogglingWork DEF Vacant, Inserted, Idle
<1>4. CASE OnHandleIntent
  <2>1. CASE work'.at = "add"
    <3>1. queue[1].action = "add" /\ work'.row = queue[1].row /\ work'.row \in Downloads
      BY <1>4, <2>1, IntentWork DEF Intents, Loops, RowActions
    <3>2. table[work'.row] = NoRow /\ savePath' = savePath
      BY <1>4, <3>1, IntentWork DEF AddsOK, Adds
    <3> QED BY <3>1, <3>2, NothingSaved DEF Vacant, RowsOf
  <2>2. CASE work'.at # "add"
    BY <1>4, <2>2, IntentWork DEF Vacant, Intents, Loops, RowActions, Inserted
  <2> QED BY <2>1, <2>2
<1>5. CASE NoMoreRows \/ DeleteRows \/ ClearDownloads \/ Crash
  BY <1>5, GotoWork, CrashWork DEF NoMoreRows, DeleteRows, ClearDownloads, Idle, Vacant, Inserted
<1>6. ASSUME NEW d \in Downloads, Network(d) PROVE Vacant'
  BY <1>6, NetworkWork DEF Vacant, Inserted, At, Idle
<1>7. CASE User \/ Launch \/ Exit
  <2>1. work.at \in RowLabels => work.row # Nowhere
    BY DownloadAssumption, PlaceAssumption DEF LabelsOK
  <2> QED BY <1>7, <2>1, ScreenWork DEF Vacant, RowLabels, Inserted
<1> QED BY <1>1, <1>2, <1>3, <1>4, <1>5, <1>6, <1>7, RowStepKinds DEF Next, WorkerStep, Application

-----------------------------------------------------------------------------
(* The rows init has still to see.                                          *)

LEMMA CursorRowStep ==
    ASSUME TypeOK, IInv, NEW d \in Downloads, RowStep(d)
    PROVE  CursorOK'
<1> USE DEF TypeOK, IInv, TableOK
<1>1. CASE NextRow(d)
  <2>1. RowsOf' = RowsOf /\ d \in work.rest
    BY <1>1 DEF NextRow, disk, RowsOf
  <2> QED BY <1>1, <2>1, NextRowWork DEF CursorOK, RowsOf
<1>2. CASE Added(d)
  BY <1>2, AddedWork DEF CursorOK, Loops
<1>3. CASE Deleting(d)
  <2>1. ASSUME work'.action = "init"
        PROVE  /\ work.action = "init" /\ work'.rest = work.rest /\ d \notin work.rest
    <3>1. work.action = "init" /\ work'.rest = work.rest
      BY <1>3, <2>1, DeletingWork
    <3>2. work.at \in {"initRow", "initName"} /\ work.row = d
      BY <1>3, <3>1 DEF Deleting, InitRow, InitName, Remove, DeleteRow, AddTorrentOf, At,
                        LabelsOK, Inserted, Loops
    <3> QED BY <3>1, <3>2 DEF CursorOK
  <2>2. \A e \in Downloads \ {d} : table'[e] = table[e]
    BY RowStepTable
  <2>3. work'.at \in {"initName", "deleteDirectory", "deleteRow", "next", "idle"}
        /\ (work'.at = "initName" => work'.row = d)
    BY <1>3, DeletingWork
  <2> QED BY <2>1, <2>2, <2>3 DEF CursorOK, RowsOf
<1>4. CASE Returning(d) \/ Toggling(d)
  <2>1. /\ work'.action = "init" => work.action = "init" /\ work'.rest = work.rest
        /\ work'.at \notin {"initRow", "initName"}
    BY <1>4, ReturningWork, TogglingWork DEF Idle
  <2>2. RowsOf' = RowsOf
    <3>1. CASE PauseRow(d) \/ ResumeRow(d)
      BY <3>1 DEF PauseRow, ResumeRow, RowChanges, UpdateRow, RowsOf, DiskOK, States,
                  DOWNLOADING, PAUSED, NoRow
    <3>2. CASE ~PauseRow(d) /\ ~ResumeRow(d)
      BY <1>4, <3>2 DEF Returning, Toggling, DeleteDirectory, RemoveEach, Pause, Resume, disk,
                        RowsOf
    <3> QED BY <3>1, <3>2
  <2> QED BY <2>1, <2>2 DEF CursorOK
<1> QED BY <1>1, <1>2, <1>3, <1>4, RowStepKinds

LEMMA CursorStep ==
    ASSUME TypeOK, IInv, Next
    PROVE  CursorOK'
<1> USE DEF TypeOK, IInv, TableOK
<1>1. CASE OnHandleIntent
  BY <1>1, IntentWork DEF CursorOK, CursorOf, RowsOf, Loops
<1>2. CASE NoMoreRows \/ DeleteRows \/ ClearDownloads \/ Crash
  <2>1. work'.action # "init"
    BY <1>2, GotoWork, CrashWork DEF NoMoreRows, DeleteRows, ClearDownloads, Idle, LabelsOK
  <2> QED BY <2>1 DEF CursorOK
<1>3. ASSUME NEW d \in Downloads, Network(d) PROVE CursorOK'
  BY <1>3, NetworkWork DEF CursorOK, Idle, Loops
<1>4. CASE User \/ Launch \/ Exit
  BY <1>4, ScreenWork DEF CursorOK, RowsOf
<1> QED BY <1>1, <1>2, <1>3, <1>4, CursorRowStep DEF Next, WorkerStep, Application

-----------------------------------------------------------------------------
(* The torrents removeAll has still to remove.                              *)

LEMMA RemovedRowStep ==
    ASSUME TypeOK, IInv, NEW d \in Downloads, RowStep(d)
    PROVE  RemovedSoFar'
<1> USE DEF TypeOK, IInv, TableOK
<1>1. CASE NextRow(d)
  <2>1. savePath' = savePath /\ work.at = "next"
    BY <1>1 DEF NextRow, session
  <2> QED BY <1>1, <2>1, NextRowWork DEF RemovedSoFar, gTorrents
<1>2. CASE Added(d) \/ Deleting(d) \/ Toggling(d)
  BY <1>2, AddedWork, DeletingWork, TogglingWork DEF RemovedSoFar, Loops
<1>3. CASE RemoveEach(d)
  <2>1. work.action = "removeAll" /\ work.at = "removeEach" /\ work.row = d
    BY <1>3 DEF RemoveEach, At, LabelsOK
  <2>2. work'.at = "next" /\ work'.rest = work.rest
    BY <1>3, <2>1 DEF RemoveEach, Return, Loops, Goto, Works
  <2>3. \A c \in Contents : savePath'[c] = IF c = NameOf(d) THEN Nowhere ELSE savePath[c]
    BY <1>3, RemovePlace DEF RemoveEach
  <2>4. \A c \in gTorrents : savePath[c] = d => c = NameOf(d)
    BY DEF NoStrayTorrent
  <2> QED BY <2>1, <2>2, <2>3, <2>4 DEF RemovedSoFar, gTorrents
<1>4. CASE DeleteDirectory(d) \/ PauseRow(d) \/ ResumeRow(d)
  <2>1. work.action # "removeAll"
    BY <1>4 DEF DeleteDirectory, PauseRow, ResumeRow, At, LabelsOK
  <2> QED BY <1>4, <2>1, ReturningWork DEF Returning, RemovedSoFar, Idle
<1> QED BY <1>1, <1>2, <1>3, <1>4, RowStepKinds DEF Returning

LEMMA RemovedStep ==
    ASSUME TypeOK, IInv, Next
    PROVE  RemovedSoFar'
<1> USE DEF TypeOK, IInv, TableOK
<1>1. CASE OnHandleIntent
  <2>1. savePath' = savePath /\ \A c \in gTorrents : savePath[c] \in RowsOf
    BY <1>1, IntentWork DEF NoStrayTorrent
  <2> QED BY <1>1, <2>1, IntentWork DEF RemovedSoFar, gTorrents, CursorOf, Loops
<1>2. CASE NoMoreRows \/ DeleteRows
  <2>1. savePath' = savePath
    BY <1>2 DEF NoMoreRows, DeleteRows, session
  <2>2. work'.action = "removeAll" => work.action = "removeAll" /\ gTorrents = {}
    BY <1>2, GotoWork DEF NoMoreRows, DeleteRows, Idle, RemovedSoFar, LabelsOK
  <2> QED BY <2>1, <2>2 DEF RemovedSoFar, gTorrents
<1>3. CASE ClearDownloads \/ Crash
  BY <1>3, CrashWork DEF ClearDownloads, Idle, RemovedSoFar
<1>4. ASSUME NEW d \in Downloads, Network(d) PROVE RemovedSoFar'
  BY <1>4, NetworkWork DEF RemovedSoFar, Idle, Loops
<1>5. CASE User \/ Launch \/ Exit
  BY <1>5, ScreenWork DEF RemovedSoFar, gTorrents
<1> QED BY <1>1, <1>2, <1>3, <1>4, <1>5, RemovedRowStep DEF Next, WorkerStep, Application

-----------------------------------------------------------------------------
LEMMA NextInv ==
    ASSUME TypeOK, IInv, [Next]_vars
    PROVE  IInv'
<1>1. CASE Next
  <2>1. LabelsOK' /\ AddsOK'
    BY <1>1, NextLabels, AddsStep DEF IInv, TableOK
  <2> QED
    BY <1>1, <2>1, RowAddedStep, VacantStep, CursorStep, RemovedStep, StrayStep DEF IInv, TableOK
<1>2. CASE UNCHANGED vars
  BY <1>2 DEF vars, session, disk, user, IInv, TableOK, LabelsOK, AddsOK, Adds, RowsOf, RowAdded,
              Vacant, CursorOK, RemovedSoFar, gTorrents, NoStrayTorrent, NameOf
<1> QED BY <1>1, <1>2

(* Whatever is asked of the service, whatever the server sends and whenever *)
(* the user exits or the process dies, a torrent of the session is saved in *)
(* the directory of a row of the table, with the torrent file that names    *)
(* it.                                                                      *)
THEOREM TorrentsHaveRows == Spec => []NoStrayTorrent
<1>1. Init => TypeOK /\ IInv
  BY InitType, InitInv
<1>2. TypeOK /\ IInv /\ [Next]_vars => (TypeOK /\ IInv)'
  BY NextType, NextInv DEF IInv, TableOK
<1>3. IInv => NoStrayTorrent
  BY DEF IInv
<1> QED BY <1>1, <1>2, <1>3, PTL DEF Spec

-----------------------------------------------------------------------------
(* The download manager implements DownloadLife.                            *)

(* A torrent file belongs to a download that was asked for, lies in its     *)
(* directory, and is there only after its row.                              *)
FilesOK ==
    /\ \A d \in Downloads : torrentFile[d] # "none" => d \in asked
    /\ \A d \in Downloads : torrentFile[d] = "whole" => d \in directories
    /\ \A d \in Downloads : Waiting(d) \/ At("fetch", d) => torrentFile[d] # "whole"

(* The steps that delete files come after those that delete rows.           *)
RowsFirst ==
    /\ work.at = "deleteDirectory" => table[work.row] = NoRow
    /\ work.at = "clearDownloads" => RowsOf = {}
    /\ work.at \in {"remove", "deleteRow"} => work.action = "remove"
    /\ work.at \in {"add"} \cup Inserted => work.action = "add"

\* What holds without the session, also where others add torrents to it.
TableInv == TypeOK /\ TableOK /\ FilesOK /\ RowsFirst

RInv == TypeOK /\ IInv /\ FilesOK /\ RowsFirst

-----------------------------------------------------------------------------
(* What a step does to the requests that wait.                              *)

\* Rows of the table are not waiting any more.
LEMMA RowsDoNotWait ==
    ASSUME AddsOK, NEW d \in Downloads, table[d] # NoRow
    PROVE  ~Waiting(d)
BY DEF AddsOK, Adds, Waiting, At

\* The queue stays, and the worker does not stand before an insertion.
LEMMA SameWaiting ==
    ASSUME queue' = queue, work.at # "add", work'.at # "add"
    PROVE  \A d \in Downloads : Waiting(d)' <=> Waiting(d)
BY DEF Waiting, At

LEMMA SameWork ==
    ASSUME queue' = queue, work' = work
    PROVE  \A d \in Downloads : Waiting(d)' <=> Waiting(d)
BY DEF Waiting, At

\* An intent that adds nothing comes to the queue.
LEMMA AppendWaiting ==
    ASSUME TypeOK, NEW i \in Intents, queue' = Append(queue, i), work' = work
    PROVE  \A d \in Downloads :
               Waiting(d)' <=> Waiting(d) \/ (i.action = "add" /\ i.row = d)
<1>1. queue \in Seq(Intents)
  BY DEF TypeOK
<1>2. ASSUME NEW d \in Downloads, Waiting(d)'
      PROVE  Waiting(d) \/ (i.action = "add" /\ i.row = d)
  BY <1>1, <1>2 DEF Waiting, At
<1>3. ASSUME NEW d \in Downloads, Waiting(d) PROVE Waiting(d)'
  <2>1. CASE At("add", d)
    BY <2>1 DEF Waiting, At
  <2>2. ASSUME NEW k \in 1 .. Len(queue), queue[k].action = "add", queue[k].row = d
        PROVE  Waiting(d)'
    <3>1. k \in 1 .. Len(queue') /\ queue'[k] = queue[k]
      BY <1>1
    <3> QED BY <2>2, <3>1 DEF Waiting
  <2> QED BY <1>3, <2>1, <2>2 DEF Waiting
<1>4. ASSUME NEW d \in Downloads, i.action = "add", i.row = d PROVE Waiting(d)'
  <2>1. Len(queue) + 1 \in 1 .. Len(queue') /\ queue'[Len(queue) + 1] = i
    BY <1>1
  <2> QED BY <1>4, <2>1 DEF Waiting
<1> QED BY <1>2, <1>3, <1>4

LEMMA IntentWaiting ==
    ASSUME TypeOK, OnHandleIntent
    PROVE  \A d \in Downloads : Waiting(d)' <=> Waiting(d)
<1>1. /\ queue \in Seq(Intents) /\ Len(queue) >= 1 /\ Len(queue) \in Nat
      /\ Len(queue') = Len(queue) - 1
      /\ \A k \in 1 .. Len(queue') : queue'[k] = queue[k + 1]
  BY IntentWork
<1>2. work.at = "idle"
  BY DEF OnHandleIntent, Idle
<1>3. \A d \in Downloads : At("add", d)' <=> queue[1].action = "add" /\ queue[1].row = d
  BY IntentWork DEF At, Loops
<1>4. ASSUME NEW d \in Downloads, Waiting(d)' PROVE Waiting(d)
  <2>1. CASE At("add", d)'
    <3>1. 1 \in 1 .. Len(queue)
      BY <1>1
    <3> QED BY <1>3, <2>1, <3>1 DEF Waiting
  <2>2. ASSUME NEW k \in 1 .. Len(queue'), queue'[k].action = "add", queue'[k].row = d
        PROVE  Waiting(d)
    <3>1. k + 1 \in 1 .. Len(queue) /\ queue'[k] = queue[k + 1]
      BY <1>1
    <3> QED BY <2>2, <3>1 DEF Waiting
  <2> QED BY <1>4, <2>1, <2>2 DEF Waiting
<1>5. ASSUME NEW d \in Downloads, Waiting(d) PROVE Waiting(d)'
  <2>1. PICK k \in 1 .. Len(queue) : queue[k].action = "add" /\ queue[k].row = d
    BY <1>2, <1>5 DEF Waiting, At
  <2>2. CASE k = 1
    BY <1>3, <2>1, <2>2 DEF Waiting
  <2>3. CASE k # 1
    <3>1. k - 1 \in 1 .. Len(queue') /\ queue'[k - 1] = queue[(k - 1) + 1] /\ (k - 1) + 1 = k
      BY <1>1, <2>3
    <3> QED BY <2>1, <3>1 DEF Waiting
  <2> QED BY <2>2, <2>3
<1> QED BY <1>4, <1>5

LEMMA CrashWaiting ==
    ASSUME Crash
    PROVE  \A d \in Downloads : ~Waiting(d)'
BY CrashWork DEF Waiting, At, Idle

\* The steps of a row leave the downloads that wait, but for the one they insert.
LEMMA RowStepWaiting ==
    ASSUME TypeOK, LabelsOK, NEW d \in Downloads, RowStep(d)
    PROVE  /\ ~AddInsert(d) => \A e \in Downloads : Waiting(e)' <=> Waiting(e)
           /\ AddInsert(d) => \A e \in Downloads \ {d} : Waiting(e)' <=> Waiting(e)
<1>1. queue' = queue
  BY RowStepTable
<1>2. work'.at # "add"
  BY RowStepKinds, NextRowWork, AddedWork, DeletingWork, ReturningWork, TogglingWork
     DEF TypeOK, WithFile, Inserted, Idle
<1>3. CASE AddInsert(d)
  BY <1>1, <1>2, <1>3 DEF AddInsert, Waiting, At
<1>4. CASE ~AddInsert(d)
  <2>1. work.at # "add"
    BY <1>4 DEF RowStep, NextRow, InitRow, InitName, DeleteDirectory, CheckLast, RemoveLast,
                MoveLast, ForgetLast, AddTorrentOf, Remove, DeleteRow, RemoveEach, Pause, Resume,
                PauseRow, ResumeRow, At
  <2> QED BY <1>1, <1>2, <1>4, <2>1, SameWaiting
<1> QED BY <1>3, <1>4

LEMMA NetworkWaiting ==
    ASSUME TypeOK, LabelsOK, NEW d \in Downloads, Network(d)
    PROVE  \A e \in Downloads : Waiting(e)' <=> Waiting(e)
<1>1. queue' = queue /\ work.at = "fetch" /\ work'.at # "add"
  BY NetworkWork DEF TypeOK, At, Idle
<1> QED BY <1>1, SameWaiting

-----------------------------------------------------------------------------
(* The induction.                                                           *)

LEMMA InitFiles == Init => FilesOK /\ RowsFirst
BY DEF Init, FilesOK, RowsFirst, Waiting, At, Idle, Inserted

\* A step that leaves the files alone, and waits for no more than before.
LEMMA FilesKept ==
    ASSUME FilesOK, torrentFile' = torrentFile, directories \subseteq directories',
           asked \subseteq asked',
           \A d \in Downloads : (Waiting(d) \/ At("fetch", d))' => Waiting(d) \/ At("fetch", d)
    PROVE  FilesOK'
BY DEF FilesOK

LEMMA FilesRowStep ==
    ASSUME TableInv, NEW d \in Downloads, RowStep(d)
    PROVE  FilesOK'
<1> USE DEF TableInv, TypeOK, TableOK
<1>1. asked' = asked
  BY RowStepTable
<1>2. CASE DeleteDirectory(d)
  <2>1. /\ directories' = directories \ {d} /\ torrentFile' = [torrentFile EXCEPT ![d] = "none"]
        /\ work'.at # "fetch"
    BY <1>2, ReturnWork DEF DeleteDirectory, Idle
  <2>2. \A e \in Downloads : Waiting(e)' <=> Waiting(e)
    BY <1>2, RowStepWaiting DEF DeleteDirectory, AddInsert, At
  <2>3. torrentFile'[d] = "none" /\ \A e \in Downloads \ {d} : torrentFile'[e] = torrentFile[e]
    BY <2>1 DEF DiskOK
  <2> QED BY <1>1, <2>1, <2>2, <2>3 DEF FilesOK, At
<1>3. CASE AddInsert(d)
  <2>1. /\ torrentFile' = torrentFile /\ directories' = directories
        /\ work'.row = d /\ At("add", d)
    BY <1>3, GotoWork DEF AddInsert, At
  <2>2. queue' = queue /\ work'.at = "fetch"
    BY <1>3, RowStepTable, GotoWork DEF AddInsert
  <2>3. \A e \in Downloads : (Waiting(e) \/ At("fetch", e))' => Waiting(e)
    BY <2>1, <2>2 DEF Waiting, At
  <2> QED BY <1>1, <2>1, <2>3, FilesKept
<1>4. CASE ~DeleteDirectory(d) /\ ~AddInsert(d)
  <2>1. torrentFile' = torrentFile /\ directories' = directories
    BY <1>4 DEF RowStep, NextRow, InitRow, InitName, CheckLast, RemoveLast, MoveLast, ForgetLast,
                AddTorrentOf, Remove, DeleteRow, RemoveEach, Pause, Resume, PauseRow, ResumeRow,
                RowChanges, disk
  <2>2. work'.at # "fetch"
    BY <1>4, RowStepKinds, NextRowWork, AddedWork, DeletingWork, ReturningWork, TogglingWork
       DEF WithFile, Inserted, Idle
  <2>3. \A e \in Downloads : Waiting(e)' <=> Waiting(e)
    BY <1>4, RowStepWaiting
  <2> QED BY <1>1, <2>1, <2>2, <2>3, FilesKept DEF At
<1> QED BY <1>2, <1>3, <1>4

LEMMA FilesNetwork ==
    ASSUME TableInv, NEW d \in Downloads, Network(d)
    PROVE  FilesOK'
<1> USE DEF TableInv, TypeOK, TableOK
<1>1. /\ At("fetch", d) /\ d \in asked /\ ~Waiting(d)
  <2>1. At("fetch", d) /\ table[d] # NoRow
    BY NetworkWork DEF At, RowAdded, Inserted
  <2> QED BY <2>1, RowsDoNotWait DEF AddsOK, RowsOf
<1>2. /\ asked' = asked /\ \A e \in Downloads : Waiting(e)' <=> Waiting(e)
  BY NetworkWork, NetworkWaiting
<1>3. CASE CopyFails(d)
  <2>1. work'.at # "fetch" /\ torrentFile' = torrentFile /\ directories' = directories
    BY <1>3, ReturnWork DEF CopyFails, Idle
  <2> QED BY <1>2, <2>1, FilesKept DEF At
<1>4. CASE LoadFails(d)
  <2>1. /\ directories' = directories /\ work' = work
        /\ torrentFile' = [torrentFile EXCEPT ![d] = "broken"]
    BY <1>4 DEF LoadFails
  <2>2. torrentFile'[d] = "broken" /\ \A e \in Downloads \ {d} : torrentFile'[e] = torrentFile[e]
    BY <2>1 DEF DiskOK
  <2> QED BY <1>1, <1>2, <2>1, <2>2 DEF FilesOK, At
<1>5. ASSUME NEW file, Fetch(d, file) PROVE FilesOK'
  <2>1. /\ directories' = directories \cup {d} /\ work'.at = "checkLast"
        /\ torrentFile' = [torrentFile EXCEPT ![d] = file]
    BY <1>5, GotoWork DEF Fetch
  <2>2. \A e \in Downloads \ {d} : torrentFile'[e] = torrentFile[e]
    BY <2>1 DEF DiskOK
  <2> QED BY <1>1, <1>2, <2>1, <2>2 DEF FilesOK, At
<1> QED BY <1>3, <1>4, <1>5 DEF Network

LEMMA FilesStep ==
    ASSUME TableInv, Next
    PROVE  FilesOK'
<1> USE DEF TableInv, TypeOK, TableOK
<1>1. CASE OnHandleIntent
  <2>1. work'.at # "fetch"
    BY <1>1, IntentWork DEF Intents, Loops, RowActions
  <2>2. torrentFile' = torrentFile /\ directories' = directories /\ asked' = asked
    BY <1>1 DEF OnHandleIntent, disk, user
  <2> QED BY <1>1, <2>1, <2>2, IntentWaiting, FilesKept DEF At
<1>2. CASE NoMoreRows \/ DeleteRows
  <2>1. /\ work.at # "add" /\ work'.at \notin {"add", "fetch"} /\ queue' = queue
    BY <1>2, GotoWork DEF NoMoreRows, DeleteRows, Idle
  <2>2. torrentFile' = torrentFile /\ directories' = directories /\ asked' = asked
    BY <1>2 DEF NoMoreRows, DeleteRows, disk, user
  <2> QED BY <2>1, <2>2, SameWaiting, FilesKept DEF At
<1>3. CASE ClearDownloads
  <2>1. torrentFile' = [d \in Downloads |-> "none"] /\ work' = Idle
    BY <1>3 DEF ClearDownloads
  <2> QED BY <2>1 DEF FilesOK, At
<1>4. CASE Crash
  <2>1. torrentFile' = torrentFile /\ directories' = directories /\ asked' = asked /\ work' = Idle
    BY <1>4 DEF Crash, ProcessDies, disk
  <2> QED BY <1>4, <2>1, CrashWaiting, FilesKept DEF At, Idle
<1>5. ASSUME NEW i \in Intents, i.action # "add", Request(i) PROVE FilesOK'
  <2>1. queue' = Append(queue, i) /\ UNCHANGED <<torrentFile, directories, asked, work>>
    BY <1>5 DEF Request, disk
  <2> QED BY <1>5, <2>1, AppendWaiting, FilesKept DEF At
<1>6. CASE RequestRow
  <2>1. PICK d \in RowsOf, action \in {"remove", "resume", "pause"} :
            Request(Intent(action, d, table[d]))
    BY <1>6 DEF RequestRow
  <2>2. Intent(action, d, table[d]) \in Intents
    BY RowType, IntentType DEF RowActions
  <2> QED BY <2>1, <2>2, <1>5 DEF Intent
<1>7. CASE RequestAll
  <2>1. PICK action \in {"resumeAll", "pauseAll", "removeAll"} : Request(Intent(action, 0, NoRow))
    BY <1>7 DEF RequestAll
  <2>2. Intent(action, 0, NoRow) \in Intents
    BY IntentType DEF Loops
  <2> QED BY <2>1, <2>2, <1>5 DEF Intent
<1>8. ASSUME NEW d \in Downloads, HandleDownload(d) PROVE FilesOK'
  <2> DEFINE i == Intent("add", d, DOWNLOADING)
  <2>1. /\ d \notin asked /\ asked' = asked \cup {d} /\ directories' = directories \cup {d}
        /\ torrentFile' = torrentFile /\ work' = work /\ queue' = Append(queue, i)
    BY <1>8 DEF HandleDownload
  <2>2. i \in Intents /\ i.row = d
    BY IntentType DEF RowActions, States, Intent
  <2>3. \A e \in Downloads : Waiting(e)' => Waiting(e) \/ e = d
    BY <2>1, <2>2, AppendWaiting
  <2>4. torrentFile[d] = "none"
    BY <2>1 DEF FilesOK
  <2> QED BY <2>1, <2>3, <2>4 DEF FilesOK, At
<1>9. CASE Launch
  <2>1. /\ queue' = Append(queue, ActionInit)
        /\ UNCHANGED <<torrentFile, directories, asked, work>>
    BY <1>9 DEF Launch, disk
  <2> QED BY <2>1, InitIntentType, AppendWaiting, FilesKept DEF At, ActionInit, Intent
<1>10. CASE Exit
  <2>1. UNCHANGED <<torrentFile, directories, asked, work, queue>>
    BY <1>10 DEF Exit, disk
  <2> QED BY <2>1, SameWork, FilesKept DEF At
<1> QED
  BY <1>1, <1>2, <1>3, <1>4, <1>6, <1>7, <1>8, <1>9, <1>10, FilesRowStep, FilesNetwork
     DEF Next, WorkerStep, User, Application

LEMMA RowsFirstRowStep ==
    ASSUME TableInv, NEW d \in Downloads, RowStep(d)
    PROVE  RowsFirst'
<1> USE DEF TableInv, TypeOK, TableOK
<1>1. CASE NextRow(d) \/ Returning(d) \/ Toggling(d)
  <2>1. work'.at \in {"initRow", "resume", "pause", "removeEach", "next", "idle", "pauseRow",
                      "resumeRow"}
    BY <1>1, NextRowWork, ReturningWork, TogglingWork DEF Idle
  <2> QED BY <2>1 DEF RowsFirst, Inserted
<1>2. CASE Added(d)
  <2>1. work'.at \in Inserted /\ work'.action = work.action
    BY <1>2, AddedWork DEF WithFile, Inserted
  <2>2. work.at \in {"add"} \cup Inserted
    BY <1>2 DEF Added, AddInsert, CheckLast, RemoveLast, MoveLast, ForgetLast, At, Inserted
  <2> QED BY <2>1, <2>2 DEF RowsFirst, Inserted
<1>3. CASE Deleting(d)
  <2>1. /\ work'.at \in {"initName", "deleteDirectory", "deleteRow", "next", "idle"}
        /\ work'.at = "deleteDirectory" => work'.row = d
    BY <1>3, DeletingWork
  <2>2. work'.at = "deleteDirectory" => table'[d] = NoRow
    BY <1>3, GotoWork, ReturnWork
       DEF Deleting, InitRow, InitName, Remove, DeleteRow, AddTorrentOf, DiskOK, Idle
  <2>3. work'.at = "deleteRow" => work'.action = "remove"
    BY <1>3, GotoWork, ReturnWork
       DEF Deleting, InitRow, InitName, Remove, DeleteRow, AddTorrentOf, AfterAdd, At, Idle,
           RowsFirst
  <2> QED BY <2>1, <2>2, <2>3 DEF RowsFirst, Inserted
<1> QED BY <1>1, <1>2, <1>3, RowStepKinds

LEMMA RowsFirstStep ==
    ASSUME TableInv, Next
    PROVE  RowsFirst'
<1> USE DEF TableInv, TypeOK, TableOK
<1>1. CASE OnHandleIntent
  <2>1. work'.at \in {"next"} \cup RowActions /\ (work'.at # "next" => work'.action = work'.at)
    BY <1>1, IntentWork DEF Intents
  <2> QED BY <2>1 DEF RowsFirst, RowActions, Inserted
<1>2. CASE NoMoreRows \/ ClearDownloads \/ Crash
  <2>1. work'.at \in {"deleteRows", "idle"}
    BY <1>2, GotoWork, CrashWork DEF NoMoreRows, ClearDownloads, Idle
  <2> QED BY <2>1 DEF RowsFirst, Inserted
<1>3. CASE DeleteRows
  BY <1>3, GotoWork DEF DeleteRows, RowsFirst, RowsOf, Inserted
<1>4. ASSUME NEW d \in Downloads, Network(d) PROVE RowsFirst'
  BY <1>4, NetworkWork DEF RowsFirst, At, Idle, Inserted
<1>5. CASE User \/ Launch \/ Exit
  BY <1>5, ScreenWork DEF RowsFirst, RowsOf, Inserted
<1> QED
  BY <1>1, <1>2, <1>3, <1>4, <1>5, RowsFirstRowStep DEF Next, WorkerStep, Application

LEMMA RInvStep ==
    ASSUME RInv, [Next]_vars
    PROVE  RInv'
<1>1. TypeOK' /\ IInv'
  BY NextType, NextInv DEF RInv, IInv, TableOK
<1>2. CASE Next
  BY <1>1, <1>2, FilesStep, RowsFirstStep DEF RInv, TableInv, IInv
<1>3. CASE UNCHANGED vars
  BY <1>1, <1>3 DEF vars, disk, user, RInv, FilesOK, RowsFirst, Waiting, At, RowsOf, Inserted
<1> QED BY <1>2, <1>3

-----------------------------------------------------------------------------
(* The stages.                                                              *)

\* What transfers data is kept.
Transferring == Running \subseteq Life!In("kept")

LEMMA RunningKept == TypeOK /\ IInv => Transferring
<1> SUFFICES ASSUME TypeOK, IInv, NEW c \in gTorrents PROVE savePath[c] \in Life!In("kept")
  BY DEF Transferring, Running
<1>1. savePath[c] \in RowsOf /\ NameOf(savePath[c]) = c
  BY DEF IInv, TableOK, NoStrayTorrent
<1>2. torrentFile[savePath[c]] = "whole"
  BY <1>1, ContentAssumption DEF NameOf, gTorrents
<1>3. savePath[c] \in asked
  BY <1>1 DEF IInv, TableOK, AddsOK
<1> QED BY <1>1, <1>2, <1>3 DEF Life!In, Stage, Kept, RowsOf

LEMMA SameStage ==
    ASSUME asked' = asked, \A d \in Downloads : Kept(d)' <=> Kept(d),
           \A d \in Downloads : Present(d)' <=> Present(d)
    PROVE  Stage' = Stage
BY DEF Stage

\* The usual case: the torrent files stay and the table has the same rows.
LEMMA SameRows ==
    ASSUME asked' = asked, torrentFile' = torrentFile,
           \A d \in Downloads : table'[d] = NoRow <=> table[d] = NoRow,
           \A d \in Downloads : Waiting(d)' <=> Waiting(d)
    PROVE  Stage' = Stage
BY SameStage DEF Kept, Present

LEMMA SameUnwanted ==
    ASSUME queue' = queue,
           \A d \in Downloads :
               Removes(work'.action, work'.row, d) <=> Removes(work.action, work.row, d)
    PROVE  Unwanted' = Unwanted
BY DEF Unwanted

LEMMA SameSession ==
    ASSUME UNCHANGED session
    PROVE  Running' = Running
BY DEF session, Running, gTorrents

LEMMA Wants ==
    ASSUME Stage' = Stage, UNCHANGED session
    PROVE  Life!Next
<1>1. Unwanted' \in SUBSET Downloads /\ Running' = Running
  BY SameSession DEF Unwanted
<1> QED BY <1>1 DEF Life!Next, Life!Want

LEMMA Transfers ==
    ASSUME Transferring', Stage' = Stage, Unwanted' = Unwanted
    PROVE  Life!Next
<1>1. Running' \subseteq Life!In("kept")
  BY DEF Transferring, Life!In
<1> QED BY <1>1 DEF Life!Next, Life!Transfer

\* The rows D leave the table, or the process leaves the downloads D behind.
LEMMA Drops ==
    ASSUME RInv, Transferring, asked' = asked, NEW D \in SUBSET Downloads,
           \A d \in D : Stage[d] \in {"asked", "kept"} /\ (Stage[d] = "kept" => d \in Unwanted),
           \A d \in D : ~Kept(d)' /\ ~Present(d)' /\ d \notin Running,
           \A d \in Downloads \ D : (Kept(d)' <=> Kept(d)) /\ (Present(d)' <=> Present(d)),
           Unwanted' \subseteq Unwanted, Running' \subseteq Running
    PROVE  Life!Next
<1>1. \A d \in D : d \in asked
  BY DEF Stage
<1>2. Life!Becomes(D, "gone")
  BY <1>1 DEF Life!Becomes, Stage
<1> QED BY <1>2 DEF Life!Next, Life!Drop, Life!In

\* One row leaves the table.
LEMMA RowGone ==
    ASSUME RInv, Transferring, NEW d \in Downloads, table' = [table EXCEPT ![d] = NoRow],
           asked' = asked, torrentFile' = torrentFile, UNCHANGED session,
           \A e \in Downloads : Waiting(e)' <=> Waiting(e),
           Unwanted' \subseteq Unwanted, Kept(d) => d \in Unwanted /\ d \notin Running
    PROVE  Life!Next
<1> USE DEF RInv, TypeOK, IInv, TableOK
<1>1. table'[d] = NoRow /\ \A e \in Downloads \ {d} : table'[e] = table[e]
  BY DEF DiskOK
<1>2. CASE table[d] = NoRow
  BY <1>1, <1>2, SameRows, Wants
<1>3. CASE table[d] # NoRow
  <2>1. ~Waiting(d)' /\ d \in asked
    BY <1>3, RowsDoNotWait DEF AddsOK, RowsOf
  <2>2. /\ Stage[d] \in {"asked", "kept"} /\ (Stage[d] = "kept" <=> Kept(d))
    BY <1>3, <2>1 DEF Stage, Present, Kept
  <2>3. d \notin Running
    BY <2>2 DEF Transferring, Life!In
  <2>4. ~Kept(d)' /\ ~Present(d)'
    BY <1>1, <2>1 DEF Kept, Present
  <2>5. \A e \in Downloads \ {d} : (Kept(e)' <=> Kept(e)) /\ (Present(e)' <=> Present(e))
    BY <1>1 DEF Kept, Present
  <2> DEFINE D == {d}
  <2>6. /\ \A e \in D : Stage[e] \in {"asked", "kept"} /\ (Stage[e] = "kept" => e \in Unwanted)
        /\ \A e \in D : ~Kept(e)' /\ ~Present(e)' /\ e \notin Running
    BY <2>2, <2>3, <2>4
  <2>7. Running' \subseteq Running /\ D \in SUBSET Downloads
    BY SameSession
  <2> QED BY <2>5, <2>6, <2>7, Drops
<1> QED BY <1>2, <1>3

-----------------------------------------------------------------------------
(* Every step is a step of DownloadLife, or none.                           *)

LEMMA RowStepLife ==
    ASSUME RInv, Transferring, Transferring', NEW d \in Downloads, RowStep(d)
    PROVE  Life!Next
<1> USE DEF RInv, TypeOK, IInv, TableOK
<1>1. queue' = queue /\ asked' = asked
  BY RowStepTable
<1>2. CASE NextRow(d) \/ CheckLast(d) \/ MoveLast(d) \/ ForgetLast(d) \/ RemoveLast(d)
           \/ Remove(d) \/ RemoveEach(d) \/ Pause(d) \/ Resume(d)
  <2>1. table' = table /\ torrentFile' = torrentFile
    BY <1>2 DEF NextRow, CheckLast, MoveLast, ForgetLast, RemoveLast, Remove, RemoveEach, Pause,
                Resume, disk
  <2>2. ~AddInsert(d)
    BY <1>2 DEF NextRow, CheckLast, MoveLast, ForgetLast, RemoveLast, Remove, RemoveEach, Pause,
                Resume, AddInsert, At
  <2>3. Stage' = Stage
    BY <1>1, <2>1, <2>2, RowStepWaiting, SameRows
  <2>4. work'.action = work.action
    <3>1. CASE NextRow(d)
      BY <3>1, NextRowWork
    <3>2. CASE RemoveEach(d)
      <4>1. work.action \in Loops
        BY <3>2 DEF RemoveEach, At, LabelsOK, Loops
      <4> QED BY <3>2, <4>1, GotoWork DEF RemoveEach, Return
    <3>3. CASE ~NextRow(d) /\ ~RemoveEach(d)
      <4>1. \E label : Goto(label)
        BY <1>2, <3>3 DEF CheckLast, MoveLast, ForgetLast, RemoveLast, Remove, Pause, Resume
      <4> QED BY <4>1, GotoWork
    <3> QED BY <3>1, <3>2, <3>3
  <2>5. work.action = "remove" => work'.row = work.row
    <3>1. CASE NextRow(d) \/ RemoveEach(d)
      BY <3>1 DEF NextRow, RemoveEach, At, LabelsOK, Loops
    <3>2. CASE ~NextRow(d) /\ ~RemoveEach(d)
      <4>1. \E label : Goto(label)
        BY <1>2, <3>2 DEF CheckLast, MoveLast, ForgetLast, RemoveLast, Remove, Pause, Resume
      <4> QED BY <4>1, GotoWork
    <3> QED BY <3>1, <3>2
  <2>6. Unwanted' = Unwanted
    BY <1>1, <2>4, <2>5, SameUnwanted DEF Removes
  <2> QED BY <2>3, <2>6, Transfers
<1>3. CASE PauseRow(d) \/ ResumeRow(d)
  <2>1. PICK from, to \in States : RowChanges(d, from, to)
    BY <1>3 DEF PauseRow, ResumeRow, States
  <2>2. \A e \in Downloads : table'[e] = NoRow <=> table[e] = NoRow
    BY <2>1 DEF RowChanges, UpdateRow, DiskOK, States, DOWNLOADING, PAUSED, NoRow
  <2>3. \A e \in Downloads : Waiting(e)' <=> Waiting(e)
    BY <1>3, RowStepWaiting DEF PauseRow, ResumeRow, AddInsert, At
  <2> QED BY <1>1, <2>1, <2>2, <2>3, SameRows, Wants DEF RowChanges
<1>4. CASE AddInsert(d)
  <2>1. /\ table' = [table EXCEPT ![d] = DOWNLOADING] /\ torrentFile' = torrentFile
        /\ UNCHANGED session
    BY <1>4 DEF AddInsert
  <2>2. table'[d] # NoRow /\ \A e \in Downloads \ {d} : table'[e] = table[e]
    BY <2>1 DEF DiskOK, DOWNLOADING, NoRow
  <2>3. Waiting(d) /\ \A e \in Downloads \ {d} : Waiting(e)' <=> Waiting(e)
    BY <1>4, RowStepWaiting DEF AddInsert, Waiting
  <2>4. torrentFile[d] # "whole"
    BY <2>3 DEF FilesOK
  <2>5. Stage' = Stage
    BY <1>1, <2>1, <2>2, <2>3, <2>4, SameStage DEF Kept, Present
  <2> QED BY <2>1, <2>5, Wants
<1>5. CASE DeleteDirectory(d)
  <2>1. /\ table' = table /\ torrentFile' = [torrentFile EXCEPT ![d] = "none"]
        /\ UNCHANGED session
    BY <1>5 DEF DeleteDirectory
  <2>2. \A e \in Downloads \ {d} : torrentFile'[e] = torrentFile[e]
    BY <2>1 DEF DiskOK
  <2>3. table[d] = NoRow
    BY <1>5 DEF DeleteDirectory, At, RowsFirst
  <2>4. \A e \in Downloads : Waiting(e)' <=> Waiting(e)
    BY <1>5, RowStepWaiting DEF DeleteDirectory, AddInsert, At
  <2>5. Stage' = Stage
    BY <1>1, <2>1, <2>2, <2>3, <2>4, SameStage DEF Kept, Present
  <2> QED BY <2>1, <2>5, Wants
<1>6. CASE Deleting(d) /\ ~Remove(d)
  <2>1. \A e \in Downloads : Waiting(e)' <=> Waiting(e)
    BY <1>6, RowStepWaiting DEF Deleting, InitRow, InitName, AddTorrentOf, DeleteRow, AddInsert, At
  <2>2. torrentFile' = torrentFile
    BY <1>6 DEF Deleting, InitRow, InitName, AddTorrentOf, DeleteRow
  <2>3. CASE InitRow(d) \/ InitName(d) \/ AddTorrentOf(d)
    <3>1. work.action \notin {"remove", "removeAll"} /\ work'.action \notin {"remove", "removeAll"}
      <4>1. work.action \notin {"remove", "removeAll"}
        BY <2>3 DEF InitRow, InitName, AddTorrentOf, At, LabelsOK, RowsFirst, Inserted
      <4>2. (\E label : Goto(label)) \/ Return
        BY <2>3 DEF InitRow, InitName, AddTorrentOf, AfterAdd
      <4> QED BY <4>1, <4>2, GotoWork, ReturnWork DEF Idle
    <3>2. Unwanted' = Unwanted
      BY <1>1, <3>1, SameUnwanted DEF Removes
    <3>3. CASE table' = table
      BY <1>1, <2>1, <2>2, <3>2, <3>3, SameRows, Transfers
    <3>4. CASE table' # table
      <4>1. table' = [table EXCEPT ![d] = NoRow]
        BY <2>3, <3>4 DEF InitRow, InitName, AddTorrentOf
      <4>2. ~Kept(d) /\ UNCHANGED session
        <5>1. CASE InitRow(d)
          BY <3>4, <5>1 DEF InitRow, InitChecks, Kept, FilesOK
        <5>2. CASE InitName(d)
          BY <3>4, <5>2, DownloadAssumption, ContentAssumption DEF InitName, NameOf, Kept
        <5>3. CASE AddTorrentOf(d)
          BY <3>4, <5>3, DownloadAssumption, ContentAssumption
             DEF AddTorrentOf, AddTorrent, NameOf, Kept
        <5> QED BY <2>3, <5>1, <5>2, <5>3
      <4> QED BY <1>1, <2>1, <2>2, <3>2, <4>1, <4>2, RowGone
    <3> QED BY <3>3, <3>4
  <2>4. CASE DeleteRow(d)
    <3>1. /\ work.action = "remove" /\ work.row = d
          /\ table' = [table EXCEPT ![d] = NoRow] /\ UNCHANGED session
      BY <2>4 DEF DeleteRow, At, RowsFirst
    <3>2. d \in Unwanted
      BY <3>1 DEF Unwanted, Removes
    <3>3. d \notin Running
      BY <2>4 DEF DeleteRow, At, Vacant, Running, gTorrents
    <3>4. work'.action = work.action /\ work'.row = work.row
      BY <2>4, GotoWork DEF DeleteRow
    <3>5. Unwanted' = Unwanted
      BY <1>1, <3>4, SameUnwanted
    <3> QED BY <1>1, <2>1, <2>2, <3>1, <3>2, <3>3, <3>5, RowGone
  <2> QED BY <1>6, <2>3, <2>4 DEF Deleting
<1> QED
  BY <1>2, <1>3, <1>4, <1>5, <1>6 DEF RowStep, Deleting

LEMMA NetworkLife ==
    ASSUME RInv, Transferring, NEW d \in Downloads, Network(d)
    PROVE  Life!Next
<1> USE DEF RInv, TypeOK, IInv, TableOK
<1>1. /\ queue' = queue /\ asked' = asked /\ At("fetch", d)
      /\ \A e \in Downloads : Waiting(e)' <=> Waiting(e)
  BY NetworkWork, NetworkWaiting
<1>2. table[d] # NoRow /\ torrentFile[d] # "whole"
  BY <1>1 DEF At, RowAdded, Inserted, FilesOK
<1>3. work.action = "add"
  BY <1>1 DEF At, RowsFirst, Inserted
<1>4. CASE CopyFails(d)
  <2>1. /\ table' = [table EXCEPT ![d] = NoRow] /\ torrentFile' = torrentFile
        /\ UNCHANGED session
    BY <1>4 DEF CopyFails
  <2>2. work' = Idle
    BY <1>3, <1>4 DEF CopyFails, Return, Loops
  <2>3. Unwanted' = Unwanted
    BY <1>1, <1>3, <2>2, SameUnwanted DEF Removes, Idle
  <2> QED BY <1>1, <1>2, <2>1, <2>3, RowGone DEF Kept
<1>5. CASE LoadFails(d)
  <2>1. /\ table' = table /\ torrentFile' = [torrentFile EXCEPT ![d] = "broken"]
        /\ UNCHANGED session
    BY <1>5 DEF LoadFails
  <2>2. torrentFile'[d] = "broken" /\ \A e \in Downloads \ {d} : torrentFile'[e] = torrentFile[e]
    BY <2>1 DEF DiskOK
  <2>3. Stage' = Stage
    BY <1>1, <1>2, <2>1, <2>2, SameStage DEF Kept, Present
  <2> QED BY <2>1, <2>3, Wants
<1>6. ASSUME NEW file \in {"broken", "whole"}, Fetch(d, file) PROVE Life!Next
  <2>1. /\ table' = table /\ torrentFile' = [torrentFile EXCEPT ![d] = file]
        /\ UNCHANGED session
    BY <1>6 DEF Fetch
  <2>2. torrentFile'[d] = file /\ \A e \in Downloads \ {d} : torrentFile'[e] = torrentFile[e]
    BY <2>1 DEF DiskOK
  <2>3. CASE file = "broken"
    <3>1. Stage' = Stage
      BY <1>1, <1>2, <2>1, <2>2, <2>3, SameStage DEF Kept, Present
    <3> QED BY <2>1, <3>1, Wants
  <2>4. CASE file = "whole"
    <3>1. d \in asked
      BY <1>2 DEF AddsOK, RowsOf
    <3>2. \A e \in Downloads \ {d} : (Kept(e)' <=> Kept(e)) /\ (Present(e)' <=> Present(e))
      BY <1>1, <2>1, <2>2 DEF Kept, Present
    <3>3. ~Kept(d) /\ Present(d) /\ Kept(d)'
      BY <1>2, <2>1, <2>2, <2>4 DEF Kept, Present
    <3>4. d \in Life!In("asked") /\ Life!Becomes({d}, "kept")
      BY <1>1, <3>1, <3>2, <3>3 DEF Life!In, Life!Becomes, Stage
    <3>5. Unwanted' = Unwanted
      <4>1. work'.action = work.action /\ work'.row = work.row
        BY <1>6, GotoWork DEF Fetch
      <4> QED BY <1>1, <4>1, SameUnwanted
    <3>6. Running' = Running
      BY <2>1, SameSession
    <3> QED BY <3>4, <3>5, <3>6 DEF Life!Next, Life!Keep
  <2> QED BY <2>3, <2>4
<1> QED BY <1>4, <1>5, <1>6 DEF Network

LEMMA LoopLife ==
    ASSUME RInv, Transferring, OnHandleIntent \/ NoMoreRows \/ DeleteRows \/ ClearDownloads
    PROVE  Life!Next
<1> USE DEF RInv, TypeOK, IInv, TableOK
<1>1. asked' = asked /\ UNCHANGED session
  BY DEF OnHandleIntent, NoMoreRows, DeleteRows, ClearDownloads, user
<1>2. CASE OnHandleIntent
  <2>1. table' = table /\ torrentFile' = torrentFile
    BY <1>2 DEF OnHandleIntent, disk
  <2> QED BY <1>1, <1>2, <2>1, IntentWaiting, SameRows, Wants
<1>3. CASE NoMoreRows \/ DeleteRows \/ ClearDownloads
  <2>1. queue' = queue /\ work.at # "add" /\ work'.at # "add"
    BY <1>3, GotoWork DEF NoMoreRows, DeleteRows, ClearDownloads, Idle
  <2>2. \A d \in Downloads : Waiting(d)' <=> Waiting(d)
    BY <2>1, SameWaiting
  <2>3. CASE NoMoreRows
    <3>1. table' = table /\ torrentFile' = torrentFile
      BY <2>3 DEF NoMoreRows, disk
    <3> QED BY <1>1, <2>2, <3>1, SameRows, Wants
  <2>4. CASE ClearDownloads
    <3>1. /\ table' = table /\ RowsOf = {}
      BY <2>4 DEF ClearDownloads, RowsFirst
    <3>2. Stage' = Stage
      BY <1>1, <2>2, <3>1, SameStage DEF Kept, Present, RowsOf
    <3> QED BY <1>1, <3>2, Wants
  <2>5. CASE DeleteRows
    <3>1. /\ work.action = "removeAll" /\ work.at = "deleteRows" /\ gTorrents = {}
          /\ table' = [d \in Downloads |-> NoRow] /\ torrentFile' = torrentFile
      BY <2>5 DEF DeleteRows, LabelsOK, RemovedSoFar
    <3>2. work'.action = work.action
      BY <2>5, GotoWork DEF DeleteRows
    <3>3. Unwanted = Downloads /\ Unwanted' = Unwanted
      BY <2>1, <3>1, <3>2, SameUnwanted DEF Unwanted, Removes
    <3>4. Running = {} /\ Running' = Running
      BY <1>1, <3>1, SameSession DEF Running
    <3>5. \A d \in RowsOf : d \in asked /\ ~Waiting(d)
      BY RowsDoNotWait DEF AddsOK, RowsOf
    <3>6. \A d \in RowsOf : Stage[d] \in {"asked", "kept"} /\ ~Kept(d)' /\ ~Present(d)'
      BY <2>2, <3>1, <3>5 DEF Stage, Kept, Present, RowsOf
    <3>7. \A d \in Downloads \ RowsOf : (Kept(d)' <=> Kept(d)) /\ (Present(d)' <=> Present(d))
      BY <2>2, <3>1 DEF Kept, Present, RowsOf
    <3>8. RowsOf \in SUBSET Downloads
      BY DEF RowsOf
    <3> QED BY <1>1, <3>3, <3>4, <3>6, <3>7, <3>8, Drops
  <2> QED BY <1>3, <2>3, <2>4, <2>5
<1> QED BY <1>2, <1>3

LEMMA ScreenLife ==
    ASSUME RInv, Transferring', User \/ Launch \/ Exit
    PROVE  Life!Next
<1> USE DEF RInv, TypeOK, IInv, TableOK
<1>1. table' = table /\ torrentFile' = torrentFile /\ work' = work
  BY DEF User, RequestRow, RequestAll, Request, HandleDownload, Launch, Exit, disk
<1>2. ASSUME NEW i \in Intents, i.action # "add", queue' = Append(queue, i), asked' = asked,
             UNCHANGED session
      PROVE  Life!Next
  BY <1>1, <1>2, AppendWaiting, SameRows, Wants
<1>3. CASE RequestRow
  <2>1. PICK d \in RowsOf, action \in {"remove", "resume", "pause"} :
            Request(Intent(action, d, table[d]))
    BY <1>3 DEF RequestRow
  <2>2. Intent(action, d, table[d]) \in Intents
    BY RowType, IntentType DEF RowActions
  <2> QED BY <2>1, <2>2, <1>2 DEF Intent, Request
<1>4. CASE RequestAll
  <2>1. PICK action \in {"resumeAll", "pauseAll", "removeAll"} : Request(Intent(action, 0, NoRow))
    BY <1>4 DEF RequestAll
  <2>2. Intent(action, 0, NoRow) \in Intents
    BY IntentType DEF Loops
  <2> QED BY <2>1, <2>2, <1>2 DEF Intent, Request
<1>5. ASSUME NEW d \in Downloads, HandleDownload(d) PROVE Life!Next
  <2> DEFINE i == Intent("add", d, DOWNLOADING)
  <2>1. /\ d \notin asked /\ asked' = asked \cup {d} /\ queue' = Append(queue, i)
        /\ UNCHANGED session
    BY <1>5 DEF HandleDownload
  <2>2. i \in Intents /\ i.row = d /\ i.action = "add"
    BY IntentType DEF RowActions, States, Intent
  <2>3. Waiting(d)' /\ \A e \in Downloads \ {d} : Waiting(e)' <=> Waiting(e)
    BY <1>1, <2>1, <2>2, AppendWaiting
  <2>4. table[d] = NoRow
    BY <2>1 DEF AddsOK, RowsOf
  <2>5. ~Kept(d)' /\ Present(d)'
    BY <1>1, <2>3, <2>4 DEF Kept, Present
  <2>6. \A e \in Downloads \ {d} : (Kept(e)' <=> Kept(e)) /\ (Present(e)' <=> Present(e))
    BY <1>1, <2>3 DEF Kept, Present
  <2>7. d \in Life!In("new") /\ Life!Becomes({d}, "asked")
    BY <2>1, <2>5, <2>6 DEF Life!In, Life!Becomes, Stage
  <2>8. Unwanted' = Unwanted
    <3>1. \A e \in Downloads :
              (\E k \in 1 .. Len(queue') : Removes(queue'[k].action, queue'[k].row, e))
                  <=> \E k \in 1 .. Len(queue) : Removes(queue[k].action, queue[k].row, e)
      <4>1. /\ Len(queue) \in Nat /\ Len(queue') = Len(queue) + 1
            /\ queue'[Len(queue) + 1] = i
            /\ \A k \in 1 .. Len(queue) : queue'[k] = queue[k]
        BY <2>1, <2>2
      <4>2. \A e \in Downloads : ~Removes(i.action, i.row, e)
        BY <2>2 DEF Removes
      <4>3. \A k \in 1 .. Len(queue') : k \in 1 .. Len(queue) \/ k = Len(queue) + 1
        BY <4>1
      <4>4. \A k \in 1 .. Len(queue) : k \in 1 .. Len(queue')
        BY <4>1
      <4> QED BY <4>1, <4>2, <4>3, <4>4
    <3> QED BY <1>1, <3>1 DEF Unwanted
  <2>9. Running' = Running
    BY <2>1, SameSession
  <2> QED BY <2>7, <2>8, <2>9 DEF Life!Next, Life!Ask
<1>6. CASE Launch
  <2>1. queue' = Append(queue, ActionInit) /\ asked' = asked /\ UNCHANGED session
    BY <1>6 DEF Launch
  <2> QED BY <2>1, <1>2, InitIntentType DEF ActionInit, Intent
<1>7. CASE Exit
  <2>1. queue' = queue /\ asked' = asked
    BY <1>7 DEF Exit
  <2>2. Stage' = Stage
    BY <1>1, <2>1, SameWork, SameRows
  <2> QED BY <1>1, <2>1, <2>2, SameUnwanted, Transfers
<1> QED BY <1>3, <1>4, <1>5, <1>6, <1>7 DEF User

LEMMA CrashLife ==
    ASSUME RInv, Transferring, Crash
    PROVE  Life!Next
<1> DEFINE D == {d \in Downloads : Stage[d] = "asked" /\ table[d] = NoRow}
<1>1. /\ work' = Idle /\ queue' = <<>> /\ table' = table /\ asked' = asked
      /\ torrentFile' = torrentFile
  BY CrashWork DEF Crash, ProcessDies, disk
<1>2. Unwanted' = {}
  BY <1>1 DEF Unwanted, Removes, Idle
<1>3. Running' = {}
  <2>1. savePath' = [c \in Contents |-> Nowhere]
    BY DEF Crash, ProcessDies
  <2> QED BY <2>1 DEF Running, gTorrents
<1>4. \A d \in Downloads : (Kept(d)' <=> Kept(d)) /\ (Present(d)' <=> table[d] # NoRow)
  BY <1>1, CrashWaiting DEF Kept, Present
<1>5. \A d \in D : /\ Stage[d] = "asked" /\ ~Kept(d)' /\ ~Present(d)' /\ d \notin Running
                   /\ d \in asked
  BY <1>4 DEF Kept, Transferring, Life!In, Stage
<1>6. Life!Becomes(D, "gone")
  <2>1. ASSUME NEW d \in D PROVE Stage'[d] = "gone"
    BY <1>1, <1>5 DEF Stage
  <2>2. ASSUME NEW d \in Downloads \ D PROVE Stage'[d] = Stage[d]
    BY <1>1, <1>4 DEF Stage, Kept, Present
  <2> QED BY <2>1, <2>2 DEF Life!Becomes, Stage
<1>7. D \subseteq Life!In("asked") /\ D \cap Running = {}
  BY <1>5 DEF Life!In
<1> QED BY <1>2, <1>3, <1>6, <1>7 DEF Life!Next, Life!Drop

LEMMA InitLife == Init => Life!Init
BY DEF Init, SessionInit, Life!Init, Stage, Unwanted, Removes, Idle, Running, gTorrents

LEMMA NextLife ==
    ASSUME RInv, Transferring, Transferring', [Next]_vars
    PROVE  [Life!Next]_(Life!vars)
<1>1. CASE Next
  BY <1>1, RowStepLife, NetworkLife, LoopLife, ScreenLife, CrashLife
     DEF Next, WorkerStep, Application
<1>2. CASE UNCHANGED vars
  <2>1. UNCHANGED <<session, asked, torrentFile, table, queue, work>>
    BY <1>2 DEF vars, disk, user
  <2>2. Stage' = Stage /\ Unwanted' = Unwanted
    BY <2>1, SameWork, SameRows, SameUnwanted
  <2> QED BY <2>1, <2>2, SameSession DEF Life!vars
<1> QED BY <1>1, <1>2

(* For every number of downloads, contents, requests, exits and deaths of   *)
(* the process: the service is an implementation of DownloadLife, so that a *)
(* download is lost only before its torrent file could be read, transfers   *)
(* data only with its row in the table, and stays gone.                     *)
THEOREM DownloadsLive == Spec => ImplementsLife
<1>1. Init => RInv /\ Life!Init
  BY InitType, InitInv, InitFiles, InitLife DEF RInv
<1>2. RInv /\ [Next]_vars => RInv'
  BY RInvStep
<1>3. RInv => Transferring
  BY RunningKept DEF RInv
<1>4. RInv /\ Transferring /\ Transferring' /\ [Next]_vars => [Life!Next]_(Life!vars)
  BY NextLife
<1> QED BY <1>1, <1>2, <1>3, <1>4, PTL DEF Spec, ImplementsLife, Life!Spec

-----------------------------------------------------------------------------
(* What holds between two intents.  The properties speak of an idle worker; *)
(* the invariant says what holds at each of its steps: of every row the     *)
(* worker is not busy with, and of the row it works on as far as it has     *)
(* come.                                                                    *)

Toggled == {"pause", "pauseRow", "resume", "resumeRow"}

\* The application is open and its reconciliation at start has begun.
Reconciled == open /\ \A i \in 1 .. Len(queue) : queue[i] # ActionInit

\* The worker has still to reconcile the row, to finish adding it, or to delete it.
Busy(d) ==
    \/ work.action = "init" /\ (d \in work.rest \/ At("initRow", d) \/ At("initName", d))
    \/ work.at \in Inserted /\ work.row = d
    \/ At("deleteRow", d)
    \/ work.action = "removeAll"

Settled(d) == Reconciled /\ d \in RowsOf /\ ~Busy(d)

\* A settled row has its torrent file, and its torrent.
HasTorrent(d) ==
    Settled(d) => torrentFile[d] = "whole" /\ (Alone(d) => ContentOf[d] \in gTorrents)

\* A torrent is not paused before its row, but by the intent that is pausing both.
PausedRow(d) ==
    d \in RowsOf \ doubted /\ Alone(d) /\ ContentOf[d] \in paused
        => table[d] = PAUSED \/ At("pauseRow", d)

\* The torrent of a settled row that is paused is paused, but while it resumes.
PausedTorrent(d) ==
    Settled(d) /\ d \notin doubted /\ Alone(d) /\ table[d] = PAUSED
        => ContentOf[d] \in paused \/ At("resumeRow", d)

RowOK(d) == HasTorrent(d) /\ PausedRow(d) /\ PausedTorrent(d)

(* What the copy of the row says while init restores it or an add fills it. *)
CopiesOK ==
    /\ work.at \in Toggled => work.action \notin {"init", "removeAll"}
    /\ work.at \in {"initRow", "initName"} => work.state = table[work.row]
    /\ work.at \in Inserted => table[work.row] = DOWNLOADING

(* What the worker has done to the torrent before it turns to the row.      *)
TorrentFirst ==
    /\ Reconciled /\ work.at = "initName" /\ NameOf(work.row) # NoName
            => NameOf(work.row) \in gTorrents
    /\ work.at = "resumeRow" /\ Alone(work.row) => ContentOf[work.row] \notin paused
    /\ Reconciled /\ work.at = "pauseRow" /\ work.row \in RowsOf /\ Alone(work.row)
            => ContentOf[work.row] \in paused

RowsOK == \A d \in Downloads : RowOK(d)

RowsInv == RInv /\ CopiesOK /\ TorrentFirst /\ RowsOK

-----------------------------------------------------------------------------
(* Contents of one download only.                                           *)

\* The torrent of a content no other download has is saved with that download.
LEMMA AloneSaved ==
    ASSUME RInv, NEW d \in Downloads, Alone(d), ContentOf[d] \in gTorrents
    PROVE  savePath[ContentOf[d]] = d /\ NameOf(d) = ContentOf[d]
<1>1. PICK e \in Downloads : e \in RowsOf /\ savePath[ContentOf[d]] = e /\ NameOf(e) = ContentOf[d]
  BY DEF RInv, IInv, TableOK, NoStrayTorrent, RowsOf
<1>2. e \in asked /\ ContentOf[e] = ContentOf[d]
  BY <1>1, NameType, ContentAssumption DEF RInv, IInv, TableOK, AddsOK, gTorrents
<1> QED BY <1>1, <1>2 DEF Alone

LEMMA OtherName ==
    ASSUME FilesOK, NEW d \in Downloads, NEW e \in Downloads \ {d}, Alone(e)
    PROVE  ContentOf[e] # NameOf(d)
BY DownloadAssumption, ContentAssumption DEF FilesOK, NameOf, Alone

LEMMA AloneBefore ==
    ASSUME asked \subseteq asked'
    PROVE  \A d : Alone(d)' => Alone(d)
BY DEF Alone

\* A step on a row touches no torrent but that of its file.
LEMMA RowStepSession ==
    ASSUME SessionOK, NEW d, RowStep(d), NEW c \in Contents, c # NameOf(d)
    PROVE  savePath'[c] = savePath[c] /\ (c \in paused' <=> c \in paused)
<1>1. \/ UNCHANGED session
      \/ AddTorrent(d, NameOf(d)) \/ RemoveTorrent(NameOf(d))
      \/ PauseTorrent(NameOf(d)) \/ ResumeTorrent(NameOf(d))
  BY DEF RowStep, NextRow, InitRow, InitName, DeleteDirectory, AddInsert, CheckLast, RemoveLast,
         MoveLast, ForgetLast, AddTorrentOf, Remove, DeleteRow, RemoveEach, Pause, Resume,
         PauseRow, ResumeRow, RowChanges, RestoreState, RemoveFirst
<1> QED
  BY <1>1 DEF session, SessionOK, AddTorrent, RemoveTorrent, PauseTorrent, ResumeTorrent

-----------------------------------------------------------------------------
(* Rows that a step leaves alone.                                           *)

LEMMA SameRow ==
    ASSUME NEW d \in Downloads, RowOK(d), ContentOf[d] \in Contents,
           Settled(d)' => Settled(d), d \in RowsOf' => d \in RowsOf,
           d \in doubted => d \in doubted',
           table'[d] = table[d], torrentFile'[d] = torrentFile[d],
           Alone(d)' => Alone(d),
           Alone(d) => savePath'[ContentOf[d]] = savePath[ContentOf[d]]
                       /\ (ContentOf[d] \in paused' <=> ContentOf[d] \in paused),
           At("pauseRow", d) => At("pauseRow", d)',
           At("resumeRow", d) => At("resumeRow", d)'
    PROVE  RowOK(d)'
BY DEF RowOK, HasTorrent, PausedRow, PausedTorrent, gTorrents

\* Where a step on row d leaves the worker, the other rows see no difference.
LEMMA RowStepBusy ==
    ASSUME TableInv, NEW d \in Downloads, RowStep(d), NEW e \in Downloads \ {d}
    PROVE  /\ Busy(e)' <=> Busy(e)
           /\ ~At("pauseRow", e) /\ ~At("resumeRow", e)
<1> USE DEF TableInv, TypeOK, TableOK
<1>1. CASE NextRow(d)
  <2>1. /\ work'.action = work.action /\ work'.row = d /\ work'.rest = work.rest \ {d}
        /\ work'.at \notin Inserted \cup {"deleteRow"} /\ work.at = "next"
    BY <1>1, NextRowWork DEF NextRow, Inserted
  <2> QED BY <2>1 DEF Busy, At, Inserted
<1>2. CASE ~NextRow(d)
  <2>1. work.row = d /\ work.at \in RowLabels
    BY <1>2 DEF RowStep, InitRow, InitName, DeleteDirectory, AddInsert, CheckLast, RemoveLast,
                MoveLast, ForgetLast, AddTorrentOf, Remove, DeleteRow, RemoveEach, Pause, Resume,
                PauseRow, ResumeRow, At, RowLabels
  <2>2. \/ \E label : Goto(label)
        \/ Return
    BY <1>2 DEF RowStep, InitRow, InitName, DeleteDirectory, AddInsert, CheckLast, RemoveLast,
                MoveLast, ForgetLast, AddTorrentOf, AfterAdd, Remove, DeleteRow, RemoveEach,
                Pause, Resume, PauseRow, ResumeRow, RowChanges
  <2>3. CASE \E label : Goto(label)
    <3>1. work'.row = d /\ work'.action = work.action /\ work'.rest = work.rest
      BY <2>1, <2>3, GotoWork
    <3> QED BY <2>1, <3>1 DEF Busy, At
  <2>4. CASE Return
    <3>1. CASE work.action \in Loops
      <4>1. /\ work'.row = d /\ work'.action = work.action /\ work'.rest = work.rest
        BY <2>1, <2>4, <3>1, GotoWork DEF Return
      <4> QED BY <2>1, <4>1 DEF Busy, At
    <3>2. CASE work.action \notin Loops
      <4>1. work' = Idle /\ work.action \notin {"init", "removeAll"}
        BY <2>4, <3>2 DEF Return, Loops
      <4> QED BY <2>1, <4>1 DEF Busy, At, Idle, Inserted
    <3> QED BY <3>1, <3>2
  <2> QED BY <2>2, <2>3, <2>4
<1> QED BY <1>1, <1>2

LEMMA RowStepUser ==
    ASSUME NEW d, RowStep(d)
    PROVE  /\ queue' = queue /\ open' = open /\ asked' = asked /\ kills' = kills
           /\ doubted' = doubted \/ PauseRow(d) \/ ResumeRow(d)
           /\ doubted' \cup {d} = doubted \cup {d}
<1>1. CASE PauseRow(d) \/ ResumeRow(d)
  <2>1. /\ UNCHANGED <<queue, open, asked, counts>>
        /\ doubted' = doubted \ {d} \/ doubted' = doubted \cup {d}
    BY <1>1 DEF PauseRow, ResumeRow, RowChanges
  <2>2. doubted' \cup {d} = doubted \cup {d}
    BY <2>1
  <2> QED BY <1>1, <2>1, <2>2 DEF counts
<1>2. CASE ~PauseRow(d) /\ ~ResumeRow(d)
  BY <1>2 DEF RowStep, NextRow, InitRow, InitName, DeleteDirectory, AddInsert, CheckLast,
              RemoveLast, MoveLast, ForgetLast, AddTorrentOf, Remove, DeleteRow, RemoveEach,
              Pause, Resume, user, counts
<1> QED BY <1>1, <1>2

LEMMA RowStepFiles ==
    ASSUME DiskOK, NEW d, RowStep(d)
    PROVE  /\ ~DeleteDirectory(d) => torrentFile' = torrentFile /\ directories' = directories
           /\ \A e \in Downloads \ {d} : torrentFile'[e] = torrentFile[e]
<1>1. CASE DeleteDirectory(d)
  BY <1>1 DEF DeleteDirectory, DiskOK
<1>2. CASE ~DeleteDirectory(d)
  BY <1>2 DEF RowStep, NextRow, InitRow, InitName, AddInsert, CheckLast, RemoveLast, MoveLast,
              ForgetLast, AddTorrentOf, Remove, DeleteRow, RemoveEach, Pause, Resume, PauseRow,
              ResumeRow, RowChanges, disk
<1> QED BY <1>1, <1>2

LEMMA OtherRows ==
    ASSUME RowsInv, NEW d \in Downloads, RowStep(d), NEW e \in Downloads \ {d}
    PROVE  RowOK(e)'
<1> USE DEF RowsInv, RowsOK, RInv, TableInv, TypeOK, IInv, TableOK
<1>1. RowOK(e) /\ ContentOf[e] \in Contents
  BY DownloadAssumption
<1>2. /\ table'[e] = table[e] /\ torrentFile'[e] = torrentFile[e]
      /\ queue' = queue /\ open' = open /\ asked' = asked
      /\ e \in doubted => e \in doubted'
  BY RowStepTable, RowStepFiles, RowStepUser
<1>3. /\ e \in RowsOf' => e \in RowsOf
      /\ Settled(e)' => Settled(e)
  BY <1>2, RowStepBusy DEF RowsOf, Settled, Reconciled
<1>4. Alone(e)' => Alone(e)
  BY <1>2, AloneBefore
<1>5. Alone(e) => /\ savePath'[ContentOf[e]] = savePath[ContentOf[e]]
                  /\ ContentOf[e] \in paused' <=> ContentOf[e] \in paused
  BY <1>1, OtherName, RowStepSession
<1> QED BY <1>1, <1>2, <1>3, <1>4, <1>5, RowStepBusy, SameRow

-----------------------------------------------------------------------------
(* The row the worker works on.                                             *)

LEMMA GoneRow ==
    ASSUME NEW d \in Downloads, table'[d] = NoRow
    PROVE  RowOK(d)'
BY DEF RowOK, HasTorrent, PausedRow, PausedTorrent, Settled, RowsOf

\* A row the worker stays busy with, whose torrent is not paused in this step.
LEMMA BusyRow ==
    ASSUME NEW d \in Downloads, RowOK(d), Busy(d)', table'[d] = table[d], paused' \subseteq paused,
           doubted' = doubted, asked' = asked, ~At("pauseRow", d)
    PROVE  RowOK(d)'
<1>1. Alone(d)' => Alone(d)
  BY AloneBefore
<1>2. d \in RowsOf' => d \in RowsOf
  BY DEF RowsOf
<1> QED BY <1>1, <1>2 DEF RowOK, HasTorrent, PausedRow, PausedTorrent, Settled

\* Only Pause and the restored state of a row pause a torrent.
LEMMA NotPaused ==
    ASSUME NEW d, RowStep(d), ~Pause(d), ~InitName(d)
    PROVE  paused' \subseteq paused
BY DEF RowStep, NextRow, InitRow, DeleteDirectory, AddInsert, CheckLast, RemoveLast, MoveLast,
       ForgetLast, AddTorrentOf, Remove, RemoveFirst, DeleteRow, RemoveEach, Resume, PauseRow,
       ResumeRow, RowChanges, AddTorrent, RemoveTorrent, ResumeTorrent, session

LEMMA BusyAfter ==
    ASSUME TableInv, NEW d \in Downloads,
           \/ AddInsert(d) \/ CheckLast(d) \/ RemoveLast(d) \/ MoveLast(d) \/ ForgetLast(d)
           \/ Remove(d) \/ RemoveEach(d)
           \/ InitRow(d) /\ InitChecks(d)
    PROVE  Busy(d)'
<1> USE DEF TableInv, TypeOK, TableOK
<1>1. CASE Added(d)
  BY <1>1, AddedWork DEF Busy, WithFile, Inserted
<1>2. CASE Remove(d)
  <2>1. Goto("deleteRow") /\ work.row = d
    BY <1>2 DEF Remove, At
  <2> QED BY <2>1, GotoWork DEF Busy, At
<1>3. CASE RemoveEach(d)
  <2>1. work.action = "removeAll" /\ Return
    BY <1>3 DEF RemoveEach, At, LabelsOK
  <2>2. Goto("next")
    BY <2>1 DEF Return, Loops
  <2> QED BY <2>1, <2>2, GotoWork DEF Busy
<1>4. CASE InitRow(d) /\ InitChecks(d)
  <2>1. Goto("initName") /\ work.row = d /\ work.action = "init"
    BY <1>4 DEF InitRow, At, LabelsOK
  <2> QED BY <2>1, GotoWork DEF Busy, At
<1> QED BY <1>1, <1>2, <1>3, <1>4 DEF Added

\* The torrent is added when its file is read.
LEMMA AddedTorrent ==
    ASSUME SessionOK, NEW place \in Places, NEW name \in Contents, AddTorrent(place, name)
    PROVE  name \in gTorrents'
BY PlaceAssumption DEF AddTorrent, gTorrents, session, SessionOK

LEMMA PlaceOf ==
    ASSUME NEW d \in Downloads
    PROVE  d \in Places
BY DownloadAssumption

\* Init has come to the end of the row.
LEMMA RestoredRow ==
    ASSUME RowsInv, NEW d \in Downloads, InitName(d)
    PROVE  RowOK(d)'
<1> USE DEF RowsInv, RowsOK, RInv, TableInv, TypeOK, IInv, TableOK
<1>1. CASE NameOf(d) = NoName
  BY <1>1, GoneRow DEF InitName, DiskOK
<1>2. CASE NameOf(d) # NoName
  <2>1. /\ RestoreState(d) /\ table' = table /\ torrentFile' = torrentFile /\ savePath' = savePath
        /\ work.row = d /\ work.state = table[d] /\ ~At("pauseRow", d)
    BY <1>2, SamePlace DEF InitName, At, CopiesOK
  <2>2. torrentFile[d] = "whole" /\ NameOf(d) = ContentOf[d]
    BY <1>2 DEF NameOf
  <2>3. RowStep(d)
    BY DEF RowStep
  <2>4. Reconciled' <=> Reconciled
    BY <2>3, RowStepUser DEF Reconciled
  <2>5. doubted' = doubted /\ asked' = asked
    BY DEF InitName, user
  <2>6. Reconciled => ContentOf[d] \in gTorrents
    BY <2>2, <1>2 DEF TorrentFirst, InitName, At
  <2>7. gTorrents' = gTorrents
    BY <2>1 DEF gTorrents
  <2>8. HasTorrent(d)'
    BY <2>1, <2>2, <2>4, <2>6, <2>7 DEF HasTorrent, Settled
  <2>9. CASE table[d] = PAUSED
    <3>1. paused' = paused \cup ({ContentOf[d]} \cap gTorrents)
      BY <2>1, <2>2, <2>9 DEF RestoreState, PauseTorrent
    <3> QED BY <2>1, <2>4, <2>6, <2>8, <2>9, <3>1 DEF RowOK, PausedRow, PausedTorrent, Settled
  <2>10. CASE table[d] # PAUSED
    <3>1. paused' = paused
      BY <2>1, <2>10 DEF RestoreState, session
    <3>2. Alone(d)' => Alone(d)
      BY <2>5, AloneBefore
    <3> QED
      BY <2>1, <2>5, <2>8, <2>10, <3>1, <3>2 DEF RowOK, PausedRow, PausedTorrent, RowsOf
  <2> QED BY <2>9, <2>10
<1> QED BY <1>1, <1>2

\* Add has come to its end.
LEMMA AddedRow ==
    ASSUME RowsInv, NEW d \in Downloads, AddTorrentOf(d)
    PROVE  RowOK(d)'
<1> USE DEF RowsInv, RowsOK, RInv, TableInv, TypeOK, IInv, TableOK
<1>1. CASE NameOf(d) = NoName
  BY <1>1, GoneRow DEF AddTorrentOf, DiskOK
<1>2. CASE NameOf(d) # NoName
  <2>1. /\ AddTorrent(d, NameOf(d)) /\ table' = table /\ torrentFile' = torrentFile
        /\ table[d] = DOWNLOADING /\ ~At("pauseRow", d)
    BY <1>2 DEF AddTorrentOf, At, CopiesOK, Inserted
  <2>2. torrentFile[d] = "whole" /\ NameOf(d) = ContentOf[d] /\ NameOf(d) \in Contents
    BY <1>2, NameType DEF NameOf
  <2>3. ContentOf[d] \in gTorrents'
    BY <2>1, <2>2, AddedTorrent, PlaceOf
  <2>4. paused' \subseteq paused
    BY NotPaused DEF RowStep, AddTorrentOf, Pause, InitName, At
  <2>5. doubted' = doubted /\ asked' = asked
    BY DEF AddTorrentOf, user
  <2>6. Alone(d)' => Alone(d)
    BY <2>5, AloneBefore
  <2>7. table'[d] # PAUSED
    BY <2>1 DEF DOWNLOADING, PAUSED
  <2> QED
    BY <2>1, <2>2, <2>3, <2>4, <2>5, <2>6, <2>7
       DEF RowOK, HasTorrent, PausedRow, PausedTorrent, RowsOf
<1> QED BY <1>1, <1>2

\* Before the row is there nobody has added its torrent.
LEMMA InsertedRow ==
    ASSUME RowsInv, NEW d \in Downloads, AddInsert(d)
    PROVE  RowOK(d)'
<1> USE DEF RowsInv, RowsOK, RInv, TableInv, TypeOK, IInv, TableOK
<1>1. Busy(d)'
  BY BusyAfter
<1>2. paused' = paused /\ asked' = asked
  BY DEF AddInsert, session, user
<1>3. Alone(d) => ContentOf[d] \notin paused
  <2>1. SUFFICES ASSUME Alone(d), ContentOf[d] \in paused PROVE FALSE
    OBVIOUS
  <2>2. ContentOf[d] \in gTorrents /\ ContentOf[d] \in Contents
    BY <2>1, DownloadAssumption DEF SessionOK
  <2>3. savePath[ContentOf[d]] = d
    BY <2>1, <2>2, AloneSaved
  <2> QED BY <2>2, <2>3 DEF AddInsert, At, Vacant
<1>4. Alone(d)' => Alone(d)
  BY <1>2, AloneBefore
<1> QED BY <1>1, <1>2, <1>3, <1>4 DEF RowOK, HasTorrent, PausedRow, PausedTorrent, Settled

\* The torrent is paused or resumed; the row comes next.
LEMMA ToggledTorrent ==
    ASSUME RowsInv, NEW d \in Downloads, Toggling(d)
    PROVE  RowOK(d)'
<1> USE DEF RowsInv, RowsOK, RInv, TableInv, TypeOK, IInv, TableOK
<1>1. /\ table' = table /\ torrentFile' = torrentFile /\ savePath' = savePath
      /\ doubted' = doubted /\ asked' = asked /\ queue' = queue /\ open' = open
  BY DEF Toggling, Pause, Resume, disk, user, PauseTorrent, ResumeTorrent
<1>2. Busy(d) <=> Busy(d)'
  <2>1. work'.action = work.action /\ work'.rest = work.rest
    BY TogglingWork
  <2>2. work.action # "init" /\ work.at \in Toggled /\ work'.at \in Toggled
    BY TogglingWork DEF Toggling, Pause, Resume, At, CopiesOK, Toggled
  <2> QED BY <2>1, <2>2 DEF Busy, Toggled, Inserted, At
<1>3. Alone(d)' => Alone(d)
  BY <1>1, AloneBefore
<1>4. HasTorrent(d)'
  BY <1>1, <1>2, <1>3 DEF RowOK, HasTorrent, Settled, Reconciled, RowsOf, gTorrents
<1>5. CASE Pause(d)
  <2>1. At("pauseRow", d)' /\ ~At("resumeRow", d)
    BY <1>5, GotoWork DEF Pause, At
  <2>2. paused \subseteq paused'
    BY <1>5 DEF Pause, PauseTorrent
  <2> QED
    BY <1>1, <1>2, <1>3, <1>4, <2>1, <2>2
       DEF RowOK, PausedRow, PausedTorrent, Settled, Reconciled, RowsOf
<1>6. CASE Resume(d)
  <2>1. At("resumeRow", d)' /\ ~At("pauseRow", d)
    BY <1>6, GotoWork DEF Resume, At
  <2>2. paused' \subseteq paused
    BY <1>6 DEF Resume, ResumeTorrent
  <2> QED
    BY <1>1, <1>3, <1>4, <2>1, <2>2 DEF RowOK, PausedRow, PausedTorrent, RowsOf
<1> QED BY <1>5, <1>6 DEF Toggling

\* What the update of a row leaves in it, when its copy was not an old one.
LEMMA UpdatedRow ==
    ASSUME TypeOK, NEW d \in Downloads, NEW from \in States, NEW to \in States, from # to,
           RowChanges(d, from, to), States = {from, to}
    PROVE  /\ d \in RowsOf' <=> d \in RowsOf
           /\ d \in RowsOf \ doubted' => table'[d] = to
<1> USE DEF TypeOK
<1>1. NoRow \notin States
  BY DEF States, DOWNLOADING, PAUSED, NoRow
<1>2. table[d] \in States \cup {NoRow}
  BY DEF DiskOK
<1>3. CASE work.state = from /\ table[d] # NoRow
  <2>1. table'[d] = to
    BY <1>3 DEF RowChanges, UpdateRow, DiskOK
  <2> QED BY <1>1, <1>3, <2>1 DEF RowsOf
<1>4. CASE ~(work.state = from /\ table[d] # NoRow)
  <2>1. table' = table
    BY <1>4 DEF RowChanges, UpdateRow
  <2>2. ASSUME d \in RowsOf \ doubted' PROVE table'[d] = to
    <3>1. work.state = table[d]
      BY <2>2 DEF RowChanges
    <3> QED BY <1>2, <1>4, <2>1, <2>2, <3>1 DEF RowsOf
  <2> QED BY <2>1, <2>2 DEF RowsOf
<1> QED BY <1>3, <1>4

\* The row follows its torrent.
LEMMA ToggledRow ==
    ASSUME RowsInv, NEW d \in Downloads, PauseRow(d) \/ ResumeRow(d)
    PROVE  RowOK(d)'
<1> USE DEF RowsInv, RowsOK, RInv, TableInv, TypeOK, IInv, TableOK
<1>1. /\ torrentFile' = torrentFile /\ savePath' = savePath /\ paused' = paused
      /\ asked' = asked /\ queue' = queue /\ open' = open
  BY DEF PauseRow, ResumeRow, RowChanges, session
<1>2. work.row = d /\ work.at \in Toggled /\ ~Busy(d)
  BY DEF PauseRow, ResumeRow, At, Toggled, CopiesOK, Busy, Inserted
<1>3. Alone(d)' => Alone(d)
  BY <1>1, AloneBefore
<1>4. States = {DOWNLOADING, PAUSED} /\ DOWNLOADING # PAUSED
  BY DEF States, DOWNLOADING, PAUSED
<1>5. d \in RowsOf' <=> d \in RowsOf
  <2>1. CASE PauseRow(d)
    BY <2>1, <1>4, UpdatedRow DEF PauseRow
  <2>2. CASE ResumeRow(d)
    BY <2>2, <1>4, UpdatedRow DEF ResumeRow
  <2> QED BY <2>1, <2>2
<1>6. HasTorrent(d)'
  BY <1>1, <1>2, <1>3, <1>5 DEF RowOK, HasTorrent, Settled, Reconciled, gTorrents
<1>7. CASE PauseRow(d)
  <2>1. d \in RowsOf \ doubted' => table'[d] = PAUSED
    BY <1>4, <1>7, UpdatedRow DEF PauseRow
  <2>2. Reconciled /\ d \in RowsOf /\ Alone(d) => ContentOf[d] \in paused
    BY <1>2, <1>7 DEF PauseRow, At, TorrentFirst
  <2> QED
    BY <1>1, <1>3, <1>5, <1>6, <2>1, <2>2
       DEF RowOK, PausedRow, PausedTorrent, Settled, Reconciled
<1>8. CASE ResumeRow(d)
  <2>1. d \in RowsOf \ doubted' => table'[d] = DOWNLOADING
    BY <1>4, <1>8, UpdatedRow DEF ResumeRow
  <2>2. Alone(d) => ContentOf[d] \notin paused
    BY <1>2, <1>8 DEF ResumeRow, At, TorrentFirst
  <2> QED
    BY <1>1, <1>3, <1>4, <1>5, <1>6, <2>1, <2>2 DEF RowOK, PausedRow, PausedTorrent, Settled
<1> QED BY <1>7, <1>8

LEMMA OwnRow ==
    ASSUME RowsInv, NEW d \in Downloads, RowStep(d)
    PROVE  RowOK(d)'
<1> USE DEF RowsInv, RowsOK, RInv, TableInv, TypeOK, IInv, TableOK
<1>1. CASE NextRow(d)
  <2>1. /\ table' = table /\ torrentFile' = torrentFile /\ UNCHANGED <<savePath, paused>>
        /\ doubted' = doubted /\ asked' = asked /\ queue' = queue /\ open' = open
        /\ work.at = "next"
    BY <1>1 DEF NextRow, session, disk, user
  <2>2. Busy(d) => Busy(d)'
    <3>1. /\ work'.action = work.action /\ work'.row = d
          /\ work.action = "init" => work'.at = "initRow"
      BY <1>1, NextRowWork
    <3> QED BY <2>1, <3>1 DEF Busy, At, Inserted
  <2>3. Alone(d)' => Alone(d)
    BY <2>1, AloneBefore
  <2>4. ContentOf[d] \in Contents
    BY DownloadAssumption
  <2>5. (Settled(d)' => Settled(d)) /\ (d \in RowsOf' => d \in RowsOf)
    BY <2>1, <2>2 DEF Settled, Reconciled, RowsOf
  <2> QED BY <2>1, <2>3, <2>4, <2>5, SameRow DEF At
<1>2. CASE InitRow(d) /\ ~InitChecks(d)
  BY <1>2, GoneRow DEF InitRow, DiskOK
<1>3. CASE \/ CheckLast(d) \/ RemoveLast(d) \/ MoveLast(d) \/ ForgetLast(d)
           \/ Remove(d) \/ RemoveEach(d)
           \/ InitRow(d) /\ InitChecks(d)
  <2>1. /\ table' = table /\ doubted' = doubted /\ asked' = asked
        /\ ~At("pauseRow", d) /\ ~Pause(d) /\ ~InitName(d)
    BY <1>3 DEF CheckLast, RemoveLast, MoveLast, ForgetLast, Remove, RemoveEach, InitRow, disk,
                user, At, Pause, InitName
  <2> QED BY <1>3, <2>1, NotPaused, BusyAfter, BusyRow
<1>4. CASE DeleteDirectory(d)
  <2>1. table'[d] = NoRow
    BY <1>4 DEF DeleteDirectory, At, RowsFirst
  <2> QED BY <2>1, GoneRow
<1>5. CASE DeleteRow(d)
  BY <1>5, GoneRow DEF DeleteRow, DiskOK
<1> QED
  BY <1>1, <1>2, <1>3, <1>4, <1>5, RestoredRow, AddedRow, InsertedRow, ToggledTorrent, ToggledRow
     DEF RowStep, Toggling

-----------------------------------------------------------------------------
(* The copy of the row and the torrent the worker has changed.              *)

LEMMA CopiesRowStep ==
    ASSUME TableInv, CopiesOK, NEW d \in Downloads, RowStep(d)
    PROVE  CopiesOK'
<1> USE DEF TableInv, TypeOK, TableOK
<1>1. CASE NextRow(d)
  <2>1. work'.state = table[d] /\ table' = table
    BY <1>1 DEF NextRow, Works, disk
  <2>2. /\ work'.row = d /\ work'.action = work.action
        /\ work'.at \in {"initRow", "resume", "pause", "removeEach"}
        /\ work.action = "init" => work'.at = "initRow"
        /\ work.action = "removeAll" => work'.at = "removeEach"
    BY <1>1, NextRowWork
  <2> QED BY <2>1, <2>2 DEF CopiesOK, Toggled, Inserted
<1>2. CASE Added(d)
  <2>1. work.row = d /\ work'.row = d /\ work'.at \in Inserted
    BY <1>2, AddedWork DEF WithFile, Inserted
  <2>2. table'[d] = DOWNLOADING
    <3>1. CASE AddInsert(d)
      BY <3>1 DEF AddInsert, DiskOK
    <3>2. CASE ~AddInsert(d)
      <4>1. table' = table /\ work.at \in Inserted
        BY <1>2, <3>2 DEF Added, CheckLast, RemoveLast, MoveLast, ForgetLast, disk, At, Inserted
      <4> QED BY <2>1, <4>1 DEF CopiesOK
    <3> QED BY <3>1, <3>2
  <2> QED BY <2>1, <2>2 DEF CopiesOK, Toggled, Inserted
<1>3. CASE Deleting(d)
  <2>1. CASE work'.at = "initName"
    <3>1. InitRow(d)
      BY <1>3, <2>1, DeletingWork
    <3>2. table' = table /\ work' = [work EXCEPT !.at = "initName"] /\ work.at = "initRow"
      BY <2>1, <3>1, GotoWork DEF InitRow, At, Goto
    <3>3. work'.state = work.state /\ work'.row = work.row
      BY <3>2 DEF Works
    <3> QED BY <2>1, <3>2, <3>3 DEF CopiesOK, Toggled, Inserted
  <2>2. CASE work'.at # "initName"
    BY <1>3, <2>2, DeletingWork DEF CopiesOK, Toggled, Inserted
  <2> QED BY <2>1, <2>2
<1>4. CASE Returning(d)
  <2>1. work'.at \in {"next", "idle"}
    BY <1>4, ReturningWork DEF Idle
  <2> QED BY <2>1 DEF CopiesOK, Toggled, Inserted
<1>5. CASE Toggling(d)
  <2>1. work.at \in Toggled /\ work'.action = work.action /\ work'.at \in {"pauseRow", "resumeRow"}
    BY <1>5, TogglingWork DEF Toggling, Pause, Resume, At, Toggled
  <2> QED BY <2>1 DEF CopiesOK, Toggled, Inserted
<1> QED BY <1>1, <1>2, <1>3, <1>4, <1>5, RowStepKinds

LEMMA CopiesStep ==
    ASSUME TableInv, CopiesOK, Next
    PROVE  CopiesOK'
<1> USE DEF TableInv, TypeOK, TableOK
<1>1. CASE OnHandleIntent
  <2>1. work'.at \in {"next"} \cup RowActions /\ (work'.at # "next" => work'.action = work'.at)
    BY <1>1, IntentWork DEF Intents
  <2> QED BY <2>1 DEF CopiesOK, Toggled, Inserted, RowActions
<1>2. CASE NoMoreRows \/ DeleteRows \/ ClearDownloads \/ Crash
  <2>1. work'.at \in {"deleteRows", "clearDownloads", "idle"}
    BY <1>2, GotoWork, CrashWork DEF NoMoreRows, DeleteRows, ClearDownloads, Idle
  <2> QED BY <2>1 DEF CopiesOK, Toggled, Inserted
<1>3. ASSUME NEW d \in Downloads, Network(d) PROVE CopiesOK'
  BY <1>3, NetworkWork DEF CopiesOK, Toggled, Inserted, At, Idle
<1>4. CASE User \/ Launch \/ Exit
  BY <1>4, ScreenWork DEF CopiesOK, Toggled
<1> QED BY <1>1, <1>2, <1>3, <1>4, CopiesRowStep DEF Next, WorkerStep, Application

LEMMA TorrentFirstRowStep ==
    ASSUME RowsInv, NEW d \in Downloads, RowStep(d)
    PROVE  TorrentFirst'
<1> USE DEF RowsInv, RowsOK, RInv, TableInv, TypeOK, IInv, TableOK
<1>1. CASE Pause(d)
  <2>1. /\ work'.at = "pauseRow" /\ work'.row = d /\ work.row = d /\ work.at = "pause"
        /\ PauseTorrent(NameOf(d))
    BY <1>1, GotoWork DEF Pause, At
  <2>2. /\ table' = table /\ asked' = asked /\ queue' = queue /\ open' = open
    BY <1>1 DEF Pause, disk, user
  <2>3. ASSUME Reconciled', d \in RowsOf', Alone(d)' PROVE ContentOf[d] \in paused'
    <3>1. ~Busy(d)
      BY <2>1 DEF Busy, CopiesOK, Toggled, Inserted, At
    <3>2. Settled(d) /\ Alone(d)
      BY <2>2, <2>3, <3>1, AloneBefore DEF Settled, Reconciled, RowsOf
    <3>3. NameOf(d) = ContentOf[d] /\ ContentOf[d] \in gTorrents
      BY <3>2, AloneSaved DEF RowOK, HasTorrent
    <3> QED BY <2>1, <3>3 DEF PauseTorrent
  <2> QED BY <2>1, <2>3 DEF TorrentFirst
<1>2. CASE Resume(d)
  <2>1. work'.at = "resumeRow" /\ work'.row = d /\ ResumeTorrent(NameOf(d)) /\ asked' = asked
    BY <1>2, GotoWork DEF Resume, At, user
  <2>2. ASSUME Alone(d)', ContentOf[d] \in paused' PROVE FALSE
    <3>1. ContentOf[d] \in paused \ {NameOf(d)}
      BY <2>1, <2>2 DEF ResumeTorrent
    <3>2. ContentOf[d] \in gTorrents /\ Alone(d)
      BY <2>1, <2>2, <3>1, AloneBefore DEF SessionOK
    <3> QED BY <3>1, <3>2, AloneSaved
  <2> QED BY <2>1, <2>2 DEF TorrentFirst
<1>3. CASE InitRow(d) /\ work'.at = "initName"
  <2>1. InitChecks(d) /\ work'.row = d
    BY <1>3, GotoWork DEF InitRow, At
  <2>2. AddTorrent(d, NameOf(d)) /\ NameOf(d)' = NameOf(d)
    BY <1>3, <2>1 DEF InitRow, NameOf
  <2>3. NameOf(d) # NoName => NameOf(d) \in gTorrents'
    BY <2>2, AddedTorrent, PlaceOf, NameType
  <2> QED BY <1>3, <2>1, <2>2, <2>3 DEF TorrentFirst
<1>4. CASE ~Pause(d) /\ ~Resume(d) /\ ~(InitRow(d) /\ work'.at = "initName")
  <2>1. work'.at \notin {"initName", "pauseRow", "resumeRow"}
    <3>1. CASE NextRow(d) \/ Added(d) \/ Returning(d)
      BY <3>1, NextRowWork, AddedWork, ReturningWork DEF WithFile, Inserted, Idle
    <3>2. CASE Deleting(d)
      BY <1>4, <3>2, DeletingWork
    <3> QED BY <1>4, <3>1, <3>2, RowStepKinds DEF Toggling
  <2> QED BY <2>1 DEF TorrentFirst
<1> QED BY <1>1, <1>2, <1>3, <1>4

-----------------------------------------------------------------------------
(* The other steps.                                                         *)

LEMMA QueueLonger ==
    ASSUME TypeOK, NEW i \in Intents, queue' = Append(queue, i), open' = open, Reconciled'
    PROVE  Reconciled /\ i # ActionInit
<1>1. queue \in Seq(Intents)
  BY DEF TypeOK
<1>2. /\ \A k \in 1 .. Len(queue) : k \in 1 .. Len(queue') /\ queue'[k] = queue[k]
      /\ Len(queue) + 1 \in 1 .. Len(queue') /\ queue'[Len(queue) + 1] = i
  BY <1>1
<1> QED BY <1>2 DEF Reconciled

LEMMA QueueShorter ==
    ASSUME TypeOK, OnHandleIntent, Reconciled', queue[1] # ActionInit
    PROVE  Reconciled
<1>1. /\ queue \in Seq(Intents) /\ Len(queue) >= 1 /\ Len(queue) \in Nat
      /\ Len(queue') = Len(queue) - 1
      /\ \A k \in 1 .. Len(queue') : queue'[k] = queue[k + 1]
  BY IntentWork
<1>2. open' = open
  BY DEF OnHandleIntent, user
<1>3. ASSUME NEW k \in 1 .. Len(queue), k # 1 PROVE queue[k] # ActionInit
  <2>1. k - 1 \in 1 .. Len(queue') /\ queue'[k - 1] = queue[(k - 1) + 1] /\ (k - 1) + 1 = k
    BY <1>1, <1>3
  <2> QED BY <2>1 DEF Reconciled
<1> QED BY <1>2, <1>3 DEF Reconciled

\* Rows, torrents and files stay as they are.
LEMMA RowsStay ==
    ASSUME RowsInv, asked \subseteq asked', UNCHANGED <<table, torrentFile, session, doubted>>,
           \A d \in Downloads : Settled(d)' => Settled(d),
           work' = work \/ work.at \notin {"pauseRow", "resumeRow"}
    PROVE  RowsOK'
<1> SUFFICES ASSUME NEW d \in Downloads PROVE RowOK(d)'
  BY DEF RowsOK
<1>1. RowOK(d) /\ ContentOf[d] \in Contents
  BY DownloadAssumption DEF RowsInv, RowsOK
<1>2. Alone(d)' => Alone(d)
  BY AloneBefore
<1>3. d \in RowsOf' => d \in RowsOf
  BY DEF RowsOf
<1> QED BY <1>1, <1>2, <1>3, SameRow DEF At, session

\* The worker stands at a label that asks for nothing.
LEMMA FreeWork ==
    ASSUME work'.at \notin {"initName", "pauseRow", "resumeRow"}
    PROVE  TorrentFirst'
BY DEF TorrentFirst

LEMMA RowsIntent ==
    ASSUME RowsInv, OnHandleIntent
    PROVE  TorrentFirst' /\ RowsOK'
<1> USE DEF RowsInv, RInv, TableInv, TypeOK, IInv, TableOK
<1>1. work.at = "idle" /\ work.action = "none"
  BY DEF OnHandleIntent, Idle
<1>2. work'.at \in {"next"} \cup RowActions /\ (work'.at # "next" => work'.action = work'.at)
  BY IntentWork DEF Intents
<1>3. TorrentFirst'
  BY <1>2 DEF TorrentFirst, Toggled, Inserted, RowActions
<1>4. ASSUME NEW d \in Downloads, Settled(d)' PROVE Settled(d)
  <2>1. d \in RowsOf /\ ~Busy(d)
    BY <1>1, <1>4, IntentWork DEF Settled, RowsOf, Busy, At, Inserted
  <2>2. CASE queue[1] = ActionInit
    <3>1. work'.action = "init" /\ work'.rest = RowsOf
      BY <2>2, IntentWork DEF ActionInit, Intent, CursorOf
    <3> QED BY <1>4, <2>1, <3>1 DEF Settled, Busy
  <2>3. CASE queue[1] # ActionInit
    BY <1>4, <2>1, <2>3, QueueShorter DEF Settled
  <2> QED BY <2>2, <2>3
<1>5. asked' = asked /\ UNCHANGED <<table, torrentFile, session, doubted>>
  BY DEF OnHandleIntent, disk, user
<1> QED BY <1>1, <1>3, <1>4, <1>5, RowsStay

LEMMA RowsLoop ==
    ASSUME RowsInv, NoMoreRows \/ DeleteRows \/ ClearDownloads
    PROVE  TorrentFirst' /\ RowsOK'
<1> USE DEF RowsInv, RInv, TableInv, TypeOK, IInv, TableOK
<1>1. work'.at \in {"deleteRows", "clearDownloads", "idle"}
  BY GotoWork DEF NoMoreRows, DeleteRows, ClearDownloads, Idle
<1>2. TorrentFirst'
  BY <1>1, FreeWork
<1>3. CASE NoMoreRows
  <2>1. /\ asked' = asked /\ UNCHANGED <<table, torrentFile, session, doubted>>
        /\ queue' = queue /\ open' = open
        /\ work.at = "next" /\ work.rest = {}
    BY <1>3 DEF NoMoreRows, disk, user
  <2>2. ASSUME NEW d \in Downloads, Settled(d)' PROVE Settled(d)
    <3>1. d \in RowsOf /\ Reconciled
      BY <2>1, <2>2 DEF Settled, RowsOf, Reconciled
    <3>2. work.action # "removeAll"
      <4>1. CASE work.action = "removeAll"
        <5>1. work'.action = "removeAll"
          BY <1>3, <3>1, <4>1, GotoWork DEF NoMoreRows
        <5> QED BY <2>2, <5>1 DEF Settled, Busy
      <4> QED BY <4>1
    <3> QED BY <2>1, <3>1, <3>2 DEF Settled, Busy, At, Inserted
  <2> QED BY <1>2, <2>1, <2>2, RowsStay
<1>4. CASE DeleteRows
  BY <1>2, <1>4, GoneRow DEF DeleteRows, RowsOK
<1>5. CASE ClearDownloads
  <2>1. \A d \in Downloads : table'[d] = NoRow
    BY <1>5 DEF ClearDownloads, RowsFirst, RowsOf
  <2> QED BY <1>2, <2>1, GoneRow DEF RowsOK
<1> QED BY <1>3, <1>4, <1>5

LEMMA RowsNetwork ==
    ASSUME RowsInv, NEW d \in Downloads, Network(d)
    PROVE  TorrentFirst' /\ RowsOK'
<1> USE DEF RowsInv, RowsOK, RInv, TableInv, TypeOK, IInv, TableOK
<1>1. /\ UNCHANGED <<session, queue, open, asked, doubted>>
      /\ work.action \notin {"init", "removeAll"} /\ work.at = "fetch" /\ work.row = d
  BY NetworkWork DEF Network, CopyFails, LoadFails, Fetch, user, At, Loops
<1>2. \A e \in Downloads \ {d} : table'[e] = table[e] /\ torrentFile'[e] = torrentFile[e]
  BY DEF Network, CopyFails, LoadFails, Fetch, DiskOK
<1>3. \/ work' = Idle /\ table'[d] = NoRow
      \/ /\ table' = table /\ work'.action = work.action /\ work'.row = d
         /\ work'.at \in {"fetch", "checkLast"}
  <2>1. CASE CopyFails(d)
    BY <2>1, <1>1 DEF CopyFails, Return, DiskOK, Loops, At, LabelsOK, Inserted
  <2>2. CASE LoadFails(d)
    BY <2>2, <1>1 DEF LoadFails
  <2>3. ASSUME NEW file, Fetch(d, file)
        PROVE  /\ table' = table /\ work'.action = work.action /\ work'.row = d
               /\ work'.at \in {"fetch", "checkLast"}
    BY <2>3, <1>1, GotoWork DEF Fetch
  <2> QED BY <2>1, <2>2, <2>3 DEF Network
<1>4. TorrentFirst'
  <2>1. work' = Idle => TorrentFirst'
    BY FreeWork DEF Idle
  <2>2. ASSUME table' = table, work'.row = d, work'.at \in {"fetch", "checkLast"}
        PROVE  TorrentFirst'
    BY <1>1, <2>2 DEF TorrentFirst, Toggled, Inserted
  <2> QED BY <1>3, <2>1, <2>2
<1>5. RowOK(d)'
  <2>1. CASE table'[d] = NoRow
    BY <2>1, GoneRow
  <2>2. CASE table' = table /\ work'.row = d /\ work'.at \in {"fetch", "checkLast"}
    BY <1>1, <2>2, BusyRow DEF Busy, Inserted, At, session
  <2> QED BY <1>3, <2>1, <2>2
<1>6. ASSUME NEW e \in Downloads \ {d} PROVE RowOK(e)'
  <2>1. ~Busy(e) /\ ~At("pauseRow", e) /\ ~At("resumeRow", e)
    BY <1>1 DEF Busy, At
  <2>2. (Settled(e)' => Settled(e)) /\ (e \in RowsOf' => e \in RowsOf)
    BY <1>1, <1>2, <2>1 DEF Settled, RowsOf, Reconciled
  <2>3. ContentOf[e] \in Contents /\ (Alone(e)' => Alone(e))
    BY <1>1, AloneBefore, DownloadAssumption
  <2> QED BY <1>1, <1>2, <2>1, <2>2, <2>3, SameRow DEF session
<1> QED BY <1>4, <1>5, <1>6

\* A request that joins the queue.
LEMMA RowsRequest ==
    ASSUME RowsInv, NEW i \in Intents, queue' = Append(queue, i), open' = open, work' = work,
           asked \subseteq asked', UNCHANGED <<table, torrentFile, session, doubted>>
    PROVE  TorrentFirst' /\ RowsOK'
<1> USE DEF RowsInv, RInv
<1>1. Reconciled' => Reconciled
  BY QueueLonger
<1>2. \A d \in Downloads : Settled(d)' => Settled(d)
  BY <1>1 DEF Settled, RowsOf, Busy, At
<1>3. RowsOK'
  BY <1>2, RowsStay
<1>5. Alone(work.row)' => Alone(work.row)
  BY AloneBefore
<1>6. NameOf(work.row)' = NameOf(work.row) /\ RowsOf' = RowsOf /\ gTorrents' = gTorrents
  BY DEF NameOf, RowsOf, gTorrents, session
<1>7. TorrentFirst'
  BY <1>1, <1>5, <1>6 DEF TorrentFirst, session
<1> QED BY <1>3, <1>7

\* The application closes, or asks to be reconciled.
LEMMA RowsUnreconciled ==
    ASSUME RowsInv, ~Reconciled', asked' = asked, doubted' = doubted, UNCHANGED disk,
           work' = work, paused' \subseteq paused
    PROVE  TorrentFirst' /\ RowsOK'
<1> USE DEF RowsInv
<1>1. \A d : Alone(d)' => Alone(d)
  BY AloneBefore
<1>3. TorrentFirst'
  BY <1>1 DEF TorrentFirst
<1>4. ASSUME NEW d \in Downloads PROVE RowOK(d)'
  <2>1. d \in RowsOf' => d \in RowsOf
    BY DEF RowsOf, disk
  <2>2. At("pauseRow", d)' <=> At("pauseRow", d)
    BY DEF At
  <2> QED
    BY <1>1, <2>1, <2>2
       DEF RowsOK, RowOK, HasTorrent, PausedRow, PausedTorrent, Settled, disk
<1> QED BY <1>3, <1>4 DEF RowsOK

LEMMA RowsScreens ==
    ASSUME RowsInv, User \/ Application
    PROVE  TorrentFirst' /\ RowsOK'
<1> USE DEF RowsInv, RInv, TypeOK
<1>1. CASE RequestRow
  <2>1. PICK d \in RowsOf, action \in {"remove", "resume", "pause"} :
            Request(Intent(action, d, table[d]))
    BY <1>1 DEF RequestRow
  <2>2. Intent(action, d, table[d]) \in Intents
    BY RowType, IntentType DEF RowActions
  <2> QED BY <2>1, <2>2, RowsRequest DEF Request, disk
<1>2. CASE RequestAll
  <2>1. PICK action \in {"resumeAll", "pauseAll", "removeAll"} : Request(Intent(action, 0, NoRow))
    BY <1>2 DEF RequestAll
  <2>2. Intent(action, 0, NoRow) \in Intents
    BY IntentType DEF Loops
  <2> QED BY <2>1, <2>2, RowsRequest DEF Request, disk
<1>3. ASSUME NEW d \in Downloads, HandleDownload(d)
      PROVE  TorrentFirst' /\ RowsOK'
  <2>1. Intent("add", d, DOWNLOADING) \in Intents
    BY IntentType DEF RowActions, States
  <2> QED BY <1>3, <2>1, RowsRequest DEF HandleDownload
<1>4. CASE Launch
  <2>1. queue' = Append(queue, ActionInit) /\ queue \in Seq(Intents)
    BY <1>4 DEF Launch
  <2>2. Len(queue) + 1 \in 1 .. Len(queue') /\ queue'[Len(queue) + 1] = ActionInit
    BY <2>1
  <2>3. ~Reconciled'
    BY <2>2 DEF Reconciled
  <2> QED BY <1>4, <2>3, RowsUnreconciled DEF Launch, session
<1>5. CASE Exit
  <2>1. ~Reconciled'
    BY <1>5 DEF Exit, Reconciled
  <2>2. paused' \subseteq paused
    BY <1>5 DEF Exit, ClearOnExit, RemoveTorrent, session
  <2> QED BY <1>5, <2>1, <2>2, RowsUnreconciled DEF Exit
<1>6. CASE Crash
  <2>1. work' = Idle /\ paused' = {} /\ ~Reconciled'
    BY <1>6 DEF Crash, ProcessDies, Reconciled
  <2>2. TorrentFirst'
    BY <2>1, FreeWork DEF Idle
  <2> QED
    BY <2>1, <2>2 DEF RowsOK, RowOK, HasTorrent, PausedRow, PausedTorrent, Settled
<1> QED BY <1>1, <1>2, <1>3, <1>4, <1>5, <1>6 DEF User, Application

-----------------------------------------------------------------------------
(* The induction.                                                           *)

LEMMA InitRows == Init => RowsInv
<1> SUFFICES ASSUME Init PROVE RowsInv
  OBVIOUS
<1>1. RInv
  BY InitType, InitInv, InitFiles DEF RInv
<1>2. RowsOf = {} /\ paused = {} /\ work = Idle
  BY DEF Init, RowsOf, SessionInit
<1>3. CopiesOK /\ TorrentFirst
  BY <1>2 DEF CopiesOK, TorrentFirst, Idle, Toggled, Inserted
<1>4. RowsOK
  BY <1>2 DEF RowsOK, RowOK, HasTorrent, PausedRow, PausedTorrent, Settled
<1> QED BY <1>1, <1>3, <1>4 DEF RowsInv

LEMMA RowsStep ==
    ASSUME RowsInv, [Next]_vars
    PROVE  RowsInv'
<1>1. RInv'
  BY RInvStep DEF RowsInv
<1>2. ASSUME NEW d \in Downloads, RowStep(d) PROVE TorrentFirst' /\ RowsOK'
  <2>1. ASSUME NEW e \in Downloads PROVE RowOK(e)'
    BY <1>2, OwnRow, OtherRows
  <2> QED BY <1>2, <2>1, TorrentFirstRowStep DEF RowsOK
<1>3. CASE Next
  <2>1. TorrentFirst' /\ RowsOK'
    BY <1>2, <1>3, RowsIntent, RowsLoop, RowsNetwork, RowsScreens DEF Next, WorkerStep
  <2>2. CopiesOK'
    BY <1>3, CopiesStep DEF RowsInv, RInv, TableInv, IInv
  <2> QED BY <1>1, <2>1, <2>2 DEF RowsInv
<1>4. CASE UNCHANGED vars
  <2>1. UNCHANGED <<savePath, paused, table, torrentFile, queue, work, open, asked, doubted>>
    BY <1>4 DEF vars, session, disk, user
  <2>2. RowsOf' = RowsOf /\ gTorrents' = gTorrents /\ Reconciled' = Reconciled
    BY <2>1 DEF RowsOf, gTorrents, Reconciled
  <2>3. \A d : Alone(d)' = Alone(d) /\ NameOf(d)' = NameOf(d) /\ Settled(d)' = Settled(d)
    BY <2>1, <2>2 DEF Alone, NameOf, Settled, Busy, At
  <2>4. CopiesOK' /\ TorrentFirst'
    BY <2>1, <2>2, <2>3 DEF RowsInv, CopiesOK, TorrentFirst
  <2>5. RowsOK'
    BY <2>1, <2>2, <2>3 DEF RowsInv, RowsOK, RowOK, HasTorrent, PausedRow, PausedTorrent, At
  <2> QED BY <1>1, <2>4, <2>5 DEF RowsInv
<1> QED BY <1>3, <1>4

(* The invariant holds at every step of the worker: what is said of a row   *)
(* is true of all those it is not busy with.                                *)
THEOREM RowsAreKept == Spec => []RowsInv
<1>1. Init => RowsInv
  BY InitRows
<1>2. RowsInv /\ [Next]_vars => RowsInv'
  BY RowsStep
<1> QED BY <1>1, <1>2, PTL DEF Spec

\* An idle worker is busy with no row.
LEMMA SteadyRows ==
    ASSUME Steady, NEW d \in RowsOf
    PROVE  Settled(d) /\ ~At("pauseRow", d) /\ ~At("resumeRow", d)
BY DEF Steady, Settled, Reconciled, Busy, At, Idle, Inserted

(* Whatever an exit, a death of the process or a server has interrupted,    *)
(* once the application is open and its reconciliation is over a row has    *)
(* its directory, its torrent file and its torrent between two intents.     *)
THEOREM RowsAreComplete == Spec => []RowsHaveTorrents
<1>1. RowsInv => RowsHaveTorrents
  <2> SUFFICES ASSUME RowsInv, Steady, NEW d \in RowsOf
               PROVE  /\ d \in directories /\ torrentFile[d] = "whole"
                      /\ Alone(d) => ContentOf[d] \in gTorrents
    BY DEF RowsHaveTorrents
  <2>1. d \in Downloads
    BY DEF RowsOf
  <2>2. torrentFile[d] = "whole" /\ (Alone(d) => ContentOf[d] \in gTorrents)
    BY <2>1, SteadyRows DEF RowsInv, RowsOK, RowOK, HasTorrent
  <2> QED BY <2>1, <2>2 DEF RowsInv, RInv, FilesOK
<1> QED BY <1>1, RowsAreKept, PTL

(* And a row is paused exactly when its torrent is, unless its last pause   *)
(* or resume came with an old copy of it.                                   *)
THEOREM RowsAgree == Spec => []StatesAgree
<1>1. RowsInv => StatesAgree
  <2> SUFFICES ASSUME RowsInv, Steady, NEW d \in RowsOf \ doubted, Alone(d)
               PROVE  table[d] = PAUSED <=> ContentOf[d] \in paused
    BY DEF StatesAgree
  <2>1. d \in Downloads
    BY DEF RowsOf
  <2> QED
    BY <2>1, SteadyRows DEF RowsInv, RowsOK, RowOK, PausedRow, PausedTorrent
<1> QED BY <1>1, RowsAreKept, PTL

-----------------------------------------------------------------------------
(* Directories.                                                             *)

\* The directory has a row, or the worker is about to insert it or to delete it.
Owned(d) ==
    d \in RowsOf \cup Pending \cup LocalDownloads \/ At("add", d) \/ At("deleteDirectory", d)

(* Before the first death of the process a directory is owned, but between  *)
(* the two deletions of removeAll.                                          *)
DirectoriesOwned ==
    kills = 0 /\ work.at # "clearDownloads" => \A d \in directories : Owned(d)

\* Directories, rows and requests stay, and the worker stays away from them.
LEMMA OwnedKept ==
    ASSUME DirectoriesOwned, kills' = kills, directories' \subseteq directories,
           RowsOf \subseteq RowsOf', Pending \subseteq Pending',
           \/ work' = work
           \/ work.at \notin {"add", "deleteDirectory", "clearDownloads"}
    PROVE  DirectoriesOwned'
BY DEF DirectoriesOwned, Owned, At

LEMMA PendingKept ==
    ASSUME TypeOK, NEW i \in Intents, queue' = Append(queue, i)
    PROVE  /\ Pending \subseteq Pending'
           /\ \A d \in Downloads : i = Intent("add", d, DOWNLOADING) => d \in Pending'
<1>1. queue \in Seq(Intents)
  BY DEF TypeOK
<1>2. /\ \A k \in 1 .. Len(queue) : k \in 1 .. Len(queue') /\ queue'[k] = queue[k]
      /\ Len(queue) + 1 \in 1 .. Len(queue') /\ queue'[Len(queue) + 1] = i
  BY <1>1
<1> QED BY <1>2 DEF Pending

LEMMA OwnedRowStep ==
    ASSUME RInv, DirectoriesOwned, NEW d \in Downloads, RowStep(d)
    PROVE  DirectoriesOwned'
<1> USE DEF RInv, TypeOK, IInv, TableOK
<1>1. queue' = queue /\ kills' = kills /\ \A e \in Downloads \ {d} : table'[e] = table[e]
  BY RowStepTable, RowStepUser
<1>2. Pending' = Pending
  BY <1>1 DEF Pending
<1>3. work.at \in RowLabels \cup {"next"} /\ (work.at = "next" \/ work.row = d)
  BY DEF RowStep, NextRow, InitRow, InitName, DeleteDirectory, AddInsert, CheckLast, RemoveLast,
         MoveLast, ForgetLast, AddTorrentOf, Remove, DeleteRow, RemoveEach, Pause, Resume,
         PauseRow, ResumeRow, At, RowLabels
<1>4. work.at # "clearDownloads"
  BY <1>3 DEF RowLabels
<1>5. directories' \subseteq directories
  BY RowStepFiles DEF DeleteDirectory
<1>6. ASSUME NEW e \in Downloads \ {d}, Owned(e) PROVE Owned(e)'
  BY <1>1, <1>2, <1>3, <1>6 DEF Owned, RowsOf, At
<1>7. d \in RowsOf => d \in RowsOf' \/ At("deleteDirectory", d)'
  <2>1. CASE InitRow(d) \/ InitName(d) \/ DeleteRow(d) \/ AddTorrentOf(d)
    <3>1. work.row = d /\ (table' = table \/ Goto("deleteDirectory"))
      BY <2>1 DEF InitRow, InitName, DeleteRow, AddTorrentOf, AfterAdd, At
    <3> QED BY <3>1, GotoWork DEF RowsOf, At
  <2>2. CASE PauseRow(d) \/ ResumeRow(d)
    BY <2>2 DEF PauseRow, ResumeRow, RowChanges, UpdateRow, RowsOf, DiskOK, DOWNLOADING, PAUSED,
                NoRow
  <2>3. CASE AddInsert(d)
    BY <2>3 DEF AddInsert, RowsOf, DiskOK, DOWNLOADING, NoRow
  <2>4. CASE ~InitRow(d) /\ ~InitName(d) /\ ~DeleteRow(d) /\ ~AddTorrentOf(d) /\ ~PauseRow(d)
             /\ ~ResumeRow(d) /\ ~AddInsert(d)
    BY <2>4 DEF RowStep, NextRow, DeleteDirectory, CheckLast, RemoveLast, MoveLast, ForgetLast,
                Remove, RemoveEach, Pause, Resume, disk, RowsOf
  <2> QED BY <2>1, <2>2, <2>3, <2>4
<1>8. ASSUME Owned(d), d \in directories' PROVE Owned(d)'
  <2>1. CASE At("add", d)
    <3>1. AddInsert(d)
      BY <2>1 DEF RowStep, NextRow, InitRow, InitName, DeleteDirectory, CheckLast, RemoveLast,
                  MoveLast, ForgetLast, AddTorrentOf, Remove, DeleteRow, RemoveEach, Pause,
                  Resume, PauseRow, ResumeRow, At
    <3> QED BY <3>1 DEF AddInsert, Owned, RowsOf, DiskOK, DOWNLOADING, NoRow
  <2>2. CASE At("deleteDirectory", d)
    <3>1. DeleteDirectory(d)
      BY <2>2 DEF RowStep, NextRow, InitRow, InitName, AddInsert, CheckLast, RemoveLast,
                  MoveLast, ForgetLast, AddTorrentOf, Remove, DeleteRow, RemoveEach, Pause,
                  Resume, PauseRow, ResumeRow, At
    <3> QED BY <1>8, <3>1 DEF DeleteDirectory
  <2>3. CASE d \in RowsOf \cup Pending \cup LocalDownloads
    BY <2>3, <1>2, <1>7 DEF Owned
  <2> QED BY <1>8, <2>1, <2>2, <2>3 DEF Owned
<1>9. directories \subseteq Downloads
  BY DEF DiskOK
<1> QED BY <1>1, <1>4, <1>5, <1>6, <1>8, <1>9 DEF DirectoriesOwned

LEMMA OwnedIntent ==
    ASSUME TypeOK, DirectoriesOwned, OnHandleIntent
    PROVE  DirectoriesOwned'
<1>1. /\ queue \in Seq(Intents) /\ Len(queue) >= 1 /\ Len(queue) \in Nat
      /\ Len(queue') = Len(queue) - 1
      /\ \A k \in 1 .. Len(queue') : queue'[k] = queue[k + 1]
  BY IntentWork
<1>2. /\ UNCHANGED <<table, directories, kills>> /\ work.at = "idle"
  BY DEF OnHandleIntent, Idle, disk, user, counts
<1>3. ASSUME NEW d \in Pending PROVE d \in Pending' \/ At("add", d)'
  <2>1. d \in Downloads /\ \E k \in 1 .. Len(queue) : queue[k] = Intent("add", d, DOWNLOADING)
    BY DEF Pending
  <2>2. PICK k \in 1 .. Len(queue) : queue[k] = Intent("add", d, DOWNLOADING)
    BY <2>1
  <2>3. CASE k = 1
    <3>1. work'.at = "add" /\ work'.row = d
      BY <2>2, <2>3, IntentWork DEF Intent, Loops
    <3> QED BY <3>1 DEF At
  <2>4. CASE k # 1
    <3>1. k - 1 \in 1 .. Len(queue') /\ queue'[k - 1] = queue[(k - 1) + 1] /\ (k - 1) + 1 = k
      BY <1>1, <2>4
    <3> QED BY <2>1, <2>2, <3>1 DEF Pending
  <2> QED BY <2>3, <2>4
<1> QED BY <1>2, <1>3 DEF DirectoriesOwned, Owned, RowsOf, At

LEMMA OwnedNetwork ==
    ASSUME RInv, DirectoriesOwned, NEW d \in Downloads, Network(d)
    PROVE  DirectoriesOwned'
<1> USE DEF RInv, TypeOK, IInv, TableOK
<1>1. /\ work.at = "fetch" /\ queue' = queue /\ kills' = kills /\ d \in RowsOf
      /\ directories' \subseteq directories \cup {d}
      /\ \A e \in Downloads \ {d} : table'[e] = table[e]
  <2>1. At("fetch", d) /\ queue' = queue
    BY NetworkWork
  <2>2. d \in RowsOf
    BY <2>1 DEF At, RowAdded, Inserted, RowsOf
  <2> QED
    BY <2>1, <2>2 DEF Network, CopyFails, LoadFails, Fetch, user, counts, At, DiskOK
<1>2. d \in RowsOf' \/ d \in LocalDownloads
  BY <1>1 DEF Network, CopyFails, LoadFails, Fetch, RowsOf
<1>3. Pending' = Pending /\ \A e \in RowsOf \ {d} : e \in RowsOf'
  BY <1>1 DEF Pending, RowsOf
<1> QED BY <1>1, <1>2, <1>3 DEF DirectoriesOwned, Owned, At

LEMMA OwnedStep ==
    ASSUME RInv, DirectoriesOwned, [Next]_vars
    PROVE  DirectoriesOwned'
<1> USE DEF RInv, TypeOK
<1>1. CASE NoMoreRows
  <2>1. UNCHANGED <<table, directories, queue, kills>> /\ work.at = "next"
    BY <1>1 DEF NoMoreRows, disk, user, counts
  <2> QED BY <2>1, OwnedKept DEF RowsOf, Pending
<1>2. CASE DeleteRows
  BY <1>2, GotoWork DEF DeleteRows, DirectoriesOwned
<1>3. CASE ClearDownloads
  BY <1>3 DEF ClearDownloads, DirectoriesOwned
<1>4. ASSUME NEW i \in Intents, Request(i) PROVE DirectoriesOwned'
  <2>1. UNCHANGED <<table, directories, work, kills>> /\ queue' = Append(queue, i)
    BY <1>4 DEF Request, disk
  <2> QED BY <2>1, PendingKept, OwnedKept DEF RowsOf
<1>5. CASE RequestRow
  <2>1. PICK d \in RowsOf, action \in {"remove", "resume", "pause"} :
            Request(Intent(action, d, table[d]))
    BY <1>5 DEF RequestRow
  <2> QED BY <2>1, <1>4, RowType, IntentType DEF RowActions
<1>6. CASE RequestAll
  BY <1>6, <1>4, IntentType DEF RequestAll, Loops
<1>7. ASSUME NEW d \in Downloads, HandleDownload(d) PROVE DirectoriesOwned'
  <2>1. /\ UNCHANGED <<table, work, kills>> /\ directories' = directories \cup {d}
        /\ queue' = Append(queue, Intent("add", d, DOWNLOADING))
    BY <1>7 DEF HandleDownload, counts
  <2>2. Intent("add", d, DOWNLOADING) \in Intents
    BY IntentType DEF RowActions, States
  <2>3. Pending \subseteq Pending' /\ d \in Pending'
    BY <2>1, <2>2, PendingKept
  <2> QED BY <2>1, <2>3 DEF DirectoriesOwned, Owned, RowsOf, At
<1>8. CASE Launch
  <2>1. UNCHANGED <<table, directories, work, kills>> /\ queue' = Append(queue, ActionInit)
    BY <1>8 DEF Launch, disk, counts
  <2> QED BY <2>1, InitIntentType, PendingKept, OwnedKept DEF RowsOf
<1>9. CASE Exit \/ UNCHANGED vars
  <2>1. UNCHANGED <<table, directories, work, kills, queue>>
    BY <1>9 DEF Exit, disk, user, counts, vars
  <2> QED BY <2>1, OwnedKept DEF RowsOf, Pending
<1>10. CASE Crash
  <2>1. kills \in Nat /\ kills' = kills + 1
    BY <1>10 DEF Crash, UserOK
  <2>2. kills' # 0
    BY <2>1
  <2> QED BY <2>2 DEF DirectoriesOwned
<1> QED
  BY <1>1, <1>2, <1>3, <1>5, <1>6, <1>7, <1>8, <1>9, <1>10, OwnedRowStep, OwnedIntent,
     OwnedNetwork
     DEF Next, WorkerStep, User, Application

(* Until the process dies for the first time, an idle service leaves no     *)
(* directory behind, but for local copies that failed: every other one has  *)
(* its row or is that of a download still queued.                           *)
THEOREM DirectoriesAreOwned == Spec => []DirectoriesHaveRows
<1>1. Init => RInv /\ DirectoriesOwned
  BY InitRows DEF RowsInv, Init, DirectoriesOwned
<1>2. RInv /\ DirectoriesOwned /\ [Next]_vars => (RInv /\ DirectoriesOwned)'
  BY RInvStep, OwnedStep
<1>3. DirectoriesOwned => DirectoriesHaveRows
  BY DEF DirectoriesOwned, DirectoriesHaveRows, Owned, At, Idle
<1> QED BY <1>1, <1>2, <1>3, PTL DEF Spec

-----------------------------------------------------------------------------
(* The table without its torrents.  What follows needs no session: it holds *)
(* too where a player adds torrents of its own and removes others.          *)

\* A settled row has a torrent file that can be read.
HasFile == \A d \in Downloads : Settled(d) => torrentFile[d] = "whole"

\* What a loop over the table has still to see.
LoopOK ==
    /\ work.action = "resumeAll" => work.rest \subseteq RowsOf
    /\ work.at = "deleteRows" => work.rest = {}

\* The torrent of d is going to be resumed.
Resumes(d) ==
    \/ At("resume", d)
    \/ \E i \in 1 .. Len(queue) : queue[i].action = "resume" /\ queue[i].row = d

\* It has its row, or its torrent file is gone or going.
ResumeOK ==
    \A d \in Downloads : Resumes(d) =>
        d \in RowsOf \/ torrentFile[d] # "whole" \/ At("deleteDirectory", d)
            \/ work.at = "clearDownloads"

TableRows == TableInv /\ CopiesOK /\ HasFile /\ LoopOK /\ ResumeOK

-----------------------------------------------------------------------------
(* Where a row that is settled comes from.                                  *)

LEMMA OwnSettled ==
    ASSUME TableInv, CopiesOK, NEW d \in Downloads, RowStep(d), Settled(d)'
    PROVE  Settled(d) \/ ((InitName(d) \/ AddTorrentOf(d)) /\ NameOf(d) # NoName)
<1> USE DEF TableInv, TypeOK, TableOK
<1>1. Reconciled /\ d \in RowsOf' /\ ~Busy(d)'
  BY RowStepUser DEF Settled, Reconciled
<1>2. CASE NextRow(d)
  <2>1. table' = table /\ work.at = "next"
    BY <1>2 DEF NextRow, disk
  <2>2. /\ work'.action = work.action /\ work'.row = d
        /\ work.action = "init" => work'.at = "initRow"
    BY <1>2, NextRowWork
  <2> QED BY <1>1, <2>1, <2>2 DEF Settled, Busy, At, Inserted, RowsOf
<1>3. CASE \/ AddInsert(d) \/ CheckLast(d) \/ RemoveLast(d) \/ MoveLast(d) \/ ForgetLast(d)
           \/ Remove(d) \/ RemoveEach(d)
           \/ InitRow(d) /\ InitChecks(d)
  BY <1>1, <1>3, BusyAfter
<1>4. CASE \/ InitRow(d) /\ ~InitChecks(d)
           \/ (InitName(d) \/ AddTorrentOf(d)) /\ NameOf(d) = NoName
           \/ DeleteDirectory(d) \/ DeleteRow(d)
  <2>1. table'[d] = NoRow
    BY <1>4 DEF InitRow, InitName, AddTorrentOf, DeleteDirectory, DeleteRow, At, RowsFirst, DiskOK
  <2> QED BY <1>1, <2>1 DEF RowsOf
<1>5. CASE Toggling(d) \/ PauseRow(d) \/ ResumeRow(d)
  <2>1. work.at \in Toggled
    BY <1>5 DEF Toggling, Pause, Resume, PauseRow, ResumeRow, At, Toggled
  <2>2. ~Busy(d)
    BY <2>1 DEF CopiesOK, Busy, At, Toggled, Inserted
  <2>3. d \in RowsOf
    BY <1>1, <1>5, RowStepTable DEF Toggling, Pause, Resume, PauseRow, ResumeRow, AddInsert, At
  <2> QED BY <1>1, <2>2, <2>3 DEF Settled
<1> QED BY <1>2, <1>3, <1>4, <1>5 DEF RowStep, Toggling

LEMMA OtherSettled ==
    ASSUME TableInv, NEW d \in Downloads, RowStep(d), NEW e \in Downloads \ {d}, Settled(e)'
    PROVE  Settled(e)
<1>1. table'[e] = table[e] /\ queue' = queue /\ open' = open
  BY RowStepTable, RowStepUser DEF TableInv
<1> QED BY <1>1, RowStepBusy DEF Settled, Reconciled, RowsOf

LEMMA IntentSettled ==
    ASSUME TypeOK, OnHandleIntent, NEW d \in Downloads, Settled(d)'
    PROVE  Settled(d)
<1>1. work.at = "idle" /\ work.action = "none"
  BY DEF OnHandleIntent, Idle
<1>2. d \in RowsOf /\ ~Busy(d)
  BY <1>1, IntentWork DEF Settled, RowsOf, Busy, At, Inserted
<1>3. CASE queue[1] = ActionInit
  <2>1. work'.action = "init" /\ work'.rest = RowsOf
    BY <1>3, IntentWork DEF ActionInit, Intent, CursorOf, TypeOK
  <2> QED BY <1>2, <2>1 DEF Settled, Busy
<1>4. CASE queue[1] # ActionInit
  BY <1>2, <1>4, QueueShorter DEF Settled
<1> QED BY <1>3, <1>4

LEMMA LoopSettled ==
    ASSUME TableInv, NoMoreRows \/ DeleteRows \/ ClearDownloads, NEW d \in Downloads, Settled(d)'
    PROVE  NoMoreRows /\ Settled(d)
<1> USE DEF TableInv, TypeOK, TableOK
<1>1. CASE NoMoreRows
  <2>1. /\ table' = table /\ queue' = queue /\ open' = open
        /\ work.at = "next" /\ work.rest = {}
    BY <1>1 DEF NoMoreRows, disk, user
  <2>2. d \in RowsOf /\ Reconciled
    BY <2>1 DEF Settled, RowsOf, Reconciled
  <2>3. ASSUME work.action = "removeAll" PROVE FALSE
    <3>1. work'.action = "removeAll"
      BY <1>1, <2>2, <2>3, GotoWork DEF NoMoreRows
    <3> QED BY <3>1 DEF Settled, Busy
  <2> QED BY <1>1, <2>1, <2>2, <2>3 DEF Settled, Busy, At, Inserted
<1>2. CASE DeleteRows
  BY <1>2 DEF DeleteRows, Settled, RowsOf
<1>3. CASE ClearDownloads
  BY <1>3 DEF ClearDownloads, Settled, RowsOf, RowsFirst
<1> QED BY <1>1, <1>2, <1>3

\* The row that is fetched is busy.
LEMMA NetworkSettled ==
    ASSUME TableInv, NEW e \in Downloads, Network(e), NEW d \in Downloads, Settled(d)'
    PROVE  d # e /\ Settled(d)
<1> USE DEF TableInv, TypeOK, TableOK
<1>1. /\ work.action \notin {"init", "removeAll"} /\ work.at = "fetch" /\ work.row = e
      /\ queue' = queue /\ RowsOf' \subseteq RowsOf
  BY NetworkWork DEF At, Loops
<1>2. open' = open
  BY DEF Network, CopyFails, LoadFails, Fetch, user
<1>3. d # e
  <2>1. CASE work' = Idle
    <3>1. CopyFails(e) => table'[e] = NoRow
      BY DEF CopyFails, DiskOK
    <3>2. ~CopyFails(e) => work' # Idle
      BY <1>1, GotoWork DEF Network, LoadFails, Fetch, Idle
    <3> QED BY <2>1, <3>1, <3>2 DEF Settled, RowsOf
  <2>2. CASE work' # Idle
    <3>1. work'.at \in {"fetch", "checkLast"} /\ work'.row = e
      BY <1>1, <2>2, NetworkWork DEF At
    <3> QED BY <3>1 DEF Settled, Busy, Inserted
  <2> QED BY <2>1, <2>2
<1> QED BY <1>1, <1>2, <1>3 DEF Settled, Reconciled, Busy, At

\* The screens make no row, and none that is settled.
LEMMA ScreenSettled ==
    ASSUME TypeOK, User \/ Launch \/ Exit, NEW d \in Downloads, Settled(d)'
    PROVE  User /\ Settled(d)
<1> USE DEF TypeOK
<1>1. work' = work /\ table' = table
  BY ScreenWork
<1>2. Reconciled' => User /\ Reconciled
  <2>1. CASE Exit
    BY <2>1 DEF Exit, Reconciled
  <2>2. CASE Launch
    <3>1. queue' = Append(queue, ActionInit) /\ queue \in Seq(Intents)
      BY <2>2 DEF Launch
    <3>2. Len(queue) + 1 \in 1 .. Len(queue') /\ queue'[Len(queue) + 1] = ActionInit
      BY <3>1
    <3> QED BY <3>2 DEF Reconciled
  <2>3. CASE User
    <3>1. open' = open
      BY <2>3 DEF User, RequestRow, RequestAll, Request, HandleDownload
    <3>2. \E i \in Intents : queue' = Append(queue, i)
      <4>1. CASE RequestRow
        <5>1. PICK e \in RowsOf, action \in {"remove", "resume", "pause"} :
                  Request(Intent(action, e, table[e]))
          BY <4>1 DEF RequestRow
        <5>2. Intent(action, e, table[e]) \in Intents
          BY RowType, IntentType DEF RowActions
        <5> QED BY <5>1, <5>2 DEF Request
      <4>2. CASE RequestAll
        <5>1. PICK action \in {"resumeAll", "pauseAll", "removeAll"} :
                  Request(Intent(action, 0, NoRow))
          BY <4>2 DEF RequestAll
        <5>2. Intent(action, 0, NoRow) \in Intents
          BY IntentType DEF Loops
        <5> QED BY <5>1, <5>2 DEF Request
      <4>3. ASSUME NEW e \in Downloads, HandleDownload(e)
            PROVE  \E i \in Intents : queue' = Append(queue, i)
        <5>1. Intent("add", e, DOWNLOADING) \in Intents
          BY IntentType DEF RowActions, States
        <5> QED BY <4>3, <5>1 DEF HandleDownload
      <4> QED BY <2>3, <4>1, <4>2, <4>3 DEF User
    <3> QED BY <2>3, <3>1, <3>2, QueueLonger
  <2> QED BY <2>1, <2>2, <2>3
<1> QED BY <1>1, <1>2 DEF Settled, RowsOf, Busy, At

LEMMA DeadSettled ==
    ASSUME ProcessDies, NEW d
    PROVE  ~Settled(d)'
BY DEF ProcessDies, Settled, Reconciled

-----------------------------------------------------------------------------
(* The torrent file of a row that is settled, and of one that is resumed.   *)

\* A torrent file that could be read is gone only with its row.
LEMMA FileGoes ==
    ASSUME TableInv, Next, NEW d \in Downloads, torrentFile[d] = "whole", torrentFile'[d] # "whole"
    PROVE  d \notin RowsOf'
<1> USE DEF TableInv, TypeOK, TableOK
<1>1. ASSUME NEW e \in Downloads, RowStep(e) PROVE d \notin RowsOf'
  <2>1. DeleteDirectory(e) /\ e = d
    BY <1>1, RowStepFiles
  <2> QED BY <2>1 DEF DeleteDirectory, At, RowsFirst, RowsOf, disk
<1>2. ASSUME NEW e \in Downloads, Network(e) PROVE FALSE
  <2>1. At("fetch", e) /\ torrentFile[e] # "whole"
    BY <1>2, NetworkWork DEF FilesOK
  <2>2. \A f \in Downloads \ {e} : torrentFile'[f] = torrentFile[f]
    BY <1>2 DEF Network, CopyFails, LoadFails, Fetch, DiskOK
  <2> QED BY <2>1, <2>2
<1>3. CASE ClearDownloads
  BY <1>3 DEF ClearDownloads, RowsFirst, RowsOf
<1>4. CASE ~ClearDownloads /\ ~(\E e \in Downloads : RowStep(e) \/ Network(e))
  <2>1. torrentFile' = torrentFile
    BY <1>4 DEF Next, WorkerStep, User, Application, OnHandleIntent, NoMoreRows, DeleteRows,
                RequestRow, RequestAll, Request, HandleDownload, Launch, Exit, Crash, ProcessDies,
                disk
  <2> QED BY <2>1
<1> QED BY <1>1, <1>2, <1>3, <1>4

LEMMA HasFileStep ==
    ASSUME TableRows, Next
    PROVE  HasFile'
<1> USE DEF TableRows
<1> SUFFICES ASSUME NEW d \in Downloads, Settled(d)', torrentFile'[d] # "whole" PROVE FALSE
  BY DEF HasFile
<1>1. torrentFile[d] # "whole"
  BY FileGoes DEF Settled
<1>2. ~Settled(d)
  BY <1>1 DEF HasFile
<1>3. ~Crash
  BY DeadSettled DEF Crash
<1>4. PICK e \in Downloads : RowStep(e)
  BY <1>2, <1>3, IntentSettled, LoopSettled, NetworkSettled, ScreenSettled
     DEF Next, WorkerStep, Application, TableInv
<1>5. e = d
  BY <1>2, <1>4, OtherSettled
<1>6. NameOf(d) # NoName
  BY <1>2, <1>4, <1>5, OwnSettled
<1> QED BY <1>1, <1>6 DEF NameOf

\* A row goes only with a step of the worker, or when its copy fails.
LEMMA RowGoes ==
    ASSUME TableInv, Next, NEW d \in RowsOf, d \notin RowsOf'
    PROVE  Deleting(d) \/ CopyFails(d) \/ DeleteRows
<1> USE DEF TableInv, TypeOK, TableOK
<1>1. d \in Downloads /\ table[d] # NoRow /\ table'[d] = NoRow
  BY DEF RowsOf
<1>2. ASSUME NEW e \in Downloads \ {d}, RowStep(e) PROVE FALSE
  BY <1>1, <1>2, RowStepTable
<1>3. ASSUME NEW e \in Downloads, Network(e) PROVE CopyFails(d)
  <2>1. CopyFails(e)
    BY <1>1, <1>3 DEF Network, LoadFails, Fetch
  <2>2. table' = [table EXCEPT ![e] = NoRow]
    BY <2>1 DEF CopyFails
  <2> QED BY <1>1, <2>1, <2>2 DEF DiskOK
<1>4. ASSUME RowStep(d) PROVE Deleting(d)
  <2>1. CASE PauseRow(d) \/ ResumeRow(d)
    BY <1>1, <2>1 DEF PauseRow, ResumeRow, RowChanges, UpdateRow, DiskOK, DOWNLOADING, PAUSED, NoRow
  <2>2. CASE NextRow(d) \/ Added(d) \/ DeleteDirectory(d) \/ RemoveEach(d) \/ Toggling(d)
    BY <1>1, <2>2
       DEF NextRow, Added, AddInsert, CheckLast, RemoveLast, MoveLast, ForgetLast,
           DeleteDirectory, RemoveEach, Toggling, Pause, Resume, disk, DiskOK, DOWNLOADING, NoRow
  <2> QED BY <1>4, <2>1, <2>2, RowStepKinds DEF Returning
<1>5. CASE ~DeleteRows /\ ~(\E e \in Downloads : RowStep(e) \/ Network(e))
  <2>1. table' = table
    BY <1>5 DEF Next, WorkerStep, User, Application, OnHandleIntent, NoMoreRows, ClearDownloads,
                RequestRow, RequestAll, Request, HandleDownload, Launch, Exit, Crash, ProcessDies,
                disk
  <2> QED BY <1>1, <2>1
<1> QED BY <1>1, <1>2, <1>3, <1>4, <1>5

\* Of the loops only init deletes rows one by one.
LEMMA DeletingLoop ==
    ASSUME work \in Works, LabelsOK, NEW d, Deleting(d)
    PROVE  /\ work.action # "resumeAll" /\ work'.action # "resumeAll"
           /\ work'.at \notin {"deleteRows", "resume"}
<1>1. work.action # "resumeAll"
  BY DEF Deleting, InitRow, InitName, Remove, DeleteRow, AddTorrentOf, At, LabelsOK, Inserted, Loops
<1>2. (\E label : Goto(label)) \/ Return
  BY DEF Deleting, InitRow, InitName, Remove, DeleteRow, AddTorrentOf, AfterAdd
<1> QED BY <1>1, <1>2, GotoWork, ReturnWork, DeletingWork DEF Idle

LEMMA LoopsStep ==
    ASSUME TableInv, LoopOK, Next
    PROVE  LoopOK'
<1> USE DEF TableInv, TypeOK, TableOK
<1>1. CASE OnHandleIntent
  <2>1. work'.at # "deleteRows"
    BY <1>1, IntentWork DEF Intents, Loops, RowActions
  <2>2. work'.rest = CursorOf(work'.action) /\ table' = table
    BY <1>1, IntentWork
  <2>3. CursorOf("resumeAll") \subseteq RowsOf
    BY DEF CursorOf, RowsIn, RowsOf, PAUSED, NoRow
  <2> QED BY <2>1, <2>2, <2>3 DEF LoopOK, RowsOf
<1>2. CASE NoMoreRows \/ DeleteRows \/ ClearDownloads \/ Crash
  <2>1. work' = Idle \/ (work'.at \in {"deleteRows", "clearDownloads"} /\ work'.rest = work.rest
                          /\ work'.action = "removeAll" /\ (NoMoreRows => work.rest = {})
                          /\ (~NoMoreRows => work'.at = "clearDownloads"))
    BY <1>2, GotoWork, CrashWork DEF NoMoreRows, DeleteRows, ClearDownloads, LabelsOK
  <2> QED BY <2>1 DEF LoopOK, Idle
<1>3. ASSUME NEW d \in Downloads, RowStep(d) PROVE LoopOK'
  <2>1. /\ work'.at # "deleteRows"
        /\ work'.action = "resumeAll" => work.action = "resumeAll" /\ work'.rest \subseteq work.rest
    BY <1>3, RowStepKinds, NextRowWork, AddedWork, ReturningWork, TogglingWork, DeletingLoop
       DEF WithFile, Inserted, Idle, Loops
  <2>2. work.action = "resumeAll" => RowsOf \subseteq RowsOf'
    <3> SUFFICES ASSUME work.action = "resumeAll", NEW e \in RowsOf, e \notin RowsOf' PROVE FALSE
      OBVIOUS
    <3>1. e = d
      BY <1>3, RowStepTable DEF RowsOf
    <3>2. ~DeleteRows /\ ~CopyFails(d)
      BY DEF DeleteRows, CopyFails, At, LabelsOK, Inserted, Loops
    <3> QED BY <1>3, <3>1, <3>2, RowGoes, DeletingLoop DEF Next, WorkerStep
  <2> QED BY <2>1, <2>2 DEF LoopOK
<1>4. ASSUME NEW d \in Downloads, Network(d) PROVE LoopOK'
  BY <1>4, NetworkWork DEF LoopOK, Loops, Idle, At
<1>5. CASE User \/ Launch \/ Exit
  BY <1>5, ScreenWork DEF LoopOK, RowsOf
<1> QED BY <1>1, <1>2, <1>3, <1>4, <1>5 DEF Next, WorkerStep, Application

\* A download whose resume was asked for, or has its turn in a loop, has its row.
LEMMA ResumesFrom ==
    ASSUME TableInv, LoopOK, Next, NEW d \in Downloads, Resumes(d)', ~Resumes(d)
    PROVE  d \in RowsOf /\ table' = table
<1> USE DEF TableInv, TypeOK, TableOK
<1>1. CASE At("resume", d)' /\ ~At("resume", d)
  <2>1. CASE OnHandleIntent
    <3>1. queue[1].action = "resume" /\ queue[1].row = d /\ 1 \in 1 .. Len(queue)
      BY <1>1, <2>1, IntentWork DEF At, Loops
    <3> QED BY <3>1 DEF Resumes
  <2>2. CASE NoMoreRows \/ DeleteRows \/ ClearDownloads \/ Crash
    BY <1>1, <2>2, GotoWork, CrashWork DEF NoMoreRows, DeleteRows, ClearDownloads, At, Idle
  <2>3. ASSUME NEW e \in Downloads, RowStep(e) PROVE NextRow(e) /\ e = d
    <3>1. NextRow(e)
      BY <1>1, <2>3, RowStepKinds, AddedWork, DeletingLoop, ReturningWork, TogglingWork
         DEF At, WithFile, Inserted, Idle
    <3> QED BY <1>1, <3>1, NextRowWork DEF At
  <2>4. ASSUME NextRow(d) PROVE d \in RowsOf /\ table' = table
    <3>1. work.action = "resumeAll"
      <4>1. work'.at = BodyOf[work.action] /\ work'.at = "resume"
        BY <1>1, <2>4, NextRowWork DEF At
      <4>2. work.action \in Loops
        BY <2>4 DEF NextRow, LabelsOK
      <4> QED BY <4>1, <4>2 DEF BodyOf, Loops
    <3> QED BY <2>4, <3>1 DEF NextRow, LoopOK, disk
  <2>5. ASSUME NEW e \in Downloads, Network(e) PROVE FALSE
    BY <1>1, <2>5, NetworkWork DEF At, Idle
  <2>6. CASE User \/ Launch \/ Exit
    BY <1>1, <2>6, ScreenWork DEF At
  <2> QED BY <2>1, <2>2, <2>3, <2>4, <2>5, <2>6 DEF Next, WorkerStep, Application
<1>2. ASSUME NEW k \in 1 .. Len(queue'), queue'[k].action = "resume", queue'[k].row = d,
             \A i \in 1 .. Len(queue) : ~(queue[i].action = "resume" /\ queue[i].row = d)
      PROVE  d \in RowsOf /\ table' = table
  <2>1. ~OnHandleIntent
    <3> SUFFICES ASSUME OnHandleIntent PROVE FALSE
      OBVIOUS
    <3>1. /\ Len(queue) \in Nat /\ Len(queue) >= 1 /\ Len(queue') = Len(queue) - 1
          /\ \A i \in 1 .. Len(queue') : queue'[i] = queue[i + 1]
      BY IntentWork
    <3>2. k + 1 \in 1 .. Len(queue) /\ queue'[k] = queue[k + 1]
      BY <3>1
    <3> QED BY <1>2, <3>2
  <2>2. queue' # queue
    BY <1>2
  <2>3. ~Crash
    BY <1>2, CrashWork
  <2>4. User \/ Launch
    BY <2>1, <2>2, <2>3, RowStepTable, NetworkWork
       DEF Next, WorkerStep, Application, NoMoreRows, DeleteRows, ClearDownloads, Exit
  <2>5. ASSUME NEW i, queue' = Append(queue, i) PROVE i.action = "resume" /\ i.row = d
    <3>1. queue \in Seq(Intents)
      OBVIOUS
    <3>2. k \in 1 .. Len(queue) => queue'[k] = queue[k]
      BY <2>5, <3>1
    <3>3. k \notin 1 .. Len(queue) => queue'[k] = i
      BY <2>5, <3>1
    <3> QED BY <1>2, <3>2, <3>3
  <2>6. RequestRow
    <3>1. ~Launch
      BY <2>5 DEF Launch, Intent, ActionInit
    <3>2. ~RequestAll
      BY <2>5 DEF RequestAll, Request, Intent
    <3>3. ASSUME NEW e \in Downloads PROVE ~HandleDownload(e)
      BY <2>5 DEF HandleDownload, Intent
    <3> QED BY <2>4, <3>1, <3>2, <3>3 DEF User
  <2>7. PICK e \in RowsOf, action \in {"remove", "resume", "pause"} :
            Request(Intent(action, e, table[e]))
    BY <2>6 DEF RequestRow
  <2>8. e = d
    BY <2>5, <2>7 DEF Request, Intent
  <2> QED BY <2>7, <2>8 DEF Request, disk
<1> QED BY <1>1, <1>2 DEF Resumes

\* The worker goes on to the directory of a row it has deleted.
LEMMA GoneTo ==
    ASSUME TableInv, NEW d \in RowsOf, Deleting(d), d \notin RowsOf'
    PROVE  work'.at = "deleteDirectory" /\ work'.row = d
<1> USE DEF TableInv, TypeOK, TableOK
<1>1. table' # table
  BY DEF RowsOf
<1>2. Goto("deleteDirectory")
  BY <1>1 DEF Deleting, InitRow, InitName, Remove, DeleteRow, AddTorrentOf, AfterAdd, disk
<1> QED BY <1>2, GotoWork, DeletingWork

\* A torrent file comes only with a fetch.
LEMMA FileComes ==
    ASSUME TableInv, Next, NEW d \in Downloads, torrentFile[d] # "whole", torrentFile'[d] = "whole"
    PROVE  \E file : Fetch(d, file)
<1> USE DEF TableInv, TypeOK, TableOK
<1>1. ASSUME NEW e \in Downloads, RowStep(e) PROVE FALSE
  <2>1. DeleteDirectory(e) /\ e = d
    BY <1>1, RowStepFiles
  <2> QED BY <2>1 DEF DeleteDirectory, DiskOK
<1>2. ASSUME NEW e \in Downloads, Network(e) PROVE \E file : Fetch(d, file)
  <2>1. e = d
    BY <1>2 DEF Network, CopyFails, LoadFails, Fetch, DiskOK
  <2>2. ~CopyFails(d) /\ ~LoadFails(d)
    BY DEF CopyFails, LoadFails, DiskOK
  <2> QED BY <1>2, <2>1, <2>2 DEF Network
<1>3. CASE ClearDownloads
  BY <1>3 DEF ClearDownloads
<1>4. CASE ~ClearDownloads /\ ~(\E e \in Downloads : RowStep(e) \/ Network(e))
  <2>1. torrentFile' = torrentFile
    BY <1>4 DEF Next, WorkerStep, User, Application, OnHandleIntent, NoMoreRows, DeleteRows,
                RequestRow, RequestAll, Request, HandleDownload, Launch, Exit, Crash, ProcessDies,
                disk
  <2> QED BY <2>1
<1> QED BY <1>1, <1>2, <1>3, <1>4

\* The files go, or the step is not one of the worker.
LEMMA DeletedNext ==
    ASSUME TableInv, Next, NEW d \in Downloads, ~Crash,
           At("deleteDirectory", d) \/ work.at = "clearDownloads"
    PROVE  \/ torrentFile'[d] # "whole"
           \/ At("deleteDirectory", d)' \/ work'.at = "clearDownloads"
<1> USE DEF TableInv, TypeOK, TableOK
<1>1. CASE DeleteDirectory(d) \/ ClearDownloads
  BY <1>1 DEF DeleteDirectory, ClearDownloads, DiskOK
<1>2. CASE ~DeleteDirectory(d) /\ ~ClearDownloads
  <2>1. ~OnHandleIntent /\ ~NoMoreRows /\ ~DeleteRows
    BY DEF OnHandleIntent, NoMoreRows, DeleteRows, Idle, At
  <2>2. ASSUME NEW e \in Downloads PROVE ~RowStep(e) /\ ~Network(e)
    BY <1>2 DEF RowStep, NextRow, InitRow, InitName, AddInsert, CheckLast, RemoveLast, MoveLast,
                ForgetLast, AddTorrentOf, Remove, DeleteRow, RemoveEach, Pause, Resume, PauseRow,
                ResumeRow, DeleteDirectory, Network, CopyFails, LoadFails, Fetch, At
  <2>3. User \/ Launch \/ Exit
    BY <1>2, <2>1, <2>2 DEF Next, WorkerStep, Application
  <2>4. work' = work
    BY <2>3, ScreenWork
  <2> QED BY <2>4 DEF At
<1> QED BY <1>1, <1>2

LEMMA ResumesStep ==
    ASSUME TableInv, LoopOK, ResumeOK, Next
    PROVE  ResumeOK'
<1> USE DEF TableInv, TypeOK, TableOK
<1> DEFINE Gone(d) == torrentFile[d] # "whole" \/ At("deleteDirectory", d) \/ work.at = "clearDownloads"
<1> SUFFICES ASSUME NEW d \in Downloads, Resumes(d)', d \notin RowsOf' PROVE Gone(d)'
  BY DEF ResumeOK
<1>1. CASE d \in RowsOf
  <2>1. CASE Deleting(d)
    <3>1. work'.at = "deleteDirectory" /\ work'.row = d
      BY <1>1, <2>1, GoneTo
    <3> QED BY <3>1 DEF At
  <2>2. CASE CopyFails(d)
    BY <2>2 DEF CopyFails, At, FilesOK
  <2>3. CASE DeleteRows
    BY <2>3, GotoWork DEF DeleteRows
  <2> QED BY <1>1, <2>1, <2>2, <2>3, RowGoes
<1>2. CASE d \notin RowsOf
  <2>1. Resumes(d)
    BY <1>2, ResumesFrom
  <2>2. Gone(d)
    BY <1>2, <2>1 DEF ResumeOK
  <2>3. CASE torrentFile[d] # "whole"
    <3> SUFFICES ASSUME torrentFile'[d] = "whole" PROVE FALSE
      OBVIOUS
    <3>1. PICK file : Fetch(d, file)
      BY <2>3, FileComes
    <3> QED BY <1>2, <3>1 DEF Fetch, At, RowAdded, Inserted, RowsOf
  <2>4. CASE At("deleteDirectory", d) \/ work.at = "clearDownloads"
    BY <2>4, DeletedNext, CrashWork DEF Resumes, At, Idle
  <2> QED BY <2>2, <2>3, <2>4
<1> QED BY <1>1, <1>2

LEMMA TableRowsStep ==
    ASSUME TableRows, Next, TypeOK', LabelsOK'
    PROVE  TableRows'
<1>1. AddsOK' /\ RowAdded'
  BY AddsStep, RowAddedStep DEF TableRows, TableInv, TableOK
<1>2. FilesOK' /\ RowsFirst' /\ CopiesOK'
  BY FilesStep, RowsFirstStep, CopiesStep DEF TableRows
<1>3. HasFile' /\ LoopOK' /\ ResumeOK'
  BY HasFileStep, LoopsStep, ResumesStep DEF TableRows
<1> QED BY <1>1, <1>2, <1>3 DEF TableRows, TableInv, TableOK

LEMMA TableRowsSame ==
    ASSUME TableRows, UNCHANGED <<disk, queue, work, user>>, TypeOK', LabelsOK'
    PROVE  TableRows'
<1>1. UNCHANGED <<table, directories, torrentFile, queue, work, open, asked, doubted>>
  BY DEF disk, user
<1>2. RowsOf' = RowsOf /\ Reconciled' = Reconciled
  BY <1>1 DEF RowsOf, Reconciled
<1>3. \A d : Settled(d)' = Settled(d) /\ Resumes(d)' = Resumes(d) /\ Waiting(d)' = Waiting(d)
             /\ \A label : At(label, d)' = At(label, d)
  BY <1>1, <1>2 DEF Settled, Busy, At, Resumes, Waiting
<1>4. AddsOK' /\ RowAdded' /\ RowsFirst' /\ CopiesOK' /\ LoopOK'
  BY <1>1, <1>2 DEF TableRows, TableInv, TableOK, AddsOK, Adds, RowAdded, RowsFirst, CopiesOK, LoopOK
<1>5. FilesOK' /\ HasFile' /\ ResumeOK'
  BY <1>1, <1>2, <1>3 DEF TableRows, TableInv, FilesOK, HasFile, ResumeOK
<1> QED BY <1>4, <1>5 DEF TableRows, TableInv, TableOK

LEMMA TableRowsDie ==
    ASSUME TableRows, ProcessDies, TypeOK', LabelsOK'
    PROVE  TableRows'
<1>1. UNCHANGED <<table, directories, torrentFile, asked>> /\ work' = Idle /\ queue' = <<>>
  BY DEF ProcessDies, disk
<1>2. RowsOf' = RowsOf
  BY <1>1 DEF RowsOf
<1>3. AddsOK' /\ RowAdded' /\ RowsFirst' /\ CopiesOK' /\ LoopOK'
  BY <1>1, <1>2
     DEF TableRows, TableInv, TableOK, AddsOK, Adds, RowAdded, RowsFirst, CopiesOK, LoopOK, Idle,
         Inserted, WithFile, Toggled
<1>4. FilesOK' /\ ResumeOK'
  BY <1>1 DEF TableRows, TableInv, FilesOK, ResumeOK, Resumes, Waiting, At, Idle
<1>5. HasFile'
  BY DeadSettled DEF HasFile
<1> QED BY <1>3, <1>4, <1>5 DEF TableRows, TableInv, TableOK
=============================================================================
