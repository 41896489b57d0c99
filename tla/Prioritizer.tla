----------------------------- MODULE Prioritizer -----------------------------
(***************************************************************************)
(* The streaming download order of one video: class Prioritizer, driven by *)
(* the two threads of PlayerBaseActivity that share one instance of it.    *)
(*                                                                         *)
(*   task  the AsyncTask thread, running PrepareVideoTask.doInBackground   *)
(*         (load or reload, then the "check, publish progress, sleep" loop)*)
(*   main  the looper thread: the delayed updater callback, the reload and *)
(*         destroy events of the activity                                  *)
(*                                                                         *)
(* Every JNI call is atomic; between two of them the other thread and the  *)
(* torrent engine may run.  SetPiecePriorities writes back the whole array *)
(* a thread read earlier, so an update made in between is lost.            *)
(***************************************************************************)
EXTENDS Integers, FiniteSets

CONSTANTS
    NumPieces,            \* pieces of the torrent: 0 .. NumPieces - 1
    InitialWanted,        \* the sets of pieces setFilePriority may leave wanted
    InitialHave,          \* the sets of pieces the engine may start with
    PREPARE_PIECE_COUNT,  \* 3 in the code
    ACTIVE_PIECE_COUNT,   \* 5 in the code
    MovieLength,          \* length of the video as the player reports it
    MaxReloads,           \* bound: reloadVideo events of one activity
    MayLoseHandle         \* may gTorrents lose the torrent while it plays

Pieces == 0 .. NumPieces - 1

DONT_DOWNLOAD == 0
NORMAL        == 1
MAXIMAL       == 7
Priorities    == {DONT_DOWNLOAD, NORMAL, MAXIMAL}

Task    == "task"
Main    == "main"
Threads == {Task, Main}
NoOne   == "no one"

ASSUME PieceAssumption ==
    /\ NumPieces \in Nat
    /\ InitialWanted \subseteq SUBSET Pieces
    /\ InitialHave \subseteq SUBSET Pieces

ASSUME CountAssumption ==
    /\ PREPARE_PIECE_COUNT \in Nat \ {0}
    /\ ACTIVE_PIECE_COUNT \in Nat \ {0}
    /\ MovieLength \in Nat \ {0}
    /\ MaxReloads \in Nat
    /\ MayLoseHandle \in BOOLEAN

VARIABLES
    \* the torrent engine
    have,               \* pieces downloaded and verified
    prio,               \* priority of every piece
    handle,             \* gTorrents still knows the torrent
    \* the fields of Prioritizer
    firstPieceIndex, lastPieceIndex, pieceIndex,
    isHaveAllPieces, isStart, cPreparePieceCount,
    messages,           \* updater callbacks pending in the handler
    lock,               \* owner of the monitor of updatePiecePriority
    \* the locals of the two threads
    pc, buf,            \* next step; the array returned by GetPiecePriorities
    scan,               \* locals of the loop of updatePiecePriority
    \* the activity
    queued,             \* the task waiting for the serial executor
    cancelled,          \* the running task was cancelled
    played,             \* some task has succeeded: the player was started
    reloads, destroyed, crashed

engine == <<have, prio, handle>>
fields == <<firstPieceIndex, lastPieceIndex, pieceIndex, isHaveAllPieces,
            isStart, cPreparePieceCount>>
looper == <<messages, lock>>
locals == <<buf, scan>>
events == <<queued, cancelled, played, reloads, destroyed, crashed>>
vars   == <<engine, fields, looper, pc, locals, events>>

NoArray == [p \in Pieces |-> DONT_DOWNLOAD]

Init ==
    /\ have \in InitialHave
    /\ \E wanted \in InitialWanted :
          prio = [p \in Pieces |-> IF p \in wanted THEN NORMAL ELSE DONT_DOWNLOAD]
    /\ handle = TRUE
    /\ firstPieceIndex = -1 /\ lastPieceIndex = -1 /\ pieceIndex = 0
    /\ isHaveAllPieces = FALSE /\ isStart = FALSE /\ cPreparePieceCount = 0
    /\ messages = 0 /\ lock = NoOne
    /\ pc = [t \in Threads |-> "idle"]
    /\ buf = [t \in Threads |-> NoArray]
    /\ scan = [t \in Threads |-> [i |-> 0, count |-> 0, newIndex |-> -1]]
    /\ queued = "load" /\ cancelled = FALSE /\ played = FALSE
    /\ reloads = 0 /\ destroyed = FALSE /\ crashed = FALSE

Goto(t, label) == pc' = [pc EXCEPT ![t] = label]

\* An exception on either thread ends the process.
Crash == crashed' = TRUE

\* SetPiecePriorities: nothing happens once the handle is gone.
SetPiecePriorities(priorities) ==
    prio' = IF handle THEN priorities ELSE prio

HavePiece(i) == handle /\ i \in have

-----------------------------------------------------------------------------
(* load and reload, on the task thread.                                     *)

\* f .. l is the first contiguous run of the non-empty set of pieces S.
FirstRun(S, f, l) ==
    /\ f \in S /\ f <= l
    /\ \A p \in S : f <= p
    /\ \A p \in f .. l : p \in S
    /\ l + 1 \notin S

\* The indices load writes: the tail pieces and the head pieces.
Tail(l, c) == (l - c + 1) .. l
Head(f, c) == f .. (f + c - 1)

\* Off by one: the rest of the torrent keeps its priority.
LoadedPriorities_NotCleared(f, l) ==
    [p \in Pieces |-> IF p \in Head(f, PREPARE_PIECE_COUNT + 2) THEN NORMAL
                      ELSE IF p \in Tail(l, PREPARE_PIECE_COUNT) THEN MAXIMAL
                      ELSE prio[p]]

\* What load writes: the head over the tail, and nothing else.
LoadedPriorities(f, l) ==
    [p \in Pieces |-> IF p \in Head(f, PREPARE_PIECE_COUNT + 2) THEN NORMAL
                      ELSE IF p \in Tail(l, PREPARE_PIECE_COUNT) THEN MAXIMAL
                      ELSE DONT_DOWNLOAD]

RemoveCallbacks_Missing == UNCHANGED messages

\* handler.removeCallbacks(updater): pending callbacks only, not a running one.
RemoveCallbacks == messages' = 0

LoadGet ==
    /\ pc[Task] = "load"
    /\ RemoveCallbacks
    /\ isStart' = FALSE
    /\ cPreparePieceCount' = PREPARE_PIECE_COUNT
    /\ LET nonZero == {p \in Pieces : prio[p] # DONT_DOWNLOAD} IN
       \/ /\ ~handle
          /\ Crash
          /\ UNCHANGED <<handle, firstPieceIndex, lastPieceIndex, pieceIndex, pc, buf>>
       \/ /\ handle /\ nonZero = {}
          /\ firstPieceIndex' = -1 /\ lastPieceIndex' = -1
          /\ handle' = FALSE                    \* the task removes the torrent
          /\ Goto(Task, "idle")
          /\ UNCHANGED <<pieceIndex, buf, crashed>>
       \/ /\ handle
          /\ \E f \in Pieces, l \in Pieces :
                /\ FirstRun(nonZero, f, l)
                /\ firstPieceIndex' = f /\ lastPieceIndex' = l
                /\ pieceIndex' = f
                /\ IF Tail(l, PREPARE_PIECE_COUNT) \cup Head(f, PREPARE_PIECE_COUNT + 2)
                         \subseteq Pieces
                     THEN /\ buf' = [buf EXCEPT ![Task] = LoadedPriorities(f, l)]
                          /\ Goto(Task, "loadSet")
                          /\ UNCHANGED crashed
                     ELSE Crash /\ UNCHANGED <<pc, buf>>
          /\ UNCHANGED handle
    /\ UNCHANGED <<have, prio, isHaveAllPieces, lock, scan,
                   queued, cancelled, played, reloads, destroyed>>

LoadSet ==
    /\ pc[Task] = "loadSet"
    /\ SetPiecePriorities(buf[Task])
    /\ Goto(Task, "check")
    /\ UNCHANGED <<have, handle, fields, looper, locals, events>>

ReloadedPieces_OffByOne ==
    [tail |-> lastPieceIndex - cPreparePieceCount + 1,
     head |-> firstPieceIndex + cPreparePieceCount]

\* reload widens the prepared tail and head by one piece, without a limit.
ReloadedPieces ==
    [tail |-> lastPieceIndex - cPreparePieceCount,
     head |-> firstPieceIndex + cPreparePieceCount]

ReloadGet ==
    /\ pc[Task] = "reload"
    /\ RemoveCallbacks
    /\ isStart' = FALSE
    /\ IF firstPieceIndex = -1 \/ lastPieceIndex = -1
         THEN Goto(Task, "check") /\ UNCHANGED <<buf, crashed>>
         ELSE LET new == ReloadedPieces IN
              IF handle /\ {new.tail, new.head} \subseteq Pieces
                THEN /\ buf' = [buf EXCEPT ![Task] =
                                  [prio EXCEPT ![new.tail] = MAXIMAL, ![new.head] = NORMAL]]
                     /\ Goto(Task, "reloadSet")
                     /\ UNCHANGED crashed
                ELSE Crash /\ UNCHANGED <<pc, buf>>
    /\ UNCHANGED <<engine, firstPieceIndex, lastPieceIndex, pieceIndex, isHaveAllPieces,
                   cPreparePieceCount, lock, scan,
                   queued, cancelled, played, reloads, destroyed>>

ReloadSet ==
    /\ pc[Task] = "reloadSet"
    /\ SetPiecePriorities(buf[Task])
    /\ cPreparePieceCount' = cPreparePieceCount + 1
    /\ Goto(Task, "check")
    /\ UNCHANGED <<have, handle, firstPieceIndex, lastPieceIndex, pieceIndex,
                   isHaveAllPieces, isStart, looper, locals, events>>

-----------------------------------------------------------------------------
(* The loop of PrepareVideoTask.doInBackground.                             *)

StartTask ==
    /\ pc[Task] = "idle" /\ queued # "none"
    /\ Goto(Task, queued)
    /\ queued' = "none"
    /\ cancelled' = FALSE
    /\ UNCHANGED <<engine, fields, looper, locals, played, reloads, destroyed, crashed>>

CheckToStart ==
    /\ pc[Task] = "check"
    /\ IF ~isStart /\ \A i \in Tail(lastPieceIndex, cPreparePieceCount) : HavePiece(i)
         THEN isStart' = TRUE /\ Goto(Task, "updaterGet")
         ELSE UNCHANGED isStart /\ Goto(Task, "progress")
    /\ UNCHANGED <<engine, firstPieceIndex, lastPieceIndex, pieceIndex, isHaveAllPieces,
                   cPreparePieceCount, looper, locals, events>>

\* getPrepareProgress is 100 when the head and the tail are complete.
Prepared ==
    /\ cPreparePieceCount > 0
    /\ \A i \in Tail(lastPieceIndex, cPreparePieceCount)
                \cup Head(firstPieceIndex, cPreparePieceCount) : HavePiece(i)

PublishProgress ==
    /\ pc[Task] = "progress"
    /\ IF Prepared
         THEN played' = TRUE /\ Goto(Task, "idle")
         ELSE UNCHANGED played /\ Goto(Task, IF cancelled THEN "idle" ELSE "sleep")
    /\ UNCHANGED <<engine, fields, looper, locals,
                   queued, cancelled, reloads, destroyed, crashed>>

\* cancel(true) interrupts the sleep.
WakeUp ==
    /\ pc[Task] = "sleep"
    /\ Goto(Task, IF cancelled THEN "idle" ELSE "check")
    /\ UNCHANGED <<engine, fields, looper, locals, events>>

-----------------------------------------------------------------------------
(* The updater, on the main thread from the handler and on the task thread  *)
(* from checkToStart.                                                       *)

RunUpdater ==
    /\ pc[Main] = "idle" /\ messages > 0
    /\ messages' = messages - 1
    /\ Goto(Main, "updaterGet")
    /\ UNCHANGED <<engine, fields, lock, locals, events>>

MonitorFree_Unsynchronized == TRUE

\* updatePiecePriority is synchronized.
MonitorFree == lock = NoOne

ScanStart_AfterMissing == [i |-> pieceIndex + 1, count |-> 0, newIndex |-> -1]

\* The loop starts again at the first piece found missing last time.
ScanStart == [i |-> pieceIndex, count |-> 0, newIndex |-> -1]

\* Enter the monitor and read the priorities; null once the handle is gone.
UpdaterGet(t) ==
    /\ pc[t] = "updaterGet" /\ MonitorFree
    /\ IF handle
         THEN /\ lock' = t
              /\ buf' = [buf EXCEPT ![t] = prio]
              /\ isHaveAllPieces' = TRUE
              /\ scan' = [scan EXCEPT ![t] = ScanStart]
              /\ Goto(t, "updaterScan")
         ELSE Goto(t, "updaterPost") /\ UNCHANGED <<lock, buf, isHaveAllPieces, scan>>
    /\ UNCHANGED <<engine, firstPieceIndex, lastPieceIndex, pieceIndex, isStart,
                   cPreparePieceCount, messages, events>>

Scanning_OneTooMany(t) ==
    scan[t].i <= lastPieceIndex /\ scan[t].count <= ACTIVE_PIECE_COUNT

Scanning(t) == scan[t].i <= lastPieceIndex /\ scan[t].count < ACTIVE_PIECE_COUNT

NewIndex_LastMissing(newIndex, i) == i

\* The first missing piece of this scan, i being missing.
NewIndex(newIndex, i) == IF newIndex = -1 THEN i ELSE newIndex

\* One iteration of the loop.
UpdaterScan(t) ==
    /\ pc[t] = "updaterScan" /\ Scanning(t)
    /\ LET i == scan[t].i IN
       IF HavePiece(i)
         THEN /\ scan' = [scan EXCEPT ![t].i = i + 1]
              /\ UNCHANGED <<isHaveAllPieces, buf>>
         ELSE /\ isHaveAllPieces' = FALSE
              /\ scan' = [scan EXCEPT ![t] =
                            [i |-> i + 1, count |-> @.count + 1,
                             newIndex |-> NewIndex(@.newIndex, i)]]
              /\ buf' = IF buf[t][i] = DONT_DOWNLOAD
                          THEN [buf EXCEPT ![t][i] = MAXIMAL]
                          ELSE buf
    /\ UNCHANGED <<engine, firstPieceIndex, lastPieceIndex, pieceIndex, isStart,
                   cPreparePieceCount, looper, pc, events>>


PieceIndexAfter(t) == IF scan[t].newIndex # -1 THEN scan[t].newIndex ELSE pieceIndex

\* Write the priorities back and leave the monitor.
UpdaterSet(t) ==
    /\ pc[t] = "updaterScan" /\ ~Scanning(t)
    /\ pieceIndex' = PieceIndexAfter(t)
    /\ SetPiecePriorities(buf[t])
    /\ lock' = NoOne
    /\ Goto(t, "updaterPost")
    /\ UNCHANGED <<have, handle, firstPieceIndex, lastPieceIndex, isHaveAllPieces, isStart,
                   cPreparePieceCount, messages, locals, events>>

PostDelayed_Never == UNCHANGED messages

\* handler.postDelayed, while a piece is missing.
PostDelayed == messages' = IF isHaveAllPieces THEN messages ELSE messages + 1

UpdaterPost(t) ==
    /\ pc[t] = "updaterPost"
    /\ PostDelayed
    /\ Goto(t, IF t = Task THEN "progress" ELSE "idle")
    /\ UNCHANGED <<engine, fields, lock, locals, events>>

Updater(t) == UpdaterGet(t) \/ UpdaterScan(t) \/ UpdaterSet(t) \/ UpdaterPost(t)

-----------------------------------------------------------------------------
(* Events of the activity, on the main thread.                              *)

\* cancelAsyncTask: a queued task never runs, a running one is interrupted.
CancelTask == cancelled' = TRUE

\* reloadVideo, when the player finds no video track.
ReloadVideo ==
    /\ pc[Main] = "idle" /\ played /\ ~destroyed /\ reloads < MaxReloads
    /\ CancelTask
    /\ queued' = "reload"
    /\ reloads' = reloads + 1
    /\ UNCHANGED <<engine, fields, looper, pc, locals, played, destroyed, crashed>>

\* destroyTorrent up to the read of Prioritizer.stop.
Destroy ==
    /\ pc[Main] = "idle" /\ ~destroyed
    /\ CancelTask
    /\ queued' = "none"
    /\ destroyed' = TRUE
    /\ RemoveCallbacks
    /\ IF firstPieceIndex # -1 /\ lastPieceIndex # -1 /\ handle
         THEN buf' = [buf EXCEPT ![Main] = prio] /\ Goto(Main, "stopSet")
         ELSE UNCHANGED <<buf, pc>>
    /\ UNCHANGED <<engine, fields, lock, scan, played, reloads, crashed>>

StopSet ==
    /\ pc[Main] = "stopSet"
    /\ SetPiecePriorities([p \in Pieces |->
            IF p \in firstPieceIndex .. lastPieceIndex THEN NORMAL ELSE buf[Main][p]])
    /\ Goto(Main, "idle")
    /\ UNCHANGED <<have, handle, fields, looper, locals, events>>

-----------------------------------------------------------------------------
(* The torrent engine.                                                      *)

Download(p) ==
    /\ handle /\ prio[p] # DONT_DOWNLOAD /\ p \notin have
    /\ have' = have \cup {p}
    /\ UNCHANGED <<prio, handle, fields, looper, pc, locals, events>>

\* An exception in the JNI layer, or a RemoveTorrent, forgets the torrent.
LoseHandle ==
    /\ MayLoseHandle /\ handle
    /\ handle' = FALSE
    /\ UNCHANGED <<have, prio, fields, looper, pc, locals, events>>

-----------------------------------------------------------------------------
TaskStep ==
    /\ ~crashed
    /\ \/ StartTask \/ LoadGet \/ LoadSet \/ ReloadGet \/ ReloadSet
       \/ CheckToStart \/ PublishProgress \/ WakeUp \/ Updater(Task)

MainStep == ~crashed /\ (RunUpdater \/ Updater(Main) \/ StopSet)

Event == ~crashed /\ (ReloadVideo \/ Destroy)

EngineStep == ~crashed /\ (LoseHandle \/ \E p \in Pieces : Download(p))

Next == TaskStep \/ MainStep \/ Event \/ EngineStep

\* Threads run, and a piece that stays requested arrives; events may not come.
Fairness ==
    /\ WF_vars(TaskStep)
    /\ WF_vars(MainStep)
    /\ \A p \in Pieces : WF_vars(~crashed /\ Download(p))

Spec == Init /\ [][Next]_vars /\ Fairness

-----------------------------------------------------------------------------
UpdaterLabels == {"updaterGet", "updaterScan", "updaterPost"}
Labels == {"idle", "load", "loadSet", "reload", "reloadSet", "check", "progress", "sleep",
           "stopSet"} \cup UpdaterLabels

EngineOK ==
    /\ have \subseteq Pieces
    /\ prio \in [Pieces -> Priorities]

FieldsOK ==
    /\ firstPieceIndex \in Pieces \cup {-1}
    /\ lastPieceIndex \in Pieces \cup {-1}
    /\ pieceIndex \in Nat
    /\ cPreparePieceCount \in Nat
    /\ messages \in Nat
    /\ lock \in Threads \cup {NoOne}

LocalsOK ==
    /\ pc \in [Threads -> Labels]
    /\ buf \in [Threads -> [Pieces -> Priorities]]
    /\ scan \in [Threads -> [i : Nat, count : Nat, newIndex : Nat \cup {-1}]]

EventsOK ==
    /\ queued \in {"none", "load", "reload"}
    /\ reloads \in 0 .. MaxReloads

FlagsOK ==
    /\ handle \in BOOLEAN /\ isHaveAllPieces \in BOOLEAN /\ isStart \in BOOLEAN
    /\ cancelled \in BOOLEAN /\ played \in BOOLEAN
    /\ destroyed \in BOOLEAN /\ crashed \in BOOLEAN

(* Every field, local and message has its type.                             *)
TypeOK == EngineOK /\ FieldsOK /\ LocalsOK /\ EventsOK /\ FlagsOK

Loaded == firstPieceIndex # -1 /\ pc[Task] \notin {"load", "loadSet"}

Playing == Loaded /\ handle /\ ~destroyed

VideoPieces == firstPieceIndex .. lastPieceIndex

(* pieceIndex never runs ahead of the download: every piece of the video    *)
(* before it has been downloaded, whichever thread moved it.                *)
PrefixDownloaded ==
    firstPieceIndex # -1 =>
        \A p \in firstPieceIndex .. (pieceIndex - 1) : p \in have

(* isHaveAllPieces, read while no update is in progress, tells the truth:   *)
(* the updater that clears it and the one that stops polling agree.         *)
HaveAllSound ==
    isHaveAllPieces /\ lock = NoOne => VideoPieces \subseteq have

\* canSeekTo, which the main thread calls from the player's controls.
CanSeekTo_Inclusive(length, position) ==
    LET pieceCount == IF firstPieceIndex = -1 THEN 0
                                              ELSE lastPieceIndex - firstPieceIndex + 1
    IN  isHaveAllPieces \/ pieceIndex >= (position * pieceCount) \div length

CanSeekTo(length, position) ==
    LET pieceCount == IF firstPieceIndex = -1 THEN 0
                                              ELSE lastPieceIndex - firstPieceIndex + 1
    IN  isHaveAllPieces \/ pieceIndex > (position * pieceCount) \div length

(* A seek that canSeekTo allows lands on a downloaded piece, when the video *)
(* starts at the first piece of the torrent (canSeekTo compares an index in *)
(* the file with an index in the torrent) and no update is in progress.     *)
SeekSound ==
    firstPieceIndex = 0 /\ Loaded /\ lock = NoOne =>
        \A position \in 0 .. MovieLength - 1 :
            CanSeekTo(MovieLength, position) =>
                (position * (lastPieceIndex + 1)) \div MovieLength \in have

\* What load and reload have asked for so far.
PreparedPieces ==
    Tail(lastPieceIndex, cPreparePieceCount)
        \cup Head(firstPieceIndex, PREPARE_PIECE_COUNT + 2)
        \cup Head(firstPieceIndex, cPreparePieceCount)

(* The video is requested in playing order: while it plays, a piece that is *)
(* requested and still missing is a prepared one, or fewer than             *)
(* ACTIVE_PIECE_COUNT pieces before it are missing.                         *)
RequestedInOrder ==
    Playing =>
        \A p \in VideoPieces \ (have \cup PreparedPieces) :
            prio[p] # DONT_DOWNLOAD =>
                Cardinality({q \in firstPieceIndex .. p - 1 : q \notin have})
                    < ACTIVE_PIECE_COUNT

(* No piece of another file is requested, as long as the prepared head and  *)
(* tail fit in the video (reload widens them without a limit).              *)
OnlyVideoRequested ==
    Playing /\ PreparedPieces \subseteq VideoPieces =>
        \A p \in Pieces \ VideoPieces : prio[p] = DONT_DOWNLOAD

Updating(t) == pc[t] \in UpdaterLabels

Chain(t) == IF Updating(t) THEN 1 ELSE 0

(* At most two chains of updater callbacks are alive, however often the     *)
(* video is reloaded: the one a reload failed to remove because it was      *)
(* running, and the one started since.                                      *)
AtMostTwoChains == messages + Chain(Task) + Chain(Main) <= 2

(* pieceIndex never moves back, also when both threads run the updater.     *)
PieceIndexMonotone == [][pieceIndex' >= pieceIndex]_vars

Over == destroyed \/ crashed

VideoComplete == Loaded /\ VideoPieces \subseteq have

(* Once started, the updater has the whole video downloaded, whatever       *)
(* priorities a concurrent reload has overwritten, unless the activity ends *)
(* or a reload stops the updater to start it again.                         *)
StartedVideoCompletes == (isStart /\ ~destroyed) ~> (VideoComplete \/ ~isStart \/ Over)

(* Every task ends: the pieces it waits for stay requested although the     *)
(* updater and reload overwrite each other's priorities.                    *)
TaskEnds == (pc[Task] # "idle") ~> (pc[Task] = "idle" \/ Over)

(* A video the player has started is downloaded to its end, unless the      *)
(* activity ends.                                                           *)
PlayedVideoCompletes == (played /\ ~destroyed) ~> (VideoComplete \/ Over)
=============================================================================
