-------------------------- MODULE PrioritizerProofs --------------------------
(* Theorems about Prioritizer, for every layout of the video, every number  *)
(* of reloads and every interleaving of the two threads.                    *)
EXTENDS Prioritizer, FiniteSetTheorems, TLAPS

(* Lemma: the two threads and the absence of an owner are told apart.       *)
LEMMA Distinct == Task \in Threads /\ Main \in Threads /\ Task # Main /\ NoOne \notin Threads
                  /\ \A t \in Threads : t = Task \/ t = Main
  BY DEF Threads, Task, Main, NoOne

\* Before load has found the video nothing of the updater exists.
NothingBeforeLoad ==
    firstPieceIndex = -1 =>
        /\ lastPieceIndex = -1 /\ pieceIndex = 0 /\ ~isHaveAllPieces
        /\ messages = 0 /\ lock = NoOne
        /\ pc[Task] \in {"idle", "load"} /\ pc[Main] = "idle"
        /\ ~played /\ queued # "reload"

\* The video is loaded once, and is not empty.
LoadedOnce ==
    /\ queued = "load" => firstPieceIndex = -1 /\ pc[Task] = "idle"
    /\ pc[Task] = "load" /\ firstPieceIndex # -1 => crashed
    /\ firstPieceIndex # -1 => firstPieceIndex <= lastPieceIndex

\* What the loop of updatePiecePriority has seen, by the thread in the monitor.
ScanSound(t) ==
    pc[t] = "updaterScan" =>
        /\ lock = t
        /\ pieceIndex <= scan[t].i
        /\ scan[t].newIndex = -1 =>
              /\ scan[t].count = 0
              /\ \A p \in pieceIndex .. scan[t].i - 1 : p \in have
        /\ scan[t].newIndex # -1 =>
              /\ ~isHaveAllPieces
              /\ pieceIndex <= scan[t].newIndex
              /\ \A p \in pieceIndex .. scan[t].newIndex - 1 : p \in have

\* The monitor is held only inside the loop.
MonitorHeld == lock # NoOne => pc[lock] = "updaterScan"

ScansSound == \A t \in Threads : ScanSound(t)

IInv ==
    /\ TypeOK
    /\ NothingBeforeLoad /\ LoadedOnce
    /\ ScansSound /\ MonitorHeld
    /\ PrefixDownloaded /\ HaveAllSound

-----------------------------------------------------------------------------
Arrays == [Pieces -> Priorities]

(* Lemma: the arrays load and reload write are priorities of all pieces.    *)
LEMMA LoadedType ==
  \A f \in Pieces, l \in Pieces : LoadedPriorities(f, l) \in Arrays
  BY DEF LoadedPriorities, Arrays, Priorities, NORMAL, MAXIMAL, DONT_DOWNLOAD

(* Lemma: raising one piece keeps an array of priorities.                   *)
LEMMA RaisedType ==
  ASSUME NEW a \in Arrays, NEW i
  PROVE  [a EXCEPT ![i] = MAXIMAL] \in Arrays /\ [a EXCEPT ![i] = NORMAL] \in Arrays
  BY DEF Arrays, Priorities, NORMAL, MAXIMAL

(* Lemma: what SetPiecePriorities writes are priorities.                    *)
LEMMA SetType ==
  ASSUME EngineOK, NEW a \in Arrays, SetPiecePriorities(a) PROVE prio' \in Arrays
  BY DEF EngineOK, SetPiecePriorities, Arrays

(* Lemma: a jump to a label keeps the program counters.                     *)
LEMMA GotoType ==
  ASSUME LocalsOK, NEW t \in Threads, NEW label \in Labels, Goto(t, label)
  PROVE  pc' \in [Threads -> Labels]
  BY DEF LocalsOK, Goto

(* Lemma: an array read by a thread keeps the arrays of the threads.        *)
LEMMA BufType ==
  ASSUME LocalsOK, NEW t \in Threads, NEW a \in Arrays, buf' = [buf EXCEPT ![t] = a]
  PROVE  buf' \in [Threads -> Arrays]
  BY DEF LocalsOK, Arrays

(* Lemma: the loop variables a thread starts from have their types.         *)
LEMMA ScanStartType ==
  ASSUME FieldsOK, LocalsOK, NEW t \in Threads,
         scan' = [scan EXCEPT ![t] = ScanStart]
  PROVE  scan' \in [Threads -> [i : Nat, count : Nat, newIndex : Nat \cup {-1}]]
  BY DEF FieldsOK, LocalsOK, ScanStart

(* Lemma: the initial states are well typed.                                *)
LEMMA InitType == Init => TypeOK
<1> SUFFICES ASSUME Init PROVE TypeOK
  OBVIOUS
<1> USE PieceAssumption, CountAssumption DEF Init
<1>1. EngineOK
  BY DEF EngineOK, Priorities, NORMAL, DONT_DOWNLOAD
<1>2. FieldsOK
  BY DEF FieldsOK
<1>3. LocalsOK
  BY DEF LocalsOK, NoArray, Labels, Priorities, DONT_DOWNLOAD
<1>4. EventsOK
  BY DEF EventsOK
<1>5. FlagsOK
  BY Zenon DEF FlagsOK
<1>6. QED
  BY <1>1, <1>2, <1>3, <1>4, <1>5 DEF TypeOK

(* Lemma: every step of the program keeps the types.                        *)
LEMMA NextType == TypeOK /\ [Next]_vars => TypeOK'
<1> SUFFICES ASSUME TypeOK, [Next]_vars PROVE TypeOK'
  OBVIOUS
<1> USE PieceAssumption, CountAssumption, Distinct
<1> USE DEF vars, engine, fields, looper, locals, events
<1>a. EngineOK /\ FieldsOK /\ LocalsOK /\ EventsOK /\ FlagsOK
  BY DEF TypeOK
<1>b. Pieces \subseteq Nat
  BY DEF Pieces
<1>c. prio \in Arrays /\ \A t \in Threads : buf[t] \in Arrays
  BY <1>a DEF EngineOK, LocalsOK, Arrays
<1>d. Labels = {"idle", "load", "loadSet", "reload", "reloadSet", "check", "progress",
                "sleep", "stopSet", "updaterGet", "updaterScan", "updaterPost"}
  BY DEF Labels, UpdaterLabels
<1>1. CASE UNCHANGED vars
  <2>1. EngineOK'
    BY <1>a, <1>1 DEF EngineOK
  <2>2. FieldsOK'
    BY <1>a, <1>b, <1>1 DEF FieldsOK
  <2>3. LocalsOK'
    BY <1>a, <1>1 DEF LocalsOK
  <2>4. EventsOK'
    BY <1>a, <1>1 DEF EventsOK
  <2>5. FlagsOK'
    BY <1>a, <1>1 DEF FlagsOK
  <2>6. QED
    BY <2>1, <2>2, <2>3, <2>4, <2>5 DEF TypeOK
<1>2. CASE StartTask
  <2>1. EngineOK'
    BY <1>a, <1>2 DEF EngineOK, StartTask
  <2>2. FieldsOK'
    BY <1>a, <1>b, <1>2 DEF FieldsOK, StartTask
  <2>3. LocalsOK'
    BY <1>a, <1>d, <1>2, GotoType DEF LocalsOK, EventsOK, StartTask
  <2>4. EventsOK'
    BY <1>a, <1>2 DEF EventsOK, StartTask
  <2>5. FlagsOK'
    BY <1>a, <1>2 DEF FlagsOK, StartTask
  <2>6. QED
    BY <2>1, <2>2, <2>3, <2>4, <2>5 DEF TypeOK
<1>3. CASE LoadGet
  <2>1. EngineOK'
    BY <1>a, <1>3 DEF EngineOK, LoadGet, RemoveCallbacks, Crash
  <2>2. FieldsOK'
    BY <1>a, <1>b, <1>3 DEF FieldsOK, LoadGet, RemoveCallbacks, Crash
  <2>3. pc' \in [Threads -> Labels]
    BY <1>a, <1>d, <1>3, GotoType DEF LocalsOK, LoadGet
  <2>4. buf' \in [Threads -> Arrays]
    BY <1>a, <1>c, <1>3, LoadedType, BufType DEF LocalsOK, Arrays, LoadGet
  <2>5. LocalsOK'
    BY <1>a, <1>3, <2>3, <2>4 DEF LocalsOK, Arrays, LoadGet, RemoveCallbacks, Crash
  <2>6. EventsOK'
    BY <1>a, <1>3 DEF EventsOK, LoadGet, RemoveCallbacks, Crash
  <2>7. FlagsOK'
    BY <1>a, <1>3 DEF FlagsOK, LoadGet, RemoveCallbacks, Crash
  <2>8. QED
    BY <2>1, <2>2, <2>5, <2>6, <2>7 DEF TypeOK
<1>4. CASE LoadSet
  <2>1. EngineOK'
    BY <1>a, <1>c, <1>4, SetType DEF EngineOK, Arrays, LoadSet
  <2>2. FieldsOK'
    BY <1>a, <1>b, <1>4 DEF FieldsOK, LoadSet
  <2>3. LocalsOK'
    BY <1>a, <1>d, <1>4, GotoType DEF LocalsOK, LoadSet
  <2>4. EventsOK'
    BY <1>a, <1>4 DEF EventsOK, LoadSet
  <2>5. FlagsOK'
    BY <1>a, <1>4 DEF FlagsOK, LoadSet
  <2>6. QED
    BY <2>1, <2>2, <2>3, <2>4, <2>5 DEF TypeOK
<1>5. CASE ReloadGet
  <2>1. EngineOK'
    BY <1>a, <1>5 DEF EngineOK, ReloadGet, RemoveCallbacks, Crash
  <2>2. FieldsOK'
    BY <1>a, <1>b, <1>5 DEF FieldsOK, ReloadGet, RemoveCallbacks, Crash
  <2>3. pc' \in [Threads -> Labels]
    BY <1>a, <1>d, <1>5, GotoType DEF LocalsOK, ReloadGet
  <2>4. buf' \in [Threads -> Arrays]
    BY <1>a, <1>c, <1>5, RaisedType, BufType DEF LocalsOK, Arrays, ReloadGet
  <2>5. LocalsOK'
    BY <1>a, <1>5, <2>3, <2>4 DEF LocalsOK, Arrays, ReloadGet, RemoveCallbacks, Crash
  <2>6. EventsOK'
    BY <1>a, <1>5 DEF EventsOK, ReloadGet, RemoveCallbacks, Crash
  <2>7. FlagsOK'
    BY <1>a, <1>5 DEF FlagsOK, ReloadGet, RemoveCallbacks, Crash
  <2>8. QED
    BY <2>1, <2>2, <2>5, <2>6, <2>7 DEF TypeOK
<1>6. CASE ReloadSet
  <2>1. EngineOK'
    BY <1>a, <1>c, <1>6, SetType DEF EngineOK, Arrays, ReloadSet
  <2>2. FieldsOK'
    BY <1>a, <1>b, <1>6 DEF FieldsOK, ReloadSet
  <2>3. LocalsOK'
    BY <1>a, <1>d, <1>6, GotoType DEF LocalsOK, ReloadSet
  <2>4. EventsOK'
    BY <1>a, <1>6 DEF EventsOK, ReloadSet
  <2>5. FlagsOK'
    BY <1>a, <1>6 DEF FlagsOK, ReloadSet
  <2>6. QED
    BY <2>1, <2>2, <2>3, <2>4, <2>5 DEF TypeOK
<1>7. CASE CheckToStart
  <2>1. EngineOK'
    BY <1>a, <1>7 DEF EngineOK, CheckToStart
  <2>2. FieldsOK'
    BY <1>a, <1>b, <1>7 DEF FieldsOK, CheckToStart
  <2>3. LocalsOK'
    BY <1>a, <1>d, <1>7, GotoType DEF LocalsOK, CheckToStart
  <2>4. EventsOK'
    BY <1>a, <1>7 DEF EventsOK, CheckToStart
  <2>5. FlagsOK'
    BY <1>a, <1>7 DEF FlagsOK, CheckToStart
  <2>6. QED
    BY <2>1, <2>2, <2>3, <2>4, <2>5 DEF TypeOK
<1>8. CASE PublishProgress
  <2>1. EngineOK'
    BY <1>a, <1>8 DEF EngineOK, PublishProgress
  <2>2. FieldsOK'
    BY <1>a, <1>b, <1>8 DEF FieldsOK, PublishProgress
  <2>3. LocalsOK'
    BY <1>a, <1>d, <1>8, GotoType DEF LocalsOK, PublishProgress
  <2>4. EventsOK'
    BY <1>a, <1>8 DEF EventsOK, PublishProgress
  <2>5. FlagsOK'
    BY <1>a, <1>8 DEF FlagsOK, PublishProgress
  <2>6. QED
    BY <2>1, <2>2, <2>3, <2>4, <2>5 DEF TypeOK
<1>9. CASE WakeUp
  <2>1. EngineOK'
    BY <1>a, <1>9 DEF EngineOK, WakeUp
  <2>2. FieldsOK'
    BY <1>a, <1>b, <1>9 DEF FieldsOK, WakeUp
  <2>3. LocalsOK'
    BY <1>a, <1>d, <1>9, GotoType DEF LocalsOK, WakeUp
  <2>4. EventsOK'
    BY <1>a, <1>9 DEF EventsOK, WakeUp
  <2>5. FlagsOK'
    BY <1>a, <1>9 DEF FlagsOK, WakeUp
  <2>6. QED
    BY <2>1, <2>2, <2>3, <2>4, <2>5 DEF TypeOK
<1>10. CASE RunUpdater
  <2>1. EngineOK'
    BY <1>a, <1>10 DEF EngineOK, RunUpdater
  <2>2. FieldsOK'
    BY <1>a, <1>b, <1>10 DEF FieldsOK, RunUpdater
  <2>3. LocalsOK'
    BY <1>a, <1>d, <1>10, GotoType DEF LocalsOK, RunUpdater
  <2>4. EventsOK'
    BY <1>a, <1>10 DEF EventsOK, RunUpdater
  <2>5. FlagsOK'
    BY <1>a, <1>10 DEF FlagsOK, RunUpdater
  <2>6. QED
    BY <2>1, <2>2, <2>3, <2>4, <2>5 DEF TypeOK
<1>11. ASSUME NEW t \in Threads, Updater(t) PROVE TypeOK'
  <2>1. CASE UpdaterGet(t)
    <3>1. EngineOK'
      BY <1>a, <2>1 DEF EngineOK, UpdaterGet
    <3>2. FieldsOK'
      BY <1>a, <1>b, <2>1 DEF FieldsOK, UpdaterGet
    <3>3. pc' \in [Threads -> Labels]
      BY <1>a, <1>d, <2>1, GotoType DEF LocalsOK, UpdaterGet
    <3>4. buf' \in [Threads -> Arrays]
      BY <1>a, <1>c, <2>1, BufType DEF LocalsOK, Arrays, UpdaterGet
    <3>5. LocalsOK'
      BY <1>a, <2>1, <3>3, <3>4, ScanStartType DEF LocalsOK, Arrays, UpdaterGet
    <3>6. EventsOK'
      BY <1>a, <2>1 DEF EventsOK, UpdaterGet
    <3>7. FlagsOK'
      BY <1>a, <2>1 DEF FlagsOK, UpdaterGet
    <3>8. QED
      BY <3>1, <3>2, <3>5, <3>6, <3>7 DEF TypeOK
  <2>2. CASE UpdaterScan(t)
    <3>1. EngineOK'
      BY <1>a, <2>2 DEF EngineOK, UpdaterScan
    <3>2. FieldsOK'
      BY <1>a, <1>b, <2>2 DEF FieldsOK, UpdaterScan
    <3>3. pc' \in [Threads -> Labels]
      BY <1>a, <2>2 DEF LocalsOK, UpdaterScan
    <3>4. buf' \in [Threads -> Arrays]
      BY <1>a, <1>c, <2>2, RaisedType, BufType DEF LocalsOK, Arrays, UpdaterScan
    <3>5. LocalsOK'
      BY <1>a, <2>2, <3>3, <3>4 DEF LocalsOK, Arrays, UpdaterScan, NewIndex
    <3>6. EventsOK'
      BY <1>a, <2>2 DEF EventsOK, UpdaterScan
    <3>7. FlagsOK'
      BY <1>a, <2>2 DEF FlagsOK, UpdaterScan
    <3>8. QED
      BY <3>1, <3>2, <3>5, <3>6, <3>7 DEF TypeOK
  <2>3. CASE UpdaterSet(t)
    <3>1. EngineOK'
      BY <1>a, <1>c, <2>3, SetType DEF EngineOK, Arrays, UpdaterSet
    <3>2. FieldsOK'
      BY <1>a, <1>b, <2>3 DEF FieldsOK, LocalsOK, UpdaterSet, PieceIndexAfter
    <3>3. LocalsOK'
      BY <1>a, <1>d, <2>3, GotoType DEF LocalsOK, UpdaterSet
    <3>4. EventsOK'
      BY <1>a, <2>3 DEF EventsOK, UpdaterSet
    <3>5. FlagsOK'
      BY <1>a, <2>3 DEF FlagsOK, UpdaterSet
    <3>6. QED
      BY <3>1, <3>2, <3>3, <3>4, <3>5 DEF TypeOK
  <2>4. CASE UpdaterPost(t)
    <3>1. EngineOK'
      BY <1>a, <2>4 DEF EngineOK, UpdaterPost, PostDelayed
    <3>2. FieldsOK'
      BY <1>a, <1>b, <2>4 DEF FieldsOK, UpdaterPost, PostDelayed
    <3>3. LocalsOK'
      BY <1>a, <1>d, <2>4, GotoType DEF LocalsOK, UpdaterPost
    <3>4. EventsOK'
      BY <1>a, <2>4 DEF EventsOK, UpdaterPost, PostDelayed
    <3>5. FlagsOK'
      BY <1>a, <2>4 DEF FlagsOK, UpdaterPost, PostDelayed
    <3>6. QED
      BY <3>1, <3>2, <3>3, <3>4, <3>5 DEF TypeOK
  <2>5. QED
    BY <1>11, <2>1, <2>2, <2>3, <2>4 DEF Updater
<1>12. CASE ReloadVideo
  <2>1. EngineOK'
    BY <1>a, <1>12 DEF EngineOK, ReloadVideo, CancelTask
  <2>2. FieldsOK'
    BY <1>a, <1>b, <1>12 DEF FieldsOK, ReloadVideo, CancelTask
  <2>3. LocalsOK'
    BY <1>a, <1>12 DEF LocalsOK, ReloadVideo
  <2>4. EventsOK'
    BY <1>a, <1>12 DEF EventsOK, ReloadVideo, CancelTask
  <2>5. FlagsOK'
    BY <1>a, <1>12 DEF FlagsOK, ReloadVideo, CancelTask
  <2>6. QED
    BY <2>1, <2>2, <2>3, <2>4, <2>5 DEF TypeOK
<1>13. CASE Destroy
  <2>1. EngineOK'
    BY <1>a, <1>13 DEF EngineOK, Destroy, CancelTask, RemoveCallbacks
  <2>2. FieldsOK'
    BY <1>a, <1>b, <1>13 DEF FieldsOK, Destroy, CancelTask, RemoveCallbacks
  <2>3. pc' \in [Threads -> Labels]
    BY <1>a, <1>d, <1>13, GotoType DEF LocalsOK, Destroy
  <2>4. buf' \in [Threads -> Arrays]
    BY <1>a, <1>c, <1>13, BufType DEF LocalsOK, Arrays, Destroy
  <2>5. LocalsOK'
    BY <1>a, <1>13, <2>3, <2>4 DEF LocalsOK, Arrays, Destroy, CancelTask, RemoveCallbacks
  <2>6. EventsOK'
    BY <1>a, <1>13 DEF EventsOK, Destroy, CancelTask, RemoveCallbacks
  <2>7. FlagsOK'
    BY <1>a, <1>13 DEF FlagsOK, Destroy, CancelTask, RemoveCallbacks
  <2>8. QED
    BY <2>1, <2>2, <2>5, <2>6, <2>7 DEF TypeOK
<1>14. CASE StopSet
  <2>1. EngineOK'
    BY <1>a, <1>c, <1>14, SetType DEF EngineOK, StopSet, Arrays, Priorities, NORMAL
  <2>2. FieldsOK'
    BY <1>a, <1>b, <1>14 DEF FieldsOK, StopSet
  <2>3. LocalsOK'
    BY <1>a, <1>d, <1>14, GotoType DEF LocalsOK, StopSet
  <2>4. EventsOK'
    BY <1>a, <1>14 DEF EventsOK, StopSet
  <2>5. FlagsOK'
    BY <1>a, <1>14 DEF FlagsOK, StopSet
  <2>6. QED
    BY <2>1, <2>2, <2>3, <2>4, <2>5 DEF TypeOK
<1>15. ASSUME NEW p \in Pieces, Download(p) PROVE TypeOK'
  <2>1. EngineOK'
    BY <1>a, <1>15 DEF EngineOK, Download
  <2>2. FieldsOK'
    BY <1>a, <1>b, <1>15 DEF FieldsOK, Download
  <2>3. LocalsOK'
    BY <1>a, <1>15 DEF LocalsOK, Download
  <2>4. EventsOK'
    BY <1>a, <1>15 DEF EventsOK, Download
  <2>5. FlagsOK'
    BY <1>a, <1>15 DEF FlagsOK, Download
  <2>6. QED
    BY <2>1, <2>2, <2>3, <2>4, <2>5 DEF TypeOK
<1>16. CASE LoseHandle
  <2>1. EngineOK'
    BY <1>a, <1>16 DEF EngineOK, LoseHandle
  <2>2. FieldsOK'
    BY <1>a, <1>b, <1>16 DEF FieldsOK, LoseHandle
  <2>3. LocalsOK'
    BY <1>a, <1>16 DEF LocalsOK, LoseHandle
  <2>4. EventsOK'
    BY <1>a, <1>16 DEF EventsOK, LoseHandle
  <2>5. FlagsOK'
    BY <1>a, <1>16 DEF FlagsOK, LoseHandle
  <2>6. QED
    BY <2>1, <2>2, <2>3, <2>4, <2>5 DEF TypeOK
<1>17. QED
  BY <1>1, <1>2, <1>3, <1>4, <1>5, <1>6, <1>7, <1>8, <1>9, <1>10, <1>11, <1>12,
     <1>13, <1>14, <1>15, <1>16
     DEF Next, TaskStep, MainStep, Event, EngineStep

(* Every field, local and message of the two threads keeps its type.        *)
THEOREM TypeCorrect == Spec => []TypeOK
  BY InitType, NextType, PTL DEF Spec

-----------------------------------------------------------------------------
Bookkeeping == NothingBeforeLoad /\ LoadedOnce /\ ScansSound /\ MonitorHeld
                  /\ PrefixDownloaded /\ HaveAllSound

(* Lemma: the inductive invariant holds when the activity is created.       *)
LEMMA InitInv == Init => IInv
<1> SUFFICES ASSUME Init PROVE IInv
  OBVIOUS
<1>1. TypeOK
  BY InitType
<1>2. \A t \in Threads : pc[t] = "idle"
  BY DEF Init
<1>3. QED
  BY <1>1, <1>2, Distinct
     DEF Init, IInv, NothingBeforeLoad, LoadedOnce, ScansSound, ScanSound, MonitorHeld,
         PrefixDownloaded, HaveAllSound

(* Lemma: every step of the two threads and of the engine keeps it.         *)
LEMMA NextInv == IInv /\ [Next]_vars => IInv'
<1> SUFFICES ASSUME IInv, [Next]_vars PROVE IInv'
  OBVIOUS
<1>t. TypeOK'
  BY NextType DEF IInv
<1> SUFFICES Bookkeeping'
  BY <1>t DEF IInv, Bookkeeping
<1> USE PieceAssumption, CountAssumption, Distinct
<1> USE DEF vars, engine, fields, looper, locals, events, Goto, Bookkeeping
<1>a. TypeOK /\ NothingBeforeLoad /\ LoadedOnce /\ ScansSound /\ MonitorHeld
          /\ PrefixDownloaded /\ HaveAllSound
  BY DEF IInv
<1>b. FieldsOK /\ LocalsOK /\ EventsOK /\ FlagsOK /\ have \subseteq Pieces
  BY <1>a DEF TypeOK, EngineOK
<1> USE DEF FieldsOK, LocalsOK, Pieces
<1>1. CASE UNCHANGED vars
  <2>1. NothingBeforeLoad' /\ LoadedOnce'
    BY <1>a, <1>b, <1>1 DEF NothingBeforeLoad, LoadedOnce
  <2>2. ScansSound' /\ MonitorHeld'
    BY <1>a, <1>b, <1>1 DEF ScansSound, ScanSound, MonitorHeld
  <2>3. PrefixDownloaded' /\ HaveAllSound'
    BY <1>a, <1>b, <1>1 DEF PrefixDownloaded, HaveAllSound, VideoPieces
  <2>4. QED
    BY <2>1, <2>2, <2>3
<1>2. CASE StartTask
  <2>1. NothingBeforeLoad' /\ LoadedOnce'
    BY <1>a, <1>b, <1>2 DEF EventsOK, NothingBeforeLoad, LoadedOnce, StartTask
  <2>2. ScansSound' /\ MonitorHeld'
    BY <1>a, <1>b, <1>2 DEF EventsOK, ScansSound, ScanSound, MonitorHeld, StartTask
  <2>3. PrefixDownloaded' /\ HaveAllSound'
    BY <1>a, <1>b, <1>2 DEF PrefixDownloaded, HaveAllSound, VideoPieces, StartTask
  <2>4. QED
    BY <2>1, <2>2, <2>3
<1>3. CASE LoadGet /\ ~crashed
  <2>1. /\ pc[Task] = "load" /\ pc[Main] = "idle" /\ firstPieceIndex = -1
        /\ lastPieceIndex = -1 /\ pieceIndex = 0 /\ ~isHaveAllPieces
        /\ lock = NoOne /\ ~played /\ queued # "reload" /\ messages = 0
    BY <1>a, <1>3 DEF LoadedOnce, NothingBeforeLoad, LoadGet
  <2>2. /\ UNCHANGED <<have, isHaveAllPieces, lock, queued, played, scan>>
        /\ messages' = 0
        /\ pc'[Main] = "idle" /\ pc'[Task] \in {"load", "idle", "loadSet"}
        /\ pc'[Task] = "load" => crashed' \/ firstPieceIndex' = -1
    BY <1>b, <1>3, <2>1 DEF LoadGet, RemoveCallbacks, Crash
  <2>3. \/ UNCHANGED <<firstPieceIndex, lastPieceIndex, pieceIndex>> /\ pc'[Task] = "load"
        \/ UNCHANGED <<firstPieceIndex, lastPieceIndex, pieceIndex>> /\ pc'[Task] = "idle"
        \/ /\ firstPieceIndex' \in Nat /\ pieceIndex' = firstPieceIndex'
           /\ firstPieceIndex' <= lastPieceIndex'
    <3> DEFINE nonZero == {p \in Pieces : prio[p] # DONT_DOWNLOAD}
    <3>1. CASE ~handle
      BY <1>3, <2>1, <3>1 DEF LoadGet
    <3>2. CASE handle /\ nonZero = {} /\ firstPieceIndex' = -1 /\ lastPieceIndex' = -1
                 /\ Goto(Task, "idle") /\ UNCHANGED pieceIndex
      BY <1>b, <2>1, <3>2
    <3>3. CASE \E f \in Pieces, l \in Pieces :
                  FirstRun(nonZero, f, l) /\ firstPieceIndex' = f /\ lastPieceIndex' = l
                     /\ pieceIndex' = f
      BY <3>3 DEF FirstRun
    <3>4. QED
      BY <1>3, <3>1, <3>2, <3>3 DEF LoadGet
  <2>4. queued # "load"
    BY <1>a, <2>1 DEF LoadedOnce
  <2>5. NothingBeforeLoad' /\ LoadedOnce'
    BY <1>a, <1>b, <2>1, <2>2, <2>3, <2>4 DEF NothingBeforeLoad, LoadedOnce
  <2>6. ScansSound' /\ MonitorHeld'
    BY <1>a, <1>b, <2>1, <2>2 DEF ScansSound, ScanSound, MonitorHeld
  <2>7. PrefixDownloaded' /\ HaveAllSound'
    BY <1>b, <2>1, <2>2, <2>3 DEF PrefixDownloaded, HaveAllSound
  <2>8. QED
    BY <2>5, <2>6, <2>7
<1>4. CASE LoadSet
  <2>1. NothingBeforeLoad' /\ LoadedOnce'
    BY <1>a, <1>b, <1>4 DEF NothingBeforeLoad, LoadedOnce, LoadSet
  <2>2. ScansSound' /\ MonitorHeld'
    BY <1>a, <1>b, <1>4 DEF ScansSound, ScanSound, MonitorHeld, LoadSet
  <2>3. PrefixDownloaded' /\ HaveAllSound'
    BY <1>a, <1>b, <1>4 DEF PrefixDownloaded, HaveAllSound, VideoPieces, LoadSet
  <2>4. QED
    BY <2>1, <2>2, <2>3
<1>5. CASE ReloadGet
  <2>1. NothingBeforeLoad' /\ LoadedOnce'
    BY <1>a, <1>b, <1>5 DEF NothingBeforeLoad, LoadedOnce, ReloadGet, RemoveCallbacks, Crash
  <2>2. ScansSound' /\ MonitorHeld'
    BY <1>a, <1>b, <1>5 DEF ScansSound, ScanSound, MonitorHeld, ReloadGet, RemoveCallbacks, Crash
  <2>3. PrefixDownloaded' /\ HaveAllSound'
    BY <1>a, <1>b, <1>5 DEF PrefixDownloaded, HaveAllSound, VideoPieces, ReloadGet, RemoveCallbacks, Crash
  <2>4. QED
    BY <2>1, <2>2, <2>3
<1>6. CASE ReloadSet
  <2>1. NothingBeforeLoad' /\ LoadedOnce'
    BY <1>a, <1>b, <1>6 DEF NothingBeforeLoad, LoadedOnce, ReloadSet
  <2>2. ScansSound' /\ MonitorHeld'
    BY <1>a, <1>b, <1>6 DEF ScansSound, ScanSound, MonitorHeld, ReloadSet
  <2>3. PrefixDownloaded' /\ HaveAllSound'
    BY <1>a, <1>b, <1>6 DEF PrefixDownloaded, HaveAllSound, VideoPieces, ReloadSet
  <2>4. QED
    BY <2>1, <2>2, <2>3
<1>7. CASE CheckToStart
  <2>1. NothingBeforeLoad' /\ LoadedOnce'
    BY <1>a, <1>b, <1>7 DEF NothingBeforeLoad, LoadedOnce, CheckToStart
  <2>2. ScansSound' /\ MonitorHeld'
    BY <1>a, <1>b, <1>7 DEF ScansSound, ScanSound, MonitorHeld, CheckToStart
  <2>3. PrefixDownloaded' /\ HaveAllSound'
    BY <1>a, <1>b, <1>7 DEF PrefixDownloaded, HaveAllSound, VideoPieces, CheckToStart
  <2>4. QED
    BY <2>1, <2>2, <2>3
<1>8. CASE PublishProgress
  <2>1. NothingBeforeLoad' /\ LoadedOnce'
    BY <1>a, <1>b, <1>8 DEF NothingBeforeLoad, LoadedOnce, PublishProgress, Prepared
  <2>2. ScansSound' /\ MonitorHeld'
    BY <1>a, <1>b, <1>8 DEF ScansSound, ScanSound, MonitorHeld, PublishProgress, Prepared
  <2>3. PrefixDownloaded' /\ HaveAllSound'
    BY <1>a, <1>b, <1>8 DEF PrefixDownloaded, HaveAllSound, VideoPieces, PublishProgress, Prepared
  <2>4. QED
    BY <2>1, <2>2, <2>3
<1>9. CASE WakeUp
  <2>1. NothingBeforeLoad' /\ LoadedOnce'
    BY <1>a, <1>b, <1>9 DEF NothingBeforeLoad, LoadedOnce, WakeUp
  <2>2. ScansSound' /\ MonitorHeld'
    BY <1>a, <1>b, <1>9 DEF ScansSound, ScanSound, MonitorHeld, WakeUp
  <2>3. PrefixDownloaded' /\ HaveAllSound'
    BY <1>a, <1>b, <1>9 DEF PrefixDownloaded, HaveAllSound, VideoPieces, WakeUp
  <2>4. QED
    BY <2>1, <2>2, <2>3
<1>10. CASE RunUpdater
  <2>1. NothingBeforeLoad' /\ LoadedOnce'
    BY <1>a, <1>b, <1>10 DEF NothingBeforeLoad, LoadedOnce, RunUpdater
  <2>2. ScansSound' /\ MonitorHeld'
    BY <1>a, <1>b, <1>10 DEF ScansSound, ScanSound, MonitorHeld, RunUpdater
  <2>3. PrefixDownloaded' /\ HaveAllSound'
    BY <1>a, <1>b, <1>10 DEF PrefixDownloaded, HaveAllSound, VideoPieces, RunUpdater
  <2>4. QED
    BY <2>1, <2>2, <2>3
<1>11. ASSUME NEW t \in Threads, Updater(t) PROVE Bookkeeping'
  <2>1. CASE UpdaterGet(t)
    <3>1. NothingBeforeLoad' /\ LoadedOnce'
      BY <1>a, <1>b, <2>1 DEF NothingBeforeLoad, LoadedOnce, UpdaterGet, MonitorFree, ScanStart
    <3>2. ScansSound' /\ MonitorHeld'
      BY <1>a, <1>b, <2>1 DEF ScansSound, ScanSound, MonitorHeld, UpdaterGet, MonitorFree, ScanStart
    <3>3. PrefixDownloaded' /\ HaveAllSound'
      BY <1>a, <1>b, <2>1 DEF PrefixDownloaded, HaveAllSound, VideoPieces, UpdaterGet, MonitorFree, ScanStart
    <3>4. QED
      BY <3>1, <3>2, <3>3
  <2>2. CASE UpdaterScan(t)
    <3>1. NothingBeforeLoad' /\ LoadedOnce'
      BY <1>a, <1>b, <2>2 DEF NothingBeforeLoad, LoadedOnce, UpdaterScan, Scanning, NewIndex, HavePiece
    <3>2. ScansSound' /\ MonitorHeld'
      <4> DEFINE i == scan[t].i
      <4>1. /\ lock = t /\ i \in Nat /\ i <= lastPieceIndex
            /\ UNCHANGED <<lock, pc, have, pieceIndex, lastPieceIndex>>
        BY <1>a, <1>b, <2>2 DEF ScansSound, ScanSound, UpdaterScan, Scanning
      <4>2. \A u \in Threads : u # t => pc[u] # "updaterScan"
        BY <1>a, <4>1 DEF ScansSound, ScanSound
      <4>3. ScanSound(t)'
        <5>1. CASE HavePiece(i)
          <6>1. scan'[t] = [scan[t] EXCEPT !.i = i + 1] /\ isHaveAllPieces' = isHaveAllPieces
            BY <1>b, <2>2, <5>1 DEF UpdaterScan
          <6>2. i \in have
            BY <5>1 DEF HavePiece
          <6>3. scan[t] \in [i : Nat, count : Nat, newIndex : Nat \cup {-1}]
            BY <1>b
          <6>4. scan'[t].i = i + 1 /\ scan'[t].count = scan[t].count
                   /\ scan'[t].newIndex = scan[t].newIndex
            BY <6>1, <6>3
          <6>5. ScanSound(t) /\ pc[t] = "updaterScan" /\ pieceIndex \in Nat
                   /\ scan[t].newIndex \in Nat \cup {-1}
            BY <1>a, <1>b, <2>2 DEF ScansSound, UpdaterScan
          <6>6. CASE scan[t].newIndex = -1
            BY <4>1, <6>1, <6>2, <6>4, <6>5, <6>6 DEF ScanSound
          <6>7. CASE scan[t].newIndex # -1
            BY <4>1, <6>1, <6>2, <6>4, <6>5, <6>7 DEF ScanSound
          <6>8. QED
            BY <6>6, <6>7
        <5>2. CASE ~HavePiece(i)
          <6>1. /\ scan'[t] = [i |-> i + 1, count |-> scan[t].count + 1,
                               newIndex |-> NewIndex(scan[t].newIndex, i)]
                /\ ~isHaveAllPieces'
            BY <1>b, <2>2, <5>2 DEF UpdaterScan
          <6>2. /\ scan[t].newIndex \in Nat \cup {-1}
                /\ scan'[t].newIndex = IF scan[t].newIndex = -1 THEN i ELSE scan[t].newIndex
                /\ scan'[t].i = i + 1
            BY <1>b, <6>1 DEF NewIndex
          <6>3. ScanSound(t) /\ pc[t] = "updaterScan" /\ pieceIndex \in Nat
            BY <1>a, <1>b, <2>2 DEF ScansSound, UpdaterScan
          <6>4. CASE scan[t].newIndex = -1
            BY <4>1, <6>1, <6>2, <6>3, <6>4 DEF ScanSound
          <6>5. CASE scan[t].newIndex # -1
            BY <4>1, <6>1, <6>2, <6>3, <6>5 DEF ScanSound
          <6>6. QED
            BY <6>4, <6>5
        <5>3. QED
          BY <5>1, <5>2
      <4>4. QED
        BY <1>a, <4>1, <4>2, <4>3 DEF ScansSound, ScanSound, MonitorHeld
    <3>3. PrefixDownloaded' /\ HaveAllSound'
      BY <1>a, <1>b, <2>2 DEF PrefixDownloaded, HaveAllSound, VideoPieces, UpdaterScan, Scanning, NewIndex, HavePiece
    <3>4. QED
      BY <3>1, <3>2, <3>3
  <2>3. CASE UpdaterSet(t)
    <3>1. NothingBeforeLoad' /\ LoadedOnce'
      BY <1>a, <1>b, <2>3 DEF NothingBeforeLoad, LoadedOnce, UpdaterSet, Scanning, PieceIndexAfter
    <3>2. ScansSound' /\ MonitorHeld'
      BY <1>a, <1>b, <2>3 DEF ScansSound, ScanSound, MonitorHeld, UpdaterSet, Scanning, PieceIndexAfter
    <3>3. PrefixDownloaded' /\ HaveAllSound'
      <4> DEFINE n == scan[t].newIndex
      <4>1. /\ ScanSound(t) /\ pc[t] = "updaterScan" /\ ~Scanning(t)
            /\ n \in Nat \cup {-1} /\ scan[t].i \in Nat
            /\ pieceIndex' = IF n # -1 THEN n ELSE pieceIndex
            /\ UNCHANGED <<have, firstPieceIndex, lastPieceIndex, isHaveAllPieces>>
        BY <1>a, <1>b, <2>3 DEF ScansSound, UpdaterSet, PieceIndexAfter
      <4>2. firstPieceIndex # -1
        BY <1>a, <4>1 DEF NothingBeforeLoad, ScanSound
      <4>3. PrefixDownloaded'
        BY <1>a, <1>b, <4>1, <4>2 DEF PrefixDownloaded, ScanSound
      <4>4. ASSUME isHaveAllPieces PROVE VideoPieces \subseteq have
        <5>1. n = -1 /\ scan[t].i > lastPieceIndex
          BY <1>b, <4>1, <4>4 DEF ScanSound, Scanning
        <5>2. QED
          BY <1>a, <1>b, <4>1, <4>2, <5>1 DEF ScanSound, PrefixDownloaded, VideoPieces
      <4>5. QED
        BY <4>1, <4>3, <4>4 DEF HaveAllSound, VideoPieces
    <3>4. QED
      BY <3>1, <3>2, <3>3
  <2>4. CASE UpdaterPost(t)
    <3>1. NothingBeforeLoad' /\ LoadedOnce'
      BY <1>a, <1>b, <2>4 DEF NothingBeforeLoad, LoadedOnce, UpdaterPost, PostDelayed
    <3>2. ScansSound' /\ MonitorHeld'
      BY <1>a, <1>b, <2>4 DEF ScansSound, ScanSound, MonitorHeld, UpdaterPost, PostDelayed
    <3>3. PrefixDownloaded' /\ HaveAllSound'
      BY <1>a, <1>b, <2>4 DEF PrefixDownloaded, HaveAllSound, VideoPieces, UpdaterPost, PostDelayed
    <3>4. QED
      BY <3>1, <3>2, <3>3
  <2>5. QED
    BY <1>11, <2>1, <2>2, <2>3, <2>4 DEF Updater
<1>12. CASE ReloadVideo
  <2>1. NothingBeforeLoad' /\ LoadedOnce'
    BY <1>a, <1>b, <1>12 DEF NothingBeforeLoad, LoadedOnce, ReloadVideo, CancelTask
  <2>2. ScansSound' /\ MonitorHeld'
    BY <1>a, <1>b, <1>12 DEF ScansSound, ScanSound, MonitorHeld, ReloadVideo, CancelTask
  <2>3. PrefixDownloaded' /\ HaveAllSound'
    BY <1>a, <1>b, <1>12 DEF PrefixDownloaded, HaveAllSound, VideoPieces, ReloadVideo, CancelTask
  <2>4. QED
    BY <2>1, <2>2, <2>3
<1>13. CASE Destroy
  <2>1. NothingBeforeLoad' /\ LoadedOnce'
    BY <1>a, <1>b, <1>13 DEF NothingBeforeLoad, LoadedOnce, Destroy, CancelTask, RemoveCallbacks
  <2>2. ScansSound' /\ MonitorHeld'
    BY <1>a, <1>b, <1>13 DEF ScansSound, ScanSound, MonitorHeld, Destroy, CancelTask, RemoveCallbacks
  <2>3. PrefixDownloaded' /\ HaveAllSound'
    BY <1>a, <1>b, <1>13 DEF PrefixDownloaded, HaveAllSound, VideoPieces, Destroy, CancelTask, RemoveCallbacks
  <2>4. QED
    BY <2>1, <2>2, <2>3
<1>14. CASE StopSet
  <2>1. NothingBeforeLoad' /\ LoadedOnce'
    BY <1>a, <1>b, <1>14 DEF NothingBeforeLoad, LoadedOnce, StopSet
  <2>2. ScansSound' /\ MonitorHeld'
    BY <1>a, <1>b, <1>14 DEF ScansSound, ScanSound, MonitorHeld, StopSet
  <2>3. PrefixDownloaded' /\ HaveAllSound'
    BY <1>a, <1>b, <1>14 DEF PrefixDownloaded, HaveAllSound, VideoPieces, StopSet
  <2>4. QED
    BY <2>1, <2>2, <2>3
<1>15. ASSUME NEW p \in Pieces, Download(p) PROVE Bookkeeping'
  <2>1. NothingBeforeLoad' /\ LoadedOnce'
    BY <1>a, <1>b, <1>15 DEF NothingBeforeLoad, LoadedOnce, Download
  <2>2. ScansSound' /\ MonitorHeld'
    BY <1>a, <1>b, <1>15 DEF ScansSound, ScanSound, MonitorHeld, Download
  <2>3. PrefixDownloaded' /\ HaveAllSound'
    BY <1>a, <1>b, <1>15 DEF PrefixDownloaded, HaveAllSound, VideoPieces, Download
  <2>4. QED
    BY <2>1, <2>2, <2>3
<1>16. CASE LoseHandle
  <2>1. NothingBeforeLoad' /\ LoadedOnce'
    BY <1>a, <1>b, <1>16 DEF NothingBeforeLoad, LoadedOnce, LoseHandle
  <2>2. ScansSound' /\ MonitorHeld'
    BY <1>a, <1>b, <1>16 DEF ScansSound, ScanSound, MonitorHeld, LoseHandle
  <2>3. PrefixDownloaded' /\ HaveAllSound'
    BY <1>a, <1>b, <1>16 DEF PrefixDownloaded, HaveAllSound, VideoPieces, LoseHandle
  <2>4. QED
    BY <2>1, <2>2, <2>3
<1>17. QED
  BY <1>1, <1>2, <1>3, <1>4, <1>5, <1>6, <1>7, <1>8, <1>9, <1>10, <1>11, <1>12,
     <1>13, <1>14, <1>15, <1>16
     DEF Next, TaskStep, MainStep, Event, EngineStep

(* The inductive invariant of the two threads.                              *)
THEOREM Invariant == Spec => []IInv
  BY InitInv, NextInv, PTL DEF Spec

(* Every piece of the video before pieceIndex is downloaded, so what the    *)
(* player may reach below it can be read.                                   *)
THEOREM PrefixIsDownloaded == Spec => []PrefixDownloaded
<1>1. IInv => PrefixDownloaded
  BY DEF IInv
<1>2. QED
  BY <1>1, Invariant, PTL

(* The updater stops polling only when the whole video is downloaded.       *)
THEOREM HaveAllIsSound == Spec => []HaveAllSound
<1>1. IInv => HaveAllSound
  BY DEF IInv
<1>2. QED
  BY <1>1, Invariant, PTL

(* pieceIndex never moves back: an update starts from it, under the monitor,*)
(* and the main thread and the task cannot overwrite each other's progress. *)
THEOREM PieceIndexGrows == Spec => PieceIndexMonotone
<1>1. IInv /\ [Next]_vars => [pieceIndex' >= pieceIndex]_vars
  <2> SUFFICES ASSUME IInv, [Next]_vars, pieceIndex' # pieceIndex
               PROVE  pieceIndex' >= pieceIndex
    BY DEF IInv, TypeOK, FieldsOK
  <2>1. pieceIndex \in Nat /\ pieceIndex' \in Nat
    BY NextType DEF IInv, TypeOK, FieldsOK
  <2>2. (LoadGet /\ ~crashed) \/ \E t \in Threads : UpdaterSet(t)
    BY Distinct DEF Next, TaskStep, MainStep, Event, EngineStep, Updater, vars, fields,
       StartTask, LoadSet, ReloadGet, ReloadSet, CheckToStart, PublishProgress, WakeUp,
       RunUpdater, UpdaterGet, UpdaterScan, UpdaterPost, StopSet, ReloadVideo, Destroy,
       LoseHandle, Download
  <2>3. CASE LoadGet /\ ~crashed
    BY <2>1, <2>3 DEF LoadGet, IInv, LoadedOnce, NothingBeforeLoad
  <2>4. ASSUME NEW t \in Threads, UpdaterSet(t) PROVE pieceIndex' >= pieceIndex
    BY <2>1, <2>4 DEF UpdaterSet, PieceIndexAfter, IInv, ScansSound, ScanSound
  <2>5. QED
    BY <2>2, <2>3, <2>4
<1>2. QED
  BY <1>1, Invariant, PTL DEF Spec, PieceIndexMonotone

(* Lemma: a position before the end falls into one of the n pieces.         *)
LEMMA DivBound ==
  ASSUME NEW L \in Nat \ {0}, NEW a \in 0 .. L - 1, NEW n \in Nat \ {0}
  PROVE  (a * n) \div L \in 0 .. n - 1
<1>1. a * n \in Nat /\ a * n < L * n
  OBVIOUS
<1> DEFINE q == (a * n) \div L
<1>2. q \in Int /\ L * q <= a * n /\ a * n < L * q + L
  BY <1>1
<1>3. L * q < L * n
  BY <1>1, <1>2
<1>4. q < n
  BY <1>2, <1>3
<1>5. q >= 0
  BY <1>1, <1>2
<1>6. QED
  BY <1>2, <1>4, <1>5

(* A seek that canSeekTo allows in a video at the start of its torrent      *)
(* lands on a downloaded piece.                                             *)
THEOREM SeekIsSound == Spec => []SeekSound
<1>1. IInv => SeekSound
  <2> SUFFICES ASSUME IInv, firstPieceIndex = 0, lock = NoOne,
                      NEW position \in 0 .. MovieLength - 1,
                      CanSeekTo(MovieLength, position)
               PROVE  (position * (lastPieceIndex + 1)) \div MovieLength \in have
    BY DEF SeekSound
  <2> DEFINE piece == (position * (lastPieceIndex + 1)) \div MovieLength
  <2>1. lastPieceIndex \in Nat \cup {-1} /\ pieceIndex \in Nat /\ MovieLength \in Nat \ {0}
    BY PieceAssumption, CountAssumption DEF IInv, TypeOK, FieldsOK, Pieces
  <2>2. piece \in 0 .. lastPieceIndex
    <3>1. lastPieceIndex + 1 \in Nat \ {0}
      BY <2>1 DEF IInv, LoadedOnce
    <3>2. piece \in 0 .. (lastPieceIndex + 1) - 1
      BY <2>1, <3>1, DivBound
    <3>3. QED
      BY <2>1, <3>2
  <2>3. isHaveAllPieces \/ pieceIndex > piece
    BY <2>1 DEF CanSeekTo
  <2> HIDE DEF piece
  <2>4. isHaveAllPieces => piece \in have
    BY <2>2 DEF IInv, HaveAllSound, VideoPieces
  <2>5. pieceIndex > piece => piece \in have
    BY <2>1, <2>2 DEF IInv, PrefixDownloaded
  <2>6. QED
    BY <2>3, <2>4, <2>5 DEF piece
<1>2. QED
  BY <1>1, Invariant, PTL

-----------------------------------------------------------------------------
\* Until checkToStart has started the updater again, at most the one callback
\* that a reload failed to remove is alive.
ChainInv ==
    /\ messages + Chain(Task) + Chain(Main) <= 2
    /\ ~isStart => Chain(Task) = 0 /\ messages + Chain(Main) <= 1

(* Lemma: no step of the program starts a third chain of callbacks.         *)
LEMMA NextChains == TypeOK /\ ChainInv /\ [Next]_vars => ChainInv'
<1> SUFFICES ASSUME TypeOK, ChainInv, [Next]_vars PROVE ChainInv'
  OBVIOUS
<1> USE Distinct
<1> USE DEF vars, engine, fields, looper, locals, events, Goto, ChainInv, Chain, Updating,
            UpdaterLabels
<1>a. messages \in Nat /\ pc \in [Threads -> Labels] /\ isStart \in BOOLEAN
         /\ queued \in {"none", "load", "reload"}
  BY DEF TypeOK, FieldsOK, LocalsOK, FlagsOK, EventsOK
<1>1. CASE UNCHANGED vars
  BY <1>a, <1>1
<1>2. CASE StartTask
  BY <1>a, <1>2 DEF StartTask
<1>3. CASE LoadGet
  <2>1. messages' = 0 /\ ~isStart'
    BY <1>3 DEF LoadGet, RemoveCallbacks
  <2>2. pc'[Main] = pc[Main] /\ pc'[Task] \in {"load", "idle", "loadSet"}
    BY <1>a, <1>3 DEF LoadGet
  <2>3. QED
    BY <1>a, <2>1, <2>2
<1>4. CASE LoadSet
  BY <1>a, <1>4 DEF LoadSet
<1>5. CASE ReloadGet
  BY <1>a, <1>5 DEF ReloadGet, RemoveCallbacks, Crash
<1>6. CASE ReloadSet
  BY <1>a, <1>6 DEF ReloadSet
<1>7. CASE CheckToStart
  BY <1>a, <1>7 DEF CheckToStart
<1>8. CASE PublishProgress
  BY <1>a, <1>8 DEF PublishProgress
<1>9. CASE WakeUp
  BY <1>a, <1>9 DEF WakeUp
<1>10. CASE RunUpdater
  BY <1>a, <1>10 DEF RunUpdater
<1>11. ASSUME NEW t \in Threads, Updater(t) PROVE ChainInv'
  <2>1. CASE UpdaterGet(t)
    BY <1>a, <2>1 DEF UpdaterGet
  <2>2. CASE UpdaterScan(t)
    BY <1>a, <2>2 DEF UpdaterScan
  <2>3. CASE UpdaterSet(t)
    BY <1>a, <2>3 DEF UpdaterSet
  <2>4. CASE UpdaterPost(t)
    BY <1>a, <2>4 DEF UpdaterPost, PostDelayed
  <2>5. QED
    BY <1>11, <2>1, <2>2, <2>3, <2>4 DEF Updater
<1>12. CASE ReloadVideo
  BY <1>a, <1>12 DEF ReloadVideo, CancelTask
<1>13. CASE Destroy
  BY <1>a, <1>13 DEF Destroy, CancelTask, RemoveCallbacks
<1>14. CASE StopSet
  BY <1>a, <1>14 DEF StopSet
<1>15. ASSUME NEW p \in Pieces, Download(p) PROVE ChainInv'
  BY <1>a, <1>15 DEF Download
<1>16. CASE LoseHandle
  BY <1>a, <1>16 DEF LoseHandle
<1>17. QED
  BY <1>1, <1>2, <1>3, <1>4, <1>5, <1>6, <1>7, <1>8, <1>9, <1>10, <1>11, <1>12,
     <1>13, <1>14, <1>15, <1>16
     DEF Next, TaskStep, MainStep, Event, EngineStep

(* However often the video is reloaded, at most two chains of updater       *)
(* callbacks are alive.                                                     *)
THEOREM TwoChainsAtMost == Spec => []AtMostTwoChains
<1>1. Init => ChainInv
  BY Distinct DEF Init, ChainInv, Chain, Updating, UpdaterLabels
<1>2. ChainInv => AtMostTwoChains
  BY DEF ChainInv, AtMostTwoChains
<1>3. QED
  BY <1>1, <1>2, TypeCorrect, NextChains, PTL DEF Spec

-----------------------------------------------------------------------------
(* The order in which the pieces are requested: whatever array of           *)
(* priorities is written back, however old it is, every piece it requests   *)
(* was rightly requested, and still is.                                     *)

\* The pieces of the video before i that h, a set of pieces, does not have.
Missing(f, h, i) == {q \in f .. i - 1 : q \notin h}

\* A piece may be requested if load or reload has prepared it, or in its turn.
InTurn(p) ==
    /\ p \in VideoPieces
    /\ p \in have \/ Cardinality(Missing(firstPieceIndex, have, p)) < ACTIVE_PIECE_COUNT

Allowed(p) == p \in PreparedPieces \/ InTurn(p)

Ordered(a) == \A p \in Pieces : a[p] # DONT_DOWNLOAD => Allowed(p)

\* The pieces that reload adds, before it has counted them.
Widened == {lastPieceIndex - cPreparePieceCount, firstPieceIndex + cPreparePieceCount}

\* The loop counts the missing pieces that it passes.
Counted(t) ==
    pc[t] = "updaterScan" =>
        Cardinality(Missing(firstPieceIndex, have, scan[t].i)) <= scan[t].count

\* Of the arrays of the threads that are going to be written.
ArraysOrdered ==
    /\ pc[Task] = "loadSet" => Ordered(buf[Task])
    /\ pc[Task] \notin {"load", "loadSet"} => Ordered(prio)
    /\ pc[Task] = "reloadSet" =>
          \A p \in Pieces : buf[Task][p] # DONT_DOWNLOAD => Allowed(p) \/ p \in Widened
    /\ \A t \in Threads : pc[t] = "updaterScan" => Ordered(buf[t])

\* The updater waits for load, and stop belongs to the end.
Quiet ==
    /\ pc[Task] = "loadSet" => messages = 0 /\ pc[Main] \in {"idle", "stopSet"}
    /\ pc[Main] = "stopSet" => destroyed

OrderInv ==
    /\ Quiet
    /\ firstPieceIndex # -1 =>
          /\ firstPieceIndex <= pieceIndex
          /\ \A t \in Threads : Counted(t)
          /\ handle /\ ~destroyed => ArraysOrdered

-----------------------------------------------------------------------------
(* Lemma: there are finitely many missing pieces before any piece.          *)
LEMMA MissingFinite ==
  ASSUME NEW f \in Int, NEW i \in Int, NEW h
  PROVE  IsFiniteSet(Missing(f, h, i)) /\ Cardinality(Missing(f, h, i)) \in Nat
<1>1. IsFiniteSet(f .. i - 1)
  BY FS_Interval
<1>2. IsFiniteSet(Missing(f, h, i))
  BY <1>1, FS_Subset DEF Missing
<1>3. QED
  BY <1>2, FS_CardinalityType

(* Lemma: fewer are missing when more are there.                            *)
LEMMA MissingFewer ==
  ASSUME NEW f \in Int, NEW i \in Int, NEW g, NEW h, h \subseteq g
  PROVE  Cardinality(Missing(f, g, i)) <= Cardinality(Missing(f, h, i))
<1>1. Missing(f, g, i) \subseteq Missing(f, h, i)
  BY DEF Missing
<1>2. QED
  BY <1>1, MissingFinite, FS_Subset

(* Lemma: one piece further, at most one more is missing.                   *)
LEMMA MissingNext ==
  ASSUME NEW f \in Int, NEW i \in Int, NEW h
  PROVE  /\ Cardinality(Missing(f, h, i + 1)) <= Cardinality(Missing(f, h, i)) + 1
         /\ i \in h => Missing(f, h, i + 1) = Missing(f, h, i)
<1>1. Missing(f, h, i + 1) \subseteq Missing(f, h, i) \cup {i}
  BY DEF Missing
<1>2. IsFiniteSet(Missing(f, h, i)) /\ Cardinality(Missing(f, h, i)) \in Nat
  BY MissingFinite
<1>3. /\ IsFiniteSet(Missing(f, h, i) \cup {i})
      /\ Cardinality(Missing(f, h, i) \cup {i}) <= Cardinality(Missing(f, h, i)) + 1
  BY <1>2, FS_AddElement
<1>4. Cardinality(Missing(f, h, i + 1)) <= Cardinality(Missing(f, h, i) \cup {i})
  BY <1>1, <1>3, FS_Subset
<1>5. Cardinality(Missing(f, h, i + 1)) \in Nat /\ Cardinality(Missing(f, h, i) \cup {i}) \in Nat
  BY <1>3, MissingFinite, FS_CardinalityType
<1>6. i \in h => Missing(f, h, i + 1) = Missing(f, h, i)
  BY DEF Missing
<1>7. QED
  BY <1>2, <1>3, <1>4, <1>5, <1>6

\* A step that leaves the video, adds to the pieces and widens what is prepared.
Onward ==
    /\ UNCHANGED <<firstPieceIndex, lastPieceIndex>>
    /\ cPreparePieceCount' >= cPreparePieceCount
    /\ have \subseteq have'

(* Lemma: what may be requested may still be after such a step.             *)
LEMMA AllowedStays ==
  ASSUME TypeOK, TypeOK', Onward
  PROVE  \A p \in Pieces : Allowed(p) => Allowed(p)'
<1> SUFFICES ASSUME NEW p \in Pieces, Allowed(p) PROVE Allowed(p)'
  OBVIOUS
<1> USE PieceAssumption, CountAssumption
<1>1. /\ firstPieceIndex \in Int /\ lastPieceIndex \in Int /\ p \in Int
      /\ cPreparePieceCount \in Nat /\ cPreparePieceCount' \in Nat
  BY DEF TypeOK, FieldsOK, Pieces
<1>2. CASE p \in PreparedPieces
  <2> DEFINE c == cPreparePieceCount
             d == cPreparePieceCount'
             f == firstPieceIndex
             l == lastPieceIndex
  <2>1. c <= d /\ firstPieceIndex' = f /\ lastPieceIndex' = l
    BY DEF Onward
  <2>2. p \in Tail(l, c) \/ p \in Head(f, PREPARE_PIECE_COUNT + 2) \/ p \in Head(f, c)
    BY <1>2 DEF PreparedPieces
  <2> HIDE DEF c, d, f, l
  <2>3. f \in Int /\ l \in Int /\ c \in Nat /\ d \in Nat
    BY <1>1 DEF c, d, f, l
  <2>4. p \in Tail(l, c) => p \in Tail(l, d)
    BY <1>1, <2>1, <2>3 DEF Tail
  <2>5. p \in Head(f, c) => p \in Head(f, d)
    BY <1>1, <2>1, <2>3 DEF Head
  <2>6. p \in Tail(l, d) \cup Head(f, PREPARE_PIECE_COUNT + 2) \cup Head(f, d)
    BY <2>2, <2>4, <2>5
  <2>7. p \in PreparedPieces'
    BY <2>1, <2>6 DEF PreparedPieces, c, d, f, l
  <2>8. QED
    BY <2>7 DEF Allowed
<1>3. CASE InTurn(p)
  <2>1. p \in VideoPieces'
    BY <1>3 DEF InTurn, Onward, VideoPieces
  <2>2. CASE p \in have
    BY <2>1, <2>2 DEF Onward, Allowed, InTurn
  <2>3. CASE Cardinality(Missing(firstPieceIndex, have, p)) < ACTIVE_PIECE_COUNT
    <3>1. Cardinality(Missing(firstPieceIndex, have', p))
             <= Cardinality(Missing(firstPieceIndex, have, p))
      BY <1>1, MissingFewer DEF Onward
    <3>2. /\ Cardinality(Missing(firstPieceIndex, have', p)) \in Nat
          /\ Cardinality(Missing(firstPieceIndex, have, p)) \in Nat
      BY <1>1, MissingFinite
    <3>3. Cardinality(Missing(firstPieceIndex, have', p)) < ACTIVE_PIECE_COUNT
      BY <2>3, <3>1, <3>2
    <3>4. QED
      BY <2>1, <3>3 DEF Onward, Allowed, InTurn
  <2>4. QED
    BY <1>3, <2>2, <2>3 DEF InTurn
<1>4. QED
  BY <1>2, <1>3 DEF Allowed

(* Lemma: and what the loop has counted is still enough.                    *)
LEMMA CountStays ==
  ASSUME TypeOK, TypeOK', Onward, NEW t \in Threads, Counted(t),
         pc'[t] = "updaterScan" => pc[t] = "updaterScan", scan'[t] = scan[t]
  PROVE  Counted(t)'
<1>1. firstPieceIndex \in Int /\ scan[t].i \in Int /\ scan[t].count \in Int
  BY PieceAssumption DEF TypeOK, FieldsOK, LocalsOK, Pieces
<1>2. Cardinality(Missing(firstPieceIndex, have', scan[t].i))
         <= Cardinality(Missing(firstPieceIndex, have, scan[t].i))
  BY <1>1, MissingFewer DEF Onward
<1>3. /\ Cardinality(Missing(firstPieceIndex, have', scan[t].i)) \in Nat
      /\ Cardinality(Missing(firstPieceIndex, have, scan[t].i)) \in Nat
  BY <1>1, MissingFinite
<1>4. QED
  BY <1>1, <1>2, <1>3 DEF Counted, Onward

-----------------------------------------------------------------------------
(* Lemma: the pieces load asks for are the prepared ones.                   *)
LEMMA LoadedOrdered ==
  ASSUME TypeOK', NEW f \in Pieces, NEW l \in Pieces,
         firstPieceIndex' = f, lastPieceIndex' = l, cPreparePieceCount' = PREPARE_PIECE_COUNT,
         NEW p \in Pieces, LoadedPriorities(f, l)[p] # DONT_DOWNLOAD
  PROVE  Allowed(p)'
<1>1. p \in Head(f, PREPARE_PIECE_COUNT + 2) \/ p \in Tail(l, PREPARE_PIECE_COUNT)
  BY DEF LoadedPriorities
<1>2. p \in PreparedPieces'
  BY <1>1 DEF PreparedPieces, Tail, Head
<1>3. QED
  BY <1>2 DEF Allowed

(* Lemma: the updater waits for load, and stop belongs to the end.           *)
LEMMA QuietStays == IInv /\ Quiet /\ [Next]_vars => Quiet'
<1> SUFFICES ASSUME IInv, Quiet, [Next]_vars PROVE Quiet'
  OBVIOUS
<1> USE Distinct
<1> USE DEF vars, engine, fields, looper, locals, events, Goto, Quiet
<1>a. messages \in Nat /\ pc \in [Threads -> Labels] /\ queued \in {"none", "load", "reload"}
  BY DEF IInv, TypeOK, FieldsOK, LocalsOK, EventsOK
<1>1. CASE UNCHANGED vars
  BY <1>1
<1>2. CASE StartTask
  BY <1>a, <1>2 DEF StartTask
<1>3. CASE LoadGet /\ ~crashed
  <2>1. messages' = 0 /\ pc[Main] = "idle"
    BY <1>3 DEF LoadGet, RemoveCallbacks, IInv, LoadedOnce, NothingBeforeLoad
  <2>2. pc'[Main] = pc[Main]
    BY <1>a, <1>3 DEF LoadGet
  <2>3. QED
    BY <2>1, <2>2
<1>4. CASE LoadSet
  BY <1>a, <1>4 DEF LoadSet
<1>5. CASE ReloadGet
  BY <1>a, <1>5 DEF ReloadGet
<1>6. CASE ReloadSet
  BY <1>a, <1>6 DEF ReloadSet
<1>7. CASE CheckToStart
  BY <1>a, <1>7 DEF CheckToStart
<1>8. CASE PublishProgress
  BY <1>a, <1>8 DEF PublishProgress
<1>9. CASE WakeUp
  BY <1>a, <1>9 DEF WakeUp
<1>10. CASE RunUpdater
  BY <1>a, <1>10 DEF RunUpdater
<1>11. ASSUME NEW t \in Threads, Updater(t) PROVE Quiet'
  <2>1. CASE UpdaterGet(t)
    BY <1>a, <2>1 DEF UpdaterGet
  <2>2. CASE UpdaterScan(t)
    BY <1>a, <2>2 DEF UpdaterScan
  <2>3. CASE UpdaterSet(t)
    BY <1>a, <2>3 DEF UpdaterSet
  <2>4. CASE UpdaterPost(t)
    BY <1>a, <2>4 DEF UpdaterPost
  <2>5. QED
    BY <1>11, <2>1, <2>2, <2>3, <2>4 DEF Updater
<1>12. CASE ReloadVideo
  BY <1>a, <1>12 DEF ReloadVideo
<1>13. CASE Destroy
  BY <1>a, <1>13 DEF Destroy, RemoveCallbacks
<1>14. CASE StopSet
  BY <1>a, <1>14 DEF StopSet
<1>15. ASSUME NEW p \in Pieces, Download(p) PROVE Quiet'
  BY <1>a, <1>15 DEF Download
<1>16. CASE LoseHandle
  BY <1>a, <1>16 DEF LoseHandle
<1>17. QED
  BY <1>1, <1>2, <1>3, <1>4, <1>5, <1>6, <1>7, <1>8, <1>9, <1>10, <1>11, <1>12,
     <1>13, <1>14, <1>15, <1>16
     DEF Next, TaskStep, MainStep, Event, EngineStep

\* A step that enters none of the places where an array waits to be written,
\* and writes none.
WritesNothing ==
    /\ UNCHANGED <<prio, buf, scan, pieceIndex, cPreparePieceCount>>
    /\ handle' => handle
    /\ destroyed => destroyed'
    /\ \A t \in Threads : pc'[t] = "updaterScan" => pc[t] = "updaterScan"
    /\ pc'[Task] = "reloadSet" => pc[Task] = "reloadSet"
    /\ pc'[Task] # "loadSet"
    /\ pc'[Task] # "load" => pc[Task] \notin {"load", "loadSet"}

(* Lemma: such a step keeps the order.                                      *)
LEMMA StillOrdered ==
  ASSUME TypeOK, TypeOK', OrderInv, Quiet', Onward, WritesNothing
  PROVE  OrderInv'
<1> USE Distinct
<1> SUFFICES ASSUME firstPieceIndex' # -1
             PROVE  /\ firstPieceIndex' <= pieceIndex'
                    /\ \A t \in Threads : Counted(t)'
                    /\ handle' /\ ~destroyed' => ArraysOrdered'
  BY DEF OrderInv
<1>1. firstPieceIndex # -1 /\ firstPieceIndex' <= pieceIndex'
  BY DEF OrderInv, Onward, WritesNothing
<1>2. ASSUME NEW t \in Threads PROVE Counted(t)'
  BY <1>1, CountStays DEF OrderInv, WritesNothing
<1>3. ASSUME handle', ~destroyed' PROVE ArraysOrdered'
  <2>1. ArraysOrdered
    BY <1>1, <1>3 DEF OrderInv, WritesNothing
  <2>2. \A p \in Pieces : Allowed(p) => Allowed(p)'
    BY AllowedStays
  <2>3. pc'[Task] \notin {"load", "loadSet"} => Ordered(prio)'
    BY <2>1, <2>2 DEF ArraysOrdered, Ordered, WritesNothing
  <2>4. \A t \in Threads : pc'[t] = "updaterScan" => Ordered(buf[t])'
    BY <2>1, <2>2 DEF ArraysOrdered, Ordered, WritesNothing
  <2>5. Widened' = Widened
    BY DEF Widened, Onward, WritesNothing
  <2>6. pc'[Task] = "reloadSet" =>
          \A p \in Pieces : buf'[Task][p] # DONT_DOWNLOAD => Allowed(p)' \/ p \in Widened'
    BY <2>1, <2>2, <2>5 DEF ArraysOrdered, WritesNothing
  <2>7. QED
    BY <2>3, <2>4, <2>6 DEF ArraysOrdered, WritesNothing
<1>4. QED
  BY <1>1, <1>2, <1>3

(* Lemma: every step keeps the order.                                       *)
LEMMA NextOrder == IInv /\ IInv' /\ OrderInv /\ [Next]_vars => OrderInv'
<1> SUFFICES ASSUME IInv, IInv', OrderInv, [Next]_vars PROVE OrderInv'
  OBVIOUS
<1> USE PieceAssumption, CountAssumption, Distinct
<1> USE DEF vars, engine, fields, looper, locals, events, Goto
<1>t. TypeOK /\ TypeOK'
  BY DEF IInv
<1>f. FieldsOK /\ LocalsOK /\ EventsOK /\ FlagsOK /\ FieldsOK' /\ LocalsOK'
  BY <1>t DEF TypeOK
<1>q. Quiet
  BY DEF OrderInv
<1>1. CASE UNCHANGED vars
  BY <1>1 DEF OrderInv, Quiet, Counted, ArraysOrdered, Ordered, Allowed, InTurn, Widened,
              PreparedPieces, VideoPieces
<1>2. CASE LoadGet /\ ~crashed
  <2>1. pc[Task] = "load" /\ firstPieceIndex = -1 /\ pc[Main] = "idle"
    BY <1>2 DEF IInv, LoadedOnce, NothingBeforeLoad, LoadGet
  <2>2. messages' = 0 /\ pc'[Main] = "idle" /\ pc'[Task] \in {"load", "idle", "loadSet"}
    BY <1>2, <1>f, <2>1 DEF LoadGet, RemoveCallbacks, LocalsOK
  <2>3. CASE firstPieceIndex' = -1
    BY <2>2, <2>3 DEF OrderInv, Quiet
  <2>4. CASE firstPieceIndex' # -1
    <3>1. PICK f \in Pieces, l \in Pieces :
             /\ firstPieceIndex' = f /\ lastPieceIndex' = l /\ pieceIndex' = f
             /\ pc'[Task] = "loadSet" => buf'[Task] = LoadedPriorities(f, l)
      BY <1>2, <1>f, <2>1, <2>4 DEF LoadGet, LocalsOK
    <3>2. cPreparePieceCount' = PREPARE_PIECE_COUNT
      BY <1>2 DEF LoadGet
    <3>3. pc'[Task] = "loadSet" => Ordered(buf[Task])'
      BY <1>t, <3>1, <3>2, LoadedOrdered DEF Ordered
    <3>4. pc'[Task] # "idle"
      BY <1>2, <1>f, <2>1, <2>4 DEF LoadGet, LocalsOK
    <3>5. ArraysOrdered'
      BY <2>2, <3>3, <3>4 DEF ArraysOrdered
    <3>6. firstPieceIndex' <= pieceIndex'
      BY <3>1 DEF Pieces
    <3>7. QED
      BY <2>2, <3>5, <3>6 DEF OrderInv, Quiet, Counted
  <2>5. QED
    BY <2>3, <2>4
<1>x. Quiet'
  BY <1>q, QuietStays
<1>p. \A p \in Pieces : Onward /\ Allowed(p) => Allowed(p)'
  BY <1>t, AllowedStays
<1>3. CASE StartTask \/ CheckToStart \/ PublishProgress \/ WakeUp
  <2>1. Onward
    BY <1>3, <1>f DEF Onward, FieldsOK, StartTask, CheckToStart, PublishProgress, WakeUp
  <2>2. UNCHANGED <<prio, buf, scan, pieceIndex, cPreparePieceCount, handle, destroyed>>
    BY <1>3 DEF StartTask, CheckToStart, PublishProgress, WakeUp
  <2>3. /\ pc'[Main] = pc[Main]
        /\ pc[Task] \in {"idle", "check", "progress", "sleep"}
        /\ pc'[Task] \notin {"updaterScan", "loadSet", "reloadSet"}
    BY <1>3, <1>f DEF LocalsOK, EventsOK, StartTask, CheckToStart, PublishProgress, WakeUp
  <2>4. WritesNothing
    BY <2>2, <2>3 DEF WritesNothing
  <2>5. QED
    BY <1>t, <1>x, <2>1, <2>4, StillOrdered
<1>4. CASE LoadSet
  <2>1. Onward /\ pc[Task] = "loadSet" /\ pc'[Main] = pc[Main] /\ pc'[Task] = "check"
    BY <1>4, <1>f DEF Onward, FieldsOK, LocalsOK, LoadSet
  <2>2. UNCHANGED <<buf, scan, pieceIndex, handle, destroyed>>
    BY <1>4 DEF LoadSet
  <2> SUFFICES ASSUME firstPieceIndex' # -1
               PROVE  /\ firstPieceIndex' <= pieceIndex'
                      /\ \A t \in Threads : Counted(t)'
                      /\ handle' /\ ~destroyed' => ArraysOrdered'
    BY <1>x DEF OrderInv
  <2>3. firstPieceIndex # -1 /\ firstPieceIndex' <= pieceIndex'
    BY <2>1, <2>2 DEF OrderInv, Onward
  <2>4. \A t \in Threads : pc'[t] # "updaterScan"
    BY <1>q, <2>1 DEF Quiet
  <2>5. ASSUME handle', ~destroyed' PROVE ArraysOrdered'
    <3>1. prio' = buf[Task]
      BY <1>4, <2>2, <2>5 DEF LoadSet, SetPiecePriorities
    <3>2. Ordered(buf[Task])
      BY <2>1, <2>2, <2>3, <2>5 DEF OrderInv, ArraysOrdered
    <3>3. Ordered(prio)'
      BY <1>p, <2>1, <3>1, <3>2 DEF Ordered
    <3>4. QED
      BY <2>1, <2>4, <3>3 DEF ArraysOrdered
  <2>6. QED
    BY <2>3, <2>4, <2>5 DEF Counted
<1>5. CASE ReloadGet
  <2>1. /\ Onward /\ pc[Task] = "reload" /\ pc'[Main] = pc[Main]
        /\ pc'[Task] \in {"reload", "check", "reloadSet"}
        /\ buf'[Main] = buf[Main]
    BY <1>5, <1>f DEF Onward, FieldsOK, LocalsOK, ReloadGet
  <2>2. UNCHANGED <<prio, scan, pieceIndex, cPreparePieceCount, handle, destroyed>>
    BY <1>5 DEF ReloadGet
  <2> SUFFICES ASSUME firstPieceIndex' # -1
               PROVE  /\ firstPieceIndex' <= pieceIndex'
                      /\ \A t \in Threads : Counted(t)'
                      /\ handle' /\ ~destroyed' => ArraysOrdered'
    BY <1>x DEF OrderInv
  <2>3. firstPieceIndex # -1 /\ firstPieceIndex' <= pieceIndex'
    BY <2>1, <2>2 DEF OrderInv, Onward
  <2>4. ASSUME NEW t \in Threads PROVE Counted(t)'
    BY <1>t, <2>1, <2>2, <2>3, CountStays DEF OrderInv
  <2>5. ASSUME handle', ~destroyed' PROVE ArraysOrdered'
    <3>1. ArraysOrdered /\ Ordered(prio)
      BY <2>1, <2>2, <2>3, <2>5 DEF OrderInv, ArraysOrdered
    <3>2. Ordered(prio)'
      BY <1>p, <2>1, <2>2, <3>1 DEF Ordered
    <3>3. \A t \in Threads : pc'[t] = "updaterScan" => Ordered(buf[t])'
      BY <1>p, <2>1, <3>1 DEF ArraysOrdered, Ordered
    <3>4. ASSUME pc'[Task] = "reloadSet", NEW p \in Pieces, buf'[Task][p] # DONT_DOWNLOAD
          PROVE  Allowed(p)' \/ p \in Widened'
      <4>1. Widened' = Widened
        BY <2>1, <2>2 DEF Widened, Onward
      <4>2. p \in Widened \/ buf'[Task][p] = prio[p]
        BY <1>5, <1>f, <1>t, <2>1, <3>4
           DEF ReloadGet, ReloadedPieces, Widened, LocalsOK, TypeOK, EngineOK
      <4>3. QED
        BY <1>p, <2>1, <3>1, <3>4, <4>1, <4>2 DEF Ordered
    <3>5. QED
      BY <2>1, <3>2, <3>3, <3>4 DEF ArraysOrdered
  <2>6. QED
    BY <2>3, <2>4, <2>5
<1>6. CASE ReloadSet
  <2>1. /\ Onward /\ pc[Task] = "reloadSet" /\ pc'[Main] = pc[Main] /\ pc'[Task] = "check"
        /\ cPreparePieceCount' = cPreparePieceCount + 1
    BY <1>6, <1>f DEF Onward, FieldsOK, LocalsOK, ReloadSet
  <2>2. UNCHANGED <<buf, scan, pieceIndex, handle, destroyed>>
    BY <1>6 DEF ReloadSet
  <2> SUFFICES ASSUME firstPieceIndex' # -1
               PROVE  /\ firstPieceIndex' <= pieceIndex'
                      /\ \A t \in Threads : Counted(t)'
                      /\ handle' /\ ~destroyed' => ArraysOrdered'
    BY <1>x DEF OrderInv
  <2>3. firstPieceIndex # -1 /\ firstPieceIndex' <= pieceIndex'
    BY <2>1, <2>2 DEF OrderInv, Onward
  <2>4. ASSUME NEW t \in Threads PROVE Counted(t)'
    BY <1>t, <2>1, <2>2, <2>3, CountStays DEF OrderInv
  <2>5. ASSUME handle', ~destroyed' PROVE ArraysOrdered'
    <3>1. prio' = buf[Task] /\ ArraysOrdered
      BY <1>6, <2>2, <2>3, <2>5 DEF ReloadSet, SetPiecePriorities, OrderInv
    <3>2. ASSUME NEW p \in Pieces, p \in Widened PROVE Allowed(p)'
      <4>1. /\ lastPieceIndex \in Int /\ firstPieceIndex \in Int /\ cPreparePieceCount \in Nat
            /\ p \in Int
        BY <1>f DEF FieldsOK, Pieces
      <4>2. \/ p \in Tail(lastPieceIndex, cPreparePieceCount + 1)
            \/ p \in Head(firstPieceIndex, cPreparePieceCount + 1)
        BY <3>2, <4>1 DEF Widened, Tail, Head
      <4>3. p \in PreparedPieces'
        BY <2>1, <4>2 DEF PreparedPieces, Onward
      <4>4. QED
        BY <4>3 DEF Allowed
    <3>3. Ordered(prio)'
      BY <1>p, <2>1, <3>1, <3>2 DEF Ordered, ArraysOrdered
    <3>4. \A t \in Threads : pc'[t] = "updaterScan" => Ordered(buf[t])'
      BY <1>p, <2>1, <2>2, <3>1 DEF ArraysOrdered, Ordered
    <3>5. QED
      BY <2>1, <3>3, <3>4 DEF ArraysOrdered
  <2>6. QED
    BY <2>3, <2>4, <2>5
<1>7. CASE RunUpdater \/ ReloadVideo \/ LoseHandle \/ \E p \in Pieces : Download(p)
  <2>1. Onward
    BY <1>7, <1>f DEF Onward, FieldsOK, RunUpdater, ReloadVideo, LoseHandle, Download
  <2>2. /\ UNCHANGED <<prio, buf, scan, pieceIndex, cPreparePieceCount, destroyed>>
        /\ handle' => handle
    BY <1>7 DEF RunUpdater, ReloadVideo, LoseHandle, Download
  <2>3. /\ pc'[Task] = pc[Task]
        /\ pc'[Main] = pc[Main] \/ pc'[Main] = "updaterGet"
    BY <1>7, <1>f DEF LocalsOK, RunUpdater, ReloadVideo, LoseHandle, Download
  <2>4. CASE pc[Task] # "loadSet"
    <3>1. WritesNothing
      BY <2>2, <2>3, <2>4 DEF WritesNothing
    <3>2. QED
      BY <1>t, <1>x, <2>1, <3>1, StillOrdered
  <2>5. CASE pc[Task] = "loadSet"
    <3>1. pc'[Main] # "updaterScan" /\ pc'[Task] = "loadSet"
      BY <1>x, <2>3, <2>5 DEF Quiet
    <3>2. firstPieceIndex' # -1 /\ handle' /\ ~destroyed' => Ordered(buf[Task])'
      BY <1>p, <2>1, <2>2, <2>5 DEF OrderInv, ArraysOrdered, Ordered, Onward
    <3>3. firstPieceIndex' # -1 => firstPieceIndex' <= pieceIndex'
      BY <2>1, <2>2 DEF OrderInv, Onward
    <3>4. QED
      BY <1>x, <3>1, <3>2, <3>3 DEF OrderInv, Counted, ArraysOrdered
  <2>6. QED
    BY <2>4, <2>5
<1>8. CASE Destroy \/ StopSet
  <2>1. Onward
    BY <1>8, <1>f DEF Onward, FieldsOK, Destroy, StopSet
  <2>2. UNCHANGED <<scan, pieceIndex>> /\ destroyed'
    BY <1>8, <1>q DEF Destroy, StopSet, Quiet
  <2>3. pc'[Task] = pc[Task] /\ (pc'[Main] = pc[Main] \/ pc'[Main] \in {"stopSet", "idle"})
    BY <1>8, <1>f DEF LocalsOK, Destroy, StopSet
  <2>4. ASSUME NEW t \in Threads, firstPieceIndex' # -1 PROVE Counted(t)'
    BY <1>t, <2>1, <2>2, <2>3, <2>4, CountStays DEF OrderInv, Onward
  <2>5. QED
    BY <1>x, <2>1, <2>2, <2>4 DEF OrderInv, Onward
<1>9. ASSUME NEW t \in Threads, Updater(t), ~crashed PROVE OrderInv'
  <2>0. Onward
    BY <1>9, <1>f DEF Onward, FieldsOK, Updater, UpdaterGet, UpdaterScan, UpdaterSet, UpdaterPost
  <2> SUFFICES ASSUME firstPieceIndex' # -1
               PROVE  /\ firstPieceIndex' <= pieceIndex'
                      /\ \A u \in Threads : Counted(u)'
                      /\ handle' /\ ~destroyed' => ArraysOrdered'
    BY <1>x DEF OrderInv
  <2>1. /\ firstPieceIndex # -1 /\ firstPieceIndex' = firstPieceIndex
        /\ firstPieceIndex <= pieceIndex /\ \A u \in Threads : Counted(u)
    BY <2>0 DEF OrderInv, Onward
  <2>2. pc[t] \in {"updaterGet", "updaterScan", "updaterPost"}
    BY <1>9 DEF Updater, UpdaterGet, UpdaterScan, UpdaterSet, UpdaterPost
  <2>3. pc[Task] \notin {"load", "loadSet"}
    BY <1>9, <1>q, <2>1, <2>2 DEF Quiet, IInv, LoadedOnce
  <2>4. UNCHANGED <<handle, destroyed, have, cPreparePieceCount>>
    BY <1>9 DEF Updater, UpdaterGet, UpdaterScan, UpdaterSet, UpdaterPost
  <2>5. handle' /\ ~destroyed' => ArraysOrdered /\ Ordered(prio)
    BY <2>1, <2>3, <2>4 DEF OrderInv, ArraysOrdered
  <2>6. /\ \A u \in Threads : u # t => pc'[u] = pc[u] /\ buf'[u] = buf[u] /\ scan'[u] = scan[u]
        /\ pc'[t] \in {"updaterScan", "updaterPost", "progress", "idle"}
    BY <1>9, <1>f DEF LocalsOK, Updater, UpdaterGet, UpdaterScan, UpdaterSet, UpdaterPost
  <2>7. Widened' = Widened
    BY <2>0, <2>4 DEF Widened, Onward
  <2>8. ASSUME pc'[t] = "updaterScan" => Counted(t)' PROVE \A u \in Threads : Counted(u)'
    BY <1>t, <2>0, <2>1, <2>6, <2>8, CountStays DEF Counted
  <2>9. ASSUME handle', ~destroyed', Ordered(prio)', pc'[t] = "updaterScan" => Ordered(buf[t])'
        PROVE  ArraysOrdered'
    <3>1. \A u \in Threads : pc'[u] = "updaterScan" => Ordered(buf[u])'
      BY <1>p, <2>0, <2>5, <2>6, <2>9 DEF ArraysOrdered, Ordered
    <3>2. pc'[Task] # "loadSet"
      BY <2>3, <2>6
    <3>3. pc'[Task] = "reloadSet" =>
             \A p \in Pieces : buf'[Task][p] # DONT_DOWNLOAD => Allowed(p)' \/ p \in Widened'
      BY <1>p, <2>0, <2>5, <2>6, <2>7, <2>9 DEF ArraysOrdered
    <3>4. QED
      BY <2>9, <3>1, <3>2, <3>3 DEF ArraysOrdered
  <2>10. CASE UpdaterGet(t)
    <3>1. UNCHANGED <<pieceIndex, prio>>
      BY <2>10 DEF UpdaterGet
    <3>2. pc'[t] = "updaterScan" => buf'[t] = prio /\ scan'[t] = ScanStart
      BY <1>f, <2>10 DEF UpdaterGet, LocalsOK
    <3>3. Missing(firstPieceIndex, have, pieceIndex) = {}
      BY <2>1 DEF Missing, IInv, PrefixDownloaded
    <3>4. Cardinality(Missing(firstPieceIndex, have, pieceIndex)) = 0
      BY <3>3, FS_EmptySet
    <3>5. pc'[t] = "updaterScan" => Counted(t)'
      BY <2>1, <2>4, <3>2, <3>4 DEF Counted, ScanStart
    <3>6. handle' /\ ~destroyed' => Ordered(prio)'
      BY <1>p, <2>0, <2>5, <3>1 DEF Ordered
    <3>7. handle' /\ ~destroyed' /\ pc'[t] = "updaterScan" => Ordered(buf[t])'
      BY <1>p, <2>0, <2>5, <3>2 DEF Ordered
    <3>8. QED
      BY <2>1, <2>8, <2>9, <3>1, <3>5, <3>6, <3>7
  <2>11. CASE UpdaterScan(t)
    <3> DEFINE i == scan[t].i
    <3>1. /\ UNCHANGED <<pieceIndex, prio>> /\ pc[t] = "updaterScan"
          /\ i <= lastPieceIndex /\ scan[t].count < ACTIVE_PIECE_COUNT
      BY <2>11 DEF UpdaterScan, Scanning
    <3>2. firstPieceIndex \in Int /\ lastPieceIndex \in Int /\ i \in Nat /\ scan[t].count \in Nat
      <4>1. scan[t] \in [i : Nat, count : Nat, newIndex : Nat \cup {-1}]
        BY <1>f DEF LocalsOK
      <4>2. i \in Nat /\ scan[t].count \in Nat
        BY <4>1
      <4>3. firstPieceIndex \in Int /\ lastPieceIndex \in Int
        BY <1>f DEF FieldsOK, Pieces
      <4>4. QED
        BY <4>2, <4>3
    <3>3. firstPieceIndex <= i
      BY <1>f, <2>1, <3>1, <3>2 DEF IInv, ScansSound, ScanSound, FieldsOK
    <3>4. i \in VideoPieces
      BY <3>1, <3>2, <3>3 DEF VideoPieces
    <3>5. /\ Cardinality(Missing(firstPieceIndex, have, i + 1))
                 <= Cardinality(Missing(firstPieceIndex, have, i)) + 1
          /\ i \in have => Missing(firstPieceIndex, have, i + 1) = Missing(firstPieceIndex, have, i)
          /\ Cardinality(Missing(firstPieceIndex, have, i + 1)) \in Nat
          /\ Cardinality(Missing(firstPieceIndex, have, i)) \in Nat
      BY <3>2, MissingNext, MissingFinite
    <3>6. Cardinality(Missing(firstPieceIndex, have, i)) <= scan[t].count
      BY <2>1, <3>1 DEF Counted
    <3>7. CASE HavePiece(i)
      <4>1. scan'[t].i = i + 1 /\ scan'[t].count = scan[t].count /\ buf'[t] = buf[t]
        BY <1>f, <2>11, <3>7 DEF UpdaterScan, LocalsOK
      <4>2. Counted(t)'
        BY <2>1, <2>4, <3>5, <3>6, <3>7, <4>1 DEF Counted, HavePiece
      <4>3. handle' /\ ~destroyed' => Ordered(prio)' /\ Ordered(buf[t])'
        BY <1>p, <2>0, <2>5, <3>1, <4>1 DEF Ordered, ArraysOrdered
      <4>4. QED
        BY <2>1, <2>8, <2>9, <3>1, <4>2, <4>3
    <3>8. CASE ~HavePiece(i)
      <4>1. /\ scan'[t].i = i + 1 /\ scan'[t].count = scan[t].count + 1
            /\ \A p \in Pieces : p # i => buf'[t][p] = buf[t][p]
        BY <1>f, <2>11, <3>8 DEF UpdaterScan, LocalsOK
      <4>2. Counted(t)'
        BY <2>1, <2>4, <3>2, <3>5, <3>6, <4>1 DEF Counted
      <4>3. Allowed(i)
        BY <3>1, <3>2, <3>4, <3>5, <3>6 DEF Allowed, InTurn
      <4>4. handle' /\ ~destroyed' => Ordered(prio)' /\ Ordered(buf[t])'
        BY <1>p, <2>0, <2>5, <3>1, <4>1, <4>3 DEF Ordered, ArraysOrdered
      <4>5. QED
        BY <2>1, <2>8, <2>9, <3>1, <4>2, <4>4
    <3>9. QED
      BY <3>7, <3>8
  <2>12. CASE UpdaterSet(t)
    <3>1. pc[t] = "updaterScan" /\ pc'[t] = "updaterPost"
      BY <1>f, <2>12 DEF UpdaterSet, LocalsOK
    <3>2. firstPieceIndex' <= pieceIndex'
      BY <1>f, <2>1, <2>12, <3>1
         DEF UpdaterSet, PieceIndexAfter, IInv, ScansSound, ScanSound, FieldsOK, LocalsOK, Pieces
    <3>3. handle' => prio' = buf[t]
      BY <2>4, <2>12 DEF UpdaterSet, SetPiecePriorities
    <3>4. handle' /\ ~destroyed' => Ordered(prio)'
      BY <1>p, <2>0, <2>5, <3>1, <3>3 DEF Ordered, ArraysOrdered
    <3>5. QED
      BY <2>8, <2>9, <3>1, <3>2, <3>4
  <2>13. CASE UpdaterPost(t)
    <3>1. UNCHANGED <<pieceIndex, prio>> /\ pc'[t] # "updaterScan"
      BY <1>f, <2>13 DEF UpdaterPost, LocalsOK
    <3>2. handle' /\ ~destroyed' => Ordered(prio)'
      BY <1>p, <2>0, <2>5, <3>1 DEF Ordered
    <3>3. QED
      BY <2>1, <2>8, <2>9, <3>1, <3>2
  <2>14. QED
    BY <1>9, <2>10, <2>11, <2>12, <2>13 DEF Updater
<1>10. QED
  BY <1>1, <1>2, <1>3, <1>4, <1>5, <1>6, <1>7, <1>8, <1>9
     DEF Next, TaskStep, MainStep, Event, EngineStep

(* The order is kept, in the state and in every array that is going to be   *)
(* written, however old it is.                                              *)
THEOREM OrderIsKept == Spec => []OrderInv
<1>1. Init => OrderInv
  BY Distinct DEF Init, OrderInv, Quiet
<1>2. QED
  BY <1>1, Invariant, NextOrder, PTL DEF Spec

(* While the video plays, a piece that is requested and still missing is a  *)
(* prepared one, or fewer than ACTIVE_PIECE_COUNT pieces before it are      *)
(* missing, although the threads overwrite each other's arrays.             *)
THEOREM RequestsAreInOrder == Spec => []RequestedInOrder
<1>1. IInv /\ OrderInv => RequestedInOrder
  <2> SUFFICES ASSUME IInv, OrderInv, Playing, NEW p \in VideoPieces \ (have \cup PreparedPieces),
                      prio[p] # DONT_DOWNLOAD
               PROVE  Cardinality({q \in firstPieceIndex .. p - 1 : q \notin have})
                         < ACTIVE_PIECE_COUNT
    BY DEF RequestedInOrder
  <2>1. p \in Pieces
    BY PieceAssumption DEF Playing, Loaded, VideoPieces, IInv, TypeOK, FieldsOK, Pieces
  <2>2. Allowed(p)
    BY <2>1 DEF Playing, Loaded, OrderInv, ArraysOrdered, Ordered
  <2>3. QED
    BY <2>2 DEF Allowed, InTurn, Missing
<1>2. QED
  BY <1>1, Invariant, OrderIsKept, PTL

(* No piece of another file is requested while the video plays, as long as  *)
(* the prepared head and tail fit in it.                                    *)
THEOREM OnlyTheVideoIsRequested == Spec => []OnlyVideoRequested
<1>1. IInv /\ OrderInv => OnlyVideoRequested
  BY DEF OnlyVideoRequested, Playing, Loaded, OrderInv, ArraysOrdered, Ordered, Allowed, InTurn
<1>2. QED
  BY <1>1, Invariant, OrderIsKept, PTL
=============================================================================
