---------------------------- MODULE FilePriority ----------------------------
(***************************************************************************)
(* TorrentService.setFilePriority chooses the file of a torrent to load:   *)
(* the one that is asked for by name, or else the biggest.  It is called   *)
(* when a download is added, at every start and by the player, each time   *)
(* over the priorities that are left from before.                          *)
(***************************************************************************)
EXTENDS Integers, FiniteSets, SequencesExt

CONSTANTS
    Names,     \* last parts of the paths of files, that a caller may ask for
    Sizes,     \* of files
    LongMax,   \* the biggest C long, 2^31 - 1 on the devices the library is built for
    MaxFiles,  \* bound: files of a torrent
    MaxCalls   \* bound: calls

ASSUME FileAssumption ==
    Sizes \subseteq Nat /\ LongMax \in Nat /\ MaxFiles \in Nat /\ MaxCalls \in Nat

DONT_DOWNLOAD == 0
NORMAL        == 1
NoName        == ""

VARIABLES
    files,     \* of the torrent, in its order
    priority,  \* of each file, in the session
    fileName,  \* the name the last call was given
    location,  \* the index of the file it has returned, or 0
    size,      \* the size it has returned, or -1
    calls

vars == <<files, priority, fileName, location, size, calls>>

\* The torrent has just been added.
Added ==
    /\ priority = [i \in DOMAIN files |-> NORMAL]
    /\ fileName = NoName /\ location = 0 /\ size = -1 /\ calls = 0

-----------------------------------------------------------------------------
\* GetTorrentFiles prints the 64-bit size with %ld, which takes its low word.
Reported(n) ==
    LET longs == 2 * (LongMax + 1)
        low   == n % longs
    IN  IF low <= LongMax THEN low ELSE low - longs

\* What the loops work on: the array, and what is to be returned.
Work(p, at, n) == [priorities |-> p, biggest |-> at, size |-> n]

ByName(name, p) ==
    [i \in DOMAIN files |-> IF files[i].name = name THEN NORMAL ELSE DONT_DOWNLOAD]

\* A file is bigger than the ones before it, which are given up.
Bigger(w, i) ==
    Work([w.priorities EXCEPT ![w.biggest] = DONT_DOWNLOAD, ![i] = NORMAL],
         i, Reported(files[i].size))

NextFile_AtLeast(w, i) ==
    IF Reported(files[i].size) >= w.size
      THEN Bigger(w, i)
      ELSE [w EXCEPT !.priorities[i] = DONT_DOWNLOAD]

NextFile(w, i) ==
    IF Reported(files[i].size) > w.size
      THEN Bigger(w, i)
      ELSE [w EXCEPT !.priorities[i] = DONT_DOWNLOAD]

BySize(p) ==
    LET upTo[k \in 0 .. Len(files)] ==
            IF k = 0 THEN Work(p, 1, -1) ELSE NextFile(upTo[k - 1], k)
    IN  upTo[Len(files)]

\* The last file of the name.
Matching(name) ==
    LET matches == {i \in DOMAIN files : files[i].name = name}
    IN  IF matches = {} THEN 0 ELSE CHOOSE i \in matches : \A j \in matches : j <= i

ChooseByName(name) ==
    /\ Matching(name) # 0
    /\ priority' = ByName(name, priority)
    /\ location' = Matching(name)
    /\ size' = Reported(files[Matching(name)].size)

ChooseBySize(name) ==
    LET w == BySize(IF name = NoName THEN priority ELSE ByName(name, priority)) IN
    /\ Matching(name) = 0
    /\ priority' = w.priorities
    /\ location' = w.biggest
    /\ size' = w.size

SetFilePriority(name) ==
    /\ calls < MaxCalls /\ calls' = calls + 1
    /\ fileName' = name
    /\ ChooseByName(name) \/ ChooseBySize(name)
    /\ UNCHANGED files

Next == \E name \in Names \cup {NoName} : SetFilePriority(name)

FileInit ==
    /\ files \in SeqOf([name : Names, size : Sizes], MaxFiles) \ {<<>>}
    /\ Added

FileSpec == FileInit /\ [][Next]_vars

-----------------------------------------------------------------------------
Wanted  == {i \in DOMAIN files : priority[i] # DONT_DOWNLOAD}
Named   == {i \in DOMAIN files : files[i].name = fileName}
Fits(i) == files[i].size <= LongMax

OnlyReturnedWanted ==
    /\ size # -1 => location \in Wanted /\ size = Reported(files[location].size)
    /\ IF Named # {} THEN Wanted = Named ELSE Cardinality(Wanted) <= 1

BiggestChosen ==
    Named = {} /\ (\A i \in DOMAIN files : Fits(i)) =>
        /\ size = files[location].size
        /\ \A i \in DOMAIN files : files[i].size <= size
        /\ \A i \in 1 .. location - 1 : files[i].size < size

(* The file that is returned is one that is loaded, or it is refused (-1),  *)
(* whatever the sizes become in the conversion; nothing else is loaded but  *)
(* the files of the name that is asked for, or, when there is none, one     *)
(* single file, whatever was chosen before; and that one is the first of    *)
(* the biggest, as long as the sizes fit in a long.                         *)
RightFileWanted == calls > 0 => OnlyReturnedWanted /\ BiggestChosen
=============================================================================
