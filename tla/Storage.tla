------------------------------- MODULE Storage ------------------------------
(***************************************************************************)
(* StorageHelper keeps everything the application writes under one root    *)
(* directory, remembers it in the preferences, and deletes it when the     *)
(* user chooses another one.  Each step below is one call that outlives    *)
(* the process, which may die in between.  A storage that is taken out     *)
(* ends the processes that use it.                                         *)
(*                                                                         *)
(* A directory is the sequence of the names on the way to it, from the     *)
(* mount point of its storage.                                             *)
(***************************************************************************)
EXTENDS Naturals, SequencesExt

CONSTANTS
    Names,      \* of mount points and directories
    Storages,   \* mount points
    Primary,    \* the external storage of the device
    Private,    \* where getExternalFilesDir lies, used without the former
    UserDirs,   \* the directories of the user
    MaxChoices, \* bound: how often the user chooses a folder
    MaxEnds,    \* bound: how often the process ends
    MaxDepth    \* bound: how deep the chosen folder is

ROOT_FOLDER_NAME      == "time4popcorn"
CACHE_FOLDER_NAME     == "cache"
DOWNLOADS_FOLDER_NAME == "downloads"

NoDirectory == <<>>

\* A directory and the ones it is in.
Ancestors(d) == {SubSeq(d, 1, n) : n \in 1 .. Len(d)}

StorageRoots == {<<s>> : s \in Storages}

\* What is in a directory of the name the application uses is not the user's.
ASSUME StorageAssumption ==
    /\ {ROOT_FOLDER_NAME, CACHE_FOLDER_NAME, DOWNLOADS_FOLDER_NAME} \subseteq Names
    /\ {Primary, Private} \subseteq Storages /\ Storages \subseteq Names
    /\ UserDirs \subseteq Seq(Names)
    /\ \A d \in UserDirs :
          /\ d # <<>> /\ Head(d) \in Storages
          /\ Ancestors(d) \subseteq UserDirs \cup StorageRoots
          /\ \A i \in 1 .. Len(d) : d[i] # ROOT_FOLDER_NAME
    /\ MaxChoices \in Nat /\ MaxEnds \in Nat /\ MaxDepth \in Nat

VARIABLES
    mounted,       \* the storages that are in
    directories,   \* on all of them
    pref,          \* chache-folder-path
    rootDirectory,
    at,            \* the next step of the process
    target,        \* the directory that setRootDirectory adopts
    first,         \* init found no preference: the root is cleared in the end
    choices, ends, \* bounds
    forgotten      \* history: init has dropped a root that it could not reach

process == <<rootDirectory, at, target, first>>
vars    == <<mounted, directories, pref, process, choices, ends, forgotten>>

InstalledApp ==
    /\ rootDirectory = NoDirectory /\ at = "dead" /\ target = NoDirectory /\ first = FALSE

Init ==
    /\ mounted \in SUBSET Storages
    /\ directories = StorageRoots \cup UserDirs
    /\ pref = NoDirectory
    /\ InstalledApp
    /\ choices = 0 /\ ends = 0 /\ forgotten = FALSE

-----------------------------------------------------------------------------
Reachable(d) == d # NoDirectory /\ Head(d) \in mounted

Exists(d) == d \in directories /\ Reachable(d)

\* mkdirs; it fails where nothing is mounted.
MakeDirs(d) ==
    directories' = IF Reachable(d) THEN directories \cup Ancestors(d) ELSE directories

DeleteDirectory(d) == directories' = {e \in directories : ~IsPrefix(d, e)}
ClearDirectory(d)  == directories' = {e \in directories : ~IsStrictPrefix(d, e)}

DefaultRootDirectory ==
    CASE Primary \in mounted -> <<Primary, ROOT_FOLDER_NAME>>
      [] Primary \notin mounted /\ Private \in mounted -> <<Private, ROOT_FOLDER_NAME>>
      [] OTHER -> NoDirectory

-----------------------------------------------------------------------------
(* init, when the process starts.                                           *)

Goto(step) == at' = step

\* The first half of setRootDirectory, for a root that is not there yet.
AdoptDefault ==
    /\ target' = DefaultRootDirectory
    /\ Goto(IF DefaultRootDirectory = NoDirectory THEN "running" ELSE "mkdirs")

InitFirst ==
    /\ at = "dead" /\ pref = NoDirectory
    /\ first' = TRUE
    /\ AdoptDefault
    /\ UNCHANGED <<mounted, directories, pref, rootDirectory, choices, ends, forgotten>>

AfterInit_Clear == "clear"

\* The root of the last time is taken as it is.
AfterInit == "running"

InitAgain ==
    /\ at = "dead" /\ Reachable(pref)
    /\ rootDirectory' = pref /\ MakeDirs(pref)
    /\ Goto(AfterInit)
    /\ UNCHANGED <<mounted, pref, target, first, choices, ends, forgotten>>

\* mkdirs has failed: the preference is removed.
InitForget ==
    /\ at = "dead" /\ pref # NoDirectory /\ ~Reachable(pref)
    /\ pref' = NoDirectory /\ forgotten' = TRUE
    /\ Goto("default")
    /\ UNCHANGED <<mounted, directories, rootDirectory, target, first, choices, ends>>

InitDefault ==
    /\ at = "default"
    /\ AdoptDefault
    /\ UNCHANGED <<mounted, directories, pref, rootDirectory, first, choices, ends, forgotten>>

-----------------------------------------------------------------------------
(* setRootDirectory.  It compares the objects, which always differ: the     *)
(* directory in use is deleted also when it is chosen again.                *)

DeleteRoot ==
    /\ at = "delete"
    /\ IF Exists(rootDirectory) THEN DeleteDirectory(rootDirectory) ELSE UNCHANGED directories
    /\ Goto("mkdirs")
    /\ UNCHANGED <<mounted, pref, rootDirectory, target, first, choices, ends, forgotten>>

MakeRoot_Before(d) == UNCHANGED directories

MakeRoot(d) == MakeDirs(d)

AdoptRoot ==
    /\ at = "mkdirs"
    /\ rootDirectory' = target
    /\ MakeRoot(target)
    /\ Goto("commit")
    /\ UNCHANGED <<mounted, pref, target, first, choices, ends, forgotten>>

AfterCommit == IF first THEN "clear" ELSE "running"

CommitRoot ==
    /\ at = "commit"
    /\ pref' = rootDirectory
    /\ Goto(AfterCommit)
    /\ UNCHANGED <<mounted, directories, rootDirectory, target, first, choices, ends, forgotten>>

ClearRootDirectory ==
    /\ at = "clear"
    /\ ClearDirectory(rootDirectory)
    /\ first' = FALSE
    /\ Goto("running")
    /\ UNCHANGED <<mounted, pref, rootDirectory, target, choices, ends, forgotten>>

-----------------------------------------------------------------------------
(* The user chooses a folder, the application writes.                       *)

NewRoot_AsChosen(dir) == dir

\* createDirectory of the folder chooser.
NewRoot(dir) == Append(dir, ROOT_FOLDER_NAME)

ChooseFolder(dir) ==
    /\ at = "running" /\ choices < MaxChoices
    /\ Exists(dir) /\ Len(dir) < MaxDepth
    /\ choices' = choices + 1
    /\ target' = NewRoot(dir) /\ first' = FALSE
    /\ MakeDirs(NewRoot(dir))
    /\ Goto("delete")
    /\ UNCHANGED <<mounted, pref, rootDirectory, ends, forgotten>>

\* A download or a "watch now" makes its directory.
Write(name) ==
    /\ at = "running" /\ rootDirectory # NoDirectory
    /\ MakeDirs(Append(rootDirectory, name))
    /\ UNCHANGED <<mounted, pref, process, choices, ends, forgotten>>

Die ==
    /\ at # "dead" /\ ends < MaxEnds
    /\ ends' = ends + 1
    /\ rootDirectory' = NoDirectory /\ target' = NoDirectory /\ first' = FALSE
    /\ Goto("dead")
    /\ UNCHANGED <<mounted, directories, pref, choices, forgotten>>

\* A storage comes in or goes while the application does not run.
Mount(s) ==
    /\ at = "dead"
    /\ mounted' = IF s \in mounted THEN mounted \ {s} ELSE mounted \cup {s}
    /\ UNCHANGED <<directories, pref, process, choices, ends, forgotten>>

-----------------------------------------------------------------------------
Next ==
    \/ InitFirst \/ InitAgain \/ InitForget \/ InitDefault
    \/ DeleteRoot \/ AdoptRoot \/ CommitRoot \/ ClearRootDirectory
    \/ \E dir \in directories : ChooseFolder(dir)
    \/ \E name \in {CACHE_FOLDER_NAME, DOWNLOADS_FOLDER_NAME} : Write(name)
    \/ Die \/ \E s \in Storages : Mount(s)

Spec == Init /\ [][Next]_vars

-----------------------------------------------------------------------------
Steps == {"dead", "default", "delete", "mkdirs", "commit", "clear", "running"}

(* The fields have their types, and every directory has its parents.        *)
TypeOK ==
    /\ mounted \subseteq Storages
    /\ \A d \in directories : Head(d) \in Storages /\ Ancestors(d) \subseteq directories
    /\ at \in Steps /\ first \in BOOLEAN /\ forgotten \in BOOLEAN
    /\ pref = NoDirectory \/ Head(pref) \in Storages
    /\ choices \in 0 .. MaxChoices /\ ends \in 0 .. MaxEnds

(* A running application has its root directory, and the preferences name   *)
(* the same one for the next start; it has none only if no storage was in   *)
(* when it started.                                                         *)
RootInUse ==
    at = "running" =>
        /\ pref = rootDirectory
        /\ IF rootDirectory = NoDirectory THEN DefaultRootDirectory = NoDirectory
                                          ELSE Exists(rootDirectory)

(* What the user keeps on the storages is never deleted, whatever folder is *)
(* chosen and however often: the application makes a directory of its own.  *)
UserDirsKept == UserDirs \subseteq directories

(* Downloads are only deleted because the user chooses a folder, unless the *)
(* application was once started without the storage of its root: the next   *)
(* root then counts as new and is cleared, whatever it holds.               *)
DownloadsKept ==
    [][\A d \in directories \ directories' :
          Last(d) = DOWNLOADS_FOLDER_NAME => at = "delete" \/ (at = "clear" /\ forgotten)]_vars
=============================================================================
