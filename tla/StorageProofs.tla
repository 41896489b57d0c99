--------------------------- MODULE StorageProofs ----------------------------
(***************************************************************************)
(* For any storages, directories of the user and number of choices and     *)
(* deaths: a running application has its root directory (RootInUse), and   *)
(* neither what the user keeps (UserDirsKept) nor, without his choice, a   *)
(* download (DownloadsKept) is deleted.                                    *)
(***************************************************************************)
EXTENDS Storage, TLAPS

Directory == Seq(Names) \ {<<>>}

IsRoot(d) ==
    d # NoDirectory =>
        d \in Directory /\ Head(d) \in Storages /\ Last(d) = ROOT_FOLDER_NAME

DirsOK(D) ==
    /\ D \subseteq Directory
    /\ \A d \in D : Head(d) \in Storages /\ Ancestors(d) \subseteq D

ScalarsOK ==
    /\ mounted \subseteq Storages /\ at \in Steps
    /\ first \in BOOLEAN /\ forgotten \in BOOLEAN
    /\ choices \in 0 .. MaxChoices /\ ends \in 0 .. MaxEnds

(* Paths are paths, and the application only adopts directories of its own. *)
PathsOK ==
    /\ DirsOK(directories)
    /\ IsRoot(rootDirectory) /\ IsRoot(target) /\ IsRoot(pref)

(* What each step of init and setRootDirectory finds.                       *)
StepsOK ==
    /\ at = "dead" => InstalledApp
    /\ at = "default" => pref = NoDirectory /\ rootDirectory = NoDirectory /\ first = FALSE
    /\ at \in {"delete", "mkdirs"} => Reachable(target)
    /\ at = "delete" => first = FALSE
    /\ at \in {"commit", "clear"} => Exists(rootDirectory)
    /\ at = "clear" => pref = rootDirectory
    /\ at \in {"mkdirs", "commit"} /\ first => pref = NoDirectory
    /\ at \in {"delete", "mkdirs"} /\ pref = NoDirectory => rootDirectory = NoDirectory

OwnDownloads(d) ==
    Last(d) = DOWNLOADS_FOLDER_NAME /\ \E i \in 1 .. Len(d) : d[i] = ROOT_FOLDER_NAME

\* The directories that setRootDirectory is going to make.
Planned == IF at \in {"delete", "mkdirs"} THEN Ancestors(target) ELSE {}

(* Before the first root is adopted and cleared, it holds no downloads.     *)
Fresh ==
    ~forgotten /\ (pref = NoDirectory \/ at = "clear") =>
        \A d \in directories \cup Planned : ~OwnDownloads(d)

IInv == ScalarsOK /\ PathsOK /\ StepsOK /\ RootInUse /\ UserDirsKept /\ Fresh

-----------------------------------------------------------------------------
(* Paths.                                                                   *)

\* An element of a path, and the length and first element of an ancestor.
LEMMA AncestorFacts ==
    ASSUME NEW d \in Directory, NEW n \in 1 .. Len(d)
    PROVE  /\ SubSeq(d, 1, n) \in Directory
           /\ Len(SubSeq(d, 1, n)) = n
           /\ \A i \in 1 .. n : SubSeq(d, 1, n)[i] = d[i]
           /\ Head(SubSeq(d, 1, n)) = Head(d)
  <1>1. d \in Seq(Names) /\ d # <<>> /\ Len(d) \in Nat \ {0}
    BY DEF Directory
  <1>2. SubSeq(d, 1, n) \in Seq(Names) /\ Len(SubSeq(d, 1, n)) = n
    BY <1>1
  <1>3. \A i \in 1 .. n : SubSeq(d, 1, n)[i] = d[i]
    BY <1>1
  <1>4. SubSeq(d, 1, n) # <<>>
    BY <1>1, <1>2
  <1>5. Head(SubSeq(d, 1, n)) = SubSeq(d, 1, n)[1] /\ Head(d) = d[1]
    BY <1>1, <1>2, <1>4
  <1> QED BY <1>1, <1>2, <1>3, <1>4, <1>5 DEF Directory

\* The whole path is the last of its ancestors.
LEMMA WholePath == ASSUME NEW d \in Directory PROVE d = SubSeq(d, 1, Len(d)) /\ d \in Ancestors(d)
  <1>1. d \in Seq(Names) /\ Len(d) \in 1 .. Len(d)
    BY DEF Directory
  <1>2. d = SubSeq(d, 1, Len(d))
    BY <1>1
  <1> QED BY <1>1, <1>2 DEF Ancestors

\* Equal lengths and elements make equal paths.
LEMMA SamePath ==
    ASSUME NEW s \in Seq(Names), NEW t \in Seq(Names), Len(s) = Len(t),
           \A i \in 1 .. Len(s) : s[i] = t[i]
    PROVE  s = t
  BY SMT

\* A prefix in terms of the elements.
LEMMA PrefixElements ==
    ASSUME NEW s \in Seq(Names), NEW t \in Seq(Names)
    PROVE  IsPrefix(s, t) <=> Len(s) <= Len(t) /\ \A i \in 1 .. Len(s) : s[i] = t[i]
  <1>1. Len(s) \in Nat /\ Len(t) \in Nat
    OBVIOUS
  <1>2. ASSUME IsPrefix(s, t), NEW i \in 1 .. Len(s) PROVE Len(s) <= Len(t) /\ s[i] = t[i]
    <2>1. Len(s) <= Len(t) /\ SubSeq(s, 1, Len(s)) = SubSeq(t, 1, Len(s))
      BY <1>2 DEF IsPrefix
    <2>2. SubSeq(s, 1, Len(s))[i] = s[i] /\ SubSeq(t, 1, Len(s))[i] = t[i]
      BY <1>1, <2>1
    <2> QED BY <2>1, <2>2
  <1>3. ASSUME Len(s) <= Len(t), \A i \in 1 .. Len(s) : s[i] = t[i] PROVE IsPrefix(s, t)
    <2>1. /\ SubSeq(s, 1, Len(s)) \in Seq(Names) /\ Len(SubSeq(s, 1, Len(s))) = Len(s)
          /\ SubSeq(t, 1, Len(s)) \in Seq(Names) /\ Len(SubSeq(t, 1, Len(s))) = Len(s)
      BY <1>1, <1>3
    <2>2. \A i \in 1 .. Len(s) : SubSeq(s, 1, Len(s))[i] = SubSeq(t, 1, Len(s))[i]
      BY <1>1, <1>3
    <2>3. SubSeq(s, 1, Len(s)) = SubSeq(t, 1, Len(s))
      BY <2>1, <2>2, SamePath
    <2> QED BY <1>3, <2>3 DEF IsPrefix
  <1>4. IsPrefix(s, t) => Len(s) <= Len(t)
    BY DEF IsPrefix
  <1> QED BY <1>2, <1>3, <1>4

\* The ancestors of an ancestor are ancestors.
LEMMA AncestorsOfAncestor ==
    ASSUME NEW d \in Directory, NEW a \in Ancestors(d)
    PROVE  a \in Directory /\ Head(a) = Head(d) /\ Ancestors(a) \subseteq Ancestors(d)
  <1>1. PICK n \in 1 .. Len(d) : a = SubSeq(d, 1, n)
    BY DEF Ancestors
  <1>2. /\ a \in Directory /\ Len(a) = n /\ Head(a) = Head(d)
        /\ \A i \in 1 .. n : a[i] = d[i]
    BY <1>1, AncestorFacts
  <1>3. ASSUME NEW m \in 1 .. Len(a) PROVE SubSeq(a, 1, m) \in Ancestors(d)
    <2>1. d \in Seq(Names) /\ Len(d) \in Nat
      BY DEF Directory
    <2>2. m \in 1 .. Len(d)
      BY <1>2, <2>1
    <2>3. /\ SubSeq(a, 1, m) \in Directory /\ Len(SubSeq(a, 1, m)) = m
          /\ \A i \in 1 .. m : SubSeq(a, 1, m)[i] = a[i]
      BY <1>2, AncestorFacts
    <2>4. /\ SubSeq(d, 1, m) \in Directory /\ Len(SubSeq(d, 1, m)) = m
          /\ \A i \in 1 .. m : SubSeq(d, 1, m)[i] = d[i]
      BY <2>2, AncestorFacts
    <2>5. \A i \in 1 .. m : SubSeq(a, 1, m)[i] = SubSeq(d, 1, m)[i]
      BY <1>2, <2>3, <2>4
    <2>6. SubSeq(a, 1, m) = SubSeq(d, 1, m)
      BY <2>3, <2>4, <2>5, SamePath DEF Directory
    <2> QED BY <2>2, <2>6 DEF Ancestors
  <1> QED BY <1>2, <1>3 DEF Ancestors

\* mkdirs adds the path and its ancestors, if its storage is in.
LEMMA MakeDirsFacts ==
    ASSUME DirsOK(directories), NEW d \in Directory, Head(d) \in Storages, MakeDirs(d)
    PROVE  /\ DirsOK(directories')
           /\ directories \subseteq directories'
           /\ directories' \subseteq directories \cup Ancestors(d)
           /\ Reachable(d) => d \in directories'
  <1>1. CASE Reachable(d)
    <2>1. directories' = directories \cup Ancestors(d)
      BY <1>1 DEF MakeDirs
    <2>2. \A a \in Ancestors(d) :
             a \in Directory /\ Head(a) = Head(d) /\ Ancestors(a) \subseteq Ancestors(d)
      BY AncestorsOfAncestor
    <2>3. d \in Ancestors(d)
      BY WholePath
    <2> QED BY <2>1, <2>2, <2>3 DEF DirsOK
  <1>2. CASE ~Reachable(d)
    <2>1. directories' = directories
      BY <1>2 DEF MakeDirs
    <2> QED BY <2>1, <1>2
  <1> QED BY <1>1, <1>2

\* A path inside of a directory whose name is that of the root carries it.
LEMMA InsideRoot ==
    ASSUME NEW r \in Directory, Last(r) = ROOT_FOLDER_NAME, NEW d \in Directory, IsPrefix(r, d)
    PROVE  \E i \in 1 .. Len(d) : d[i] = ROOT_FOLDER_NAME
  <1>1. r \in Seq(Names) /\ d \in Seq(Names) /\ Len(r) \in Nat \ {0} /\ Len(d) \in Nat
    BY DEF Directory
  <1>2. Len(r) <= Len(d) /\ \A i \in 1 .. Len(r) : r[i] = d[i]
    BY <1>1, PrefixElements
  <1>3. r[Len(r)] = ROOT_FOLDER_NAME
    BY DEF Last
  <1> QED BY <1>1, <1>2, <1>3

\* What is inside of an ancestor is inside of what the ancestor is in.
LEMMA PrefixOfAncestor ==
    ASSUME NEW r \in Directory, NEW d \in Directory, NEW a \in Ancestors(d), IsPrefix(r, a)
    PROVE  IsPrefix(r, d) /\ (r = d => a = d)
  <1>1. PICK n \in 1 .. Len(d) : a = SubSeq(d, 1, n)
    BY DEF Ancestors
  <1>2. a \in Directory /\ Len(a) = n /\ \A i \in 1 .. n : a[i] = d[i]
    BY <1>1, AncestorFacts
  <1>3. /\ r \in Seq(Names) /\ d \in Seq(Names) /\ a \in Seq(Names)
        /\ Len(r) \in Nat /\ Len(d) \in Nat
    BY <1>2 DEF Directory
  <1>4. Len(r) <= Len(a) /\ \A i \in 1 .. Len(r) : r[i] = a[i]
    BY <1>3, PrefixElements
  <1>5. Len(r) <= Len(d) /\ \A i \in 1 .. Len(r) : r[i] = d[i]
    BY <1>2, <1>3, <1>4
  <1>6. IsPrefix(r, d)
    BY <1>3, <1>5, PrefixElements
  <1>7. ASSUME r = d PROVE a = d
    <2>1. n = Len(d)
      BY <1>2, <1>3, <1>4, <1>7
    <2> QED BY <1>1, <2>1, WholePath
  <1> QED BY <1>6, <1>7

\* Both deletes keep the ancestors of what they keep.
LEMMA DeleteFacts ==
    ASSUME DirsOK(directories), NEW r \in Directory, DeleteDirectory(r) \/ ClearDirectory(r)
    PROVE  /\ DirsOK(directories')
           /\ directories' \subseteq directories
           /\ \A d \in directories \ directories' : IsPrefix(r, d)
           /\ ClearDirectory(r) /\ r \in directories => r \in directories'
  <1>1. CASE DeleteDirectory(r)
    <2>1. directories' = {e \in directories : ~IsPrefix(r, e)}
      BY <1>1 DEF DeleteDirectory
    <2>2. ASSUME NEW d \in directories', NEW a \in Ancestors(d) PROVE a \in directories'
      BY <2>1, <2>2, PrefixOfAncestor DEF DirsOK
    <2>3. DirsOK(directories')
      BY <2>1, <2>2 DEF DirsOK
    <2>4. ASSUME ClearDirectory(r), r \in directories PROVE r \in directories'
      BY <2>4 DEF ClearDirectory, IsStrictPrefix
    <2> QED BY <2>1, <2>3, <2>4
  <1>2. CASE ClearDirectory(r)
    <2>1. directories' = {e \in directories : ~(IsPrefix(r, e) /\ r # e)}
      BY <1>2 DEF ClearDirectory, IsStrictPrefix
    <2>2. ASSUME NEW d \in directories', NEW a \in Ancestors(d) PROVE a \in directories'
      BY <2>1, <2>2, PrefixOfAncestor DEF DirsOK
    <2>3. DirsOK(directories')
      BY <2>1, <2>2 DEF DirsOK
    <2> QED BY <2>1, <2>3
  <1> QED BY <1>1, <1>2

\* What the user keeps is outside of every root.
LEMMA UserDirsOutside ==
    ASSUME NEW r \in Directory, Last(r) = ROOT_FOLDER_NAME, NEW d \in UserDirs
    PROVE  ~IsPrefix(r, d)
  <1>1. d \in Directory
    BY StorageAssumption DEF Directory
  <1> QED BY <1>1, InsideRoot, StorageAssumption

\* The root that init adopts is reachable, and no directory of it is one of downloads.
LEMMA DefaultFacts ==
    ASSUME mounted \subseteq Storages
    PROVE  LET d == DefaultRootDirectory IN
           /\ IsRoot(d)
           /\ d # NoDirectory => Reachable(d) /\ \A a \in Ancestors(d) : ~OwnDownloads(a)
  <1>1. ASSUME NEW s \in mounted, NEW d, d = <<s, ROOT_FOLDER_NAME>>
        PROVE  IsRoot(d) /\ Reachable(d) /\ \A a \in Ancestors(d) : ~OwnDownloads(a)
    <2>1. s \in Names /\ s \in Storages /\ ROOT_FOLDER_NAME \in Names
      BY StorageAssumption
    <2>2. d \in Directory /\ Len(d) = 2 /\ d[1] = s /\ d[2] = ROOT_FOLDER_NAME /\ Head(d) = s
      BY <1>1, <2>1 DEF Directory
    <2>3. IsRoot(d) /\ Reachable(d)
      BY <2>1, <2>2 DEF IsRoot, Reachable, Last, Directory, NoDirectory
    <2>4. ASSUME NEW a \in Ancestors(d), OwnDownloads(a) PROVE FALSE
      <3>1. PICK n \in 1 .. 2 : a = SubSeq(d, 1, n)
        BY <2>2 DEF Ancestors
      <3>2. Len(a) = n /\ \A i \in 1 .. n : a[i] = d[i]
        BY <2>2, <3>1, AncestorFacts
      <3>3. a[n] = DOWNLOADS_FOLDER_NAME /\ \E i \in 1 .. n : a[i] = ROOT_FOLDER_NAME
        BY <2>4, <3>2 DEF OwnDownloads, Last
      <3>4. ROOT_FOLDER_NAME # DOWNLOADS_FOLDER_NAME
        BY DEF ROOT_FOLDER_NAME, DOWNLOADS_FOLDER_NAME
      <3>5. CASE n = 1
        BY <3>3, <3>4, <3>5
      <3>6. CASE n = 2
        BY <2>2, <3>2, <3>3, <3>4, <3>6
      <3> QED BY <3>5, <3>6
    <2> QED BY <2>3, <2>4
  <1>2. CASE DefaultRootDirectory = NoDirectory
    BY <1>2 DEF IsRoot
  <1>3. CASE DefaultRootDirectory # NoDirectory
    <2>1. \E s \in mounted : DefaultRootDirectory = <<s, ROOT_FOLDER_NAME>>
      BY <1>3 DEF DefaultRootDirectory
    <2> QED BY <1>1, <2>1
  <1> QED BY <1>2, <1>3

\* The folder that the chooser makes in a directory.
LEMMA NewRootFacts ==
    ASSUME NEW dir \in Directory, Head(dir) \in Storages
    PROVE  LET d == NewRoot(dir) IN
           /\ d \in Directory /\ Head(d) = Head(dir) /\ IsRoot(d)
           /\ Ancestors(d) \subseteq Ancestors(dir) \cup {d}
           /\ ~OwnDownloads(d)
  <1> DEFINE d == NewRoot(dir)
  <1>1. /\ dir \in Seq(Names) /\ dir # <<>> /\ Len(dir) \in Nat \ {0}
        /\ ROOT_FOLDER_NAME \in Names
    BY StorageAssumption DEF Directory
  <1>2. /\ d \in Seq(Names) /\ Len(d) = Len(dir) + 1 /\ d[Len(dir) + 1] = ROOT_FOLDER_NAME
        /\ \A i \in 1 .. Len(dir) : d[i] = dir[i]
    BY <1>1 DEF NewRoot
  <1>3. d # <<>> /\ Head(d) = d[1] /\ Head(dir) = dir[1]
    BY <1>1, <1>2
  <1>4. d \in Directory /\ Head(d) = Head(dir)
    BY <1>1, <1>2, <1>3 DEF Directory
  <1>5. Last(d) = ROOT_FOLDER_NAME
    BY <1>2 DEF Last
  <1>6. IsRoot(d) /\ ~OwnDownloads(d)
    BY <1>4, <1>5 DEF IsRoot, OwnDownloads, ROOT_FOLDER_NAME, DOWNLOADS_FOLDER_NAME
  <1>7. ASSUME NEW n \in 1 .. Len(d) PROVE SubSeq(d, 1, n) \in Ancestors(dir) \cup {d}
    <2>1. CASE n = Len(dir) + 1
      BY <1>2, <1>4, <2>1, WholePath
    <2>2. CASE n # Len(dir) + 1
      <3>1. n \in 1 .. Len(dir)
        BY <1>1, <1>2, <2>2
      <3>2. /\ SubSeq(d, 1, n) \in Directory /\ Len(SubSeq(d, 1, n)) = n
            /\ \A i \in 1 .. n : SubSeq(d, 1, n)[i] = d[i]
        BY <1>4, AncestorFacts
      <3>3. /\ SubSeq(dir, 1, n) \in Directory /\ Len(SubSeq(dir, 1, n)) = n
            /\ \A i \in 1 .. n : SubSeq(dir, 1, n)[i] = dir[i]
        BY <3>1, AncestorFacts
      <3>4. SubSeq(d, 1, n) = SubSeq(dir, 1, n)
        BY <1>2, <3>1, <3>2, <3>3, SamePath DEF Directory
      <3> QED BY <3>1, <3>4 DEF Ancestors
    <2> QED BY <2>1, <2>2
  <1> QED BY <1>4, <1>6, <1>7 DEF Ancestors

-----------------------------------------------------------------------------
(* The invariant.                                                           *)

LEMMA InitOK == Init => IInv
  <1> SUFFICES ASSUME Init PROVE IInv
    OBVIOUS
  <1>1. \A s \in Storages : <<s>> \in Directory /\ Head(<<s>>) = s /\ Ancestors(<<s>>) = {<<s>>}
    <2> TAKE s \in Storages
    <2>1. s \in Names
      BY StorageAssumption
    <2>2. <<s>> \in Seq(Names) /\ Len(<<s>>) = 1 /\ Head(<<s>>) = s /\ <<s>> # <<>>
      BY <2>1
    <2>3. SubSeq(<<s>>, 1, Len(<<s>>)) = <<s>>
      BY <2>2, WholePath DEF Directory
    <2>4. 1 .. Len(<<s>>) = {1}
      BY <2>2
    <2> QED BY <2>2, <2>3, <2>4 DEF Ancestors, Directory
  <1>2. directories = StorageRoots \cup UserDirs
    BY DEF Init
  <1>3. DirsOK(directories)
    <2>1. \A d \in UserDirs : d \in Directory /\ Head(d) \in Storages
      BY StorageAssumption DEF Directory
    <2>2. \A d \in StorageRoots : d \in Directory /\ Head(d) \in Storages /\ Ancestors(d) = {d}
      BY <1>1 DEF StorageRoots
    <2> QED BY <1>2, <2>1, <2>2, StorageAssumption DEF DirsOK
  <1>4. ScalarsOK
    <2>1. mounted \subseteq Storages /\ at \in Steps
      BY DEF Init, InstalledApp, Steps
    <2>2. first \in BOOLEAN /\ forgotten \in BOOLEAN
      BY DEF Init, InstalledApp
    <2>3. choices \in 0 .. MaxChoices /\ ends \in 0 .. MaxEnds
      BY StorageAssumption DEF Init
    <2> QED BY <2>1, <2>2, <2>3 DEF ScalarsOK
  <1>5. PathsOK /\ StepsOK /\ RootInUse
    BY <1>3 DEF PathsOK, StepsOK, RootInUse, IsRoot, Init, InstalledApp
  <1>6. UserDirsKept
    BY <1>2 DEF UserDirsKept
  <1>7. \A d \in directories : ~OwnDownloads(d)
    <2>1. \A d \in UserDirs : ~OwnDownloads(d)
      BY StorageAssumption DEF OwnDownloads
    <2>2. ASSUME NEW s \in Storages, OwnDownloads(<<s>>) PROVE FALSE
      BY <2>2 DEF OwnDownloads, Last, ROOT_FOLDER_NAME, DOWNLOADS_FOLDER_NAME
    <2> QED BY <1>2, <2>1, <2>2 DEF StorageRoots
  <1>8. Fresh
    BY <1>7 DEF Fresh, Planned, Init, InstalledApp
  <1> QED BY <1>4, <1>5, <1>6, <1>8 DEF IInv

\* Both ways into the adoption of the default root.
LEMMA AdoptOK ==
    ASSUME IInv, AdoptDefault, pref = NoDirectory, rootDirectory = NoDirectory,
           UNCHANGED <<mounted, directories, pref, rootDirectory, choices, ends, forgotten>>,
           first' \in BOOLEAN
    PROVE  IInv'
  <1>1. mounted \subseteq Storages
    BY DEF IInv, ScalarsOK
  <1>2. DefaultRootDirectory' = DefaultRootDirectory
    BY DEF DefaultRootDirectory
  <1>3. /\ target' = DefaultRootDirectory /\ IsRoot(target')
        /\ target' # NoDirectory =>
              Reachable(target)' /\ \A a \in Ancestors(target') : ~OwnDownloads(a)
    BY <1>1, DefaultFacts DEF AdoptDefault, Reachable
  <1>4. at' = IF target' = NoDirectory THEN "running" ELSE "mkdirs"
    BY DEF AdoptDefault, Goto
  <1>5. ScalarsOK'
    BY <1>4 DEF IInv, ScalarsOK, Steps
  <1>6. PathsOK'
    BY <1>3 DEF IInv, PathsOK, DirsOK, IsRoot
  <1>7. StepsOK'
    BY <1>3, <1>4 DEF StepsOK
  <1>8. RootInUse' /\ UserDirsKept'
    BY <1>2, <1>3, <1>4 DEF IInv, RootInUse, UserDirsKept
  <1>9. Fresh'
    <2>1. ~forgotten => \A d \in directories : ~OwnDownloads(d)
      BY DEF IInv, Fresh
    <2>2. \A d \in Planned' : ~OwnDownloads(d)
      BY <1>3, <1>4 DEF Planned
    <2> QED BY <2>1, <2>2 DEF Fresh
  <1> QED BY <1>5, <1>6, <1>7, <1>8, <1>9 DEF IInv

LEMMA InitStepsOK ==
    ASSUME IInv, InitFirst \/ InitAgain \/ InitForget \/ InitDefault
    PROVE  IInv'
  <1>1. CASE InitFirst
    BY <1>1, AdoptOK DEF InitFirst, IInv, StepsOK, InstalledApp
  <1>2. CASE InitDefault
    BY <1>2, AdoptOK DEF InitDefault, IInv, StepsOK, ScalarsOK
  <1>3. CASE InitForget
    <2>1. rootDirectory = NoDirectory /\ first = FALSE
      BY <1>3 DEF InitForget, IInv, StepsOK, InstalledApp
    <2>2. /\ at' = "default" /\ pref' = NoDirectory /\ forgotten' = TRUE
          /\ UNCHANGED <<mounted, directories, rootDirectory, target, first, choices, ends>>
      BY <1>3 DEF InitForget, Goto
    <2>3. ScalarsOK'
      <3>1. forgotten' \in BOOLEAN
        BY <2>2
      <3> QED BY <2>2, <3>1 DEF IInv, ScalarsOK, Steps
    <2>4. PathsOK'
      BY <2>2 DEF IInv, PathsOK, IsRoot
    <2>5. StepsOK' /\ RootInUse' /\ UserDirsKept' /\ Fresh'
      BY <2>1, <2>2 DEF IInv, StepsOK, RootInUse, UserDirsKept, Fresh
    <2> QED BY <2>3, <2>4, <2>5 DEF IInv
  <1>4. CASE InitAgain
    <2>1. /\ rootDirectory' = pref /\ MakeDirs(pref) /\ at' = "running" /\ Reachable(pref)
          /\ UNCHANGED <<mounted, pref, target, first, choices, ends, forgotten>>
      BY <1>4 DEF InitAgain, Goto, AfterInit
    <2>2. pref \in Directory /\ Head(pref) \in Storages /\ pref # NoDirectory
      BY <2>1 DEF IInv, PathsOK, IsRoot, Reachable
    <2>3. /\ DirsOK(directories') /\ directories \subseteq directories'
          /\ pref \in directories'
      BY <2>1, <2>2, MakeDirsFacts DEF IInv, PathsOK
    <2>4. ScalarsOK'
      BY <2>1 DEF IInv, ScalarsOK, Steps
    <2>5. PathsOK'
      BY <2>1, <2>3 DEF IInv, PathsOK
    <2>6. StepsOK'
      BY <2>1 DEF StepsOK
    <2>7. RootInUse' /\ UserDirsKept'
      BY <2>1, <2>2, <2>3 DEF IInv, RootInUse, UserDirsKept, Exists, Reachable
    <2>8. Fresh'
      BY <2>1, <2>2 DEF Fresh
    <2> QED BY <2>4, <2>5, <2>6, <2>7, <2>8 DEF IInv
  <1> QED BY <1>1, <1>2, <1>3, <1>4

LEMMA SetRootOK ==
    ASSUME IInv, DeleteRoot \/ AdoptRoot \/ CommitRoot \/ ClearRootDirectory
    PROVE  IInv'
  <1>1. CASE DeleteRoot
    <2>1. /\ at = "delete" /\ at' = "mkdirs"
          /\ UNCHANGED <<mounted, pref, rootDirectory, target, first, choices, ends, forgotten>>
      BY <1>1 DEF DeleteRoot, Goto
    <2>2. /\ DirsOK(directories') /\ directories' \subseteq directories
          /\ UserDirs \subseteq directories'
      <3>1. CASE Exists(rootDirectory)
        <4>1. DeleteDirectory(rootDirectory)
          BY <1>1, <3>1 DEF DeleteRoot
        <4>2. rootDirectory \in Directory /\ Last(rootDirectory) = ROOT_FOLDER_NAME
          BY <3>1 DEF IInv, PathsOK, IsRoot, Exists, Reachable
        <4>3. /\ DirsOK(directories') /\ directories' \subseteq directories
              /\ \A d \in directories \ directories' : IsPrefix(rootDirectory, d)
          BY <4>1, <4>2, DeleteFacts DEF IInv, PathsOK
        <4> QED BY <4>2, <4>3, UserDirsOutside DEF IInv, UserDirsKept
      <3>2. CASE ~Exists(rootDirectory)
        BY <1>1, <3>2 DEF DeleteRoot, IInv, PathsOK, UserDirsKept
      <3> QED BY <3>1, <3>2
    <2>3. ScalarsOK'
      BY <2>1 DEF IInv, ScalarsOK, Steps
    <2>4. PathsOK'
      BY <2>1, <2>2 DEF IInv, PathsOK
    <2>5. StepsOK'
      BY <2>1 DEF IInv, StepsOK, Reachable
    <2>6. RootInUse' /\ UserDirsKept'
      BY <2>1, <2>2 DEF RootInUse, UserDirsKept
    <2>7. Fresh'
      BY <2>1, <2>2 DEF IInv, Fresh, Planned
    <2> QED BY <2>3, <2>4, <2>5, <2>6, <2>7 DEF IInv
  <1>2. CASE AdoptRoot
    <2>1. /\ at = "mkdirs" /\ at' = "commit" /\ rootDirectory' = target /\ MakeDirs(target)
          /\ UNCHANGED <<mounted, pref, target, first, choices, ends, forgotten>>
      BY <1>2 DEF AdoptRoot, MakeRoot, Goto
    <2>2. Reachable(target) /\ target \in Directory /\ Head(target) \in Storages
      BY <2>1 DEF IInv, StepsOK, PathsOK, IsRoot, Reachable
    <2>3. /\ DirsOK(directories') /\ directories \subseteq directories'
          /\ directories' \subseteq directories \cup Ancestors(target)
          /\ target \in directories'
      BY <2>1, <2>2, MakeDirsFacts DEF IInv, PathsOK
    <2>4. ScalarsOK'
      BY <2>1 DEF IInv, ScalarsOK, Steps
    <2>5. PathsOK'
      BY <2>1, <2>3 DEF IInv, PathsOK
    <2>6. StepsOK'
      BY <2>1, <2>2, <2>3 DEF IInv, StepsOK, Exists, Reachable
    <2>7. RootInUse' /\ UserDirsKept'
      BY <2>1, <2>3 DEF IInv, RootInUse, UserDirsKept
    <2>8. Fresh'
      BY <2>1, <2>3 DEF IInv, Fresh, Planned
    <2> QED BY <2>4, <2>5, <2>6, <2>7, <2>8 DEF IInv
  <1>3. CASE CommitRoot
    <2>1. /\ at = "commit" /\ at' = IF first THEN "clear" ELSE "running"
          /\ pref' = rootDirectory
          /\ UNCHANGED <<mounted, directories, rootDirectory, target, first, choices, ends, forgotten>>
      BY <1>3 DEF CommitRoot, AfterCommit, Goto
    <2>2. Exists(rootDirectory) /\ rootDirectory # NoDirectory
      BY <2>1 DEF IInv, StepsOK, Exists, Reachable
    <2>3. ScalarsOK'
      BY <2>1 DEF IInv, ScalarsOK, Steps
    <2>4. PathsOK'
      BY <2>1 DEF IInv, PathsOK
    <2>5. StepsOK'
      BY <2>1, <2>2 DEF IInv, StepsOK, Exists, Reachable
    <2>6. RootInUse' /\ UserDirsKept'
      BY <2>1, <2>2 DEF IInv, RootInUse, UserDirsKept, Exists, Reachable
    <2>7. Fresh'
      <3>1. first => pref = NoDirectory
        BY <2>1 DEF IInv, StepsOK
      <3> QED BY <2>1, <2>2, <3>1 DEF IInv, Fresh, Planned
    <2> QED BY <2>3, <2>4, <2>5, <2>6, <2>7 DEF IInv
  <1>4. CASE ClearRootDirectory
    <2>1. /\ at = "clear" /\ at' = "running" /\ ClearDirectory(rootDirectory) /\ first' = FALSE
          /\ UNCHANGED <<mounted, pref, rootDirectory, target, choices, ends, forgotten>>
      BY <1>4 DEF ClearRootDirectory, Goto
    <2>2. /\ Exists(rootDirectory) /\ pref = rootDirectory /\ rootDirectory # NoDirectory
          /\ rootDirectory \in Directory /\ Last(rootDirectory) = ROOT_FOLDER_NAME
      BY <2>1 DEF IInv, StepsOK, PathsOK, IsRoot, Exists, Reachable
    <2>3. /\ DirsOK(directories') /\ rootDirectory \in directories'
          /\ \A d \in directories \ directories' : IsPrefix(rootDirectory, d)
      BY <2>1, <2>2, DeleteFacts DEF IInv, PathsOK, Exists
    <2>4. ScalarsOK'
      BY <2>1 DEF IInv, ScalarsOK, Steps
    <2>5. PathsOK'
      BY <2>1, <2>3 DEF IInv, PathsOK
    <2>6. StepsOK'
      BY <2>1 DEF StepsOK
    <2>7. RootInUse'
      BY <2>1, <2>2, <2>3 DEF RootInUse, Exists, Reachable
    <2>8. UserDirsKept'
      BY <2>2, <2>3, UserDirsOutside DEF IInv, UserDirsKept
    <2>9. Fresh'
      BY <2>1, <2>2 DEF Fresh
    <2> QED BY <2>4, <2>5, <2>6, <2>7, <2>8, <2>9 DEF IInv
  <1> QED BY <1>1, <1>2, <1>3, <1>4

LEMMA ChooseOK ==
    ASSUME IInv, NEW dir \in directories, ChooseFolder(dir)
    PROVE  IInv'
  <1> DEFINE d == NewRoot(dir)
  <1>1. /\ at = "running" /\ at' = "delete" /\ Exists(dir)
        /\ target' = d /\ first' = FALSE /\ MakeDirs(d)
        /\ choices < MaxChoices /\ choices' = choices + 1
        /\ UNCHANGED <<mounted, pref, rootDirectory, ends, forgotten>>
    BY DEF ChooseFolder, Goto
  <1>2. dir \in Directory /\ Head(dir) \in Storages /\ Ancestors(dir) \subseteq directories
    BY DEF IInv, PathsOK, DirsOK
  <1>3. /\ d \in Directory /\ Head(d) = Head(dir) /\ IsRoot(d) /\ d # NoDirectory
        /\ Ancestors(d) \subseteq directories \cup {d}
        /\ ~OwnDownloads(d)
    BY <1>2, NewRootFacts DEF Directory, NoDirectory
  <1>4. /\ DirsOK(directories') /\ directories \subseteq directories'
        /\ directories' \subseteq directories \cup {d}
    BY <1>1, <1>2, <1>3, MakeDirsFacts DEF IInv, PathsOK
  <1>5. Reachable(target)'
    BY <1>1, <1>3 DEF Exists, Reachable
  <1>6. ScalarsOK'
    <2>1. choices' \in 0 .. MaxChoices
      BY <1>1, StorageAssumption DEF IInv, ScalarsOK
    <2> QED BY <1>1, <2>1 DEF IInv, ScalarsOK, Steps
  <1>7. PathsOK'
    BY <1>1, <1>3, <1>4 DEF IInv, PathsOK, IsRoot
  <1>8. StepsOK'
    BY <1>1, <1>5 DEF IInv, StepsOK, RootInUse
  <1>9. RootInUse' /\ UserDirsKept'
    BY <1>1, <1>4 DEF IInv, RootInUse, UserDirsKept
  <1>10. Fresh'
    <2>1. Planned' \subseteq directories \cup {d}
      BY <1>1, <1>3 DEF Planned
    <2>2. ASSUME ~forgotten, pref = NoDirectory
          PROVE  \A e \in directories \cup {d} : ~OwnDownloads(e)
      BY <1>3, <2>2 DEF IInv, Fresh
    <2> QED BY <1>1, <1>4, <2>1, <2>2 DEF Fresh
  <1> QED BY <1>6, <1>7, <1>8, <1>9, <1>10 DEF IInv

LEMMA WriteOK ==
    ASSUME IInv, NEW name \in {CACHE_FOLDER_NAME, DOWNLOADS_FOLDER_NAME}, Write(name)
    PROVE  IInv'
  <1> DEFINE d == Append(rootDirectory, name)
  <1>1. /\ at = "running" /\ rootDirectory # NoDirectory /\ MakeDirs(d)
        /\ UNCHANGED <<mounted, pref, rootDirectory, at, target, first, choices, ends, forgotten>>
    BY DEF Write, process
  <1>2. rootDirectory \in Directory /\ Head(rootDirectory) \in Storages /\ name \in Names
    BY <1>1, StorageAssumption DEF IInv, PathsOK, IsRoot
  <1>3. d \in Directory /\ Head(d) \in Storages
    <2>1. /\ rootDirectory \in Seq(Names) /\ rootDirectory # <<>>
          /\ Len(rootDirectory) \in Nat \ {0}
      BY <1>2 DEF Directory
    <2>2. d \in Seq(Names) /\ Len(d) = Len(rootDirectory) + 1 /\ d[1] = rootDirectory[1]
      BY <1>2, <2>1
    <2>3. d # <<>> /\ Head(d) = d[1] /\ Head(rootDirectory) = rootDirectory[1]
      BY <2>1, <2>2
    <2> QED BY <1>2, <2>2, <2>3 DEF Directory
  <1>4. DirsOK(directories') /\ directories \subseteq directories'
    BY <1>1, <1>3, MakeDirsFacts DEF IInv, PathsOK
  <1>5. pref = rootDirectory
    BY <1>1 DEF IInv, RootInUse
  <1>6. ScalarsOK' /\ PathsOK' /\ StepsOK'
    BY <1>1, <1>4 DEF IInv, ScalarsOK, PathsOK, StepsOK
  <1>7. RootInUse' /\ UserDirsKept'
    BY <1>1, <1>4 DEF IInv, RootInUse, UserDirsKept, Exists, Reachable
  <1>8. Fresh'
    BY <1>1, <1>5 DEF Fresh
  <1> QED BY <1>6, <1>7, <1>8 DEF IInv

LEMMA OutsideOK ==
    ASSUME IInv, Die \/ (\E s \in Storages : Mount(s)) \/ UNCHANGED vars
    PROVE  IInv'
  <1>1. CASE Die
    <2>1. /\ ends < MaxEnds /\ ends' = ends + 1 /\ InstalledApp'
          /\ UNCHANGED <<mounted, directories, pref, choices, forgotten>>
      BY <1>1 DEF Die, Goto, InstalledApp
    <2>2. ScalarsOK'
      <3>1. ends' \in 0 .. MaxEnds
        BY <2>1, StorageAssumption DEF IInv, ScalarsOK
      <3>2. first' \in BOOLEAN
        BY <2>1 DEF InstalledApp
      <3> QED BY <2>1, <3>1, <3>2 DEF IInv, ScalarsOK, Steps, InstalledApp
    <2>3. PathsOK'
      BY <2>1 DEF IInv, PathsOK, IsRoot, InstalledApp
    <2>4. StepsOK'
      BY <2>1 DEF StepsOK, InstalledApp
    <2>5. RootInUse' /\ UserDirsKept' /\ Fresh'
      BY <2>1 DEF IInv, RootInUse, UserDirsKept, Fresh, Planned, InstalledApp
    <2> QED BY <2>2, <2>3, <2>4, <2>5 DEF IInv
  <1>2. ASSUME NEW s \in Storages, Mount(s) PROVE IInv'
    <2>1. /\ at = "dead" /\ mounted' \subseteq mounted \cup {s}
          /\ UNCHANGED <<directories, pref, rootDirectory, at, target, first, choices, ends, forgotten>>
      BY <1>2 DEF Mount, process
    <2>2. ScalarsOK' /\ PathsOK'
      BY <2>1 DEF IInv, ScalarsOK, PathsOK
    <2>3. StepsOK'
      BY <2>1 DEF IInv, StepsOK, InstalledApp
    <2>4. RootInUse' /\ UserDirsKept' /\ Fresh'
      BY <2>1 DEF IInv, RootInUse, UserDirsKept, Fresh, Planned
    <2> QED BY <2>2, <2>3, <2>4 DEF IInv
  <1>3. CASE UNCHANGED vars
    BY <1>3 DEF vars, process, IInv, ScalarsOK, PathsOK, StepsOK, RootInUse, UserDirsKept, Fresh,
       Planned, InstalledApp, Exists, Reachable, DefaultRootDirectory
  <1> QED BY <1>1, <1>2, <1>3

LEMMA NextOK == IInv /\ [Next]_vars => IInv'
  BY InitStepsOK, SetRootOK, ChooseOK, WriteOK, OutsideOK DEF Next

(* The invariant holds in every behaviour.                                  *)
THEOREM Invariant == Spec => []IInv
  <1> QED BY InitOK, NextOK, PTL DEF Spec

(* The fields have their types, and every directory has its parents.        *)
THEOREM TypeCorrect == Spec => []TypeOK
  <1>1. IInv => TypeOK
    BY DEF IInv, ScalarsOK, PathsOK, DirsOK, IsRoot, TypeOK
  <1> QED BY Invariant, <1>1, PTL

(* A running application has the root directory its preferences name.       *)
THEOREM RootIsInUse == Spec => []RootInUse
  <1>1. IInv => RootInUse
    BY DEF IInv
  <1> QED BY Invariant, <1>1, PTL

(* No choice of a folder and no start deletes what the user keeps.          *)
THEOREM UserDirsAreKept == Spec => []UserDirsKept
  <1>1. IInv => UserDirsKept
    BY DEF IInv
  <1> QED BY Invariant, <1>1, PTL

(* Downloads are deleted by a choice of a folder, or by a start after one   *)
(* that has not found the root, and by nothing else.                        *)
THEOREM DownloadsAreKept == Spec => DownloadsKept
  <1> DEFINE Kept == \A d \in directories \ directories' :
                        Last(d) = DOWNLOADS_FOLDER_NAME => at = "delete" \/ (at = "clear" /\ forgotten)
  <1>1. IInv /\ Next => Kept
    <2> SUFFICES ASSUME IInv, Next, NEW d \in directories, d \notin directories',
                        Last(d) = DOWNLOADS_FOLDER_NAME
                 PROVE  at = "delete" \/ (at = "clear" /\ forgotten)
      OBVIOUS
    <2>1. CASE DeleteRoot
      BY <2>1 DEF DeleteRoot
    <2>2. CASE ClearRootDirectory
      <3>1. /\ at = "clear" /\ ClearDirectory(rootDirectory) /\ Exists(rootDirectory)
            /\ rootDirectory # NoDirectory
        BY <2>2 DEF ClearRootDirectory, IInv, StepsOK, Exists, Reachable
      <3>2. rootDirectory \in Directory /\ Last(rootDirectory) = ROOT_FOLDER_NAME /\ d \in Directory
        BY <3>1 DEF IInv, PathsOK, IsRoot, DirsOK
      <3>3. IsPrefix(rootDirectory, d)
        BY <3>1, <3>2, DeleteFacts DEF IInv, PathsOK
      <3>4. OwnDownloads(d)
        BY <3>2, <3>3, InsideRoot DEF OwnDownloads
      <3> QED BY <3>1, <3>4 DEF IInv, Fresh
    <2>3. CASE ~DeleteRoot /\ ~ClearRootDirectory
      <3>1. directories' = directories \/ \E e : MakeDirs(e)
        BY <2>3 DEF Next, InitFirst, InitAgain, InitForget, InitDefault, AdoptRoot, MakeRoot, CommitRoot,
           ChooseFolder, Write, Die, Mount
      <3> QED BY <3>1 DEF MakeDirs
    <2> QED BY <2>1, <2>2, <2>3
  <1>2. IInv /\ [Next]_vars => [Kept]_vars
    BY <1>1
  <1> QED BY Invariant, <1>2, PTL DEF Spec, DownloadsKept
=============================================================================
