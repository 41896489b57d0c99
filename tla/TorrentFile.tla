---------------------------- MODULE TorrentFile -----------------------------
(***************************************************************************)
(* A torrent file that is opened from outside: Bencode decodes it,         *)
(* Metadata and VideoCustomFragment list its videos, the user picks one,   *)
(* and setFilePriority (FilePriority) looks for it by its name in the list *)
(* of files that libtorrent has read from the same file.                   *)
(***************************************************************************)
EXTENDS FilePriority

CONSTANTS
    Parts,   \* names of files and of directories
    Paths,   \* paths of files inside of a torrent, sequences of those
    Videos   \* the names that end like a video

\* No name on a disk is empty.
ASSUME PathAssumption ==
    /\ NoName \notin Parts
    /\ Paths \subseteq Seq(Parts) \ {<<>>}
    /\ \A path \in Paths : Last(path) \in Names

VARIABLES
    torrent, \* the file on the disk
    opened,  \* its metadata has been read by the screen
    listed,  \* the videos in the spinner: filesData with sizesData
    picked   \* fileName with fileSize, or NoPick

screenVars == <<torrent, opened, listed, picked>>

-----------------------------------------------------------------------------
\* A file is a sequence of tokens: a number or a string with its delimiters,
\* or the symbol that begins a dictionary or a list or ends either.
Symbol(c) == [is |-> c]
Text(s)   == [is |-> "string", text |-> s]
Number(n) == [is |-> "number", number |-> n]

\* What a program that makes torrents writes, in the form for one file or for
\* several, and a prefix of it when the file was cut.
WriteFile(f) ==
    <<Symbol("d"), Text("length"), Number(f.size), Text("path"), Symbol("l")>>
        \o [k \in DOMAIN f.path |-> Text(f.path[k])] \o <<Symbol("e"), Symbol("e")>>

WriteFiles(t) ==
    LET upTo[k \in 0 .. Len(t.files)] ==
            IF k = 0 THEN <<>> ELSE upTo[k - 1] \o WriteFile(t.files[k])
    IN  upTo[Len(t.files)]

WriteInfo(t) ==
    IF t.single
      THEN <<Text("length"), Number(t.files[1].size), Text("name"), Text(t.files[1].path[1])>>
      ELSE <<Text("files"), Symbol("l")>> \o WriteFiles(t)
               \o <<Symbol("e"), Text("name"), Text("folder")>>

Write(t) ==
    LET comment == IF t.comment = <<>> THEN <<>> ELSE <<Text("comment"), Text(t.comment[1])>>
        whole   == <<Symbol("d")>> \o comment \o <<Text("info"), Symbol("d")>>
                       \o WriteInfo(t) \o <<Symbol("e"), Symbol("e")>>
    IN  SubSeq(whole, 1, Len(whole) - t.cut)

-----------------------------------------------------------------------------
\* Bencode.Decoder reads a token at a time.  What it has come to is the end,
\* with a value or an exception, or a call that waits for the next token: of
\* decode for the whole file, of decodeList, or of decodeDictionary at a key
\* or at the value of one; "caller" is the call that gets what this one returns.
Read(v)   == [is |-> "value", value |-> v]
Exception == [is |-> "exception"]
Whole     == [is |-> "whole file"]

DecodeList(items, caller)     == [is |-> "list", items |-> items, caller |-> caller]
DecodeDictionary(map, caller) == [is |-> "dictionary", map |-> map, caller |-> caller]
DecodeValue(map, key, caller) == [is |-> "value of", map |-> map, key |-> key, caller |-> caller]

Put(map, key, v) == [x \in DOMAIN map \cup {key} |-> IF x = key THEN v ELSE map[x]]

\* The list or dictionary of a call.
Decoded(call) ==
    IF call.is = "list" THEN [is |-> "list", items |-> call.items]
                        ELSE [is |-> "dictionary", map |-> call.map]

Returned(v, call) ==
    IF call.is = "whole file" THEN Read(v)
    ELSE IF call.is = "list" THEN DecodeList(Append(call.items, v), call.caller)
    ELSE DecodeDictionary(Put(call.map, call.key, v), call.caller)

\* A string begins with 1 to 9 here: the empty one, "0:", is an illegal symbol.
Decode(c, call) ==
    IF c.is = "d" THEN DecodeDictionary(<<>>, call)
    ELSE IF c.is = "l" THEN DecodeList(<<>>, call)
    ELSE IF c.is = "number" \/ (c.is = "string" /\ c.text # NoName) THEN Returned(c, call)
    ELSE Exception

\* A key may be empty: it is read as a string, whatever it begins with.
NextToken(call, c) ==
    IF call.is \in {"value", "exception"} THEN call
    ELSE IF call.is \in {"list", "dictionary"} /\ c.is = "e"
      THEN Returned(Decoded(call), call.caller)
    ELSE IF call.is # "dictionary" THEN Decode(c, call)
    ELSE IF c.is = "string" THEN DecodeValue(call.map, c.text, call.caller)
    ELSE Exception

\* What a call has come to after some tokens.
After(call, t) ==
    LET upTo[k \in 0 .. Len(t)] == IF k = 0 THEN call ELSE NextToken(upTo[k - 1], t[k])
    IN  upTo[Len(t)]

\* The input must not end before there is a value; what follows is not read.
Decoder(t) == IF After(Whole, t).is = "value" THEN After(Whole, t) ELSE Exception

-----------------------------------------------------------------------------
\* Metadata
Null == [is |-> "null"]
GetValue(d, key) == IF d.is = "dictionary" /\ key \in DOMAIN d.map THEN d.map[key] ELSE Null

Entry(name, length) == [name |-> name, size |-> length]
NoPick == Entry(NoName, 0)

AddToFiles(entries, part, length) ==
    IF part \in Videos THEN Append(entries, Entry(part, length)) ELSE entries

AddFile_FirstOnly(entries, file) ==
    AddToFiles(entries, GetValue(file, "path").items[1].text, GetValue(file, "length").number)

\* Each part of the path that ends like a video has an entry, directories
\* included.
AddFile(entries, file) ==
    LET path == GetValue(file, "path").items
        upTo[k \in 0 .. Len(path)] ==
            IF k = 0 THEN entries
            ELSE AddToFiles(upTo[k - 1], path[k].text, GetValue(file, "length").number)
    IN  upTo[Len(path)]

AddFiles(many) ==
    LET upTo[k \in 0 .. Len(many)] ==
            IF k = 0 THEN <<>> ELSE AddFile(upTo[k - 1], many[k])
    IN  upTo[Len(many)]

Listing(t) ==
    LET read == Decoder(t)
        info == GetValue(read.value, "info")
        many == GetValue(info, "files")
    IN  IF read.is = "exception" THEN <<>>
        ELSE IF many # Null THEN AddFiles(many.items)
        ELSE AddToFiles(<<>>, GetValue(info, "name").text, GetValue(info, "length").number)

-----------------------------------------------------------------------------
\* The paths of one torrent can all exist; only small torrents have a comment,
\* perhaps an empty one, or are cut (bound).
Torrents ==
    {t \in UNION {[files : [1 .. n -> [path : Paths, size : Sizes]], single : BOOLEAN,
                   comment : {<<>>, <<NoName>>, <<"text">>}, cut : {0, 1, 4}]
                      : n \in 1 .. MaxFiles} :
        /\ \A i, j \in DOMAIN t.files : i # j => ~IsPrefix(t.files[i].path, t.files[j].path)
        /\ t.single => Len(t.files) = 1 /\ Len(t.files[1].path) = 1
        /\ Len(t.files) > 1 => t.comment = <<>> /\ t.cut = 0}

\* libtorrent names a file by its whole path, of which setFilePriority looks at
\* the last part.
Native(t) == [i \in DOMAIN t.files |-> [name |-> Last(t.files[i].path), size |-> t.files[i].size]]

ScreenInit ==
    /\ torrent \in Torrents /\ files = Native(torrent) /\ Added
    /\ opened = FALSE /\ listed = <<>> /\ picked = NoPick

ParseMetadata ==
    /\ ~opened /\ calls = 0
    /\ opened' = TRUE /\ listed' = Listing(Write(torrent))
    /\ UNCHANGED <<vars, torrent, picked>>

OnItemSelected(p) ==
    /\ picked' = listed[p]
    /\ UNCHANGED <<vars, torrent, opened, listed>>

\* The picked video is watched or downloaded.
HandleWatch ==
    /\ picked # NoPick
    /\ SetFilePriority(picked.name)
    /\ UNCHANGED screenVars

\* The name of a file in a catalogue may not be one of the torrent.
WatchFromCatalogue ==
    /\ ~opened /\ torrent.cut = 0
    /\ Next
    /\ UNCHANGED screenVars

ScreenNext ==
    \/ ParseMetadata \/ HandleWatch \/ WatchFromCatalogue
    \/ \E p \in DOMAIN listed : OnItemSelected(p)

TorrentSpec == ScreenInit /\ [][ScreenNext]_<<vars, screenVars>>

-----------------------------------------------------------------------------
Readable(t) == t.cut = 0 /\ t.comment # <<NoName>>
Shown(i)    == Entry(files[i].name, files[i].size)

(* Every video of a whole torrent is in the list with its size, unless the  *)
(* file holds an empty string, and nothing of a broken one is; and the file *)
(* that is loaded is the one that was picked, if no other has its name.     *)
PickedIsLoaded ==
    /\ opened => IF Readable(torrent)
                   THEN \A i \in DOMAIN files :
                            files[i].name \in Videos => Shown(i) \in ToSet(listed)
                   ELSE listed = <<>>
    /\ calls > 0 /\ opened => \A i \in DOMAIN files :
           Named = {i} /\ fileName = picked.name /\ Shown(i) = picked =>
               location = i /\ size = Reported(picked.size) /\ Wanted = {i}
=============================================================================
