---------------------------- MODULE SubtitleFile ----------------------------
(***************************************************************************)
(* The conversions of a file of subtitles: Subtitles.load writes what      *)
(* SRT.convert makes of the file that was downloaded, and VTT.convert makes *)
(* the file for the Chromecast out of that.  A line is what the code can   *)
(* tell of it, and its number in the first file; a BOM at the start, which *)
(* both skip, and the colour of the text are left out.                     *)
(***************************************************************************)
EXTENDS Integers, SequencesExt

CONSTANT MaxLines  \* bound: lines of a file

ASSUME LineAssumption == MaxLines \in Nat

VARIABLES
    source,  \* the file in the archive
    srt,     \* what is saved at mSubtitlePath, or NoFile
    vtt      \* what is saved at mVTTSubtitlePath, or NoFile

subtitleVars == <<source, srt, vtt>>

\* "time" has two times around its arrow and "arrow" only one; "spaces" is a
\* line that is only empty after trim; "font" is a text with a font tag, and
\* "tags" one that has nothing else.
Kinds == {"number", "time", "arrow", "text", "font", "empty", "spaces"}
Line(kind, no) == [kind |-> kind, no |-> no]
Blank  == Line("empty", 0)
NoFile == <<Line("no file", 0)>>

IsA(lines, i, kinds) == i \in DOMAIN lines /\ lines[i].kind \in kinds
IsNumber(lines, i) == IsA(lines, i, {"number"})
IsTime(lines, i)   == IsA(lines, i, {"time", "arrow"})

-----------------------------------------------------------------------------
Trim(text) ==
    LET words == {i \in DOMAIN text : text[i].kind # "spaces"}
    IN  IF words = {} THEN <<Line("tags", 0)>>
        ELSE SubSeq(text, CHOOSE i \in words : \A j \in words : i <= j,
                          CHOOSE i \in words : \A j \in words : i >= j)

\* Lines of spaces were trimmed; a text without a font tag is put between two.
Coloured(text) ==
    LET lines == IF \E i \in DOMAIN text : text[i].kind = "font" THEN text ELSE Trim(text)
    IN  [i \in DOMAIN lines |-> IF lines[i].kind = "spaces" THEN Blank ELSE lines[i]]

\* What SRT.convert has written, and where it is: outside of the cues, before
\* the time of one, or in readSrtCue with the text so far.
Srt(at, out, text) == [at |-> at, out |-> out, text |-> text]

EndCue(w) == w.out \o Coloured(w.text) \o <<Blank>>

FindNumber(w, line) ==
    IF line.kind = "number" THEN Srt("time", Append(w.out, line), <<>>) ELSE w

ReadTime(w, line) ==
    IF line.kind \in {"time", "arrow"} THEN Srt("text", Append(w.out, line), <<>>)
                                       ELSE Srt("failed", <<>>, <<>>)

ReadText_TakeNumber(w, line) ==
    IF line.kind \in {"empty", "number"} THEN Srt("outside", EndCue(w), <<>>)
    ELSE Srt("text", w.out, Append(w.text, line))

\* The empty line that ends a text is gone, a number is read again.
ReadText(w, line) ==
    IF line.kind = "empty" THEN Srt("outside", EndCue(w), <<>>)
    ELSE IF line.kind = "number" THEN Srt("time", Append(EndCue(w), line), <<>>)
    ELSE Srt("text", w.out, Append(w.text, line))

SrtLine(w, line) ==
    IF w.at = "outside" THEN FindNumber(w, line)
    ELSE IF w.at = "time" THEN ReadTime(w, line)
    ELSE IF w.at = "text" THEN ReadText(w, line)
    ELSE w

ReadSrt(lines) ==
    LET upTo[k \in 0 .. Len(lines)] ==
            IF k = 0 THEN Srt("outside", <<>>, <<>>) ELSE SrtLine(upTo[k - 1], lines[k])
    IN  upTo[Len(lines)]

\* SRT.convert: an exception empties what was written, and the end of the file
\* is one where a time should be.
ConvertSrt(lines) ==
    LET w == ReadSrt(lines)
    IN  IF w.at = "text" THEN EndCue(w) ELSE IF w.at = "outside" THEN w.out ELSE <<>>

-----------------------------------------------------------------------------
NoTags(line) ==
    CASE line.kind = "font" -> Line("text", line.no)
      [] line.kind \in {"tags", "spaces"} -> Blank
      [] OTHER -> line

\* The same for VTT.convert and readVttCue, which writes a text as it reads it.
Vtt(at, out) == [at |-> at, out |-> out]

ReadVttTime(w, line) ==
    IF line.kind = "time" THEN Vtt("text", Append(w.out, Line("cue", line.no)))
                          ELSE Vtt("failed", <<>>)

\* An empty line does not end the text here.
ReadVttText(w, line) ==
    IF line.kind = "number" THEN Vtt("time", w.out)
                            ELSE Vtt("text", Append(w.out, NoTags(line)))

VttLine(w, line) ==
    IF w.at = "outside" THEN IF line.kind = "number" THEN Vtt("time", w.out) ELSE w
    ELSE IF w.at = "time" THEN ReadVttTime(w, line)
    ELSE IF w.at = "text" THEN ReadVttText(w, line)
    ELSE w

ReadVtt(lines) ==
    LET upTo[k \in 0 .. Len(lines)] ==
            IF k = 0 THEN Vtt("outside", <<Line("WEBVTT", 0), Blank>>)
                     ELSE VttLine(upTo[k - 1], lines[k])
    IN  upTo[Len(lines)]

Failed == <<Line("failed", 0)>>

\* VTT.convert, that answers false after an exception.
ConvertVtt(lines) ==
    LET w == ReadVtt(lines) IN IF w.at \in {"outside", "text"} THEN w.out ELSE Failed

-----------------------------------------------------------------------------
SubtitleInit == source = <<>> /\ srt = NoFile /\ vtt = NoFile

\* The file in the archive, one line more.
NextLine(kind) ==
    /\ srt = NoFile /\ Len(source) < MaxLines
    /\ source' = Append(source, Line(kind, Len(source) + 1))
    /\ UNCHANGED <<srt, vtt>>

Load ==
    /\ srt = NoFile /\ srt' = ConvertSrt(source)
    /\ UNCHANGED <<source, vtt>>

OnCastConnection ==
    /\ srt # NoFile /\ vtt = NoFile /\ vtt' = ConvertVtt(srt)
    /\ UNCHANGED <<source, srt>>

SubtitleNext == Load \/ OnCastConnection \/ \E kind \in Kinds : NextLine(kind)

SubtitleSpec == SubtitleInit /\ [][SubtitleNext]_subtitleVars

-----------------------------------------------------------------------------
\* What a player reads in a file: after the time of a cue the lines below it,
\* up to the first empty one or the next cue.
Starts(lines) ==
    {i \in DOMAIN lines : IsA(lines, i, {"cue"}) \/ (IsNumber(lines, i - 1) /\ IsTime(lines, i))}

Open(lines, i, j) == \A k \in i + 1 .. j : ~IsA(lines, k, {"empty", "number", "cue"})

InCue(lines, i) ==
    {j \in i + 1 .. Len(lines) : Open(lines, i, j) /\ ~IsA(lines, j, {"spaces", "tags"})}

\* A line has a number of its own, by which it is the same in every file.
Times(lines) == {lines[i].no : i \in Starts(lines)}
Texts(lines) ==
    UNION {{<<lines[i].no, lines[j].no>> : j \in InCue(lines, i)} : i \in Starts(lines)}

InOrder(lines) ==
    \A i, j \in DOMAIN lines : i < j /\ lines[j].no # 0 => lines[i].no < lines[j].no

\* A number that no time follows, as it can be in a text; the others begin a cue.
NumberInText == \E i \in DOMAIN source : IsNumber(source, i) /\ ~IsTime(source, i + 1)

\* A line of spaces in a text becomes an empty one, which ends the cue.
SpacesInText == \E i \in DOMAIN source : IsA(source, i, {"spaces"})

SameCues(lines1, lines2) ==
    Times(lines1) = Times(lines2) /\ Texts(lines1) = Texts(lines2) /\ InOrder(lines1)

\* The texts end earlier.
CutCues(lines1, lines2) ==
    /\ Times(lines1) = Times(lines2) /\ InOrder(lines1)
    /\ Texts(lines1) \subseteq Texts(lines2)
    /\ \A p \in Texts(lines1), q \in Texts(lines2) :
           p[1] = q[1] /\ q[2] < p[2] => q \in Texts(lines1)

(* The saved file has every cue of the one that was downloaded, in order,   *)
(* each with its text, unless a line of the text is a number, which empties *)
(* the whole file, or is all spaces, which cuts the text; and the file for  *)
(* the Chromecast has the same cues, or is refused because a time has no    *)
(* end.                                                                     *)
CuesKept ==
    /\ srt # NoFile =>
          IF NumberInText THEN srt = <<>>
          ELSE IF SpacesInText THEN CutCues(srt, source)
          ELSE SameCues(srt, source)
    /\ vtt # NoFile =>
          IF vtt = Failed
            THEN \E i \in DOMAIN srt : IsNumber(srt, i) /\ ~IsA(srt, i + 1, {"time"})
            ELSE SameCues(vtt, srt)
=============================================================================
