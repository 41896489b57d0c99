------------------------ MODULE SubtitleFileProofs ------------------------
(***************************************************************************)
(* For files of any length: the conversions of Subtitles.load and of       *)
(* VTT.convert keep the cues (CuesKept).  The inductive invariant is over  *)
(* the lines that have been read: what is written shows the same times and *)
(* texts as these lines, both files are at the same place of a cue, and    *)
(* the text that SRT.convert still holds is the part of the file from the  *)
(* time of the cue on.                                                     *)
(*                                                                         *)
(* The first part says what one line more, or a text, adds to what a       *)
(* player shows of a file; of SmallPartsProofs only the lemmas about       *)
(* numbers and sequences are used.                                         *)
(***************************************************************************)
EXTENDS SubtitleFile, SmallPartsProofs

-----------------------------------------------------------------------------
(* A file of subtitles.                                                     *)

LinesHeld == [kind : Kinds \cup {"tags", "cue", "WEBVTT"}, no : Nat]

LastIsNumber(s) == IsNumber(s, Len(s))

(* The times of the cues to which a line at the end would belong.           *)
OpenTimes(s) == {s[i].no : i \in {i \in Starts(s) : Open(s, i, Len(s))}}

(* Lines that begin no cue, and those of them that are shown in one.        *)
Plain(u)   == \A m \in DOMAIN u : u[m].kind \notin {"number", "cue"}
NoneEmpty(u, m) == \A k \in 1 .. m : u[k].kind # "empty"
Visible(u) == {m \in DOMAIN u : NoneEmpty(u, m) /\ u[m].kind \notin {"spaces", "tags"}}

(* Lemma: more lines do not change what the ones before are.                *)
LEMMA MoreLines ==
  ASSUME NEW s \in Seq(LinesHeld), NEW c \in Seq(LinesHeld), Len(c) >= Len(s),
         \A i \in 1 .. Len(s) : c[i] = s[i]
  PROVE  /\ \A i \in 1 .. Len(s) : i \in Starts(c) <=> i \in Starts(s)
         /\ \A i, j \in 1 .. Len(s) : Open(c, i, j) <=> Open(s, i, j)
         /\ \A i, j \in 1 .. Len(s) : j \in InCue(c, i) <=> j \in InCue(s, i)
<1> DEFINE n == Len(s)
<1>1. n \in Nat /\ Len(c) \in Nat /\ DOMAIN s = 1 .. n /\ DOMAIN c = 1 .. Len(c)
  OBVIOUS
<1>2. ASSUME NEW i \in Int, i <= n, NEW kinds PROVE IsA(c, i, kinds) <=> IsA(s, i, kinds)
  BY <1>1, <1>2 DEF IsA
<1>3. ASSUME NEW i \in 1 .. n PROVE i \in Starts(c) <=> i \in Starts(s)
  <2>1. i - 1 \in Int /\ i - 1 <= n /\ i \in Int /\ i <= n
    BY <1>1
  <2>2. /\ IsA(c, i, {"cue"}) <=> IsA(s, i, {"cue"})
        /\ IsNumber(c, i - 1) <=> IsNumber(s, i - 1)
        /\ IsTime(c, i) <=> IsTime(s, i)
    BY <1>2, <2>1 DEF IsNumber, IsTime
  <2>3. i \in DOMAIN s /\ i \in DOMAIN c
    BY <1>1
  <2>4. QED
    BY <2>2, <2>3 DEF Starts
<1>4. ASSUME NEW i \in 1 .. n, NEW j \in 1 .. n PROVE Open(c, i, j) <=> Open(s, i, j)
  <2>1. \A k \in i + 1 .. j : k \in Int /\ k <= n
    BY <1>1
  <2>2. QED
    BY <1>2, <2>1 DEF Open
<1>5. ASSUME NEW i \in 1 .. n, NEW j \in 1 .. n PROVE j \in InCue(c, i) <=> j \in InCue(s, i)
  <2>1. IsA(c, j, {"spaces", "tags"}) <=> IsA(s, j, {"spaces", "tags"})
    BY <1>1, <1>2
  <2>2. j \in i + 1 .. Len(c) <=> j \in i + 1 .. Len(s)
    BY <1>1
  <2>3. QED
    BY <1>4, <2>1, <2>2 DEF InCue
<1>6. QED
  BY <1>3, <1>4, <1>5

(* Lemma: a line is shown with a time when it is in its cue.                *)
LEMMA TextsAt ==
  ASSUME NEW s, NEW p
  PROVE  p \in Texts(s) <=>
             \E i \in Starts(s) : \E j \in InCue(s, i) : p = <<s[i].no, s[j].no>>
BY DEF Texts

(* Lemma: more lines have their own times, and show their own lines.        *)
LEMMA MoreTexts ==
  ASSUME NEW s \in Seq(LinesHeld), NEW c \in Seq(LinesHeld), Len(c) >= Len(s),
         \A i \in 1 .. Len(s) : c[i] = s[i]
  PROVE  /\ Times(c) = Times(s) \cup {c[i].no : i \in {i \in Starts(c) : i > Len(s)}}
         /\ \A p : p \in Texts(c) <=>
                \/ p \in Texts(s)
                \/ \E i \in Starts(c) : \E j \in InCue(c, i) :
                       j > Len(s) /\ p = <<c[i].no, c[j].no>>
<1> DEFINE n == Len(s)
<1>1. /\ n \in Nat /\ Len(c) \in Nat /\ Len(c) >= n
      /\ Starts(s) \subseteq 1 .. n /\ Starts(c) \subseteq 1 .. Len(c)
  BY DEF Starts
<1>2. /\ \A i \in 1 .. n : i \in Starts(c) <=> i \in Starts(s)
      /\ \A i, j \in 1 .. n : j \in InCue(c, i) <=> j \in InCue(s, i)
  BY MoreLines
<1>3. \A i \in 1 .. n : c[i] = s[i]
  OBVIOUS
<1>4. \A i \in 1 .. Len(c) : \A j \in InCue(c, i) : j \in Int /\ i < j /\ j <= Len(c)
  BY <1>1 DEF InCue
<1>5. \A i \in 1 .. n : \A j \in InCue(s, i) : j \in Int /\ i < j /\ j <= n
  BY <1>1 DEF InCue
<1> HIDE DEF n
<1>6. Times(c) = Times(s) \cup {c[i].no : i \in {i \in Starts(c) : i > n}}
  BY <1>1, <1>2, <1>3 DEF Times
<1>7. ASSUME NEW p, p \in Texts(s) PROVE p \in Texts(c)
  <2>1. PICK i \in Starts(s) : \E j \in InCue(s, i) : p = <<s[i].no, s[j].no>>
    BY <1>7, TextsAt
  <2>2. PICK j \in InCue(s, i) : p = <<s[i].no, s[j].no>>
    BY <2>1
  <2>3. i \in 1 .. n /\ j \in 1 .. n /\ i \in Starts(c) /\ j \in InCue(c, i)
    BY <1>1, <1>2, <1>5
  <2>4. p = <<c[i].no, c[j].no>>
    BY <1>3, <2>2, <2>3
  <2>5. QED
    BY <2>3, <2>4, TextsAt
<1>8. ASSUME NEW p, p \in Texts(c), p \notin Texts(s)
      PROVE  \E i \in Starts(c) : \E j \in InCue(c, i) : j > n /\ p = <<c[i].no, c[j].no>>
  <2>0. PICK i \in Starts(c) : \E j \in InCue(c, i) : p = <<c[i].no, c[j].no>>
    BY <1>8, TextsAt
  <2>1. PICK j \in InCue(c, i) : p = <<c[i].no, c[j].no>>
    BY <2>0
  <2>2. i \in 1 .. Len(c) /\ j \in Int /\ i < j /\ j <= Len(c)
    BY <1>1, <1>4
  <2>3. CASE j > n
    BY <2>1, <2>3
  <2>4. CASE ~(j > n)
    <3>1. i \in 1 .. n /\ j \in 1 .. n
      BY <1>1, <2>2, <2>4
    <3>2. i \in Starts(s) /\ j \in InCue(s, i) /\ p = <<s[i].no, s[j].no>>
      BY <1>2, <1>3, <2>1, <3>1
    <3>3. p \in Texts(s)
      BY <3>2, TextsAt
    <3>4. QED
      BY <1>8, <3>3
  <2>5. QED
    BY <2>3, <2>4
<1>9. ASSUME NEW i \in Starts(c), NEW j \in InCue(c, i), NEW p, p = <<c[i].no, c[j].no>>
      PROVE  p \in Texts(c)
  BY <1>9, TextsAt
<1>10. QED
  BY <1>6, <1>7, <1>8, <1>9 DEF n

(* Lemma: a number ends the cue before it, and shows nothing itself.        *)
LEMMA NumberAfter ==
  ASSUME NEW s \in Seq(LinesHeld), NEW l \in LinesHeld, l.kind = "number",
         NEW c, c = Append(s, l)
  PROVE  /\ c \in Seq(LinesHeld) /\ LastIsNumber(c)
         /\ Times(c) = Times(s) /\ Texts(c) = Texts(s) /\ OpenTimes(c) = {}
<1> DEFINE n == Len(s)
<1>1. /\ n \in Nat /\ c \in Seq(LinesHeld) /\ Len(c) = n + 1 /\ DOMAIN c = 1 .. (n + 1)
      /\ \A i \in 1 .. n : c[i] = s[i]
      /\ c[n + 1] = l
  OBVIOUS
<1> HIDE DEF n
<1>2. IsA(c, n + 1, {"number"}) /\ IsA(c, n + 1, {"empty", "number", "cue"})
  BY <1>1 DEF IsA
<1>3. n + 1 \notin Starts(c)
  BY <1>1 DEF Starts, IsA, IsTime
<1>4. Starts(c) \subseteq 1 .. n
  BY <1>1, <1>3 DEF Starts
<1>5. \A i \in Starts(c) : ~Open(c, i, n + 1)
  BY <1>1, <1>2, <1>4 DEF Open
<1>6. \A i \in Starts(c) : \A j \in InCue(c, i) : ~(j > n)
  BY <1>1, <1>5 DEF InCue
<1>7. /\ Times(c) = Times(s) \cup {c[i].no : i \in {i \in Starts(c) : i > n}}
      /\ \A p : p \in Texts(c) <=>
             p \in Texts(s) \/ \E i \in Starts(c) : \E j \in InCue(c, i) :
                                   j > n /\ p = <<c[i].no, c[j].no>>
  <2>1. Len(c) >= n /\ c \in Seq(LinesHeld) /\ \A i \in 1 .. n : c[i] = s[i]
    BY <1>1
  <2>2. s \in Seq(LinesHeld)
    OBVIOUS
  <2>3. QED
    BY <2>1, <2>2, MoreTexts DEF n
<1>8. {i \in Starts(c) : i > n} = {}
  BY <1>1, <1>4
<1>9. Times(c) = Times(s)
  BY <1>7, <1>8
<1>10. Texts(c) = Texts(s)
  BY <1>6, <1>7
<1>11. OpenTimes(c) = {}
  BY <1>1, <1>5 DEF OpenTimes
<1>12. LastIsNumber(c)
  BY <1>1, <1>2 DEF LastIsNumber, IsNumber
<1>13. QED
  BY <1>1, <1>9, <1>10, <1>11, <1>12

(* Lemma: the time of a cue ends the one before and is the only one that is *)
(* open.                                                                    *)
LEMMA CueAfter ==
  ASSUME NEW s \in Seq(LinesHeld), NEW l \in LinesHeld, NEW c, c = Append(s, l),
         \/ l.kind = "cue"
         \/ l.kind \in {"time", "arrow"} /\ LastIsNumber(s)
  PROVE  /\ c \in Seq(LinesHeld) /\ ~LastIsNumber(c)
         /\ Times(c) = Times(s) \cup {l.no} /\ Texts(c) = Texts(s) /\ OpenTimes(c) = {l.no}
<1> DEFINE n == Len(s)
           ends == {"empty", "number", "cue"}
<1>1. /\ n \in Nat /\ c \in Seq(LinesHeld) /\ Len(c) = n + 1 /\ DOMAIN c = 1 .. (n + 1)
      /\ \A i \in 1 .. n : c[i] = s[i]
      /\ c[n + 1] = l
  OBVIOUS
<1>2. LastIsNumber(s) => n \in 1 .. n /\ IsA(c, n, {"number"})
  BY <1>1 DEF LastIsNumber, IsNumber, IsA
<1> HIDE DEF n
<1>3. n + 1 \in Starts(c)
  <2>1. CASE l.kind = "cue"
    BY <1>1, <2>1 DEF Starts, IsA
  <2>2. CASE l.kind \in {"time", "arrow"} /\ LastIsNumber(s)
    <3>1. IsTime(c, n + 1)
      BY <1>1, <2>2 DEF IsTime, IsA
    <3>2. IsNumber(c, (n + 1) - 1)
      BY <1>1, <1>2, <2>2 DEF IsNumber
    <3>3. QED
      BY <1>1, <3>1, <3>2 DEF Starts
  <2>3. QED
    BY <2>1, <2>2
<1>4. ASSUME NEW i \in Starts(c), i # n + 1 PROVE ~Open(c, i, n + 1) /\ i \in 1 .. n
  <2>1. i \in 1 .. n
    BY <1>1, <1>4 DEF Starts
  <2>2. CASE l.kind = "cue"
    <3>1. IsA(c, n + 1, ends)
      BY <1>1, <2>2 DEF IsA
    <3>2. n + 1 \in i + 1 .. n + 1
      BY <1>1, <2>1
    <3>3. QED
      BY <2>1, <3>1, <3>2 DEF Open
  <2>3. CASE l.kind # "cue"
    <3>1. IsA(c, n, {"number"}) /\ c[n].kind = "number"
      BY <1>2, <2>3 DEF IsA
    <3>2. IsA(c, n, ends)
      BY <3>1 DEF IsA
    <3>3. i # n
      <4>1. ~IsA(c, n, {"cue"}) /\ ~IsTime(c, n)
        BY <3>1 DEF IsA, IsTime
      <4>2. QED
        BY <4>1 DEF Starts
    <3>4. n \in i + 1 .. n + 1
      BY <1>1, <2>1, <3>3
    <3>5. QED
      BY <2>1, <3>2, <3>4 DEF Open
  <2>4. QED
    BY <2>2, <2>3
<1>5. Open(c, n + 1, n + 1)
  BY <1>1 DEF Open
<1>6. \A i \in Starts(c) : \A j \in InCue(c, i) : ~(j > n)
  <2> SUFFICES ASSUME NEW i \in Starts(c), NEW j \in InCue(c, i), j > n PROVE FALSE
    OBVIOUS
  <2>1. j \in i + 1 .. n + 1 /\ Open(c, i, j) /\ i \in Int
    BY <1>1 DEF InCue, Starts
  <2>2. j = n + 1 /\ i # n + 1
    BY <1>1, <2>1
  <2>3. QED
    BY <1>4, <2>1, <2>2
<1>7. /\ Times(c) = Times(s) \cup {c[i].no : i \in {i \in Starts(c) : i > n}}
      /\ \A p : p \in Texts(c) <=>
             p \in Texts(s) \/ \E i \in Starts(c) : \E j \in InCue(c, i) :
                                   j > n /\ p = <<c[i].no, c[j].no>>
  <2>1. Len(c) >= n /\ c \in Seq(LinesHeld) /\ \A i \in 1 .. n : c[i] = s[i]
    BY <1>1
  <2>2. s \in Seq(LinesHeld)
    OBVIOUS
  <2>3. QED
    BY <2>1, <2>2, MoreTexts DEF n
<1>8. {i \in Starts(c) : i > n} = {n + 1}
  BY <1>1, <1>3, <1>4
<1>9. Times(c) = Times(s) \cup {l.no}
  BY <1>1, <1>7, <1>8
<1>10. Texts(c) = Texts(s)
  BY <1>6, <1>7
<1>11. {i \in Starts(c) : Open(c, i, n + 1)} = {n + 1}
  BY <1>3, <1>4, <1>5
<1>12. OpenTimes(c) = {l.no}
  BY <1>1, <1>11 DEF OpenTimes
<1>13. ~LastIsNumber(c)
  BY <1>1 DEF LastIsNumber, IsNumber, IsA
<1>14. QED
  BY <1>1, <1>9, <1>10, <1>12, <1>13

(* Lemma: other lines belong to the cue that is open, up to an empty one.   *)
LEMMA PlainLines ==
  ASSUME NEW s \in Seq(LinesHeld), NEW u \in Seq(LinesHeld), NEW c \in Seq(LinesHeld),
         Len(c) = Len(s) + Len(u), \A i \in 1 .. Len(s) : c[i] = s[i],
         \A m \in 1 .. Len(u) : c[Len(s) + m] = u[m],
         Plain(u), ~LastIsNumber(s)
  PROVE  /\ ~LastIsNumber(c)
         /\ Times(c) = Times(s)
         /\ OpenTimes(c) = IF NoneEmpty(u, Len(u)) THEN OpenTimes(s) ELSE {}
         /\ \A p : p \in Texts(c) <=>
                p \in Texts(s) \/ \E t \in OpenTimes(s) : \E m \in Visible(u) : p = <<t, u[m].no>>
<1> DEFINE n == Len(s)
           k == Len(u)
           ends == {"empty", "number", "cue"}
<1>1. /\ n \in Nat /\ k \in Nat /\ c \in Seq(LinesHeld) /\ Len(c) = n + k
      /\ DOMAIN c = 1 .. (n + k) /\ DOMAIN s = 1 .. n /\ DOMAIN u = 1 .. k
      /\ \A i \in 1 .. n : c[i] = s[i]
  OBVIOUS
<1>2. \A m \in 1 .. k : c[n + m] = u[m] /\ u[m].kind \notin {"number", "cue"}
  BY DEF Plain
<1>3. n \in 1 .. n => s[n].kind # "number"
  BY <1>1 DEF LastIsNumber, IsNumber, IsA
<1>4. \A m \in Visible(u) : m \in 1 .. k
  BY <1>1 DEF Visible
<1> HIDE DEF n, k
<1>5. ASSUME NEW m \in 1 .. k
      PROVE  /\ n + m \in DOMAIN c /\ n + m \notin Starts(c)
             /\ IsA(c, n + m, ends) <=> u[m].kind = "empty"
             /\ IsA(c, n + m, {"spaces", "tags"}) <=> u[m].kind \in {"spaces", "tags"}
             /\ ~IsA(c, n + m, {"number"})
  <2>1. n + m \in DOMAIN c /\ c[n + m] = u[m] /\ u[m].kind \notin {"number", "cue"}
    BY <1>1, <1>2
  <2>2. ~IsA(c, n + m, {"cue"})
    BY <2>1 DEF IsA
  <2>3. ~IsNumber(c, (n + m) - 1)
    <3> DEFINE i == (n + m) - 1
    <3>1. CASE m = 1
      <4>1. i = n
        BY <1>1, <3>1
      <4>2. i \in DOMAIN c => i \in 1 .. n /\ c[i] = s[n]
        BY <1>1, <4>1
      <4>3. QED
        BY <1>3, <4>1, <4>2 DEF IsNumber, IsA
    <3>2. CASE m # 1
      <4>1. m - 1 \in 1 .. k /\ i = n + (m - 1)
        BY <1>1, <3>2
      <4>2. c[i].kind # "number"
        BY <1>2, <4>1
      <4>3. QED
        BY <4>2 DEF IsNumber, IsA
    <3>3. QED
      BY <3>1, <3>2
  <2>4. n + m \notin Starts(c)
    BY <2>2, <2>3 DEF Starts
  <2>5. QED
    BY <2>1, <2>4 DEF IsA
<1>6. Starts(c) \subseteq 1 .. n
  <2> SUFFICES ASSUME NEW i \in Starts(c), i \notin 1 .. n PROVE FALSE
    OBVIOUS
  <2>1. i - n \in 1 .. k /\ i = n + (i - n)
    BY <1>1 DEF Starts
  <2>2. QED
    BY <1>5, <2>1
<1>7. /\ \A i \in 1 .. n : i \in Starts(c) <=> i \in Starts(s)
      /\ \A i, j \in 1 .. n : Open(c, i, j) <=> Open(s, i, j)
  <2>1. Len(c) >= n /\ c \in Seq(LinesHeld) /\ \A i \in 1 .. n : c[i] = s[i]
    BY <1>1
  <2>2. QED
    BY <2>1, MoreLines DEF n
<1>8. Starts(c) = Starts(s)
  <2>1. Starts(s) \subseteq 1 .. n
    BY <1>1 DEF Starts
  <2>2. QED
    BY <1>6, <1>7, <2>1
<1>9. ASSUME NEW i \in 1 .. n, NEW m \in 0 .. k
      PROVE  Open(c, i, n + m) <=> Open(s, i, n) /\ NoneEmpty(u, m)
  <2>1. n \in 1 .. n
    BY <1>1
  <2>2. Open(c, i, n) <=> Open(s, i, n)
    BY <1>7, <2>1
  <2>3. \A j \in i + 1 .. n : j \in i + 1 .. n + m
    BY <1>1
  <2>4. \A x \in 1 .. m : n + x \in i + 1 .. n + m /\ x \in 1 .. k
    BY <1>1
  <2>5. ASSUME Open(c, i, n + m) PROVE Open(c, i, n) /\ NoneEmpty(u, m)
    <3>1. Open(c, i, n)
      BY <2>3, <2>5 DEF Open
    <3>2. ASSUME NEW x \in 1 .. m PROVE u[x].kind # "empty"
      <4>1. ~IsA(c, n + x, ends)
        BY <2>4, <2>5 DEF Open
      <4>2. QED
        BY <1>5, <2>4, <4>1
    <3>3. QED
      BY <3>1, <3>2 DEF NoneEmpty
  <2>6. ASSUME Open(c, i, n), NoneEmpty(u, m) PROVE Open(c, i, n + m)
    <3>1. ASSUME NEW j \in i + 1 .. n + m PROVE ~IsA(c, j, ends)
      <4>1. CASE j <= n
        <5>1. j \in i + 1 .. n
          BY <1>1, <4>1
        <5>2. QED
          BY <2>6, <5>1 DEF Open
      <4>2. CASE ~(j <= n)
        <5>1. j - n \in 1 .. m /\ j - n \in 1 .. k /\ n + (j - n) = j
          BY <1>1, <4>2
        <5>2. u[j - n].kind # "empty"
          BY <2>6, <5>1 DEF NoneEmpty
        <5>3. QED
          BY <1>5, <5>1, <5>2
      <4>3. QED
        BY <4>1, <4>2
    <3>2. QED
      BY <3>1 DEF Open
  <2>7. QED
    BY <2>2, <2>5, <2>6
<1>10. ASSUME NEW i \in 1 .. n, NEW m \in 1 .. k
       PROVE  n + m \in InCue(c, i) <=> Open(s, i, n) /\ m \in Visible(u)
  <2>1. n + m \in i + 1 .. Len(c) /\ m \in 0 .. k /\ m \in DOMAIN u
    BY <1>1
  <2>2. n + m \in InCue(c, i) <=> Open(c, i, n + m) /\ ~IsA(c, n + m, {"spaces", "tags"})
    BY <2>1 DEF InCue
  <2>3. QED
    BY <1>5, <1>9, <2>1, <2>2 DEF Visible
<1>11. /\ Times(c) = Times(s) \cup {c[i].no : i \in {i \in Starts(c) : i > n}}
       /\ \A p : p \in Texts(c) <=>
              p \in Texts(s) \/ \E i \in Starts(c) : \E j \in InCue(c, i) :
                                    j > n /\ p = <<c[i].no, c[j].no>>
  <2>1. Len(c) >= n /\ c \in Seq(LinesHeld) /\ \A i \in 1 .. n : c[i] = s[i]
    BY <1>1
  <2>2. QED
    BY <2>1, MoreTexts DEF n
<1>12. Times(c) = Times(s)
  <2>1. {i \in Starts(c) : i > n} = {}
    BY <1>1, <1>6
  <2>2. QED
    BY <1>11, <2>1
<1>13. ASSUME NEW i \in Starts(c), NEW j \in InCue(c, i), j > n
       PROVE  \E t \in OpenTimes(s) : \E m \in Visible(u) : <<c[i].no, c[j].no>> = <<t, u[m].no>>
  <2>1. i \in 1 .. n /\ i \in Starts(s) /\ c[i] = s[i]
    BY <1>1, <1>6, <1>8
  <2>2. j - n \in 1 .. k /\ n + (j - n) = j
    BY <1>1, <1>13, <2>1 DEF InCue
  <2>3. Open(s, i, n) /\ j - n \in Visible(u) /\ c[j] = u[j - n]
    BY <1>2, <1>10, <2>1, <2>2
  <2>4. s[i].no \in OpenTimes(s)
    BY <2>1, <2>3 DEF OpenTimes, n
  <2>5. QED
    BY <2>1, <2>3, <2>4
<1>14. ASSUME NEW t \in OpenTimes(s), NEW m \in Visible(u)
       PROVE  \E i \in Starts(c) : \E j \in InCue(c, i) :
                  j > n /\ <<t, u[m].no>> = <<c[i].no, c[j].no>>
  <2>1. PICK i \in Starts(s) : Open(s, i, n) /\ t = s[i].no
    BY DEF OpenTimes, n
  <2>2. i \in 1 .. n /\ i \in Starts(c) /\ c[i] = s[i]
    BY <1>1, <1>6, <1>8
  <2>3. m \in 1 .. k /\ n + m > n
    BY <1>1, <1>4
  <2>4. n + m \in InCue(c, i) /\ c[n + m] = u[m]
    BY <1>2, <1>10, <2>1, <2>2, <2>3
  <2>5. QED
    BY <2>1, <2>2, <2>3, <2>4
<1>15. \A p : p \in Texts(c) <=>
           p \in Texts(s) \/ \E t \in OpenTimes(s) : \E m \in Visible(u) : p = <<t, u[m].no>>
  <2> SUFFICES ASSUME NEW p
               PROVE  p \in Texts(c) <=>
                          \/ p \in Texts(s)
                          \/ \E t \in OpenTimes(s) : \E m \in Visible(u) : p = <<t, u[m].no>>
    OBVIOUS
  <2>1. p \in Texts(c) <=>
            p \in Texts(s) \/ \E i \in Starts(c) : \E j \in InCue(c, i) :
                                  j > n /\ p = <<c[i].no, c[j].no>>
    BY <1>11
  <2>2. ASSUME NEW i \in Starts(c), NEW j \in InCue(c, i), j > n, p = <<c[i].no, c[j].no>>
        PROVE  \E t \in OpenTimes(s) : \E m \in Visible(u) : p = <<t, u[m].no>>
    BY <1>13, <2>2
  <2>3. ASSUME NEW t \in OpenTimes(s), NEW m \in Visible(u), p = <<t, u[m].no>>
        PROVE  \E i \in Starts(c) : \E j \in InCue(c, i) : j > n /\ p = <<c[i].no, c[j].no>>
    BY <1>14, <2>3
  <2>4. QED
    BY <2>1, <2>2, <2>3
<1>16. OpenTimes(c) = IF NoneEmpty(u, k) THEN OpenTimes(s) ELSE {}
  <2>1. k \in 0 .. k /\ Len(c) = n + k
    BY <1>1
  <2>2. ASSUME NEW i \in Starts(c)
        PROVE  /\ Open(c, i, Len(c)) <=> Open(s, i, n) /\ NoneEmpty(u, k)
               /\ i \in Starts(s) /\ c[i] = s[i]
    BY <1>1, <1>6, <1>8, <1>9, <2>1
  <2>3. QED
    BY <1>8, <2>2 DEF OpenTimes, n
<1>17. ~LastIsNumber(c)
  <2>1. CASE k = 0
    <3>1. Len(c) = n /\ (n \in DOMAIN c => n \in 1 .. n /\ c[n] = s[n])
      BY <1>1, <2>1
    <3>2. QED
      BY <1>3, <3>1 DEF LastIsNumber, IsNumber, IsA
  <2>2. CASE k # 0
    <3>1. k \in Nat /\ k # 0 /\ Len(c) = n + k
      BY <1>1, <2>2
    <3>2. k \in 1 .. k
      BY <3>1
    <3>3. QED
      BY <1>5, <3>1, <3>2 DEF LastIsNumber, IsNumber
  <2>3. QED
    BY <2>1, <2>2
<1>18. QED
  BY <1>1, <1>12, <1>15, <1>16, <1>17 DEF k

(* Lemma: the same for two files, one behind the other.                     *)
LEMMA PlainAfter ==
  ASSUME NEW s \in Seq(LinesHeld), NEW u \in Seq(LinesHeld), NEW c, c = s \o u,
         Plain(u), ~LastIsNumber(s)
  PROVE  /\ c \in Seq(LinesHeld) /\ ~LastIsNumber(c)
         /\ Times(c) = Times(s)
         /\ OpenTimes(c) = IF NoneEmpty(u, Len(u)) THEN OpenTimes(s) ELSE {}
         /\ \A p : p \in Texts(c) <=>
                p \in Texts(s) \/ \E t \in OpenTimes(s) : \E m \in Visible(u) : p = <<t, u[m].no>>
<1>1. /\ c \in Seq(LinesHeld) /\ Len(c) = Len(s) + Len(u)
      /\ \A i \in 1 .. Len(s) : c[i] = s[i]
      /\ \A m \in 1 .. Len(u) : c[Len(s) + m] = u[m]
  OBVIOUS
<1>2. QED
  BY <1>1, PlainLines

(* Lemma: the same for one line.                                            *)
LEMMA LineAfter ==
  ASSUME NEW s \in Seq(LinesHeld), NEW l \in LinesHeld, NEW c, c = Append(s, l),
         l.kind \notin {"number", "cue"}, ~LastIsNumber(s)
  PROVE  /\ c \in Seq(LinesHeld) /\ ~LastIsNumber(c)
         /\ Times(c) = Times(s)
         /\ OpenTimes(c) = IF l.kind = "empty" THEN {} ELSE OpenTimes(s)
         /\ \A p : p \in Texts(c) <=>
                \/ p \in Texts(s)
                \/ /\ l.kind \notin {"empty", "spaces", "tags"}
                   /\ \E t \in OpenTimes(s) : p = <<t, l.no>>
<1> DEFINE u == <<l>>
<1>1. u \in Seq(LinesHeld) /\ Len(u) = 1 /\ DOMAIN u = {1} /\ u[1] = l /\ s \o u = c
  OBVIOUS
<1> HIDE DEF u
<1>2. Plain(u)
  BY <1>1 DEF Plain
<1>3. NoneEmpty(u, 1) <=> l.kind # "empty"
  BY <1>1 DEF NoneEmpty
<1>4. \A m : m \in Visible(u) <=> m = 1 /\ l.kind \notin {"empty", "spaces", "tags"}
  BY <1>1, <1>3 DEF Visible
<1>5. /\ c \in Seq(LinesHeld) /\ ~LastIsNumber(c) /\ Times(c) = Times(s)
      /\ OpenTimes(c) = IF NoneEmpty(u, Len(u)) THEN OpenTimes(s) ELSE {}
  BY <1>1, <1>2, PlainAfter
<1>6. ASSUME NEW p
      PROVE  p \in Texts(c) <=>
                 p \in Texts(s) \/ \E t \in OpenTimes(s) : \E m \in Visible(u) : p = <<t, u[m].no>>
  BY <1>1, <1>2, PlainAfter
<1>7. ASSUME NEW p
      PROVE  p \in Texts(c) <=>
                \/ p \in Texts(s)
                \/ /\ l.kind \notin {"empty", "spaces", "tags"}
                   /\ \E t \in OpenTimes(s) : p = <<t, l.no>>
  BY <1>1, <1>4, <1>6
<1>8. QED
  BY <1>1, <1>3, <1>5, <1>7

-----------------------------------------------------------------------------
(* What SRT.convert makes of a text.                                        *)

(* The numbers of the lines that are shown.                                 *)
VisibleNos(u) == {u[m].no : m \in Visible(u)}

(* A text as readSrtCue collects it.                                        *)
TextHeld(text) ==
    /\ text \in Seq(LinesHeld)
    /\ \A m \in DOMAIN text : text[m].kind \in Kinds \ {"empty", "number"} /\ text[m].no # 0
    /\ InOrder(text)

(* A part of a text, from d on, in which lines of spaces are empty ones.    *)
PartOf(u, text, d) ==
    /\ d \in Nat /\ d + Len(u) <= Len(text)
    /\ \A m \in 1 .. Len(u) :
           u[m] = IF text[d + m].kind = "spaces" THEN Blank ELSE text[d + m]
    /\ \A m \in 1 .. d : text[m].kind = "spaces"
    /\ \A m \in d + Len(u) + 1 .. Len(text) : text[m].kind = "spaces"

TagsOnly == <<Line("tags", 0)>>

(* Lemma: the two lines that are put in.                                    *)
LEMMA LinesPutIn ==
  /\ Blank \in LinesHeld /\ Blank.kind = "empty" /\ Blank.no = 0
  /\ TagsOnly \in Seq(LinesHeld) /\ Len(TagsOnly) = 1
  /\ TagsOnly[1].kind = "tags" /\ TagsOnly[1].no = 0
<1>1. Blank \in LinesHeld /\ Blank.kind = "empty" /\ Blank.no = 0
  BY DEF Blank, Line, LinesHeld, Kinds
<1> DEFINE l == Line("tags", 0)
<1>2. l.kind = "tags" /\ l.no = 0 /\ l \in LinesHeld
  BY DEF Line, LinesHeld
<1> HIDE DEF l
<1>3. <<l>> \in Seq(LinesHeld) /\ Len(<<l>>) = 1 /\ <<l>>[1] = l
  BY <1>2
<1>4. TagsOnly = <<l>>
  BY DEF TagsOnly, l
<1>5. QED
  BY <1>1, <1>2, <1>3, <1>4

(* Lemma: the text is trimmed, and its lines of spaces are empty ones.      *)
LEMMA ColouredIs ==
  ASSUME NEW text, TextHeld(text), NEW u, u = Coloured(text)
  PROVE  /\ u \in Seq(LinesHeld)
         /\ \/ \E d : PartOf(u, text, d)
            \/ u = TagsOnly /\ \A m \in 1 .. Len(text) : text[m].kind = "spaces"
<1> DEFINE n == Len(text)
           words == {i \in DOMAIN text : text[i].kind # "spaces"}
           a == CHOOSE i \in words : \A j \in words : i <= j
           b == CHOOSE i \in words : \A j \in words : i >= j
           lines == IF \E i \in DOMAIN text : text[i].kind = "font" THEN text ELSE Trim(text)
<1>1. text \in Seq(LinesHeld) /\ n \in Nat /\ DOMAIN text = 1 .. n
  BY DEF TextHeld
<1>2. u = [i \in DOMAIN lines |-> IF lines[i].kind = "spaces" THEN Blank ELSE lines[i]]
  BY DEF Coloured
<1>3. Blank \in LinesHeld
  BY LinesPutIn
<1>4. ASSUME lines \in Seq(LinesHeld)
      PROVE  /\ u \in Seq(LinesHeld) /\ Len(u) = Len(lines)
             /\ \A m \in 1 .. Len(lines) :
                    u[m] = IF lines[m].kind = "spaces" THEN Blank ELSE lines[m]
  <2> HIDE DEF lines
  <2>1. Len(lines) \in Nat /\ DOMAIN lines = 1 .. Len(lines)
        /\ \A m \in 1 .. Len(lines) : lines[m] \in LinesHeld
    BY <1>4
  <2>2. u \in [1 .. Len(lines) -> LinesHeld]
    BY <1>2, <1>3, <2>1
  <2>3. QED
    BY <1>2, <2>1, <2>2
<1>5. CASE \E i \in DOMAIN text : text[i].kind = "font"
  <2>1. lines = text
    BY <1>5
  <2>2. PartOf(u, text, 0) /\ u \in Seq(LinesHeld)
    BY <1>1, <1>4, <2>1 DEF PartOf
  <2>3. QED
    BY <2>2
<1>6. CASE ~(\E i \in DOMAIN text : text[i].kind = "font") /\ words = {}
  <2>1. lines = TagsOnly
    BY <1>6 DEF Trim, TagsOnly
  <2>2. TagsOnly \in Seq(LinesHeld) /\ Len(TagsOnly) = 1 /\ TagsOnly[1].kind = "tags"
    BY LinesPutIn
  <2>3. u \in Seq(LinesHeld) /\ Len(u) = 1 /\ u[1] = TagsOnly[1]
    BY <1>4, <2>1, <2>2
  <2>4. u = TagsOnly
    BY <2>2, <2>3
  <2>5. QED
    BY <1>1, <1>6, <2>3, <2>4
<1>7. CASE ~(\E i \in DOMAIN text : text[i].kind = "font") /\ words # {}
  <2>1. lines = SubSeq(text, a, b)
    BY <1>7 DEF Trim
  <2>2. words \subseteq 0 .. n /\ words \subseteq Nat
    BY <1>1
  <2>3. a \in words /\ \A j \in words : a <= j
    <3> HIDE DEF words
    <3>1. \E i \in words : \A j \in words : i <= j
      BY <1>7, <2>2, SmallestIn
    <3>2. QED
      BY <3>1
  <2>4. b \in words /\ \A j \in words : b >= j
    <3> HIDE DEF words
    <3>1. \E i \in words : \A j \in words : j <= i
      BY <1>1, <1>7, <2>2, BiggestIn
    <3>2. \E i \in words : \A j \in words : i >= j
      BY <2>2, <3>1
    <3>3. QED
      BY <3>2
  <2>5. a \in 1 .. n /\ b \in 1 .. n /\ a <= b
    BY <1>1, <2>3, <2>4
  <2>6. /\ \A m \in 1 .. n : m < a => text[m].kind = "spaces"
        /\ \A m \in 1 .. n : m > b => text[m].kind = "spaces"
    BY <1>1, <2>3, <2>4
  <2> HIDE DEF a, b, words, lines
  <2>7. /\ lines \in Seq(LinesHeld) /\ Len(lines) = b - a + 1
        /\ \A m \in 1 .. b - a + 1 : lines[m] = text[(a - 1) + m]
    BY <1>1, <2>1, <2>5
  <2>8. /\ u \in Seq(LinesHeld) /\ Len(u) = b - a + 1
        /\ \A m \in 1 .. b - a + 1 :
               u[m] = IF text[(a - 1) + m].kind = "spaces" THEN Blank ELSE text[(a - 1) + m]
    BY <1>4, <2>7
  <2>9. PartOf(u, text, a - 1)
    BY <1>1, <2>5, <2>6, <2>8 DEF PartOf
  <2>10. QED
    BY <2>8, <2>9
<1>8. QED
  BY <1>5, <1>6, <1>7

(* Lemma: of the lines of a text the first ones are shown, or all of them.  *)
LEMMA PartShows ==
  ASSUME NEW text, TextHeld(text), NEW u \in Seq(LinesHeld), NEW d, PartOf(u, text, d)
  PROVE  /\ Plain(u) /\ InOrder(u)
         /\ \A m \in 1 .. Len(u) : u[m].no = 0 \/ \E x \in 1 .. Len(text) : u[m].no = text[x].no
         /\ \A m \in 1 .. Len(u) : u[m].kind \notin {"spaces", "tags", "cue"}
         /\ VisibleNos(u) \subseteq VisibleNos(text)
         /\ \A a \in VisibleNos(u) : \A b \in VisibleNos(text) : b < a => b \in VisibleNos(u)
         /\ (\A m \in 1 .. Len(text) : text[m].kind # "spaces") =>
                VisibleNos(u) = VisibleNos(text)
<1> DEFINE n == Len(text)
           k == Len(u)
<1>1. /\ text \in Seq(LinesHeld) /\ n \in Nat /\ k \in Nat /\ d \in Nat /\ d + k <= n
      /\ DOMAIN text = 1 .. n /\ DOMAIN u = 1 .. k
  BY DEF TextHeld, PartOf
<1>2. \A m \in 1 .. k :
          /\ d + m \in 1 .. n
          /\ u[m] = IF text[d + m].kind = "spaces" THEN Blank ELSE text[d + m]
  BY <1>1 DEF PartOf
<1>3. \A x \in 1 .. n : x <= d \/ x > d + k => text[x].kind = "spaces"
  BY <1>1 DEF PartOf
<1>4. \A x \in 1 .. n : /\ text[x].kind \notin {"empty", "number", "cue", "tags"}
                        /\ text[x].no \in Nat /\ text[x].no # 0
  <2>1. \A x \in 1 .. n : text[x].kind \in Kinds \ {"empty", "number"} /\ text[x].no # 0
    BY <1>1 DEF TextHeld
  <2>2. \A x \in 1 .. n : text[x] \in LinesHeld
    BY <1>1
  <2>3. \A x \in 1 .. n : text[x].no \in Nat
    BY <2>2 DEF LinesHeld
  <2>4. "cue" \notin Kinds /\ "tags" \notin Kinds
    BY DEF Kinds
  <2>5. \A x \in 1 .. n : text[x].kind \notin {"empty", "number", "cue", "tags"}
    BY <2>1, <2>4
  <2>6. QED
    BY <2>1, <2>3, <2>5
<1>5. \A x, y \in 1 .. n : x < y => text[x].no < text[y].no
  BY <1>1, <1>4 DEF TextHeld, InOrder
<1>6. Blank.kind = "empty" /\ Blank.no = 0
  BY LinesPutIn
<1> HIDE DEF n, k
<1>7. \A m \in 1 .. k :
          /\ u[m].kind \notin {"spaces", "tags", "cue", "number"}
          /\ u[m].kind # "empty" <=> text[d + m].kind # "spaces"
          /\ u[m].kind # "empty" => u[m] = text[d + m]
          /\ u[m].kind = "empty" => u[m].no = 0
  BY <1>2, <1>4, <1>6
<1>8. Plain(u)
  BY <1>1, <1>7 DEF Plain
<1>9. \A m \in 1 .. k : u[m].no = 0 \/ \E x \in 1 .. n : u[m].no = text[x].no
  BY <1>2, <1>7
<1>10. InOrder(u)
  <2> SUFFICES ASSUME NEW i \in 1 .. k, NEW j \in 1 .. k, i < j, u[j].no # 0
               PROVE  u[i].no < u[j].no
    BY <1>1 DEF InOrder
  <2>1. u[j] = text[d + j] /\ d + i < d + j /\ d + i \in 1 .. n /\ d + j \in 1 .. n
    <3>1. d + i < d + j
      BY <1>1
    <3>2. d + i \in 1 .. n /\ d + j \in 1 .. n
      BY <1>2
    <3>3. u[j] = text[d + j]
      BY <1>7
    <3>4. QED
      BY <3>1, <3>2, <3>3
  <2>2. text[d + i].no < text[d + j].no
    BY <1>5, <2>1
  <2>3. CASE u[i].kind = "empty"
    BY <1>4, <1>7, <2>1, <2>3
  <2>4. CASE u[i].kind # "empty"
    BY <1>7, <2>1, <2>2, <2>4
  <2>5. QED
    BY <2>3, <2>4
<1>11. \A x \in 1 .. n : x \in Visible(text) <=> text[x].kind # "spaces"
  <2>1. \A x \in 1 .. n : NoneEmpty(text, x)
    BY <1>1, <1>4 DEF NoneEmpty
  <2>2. QED
    BY <1>1, <1>4, <2>1 DEF Visible
<1>12. \A m \in 1 .. k : m \in Visible(u) <=> NoneEmpty(u, m)
  BY <1>1, <1>7 DEF Visible
<1>13. Visible(u) \subseteq 1 .. k /\ Visible(text) \subseteq 1 .. n
  BY <1>1 DEF Visible
<1>14. ASSUME NEW m \in Visible(u)
       PROVE  /\ m \in 1 .. k /\ d + m \in Visible(text) /\ u[m] = text[d + m]
              /\ \A j \in 1 .. m : j \in Visible(u)
  <2>1. m \in 1 .. k /\ NoneEmpty(u, m)
    BY <1>12, <1>13
  <2>2. u[m].kind # "empty"
    BY <1>1, <2>1 DEF NoneEmpty
  <2>3. d + m \in Visible(text) /\ u[m] = text[d + m]
    BY <1>2, <1>7, <1>11, <2>1, <2>2
  <2>4. ASSUME NEW j \in 1 .. m PROVE j \in Visible(u)
    <3>1. j \in 1 .. k /\ \A i \in 1 .. j : i \in 1 .. m
      BY <1>1, <2>1
    <3>2. NoneEmpty(u, j)
      BY <2>1, <3>1 DEF NoneEmpty
    <3>3. QED
      BY <1>12, <3>1, <3>2
  <2>5. QED
    BY <2>1, <2>3, <2>4
<1>15. VisibleNos(u) \subseteq VisibleNos(text)
  BY <1>14 DEF VisibleNos
<1>16. ASSUME NEW x \in Visible(text)
       PROVE  x - d \in 1 .. k /\ d + (x - d) = x /\ u[x - d] = text[x]
  <2>1. x \in 1 .. n /\ text[x].kind # "spaces"
    BY <1>11, <1>13
  <2>2. ~(x <= d) /\ ~(x > d + k)
    BY <1>3, <2>1
  <2>3. x - d \in 1 .. k /\ d + (x - d) = x
    BY <1>1, <2>1, <2>2
  <2>4. QED
    BY <1>2, <2>1, <2>3
<1>17. ASSUME NEW m \in Visible(u), NEW x \in Visible(text), text[x].no < u[m].no
       PROVE  text[x].no \in VisibleNos(u)
  <2>1. m \in 1 .. k /\ d + m \in 1 .. n /\ u[m] = text[d + m] /\ x \in 1 .. n
    BY <1>2, <1>13, <1>14
  <2>2. ~(d + m <= x)
    <3>1. d + m < x => text[d + m].no < text[x].no
      BY <1>5, <2>1
    <3>2. text[d + m].no \in Nat /\ text[x].no \in Nat /\ text[x].no < text[d + m].no
      BY <1>4, <1>17, <2>1
    <3>3. QED
      BY <1>1, <2>1, <3>1, <3>2
  <2>3. x - d \in 1 .. m /\ u[x - d] = text[x]
    BY <1>1, <1>16, <2>1, <2>2
  <2>4. x - d \in Visible(u)
    BY <1>14, <2>3
  <2>5. QED
    BY <2>3, <2>4 DEF VisibleNos
<1>18. \A a \in VisibleNos(u) : \A b \in VisibleNos(text) : b < a => b \in VisibleNos(u)
  <2> SUFFICES ASSUME NEW a \in VisibleNos(u), NEW b \in VisibleNos(text), b < a
               PROVE  b \in VisibleNos(u)
    OBVIOUS
  <2>1. PICK m \in Visible(u) : a = u[m].no
    BY DEF VisibleNos
  <2>2. PICK x \in Visible(text) : b = text[x].no
    BY DEF VisibleNos
  <2>3. QED
    BY <1>17, <2>1, <2>2
<1>19. ASSUME \A m \in 1 .. n : text[m].kind # "spaces"
       PROVE  VisibleNos(text) \subseteq VisibleNos(u)
  <2>1. \A m \in 1 .. k : m \in Visible(u)
    <3>1. \A m \in 1 .. k : u[m].kind # "empty"
      BY <1>2, <1>7, <1>19
    <3>2. \A m \in 1 .. k : NoneEmpty(u, m)
      BY <1>1, <3>1 DEF NoneEmpty
    <3>3. QED
      BY <1>12, <3>2
  <2>2. ASSUME NEW x \in Visible(text) PROVE text[x].no \in VisibleNos(u)
    BY <1>16, <2>1 DEF VisibleNos
  <2>3. QED
    BY <2>2 DEF VisibleNos
<1>20. QED
  BY <1>7, <1>8, <1>9, <1>10, <1>15, <1>18, <1>19 DEF n, k

(* Lemma: so for what is made of a text, trimmed or not.                    *)
LEMMA ColouredShows ==
  ASSUME NEW text, TextHeld(text), NEW u, u = Coloured(text)
  PROVE  /\ u \in Seq(LinesHeld) /\ Plain(u) /\ InOrder(u)
         /\ \A m \in 1 .. Len(u) : u[m].no = 0 \/ \E x \in 1 .. Len(text) : u[m].no = text[x].no
         /\ \A m \in 1 .. Len(u) : /\ u[m].kind \notin {"spaces", "cue"}
                                   /\ u[m].kind = "tags" => m = Len(u)
         /\ VisibleNos(u) \subseteq VisibleNos(text)
         /\ \A a \in VisibleNos(u) : \A b \in VisibleNos(text) : b < a => b \in VisibleNos(u)
         /\ (\A m \in 1 .. Len(text) : text[m].kind # "spaces") =>
                VisibleNos(u) = VisibleNos(text)
<1>1. u \in Seq(LinesHeld)
  BY ColouredIs
<1>2. CASE \E d : PartOf(u, text, d)
  BY <1>1, <1>2, PartShows
<1>3. CASE u = TagsOnly /\ \A m \in 1 .. Len(text) : text[m].kind = "spaces"
  <2>1. /\ Len(u) = 1 /\ DOMAIN u = 1 .. 1 /\ u[1].kind = "tags" /\ u[1].no = 0
        /\ text \in Seq(LinesHeld) /\ DOMAIN text = 1 .. Len(text)
    BY <1>1, <1>3, LinesPutIn DEF TextHeld
  <2>2. Visible(u) = {} /\ Visible(text) = {}
    BY <1>3, <2>1 DEF Visible
  <2>3. VisibleNos(u) = {} /\ VisibleNos(text) = {}
    BY <2>2 DEF VisibleNos
  <2>4. Plain(u) /\ InOrder(u)
    BY <2>1 DEF Plain, InOrder
  <2>5. QED
    BY <1>1, <2>1, <2>3, <2>4
<1>4. QED
  BY <1>2, <1>3, ColouredIs

-----------------------------------------------------------------------------
(* What is shown of a cue.                                                  *)

(* Of what the second file shows the first shows the first lines of each    *)
(* cue, and all of them if no line is of spaces.                            *)
Kept(shown1, shown2) ==
    /\ shown1 \subseteq shown2
    /\ \A p \in shown1 : \A q \in shown2 : p[1] = q[1] /\ q[2] < p[2] => q \in shown1
    /\ ~SpacesInText => shown1 = shown2

Same(out, s) == Times(out) = Times(s) /\ Kept(Texts(out), Texts(s))

NosUpTo(out, k) == \A i \in 1 .. Len(out) : out[i].no <= k

(* A text that was nothing but spaces is followed by an empty line.         *)
Tagged(out) ==
    \A i \in 1 .. Len(out) :
        /\ out[i].kind \notin {"spaces", "cue"}
        /\ out[i].kind = "tags" => i + 1 \in 1 .. Len(out) /\ out[i + 1].kind = "empty"

Written(out, k) ==
    out \in Seq(LinesHeld) /\ InOrder(out) /\ NosUpTo(out, k) /\ Tagged(out)

(* Lemma: lines that come later are in order.                               *)
LEMMA OrderAfter ==
  ASSUME NEW s \in Seq(LinesHeld), NEW u \in Seq(LinesHeld), NEW c, c = s \o u,
         NEW k \in Nat, InOrder(s), NosUpTo(s, k), InOrder(u),
         \A m \in 1 .. Len(u) : u[m].no = 0 \/ u[m].no > k
  PROVE  InOrder(c)
<1> DEFINE n == Len(s)
           z == Len(u)
<1>1. /\ n \in Nat /\ z \in Nat /\ DOMAIN c = 1 .. (n + z)
      /\ \A i \in 1 .. n : c[i] = s[i] /\ s[i].no \in Nat /\ s[i].no <= k
      /\ \A m \in 1 .. z : c[n + m] = u[m] /\ u[m].no \in Nat
  <2>1. n \in Nat /\ z \in Nat /\ DOMAIN c = 1 .. (n + z)
    OBVIOUS
  <2>2. \A i \in 1 .. n : c[i] = s[i] /\ s[i] \in LinesHeld
    OBVIOUS
  <2>3. \A m \in 1 .. z : c[n + m] = u[m] /\ u[m] \in LinesHeld
    OBVIOUS
  <2>4. QED
    BY <2>1, <2>2, <2>3 DEF NosUpTo, LinesHeld
<1>2. \A i, j \in 1 .. n : i < j /\ s[j].no # 0 => s[i].no < s[j].no
  BY DEF InOrder
<1>3. \A i, j \in 1 .. z : i < j /\ u[j].no # 0 => u[i].no < u[j].no
  BY DEF InOrder
<1>4. \A m \in 1 .. z : u[m].no = 0 \/ u[m].no > k
  OBVIOUS
<1> HIDE DEF n, z
<1>5. ASSUME NEW i \in 1 .. (n + z), NEW j \in 1 .. (n + z), i < j, c[j].no # 0
      PROVE  c[i].no < c[j].no
  <2>1. CASE j <= n
    <3>1. i \in 1 .. n /\ j \in 1 .. n
      BY <1>1, <1>5, <2>1
    <3>2. QED
      BY <1>1, <1>2, <1>5, <3>1
  <2>2. CASE ~(j <= n)
    <3> DEFINE m == j - n
    <3>1. m \in 1 .. z /\ j = n + m
      BY <1>1, <2>2
    <3>2. c[j] = u[m] /\ u[m].no \in Nat /\ u[m].no > k
      BY <1>1, <1>4, <1>5, <3>1
    <3>3. CASE i <= n
      <4>1. c[i] = s[i] /\ s[i].no \in Nat /\ s[i].no <= k
        BY <1>1, <3>3
      <4>2. QED
        BY <3>2, <4>1
    <3>4. CASE ~(i <= n)
      <4>1. i - n \in 1 .. z /\ i = n + (i - n) /\ i - n < m
        BY <1>1, <1>5, <3>4
      <4>2. c[i] = u[i - n]
        BY <1>1, <4>1
      <4>3. QED
        BY <1>3, <1>5, <3>1, <3>2, <4>1, <4>2
    <3>5. QED
      BY <3>3, <3>4
  <2>3. QED
    BY <2>1, <2>2
<1>6. QED
  BY <1>1, <1>5 DEF InOrder

-----------------------------------------------------------------------------
(* What SRT.convert has read and written.                                   *)

SourceOK ==
    /\ source \in Seq(LinesHeld)
    /\ \A i \in 1 .. Len(source) : source[i].kind \in Kinds /\ source[i].no = i

Before(k) == SubSeq(source, 1, k)

(* Lemma: the first lines of the file.                                      *)
LEMMA BeforeIs ==
  ASSUME SourceOK, NEW k \in 0 .. Len(source)
  PROVE  /\ Before(k) \in Seq(LinesHeld) /\ Len(Before(k)) = k
         /\ \A i \in 1 .. k : Before(k)[i] = source[i]
BY DEF SourceOK, Before

LEMMA BeforeNext ==
  ASSUME SourceOK, NEW k \in 1 .. Len(source)
  PROVE  Before(k) = Append(Before(k - 1), source[k])
<1>1. source \in Seq(LinesHeld) /\ k \in 1 .. Len(source)
  BY DEF SourceOK
<1> DEFINE a == SubSeq(source, 1, k)
           b == SubSeq(source, 1, k - 1)
<1>2. a \in Seq(LinesHeld) /\ Len(a) = k /\ \A i \in 1 .. k : a[i] = source[i]
  BY <1>1
<1>3. b \in Seq(LinesHeld) /\ Len(b) = k - 1 /\ \A i \in 1 .. k - 1 : b[i] = source[i]
  BY <1>1
<1>4. source[k] \in LinesHeld
  BY <1>1
<1> HIDE DEF a, b
<1> DEFINE c == Append(b, source[k])
<1>5. c \in Seq(LinesHeld) /\ Len(c) = k /\ \A i \in 1 .. k : c[i] = source[i]
  BY <1>1, <1>3, <1>4
<1> HIDE DEF c
<1>6. a = c
  BY <1>1, <1>2, <1>5, SameSequence
<1>7. QED
  BY <1>6 DEF a, b, c, Before

(* Lemma: the lines between two places of the file.                         *)
LEMMA BetweenIs ==
  ASSUME SourceOK, NEW k \in 0 .. Len(source), NEW t \in 0 .. k,
         NEW text, text = SubSeq(source, t + 1, k)
  PROVE  /\ text \in Seq(LinesHeld) /\ Len(text) = k - t
         /\ \A m \in 1 .. k - t : text[m] = source[t + m]
         /\ Before(k) = Before(t) \o text
<1>1. source \in Seq(LinesHeld) /\ k \in Nat /\ t \in Nat /\ t <= k /\ k <= Len(source)
  BY DEF SourceOK
<1>2. /\ text \in Seq(LinesHeld) /\ Len(text) = k - t
      /\ \A m \in 1 .. k - t : text[m] = source[t + m]
  <2>1. text \in Seq(LinesHeld)
    BY <1>1
  <2>2. Len(text) = k - t
    BY <1>1
  <2>3. \A m \in 1 .. k - t : text[m] = source[t + m]
    BY <1>1
  <2>4. QED
    BY <2>1, <2>2, <2>3
<1> DEFINE a == Before(t)
           b == Before(k)
           c == a \o text
<1>3. a \in Seq(LinesHeld) /\ Len(a) = t /\ \A i \in 1 .. t : a[i] = source[i]
  BY <1>1, BeforeIs
<1>4. b \in Seq(LinesHeld) /\ Len(b) = k /\ \A i \in 1 .. k : b[i] = source[i]
  BY <1>1, BeforeIs
<1> HIDE DEF a, b
<1>5. c \in Seq(LinesHeld) /\ Len(c) = k
  BY <1>1, <1>2, <1>3
<1>6. ASSUME NEW i \in 1 .. k PROVE c[i] = source[i]
  <2>1. CASE i <= t
    BY <1>1, <1>2, <1>3, <2>1
  <2>2. CASE ~(i <= t)
    <3>1. i - t \in 1 .. k - t /\ t + (i - t) = i
      BY <1>1, <2>2
    <3>2. c[i] = text[i - t]
      BY <1>1, <1>2, <1>3, <2>2
    <3>3. QED
      BY <1>2, <3>1, <3>2
  <2>3. QED
    BY <2>1, <2>2
<1> HIDE DEF c
<1>7. b = c
  BY <1>1, <1>4, <1>5, <1>6, SameSequence
<1>8. QED
  BY <1>2, <1>7 DEF a, b, c

(* Lemma: readSrtCue adds the next line to the text.                        *)
LEMMA BetweenNext ==
  ASSUME SourceOK, NEW k \in 1 .. Len(source), NEW t \in 0 .. k - 1
  PROVE  SubSeq(source, t + 1, k) = Append(SubSeq(source, t + 1, k - 1), source[k])
<1>1. source \in Seq(LinesHeld) /\ k \in Nat /\ t \in Nat /\ t <= k - 1 /\ k <= Len(source)
      /\ k \in 1 .. Len(source)
  BY DEF SourceOK
<1> DEFINE a == SubSeq(source, t + 1, k)
           b == SubSeq(source, t + 1, k - 1)
           c == Append(b, source[k])
<1>2. /\ a \in Seq(LinesHeld) /\ Len(a) = k - t
      /\ \A m \in 1 .. k - t : a[m] = source[t + m]
  BY <1>1
<1>3. /\ b \in Seq(LinesHeld) /\ Len(b) = (k - t) - 1
      /\ \A m \in 1 .. (k - t) - 1 : b[m] = source[t + m]
  BY <1>1
<1>4. source[k] \in LinesHeld
  BY <1>1
<1> HIDE DEF a, b
<1>5. c \in Seq(LinesHeld) /\ Len(c) = k - t
  BY <1>1, <1>3, <1>4
<1>6. ASSUME NEW m \in 1 .. k - t PROVE c[m] = source[t + m]
  <2>1. CASE m = k - t
    BY <1>1, <1>3, <1>4, <2>1
  <2>2. CASE m # k - t
    BY <1>1, <1>3, <1>4, <2>2
  <2>3. QED
    BY <2>1, <2>2
<1> HIDE DEF c
<1>7. a = c
  BY <1>1, <1>2, <1>5, <1>6, SameSequence
<1>8. QED
  BY <1>7 DEF a, b, c
(* The first lines of a cue, and a time that no cue has yet.                *)
FirstOf(na, nb) ==
    /\ na \subseteq nb /\ \A a \in na : \A b \in nb : b < a => b \in na
    /\ ~SpacesInText => na = nb

NewTime(t, shown) == \A p \in shown : p[1] # t

(* A text for a file that is written up to the t-th line.                   *)
WrittenText(u, t, k) ==
    /\ u \in Seq(LinesHeld) /\ InOrder(u)
    /\ \A m \in 1 .. Len(u) : u[m].no = 0 \/ (u[m].no > t /\ u[m].no <= k)
    /\ \A m \in 1 .. Len(u) : /\ u[m].kind \notin {"spaces", "cue"}
                              /\ u[m].kind = "tags" => m = Len(u)

(* The time of a cue is the t-th line, and the last that was written.       *)
InText(out, t) ==
    /\ Written(out, t) /\ Same(out, Before(t))
    /\ OpenTimes(out) = {t} /\ OpenTimes(Before(t)) = {t}
    /\ ~LastIsNumber(out) /\ ~LastIsNumber(Before(t))
    /\ NewTime(t, Texts(Before(t)))

(* Lemma: lines that are neither empty nor a number are a text.             *)
LEMMA NumberedText ==
  ASSUME NEW text \in Seq(LinesHeld), NEW t \in Nat,
         \A m \in 1 .. Len(text) : text[m].kind \in Kinds,
         \A m \in 1 .. Len(text) : text[m].kind \notin {"empty", "number"},
         \A m \in 1 .. Len(text) : text[m].no = t + m
  PROVE  TextHeld(text)
<1>1. Len(text) \in Nat /\ DOMAIN text = 1 .. Len(text)
  OBVIOUS
<1>2. \A i, j \in 1 .. Len(text) : i < j => text[i].no < text[j].no
  BY <1>1
<1>3. InOrder(text)
  BY <1>1, <1>2 DEF InOrder
<1>4. \A m \in 1 .. Len(text) : text[m].no # 0
  BY <1>1
<1>5. \A m \in 1 .. Len(text) : text[m].kind \in Kinds \ {"empty", "number"}
  OBVIOUS
<1>6. QED
  BY <1>1, <1>3, <1>4, <1>5 DEF TextHeld

(* Lemma: so are such lines of the file.                                    *)
LEMMA TextOfCue ==
  ASSUME SourceOK, NEW k \in 0 .. Len(source), NEW t \in 0 .. k,
         \A i \in t + 1 .. k : source[i].kind \notin {"empty", "number"},
         NEW text, text = SubSeq(source, t + 1, k)
  PROVE  /\ TextHeld(text) /\ Plain(text) /\ Len(text) = k - t /\ NoneEmpty(text, k - t)
         /\ \A m \in 1 .. k - t : text[m].no = t + m
<1>1. /\ text \in Seq(LinesHeld) /\ Len(text) = k - t
      /\ \A m \in 1 .. k - t : text[m] = source[t + m]
  BY BetweenIs
<1>2. /\ Len(source) \in Nat /\ k \in Nat /\ t \in Nat /\ t <= k /\ k <= Len(source)
      /\ DOMAIN text = 1 .. k - t
  BY <1>1 DEF SourceOK
<1>3. \A m \in 1 .. k - t : t + m \in 1 .. Len(source) /\ t + m \in t + 1 .. k
  BY <1>2
<1>4. ASSUME NEW m \in 1 .. k - t
      PROVE  /\ text[m].kind \in Kinds /\ text[m].no = t + m
             /\ text[m].kind \notin {"empty", "number"}
  <2>1. text[m] = source[t + m] /\ t + m \in 1 .. Len(source) /\ t + m \in t + 1 .. k
    BY <1>1, <1>3
  <2>2. source[t + m].kind \in Kinds /\ source[t + m].no = t + m
    BY <2>1 DEF SourceOK
  <2>3. source[t + m].kind \notin {"empty", "number"}
    BY <2>1
  <2>4. QED
    BY <2>1, <2>2, <2>3
<1>5. "cue" \notin Kinds
  BY DEF Kinds
<1>6. TextHeld(text)
  BY <1>1, <1>2, <1>4, NumberedText
<1>7. Plain(text) /\ NoneEmpty(text, k - t)
  BY <1>2, <1>4, <1>5 DEF Plain, NoneEmpty
<1>8. QED
  BY <1>1, <1>4, <1>6, <1>7

-----------------------------------------------------------------------------
(* The end of a cue.                                                        *)

(* Lemma: pairs of a time and a line.                                       *)
LEMMA Pairs ==
  ASSUME NEW T, NEW N, NEW p
  PROVE  p \in T \X N <=> \E t \in T : \E a \in N : p = <<t, a>>
OBVIOUS

(* Lemma: what a text shows with the times before it.                       *)
LEMMA TextShows ==
  ASSUME NEW s \in Seq(LinesHeld), NEW u \in Seq(LinesHeld), NEW c, c = s \o u,
         Plain(u), ~LastIsNumber(s)
  PROVE  /\ c \in Seq(LinesHeld) /\ ~LastIsNumber(c)
         /\ Times(c) = Times(s)
         /\ OpenTimes(c) = IF NoneEmpty(u, Len(u)) THEN OpenTimes(s) ELSE {}
         /\ Texts(c) = Texts(s) \cup (OpenTimes(s) \X VisibleNos(u))
<1>1. /\ c \in Seq(LinesHeld) /\ ~LastIsNumber(c)
      /\ Times(c) = Times(s)
      /\ OpenTimes(c) = IF NoneEmpty(u, Len(u)) THEN OpenTimes(s) ELSE {}
      /\ \A p : p \in Texts(c) <=>
             p \in Texts(s) \/ \E t \in OpenTimes(s) : \E m \in Visible(u) : p = <<t, u[m].no>>
  BY PlainAfter
<1>2. ASSUME NEW p
      PROVE  p \in Texts(c) <=> p \in Texts(s) \/ p \in OpenTimes(s) \X VisibleNos(u)
  <2>1. p \in Texts(c) <=>
            p \in Texts(s) \/ \E t \in OpenTimes(s) : \E m \in Visible(u) : p = <<t, u[m].no>>
    BY <1>1, Zenon
  <2>2. ASSUME NEW t
        PROVE  (\E m \in Visible(u) : p = <<t, u[m].no>>)
                   <=> \E a \in VisibleNos(u) : p = <<t, a>>
    BY DEF VisibleNos
  <2>3. p \in OpenTimes(s) \X VisibleNos(u)
            <=> \E t \in OpenTimes(s) : \E a \in VisibleNos(u) : p = <<t, a>>
    BY Pairs
  <2>4. QED
    BY <2>1, <2>2, <2>3, Zenon
<1>3. Texts(c) = Texts(s) \cup (OpenTimes(s) \X VisibleNos(u))
  BY <1>2
<1>4. QED
  BY <1>1, <1>3

(* Lemma: lines with one time more.                                         *)
LEMMA KeptWith ==
  ASSUME NEW A, NEW B, NEW t, NEW na, NEW nb, Kept(A, B), NewTime(t, B), FirstOf(na, nb)
  PROVE  Kept(A \cup ({t} \X na), B \cup ({t} \X nb))
<1> DEFINE A2 == A \cup ({t} \X na)
           B2 == B \cup ({t} \X nb)
<1>1. \A p : p \in A2 <=> p \in A \/ \E n \in na : p = <<t, n>>
  OBVIOUS
<1>2. \A p : p \in B2 <=> p \in B \/ \E n \in nb : p = <<t, n>>
  OBVIOUS
<1> HIDE DEF A2, B2
<1>3. /\ A \subseteq B
      /\ \A p \in A : \A q \in B : p[1] = q[1] /\ q[2] < p[2] => q \in A
      /\ ~SpacesInText => A = B
      /\ na \subseteq nb /\ \A a \in na : \A b \in nb : b < a => b \in na
      /\ ~SpacesInText => na = nb
      /\ \A p \in B : p[1] # t
  BY DEF Kept, FirstOf, NewTime
<1>4. A2 \subseteq B2
  BY <1>1, <1>2, <1>3
<1>5. ~SpacesInText => A2 = B2
  BY <1>1, <1>2, <1>3
<1>6. ASSUME NEW p \in A2, NEW q \in B2, p[1] = q[1], q[2] < p[2] PROVE q \in A2
  <2>1. CASE p \in A
    <3>1. p \in B /\ p[1] # t
      BY <1>3, <2>1
    <3>2. \A n : <<t, n>>[1] = t
      OBVIOUS
    <3>3. q \in B
      BY <1>2, <1>6, <3>1, <3>2
    <3>4. q \in A
      BY <1>3, <1>6, <2>1, <3>3
    <3>5. QED
      BY <1>1, <3>4
  <2>2. CASE p \notin A
    <3>1. PICK a \in na : p = <<t, a>>
      BY <1>1, <2>2
    <3>2. p[1] = t /\ p[2] = a
      BY <3>1
    <3>3. q \notin B
      BY <1>3, <1>6, <3>2
    <3>4. PICK b \in nb : q = <<t, b>>
      BY <1>2, <3>3
    <3>5. q[2] = b /\ b < a
      BY <1>6, <3>2, <3>4
    <3>6. b \in na
      BY <1>3, <3>5
    <3>7. QED
      BY <1>1, <3>4, <3>6
  <2>3. QED
    BY <2>1, <2>2
<1>7. QED
  BY <1>4, <1>5, <1>6 DEF Kept, A2, B2

(* Lemma: a part of the text of the one is shown in the other.              *)
LEMMA CueShows ==
  ASSUME NEW out, NEW s, NEW c, NEW d, Same(out, s), Times(c) = Times(out), Times(d) = Times(s),
         NEW t, NEW na, NEW nb, NewTime(t, Texts(s)), FirstOf(na, nb),
         Texts(c) = Texts(out) \cup ({t} \X na), Texts(d) = Texts(s) \cup ({t} \X nb)
  PROVE  Same(c, d)
<1>1. Kept(Texts(out), Texts(s)) /\ Times(out) = Times(s)
  BY DEF Same
<1>2. Kept(Texts(out) \cup ({t} \X na), Texts(s) \cup ({t} \X nb))
  BY <1>1, KeptWith
<1>3. QED
  BY <1>1, <1>2, Zenon DEF Same

(* Lemma: two parts of a file have only such lines as each of them has.     *)
LEMMA NosOfBoth ==
  ASSUME NEW s \in Seq(LinesHeld), NEW u \in Seq(LinesHeld), NEW k \in Nat, NEW c, c = s \o u,
         NosUpTo(s, k), \A m \in 1 .. Len(u) : u[m].no <= k
  PROVE  NosUpTo(c, k)
<1> DEFINE n == Len(s)
           z == Len(u)
<1>1. n \in Nat /\ z \in Nat /\ Len(c) = n + z
  OBVIOUS
<1>2. \A i \in 1 .. n + z : c[i] = IF i <= n THEN s[i] ELSE u[i - n]
  OBVIOUS
<1>3. (\A i \in 1 .. n : s[i].no <= k) /\ (\A m \in 1 .. z : u[m].no <= k)
  BY DEF NosUpTo
<1> HIDE DEF n, z
<1>4. ASSUME NEW i \in 1 .. n + z PROVE c[i].no <= k
  <2>1. CASE i <= n
    BY <1>1, <1>2, <1>3, <2>1
  <2>2. CASE ~(i <= n)
    <3>1. i - n \in 1 .. z /\ c[i] = u[i - n]
      BY <1>1, <1>2, <2>2
    <3>2. QED
      BY <1>3, <3>1
  <2>3. QED
    BY <2>1, <2>2
<1>5. QED
  BY <1>1, <1>4 DEF NosUpTo

(* Lemma: a text of nothing but spaces gets its empty line.                 *)
LEMMA TaggedAfter ==
  ASSUME NEW s \in Seq(LinesHeld), Tagged(s), NEW u \in Seq(LinesHeld),
         \A m \in 1 .. Len(u) : /\ u[m].kind \notin {"spaces", "cue"}
                                /\ u[m].kind = "tags" => m = Len(u),
         NEW c1, c1 = s \o u, NEW l \in LinesHeld, l.kind = "empty", NEW c, c = Append(c1, l)
  PROVE  Tagged(c)
<1> DEFINE n == Len(s)
           z == Len(u)
<1>1. n \in Nat /\ z \in Nat /\ Len(c) = (n + z) + 1
  OBVIOUS
<1>2. \A i \in 1 .. n + z : c[i] = IF i <= n THEN s[i] ELSE u[i - n]
  OBVIOUS
<1>3. c[(n + z) + 1].kind = "empty"
  OBVIOUS
<1>4. \A i \in 1 .. n : /\ s[i].kind \notin {"spaces", "cue"}
                        /\ s[i].kind = "tags" => i + 1 \in 1 .. n /\ s[i + 1].kind = "empty"
  BY DEF Tagged
<1>5. \A m \in 1 .. z : u[m].kind \notin {"spaces", "cue"} /\ (u[m].kind = "tags" => m = z)
  OBVIOUS
<1> HIDE DEF n, z
<1>6. ASSUME NEW i \in 1 .. (n + z) + 1
      PROVE  /\ c[i].kind \notin {"spaces", "cue"}
             /\ c[i].kind = "tags" => i + 1 \in 1 .. (n + z) + 1 /\ c[i + 1].kind = "empty"
  <2>1. CASE i <= n
    <3>0. i \in 1 .. n /\ i \in 1 .. n + z
      BY <1>1, <2>1
    <3>1. c[i] = s[i] /\ (i + 1 \in 1 .. n => c[i + 1] = s[i + 1])
      <4>1. c[i] = s[i]
        BY <1>2, <2>1, <3>0
      <4>2. ASSUME i + 1 \in 1 .. n PROVE c[i + 1] = s[i + 1]
        <5>1. i + 1 \in 1 .. n + z /\ i + 1 <= n
          BY <1>1, <4>2
        <5>2. QED
          BY <1>2, <5>1
      <4>3. QED
        BY <4>1, <4>2
    <3>2. i + 1 \in 1 .. n => i + 1 \in 1 .. (n + z) + 1
      BY <1>1
    <3>3. QED
      BY <1>4, <3>0, <3>1, <3>2
  <2>2. CASE i > n /\ i <= n + z
    <3>1. i - n \in 1 .. z /\ c[i] = u[i - n] /\ (i - n = z => i + 1 = (n + z) + 1)
      BY <1>1, <1>2, <2>2
    <3>2. (n + z) + 1 \in 1 .. (n + z) + 1
      BY <1>1
    <3>3. QED
      BY <1>3, <1>5, <3>1, <3>2
  <2>3. CASE i > n + z
    <3>1. i = (n + z) + 1
      BY <1>1, <2>3
    <3>2. QED
      BY <1>3, <3>1
  <2>4. QED
    BY <1>1, <2>1, <2>2, <2>3
<1>7. QED
  BY <1>1, <1>6 DEF Tagged

(* Lemma: the empty line at the end shows nothing.                          *)
LEMMA BlankAfter ==
  ASSUME NEW s \in Seq(LinesHeld), NEW l \in LinesHeld, l.kind = "empty", l.no = 0,
         ~LastIsNumber(s), NEW c, c = Append(s, l), NEW k \in Nat, NosUpTo(s, k), InOrder(s)
  PROVE  /\ c \in Seq(LinesHeld) /\ ~LastIsNumber(c) /\ OpenTimes(c) = {}
         /\ Times(c) = Times(s) /\ Texts(c) = Texts(s) /\ NosUpTo(c, k) /\ InOrder(c)
<1>1. c \in Seq(LinesHeld) /\ ~LastIsNumber(c) /\ Times(c) = Times(s) /\ OpenTimes(c) = {}
  BY LineAfter
<1>2. ASSUME NEW p PROVE p \in Texts(c) <=> p \in Texts(s)
  BY LineAfter
<1>3. Texts(c) = Texts(s)
  BY <1>2
<1>4. /\ Len(s) \in Nat /\ Len(c) = Len(s) + 1 /\ DOMAIN c = 1 .. Len(s) + 1
      /\ \A i \in 1 .. Len(s) : c[i] = s[i]
      /\ c[Len(s) + 1].no = 0
  OBVIOUS
<1>5. InOrder(c)
  <2>1. \A i, j \in 1 .. Len(s) : i < j /\ s[j].no # 0 => s[i].no < s[j].no
    BY DEF InOrder
  <2> SUFFICES ASSUME NEW i \in 1 .. Len(s) + 1, NEW j \in 1 .. Len(s) + 1, i < j, c[j].no # 0
               PROVE  c[i].no < c[j].no
    BY <1>4 DEF InOrder
  <2>2. i \in 1 .. Len(s) /\ j \in 1 .. Len(s)
    BY <1>4
  <2>3. QED
    BY <1>4, <2>1, <2>2
<1>6. NosUpTo(c, k)
  <2>1. \A i \in 1 .. Len(s) : s[i].no <= k
    BY DEF NosUpTo
  <2> SUFFICES ASSUME NEW i \in 1 .. Len(s) + 1 PROVE c[i].no <= k
    BY <1>4 DEF NosUpTo
  <2>2. CASE i = Len(s) + 1
    BY <1>4, <2>2
  <2>3. CASE i # Len(s) + 1
    <3>1. i \in 1 .. Len(s)
      BY <1>4, <2>3
    <3>2. QED
      BY <1>4, <2>1, <3>1
  <2>4. QED
    BY <2>2, <2>3
<1>7. QED
  BY <1>1, <1>3, <1>5, <1>6

(* Lemma: the file is in order after the text of a cue.                     *)
LEMMA CueIsWritten ==
  ASSUME NEW t \in Nat, NEW k \in Nat, t <= k, NEW out, Written(out, t),
         NEW u, WrittenText(u, t, k), ~LastIsNumber(out \o u)
  PROVE  /\ Written(Append(out \o u, Blank), k) /\ ~LastIsNumber(Append(out \o u, Blank))
         /\ OpenTimes(Append(out \o u, Blank)) = {}
         /\ Times(Append(out \o u, Blank)) = Times(out \o u)
         /\ Texts(Append(out \o u, Blank)) = Texts(out \o u)
<1> DEFINE d == out \o u
           c == Append(d, Blank)
<1>0. /\ u \in Seq(LinesHeld) /\ InOrder(u)
      /\ \A m \in 1 .. Len(u) : u[m].no = 0 \/ (u[m].no > t /\ u[m].no <= k)
      /\ \A m \in 1 .. Len(u) : /\ u[m].kind \notin {"spaces", "cue"}
                                /\ u[m].kind = "tags" => m = Len(u)
  BY DEF WrittenText
<1>1. out \in Seq(LinesHeld) /\ InOrder(out) /\ NosUpTo(out, t) /\ Tagged(out)
  BY DEF Written
<1>2. Blank \in LinesHeld /\ Blank.kind = "empty" /\ Blank.no = 0
  BY LinesPutIn
<1>3. d \in Seq(LinesHeld) /\ d = out \o u /\ c = Append(d, Blank) /\ ~LastIsNumber(d)
  BY <1>0, <1>1
<1> HIDE DEF d, c
<1>4. \A m \in 1 .. Len(u) : u[m].no = 0 \/ u[m].no > t
  BY <1>0
<1>5. InOrder(d)
  BY <1>0, <1>1, <1>3, <1>4, OrderAfter
<1>6. \A i \in 1 .. Len(out) : out[i].no <= k
  <2>1. \A i \in 1 .. Len(out) : out[i] \in LinesHeld
    BY <1>1
  <2>2. \A i \in 1 .. Len(out) : out[i].no \in Nat /\ out[i].no <= t
    BY <1>1, <2>1 DEF NosUpTo, LinesHeld
  <2>3. QED
    BY <2>2
<1>7. NosUpTo(d, k)
  <2>1. NosUpTo(out, k)
    BY <1>6 DEF NosUpTo
  <2>2. \A m \in 1 .. Len(u) : u[m].no <= k
    BY <1>0
  <2>3. QED
    BY <1>0, <1>1, <1>3, <2>1, <2>2, NosOfBoth
<1>8. /\ c \in Seq(LinesHeld) /\ ~LastIsNumber(c) /\ OpenTimes(c) = {}
      /\ Times(c) = Times(d) /\ Texts(c) = Texts(d) /\ NosUpTo(c, k) /\ InOrder(c)
  BY <1>2, <1>3, <1>5, <1>7, BlankAfter
<1>9. Tagged(c)
  BY <1>0, <1>1, <1>2, <1>3, TaggedAfter
<1>10. QED
  BY <1>8, <1>9 DEF Written, c, d

(* Lemma: the end of a cue writes the text of it, as far as it is shown.    *)
LEMMA CueEnds ==
  ASSUME SourceOK, NEW k \in 1 .. Len(source), NEW t \in 1 .. k,
         \A i \in t + 1 .. k : source[i].kind \notin {"empty", "number"},
         NEW w, InText(w.out, t), w.text = SubSeq(source, t + 1, k)
  PROVE  /\ Written(EndCue(w), k) /\ Same(EndCue(w), Before(k))
         /\ OpenTimes(EndCue(w)) = {} /\ OpenTimes(Before(k)) = {t}
         /\ ~LastIsNumber(EndCue(w)) /\ ~LastIsNumber(Before(k))
<1> DEFINE text == SubSeq(source, t + 1, k)
           u == Coloured(text)
           s0 == Before(t)
           s == Before(k)
           out == w.out
           d == out \o u
           c == Append(d, Blank)
<1>1. Len(source) \in Nat /\ k \in Nat /\ t \in Nat /\ t >= 1 /\ t <= k /\ k <= Len(source)
      /\ k \in 0 .. Len(source) /\ t \in 0 .. k /\ t \in 0 .. Len(source)
  BY DEF SourceOK
<1>2. /\ TextHeld(text) /\ Plain(text) /\ Len(text) = k - t /\ NoneEmpty(text, k - t)
      /\ \A m \in 1 .. k - t : text[m].no = t + m
  BY <1>1, TextOfCue
<1>3. /\ text \in Seq(LinesHeld) /\ s = s0 \o text
      /\ \A m \in 1 .. k - t : text[m] = source[t + m]
  BY <1>1, BetweenIs
<1>4. s0 \in Seq(LinesHeld) /\ s \in Seq(LinesHeld)
  BY <1>1, BeforeIs
<1>5. Written(out, t) /\ out \in Seq(LinesHeld) /\ Same(out, s0)
      /\ OpenTimes(out) = {t} /\ OpenTimes(s0) = {t}
      /\ ~LastIsNumber(out) /\ ~LastIsNumber(s0)
      /\ NewTime(t, Texts(s0))
  BY DEF InText, Written
<1>6. u = Coloured(text) /\ w.text = text
  OBVIOUS
<1> HIDE DEF text, u, s0, s, out
<1>7. /\ u \in Seq(LinesHeld) /\ Plain(u) /\ InOrder(u)
      /\ \A m \in 1 .. Len(u) : u[m].no = 0 \/ \E x \in 1 .. Len(text) : u[m].no = text[x].no
      /\ \A m \in 1 .. Len(u) : /\ u[m].kind \notin {"spaces", "cue"}
                                /\ u[m].kind = "tags" => m = Len(u)
      /\ VisibleNos(u) \subseteq VisibleNos(text)
      /\ \A a \in VisibleNos(u) : \A b \in VisibleNos(text) : b < a => b \in VisibleNos(u)
      /\ (\A m \in 1 .. Len(text) : text[m].kind # "spaces") =>
             VisibleNos(u) = VisibleNos(text)
  BY <1>2, <1>6, ColouredShows
<1>8. d = out \o u /\ c = Append(d, Blank)
  OBVIOUS
<1>9. c = EndCue(w)
  <2>1. \A q \in Seq(LinesHeld) : q \o <<Blank>> = Append(q, Blank)
    OBVIOUS
  <2>2. d \in Seq(LinesHeld)
    BY <1>5, <1>7
  <2>3. EndCue(w) = d \o <<Blank>>
    BY <1>6 DEF EndCue, out
  <2> HIDE DEF d
  <2>4. QED
    BY <2>1, <2>2, <2>3
<1> HIDE DEF d
<1>10. /\ ~LastIsNumber(d) /\ Times(d) = Times(out)
       /\ Texts(d) = Texts(out) \cup (OpenTimes(out) \X VisibleNos(u))
  BY <1>5, <1>7, <1>8, TextShows
<1>11. /\ ~LastIsNumber(s) /\ Times(s) = Times(s0)
       /\ OpenTimes(s) = IF NoneEmpty(text, Len(text)) THEN OpenTimes(s0) ELSE {}
       /\ Texts(s) = Texts(s0) \cup (OpenTimes(s0) \X VisibleNos(text))
  BY <1>2, <1>3, <1>4, <1>5, TextShows
<1>12. ~SpacesInText => VisibleNos(u) = VisibleNos(text)
  <2> SUFFICES ASSUME NEW m \in 1 .. Len(text), text[m].kind = "spaces" PROVE SpacesInText
    BY <1>7
  <2>1. t + m \in 1 .. Len(source) /\ text[m] = source[t + m]
    BY <1>1, <1>2, <1>3
  <2>2. IsA(source, t + m, {"spaces"})
    BY <2>1 DEF IsA, SourceOK
  <2>3. QED
    BY <2>1, <2>2 DEF SpacesInText, SourceOK
<1>13. Same(d, s)
  <2> DEFINE na == VisibleNos(u)
             nb == VisibleNos(text)
  <2>1. Same(out, s0) /\ Times(d) = Times(out) /\ Times(s) = Times(s0)
    BY <1>5, <1>10, <1>11
  <2>2. Texts(d) = Texts(out) \cup ({t} \X na) /\ Texts(s) = Texts(s0) \cup ({t} \X nb)
    BY <1>5, <1>10, <1>11
  <2>3. FirstOf(na, nb)
    BY <1>7, <1>12 DEF FirstOf
  <2>4. NewTime(t, Texts(s0))
    BY <1>5
  <2> HIDE DEF na, nb
  <2>5. QED
    BY <2>1, <2>2, <2>3, <2>4, CueShows
<1>14. \A m \in 1 .. Len(u) : u[m].no = 0 \/ (u[m].no > t /\ u[m].no <= k)
  <2>1. ASSUME NEW x \in 1 .. Len(text) PROVE text[x].no > t /\ text[x].no <= k
    <3>1. x \in 1 .. k - t /\ text[x].no = t + x
      BY <1>2
    <3>2. QED
      BY <1>1, <3>1
  <2>2. \A m \in 1 .. Len(u) : u[m].no = 0 \/ \E x \in 1 .. Len(text) : u[m].no = text[x].no
    BY <1>7
  <2>3. QED
    BY <2>1, <2>2
<1>15. ~LastIsNumber(out \o u)
  BY <1>8, <1>10
<1>16. /\ Written(c, k) /\ ~LastIsNumber(c) /\ OpenTimes(c) = {}
       /\ Times(c) = Times(d) /\ Texts(c) = Texts(d)
  <2>1. t \in Nat /\ k \in Nat /\ t <= k
    BY <1>1
  <2>2. /\ Written(Append(out \o u, Blank), k) /\ ~LastIsNumber(Append(out \o u, Blank))
        /\ OpenTimes(Append(out \o u, Blank)) = {}
        /\ Times(Append(out \o u, Blank)) = Times(out \o u)
        /\ Texts(Append(out \o u, Blank)) = Texts(out \o u)
    <3>1. WrittenText(u, t, k)
      BY <1>7, <1>14 DEF WrittenText
    <3>2. QED
      BY <1>5, <1>15, <2>1, <3>1, CueIsWritten
  <2>3. QED
    BY <1>8, <2>2
<1>17. Same(c, s)
  BY <1>13, <1>16 DEF Same
<1>18. OpenTimes(s) = {t}
  BY <1>2, <1>5, <1>11
<1>19. QED
  BY <1>9, <1>11, <1>16, <1>17, <1>18 DEF s

-----------------------------------------------------------------------------
(* SRT.convert.                                                             *)

(* Lemma: one line more is in order when it comes later.                    *)
LEMMA LineInOrder ==
  ASSUME NEW s \in Seq(LinesHeld), InOrder(s), NEW l \in LinesHeld,
         l.no # 0 => \A i \in 1 .. Len(s) : s[i].no < l.no
  PROVE  Append(s, l) \in Seq(LinesHeld) /\ InOrder(Append(s, l))
<1> DEFINE c == Append(s, l)
<1>1. /\ c \in Seq(LinesHeld) /\ Len(s) \in Nat /\ Len(c) = Len(s) + 1
      /\ DOMAIN c = 1 .. Len(s) + 1
      /\ \A i \in 1 .. Len(s) : c[i] = s[i]
      /\ c[Len(s) + 1] = l
  OBVIOUS
<1> HIDE DEF c
<1>2. \A i, j \in 1 .. Len(s) : i < j /\ s[j].no # 0 => s[i].no < s[j].no
  BY DEF InOrder
<1>3. ASSUME NEW i \in 1 .. Len(s) + 1, NEW j \in 1 .. Len(s) + 1, i < j, c[j].no # 0
      PROVE  c[i].no < c[j].no
  <2>1. i \in 1 .. Len(s) /\ (j \in 1 .. Len(s) \/ j = Len(s) + 1)
    BY <1>1, <1>3
  <2>2. QED
    BY <1>1, <1>2, <1>3, <2>1
<1>4. QED
  BY <1>1, <1>3 DEF InOrder, c

(* Lemma: a line of the file is written behind those before it.             *)
LEMMA LineIsWritten ==
  ASSUME NEW k \in Nat, k # 0, NEW s, Written(s, k - 1), NEW l \in LinesHeld, l.no = k,
         l.kind \notin {"spaces", "cue", "tags"}
  PROVE  Written(Append(s, l), k)
<1> DEFINE c == Append(s, l)
<1>1. s \in Seq(LinesHeld) /\ InOrder(s) /\ NosUpTo(s, k - 1) /\ Tagged(s)
  BY DEF Written
<1>2. ASSUME NEW i \in 1 .. Len(s) PROVE s[i].no \in Nat /\ s[i].no <= k - 1
  <2>1. s[i] \in LinesHeld
    BY <1>1
  <2>2. QED
    BY <1>1, <2>1 DEF NosUpTo, LinesHeld
<1>3. c \in Seq(LinesHeld) /\ InOrder(c)
  <2>1. l.no # 0 => \A i \in 1 .. Len(s) : s[i].no < l.no
    BY <1>2
  <2>2. QED
    BY <1>1, <2>1, LineInOrder
<1>4. /\ Len(s) \in Nat /\ Len(c) = Len(s) + 1
      /\ \A i \in 1 .. Len(s) : c[i] = s[i]
      /\ c[Len(s) + 1] = l
  BY <1>1
<1> HIDE DEF c
<1>5. ASSUME NEW i \in 1 .. Len(c) PROVE i \in 1 .. Len(s) \/ c[i] = l
  BY <1>4
<1>6. NosUpTo(c, k)
  <2> SUFFICES ASSUME NEW i \in 1 .. Len(c) PROVE c[i].no <= k
    BY DEF NosUpTo
  <2>1. CASE i \in 1 .. Len(s)
    BY <1>2, <1>4, <2>1
  <2>2. QED
    BY <1>5, <2>1
<1>7. Tagged(c)
  <2> SUFFICES ASSUME NEW i \in 1 .. Len(c)
               PROVE  /\ c[i].kind \notin {"spaces", "cue"}
                      /\ c[i].kind = "tags" => i + 1 \in 1 .. Len(c) /\ c[i + 1].kind = "empty"
    BY DEF Tagged
  <2>1. CASE i \in 1 .. Len(s)
    <3>1. /\ s[i].kind \notin {"spaces", "cue"}
          /\ s[i].kind = "tags" => i + 1 \in 1 .. Len(s) /\ s[i + 1].kind = "empty"
      BY <1>1, <2>1 DEF Tagged
    <3>2. QED
      BY <1>4, <2>1, <3>1
  <2>2. CASE c[i] = l
    BY <2>2
  <2>3. QED
    BY <1>5, <2>1, <2>2
<1>8. QED
  BY <1>3, <1>6, <1>7 DEF Written, c

(* Lemma: what is in order up to a line is up to the next.                  *)
LEMMA WrittenFurther ==
  ASSUME NEW k \in Nat, NEW j \in Nat, j <= k, NEW s, Written(s, j)
  PROVE  Written(s, k)
<1>1. s \in Seq(LinesHeld) /\ InOrder(s) /\ NosUpTo(s, j) /\ Tagged(s)
  BY DEF Written
<1>2. ASSUME NEW i \in 1 .. Len(s) PROVE s[i].no <= k
  <2>1. s[i] \in LinesHeld
    BY <1>1
  <2>2. s[i].no \in Nat /\ s[i].no <= j
    BY <1>1, <2>1 DEF NosUpTo, LinesHeld
  <2>3. QED
    BY <2>2
<1>3. QED
  BY <1>1, <1>2 DEF Written, NosUpTo

(* Lemma: a time that comes later is new.                                   *)
LEMMA LaterTime ==
  ASSUME SourceOK, NEW k \in 1 .. Len(source)
  PROVE  NewTime(k, Texts(Before(k - 1)))
<1> DEFINE s == Before(k - 1)
<1>0. k - 1 \in 0 .. Len(source) /\ Len(source) \in Nat
  BY DEF SourceOK
<1>1. s \in Seq(LinesHeld) /\ Len(s) = k - 1 /\ \A i \in 1 .. k - 1 : s[i] = source[i]
  BY <1>0, BeforeIs
<1> HIDE DEF s
<1>2. ASSUME NEW p \in Texts(s) PROVE p[1] # k
  <2>1. PICK i \in Starts(s) : \E j \in InCue(s, i) : p = <<s[i].no, s[j].no>>
    BY TextsAt
  <2>2. i \in 1 .. k - 1
    BY <1>1 DEF Starts
  <2>3. i \in 1 .. Len(source) /\ s[i].no = i
    BY <1>0, <1>1, <2>2 DEF SourceOK
  <2>4. p[1] = i
    BY <2>1, <2>3
  <2>5. QED
    BY <2>2, <2>4
<1>3. QED
  BY <1>2 DEF NewTime, s

(* Outside of the cues, and before the time of one.                         *)
Outside(out, k) ==
    /\ Written(out, k) /\ Same(out, Before(k))
    /\ OpenTimes(out) = {} /\ OpenTimes(Before(k)) = {}
    /\ ~LastIsNumber(out) /\ ~LastIsNumber(Before(k))

AtTime(out, k) ==
    /\ Written(out, k) /\ Same(out, Before(k))
    /\ OpenTimes(out) = {} /\ OpenTimes(Before(k)) = {}
    /\ LastIsNumber(out) /\ LastIsNumber(Before(k))

(* Lemma: a line outside of the cues is not written, and not shown.         *)
LEMMA OutsideStays ==
  ASSUME SourceOK, NEW k \in 1 .. Len(source), source[k].kind # "number",
         NEW out, Outside(out, k - 1)
  PROVE  Outside(out, k)
<1> DEFINE a == Before(k - 1)
           b == Before(k)
           l == source[k]
<1>1. k \in Nat /\ k - 1 \in Nat /\ k - 1 <= k /\ k - 1 \in 0 .. Len(source)
  BY DEF SourceOK
<1>2. l \in LinesHeld /\ l.kind \notin {"number", "cue"}
  BY DEF SourceOK, Kinds
<1>3. b = Append(a, l) /\ a \in Seq(LinesHeld)
  BY <1>1, BeforeNext, BeforeIs
<1>4. /\ Written(out, k - 1) /\ Same(out, a) /\ OpenTimes(out) = {} /\ OpenTimes(a) = {}
      /\ ~LastIsNumber(out) /\ ~LastIsNumber(a)
  BY DEF Outside
<1> HIDE DEF a, b, l
<1>5. /\ ~LastIsNumber(b) /\ Times(b) = Times(a) /\ OpenTimes(b) = {}
  BY <1>2, <1>3, <1>4, LineAfter
<1>6. ASSUME NEW p PROVE p \in Texts(b) <=> p \in Texts(a)
  BY <1>2, <1>3, <1>4, LineAfter
<1>7. Texts(b) = Texts(a)
  BY <1>6
<1>8. Written(out, k)
  BY <1>1, <1>4, WrittenFurther
<1>9. Same(out, b)
  BY <1>4, <1>5, <1>7 DEF Same
<1>10. QED
  BY <1>4, <1>5, <1>8, <1>9 DEF Outside, b

(* Lemma: a number is written, and begins a cue.                            *)
LEMMA NumberIsRead ==
  ASSUME SourceOK, NEW k \in 1 .. Len(source), source[k].kind = "number",
         NEW out, Written(out, k - 1), Same(out, Before(k - 1))
  PROVE  AtTime(Append(out, source[k]), k)
<1> DEFINE a == Before(k - 1)
           b == Before(k)
           l == source[k]
           c == Append(out, l)
<1>1. k \in Nat /\ k # 0 /\ k - 1 \in 0 .. Len(source)
  BY DEF SourceOK
<1>2. l \in LinesHeld /\ l.kind = "number" /\ l.no = k
  BY DEF SourceOK
<1>3. b = Append(a, l) /\ a \in Seq(LinesHeld)
  BY <1>1, BeforeNext, BeforeIs
<1>4. Written(out, k - 1) /\ out \in Seq(LinesHeld) /\ Same(out, a) /\ c = Append(out, l)
  BY DEF Written
<1> HIDE DEF a, b, l, c
<1>5. LastIsNumber(b) /\ Times(b) = Times(a) /\ Texts(b) = Texts(a) /\ OpenTimes(b) = {}
  BY <1>2, <1>3, NumberAfter
<1>6. LastIsNumber(c) /\ Times(c) = Times(out) /\ Texts(c) = Texts(out) /\ OpenTimes(c) = {}
  BY <1>2, <1>4, NumberAfter
<1>7. Written(c, k)
  BY <1>1, <1>2, <1>4, LineIsWritten
<1>8. Same(c, b)
  BY <1>4, <1>5, <1>6 DEF Same
<1>9. AtTime(c, k)
  BY <1>5, <1>6, <1>7, <1>8 DEF AtTime, b
<1>10. QED
  BY <1>9 DEF c, l

(* Lemma: so is a time after it.                                            *)
LEMMA TimeIsRead ==
  ASSUME SourceOK, NEW k \in 1 .. Len(source), source[k].kind \in {"time", "arrow"},
         NEW out, AtTime(out, k - 1)
  PROVE  InText(Append(out, source[k]), k)
<1> DEFINE a == Before(k - 1)
           b == Before(k)
           l == source[k]
           c == Append(out, l)
<1>1. k \in Nat /\ k # 0 /\ k - 1 \in 0 .. Len(source)
  BY DEF SourceOK
<1>2. l \in LinesHeld /\ l.kind \in {"time", "arrow"} /\ l.no = k
  BY DEF SourceOK
<1>3. b = Append(a, l) /\ a \in Seq(LinesHeld)
  BY <1>1, BeforeNext, BeforeIs
<1>4. /\ Written(out, k - 1) /\ out \in Seq(LinesHeld) /\ Same(out, a) /\ c = Append(out, l)
      /\ LastIsNumber(out) /\ LastIsNumber(a)
  BY DEF AtTime, Written
<1>5. NewTime(k, Texts(a))
  BY LaterTime
<1> HIDE DEF a, b, l, c
<1>6. ~LastIsNumber(b) /\ Times(b) = Times(a) \cup {k} /\ Texts(b) = Texts(a) /\ OpenTimes(b) = {k}
  BY <1>2, <1>3, <1>4, CueAfter
<1>7. ~LastIsNumber(c) /\ Times(c) = Times(out) \cup {k} /\ Texts(c) = Texts(out)
      /\ OpenTimes(c) = {k}
  BY <1>2, <1>4, CueAfter
<1>8. Written(c, k)
  BY <1>1, <1>2, <1>4, LineIsWritten
<1>9. Same(c, b)
  BY <1>4, <1>6, <1>7 DEF Same
<1>10. InText(c, k)
  BY <1>5, <1>6, <1>7, <1>8, <1>9 DEF InText, b
<1>11. QED
  BY <1>10 DEF c, l

(* Lemma: an empty line ends the text in the file too.                      *)
LEMMA EmptyIsRead ==
  ASSUME SourceOK, NEW k \in 1 .. Len(source), source[k].kind = "empty",
         NEW out, Written(out, k - 1), Same(out, Before(k - 1)), OpenTimes(out) = {},
         ~LastIsNumber(out), ~LastIsNumber(Before(k - 1))
  PROVE  Outside(out, k)
<1> DEFINE a == Before(k - 1)
           b == Before(k)
           l == source[k]
<1>1. k \in Nat /\ k - 1 \in Nat /\ k - 1 <= k /\ k - 1 \in 0 .. Len(source)
  BY DEF SourceOK
<1>2. l \in LinesHeld /\ l.kind = "empty"
  BY DEF SourceOK
<1>3. b = Append(a, l) /\ a \in Seq(LinesHeld)
  BY <1>1, BeforeNext, BeforeIs
<1>4. /\ Written(out, k - 1) /\ Same(out, a) /\ OpenTimes(out) = {}
      /\ ~LastIsNumber(out) /\ ~LastIsNumber(a)
  OBVIOUS
<1> HIDE DEF a, b, l
<1>5. /\ ~LastIsNumber(b) /\ Times(b) = Times(a) /\ OpenTimes(b) = {}
  BY <1>2, <1>3, <1>4, LineAfter
<1>6. ASSUME NEW p PROVE p \in Texts(b) <=> p \in Texts(a)
  BY <1>2, <1>3, <1>4, LineAfter
<1>7. Texts(b) = Texts(a)
  BY <1>6
<1>8. Written(out, k)
  BY <1>1, <1>4, WrittenFurther
<1>9. Same(out, b)
  BY <1>4, <1>5, <1>7 DEF Same
<1>10. QED
  BY <1>4, <1>5, <1>8, <1>9 DEF Outside, b

(* Every number of these lines begins a cue.                                *)
NumbersBegin(k) == \A i \in 1 .. k : source[i].kind = "number" => IsTime(source, i + 1)

(* The time is the t-th line, and the text came after it.                   *)
TextFrom(w, t, k) ==
    /\ InText(w.out, t) /\ w.text = SubSeq(source, t + 1, k)
    /\ \A i \in t + 1 .. k : source[i].kind \notin {"empty", "number"}

(* What SRT.convert has read.                                               *)
SrtReads(w, k) ==
    \/ w.at = "failed" /\ NumberInText
    \/ w.at = "outside" /\ Outside(w.out, k) /\ NumbersBegin(k)
    \/ w.at = "time" /\ AtTime(w.out, k) /\ NumbersBegin(k - 1) /\ IsNumber(source, k)
    \/ w.at = "text" /\ NumbersBegin(k) /\ \E t \in 1 .. k : TextFrom(w, t, k)

(* Lemma: the next line, too, begins a cue if it is a number.               *)
LEMMA NumbersNext ==
  ASSUME SourceOK, NEW k \in 1 .. Len(source), NumbersBegin(k - 1),
         source[k].kind = "number" => IsTime(source, k + 1)
  PROVE  NumbersBegin(k)
<1>1. \A i \in 1 .. k : i \in 1 .. k - 1 \/ i = k
  OBVIOUS
<1>2. QED
  BY <1>1 DEF NumbersBegin

(* Lemma: every line is read.                                               *)
LEMMA FromOutside ==
  ASSUME SourceOK, NEW k \in 1 .. Len(source), NEW w, w.at = "outside",
         Outside(w.out, k - 1), NumbersBegin(k - 1)
  PROVE  SrtReads(SrtLine(w, source[k]), k)
<1> DEFINE l == source[k]
           r == SrtLine(w, l)
<1>1. r = FindNumber(w, l)
  BY DEF SrtLine
<1>2. CASE l.kind = "number"
  <2>1. r = Srt("time", Append(w.out, l), <<>>)
    BY <1>1, <1>2 DEF FindNumber
  <2> HIDE DEF r
  <2>2. r.at = "time" /\ r.out = Append(w.out, l)
    BY <2>1 DEF Srt
  <2>3. AtTime(Append(w.out, l), k)
    BY <1>2, NumberIsRead DEF Outside
  <2>4. IsNumber(source, k)
    BY <1>2 DEF IsNumber, IsA, SourceOK
  <2>5. SrtReads(r, k)
    BY <2>2, <2>3, <2>4 DEF SrtReads
  <2>6. QED
    BY <2>5 DEF r
<1>3. CASE l.kind # "number"
  <2>1. r = w
    BY <1>1, <1>3 DEF FindNumber
  <2>2. Outside(w.out, k)
    BY <1>3, OutsideStays
  <2>3. NumbersBegin(k)
    BY <1>3, NumbersNext
  <2> HIDE DEF r
  <2>4. SrtReads(r, k)
    BY <2>1, <2>2, <2>3 DEF SrtReads
  <2>5. QED
    BY <2>4 DEF r
<1>4. QED
  BY <1>2, <1>3

LEMMA FromTime ==
  ASSUME SourceOK, NEW k \in 1 .. Len(source), NEW w, w.at = "time",
         AtTime(w.out, k - 1), NumbersBegin(k - 2), IsNumber(source, k - 1)
  PROVE  SrtReads(SrtLine(w, source[k]), k)
<1> DEFINE l == source[k]
           r == SrtLine(w, l)
<1>0. Len(source) \in Nat /\ k \in 1 .. Len(source) /\ k \in Nat /\ DOMAIN source = 1 .. Len(source)
  BY DEF SourceOK
<1>1. r = ReadTime(w, l)
  BY DEF SrtLine
<1>2. k - 1 \in 1 .. Len(source)
  BY <1>0 DEF IsNumber, IsA
<1>3. CASE l.kind \in {"time", "arrow"}
  <2>1. r = Srt("text", Append(w.out, l), <<>>)
    BY <1>1, <1>3 DEF ReadTime
  <2> HIDE DEF r
  <2>2. r.at = "text" /\ r.out = Append(w.out, l) /\ r.text = <<>>
    BY <2>1 DEF Srt
  <2>3. InText(Append(w.out, l), k)
    BY <1>3, TimeIsRead
  <2>4. SubSeq(source, k + 1, k) = <<>>
    BY <1>0 DEF SourceOK
  <2>5. TextFrom(r, k, k)
    BY <1>0, <2>2, <2>3, <2>4 DEF TextFrom
  <2>6. NumbersBegin(k - 1)
    <3>1. IsTime(source, k)
      BY <1>0, <1>3 DEF IsTime, IsA
    <3>2. NumbersBegin((k - 1) - 1) /\ (k - 1) + 1 = k
      <4>1. (k - 1) - 1 = k - 2 /\ (k - 1) + 1 = k
        BY <1>0
      <4>2. QED
        BY <4>1
    <3>3. QED
      BY <1>2, <3>1, <3>2, NumbersNext
  <2>7. NumbersBegin(k)
    BY <1>3, <2>6, NumbersNext
  <2>8. k \in 1 .. k
    BY <1>0
  <2>9. SrtReads(r, k)
    BY <2>2, <2>5, <2>7, <2>8 DEF SrtReads
  <2>10. QED
    BY <2>9 DEF r
<1>4. CASE l.kind \notin {"time", "arrow"}
  <2>1. r = Srt("failed", <<>>, <<>>)
    BY <1>1, <1>4 DEF ReadTime
  <2> HIDE DEF r
  <2>2. r.at = "failed"
    BY <2>1 DEF Srt
  <2>3. ~IsTime(source, (k - 1) + 1) /\ k - 1 \in DOMAIN source
    <3>1. (k - 1) + 1 = k
      BY <1>0
    <3>2. ~IsTime(source, k)
      BY <1>4 DEF IsTime, IsA
    <3>3. QED
      BY <1>0, <1>2, <3>1, <3>2
  <2>4. NumberInText
    BY <2>3 DEF NumberInText
  <2>5. SrtReads(r, k)
    BY <2>2, <2>4 DEF SrtReads
  <2>6. QED
    BY <2>5 DEF r
<1>5. QED
  BY <1>3, <1>4

LEMMA FromText ==
  ASSUME SourceOK, NEW k \in 1 .. Len(source), NEW w, w.at = "text",
         NEW t \in 1 .. k - 1, TextFrom(w, t, k - 1), NumbersBegin(k - 1)
  PROVE  SrtReads(SrtLine(w, source[k]), k)
<1> DEFINE l == source[k]
           r == SrtLine(w, l)
           e == EndCue(w)
<1>0. Len(source) \in Nat /\ k \in 1 .. Len(source) /\ k \in Nat /\ t \in Nat /\ t <= k - 1
      /\ DOMAIN source = 1 .. Len(source)
      /\ k - 1 \in 1 .. Len(source)
  BY DEF SourceOK
<1>1. r = ReadText(w, l)
  BY DEF SrtLine
<1>2. /\ Written(e, k - 1) /\ Same(e, Before(k - 1)) /\ OpenTimes(e) = {}
      /\ ~LastIsNumber(e) /\ ~LastIsNumber(Before(k - 1))
  <2>1. /\ \A i \in t + 1 .. k - 1 : source[i].kind \notin {"empty", "number"}
        /\ InText(w.out, t) /\ w.text = SubSeq(source, t + 1, k - 1)
    BY DEF TextFrom
  <2>2. QED
    BY <1>0, <2>1, CueEnds
<1>3. CASE l.kind = "empty"
  <2>1. r = Srt("outside", e, <<>>)
    BY <1>1, <1>3 DEF ReadText
  <2> HIDE DEF e
  <2> HIDE DEF r
  <2>2. r.at = "outside" /\ r.out = e
    BY <2>1 DEF Srt
  <2>3. Outside(e, k)
    BY <1>2, <1>3, EmptyIsRead
  <2>4. NumbersBegin(k)
    BY <1>3, NumbersNext
  <2>5. SrtReads(r, k)
    BY <2>2, <2>3, <2>4 DEF SrtReads
  <2>6. QED
    BY <2>5 DEF r
<1>4. CASE l.kind = "number"
  <2>1. r = Srt("time", Append(e, l), <<>>)
    BY <1>1, <1>4 DEF ReadText
  <2> HIDE DEF e
  <2> HIDE DEF r
  <2>2. r.at = "time" /\ r.out = Append(e, l)
    BY <2>1 DEF Srt
  <2>3. AtTime(Append(e, l), k)
    BY <1>2, <1>4, NumberIsRead
  <2>4. IsNumber(source, k)
    BY <1>0, <1>4 DEF IsNumber, IsA
  <2>5. SrtReads(r, k)
    BY <2>2, <2>3, <2>4 DEF SrtReads
  <2>6. QED
    BY <2>5 DEF r
<1>5. CASE l.kind \notin {"empty", "number"}
  <2>1. r = Srt("text", w.out, Append(w.text, l))
    BY <1>1, <1>5 DEF ReadText
  <2> HIDE DEF r
  <2>2. r.at = "text" /\ r.out = w.out /\ r.text = Append(w.text, l)
    BY <2>1 DEF Srt
  <2>3. SubSeq(source, t + 1, k) = Append(SubSeq(source, t + 1, k - 1), source[k])
    <3>1. t \in 0 .. k - 1
      BY <1>0
    <3>2. QED
      BY <3>1, BetweenNext
  <2>4. InText(w.out, t) /\ w.text = SubSeq(source, t + 1, k - 1)
    BY DEF TextFrom
  <2>5. \A i \in t + 1 .. k : source[i].kind \notin {"empty", "number"}
    <3>1. \A i \in t + 1 .. k : i \in t + 1 .. k - 1 \/ i = k
      BY <1>0
    <3>2. QED
      BY <1>5, <3>1 DEF TextFrom
  <2>6. TextFrom(r, t, k)
    BY <2>2, <2>3, <2>4, <2>5 DEF TextFrom
  <2>7. NumbersBegin(k)
    BY <1>5, NumbersNext
  <2>8. t \in 1 .. k
    BY <1>0
  <2>9. SrtReads(r, k)
    BY <2>2, <2>6, <2>7, <2>8 DEF SrtReads
  <2>10. QED
    BY <2>9 DEF r
<1>6. QED
  BY <1>3, <1>4, <1>5

LEMMA SrtNext ==
  ASSUME SourceOK, NEW k \in 1 .. Len(source), NEW w, SrtReads(w, k - 1)
  PROVE  SrtReads(SrtLine(w, source[k]), k)
<1>1. CASE w.at = "failed" /\ NumberInText
  <2>1. SrtLine(w, source[k]) = w
    BY <1>1 DEF SrtLine
  <2>2. SrtReads(w, k)
    BY <1>1 DEF SrtReads
  <2>3. QED
    BY <2>1, <2>2
<1>2. CASE w.at = "outside" /\ Outside(w.out, k - 1) /\ NumbersBegin(k - 1)
  BY <1>2, FromOutside
<1>3. CASE w.at = "time" /\ AtTime(w.out, k - 1) /\ NumbersBegin((k - 1) - 1)
           /\ IsNumber(source, k - 1)
  <2>1. (k - 1) - 1 = k - 2
    OBVIOUS
  <2>2. NumbersBegin(k - 2)
    BY <1>3, <2>1
  <2>3. QED
    BY <1>3, <2>2, FromTime
<1>4. CASE w.at = "text" /\ NumbersBegin(k - 1) /\ \E t \in 1 .. k - 1 : TextFrom(w, t, k - 1)
  <2>1. PICK t \in 1 .. k - 1 : TextFrom(w, t, k - 1)
    BY <1>4
  <2>2. QED
    BY <1>4, <2>1, FromText
<1>5. QED
  BY <1>1, <1>2, <1>3, <1>4 DEF SrtReads

(* Lemma: the file is read to its end.                                      *)
LEMMA SrtUpTo ==
  ASSUME NEW lines, Len(lines) \in Nat
  PROVE  \E f : f = [k \in 0 .. Len(lines) |->
                        IF k = 0 THEN Srt("outside", <<>>, <<>>)
                                 ELSE SrtLine(f[k - 1], lines[k])]
<1> DEFINE N == Len(lines)
           first == Srt("outside", <<>>, <<>>)
           Step(w, k) == SrtLine(w, lines[k])
           Is(f, n) == f = [k \in 0 .. n |-> IF k = 0 THEN first ELSE Step(f[k - 1], k)]
           Reached == {n \in 0 .. N : \E f : Is(f, n)}
<1>1. N \in Nat
  OBVIOUS
<1> HIDE DEF N, first, Step
<1>2. 0 \in Reached
  <2>1. Is([k \in 0 .. 0 |-> first], 0)
    OBVIOUS
  <2>2. \E f : Is(f, 0)
    BY <2>1
  <2>3. QED
    BY <1>1, <2>2
<1>3. ASSUME NEW n \in 1 .. N, n - 1 \in Reached PROVE n \in Reached
  <2>1. PICK f : Is(f, n - 1)
    BY <1>3
  <2> DEFINE g == [k \in 0 .. n |-> IF k = n THEN Step(f[n - 1], n) ELSE f[k]]
  <2>2. n \in Nat /\ n # 0 /\ n \in 0 .. N
    BY <1>1
  <2>3. ASSUME NEW k \in 0 .. n PROVE g[k] = IF k = 0 THEN first ELSE Step(g[k - 1], k)
    <3>1. CASE k = 0
      BY <2>1, <2>2, <3>1
    <3>2. CASE k # 0
      <4>1. k - 1 \in 0 .. n /\ k - 1 # n /\ g[k - 1] = f[k - 1]
        BY <2>2, <3>2
      <4>2. CASE k = n
        BY <2>2, <4>1, <4>2
      <4>3. CASE k # n
        <5>1. k \in 0 .. n - 1 /\ g[k] = f[k]
          BY <2>2, <4>3
        <5>2. f[k] = Step(f[k - 1], k)
          BY <2>1, <3>2, <5>1
        <5>3. QED
          BY <3>2, <4>1, <5>1, <5>2
      <4>4. QED
        BY <4>2, <4>3
    <3>3. QED
      BY <3>1, <3>2
  <2>4. g = [k \in 0 .. n |-> g[k]]
    OBVIOUS
  <2> HIDE DEF g
  <2>5. Is(g, n)
    BY <2>3, <2>4
  <2>6. \E h : Is(h, n)
    BY <2>5
  <2>7. QED
    BY <2>2, <2>6
<1> HIDE DEF Reached
<1>4. \A n \in 0 .. N : n \in Reached
  BY <1>1, <1>2, <1>3, UpTo
<1>5. N \in Reached
  BY <1>1, <1>4
<1>6. PICK f : Is(f, N)
  BY <1>5 DEF Reached
<1>7. QED
  BY <1>6 DEF N, first, Step

(* Lemma: no line is read, and none is written.                             *)
LEMMA NothingRead ==
  ASSUME SourceOK
  PROVE  SrtReads(Srt("outside", <<>>, <<>>), 0)
<1> DEFINE w == Srt("outside", <<>>, <<>>)
           s == Before(0)
<1>1. w.at = "outside" /\ w.out = <<>>
  BY DEF Srt
<1>2. s = <<>>
  BY DEF Before, SourceOK
<1> HIDE DEF w, s
<1>3. <<>> \in Seq(LinesHeld) /\ Len(<<>>) = 0 /\ DOMAIN <<>> = {}
  OBVIOUS
<1>4. Starts(<<>>) = {}
  BY <1>3 DEF Starts
<1>5. Times(<<>>) = {} /\ Texts(<<>>) = {} /\ OpenTimes(<<>>) = {} /\ ~LastIsNumber(<<>>)
  BY <1>3, <1>4 DEF Times, Texts, OpenTimes, LastIsNumber, IsNumber, IsA
<1>6. Written(<<>>, 0)
  BY <1>3 DEF Written, InOrder, NosUpTo, Tagged
<1>7. Same(<<>>, <<>>)
  BY <1>5 DEF Same, Kept
<1>8. Outside(<<>>, 0)
  BY <1>2, <1>5, <1>6, <1>7 DEF Outside, s
<1>9. NumbersBegin(0)
  BY DEF NumbersBegin
<1>10. SrtReads(w, 0)
  BY <1>1, <1>8, <1>9 DEF SrtReads
<1>11. QED
  BY <1>10 DEF w

(* Lemma: SRT.convert has read the whole file.                              *)
LEMMA SrtRead ==
  ASSUME SourceOK
  PROVE  SrtReads(ReadSrt(source), Len(source))
<1> DEFINE N == Len(source)
           first == Srt("outside", <<>>, <<>>)
           Step(w, k) == SrtLine(w, source[k])
           Is(f) == f = [k \in 0 .. N |-> IF k = 0 THEN first ELSE Step(f[k - 1], k)]
           upTo == CHOOSE f : Is(f)
<1>1. ReadSrt(source) = upTo[N]
  BY DEF ReadSrt
<1>2. N \in Nat
  BY DEF SourceOK
<1>3. \E f : Is(f)
  BY <1>2, SrtUpTo
<1>4. Is(upTo)
  BY <1>3
<1>5. SrtReads(first, 0)
  BY NothingRead
<1>6. ASSUME NEW k \in 1 .. N, NEW w, SrtReads(w, k - 1) PROVE SrtReads(Step(w, k), k)
  BY <1>6, SrtNext
<1> HIDE DEF N, first, Step, upTo
<1>7. upTo[0] = first /\ \A k \in 1 .. N : upTo[k] = Step(upTo[k - 1], k)
  BY <1>2, <1>4
<1> DEFINE Good == {k \in 0 .. N : SrtReads(upTo[k], k)}
<1>8. 0 \in Good
  BY <1>2, <1>5, <1>7
<1>9. ASSUME NEW k \in 1 .. N, k - 1 \in Good PROVE k \in Good
  <2>1. SrtReads(upTo[k - 1], k - 1)
    BY <1>9
  <2>2. SrtReads(Step(upTo[k - 1], k), k)
    BY <1>6, <2>1
  <2>3. k \in 0 .. N
    BY <1>2
  <2>4. QED
    BY <1>7, <2>2, <2>3
<1>10. N \in Good
  <2> HIDE DEF Good
  <2>1. \A k \in 0 .. N : k \in Good
    BY <1>2, <1>8, <1>9, UpTo
  <2>2. QED
    BY <1>2, <2>1
<1>11. QED
  BY <1>1, <1>10 DEF N

(* The saved file.                                                          *)
Saved(out) ==
    IF NumberInText THEN out = <<>>
    ELSE Written(out, Len(source)) /\ Same(out, source)

(* Lemma: SRT.convert keeps the cues.                                       *)
LEMMA SrtKeeps ==
  ASSUME SourceOK
  PROVE  Saved(ConvertSrt(source))
<1> DEFINE w == ReadSrt(source)
           N == Len(source)
           c == ConvertSrt(source)
<1>1. SrtReads(w, N)
  BY SrtRead
<1>2. c = IF w.at = "text" THEN EndCue(w) ELSE IF w.at = "outside" THEN w.out ELSE <<>>
  BY DEF ConvertSrt
<1>3. N \in Nat /\ DOMAIN source = 1 .. N /\ source \in Seq(LinesHeld)
  BY DEF SourceOK
<1>4. Before(N) = source
  BY <1>3 DEF Before
<1> HIDE DEF w, c
<1>5. NumbersBegin(N) => ~NumberInText
  BY <1>3 DEF NumbersBegin, NumberInText, IsNumber, IsA
<1>6. CASE w.at = "failed" /\ NumberInText
  BY <1>2, <1>6 DEF Saved, c
<1>7. CASE w.at = "outside" /\ Outside(w.out, N) /\ NumbersBegin(N)
  <2>1. c = w.out /\ Written(c, N) /\ Same(c, source)
    BY <1>2, <1>4, <1>7 DEF Outside
  <2>2. Saved(c)
    BY <1>5, <1>7, <2>1 DEF Saved
  <2>3. QED
    BY <2>2 DEF c
<1>8. CASE w.at = "time" /\ AtTime(w.out, N) /\ NumbersBegin(N - 1) /\ IsNumber(source, N)
  <2>1. c = <<>>
    BY <1>2, <1>8
  <2>2. N \in DOMAIN source /\ ~IsTime(source, N + 1)
    BY <1>3, <1>8 DEF IsNumber, IsTime, IsA
  <2>3. NumberInText
    BY <1>8, <2>2 DEF NumberInText
  <2>4. Saved(c)
    BY <2>1, <2>3 DEF Saved
  <2>5. QED
    BY <2>4 DEF c
<1>9. CASE w.at = "text" /\ NumbersBegin(N) /\ \E t \in 1 .. N : TextFrom(w, t, N)
  <2>1. PICK t \in 1 .. N : TextFrom(w, t, N)
    BY <1>9
  <2>2. c = EndCue(w)
    BY <1>2, <1>9
  <2>3. Written(c, N) /\ Same(c, Before(N))
    <3>1. N \in 1 .. N /\ N \in 1 .. Len(source)
      BY <1>3
    <3>2. /\ \A i \in t + 1 .. N : source[i].kind \notin {"empty", "number"}
          /\ InText(w.out, t) /\ w.text = SubSeq(source, t + 1, N)
      BY <2>1 DEF TextFrom
    <3> HIDE DEF N
    <3>3. QED
      BY <2>2, <3>1, <3>2, CueEnds
  <2>4. Saved(c)
    BY <1>4, <1>5, <1>9, <2>3 DEF Saved
  <2>5. QED
    BY <2>4 DEF c
<1>10. QED
  BY <1>1, <1>6, <1>7, <1>8, <1>9 DEF SrtReads

-----------------------------------------------------------------------------
(* VTT.convert.                                                             *)

(* A saved file, and the first lines of it.                                 *)
SrtHeld(lines) == lines \in Seq(LinesHeld) /\ InOrder(lines) /\ Tagged(lines)

First(lines, k) == SubSeq(lines, 1, k)

(* The lines of a file are in the order of another.                         *)
NosOf(out, lines, k) ==
    \A i \in 1 .. Len(out) : out[i].no = 0 \/ \E j \in 1 .. k : out[i].no = lines[j].no

VttWritten(out, lines, k) ==
    /\ out \in Seq(LinesHeld) /\ InOrder(out) /\ NosOf(out, lines, k)
    /\ Len(out) >= 1 /\ out[1].kind = "WEBVTT" /\ ~LastIsNumber(out)

SameShown(out, s) == Times(out) = Times(s) /\ Texts(out) = Texts(s)

(* Lemma: the first lines of a file are one less before each of them.       *)
LEMMA FirstNext ==
  ASSUME NEW s \in Seq(LinesHeld), NEW k \in 1 .. Len(s)
  PROVE  /\ First(s, k - 1) \in Seq(LinesHeld) /\ First(s, k) = Append(First(s, k - 1), s[k])
         /\ s[k] \in LinesHeld
<1>1. k \in 1 .. Len(s) /\ s[k] \in LinesHeld
  OBVIOUS
<1> DEFINE a == SubSeq(s, 1, k)
           b == SubSeq(s, 1, k - 1)
           c == Append(b, s[k])
<1>2. a \in Seq(LinesHeld) /\ Len(a) = k /\ \A i \in 1 .. k : a[i] = s[i]
  BY <1>1
<1>3. b \in Seq(LinesHeld) /\ Len(b) = k - 1 /\ \A i \in 1 .. k - 1 : b[i] = s[i]
  BY <1>1
<1> HIDE DEF a, b
<1>4. c \in Seq(LinesHeld) /\ Len(c) = k /\ \A i \in 1 .. k : c[i] = s[i]
  BY <1>1, <1>3
<1> HIDE DEF c
<1>5. a = c
  BY <1>1, <1>2, <1>4, SameSequence
<1>6. QED
  BY <1>1, <1>3, <1>5 DEF a, b, c, First

(* Lemma: what was written is, when nothing is added.                       *)
LEMMA VttStays ==
  ASSUME NEW lines, NEW k \in Nat, NEW out, VttWritten(out, lines, k - 1)
  PROVE  VttWritten(out, lines, k)
<1>1. \A j \in 1 .. k - 1 : j \in 1 .. k
  OBVIOUS
<1>2. NosOf(out, lines, k)
  BY <1>1 DEF VttWritten, NosOf
<1>3. QED
  BY <1>2 DEF VttWritten

(* Lemma: a line is written after those before it.                          *)
LEMMA VttLonger ==
  ASSUME NEW lines, SrtHeld(lines), NEW k \in 1 .. Len(lines),
         NEW out, VttWritten(out, lines, k - 1),
         NEW l \in LinesHeld, l.kind # "number", l.no \in {0, lines[k].no}
  PROVE  VttWritten(Append(out, l), lines, k)
<1> DEFINE c == Append(out, l)
<1>1. /\ out \in Seq(LinesHeld) /\ InOrder(out) /\ NosOf(out, lines, k - 1)
      /\ Len(out) >= 1 /\ out[1].kind = "WEBVTT"
  BY DEF VttWritten
<1>2. /\ Len(lines) \in Nat /\ lines \in Seq(LinesHeld) /\ DOMAIN lines = 1 .. Len(lines)
      /\ k \in 1 .. Len(lines) /\ InOrder(lines)
  BY DEF SrtHeld
<1>3. ASSUME NEW i \in 1 .. Len(out), l.no # 0 PROVE out[i].no < l.no
  <2>1. l.no = lines[k].no /\ lines[k].no # 0
    BY <1>3
  <2>2. CASE out[i].no = 0
    BY <1>3, <2>2 DEF LinesHeld
  <2>3. CASE out[i].no # 0
    <3>1. PICK j \in 1 .. k - 1 : out[i].no = lines[j].no
      BY <1>1, <2>3 DEF NosOf
    <3>2. j \in DOMAIN lines /\ k \in DOMAIN lines /\ j < k
      BY <1>2
    <3>3. lines[j].no < lines[k].no
      BY <1>2, <2>1, <3>2 DEF InOrder
    <3>4. QED
      BY <2>1, <3>1, <3>3
  <2>4. QED
    BY <2>2, <2>3
<1>4. c \in Seq(LinesHeld) /\ InOrder(c)
  <2>1. l.no # 0 => \A i \in 1 .. Len(out) : out[i].no < l.no
    BY <1>3
  <2>2. QED
    BY <1>1, <2>1, LineInOrder
<1>5. /\ Len(out) \in Nat /\ Len(c) = Len(out) + 1 /\ c[Len(out) + 1] = l
      /\ \A i \in 1 .. Len(out) : c[i] = out[i]
  BY <1>1
<1> HIDE DEF c
<1>6. NosOf(c, lines, k)
  <2> SUFFICES ASSUME NEW i \in 1 .. Len(c)
               PROVE  c[i].no = 0 \/ \E j \in 1 .. k : c[i].no = lines[j].no
    BY DEF NosOf
  <2>1. CASE i \in 1 .. Len(out)
    <3>1. out[i].no = 0 \/ \E j \in 1 .. k - 1 : out[i].no = lines[j].no
      BY <1>1, <2>1 DEF NosOf
    <3>2. \A j \in 1 .. k - 1 : j \in 1 .. k
      BY <1>2
    <3>3. QED
      BY <1>5, <2>1, <3>1, <3>2
  <2>2. CASE i = Len(out) + 1
    <3>1. k \in 1 .. k
      BY <1>2
    <3>2. QED
      BY <1>5, <2>2, <3>1
  <2>3. QED
    BY <1>5, <2>1, <2>2
<1>7. Len(c) >= 1 /\ c[1].kind = "WEBVTT"
  BY <1>1, <1>5
<1>8. ~LastIsNumber(c)
  BY <1>5 DEF LastIsNumber, IsNumber, IsA
<1>9. QED
  BY <1>4, <1>6, <1>7, <1>8 DEF VttWritten, c

(* Lemma: what a line shows with the times before it.                       *)
LEMMA LineShows ==
  ASSUME NEW s \in Seq(LinesHeld), NEW l \in LinesHeld, NEW c, c = Append(s, l),
         l.kind \notin {"number", "cue"}, ~LastIsNumber(s)
  PROVE  Texts(c) = Texts(s) \cup (OpenTimes(s) \X {x \in {l.no} : l.kind \notin
                                                         {"empty", "spaces", "tags"}})
<1> DEFINE u == <<l>>
           N == {x \in {l.no} : l.kind \notin {"empty", "spaces", "tags"}}
<1>1. u \in Seq(LinesHeld) /\ Len(u) = 1 /\ DOMAIN u = {1} /\ u[1] = l /\ s \o u = c
  OBVIOUS
<1> HIDE DEF u
<1>2. Plain(u)
  BY <1>1 DEF Plain
<1>3. NoneEmpty(u, 1) <=> l.kind # "empty"
  BY <1>1 DEF NoneEmpty
<1>4. \A m : m \in Visible(u) <=> m = 1 /\ l.kind \notin {"empty", "spaces", "tags"}
  BY <1>1, <1>3 DEF Visible
<1>5. VisibleNos(u) = N
  BY <1>1, <1>4 DEF VisibleNos
<1>6. Texts(c) = Texts(s) \cup (OpenTimes(s) \X VisibleNos(u))
  BY <1>1, <1>2, TextShows
<1>7. QED
  BY <1>5, <1>6

(* Lemma: removeTags takes a tag out of a text.                             *)
LEMMA WithoutTags ==
  ASSUME NEW l \in LinesHeld, l.kind \notin {"number", "cue", "spaces"}, NEW n, n = NoTags(l)
  PROVE  /\ n \in LinesHeld /\ n.kind \notin {"number", "cue"} /\ n.no \in {0, l.no}
         /\ l.kind = "tags" => n.kind = "empty"
         /\ l.kind # "tags" => /\ n.no = l.no /\ n.kind \notin {"spaces", "tags"}
                               /\ (n.kind = "empty") <=> (l.kind = "empty")
<1>0. Blank \in LinesHeld /\ Blank.kind = "empty" /\ Blank.no = 0
  BY LinesPutIn
<1>1. CASE l.kind = "font"
  <2>1. n = [kind |-> "text", no |-> l.no]
    BY <1>1 DEF NoTags, Line
  <2>2. "text" \in Kinds
    BY DEF Kinds
  <2>3. n \in LinesHeld /\ n.kind = "text" /\ n.no = l.no
    BY <2>1, <2>2 DEF LinesHeld
  <2>4. QED
    BY <1>1, <2>3
<1>2. CASE l.kind = "tags"
  <2>1. n = Blank
    BY <1>2 DEF NoTags
  <2>2. QED
    BY <1>0, <1>2, <2>1
<1>3. CASE l.kind \notin {"font", "tags"}
  <2>1. n = l
    BY <1>3 DEF NoTags
  <2>2. QED
    BY <1>3, <2>1
<1>4. QED
  BY <1>1, <1>2, <1>3

(* The text of a cue is open in both, or was nothing but tags.              *)
SameOpen(out, lines, k) ==
    \/ OpenTimes(out) = OpenTimes(First(lines, k))
    \/ OpenTimes(out) = {} /\ k + 1 \in 1 .. Len(lines) /\ lines[k + 1].kind = "empty"

TimeWithoutEnd(lines) ==
    \E i \in DOMAIN lines : IsNumber(lines, i) /\ ~IsA(lines, i + 1, {"time"})

(* What VTT.convert has read.                                               *)
VttOutside(out, lines, k) ==
    /\ VttWritten(out, lines, k) /\ SameShown(out, First(lines, k))
    /\ OpenTimes(out) = {} /\ OpenTimes(First(lines, k)) = {} /\ ~LastIsNumber(First(lines, k))

VttAtTime(out, lines, k) ==
    /\ VttWritten(out, lines, k) /\ SameShown(out, First(lines, k))
    /\ LastIsNumber(First(lines, k)) /\ IsNumber(lines, k)

VttInText(out, lines, k) ==
    /\ VttWritten(out, lines, k) /\ SameShown(out, First(lines, k))
    /\ SameOpen(out, lines, k) /\ ~LastIsNumber(First(lines, k))

VttReads(w, lines, k) ==
    \/ w.at = "failed" /\ TimeWithoutEnd(lines)
    \/ w.at = "outside" /\ VttOutside(w.out, lines, k)
    \/ w.at = "time" /\ VttAtTime(w.out, lines, k)
    \/ w.at = "text" /\ VttInText(w.out, lines, k)

(* Lemma: a number is not written, but begins a cue.                        *)
LEMMA VttNumber ==
  ASSUME NEW lines, SrtHeld(lines), NEW k \in 1 .. Len(lines), lines[k].kind = "number",
         NEW out, VttWritten(out, lines, k - 1), SameShown(out, First(lines, k - 1))
  PROVE  VttAtTime(out, lines, k)
<1> DEFINE a == First(lines, k - 1)
           b == First(lines, k)
           l == lines[k]
<1>1. lines \in Seq(LinesHeld) /\ k \in Nat /\ k \in DOMAIN lines
  BY DEF SrtHeld
<1>2. a \in Seq(LinesHeld) /\ b = Append(a, l) /\ l \in LinesHeld /\ l.kind = "number"
  BY <1>1, FirstNext
<1>3. SameShown(out, a) /\ IsNumber(lines, k)
  BY <1>1 DEF IsNumber, IsA
<1> HIDE DEF a, b, l
<1>4. LastIsNumber(b) /\ Times(b) = Times(a) /\ Texts(b) = Texts(a)
  BY <1>2, NumberAfter
<1>5. SameShown(out, b)
  BY <1>3, <1>4 DEF SameShown
<1>6. VttWritten(out, lines, k)
  BY <1>1, VttStays
<1>7. QED
  BY <1>3, <1>4, <1>5, <1>6 DEF VttAtTime, b

(* Lemma: a line outside of the cues is not shown in the saved file.        *)
LEMMA VttOutsideStays ==
  ASSUME NEW lines, SrtHeld(lines), NEW k \in 1 .. Len(lines), lines[k].kind # "number",
         NEW out, VttOutside(out, lines, k - 1)
  PROVE  VttOutside(out, lines, k)
<1> DEFINE a == First(lines, k - 1)
           b == First(lines, k)
           l == lines[k]
<1>1. lines \in Seq(LinesHeld) /\ k \in Nat /\ k \in 1 .. Len(lines) /\ Tagged(lines)
  BY DEF SrtHeld
<1>2. a \in Seq(LinesHeld) /\ b = Append(a, l) /\ l \in LinesHeld
  BY <1>1, FirstNext
<1>3. l.kind \notin {"number", "cue"}
  BY <1>1 DEF Tagged
<1>4. /\ SameShown(out, a) /\ OpenTimes(out) = {} /\ OpenTimes(a) = {} /\ ~LastIsNumber(a)
      /\ VttWritten(out, lines, k - 1)
  BY DEF VttOutside
<1> HIDE DEF a, b, l
<1>5. ~LastIsNumber(b) /\ Times(b) = Times(a) /\ OpenTimes(b) = {}
  BY <1>2, <1>3, <1>4, LineAfter
<1>6. ASSUME NEW p PROVE p \in Texts(b) <=> p \in Texts(a)
  BY <1>2, <1>3, <1>4, LineAfter
<1>7. SameShown(out, b)
  BY <1>4, <1>5, <1>6 DEF SameShown
<1>8. VttWritten(out, lines, k)
  BY <1>1, <1>4, VttStays
<1>9. QED
  BY <1>4, <1>5, <1>7, <1>8 DEF VttOutside, b

(* Lemma: a time with two ends begins the cue.                              *)
LEMMA VttTime ==
  ASSUME NEW lines, SrtHeld(lines), NEW k \in 1 .. Len(lines), lines[k].kind = "time",
         NEW out, VttAtTime(out, lines, k - 1)
  PROVE  VttInText(Append(out, Line("cue", lines[k].no)), lines, k)
<1> DEFINE a == First(lines, k - 1)
           b == First(lines, k)
           l == lines[k]
           n == Line("cue", l.no)
           c == Append(out, n)
<1>1. lines \in Seq(LinesHeld) /\ k \in Nat /\ k \in 1 .. Len(lines)
  BY DEF SrtHeld
<1>2. a \in Seq(LinesHeld) /\ b = Append(a, l) /\ l \in LinesHeld /\ l.kind = "time"
  BY <1>1, FirstNext
<1>3. n = [kind |-> "cue", no |-> l.no] /\ l = lines[k]
  BY DEF Line
<1>4. /\ VttWritten(out, lines, k - 1) /\ SameShown(out, a) /\ LastIsNumber(a)
      /\ out \in Seq(LinesHeld) /\ c = Append(out, n)
  BY DEF VttAtTime, VttWritten
<1> HIDE DEF a, b, l, n, c
<1>5. n \in LinesHeld /\ n.kind = "cue" /\ n.no = l.no
  BY <1>2, <1>3 DEF LinesHeld
<1>6. ~LastIsNumber(b) /\ Times(b) = Times(a) \cup {l.no} /\ Texts(b) = Texts(a)
      /\ OpenTimes(b) = {l.no}
  BY <1>2, <1>4, CueAfter
<1>7. Times(c) = Times(out) \cup {n.no} /\ Texts(c) = Texts(out) /\ OpenTimes(c) = {n.no}
  BY <1>4, <1>5, CueAfter
<1>8. VttWritten(c, lines, k)
  <2>1. n.kind # "number" /\ n.no \in {0, lines[k].no}
    BY <1>3, <1>5
  <2>2. QED
    BY <1>4, <1>5, <2>1, VttLonger
<1>9. SameShown(c, b) /\ OpenTimes(c) = OpenTimes(b)
  BY <1>4, <1>5, <1>6, <1>7 DEF SameShown
<1>10. VttInText(c, lines, k)
  BY <1>6, <1>8, <1>9 DEF VttInText, SameOpen, b
<1>11. QED
  BY <1>10 DEF c, n, l

(* Lemma: a line of the text is written without its tags.                   *)
LEMMA VttText ==
  ASSUME NEW lines, SrtHeld(lines), NEW k \in 1 .. Len(lines), lines[k].kind # "number",
         NEW out, VttInText(out, lines, k - 1)
  PROVE  VttInText(Append(out, NoTags(lines[k])), lines, k)
<1> DEFINE a == First(lines, k - 1)
           b == First(lines, k)
           l == lines[k]
           n == NoTags(l)
           c == Append(out, n)
<1>1. lines \in Seq(LinesHeld) /\ k \in Nat /\ k \in 1 .. Len(lines) /\ Tagged(lines)
  BY DEF SrtHeld
<1>2. a \in Seq(LinesHeld) /\ b = Append(a, l) /\ l \in LinesHeld
  BY <1>1, FirstNext
<1>3. /\ l.kind \notin {"number", "cue", "spaces"}
      /\ l.kind = "tags" => k + 1 \in 1 .. Len(lines) /\ lines[k + 1].kind = "empty"
  BY <1>1 DEF Tagged
<1>4. /\ VttWritten(out, lines, k - 1) /\ SameShown(out, a) /\ ~LastIsNumber(a)
      /\ out \in Seq(LinesHeld) /\ ~LastIsNumber(out) /\ c = Append(out, n)
      /\ n = NoTags(l) /\ l = lines[k]
  BY DEF VttInText, VttWritten
<1>5. OpenTimes(out) = OpenTimes(a) \/ (OpenTimes(out) = {} /\ l.kind = "empty")
  <2>1. (k - 1) + 1 = k
    BY <1>1
  <2>2. SameOpen(out, lines, k - 1)
    BY DEF VttInText
  <2>3. QED
    BY <2>1, <2>2 DEF SameOpen
<1> HIDE DEF a, b, l, n, c
<1>6. /\ n \in LinesHeld /\ n.kind \notin {"number", "cue"} /\ n.no \in {0, l.no}
      /\ l.kind = "tags" => n.kind = "empty"
      /\ l.kind # "tags" => /\ n.no = l.no /\ n.kind \notin {"spaces", "tags"}
                            /\ (n.kind = "empty") <=> (l.kind = "empty")
  BY <1>2, <1>3, <1>4, WithoutTags
<1>7. /\ ~LastIsNumber(b) /\ Times(b) = Times(a)
      /\ OpenTimes(b) = IF l.kind = "empty" THEN {} ELSE OpenTimes(a)
  BY <1>2, <1>3, <1>4, LineAfter
<1>8. /\ ~LastIsNumber(c) /\ Times(c) = Times(out)
      /\ OpenTimes(c) = IF n.kind = "empty" THEN {} ELSE OpenTimes(out)
  BY <1>4, <1>6, LineAfter
<1>9. Texts(c) = Texts(b)
  <2> DEFINE nb == {x \in {l.no} : l.kind \notin {"empty", "spaces", "tags"}}
             nc == {x \in {n.no} : n.kind \notin {"empty", "spaces", "tags"}}
  <2>1. Texts(b) = Texts(a) \cup (OpenTimes(a) \X nb)
    BY <1>2, <1>3, <1>4, LineShows
  <2>2. Texts(c) = Texts(out) \cup (OpenTimes(out) \X nc)
    BY <1>4, <1>6, LineShows
  <2>3. Texts(out) = Texts(a)
    BY <1>4 DEF SameShown
  <2>4. nb = nc
    BY <1>3, <1>6
  <2>5. OpenTimes(out) = OpenTimes(a) \/ nb = {}
    BY <1>5
  <2> HIDE DEF nb, nc
  <2>6. nb = {} => OpenTimes(a) \X nb = OpenTimes(out) \X nb
    OBVIOUS
  <2>7. OpenTimes(a) \X nb = OpenTimes(out) \X nc
    BY <2>4, <2>5, <2>6
  <2>8. QED
    BY <2>1, <2>2, <2>3, <2>7
<1>10. SameShown(c, b)
  BY <1>4, <1>7, <1>8, <1>9 DEF SameShown
<1>11. OpenTimes(c) = OpenTimes(b)
       \/ (OpenTimes(c) = {} /\ k + 1 \in 1 .. Len(lines) /\ lines[k + 1].kind = "empty")
  BY <1>3, <1>5, <1>6, <1>7, <1>8
<1>12. VttWritten(c, lines, k)
  <2>1. n.kind # "number" /\ n.no \in {0, lines[k].no}
    BY <1>4, <1>6
  <2>2. QED
    BY <1>4, <1>6, <2>1, VttLonger
<1>13. VttInText(c, lines, k)
  BY <1>7, <1>10, <1>11, <1>12 DEF VttInText, SameOpen, b
<1>14. QED
  BY <1>13 DEF c, n, l

LEMMA VttNext ==
  ASSUME NEW lines, SrtHeld(lines), NEW k \in 1 .. Len(lines),
         NEW w, VttReads(w, lines, k - 1)
  PROVE  VttReads(VttLine(w, lines[k]), lines, k)
<1> DEFINE l == lines[k]
           r == VttLine(w, l)
<1>0. Len(lines) \in Nat /\ k \in Nat /\ DOMAIN lines = 1 .. Len(lines) /\ k \in DOMAIN lines
  BY DEF SrtHeld
<1>1. CASE w.at = "failed" /\ TimeWithoutEnd(lines)
  <2>1. r = w
    BY <1>1 DEF VttLine
  <2> HIDE DEF r
  <2>2. VttReads(r, lines, k)
    BY <1>1, <2>1 DEF VttReads
  <2>3. QED
    BY <2>2 DEF r
<1>2. CASE w.at = "outside" /\ VttOutside(w.out, lines, k - 1)
  <2>1. CASE l.kind = "number"
    <3>1. r = Vtt("time", w.out)
      BY <1>2, <2>1 DEF VttLine
    <3> HIDE DEF r
    <3>2. r.at = "time" /\ r.out = w.out
      BY <3>1 DEF Vtt
    <3>3. VttAtTime(w.out, lines, k)
      BY <1>2, <2>1, VttNumber DEF VttOutside
    <3>4. VttReads(r, lines, k)
      BY <3>2, <3>3 DEF VttReads
    <3>5. QED
      BY <3>4 DEF r
  <2>2. CASE l.kind # "number"
    <3>1. r = w
      BY <1>2, <2>2 DEF VttLine
    <3> HIDE DEF r
    <3>2. VttOutside(w.out, lines, k)
      BY <1>2, <2>2, VttOutsideStays
    <3>3. VttReads(r, lines, k)
      BY <1>2, <3>1, <3>2 DEF VttReads
    <3>4. QED
      BY <3>3 DEF r
  <2>3. QED
    BY <2>1, <2>2
<1>3. CASE w.at = "time" /\ VttAtTime(w.out, lines, k - 1)
  <2>0. r = ReadVttTime(w, l)
    BY <1>3 DEF VttLine
  <2>1. CASE l.kind = "time"
    <3>1. r = Vtt("text", Append(w.out, Line("cue", l.no)))
      BY <2>0, <2>1 DEF ReadVttTime
    <3> HIDE DEF r
    <3>2. r.at = "text" /\ r.out = Append(w.out, Line("cue", l.no))
      BY <3>1 DEF Vtt
    <3>3. VttInText(Append(w.out, Line("cue", l.no)), lines, k)
      BY <1>3, <2>1, VttTime
    <3>4. VttReads(r, lines, k)
      BY <3>2, <3>3 DEF VttReads
    <3>5. QED
      BY <3>4 DEF r
  <2>2. CASE l.kind # "time"
    <3>1. r = Vtt("failed", <<>>)
      BY <2>0, <2>2 DEF ReadVttTime
    <3> HIDE DEF r
    <3>2. r.at = "failed"
      BY <3>1 DEF Vtt
    <3>3. IsNumber(lines, k - 1) /\ k - 1 \in DOMAIN lines /\ (k - 1) + 1 = k
      BY <1>0, <1>3 DEF VttAtTime, IsNumber, IsA
    <3>4. ~IsA(lines, k, {"time"})
      BY <2>2 DEF IsA
    <3>5. TimeWithoutEnd(lines)
      BY <3>3, <3>4 DEF TimeWithoutEnd
    <3>6. VttReads(r, lines, k)
      BY <3>2, <3>5 DEF VttReads
    <3>7. QED
      BY <3>6 DEF r
  <2>3. QED
    BY <2>1, <2>2
<1>4. CASE w.at = "text" /\ VttInText(w.out, lines, k - 1)
  <2>0. r = ReadVttText(w, l)
    BY <1>4 DEF VttLine
  <2>1. CASE l.kind = "number"
    <3>1. r = Vtt("time", w.out)
      BY <2>0, <2>1 DEF ReadVttText
    <3> HIDE DEF r
    <3>2. r.at = "time" /\ r.out = w.out
      BY <3>1 DEF Vtt
    <3>3. VttAtTime(w.out, lines, k)
      BY <1>4, <2>1, VttNumber DEF VttInText
    <3>4. VttReads(r, lines, k)
      BY <3>2, <3>3 DEF VttReads
    <3>5. QED
      BY <3>4 DEF r
  <2>2. CASE l.kind # "number"
    <3>1. r = Vtt("text", Append(w.out, NoTags(l)))
      BY <2>0, <2>2 DEF ReadVttText
    <3> HIDE DEF r
    <3>2. r.at = "text" /\ r.out = Append(w.out, NoTags(l))
      BY <3>1 DEF Vtt
    <3>3. VttInText(Append(w.out, NoTags(l)), lines, k)
      BY <1>4, <2>2, VttText
    <3>4. VttReads(r, lines, k)
      BY <3>2, <3>3 DEF VttReads
    <3>5. QED
      BY <3>4 DEF r
  <2>3. QED
    BY <2>1, <2>2
<1>5. QED
  BY <1>1, <1>2, <1>3, <1>4 DEF VttReads

(* Lemma: the file is read to its end.                                      *)
LEMMA VttUpTo ==
  ASSUME NEW lines, Len(lines) \in Nat
  PROVE  \E f : f = [k \in 0 .. Len(lines) |->
                        IF k = 0 THEN Vtt("outside", <<Line("WEBVTT", 0), Blank>>)
                                 ELSE VttLine(f[k - 1], lines[k])]
<1> DEFINE N == Len(lines)
           first == Vtt("outside", <<Line("WEBVTT", 0), Blank>>)
           Step(w, k) == VttLine(w, lines[k])
           Is(f, n) == f = [k \in 0 .. n |-> IF k = 0 THEN first ELSE Step(f[k - 1], k)]
           Reached == {n \in 0 .. N : \E f : Is(f, n)}
<1>1. N \in Nat
  OBVIOUS
<1> HIDE DEF N, first, Step
<1>2. 0 \in Reached
  <2>1. Is([k \in 0 .. 0 |-> first], 0)
    OBVIOUS
  <2>2. \E f : Is(f, 0)
    BY <2>1
  <2>3. QED
    BY <1>1, <2>2
<1>3. ASSUME NEW n \in 1 .. N, n - 1 \in Reached PROVE n \in Reached
  <2>1. PICK f : Is(f, n - 1)
    BY <1>3
  <2> DEFINE g == [k \in 0 .. n |-> IF k = n THEN Step(f[n - 1], n) ELSE f[k]]
  <2>2. n \in Nat /\ n # 0 /\ n \in 0 .. N
    BY <1>1
  <2>3. ASSUME NEW k \in 0 .. n PROVE g[k] = IF k = 0 THEN first ELSE Step(g[k - 1], k)
    <3>1. CASE k = 0
      BY <2>1, <2>2, <3>1
    <3>2. CASE k # 0
      <4>1. k - 1 \in 0 .. n /\ k - 1 # n /\ g[k - 1] = f[k - 1]
        BY <2>2, <3>2
      <4>2. CASE k = n
        BY <2>2, <4>1, <4>2
      <4>3. CASE k # n
        <5>1. k \in 0 .. n - 1 /\ g[k] = f[k]
          BY <2>2, <4>3
        <5>2. f[k] = Step(f[k - 1], k)
          BY <2>1, <3>2, <5>1
        <5>3. QED
          BY <3>2, <4>1, <5>1, <5>2
      <4>4. QED
        BY <4>2, <4>3
    <3>3. QED
      BY <3>1, <3>2
  <2>4. g = [k \in 0 .. n |-> g[k]]
    OBVIOUS
  <2> HIDE DEF g
  <2>5. Is(g, n)
    BY <2>3, <2>4
  <2>6. \E h : Is(h, n)
    BY <2>5
  <2>7. QED
    BY <2>2, <2>6
<1> HIDE DEF Reached
<1>4. \A n \in 0 .. N : n \in Reached
  BY <1>1, <1>2, <1>3, UpTo
<1>5. N \in Reached
  BY <1>1, <1>4
<1>6. PICK f : Is(f, N)
  BY <1>5 DEF Reached
<1>7. QED
  BY <1>6 DEF N, first, Step

(* Lemma: the file begins with WEBVTT, and nothing is read.                 *)
LEMMA OnlyHeader ==
  ASSUME NEW lines, SrtHeld(lines)
  PROVE  VttReads(Vtt("outside", <<Line("WEBVTT", 0), Blank>>), lines, 0)
<1> DEFINE h == Line("WEBVTT", 0)
           o == <<h, Blank>>
           w == Vtt("outside", o)
           s == First(lines, 0)
<1>1. w.at = "outside" /\ w.out = o
  BY DEF Vtt
<1>2. h \in LinesHeld /\ h.kind = "WEBVTT" /\ h.no = 0
  BY DEF Line, LinesHeld
<1>3. Blank \in LinesHeld /\ Blank.kind = "empty" /\ Blank.no = 0
  BY LinesPutIn
<1>4. s = <<>>
  BY DEF First, SrtHeld
<1> HIDE DEF h
<1>5. o \in Seq(LinesHeld) /\ Len(o) = 2 /\ DOMAIN o = {1, 2} /\ o[1] = h /\ o[2] = Blank
  BY <1>2, <1>3
<1> HIDE DEF o, w, s
<1>6. Starts(o) = {}
  BY <1>2, <1>3, <1>5 DEF Starts, IsNumber, IsTime, IsA
<1>7. Times(o) = {} /\ Texts(o) = {} /\ OpenTimes(o) = {}
  BY <1>6 DEF Times, Texts, OpenTimes
<1>8. ~LastIsNumber(o)
  BY <1>3, <1>5 DEF LastIsNumber, IsNumber, IsA
<1>9. InOrder(o) /\ NosOf(o, lines, 0)
  BY <1>2, <1>3, <1>5 DEF InOrder, NosOf
<1>10. Starts(s) = {} /\ ~LastIsNumber(s)
  BY <1>4 DEF Starts, LastIsNumber, IsNumber, IsA
<1>11. Times(s) = {} /\ Texts(s) = {} /\ OpenTimes(s) = {}
  BY <1>10 DEF Times, Texts, OpenTimes
<1>12. VttWritten(o, lines, 0)
  BY <1>2, <1>5, <1>8, <1>9 DEF VttWritten
<1>13. SameShown(o, s)
  BY <1>7, <1>11 DEF SameShown
<1>14. VttOutside(o, lines, 0)
  BY <1>7, <1>10, <1>11, <1>12, <1>13 DEF VttOutside, s
<1>15. VttReads(w, lines, 0)
  BY <1>1, <1>14 DEF VttReads
<1>16. QED
  BY <1>15 DEF w, o, h

(* Lemma: VTT.convert has read the whole file.                              *)
LEMMA VttRead ==
  ASSUME NEW lines, SrtHeld(lines)
  PROVE  VttReads(ReadVtt(lines), lines, Len(lines))
<1> DEFINE N == Len(lines)
           first == Vtt("outside", <<Line("WEBVTT", 0), Blank>>)
           Step(w, k) == VttLine(w, lines[k])
           Is(f) == f = [k \in 0 .. N |-> IF k = 0 THEN first ELSE Step(f[k - 1], k)]
           upTo == CHOOSE f : Is(f)
<1>1. ReadVtt(lines) = upTo[N]
  BY DEF ReadVtt
<1>2. N \in Nat
  BY DEF SrtHeld
<1>3. \E f : Is(f)
  BY <1>2, VttUpTo
<1>4. Is(upTo)
  BY <1>3
<1>5. VttReads(first, lines, 0)
  BY OnlyHeader
<1>6. ASSUME NEW k \in 1 .. N, NEW w, VttReads(w, lines, k - 1)
      PROVE  VttReads(Step(w, k), lines, k)
  BY <1>6, VttNext
<1> HIDE DEF N, first, Step, upTo
<1>7. upTo[0] = first /\ \A k \in 1 .. N : upTo[k] = Step(upTo[k - 1], k)
  BY <1>2, <1>4
<1> DEFINE Good == {k \in 0 .. N : VttReads(upTo[k], lines, k)}
<1>8. 0 \in Good
  BY <1>2, <1>5, <1>7
<1>9. ASSUME NEW k \in 1 .. N, k - 1 \in Good PROVE k \in Good
  <2>1. VttReads(upTo[k - 1], lines, k - 1)
    BY <1>9
  <2>2. VttReads(Step(upTo[k - 1], k), lines, k)
    BY <1>6, <2>1
  <2>3. k \in 0 .. N
    BY <1>2
  <2>4. QED
    BY <1>7, <2>2, <2>3
<1>10. N \in Good
  <2> HIDE DEF Good
  <2>1. \A k \in 0 .. N : k \in Good
    BY <1>2, <1>8, <1>9, UpTo
  <2>2. QED
    BY <1>2, <2>1
<1>11. QED
  BY <1>1, <1>10 DEF N

(* What is made of a saved file.                                            *)
Cast(out, lines) ==
    IF out = Failed THEN TimeWithoutEnd(lines) ELSE SameCues(out, lines)

(* Lemma: VTT.convert keeps the cues of the saved file.                     *)
LEMMA VttKeeps ==
  ASSUME NEW lines, SrtHeld(lines)
  PROVE  Cast(ConvertVtt(lines), lines)
<1> DEFINE w == ReadVtt(lines)
           N == Len(lines)
           c == ConvertVtt(lines)
<1>1. VttReads(w, lines, N)
  BY VttRead
<1>2. c = IF w.at \in {"outside", "text"} THEN w.out ELSE Failed
  BY DEF ConvertVtt
<1>3. N \in Nat /\ DOMAIN lines = 1 .. N /\ lines \in Seq(LinesHeld)
  BY DEF SrtHeld
<1>4. First(lines, N) = lines
  BY <1>3 DEF First
<1> HIDE DEF w, c
<1>5. ASSUME NEW out, VttWritten(out, lines, N), SameShown(out, lines), c = out PROVE Cast(c, lines)
  <2>1. Failed[1].kind # "WEBVTT"
    BY DEF Failed, Line
  <2>2. out # Failed
    BY <1>5, <2>1 DEF VttWritten
  <2>3. SameCues(out, lines)
    BY <1>5 DEF SameCues, SameShown, VttWritten
  <2>4. QED
    BY <1>5, <2>2, <2>3 DEF Cast
<1>6. ASSUME c = Failed, TimeWithoutEnd(lines) PROVE Cast(c, lines)
  BY <1>6 DEF Cast
<1>7. CASE w.at = "failed" /\ TimeWithoutEnd(lines)
  <2>1. c = Failed
    BY <1>2, <1>7
  <2>2. QED
    BY <1>6, <1>7, <2>1 DEF c
<1>8. CASE w.at = "outside" /\ VttOutside(w.out, lines, N)
  <2>1. c = w.out /\ VttWritten(w.out, lines, N) /\ SameShown(w.out, lines)
    BY <1>2, <1>4, <1>8 DEF VttOutside
  <2>2. QED
    BY <1>5, <2>1 DEF c
<1>9. CASE w.at = "time" /\ VttAtTime(w.out, lines, N)
  <2>1. c = Failed
    BY <1>2, <1>9
  <2>2. IsNumber(lines, N) /\ N \in DOMAIN lines /\ ~IsA(lines, N + 1, {"time"})
    BY <1>3, <1>9 DEF VttAtTime, IsNumber, IsA
  <2>3. TimeWithoutEnd(lines)
    BY <2>2 DEF TimeWithoutEnd
  <2>4. QED
    BY <1>6, <2>1, <2>3 DEF c
<1>10. CASE w.at = "text" /\ VttInText(w.out, lines, N)
  <2>1. c = w.out /\ VttWritten(w.out, lines, N) /\ SameShown(w.out, lines)
    BY <1>2, <1>4, <1>10 DEF VttInText
  <2>2. QED
    BY <1>5, <2>1 DEF c
<1>11. QED
  BY <1>1, <1>7, <1>8, <1>9, <1>10 DEF VttReads

-----------------------------------------------------------------------------
(* The two files.                                                           *)

(* Each file is what its conversion made of the one before.                 *)
SubtitleInv ==
    /\ SourceOK
    /\ srt # NoFile => Saved(srt)
    /\ srt = NoFile => vtt = NoFile
    /\ vtt # NoFile => Cast(vtt, srt)

(* Lemma: a saved file can be converted again.                              *)
LEMMA SavedIsHeld ==
  ASSUME NEW out, Saved(out)
  PROVE  SrtHeld(out)
<1>1. CASE NumberInText
  <2>1. out = <<>> /\ <<>> \in Seq(LinesHeld) /\ Len(<<>>) = 0 /\ DOMAIN <<>> = {}
    BY <1>1 DEF Saved
  <2>2. QED
    BY <2>1 DEF SrtHeld, InOrder, Tagged
<1>2. CASE ~NumberInText
  BY <1>2 DEF Saved, Written, SrtHeld
<1>3. QED
  BY <1>1, <1>2

LEMMA SubtitleNextKeeps ==
  SubtitleInv /\ [SubtitleNext]_subtitleVars => SubtitleInv'
<1> SUFFICES ASSUME SubtitleInv, [SubtitleNext]_subtitleVars PROVE SubtitleInv'
  OBVIOUS
<1>1. CASE \E kind \in Kinds : NextLine(kind)
  <2>1. PICK kind \in Kinds : NextLine(kind)
    BY <1>1
  <2>2. /\ srt = NoFile /\ srt' = NoFile /\ vtt = NoFile /\ vtt' = NoFile
        /\ source' = Append(source, Line(kind, Len(source) + 1))
    BY <2>1 DEF NextLine, SubtitleInv
  <2>3. SourceOK'
    <3> DEFINE n == Len(source)
               l == Line(kind, n + 1)
               c == Append(source, l)
    <3>1. source \in Seq(LinesHeld) /\ n \in Nat
          /\ \A i \in 1 .. n : source[i].kind \in Kinds /\ source[i].no = i
      BY DEF SubtitleInv, SourceOK
    <3>2. l = [kind |-> kind, no |-> n + 1]
      BY DEF Line
    <3> HIDE DEF l
    <3>3. l \in LinesHeld /\ l.kind \in Kinds /\ l.no = n + 1
      BY <3>1, <3>2 DEF LinesHeld
    <3>4. /\ c \in Seq(LinesHeld) /\ Len(c) = n + 1 /\ c[n + 1] = l
          /\ \A i \in 1 .. n : c[i] = source[i]
      BY <3>1, <3>3
    <3> HIDE DEF n, c
    <3>5. \A i \in 1 .. n + 1 : c[i].kind \in Kinds /\ c[i].no = i
      <4>1. \A i \in 1 .. n + 1 : i \in 1 .. n \/ i = n + 1
        BY <3>1
      <4>2. QED
        BY <3>1, <3>3, <3>4, <4>1
    <3>6. source' = c
      BY <2>2 DEF c, l, n
    <3>7. QED
      BY <3>4, <3>5, <3>6 DEF SourceOK
  <2>4. QED
    BY <2>2, <2>3 DEF SubtitleInv
<1>2. CASE Load
  <2>1. /\ srt = NoFile /\ srt' = ConvertSrt(source) /\ source' = source
        /\ vtt = NoFile /\ vtt' = NoFile /\ SourceOK
    BY <1>2 DEF Load, SubtitleInv
  <2>2. Saved(ConvertSrt(source))
    BY <2>1, SrtKeeps
  <2>3. SourceOK'
    BY <2>1 DEF SourceOK
  <2>4. (NumberInText' <=> NumberInText) /\ (SpacesInText' <=> SpacesInText)
    BY <2>1 DEF NumberInText, SpacesInText
  <2>5. Saved(srt)'
    BY <2>1, <2>2, <2>4 DEF Saved, Same, Kept
  <2>6. QED
    BY <2>1, <2>3, <2>5 DEF SubtitleInv
<1>3. CASE OnCastConnection
  <2>1. /\ srt # NoFile /\ vtt' = ConvertVtt(srt) /\ source' = source /\ srt' = srt
        /\ Saved(srt) /\ SourceOK
    BY <1>3 DEF OnCastConnection, SubtitleInv
  <2>2. Cast(ConvertVtt(srt), srt)
    BY <2>1, SavedIsHeld, VttKeeps
  <2>3. Cast(vtt, srt)'
    BY <2>1, <2>2
  <2>4. SourceOK'
    BY <2>1 DEF SourceOK
  <2>5. (NumberInText' <=> NumberInText) /\ (SpacesInText' <=> SpacesInText)
    BY <2>1 DEF NumberInText, SpacesInText
  <2>6. Saved(srt)'
    BY <2>1, <2>5 DEF Saved, Same, Kept
  <2>7. QED
    BY <2>1, <2>3, <2>4, <2>6 DEF SubtitleInv
<1>4. CASE UNCHANGED subtitleVars
  <2>1. source' = source /\ srt' = srt /\ vtt' = vtt
    BY <1>4 DEF subtitleVars
  <2>2. (NumberInText' <=> NumberInText) /\ (SpacesInText' <=> SpacesInText)
    BY <2>1 DEF NumberInText, SpacesInText
  <2>3. Saved(srt)' <=> Saved(srt)
    BY <2>1, <2>2 DEF Saved, Same, Kept
  <2>4. SourceOK'
    BY <2>1 DEF SubtitleInv, SourceOK
  <2>5. QED
    BY <2>1, <2>3, <2>4 DEF SubtitleInv
<1>5. QED
  BY <1>1, <1>2, <1>3, <1>4 DEF SubtitleNext

(* Lemma: so both files have the cues.                                      *)
LEMMA FilesHaveCues == SubtitleInv => CuesKept
<1> SUFFICES ASSUME SubtitleInv PROVE CuesKept
  OBVIOUS
<1>1. ASSUME srt # NoFile
      PROVE  IF NumberInText THEN srt = <<>>
             ELSE IF SpacesInText THEN CutCues(srt, source)
             ELSE SameCues(srt, source)
  <2>1. Saved(srt)
    BY <1>1 DEF SubtitleInv
  <2>2. CASE NumberInText
    BY <2>1, <2>2 DEF Saved
  <2>3. CASE ~NumberInText
    <3>1. InOrder(srt) /\ Times(srt) = Times(source) /\ Kept(Texts(srt), Texts(source))
      BY <2>1, <2>3 DEF Saved, Written, Same
    <3>2. SpacesInText => CutCues(srt, source)
      BY <3>1 DEF CutCues, Kept
    <3>3. ~SpacesInText => SameCues(srt, source)
      BY <3>1 DEF SameCues, Kept
    <3>4. QED
      BY <2>3, <3>2, <3>3
  <2>4. QED
    BY <2>2, <2>3
<1>2. ASSUME vtt # NoFile
      PROVE  IF vtt = Failed
               THEN \E i \in DOMAIN srt : IsNumber(srt, i) /\ ~IsA(srt, i + 1, {"time"})
               ELSE SameCues(vtt, srt)
  BY <1>2 DEF SubtitleInv, Cast, TimeWithoutEnd
<1>3. QED
  BY <1>1, <1>2 DEF CuesKept

(* Theorem: for a file of any length, what Subtitles.load saves has every   *)
(* cue of it, in order and with its text, unless a line of a text is a      *)
(* number or all spaces; and what VTT.convert makes of that has the same    *)
(* cues, unless a time has no end.                                          *)
THEOREM CuesAreKept == SubtitleSpec => []CuesKept
<1>1. SubtitleInit => SubtitleInv
  <2> SUFFICES ASSUME SubtitleInit PROVE SubtitleInv
    OBVIOUS
  <2>1. source = <<>> /\ srt = NoFile /\ vtt = NoFile
    BY DEF SubtitleInit
  <2>2. SourceOK
    BY <2>1 DEF SourceOK
  <2>3. QED
    BY <2>1, <2>2 DEF SubtitleInv
<1>2. QED
  BY <1>1, SubtitleNextKeeps, FilesHaveCues, PTL DEF SubtitleSpec
=============================================================================
