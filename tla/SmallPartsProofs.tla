-------------------------- MODULE SmallPartsProofs --------------------------
(***************************************************************************)
(* Theorems about the parts that share nothing with the others: the        *)
(* session, the list of subtitles, the choice of the file of a torrent,    *)
(* and a torrent file that is opened from outside; each for every          *)
(* behaviour of its own specification, without the bounds of the runs.     *)
(* Three of them compute over a sequence: what a recursive function        *)
(* returns is proved from the order of the numbers, which is well-founded. *)
(***************************************************************************)
EXTENDS Session, SubtitleChoice, TorrentFile, WellFoundedInduction,
        FiniteSetTheorems, TLAPS

-----------------------------------------------------------------------------
(* The session.                                                             *)

(* Every variable has its type.                                             *)
SessionTypeOK ==
    /\ gSession \in [ready : BOOLEAN, paused : BOOLEAN, proxy : BOOLEAN]
    /\ enabled \in BOOLEAN /\ screens \in Nat
    /\ failed \in BOOLEAN /\ late \in BOOLEAN
    /\ leaving \in Nat

SessionInv == SessionTypeOK /\ SessionFollowsScreen

Sessions == [ready : BOOLEAN, paused : BOOLEAN, proxy : BOOLEAN]

(* Lemma: a start from any session, without an exception, leaves it running *)
(* with the proxy of the settings.                                          *)
LEMMA StartRuns ==
  ASSUME gSession \in Sessions, enabled \in BOOLEAN, NEW throw, Start(throw)
  PROVE  /\ gSession' \in Sessions
         /\ throw = {} => gSession' = [ready |-> TRUE, paused |-> FALSE, proxy |-> enabled]
<1> DEFINE s1 == SetSession(gSession, throw)
           s2 == SetSessionOptions(s1, throw)
           s3 == SetProxy(s2, throw, enabled)
<1>1. s1 \in Sessions /\ (throw = {} => s1.ready)
  BY DEF SetSession, Sessions
<1> HIDE DEF s1
<1>2. s2 \in Sessions /\ (throw = {} => s2.ready)
  BY <1>1 DEF SetSessionOptions, Guarded, Sessions
<1> HIDE DEF s2
<1>3. s3 \in Sessions /\ (throw = {} => s3.ready /\ s3.proxy = enabled)
  BY <1>2 DEF SetProxy, Guarded, Sessions
<1> HIDE DEF s3
<1>4. gSession' = ResumeSession(s3, throw)
  BY DEF Start, s1, s2, s3
<1>5. QED
  BY <1>3, <1>4 DEF ResumeSession, Guarded, Sessions

(* Lemma: a stop without an exception leaves a session that is ready paused.*)
LEMMA StopPauses ==
  ASSUME gSession \in Sessions, NEW throw, Stop(throw)
  PROVE  /\ gSession' \in Sessions
         /\ throw = {} /\ gSession'.ready => gSession'.paused
<1> DEFINE s1 == PauseSession(gSession, throw)
<1>1. s1 \in Sessions /\ (throw = {} /\ s1.ready => s1.paused)
  BY DEF PauseSession, Guarded, Sessions
<1> HIDE DEF s1
<1>2. gSession' = AbortSession(s1, throw)
  BY DEF Stop, s1
<1>3. QED
  BY <1>1, <1>2 DEF AbortSession, Guarded, Sessions

(* Lemma: every step of the screens, the settings and the system keeps it.  *)
LEMMA NextSession == SessionInv /\ [SessionNext]_sessionVars => SessionInv'
<1> SUFFICES ASSUME SessionInv, [SessionNext]_sessionVars PROVE SessionInv'
  OBVIOUS
<1> USE DEF SessionInv, SessionTypeOK, SessionFollowsScreen
<1>1. ASSUME NEW throw, OnCreate(throw) PROVE SessionInv'
  <2>1. /\ gSession' \in Sessions
        /\ throw = {} => gSession' = [ready |-> TRUE, paused |-> FALSE, proxy |-> enabled]
    BY <1>1, StartRuns DEF OnCreate, Sessions
  <2>2. screens' \in Nat /\ screens' # 0 /\ late' = FALSE /\ UNCHANGED <<enabled, leaving>>
    BY <1>1 DEF OnCreate
  <2>3. failed' \in BOOLEAN /\ (~failed' => throw = {})
    <3>1. failed' = (throw # {})
      BY <1>1 DEF OnCreate
    <3>2. QED
      BY <3>1
  <2>4. SessionTypeOK'
    BY <2>1, <2>2, <2>3 DEF Sessions
  <2>5. SessionFollowsScreen'
    BY <2>1, <2>2, <2>3
  <2>6. QED
    BY <2>4, <2>5
<1>2. ASSUME NEW throw, OnDestroy(throw) PROVE SessionInv'
  <2>1. gSession' \in Sessions /\ (throw = {} /\ gSession'.ready => gSession'.paused)
    BY <1>2, StopPauses DEF OnDestroy, Sessions
  <2>2. QED
    BY <1>2, <2>1 DEF OnDestroy, Sessions
<1>3. ASSUME NEW throw, VpnListener(throw) PROVE SessionInv'
  <2> DEFINE after == [gSession EXCEPT !.proxy = ~enabled]
  <2>1. gSession \in Sessions /\ after \in Sessions
    BY DEF Sessions
  <2>2. gSession' = IF ~gSession.ready THEN gSession
                    ELSE IF "SetProxy" \in throw THEN [gSession EXCEPT !.ready = FALSE] ELSE after
    BY <1>3 DEF VpnListener, SetProxy, Guarded
  <2>3. gSession' \in Sessions
    BY <2>1, <2>2 DEF Sessions
  <2>4. /\ throw = {} => gSession' = IF gSession.ready THEN after ELSE gSession
        /\ UNCHANGED <<screens, leaving, late>> /\ screens > 0 /\ enabled' = ~enabled
        /\ failed' = (failed \/ throw # {})
    BY <1>3, <2>2 DEF VpnListener
  <2>5. ~failed' /\ ~late' => gSession' = [ready |-> TRUE, paused |-> FALSE, proxy |-> enabled']
    BY <2>1, <2>4 DEF Sessions
  <2>6. QED
    BY <2>3, <2>4, <2>5 DEF Sessions
<1>4. CASE OnBackPressed
  <2>1. leaving' \in Nat /\ leaving' # 0
    BY <1>4 DEF OnBackPressed
  <2>2. UNCHANGED <<gSession, enabled, failed, late>> /\ screens > 0 /\ screens' \in Nat
    BY <1>4 DEF OnBackPressed
  <2>3. SessionTypeOK'
    BY <2>1, <2>2
  <2>4. SessionFollowsScreen'
    BY <2>1, <2>2
  <2>5. QED
    BY <2>3, <2>4
<1>5. CASE ProcessDies
  BY <1>5 DEF ProcessDies, NoSession
<1>6. CASE UNCHANGED sessionVars
  BY <1>6 DEF sessionVars
<1>7. QED
  BY <1>1, <1>2, <1>3, <1>4, <1>5, <1>6 DEF SessionNext

(* While there is a main screen the session runs, with the proxy that the   *)
(* settings show, unless a screen was destroyed with another one there, and *)
(* nothing is transferred after the last; unless a call has thrown.         *)
THEOREM SessionIsFollowed == SessionSpec => []SessionFollowsScreen
<1>1. SessionInit => SessionInv
  <2> SUFFICES ASSUME SessionInit PROVE SessionInv
    OBVIOUS
  <2>1. gSession \in Sessions /\ ~gSession.ready
    BY DEF SessionInit, NoSession, Sessions
  <2>2. SessionTypeOK
    BY <2>1 DEF SessionInit, SessionTypeOK, Sessions
  <2>3. QED
    BY <2>1, <2>2 DEF SessionInit, SessionInv, SessionFollowsScreen
<1>2. SessionInv => SessionFollowsScreen
  BY DEF SessionInv
<1>3. QED
  BY <1>1, <1>2, NextSession, PTL DEF SessionSpec

-----------------------------------------------------------------------------
(* Numbers, and functions that are defined by recursion over them.          *)

(* Lemma: a set of numbers that is not empty has a smallest one.            *)
LEMMA SmallestIn ==
  ASSUME NEW S \in SUBSET Nat, S # {}
  PROVE  \E n \in S : \A m \in S : n <= m
<1> DEFINE R == OpToRel(<, Nat)
<1>1. IsWellFoundedOn(R, Nat)
  BY NatLessThanWellFounded
<1>2. \A m, n \in Nat : m < n => <<m, n>> \in R
  BY DEF OpToRel
<1> HIDE DEF R
<1>3. PICK n \in S : \A m \in S : <<m, n>> \notin R
  BY <1>1, WFMin
<1>4. \A m \in S : ~(m < n)
  BY <1>2, <1>3
<1>5. \A m \in S : n <= m
  BY <1>4
<1>6. QED
  BY <1>5

(* Lemma: a set with 0, and with the successor of every number in it up to  *)
(* N, has all numbers up to N.                                              *)
LEMMA UpTo ==
  ASSUME NEW N \in Nat, NEW S, 0 \in S, \A n \in 1 .. N : n - 1 \in S => n \in S
  PROVE  \A n \in 0 .. N : n \in S
<1> SUFFICES ASSUME (0 .. N) \ S # {} PROVE FALSE
  OBVIOUS
<1> DEFINE without == (0 .. N) \ S
<1>0. without \in SUBSET Nat /\ without # {}
  OBVIOUS
<1>1. PICK n \in without : \A m \in without : n <= m
  BY <1>0, SmallestIn
<1>2. n \in 1 .. N /\ n - 1 \in 0 .. N
  BY <1>1
<1>3. n - 1 \in S
  BY <1>1, <1>2
<1>4. QED
  BY <1>1, <1>2, <1>3

(* Lemma: a set of numbers up to N that is not empty has a biggest one.     *)
LEMMA BiggestIn ==
  ASSUME NEW N \in Nat, NEW S \in SUBSET (0 .. N), S # {}
  PROVE  \E n \in S : \A m \in S : m <= n
<1> DEFINE below == {N - n : n \in S}
<1>1. below \in SUBSET Nat /\ below # {}
  OBVIOUS
<1>2. PICK k \in below : \A m \in below : k <= m
  BY <1>1, SmallestIn
<1>3. PICK n \in S : k = N - n
  BY <1>2
<1>4. \A m \in S : N - n <= N - m
  BY <1>2, <1>3
<1>5. \A m \in S : m <= n
  BY <1>4
<1>6. QED
  BY <1>5

(* A step takes a value and a number to the next value; it is repeated N    *)
(* times.                                                                   *)
Steps(S, N) == [S \X (1 .. N) -> S]

Repeats(f, N, S, first, step) ==
    /\ f \in [0 .. N -> S] /\ f[0] = first
    /\ \A k \in 1 .. N : f[k] = step[<<f[k - 1], k>>]

(* Lemma: a step that stays in a set defines a function by recursion.       *)
LEMMA Recursion ==
  ASSUME NEW N \in Nat, NEW S, NEW first \in S, NEW step \in Steps(S, N)
  PROVE  \E f : Repeats(f, N, S, first, step)
<1> USE DEF Steps, Repeats
<1> DEFINE Follows(f, n) == Repeats(f, n, S, first, step)
           Reached == {n \in 0 .. N : \E f : Follows(f, n)}
<1>1. 0 \in Reached
  <2>1. Follows([k \in 0 .. 0 |-> first], 0)
    OBVIOUS
  <2>2. \E f : Follows(f, 0)
    BY <2>1
  <2>3. QED
    BY <2>2
<1>2. ASSUME NEW n \in 1 .. N, n - 1 \in Reached PROVE n \in Reached
  <2>1. PICK f : Follows(f, n - 1)
    BY <1>2
  <2> DEFINE g == [k \in 0 .. n |-> IF k = n THEN step[<<f[n - 1], n>>] ELSE f[k]]
  <2>2. f[n - 1] \in S /\ step[<<f[n - 1], n>>] \in S
    BY <2>1
  <2>3. g \in [0 .. n -> S] /\ g[0] = first
    BY <2>1, <2>2
  <2>4. ASSUME NEW k \in 1 .. n PROVE g[k] = step[<<g[k - 1], k>>]
    <3>1. k - 1 \in 0 .. n /\ k - 1 # n /\ g[k - 1] = f[k - 1]
      OBVIOUS
    <3>2. CASE k = n
      BY <3>1, <3>2
    <3>3. CASE k # n
      <4>1. k \in 1 .. (n - 1) /\ g[k] = f[k]
        BY <3>3
      <4>2. f[k] = step[<<f[k - 1], k>>]
        BY <2>1, <4>1
      <4>3. QED
        BY <3>1, <4>1, <4>2
    <3>4. QED
      BY <3>2, <3>3
  <2>5. Follows(g, n)
    BY <2>3, <2>4
  <2>6. \E h : Follows(h, n)
    BY <2>5
  <2>7. QED
    BY <2>6
<1> HIDE DEF Reached
<1>3. \A n \in 0 .. N : n \in Reached
  BY <1>1, <1>2, UpTo
<1>4. N \in Reached
  BY <1>3
<1>5. PICK f : Follows(f, N)
  BY <1>4 DEF Reached
<1>6. QED
  BY <1>5

-----------------------------------------------------------------------------
(* The list of subtitles.                                                   *)

Lists ==
    [of : Episodes \cup {"no episode"}, languages : Seq(Languages \cup {Without})]

Messages ==
    [what : {"result", "answer"}, request : Nat, of : Episodes, answer : Answers]

(* What can wait in the looper: no message is from a selection that is to   *)
(* come, and one of the last selection is of the selected episode.          *)
Possible ==
    {m \in Messages : m.request <= selections /\ (m.request = selections => m.of = episode)}

(* Every variable has its type.                                             *)
ChoiceTypeOK ==
    /\ episode \in Episodes /\ selections \in Nat /\ position \in Nat
    /\ loading \in BOOLEAN /\ chosen \in BOOLEAN /\ crashed \in BOOLEAN /\ overtaken \in BOOLEAN
    /\ list \in Lists
    /\ looper \in Seq(Possible)

Ours(i) == looper[i].request = selections

(* The answer to the last selection is under way at most once.              *)
OneUnderWay ==
    /\ loading => \A i \in 1 .. Len(looper) : ~Ours(i)
    /\ \A i, j \in 1 .. Len(looper) : Ours(i) /\ Ours(j) => i = j

(* Until it is there the list is empty, and nothing is chosen from it.      *)
EmptyUntilThen ==
    loading \/ (\E i \in 1 .. Len(looper) : Ours(i)) =>
        list = NoList /\ position = 0 /\ ~chosen

ChoiceInv ==
    /\ ChoiceTypeOK
    /\ ~overtaken => OneUnderWay /\ EmptyUntilThen
    /\ SubtitlesOfEpisode

(* Lemma: what is left without the answers was there before.                *)
LEMMA NoAnswersKeeps ==
  ASSUME NEW U, NEW messages \in Seq(U)
  PROVE  NoAnswers(messages) \in Seq(U)
<1> DEFINE N == Len(messages)
           S == Seq(U)
           Step(kept, k) == IF messages[k].what = "answer" THEN kept
                            ELSE Append(kept, messages[k])
           step == [p \in S \X (1 .. N) |-> Step(p[1], p[2])]
           UpToIs(f) == f = [k \in 0 .. N |->
                                IF k = 0 THEN <<>> ELSE Step(f[k - 1], k)]
           upTo == CHOOSE f : UpToIs(f)
<1>1. N \in Nat /\ <<>> \in S
  OBVIOUS
<1>2. ASSUME NEW kept \in S, NEW k \in 1 .. N
      PROVE  Step(kept, k) \in S
  OBVIOUS
<1>3. step \in Steps(S, N)
  BY <1>2 DEF Steps
<1>4. \A kept \in S : \A k \in 1 .. N : step[<<kept, k>>] = Step(kept, k)
  OBVIOUS
<1>5. PICK f : Repeats(f, N, S, <<>>, step)
  <2> HIDE DEF N, S, step
  <2>1. QED
    BY <1>1, <1>3, Recursion
<1>6. ASSUME NEW k \in 1 .. N PROVE f[k] = Step(f[k - 1], k)
  <2> HIDE DEF N, S, step, Step
  <2>1. k - 1 \in 0 .. N /\ f[k - 1] \in S
    BY <1>1, <1>5 DEF Repeats
  <2>2. QED
    BY <1>4, <1>5, <2>1 DEF Repeats
<1> HIDE DEF Step
<1>7. UpToIs(f)
  BY <1>1, <1>5, <1>6 DEF Repeats
<1>8. UpToIs(upTo)
  BY <1>7
<1>9. upTo[0] = <<>> /\ \A k \in 1 .. N : upTo[k] = Step(upTo[k - 1], k)
  <2> HIDE DEF upTo
  <2>1. QED
    BY <1>1, <1>8
<1> HIDE DEF upTo, S
<1> DEFINE Kept == {k \in 0 .. N : upTo[k] \in S}
<1>10. 0 \in Kept
  BY <1>1, <1>9
<1>11. \A k \in 1 .. N : k - 1 \in Kept => k \in Kept
  BY <1>2, <1>9
<1>12. N \in Kept
  <2> HIDE DEF N, Kept
  <2>1. \A k \in 0 .. N : k \in Kept
    BY <1>1, <1>10, <1>11, UpTo
  <2>2. QED
    BY <1>1, <2>1
<1>13. NoAnswers(messages) = upTo[N]
  BY DEF NoAnswers, upTo, Step
<1>14. QED
  BY <1>12, <1>13 DEF S

(* Lemma: the last entry of the preferred language is found.                *)
LEMMA LastPreferred ==
  ASSUME NEW languages \in Seq(Languages), SubLang \in ToSet(languages)
  PROVE  /\ PositionIn(languages) \in 1 .. Len(languages)
         /\ languages[PositionIn(languages)] = SubLang
<1> DEFINE I == {i \in 1 .. Len(languages) : languages[i] = SubLang}
<1>1. Len(languages) \in Nat /\ I \subseteq 0 .. Len(languages)
  OBVIOUS
<1>2. I # {}
  BY DEF ToSet
<1>3. PositionIn(languages) = Max(I)
  BY <1>2 DEF PositionIn, SelectLastInSeq
<1>4. \E i \in I : \A j \in I : j <= i
  <2> HIDE DEF I
  <2>1. QED
    BY <1>1, <1>2, BiggestIn
<1>5. \E i \in I : \A j \in I : i >= j
  BY <1>4
<1>6. Max(I) \in I
  BY <1>5 DEF Max
<1>7. QED
  BY <1>3, <1>6

(* Lemma: the position that is looked up from 0 is, with the first entry in *)
(* front of the list, that of the preferred language or of none.            *)
LEMMA PreferredFound ==
  ASSUME NEW languages \in Seq(Languages), position = 0
  PROVE  LET shown == <<Without>> \o languages
             p     == PositionIn(languages) + 1
         IN  /\ p \in DOMAIN shown
             /\ shown[p] = IF SubLang \in ToSet(shown) THEN SubLang ELSE Without
<1> DEFINE shown == <<Without>> \o languages
           I == {i \in 1 .. Len(languages) : languages[i] = SubLang}
<1>1. /\ Len(languages) \in Nat /\ Len(shown) = Len(languages) + 1
      /\ shown[1] = Without
      /\ \A i \in 1 .. Len(languages) : shown[i + 1] = languages[i]
      /\ DOMAIN shown = 1 .. Len(shown) /\ DOMAIN languages = 1 .. Len(languages)
  OBVIOUS
<1> HIDE DEF shown
<1>2. CASE I = {}
  <2>1. SubLang \notin ToSet(languages)
    BY <1>1, <1>2 DEF ToSet
  <2>2. PositionIn(languages) + 1 = 1
    BY <2>1 DEF PositionIn
  <2>3. ASSUME NEW i \in DOMAIN shown, shown[i] = SubLang PROVE SubLang = Without
    <3>1. CASE i = 1
      BY <1>1, <2>3, <3>1
    <3>2. CASE i # 1
      <4>1. i - 1 \in 1 .. Len(languages) /\ shown[i] = languages[i - 1]
        BY <1>1, <3>2
      <4>2. QED
        BY <1>2, <2>3, <4>1
    <3>3. QED
      BY <3>1, <3>2
  <2>4. SubLang \in ToSet(shown) => SubLang = Without
    BY <2>3 DEF ToSet
  <2>5. 1 \in DOMAIN shown
    BY <1>1
  <2>6. QED
    BY <1>1, <2>2, <2>4, <2>5 DEF shown
<1>3. CASE I # {}
  <2> DEFINE at == PositionIn(languages)
  <2>1. SubLang \in ToSet(languages)
    BY <1>1, <1>3 DEF ToSet
  <2>2. at \in 1 .. Len(languages) /\ languages[at] = SubLang
    BY <2>1, LastPreferred
  <2> HIDE DEF at
  <2>3. at + 1 \in DOMAIN shown /\ shown[at + 1] = SubLang
    BY <1>1, <2>2
  <2>4. SubLang \in ToSet(shown)
    BY <2>3 DEF ToSet
  <2>5. QED
    BY <2>3, <2>4 DEF at, shown
<1>4. QED
  BY <1>2, <1>3

(* Lemma: an answer is nothing, no text, or a list of languages.            *)
LEMMA AnswerShape ==
  ASSUME NEW answer \in Answers, answer \notin {Nothing, NoText}
  PROVE  answer.languages \in Seq(Languages)
<1>1. PICK l \in SeqOf(Languages, MaxSubtitles) : answer = [is |-> "list", languages |-> l]
  BY DEF Answers
<1>2. PICK n \in 0 .. MaxSubtitles : l \in [1 .. n -> Languages]
  BY <1>1 DEF SeqOf
<1>3. n \in Nat
  BY <1>2, ChoiceAssumption
<1>4. l \in Seq(Languages)
  BY <1>2, <1>3
<1>5. QED
  BY <1>1, <1>4

(* Lemmas: the elements of a sequence, of its tail, of what is appended to.  *)
LEMMA SequenceOf ==
  ASSUME NEW U, NEW s \in Seq(U)
  PROVE  /\ Len(s) \in Nat /\ \A i \in 1 .. Len(s) : s[i] \in U
         /\ \A V : (\A i \in 1 .. Len(s) : s[i] \in V) => s \in Seq(V)
OBVIOUS

LEMMA TailOf ==
  ASSUME NEW U, NEW s \in Seq(U), s # <<>>
  PROVE  /\ Len(s) \in Nat /\ Len(s) >= 1
         /\ Head(s) = s[1] /\ Head(s) \in U
         /\ Tail(s) \in Seq(U) /\ Len(Tail(s)) = Len(s) - 1
         /\ \A i \in 1 .. Len(Tail(s)) : Tail(s)[i] = s[i + 1]
OBVIOUS

LEMMA AppendTo ==
  ASSUME NEW U, NEW s \in Seq(U), NEW e \in U
  PROVE  /\ Append(s, e) \in Seq(U) /\ Len(s) \in Nat
         /\ Len(Append(s, e)) = Len(s) + 1 /\ Append(s, e)[Len(s) + 1] = e
         /\ \A i \in 1 .. Len(s) : Append(s, e)[i] = s[i]
OBVIOUS

(* Lemma: the selection of an episode makes every message one of before.    *)
LEMMA SelectKeeps ==
  ASSUME ChoiceInv, NEW e \in Episodes, OnItemClick(e)
  PROVE  ChoiceInv'
<1>1. /\ ChoiceTypeOK /\ looper \in Seq(Possible) /\ selections \in Nat
      /\ ~overtaken => OneUnderWay /\ EmptyUntilThen
      /\ SubtitlesOfEpisode
  BY DEF ChoiceInv, ChoiceTypeOK
<1>2. /\ selections' = selections + 1 /\ episode' = e /\ looper' = looper
      /\ list' = NoList /\ position' = 0 /\ loading' = TRUE /\ chosen' = FALSE /\ overtaken' = FALSE
      /\ UNCHANGED crashed
  BY DEF OnItemClick, RestartLoader
<1>3. ASSUME NEW m \in Possible PROVE m \in Possible' /\ m.request # selections'
  <2>1. m \in Messages /\ m.request <= selections /\ m.request \in Nat
    BY DEF Possible, Messages
  <2>2. m.request <= selections + 1 /\ m.request # selections + 1
    BY <1>1, <2>1
  <2>3. QED
    BY <1>2, <2>1, <2>2 DEF Possible
<1>4. \A i \in 1 .. Len(looper) : looper[i] \in Possible
  BY <1>1, SequenceOf
<1>5. looper' \in Seq(Possible') /\ \A i \in 1 .. Len(looper') : ~Ours(i)'
  <2>1. \A i \in 1 .. Len(looper) : looper[i] \in Possible'
    BY <1>3, <1>4
  <2>2. looper \in Seq(Possible')
    BY <1>1, <2>1, SequenceOf
  <2>3. QED
    BY <1>2, <1>3, <1>4, <2>2 DEF Ours
<1>6. list' \in Lists
  <2>1. <<>> \in Seq(Languages \cup {Without})
    OBVIOUS
  <2>2. QED
    BY <1>2, <2>1 DEF NoList, Lists
<1>7. ChoiceTypeOK'
  <2>1. /\ episode' \in Episodes /\ position' \in Nat
        /\ loading' \in BOOLEAN /\ chosen' \in BOOLEAN /\ overtaken' \in BOOLEAN
    BY <1>2
  <2>4. crashed' \in BOOLEAN
    BY <1>1, <1>2 DEF ChoiceTypeOK
  <2>2. selections' \in Nat
    BY <1>1, <1>2
  <2>3. QED
    BY <1>5, <1>6, <2>1, <2>2, <2>4 DEF ChoiceTypeOK
<1>8. (OneUnderWay /\ EmptyUntilThen)'
  BY <1>2, <1>5 DEF OneUnderWay, EmptyUntilThen
<1>9. SubtitlesOfEpisode'
  BY <1>2 DEF SubtitlesOfEpisode
<1>10. QED
  BY <1>7, <1>8, <1>9 DEF ChoiceInv

(* Lemma: the loader that ends puts the one message of the last selection.  *)
LEMMA LoadKeeps ==
  ASSUME ChoiceInv, NEW answer \in Answers, LoadEnds(answer)
  PROVE  ChoiceInv'
<1>1. /\ ChoiceTypeOK /\ looper \in Seq(Possible) /\ selections \in Nat
      /\ ~overtaken => OneUnderWay /\ EmptyUntilThen
      /\ SubtitlesOfEpisode
  BY DEF ChoiceInv, ChoiceTypeOK
<1> DEFINE m == Message("result", answer)
<1>2. /\ loading /\ loading' = FALSE /\ looper' = Append(looper, m)
      /\ UNCHANGED <<episode, list, position, selections, chosen, crashed, overtaken>>
  BY DEF LoadEnds
<1>3. Possible' = Possible
  BY <1>2 DEF Possible, Messages, Answers
<1>4. m \in Messages /\ m.request = selections /\ m.of = episode
  BY <1>1 DEF Messages, Message, ChoiceTypeOK
<1> HIDE DEF m
<1>5. m \in Possible
  BY <1>1, <1>4 DEF Possible
<1>6. /\ looper' \in Seq(Possible) /\ Len(looper') = Len(looper) + 1 /\ Len(looper) \in Nat
      /\ \A i \in 1 .. Len(looper) : looper'[i] = looper[i]
  BY <1>1, <1>2, <1>5, AppendTo
<1>7. ChoiceTypeOK'
  BY <1>1, <1>2, <1>3, <1>6 DEF ChoiceTypeOK
<1>8. ASSUME ~overtaken PROVE (OneUnderWay /\ EmptyUntilThen)'
  <2>1. \A i \in 1 .. Len(looper) : ~Ours(i)
    BY <1>1, <1>2, <1>8 DEF OneUnderWay
  <2>2. \A i \in 1 .. Len(looper') : Ours(i)' => i = Len(looper')
    BY <1>2, <1>6, <2>1 DEF Ours
  <2>3. list = NoList /\ position = 0 /\ ~chosen
    BY <1>1, <1>2, <1>8 DEF EmptyUntilThen
  <2>4. QED
    BY <1>2, <2>2, <2>3 DEF OneUnderWay, EmptyUntilThen
<1>9. SubtitlesOfEpisode'
  BY <1>1, <1>2 DEF SubtitlesOfEpisode, Chosen
<1>10. QED
  BY <1>2, <1>7, <1>8, <1>9 DEF ChoiceInv

(* Lemma: a result that is passed on stays the one message, at the end.     *)
LEMMA ResultKeeps ==
  ASSUME ChoiceInv, OnLoadFinished
  PROVE  ChoiceInv'
<1>1. /\ ChoiceTypeOK /\ looper \in Seq(Possible) /\ selections \in Nat
      /\ ~overtaken => OneUnderWay /\ EmptyUntilThen
      /\ SubtitlesOfEpisode
  BY DEF ChoiceInv, ChoiceTypeOK
<1> DEFINE m  == Head(looper)
           m2 == [m EXCEPT !.what = "answer"]
<1>2. /\ looper # <<>> /\ m.what = "result"
      /\ looper' = IF m.request = selections THEN Append(Tail(looper), m2) ELSE Tail(looper)
      /\ UNCHANGED <<episode, list, position, selections, loading, chosen, crashed, overtaken>>
  BY DEF OnLoadFinished
<1>3. /\ Len(looper) \in Nat /\ Len(looper) >= 1 /\ m = looper[1] /\ m \in Possible
      /\ Tail(looper) \in Seq(Possible) /\ Len(Tail(looper)) = Len(looper) - 1
      /\ \A i \in 1 .. Len(Tail(looper)) : Tail(looper)[i] = looper[i + 1]
  BY <1>1, <1>2, TailOf
<1>4. Possible' = Possible
  BY <1>2 DEF Possible, Messages, Answers
<1>5. m2 \in Possible /\ m2.request = m.request
  BY <1>3 DEF Possible, Messages
<1> HIDE DEF m, m2
<1>6. looper' \in Seq(Possible)
  BY <1>2, <1>3, <1>5, AppendTo
<1>7. ChoiceTypeOK'
  BY <1>1, <1>2, <1>4, <1>6 DEF ChoiceTypeOK
<1>8. ASSUME ~overtaken PROVE (OneUnderWay /\ EmptyUntilThen)'
  <2>1. CASE m.request = selections
    <3>1. Ours(1) /\ ~loading /\ \A i \in 1 .. Len(looper) : Ours(i) => i = 1
      <4>1. Ours(1) /\ 1 \in 1 .. Len(looper)
        BY <1>3, <2>1 DEF Ours
      <4>2. QED
        BY <1>1, <1>8, <4>1 DEF OneUnderWay
    <3>2. \A i \in 1 .. Len(Tail(looper)) : Tail(looper)[i].request # selections
      <4>1. ASSUME NEW i \in 1 .. Len(Tail(looper))
            PROVE  i + 1 \in 1 .. Len(looper) /\ i + 1 # 1
        BY <1>3
      <4>2. QED
        BY <1>3, <3>1, <4>1 DEF Ours
    <3>3. /\ looper' = Append(Tail(looper), m2) /\ Len(looper') = Len(looper)
          /\ Len(Tail(looper)) = Len(looper) - 1
          /\ \A i \in 1 .. Len(Tail(looper)) : looper'[i] = Tail(looper)[i]
      <4>1. looper' = Append(Tail(looper), m2)
        BY <1>2, <2>1
      <4>2. /\ Len(looper') = Len(Tail(looper)) + 1
            /\ \A i \in 1 .. Len(Tail(looper)) : looper'[i] = Tail(looper)[i]
        BY <1>3, <1>5, <4>1, AppendTo
      <4>3. QED
        BY <1>3, <4>1, <4>2
    <3>4. \A i \in 1 .. Len(looper') : Ours(i)' => i = Len(looper')
      <4>1. ASSUME NEW i \in 1 .. Len(looper'), i # Len(looper')
            PROVE  i \in 1 .. Len(Tail(looper))
        <5>1. i \in 1 .. Len(looper) /\ i # Len(looper)
          BY <3>3, <4>1
        <5>2. Len(looper) \in Nat
          BY <1>3
        <5>3. i <= Len(looper) - 1
          BY <5>1, <5>2
        <5>4. QED
          BY <3>3, <5>1, <5>3
      <4>2. QED
        BY <1>2, <3>2, <3>3, <4>1 DEF Ours
    <3>5. list = NoList /\ position = 0 /\ ~chosen
      <4>1. 1 \in 1 .. Len(looper)
        BY <1>3
      <4>2. QED
        BY <1>1, <1>8, <3>1, <4>1 DEF EmptyUntilThen
    <3>6. QED
      BY <1>2, <3>1, <3>4, <3>5 DEF OneUnderWay, EmptyUntilThen
  <2>2. CASE m.request # selections
    <3>1. looper' = Tail(looper)
      BY <1>2, <2>2
    <3>2. ASSUME NEW i \in 1 .. Len(looper')
          PROVE  i + 1 \in 1 .. Len(looper) /\ Ours(i)' = Ours(i + 1)
      <4>1. i + 1 \in 1 .. Len(looper)
        BY <1>3, <3>1
      <4>2. looper'[i] = looper[i + 1]
        BY <1>3, <3>1
      <4>3. QED
        BY <1>2, <4>1, <4>2 DEF Ours
    <3>3. loading => \A i \in 1 .. Len(looper') : ~Ours(i)'
      BY <1>1, <1>2, <1>8, <3>2 DEF OneUnderWay
    <3>4. ASSUME NEW i \in 1 .. Len(looper'), NEW j \in 1 .. Len(looper'), Ours(i)', Ours(j)'
          PROVE  i = j
      <4>1. i + 1 = j + 1
        BY <1>1, <1>8, <3>2, <3>4 DEF OneUnderWay
      <4>2. i \in Int /\ j \in Int
        BY <1>3, <3>1
      <4>3. QED
        BY <4>1, <4>2
    <3>5. (\E i \in 1 .. Len(looper') : Ours(i)') => \E i \in 1 .. Len(looper) : Ours(i)
      BY <3>2
    <3>6. OneUnderWay'
      BY <1>2, <3>3, <3>4 DEF OneUnderWay
    <3>7. EmptyUntilThen'
      BY <1>1, <1>2, <1>8, <3>5 DEF EmptyUntilThen
    <3>8. QED
      BY <3>6, <3>7
  <2>3. QED
    BY <2>1, <2>2
<1>9. SubtitlesOfEpisode'
  BY <1>1, <1>2 DEF SubtitlesOfEpisode, Chosen
<1>10. QED
  BY <1>2, <1>7, <1>8, <1>9 DEF ChoiceInv

(* Lemma: the answer that is handled fills the list of the selected episode *)
(* at the preferred language, or was overtaken.                             *)
LEMMA MessageKeeps ==
  ASSUME ChoiceInv, HandleMessage
  PROVE  ChoiceInv'
<1> DEFINE m == Head(looper)
<1>1. /\ ChoiceTypeOK /\ looper \in Seq(Possible)
      /\ ~overtaken => OneUnderWay /\ EmptyUntilThen
      /\ SubtitlesOfEpisode
  BY DEF ChoiceInv, ChoiceTypeOK
<1>2. /\ looper # <<>> /\ looper' = NoAnswers(Tail(looper)) /\ ParseTVShows(m)
      /\ overtaken' = (overtaken \/ m.request # selections)
      /\ UNCHANGED <<episode, selections, loading, chosen>>
  BY DEF HandleMessage
<1>3. /\ Len(looper) \in Nat /\ Len(looper) >= 1 /\ m = looper[1] /\ m \in Possible
      /\ Tail(looper) \in Seq(Possible) /\ Len(Tail(looper)) = Len(looper) - 1
      /\ \A i \in 1 .. Len(Tail(looper)) : Tail(looper)[i] = looper[i + 1]
  BY <1>1, <1>2, TailOf
<1>4. Possible' = Possible
  BY <1>2 DEF Possible, Messages, Answers
<1>5. m.answer \in Answers /\ m.of \in Episodes /\ (m.request = selections => m.of = episode)
  BY <1>3 DEF Possible, Messages
<1> HIDE DEF m
<1>6. \/ UNCHANGED <<list, position>>
      \/ \E languages \in Seq(Languages) :
            /\ list' = [of |-> m.of, languages |-> <<Without>> \o languages]
            /\ position' = PositionIn(languages)
  BY <1>2, <1>5, AnswerShape DEF ParseTVShows
<1>7. list' \in Lists
      /\ position' \in Nat
  <2>1. ASSUME NEW languages \in Seq(Languages)
        PROVE  /\ PositionIn(languages) \in Nat
               /\ <<Without>> \o languages \in Seq(Languages \cup {Without})
    <3>1. PositionIn(languages) \in Nat
      <4>1. CASE SubLang \in ToSet(languages)
        <5>1. Len(languages) \in Nat
          OBVIOUS
        <5>2. QED
          BY <4>1, <5>1, LastPreferred
      <4>2. CASE SubLang \notin ToSet(languages)
        BY <1>1, <4>2 DEF PositionIn, ChoiceTypeOK
      <4>3. QED
        BY <4>1, <4>2
    <3>2. QED
      BY <3>1
  <2>2. CASE UNCHANGED <<list, position>>
    BY <1>1, <2>2 DEF ChoiceTypeOK
  <2>3. ASSUME NEW languages \in Seq(Languages),
               list' = [of |-> m.of, languages |-> <<Without>> \o languages],
               position' = PositionIn(languages)
        PROVE  /\ list' \in Lists
               /\ position' \in Nat
    <3>1. <<Without>> \o languages \in Seq(Languages \cup {Without})
      BY <2>1
    <3>2. QED
      BY <1>5, <2>1, <2>3, <3>1 DEF Lists
  <2>4. QED
    BY <1>6, <2>2, <2>3
<1>8. ChoiceTypeOK'
  <2>1. looper' \in Seq(Possible)
    BY <1>2, <1>3, NoAnswersKeeps
  <2>2. overtaken' \in BOOLEAN /\ crashed' \in BOOLEAN
    BY <1>2 DEF ParseTVShows
  <2>3. QED
    BY <1>1, <1>2, <1>4, <1>7, <2>1, <2>2 DEF ChoiceTypeOK
<1>9. ASSUME ~overtaken' PROVE (OneUnderWay /\ EmptyUntilThen /\ SubtitlesOfEpisode)'
  <2>1. m.request = selections /\ ~overtaken /\ 1 \in 1 .. Len(looper) /\ Ours(1)
    <3>1. m.request = selections /\ ~overtaken
      BY <1>2, <1>9
    <3>2. 1 \in 1 .. Len(looper)
      BY <1>3
    <3>3. QED
      BY <1>3, <3>1, <3>2 DEF Ours
  <2>2. ~loading /\ \A i \in 1 .. Len(looper) : Ours(i) => i = 1
    BY <1>1, <2>1 DEF OneUnderWay
  <2>3. list = NoList /\ position = 0 /\ ~chosen
    BY <1>1, <2>1 DEF EmptyUntilThen
  <2> DEFINE Others == {o \in Possible : o.request # selections}
  <2>4. ASSUME NEW i \in 1 .. Len(Tail(looper)) PROVE Tail(looper)[i] \in Others
    <3>1. i + 1 \in 1 .. Len(looper) /\ i + 1 # 1
      BY <1>3
    <3>2. looper[i + 1] \in Possible /\ ~Ours(i + 1)
      BY <1>1, <2>2, <3>1, SequenceOf
    <3>3. QED
      BY <1>3, <3>2 DEF Ours
  <2>5. Tail(looper) \in Seq(Others)
    <3> HIDE DEF Others
    <3>1. QED
      BY <1>3, <2>4, SequenceOf
  <2>6. looper' \in Seq(Others)
    BY <1>2, <2>5, NoAnswersKeeps
  <2>7. \A i \in 1 .. Len(looper') : looper'[i] \in Others
    <3> HIDE DEF Others
    <3>1. QED
      BY <2>6, SequenceOf
  <2>8. (OneUnderWay /\ EmptyUntilThen)'
    BY <1>2, <2>2, <2>7 DEF OneUnderWay, EmptyUntilThen, Ours
  <2>9. CASE UNCHANGED <<list, position>>
    BY <2>3, <2>8, <2>9 DEF SubtitlesOfEpisode
  <2>10. ASSUME NEW languages \in Seq(Languages),
                list' = [of |-> m.of, languages |-> <<Without>> \o languages],
                position' = PositionIn(languages)
         PROVE  SubtitlesOfEpisode'
    <3>1. list'.of = episode' /\ list'.languages = <<Without>> \o languages
      BY <1>2, <1>5, <2>1, <2>10
    <3>2. /\ position' + 1 \in DOMAIN list'.languages
          /\ list'.languages[position' + 1]
                = IF SubLang \in ToSet(list'.languages) THEN SubLang ELSE Without
      BY <2>3, <2>10, <3>1, PreferredFound
    <3>3. QED
      BY <3>1, <3>2 DEF SubtitlesOfEpisode, Chosen
  <2>11. QED
    BY <1>6, <2>8, <2>9, <2>10
<1>10. overtaken' => SubtitlesOfEpisode'
  BY DEF SubtitlesOfEpisode
<1>11. QED
  BY <1>8, <1>9, <1>10 DEF ChoiceInv

(* Lemma: the user chooses only from a list that is there.                  *)
LEMMA ChoosingKeeps ==
  ASSUME ChoiceInv, NEW p \in DOMAIN list.languages, OnSubtitleSelected(p)
  PROVE  ChoiceInv'
<1>1. /\ ChoiceTypeOK /\ list.languages \in Seq(Languages \cup {Without})
      /\ ~overtaken => OneUnderWay /\ EmptyUntilThen
      /\ SubtitlesOfEpisode
  BY DEF ChoiceInv, ChoiceTypeOK, Lists
<1>2. /\ list # NoList /\ position' = p - 1 /\ chosen' = TRUE
      /\ UNCHANGED <<episode, list, selections, loading, looper, crashed, overtaken>>
  BY DEF OnSubtitleSelected
<1>3. p \in Nat /\ p >= 1
  BY <1>1
<1>4. position' \in Nat /\ position' + 1 = p
  BY <1>2, <1>3
<1>5. ChoiceTypeOK'
  <2>1. Possible' = Possible
    BY <1>2 DEF Possible, Messages, Answers
  <2>2. QED
    BY <1>1, <1>2, <1>4, <2>1 DEF ChoiceTypeOK
<1>6. ~overtaken' => (OneUnderWay /\ EmptyUntilThen)'
  BY <1>1, <1>2 DEF OneUnderWay, EmptyUntilThen, Ours
<1>7. SubtitlesOfEpisode'
  BY <1>1, <1>2, <1>4 DEF SubtitlesOfEpisode
<1>8. QED
  BY <1>5, <1>6, <1>7 DEF ChoiceInv

(* A list that is shown is of the selected episode, and stands at the       *)
(* preferred language, or at none without it, until the user chooses,       *)
(* unless an answer was overtaken by the next selection; whatever the       *)
(* number of episodes, of languages and of selections.                      *)
THEOREM SubtitlesAreOfEpisode == ChoiceSpec => []SubtitlesOfEpisode
<1>1. ChoiceInit => ChoiceInv
  <2> SUFFICES ASSUME ChoiceInit PROVE ChoiceInv
    OBVIOUS
  <2>1. /\ episode \in Episodes /\ list = NoList /\ position = 0 /\ selections = 1
        /\ loading = TRUE /\ looper = <<>> /\ chosen = FALSE /\ crashed = FALSE /\ overtaken = FALSE
    BY DEF ChoiceInit
  <2>2. NoList \in Lists
        /\ <<>> \in Seq(Possible) /\ 1 .. Len(<<>>) = {}
    BY DEF NoList, Lists
  <2>3. ChoiceTypeOK
    BY <2>1, <2>2 DEF ChoiceTypeOK
  <2>4. OneUnderWay /\ EmptyUntilThen /\ SubtitlesOfEpisode
    BY <2>1, <2>2 DEF OneUnderWay, EmptyUntilThen, SubtitlesOfEpisode
  <2>5. QED
    BY <2>3, <2>4 DEF ChoiceInv
<1>2. ChoiceInv /\ [ChoiceNext]_choiceVars => ChoiceInv'
  <2> SUFFICES ASSUME ChoiceInv, [ChoiceNext]_choiceVars PROVE ChoiceInv'
    OBVIOUS
  <2>1. CASE UNCHANGED choiceVars
    BY <2>1 DEF choiceVars, ChoiceInv, ChoiceTypeOK, Possible, Messages, Answers, OneUnderWay,
       EmptyUntilThen, Ours, SubtitlesOfEpisode, Chosen
  <2>2. QED
    BY <2>1, SelectKeeps, LoadKeeps, ResultKeeps, MessageKeeps, ChoosingKeeps DEF ChoiceNext
<1>3. ChoiceInv => SubtitlesOfEpisode
  BY DEF ChoiceInv
<1>4. QED
  BY <1>1, <1>2, <1>3, PTL DEF ChoiceSpec

-----------------------------------------------------------------------------
(* The file of a torrent that is loaded.                                    *)

File == [name : Names, size : Sizes]

(* Every variable that a call reads has its type: a torrent has a file, and *)
(* each of its files a priority.                                            *)
FileTypeOK ==
    /\ files \in Seq(File) /\ files # <<>>
    /\ priority \in [DOMAIN files -> {DONT_DOWNLOAD, NORMAL}]
    /\ calls \in Nat

FileInv == FileTypeOK /\ RightFileWanted

Works ==
    [priorities : [DOMAIN files -> {DONT_DOWNLOAD, NORMAL}],
     biggest : DOMAIN files, size : Int]

(* After the first k files none of them was bigger than nothing, or the     *)
(* first of the biggest is the only one of them that is loaded.             *)
NoneFound(w, k) ==
    w.size = -1 /\ \A i \in 1 .. k : w.priorities[i] = DONT_DOWNLOAD

OneFound(w, k) ==
    /\ w.biggest \in 1 .. k /\ w.size # -1
    /\ w.size = Reported(files[w.biggest].size)
    /\ w.priorities[w.biggest] = NORMAL
    /\ \A i \in 1 .. k : i # w.biggest => w.priorities[i] = DONT_DOWNLOAD
    /\ \A i \in 1 .. w.biggest - 1 : Reported(files[i].size) < w.size

FoundAmong(w, k) ==
    /\ w \in Works /\ w.size >= -1
    /\ NoneFound(w, k) \/ OneFound(w, k)
    /\ \A i \in 1 .. k : Reported(files[i].size) <= w.size

(* Lemma: a size that fits in a long is reported as it is.                  *)
LEMMA ReportedSize ==
  ASSUME NEW n \in Nat
  PROVE  Reported(n) \in Int /\ (n <= LongMax => Reported(n) = n)
<1> DEFINE longs == 2 * (LongMax + 1)
<1>1. longs \in Nat /\ longs > 0 /\ longs > LongMax /\ LongMax \in Nat
  BY FileAssumption
<1>2. n % longs \in Int
  BY <1>1
<1>3. n <= LongMax => n % longs = n
  BY <1>1
<1> HIDE DEF longs
<1>4. Reported(n) = IF n % longs <= LongMax THEN n % longs ELSE (n % longs) - longs
  BY DEF Reported, longs
<1>5. QED
  BY <1>1, <1>2, <1>3, <1>4

(* Lemma: the files have numbers from 1 on, and sizes that are numbers.     *)
LEMMA FilesTyped ==
  ASSUME FileTypeOK
  PROVE  /\ Len(files) \in Nat /\ Len(files) >= 1 /\ DOMAIN files = 1 .. Len(files)
         /\ \A i \in DOMAIN files : files[i].size \in Nat /\ Reported(files[i].size) \in Int
<1>1. /\ Len(files) \in Nat /\ Len(files) >= 1 /\ DOMAIN files = 1 .. Len(files)
      /\ \A i \in DOMAIN files : files[i] \in File
  BY DEF FileTypeOK
<1>2. \A i \in DOMAIN files : files[i].size \in Nat
  BY <1>1, FileAssumption DEF File
<1>3. QED
  BY <1>1, <1>2, ReportedSize

(* Lemma: the next file keeps the types of the arrays and numbers.          *)
LEMMA NextTyped ==
  ASSUME FileTypeOK, NEW k \in DOMAIN files, NEW w \in Works
  PROVE  NextFile(w, k) \in Works
<1> DEFINE D == DOMAIN files
<1>1. /\ w.priorities \in [D -> {DONT_DOWNLOAD, NORMAL}] /\ w.biggest \in D /\ k \in D
      /\ Reported(files[k].size) \in Int
  BY FilesTyped DEF Works
<1>2. /\ [w.priorities EXCEPT ![w.biggest] = DONT_DOWNLOAD, ![k] = NORMAL]
            \in [D -> {DONT_DOWNLOAD, NORMAL}]
      /\ [w.priorities EXCEPT ![k] = DONT_DOWNLOAD] \in [D -> {DONT_DOWNLOAD, NORMAL}]
  BY <1>1
<1>3. CASE Reported(files[k].size) > w.size
  BY <1>1, <1>2, <1>3 DEF NextFile, Bigger, Work, Works
<1>4. CASE ~(Reported(files[k].size) > w.size)
  BY <1>1, <1>2, <1>4 DEF NextFile, Works
<1>5. QED
  BY <1>3, <1>4

(* Lemma: the next file keeps what was found among the ones before it.      *)
LEMMA NextFound ==
  ASSUME FileTypeOK, NEW k \in DOMAIN files, NEW w, FoundAmong(w, k - 1)
  PROVE  FoundAmong(NextFile(w, k), k)
<1> DEFINE n == Len(files)
           r == Reported(files[k].size)
           q == w.priorities
           next == NextFile(w, k)
<1>1. n \in Nat /\ DOMAIN files = 1 .. n /\ k \in 1 .. n /\ r \in Int
  BY FilesTyped
<1>2. /\ q \in [1 .. n -> {DONT_DOWNLOAD, NORMAL}] /\ w.biggest \in 1 .. n
      /\ w.size \in Int /\ w.size >= -1
      /\ \A i \in 1 .. k - 1 : Reported(files[i].size) <= w.size
      /\ NoneFound(w, k - 1) \/ OneFound(w, k - 1)
  BY <1>1 DEF FoundAmong, Works
<1>3. \A i \in 1 .. n : Reported(files[i].size) \in Int
  BY <1>1, FilesTyped
<1>4. CASE r > w.size
  <2> DEFINE q1 == [q EXCEPT ![w.biggest] = DONT_DOWNLOAD]
             q2 == [q1 EXCEPT ![k] = NORMAL]
  <2>1. next = [priorities |-> q2, biggest |-> k, size |-> r]
    BY <1>4 DEF NextFile, Bigger, Work
  <2>2. q1 \in [1 .. n -> {DONT_DOWNLOAD, NORMAL}]
    BY <1>2
  <2>3. \A i \in 1 .. k - 1 : q1[i] = DONT_DOWNLOAD
    BY <1>1, <1>2 DEF NoneFound, OneFound
  <2> HIDE DEF q1
  <2>4. q2 \in [1 .. n -> {DONT_DOWNLOAD, NORMAL}] /\ q2[k] = NORMAL
    BY <1>1, <2>2
  <2>5. \A i \in 1 .. k : i # k => q2[i] = DONT_DOWNLOAD
    BY <1>1, <2>2, <2>3
  <2>6. r > -1 /\ r # -1
    BY <1>1, <1>2, <1>4
  <2>7. \A i \in 1 .. k - 1 : Reported(files[i].size) < r
    BY <1>1, <1>2, <1>3, <1>4
  <2>8. ASSUME NEW i \in 1 .. k PROVE Reported(files[i].size) <= r
    <3>1. CASE i = k
      BY <1>1, <3>1
    <3>2. CASE i # k
      BY <1>1, <1>3, <2>7, <3>2
    <3>3. QED
      BY <3>1, <3>2
  <2> HIDE DEF q2, r
  <2>9. next \in Works
    BY <1>1, <2>1, <2>4 DEF Works
  <2>10. OneFound(next, k)
    BY <1>1, <2>1, <2>4, <2>5, <2>6, <2>7 DEF OneFound, r
  <2> HIDE DEF next
  <2>11. next.size = r
    BY <2>1
  <2>12. QED
    BY <1>1, <2>6, <2>8, <2>9, <2>10, <2>11 DEF FoundAmong, next
<1>5. CASE ~(r > w.size)
  <2> DEFINE q1 == [q EXCEPT ![k] = DONT_DOWNLOAD]
  <2>1. next = [w EXCEPT !.priorities = q1]
    BY <1>5 DEF NextFile
  <2>2. q1 \in [1 .. n -> {DONT_DOWNLOAD, NORMAL}] /\ q1[k] = DONT_DOWNLOAD
        /\ \A i \in 1 .. k - 1 : q1[i] = q[i]
    BY <1>1, <1>2
  <2> HIDE DEF q1
  <2>3. w \in Works
    BY DEF FoundAmong
  <2>4. /\ next \in Works /\ next.priorities = q1
        /\ next.biggest = w.biggest /\ next.size = w.size
    BY <1>1, <2>1, <2>2, <2>3 DEF Works
  <2> HIDE DEF next
  <2>5. NoneFound(w, k - 1) => NoneFound(next, k)
    BY <1>1, <2>2, <2>4 DEF NoneFound
  <2>6. OneFound(w, k - 1) => OneFound(next, k)
    BY <1>1, <2>2, <2>4 DEF OneFound
  <2>7. \A i \in 1 .. k : Reported(files[i].size) <= w.size
    BY <1>1, <1>2, <1>5
  <2>8. QED
    BY <1>2, <2>4, <2>5, <2>6, <2>7 DEF FoundAmong, next
<1>6. QED
  BY <1>4, <1>5

(* Lemma: the first of the biggest of all files is the one that is found.   *)
LEMMA BySizeFinds ==
  ASSUME FileTypeOK, NEW p \in [DOMAIN files -> {DONT_DOWNLOAD, NORMAL}]
  PROVE  FoundAmong(BySize(p), Len(files))
<1> DEFINE N == Len(files)
           start == Work(p, 1, -1)
           step == [a \in Works \X (1 .. N) |-> NextFile(a[1], a[2])]
           UpToIs(f) == f = [k \in 0 .. N |-> IF k = 0 THEN start ELSE NextFile(f[k - 1], k)]
           upTo == CHOOSE f : UpToIs(f)
<1>1. N \in Nat /\ N >= 1 /\ DOMAIN files = 1 .. N
  BY FilesTyped
<1>2. start \in Works /\ FoundAmong(start, 0)
  BY <1>1 DEF Work, Works, FoundAmong, NoneFound
<1>3. ASSUME NEW a \in Works \X (1 .. N) PROVE NextFile(a[1], a[2]) \in Works
  BY <1>1, NextTyped
<1>4. step \in Steps(Works, N)
  BY <1>3 DEF Steps
<1>5. \A w \in Works : \A k \in 1 .. N : step[<<w, k>>] = NextFile(w, k)
  OBVIOUS
<1> HIDE DEF N, start, step
<1>6. PICK f : Repeats(f, N, Works, start, step)
  BY <1>1, <1>2, <1>4, Recursion
<1>7. ASSUME NEW k \in 1 .. N PROVE f[k] = NextFile(f[k - 1], k)
  <2>1. k - 1 \in 0 .. N /\ f[k - 1] \in Works
    BY <1>1, <1>6 DEF Repeats
  <2>2. QED
    BY <1>5, <1>6, <2>1 DEF Repeats
<1>8. UpToIs(f)
  BY <1>1, <1>6, <1>7 DEF Repeats
<1>9. UpToIs(upTo)
  BY <1>8
<1>10. upTo[0] = start /\ \A k \in 1 .. N : upTo[k] = NextFile(upTo[k - 1], k)
  <2> HIDE DEF upTo
  <2>1. QED
    BY <1>1, <1>9
<1> HIDE DEF upTo
<1> DEFINE Found == {k \in 0 .. N : FoundAmong(upTo[k], k)}
<1>11. 0 \in Found
  BY <1>1, <1>2, <1>10
<1>12. ASSUME NEW k \in 1 .. N, k - 1 \in Found PROVE k \in Found
  <2>1. FoundAmong(upTo[k - 1], k - 1) /\ k \in DOMAIN files
    BY <1>1, <1>12
  <2>2. FoundAmong(NextFile(upTo[k - 1], k), k)
    BY <2>1, NextFound
  <2>3. QED
    BY <1>1, <1>10, <2>2
<1> HIDE DEF Found
<1>13. \A k \in 0 .. N : k \in Found
  BY <1>1, <1>11, <1>12, UpTo
<1>14. FoundAmong(upTo[N], N)
  BY <1>1, <1>13 DEF Found
<1>15. BySize(p) = upTo[N]
  BY DEF BySize, upTo, start, N
<1>16. QED
  BY <1>14, <1>15 DEF N

(* Lemma: the number of the last file of a name, or 0.                      *)
LEMMA MatchingLast ==
  ASSUME FileTypeOK, NEW name
  PROVE  LET matches == {i \in DOMAIN files : files[i].name = name}
         IN  /\ matches = {} <=> Matching(name) = 0
             /\ Matching(name) # 0 => Matching(name) \in matches
<1> DEFINE matches == {i \in DOMAIN files : files[i].name = name}
<1>1. /\ Len(files) \in Nat /\ DOMAIN files = 1 .. Len(files)
      /\ matches \subseteq 0 .. Len(files) /\ 0 \notin matches
  BY FilesTyped
<1>2. CASE matches = {}
  BY <1>2 DEF Matching
<1>3. CASE matches # {}
  <2> HIDE DEF matches
  <2>1. \E i \in matches : \A j \in matches : j <= i
    BY <1>1, <1>3, BiggestIn
  <2>2. Matching(name) = CHOOSE i \in matches : \A j \in matches : j <= i
    BY <1>3 DEF Matching, matches
  <2>3. Matching(name) \in matches
    BY <2>1, <2>2
  <2>4. QED
    BY <1>1, <1>3, <2>3 DEF matches
<1>4. QED
  BY <1>2, <1>3

(* Lemma: a call by the name of a file loads the files of that name.        *)
LEMMA ByNameWanted ==
  ASSUME FileTypeOK, NEW name, ChooseByName(name), files' = files, fileName' = name
  PROVE  /\ priority' \in [DOMAIN files -> {DONT_DOWNLOAD, NORMAL}]
         /\ OnlyReturnedWanted' /\ BiggestChosen'
<1>1. /\ Matching(name) # 0 /\ priority' = ByName(name, priority)
      /\ location' = Matching(name) /\ size' = Reported(files[Matching(name)].size)
  BY DEF ChooseByName
<1>2. Matching(name) \in DOMAIN files /\ files[Matching(name)].name = name
  BY <1>1, MatchingLast
<1>3. priority' \in [DOMAIN files -> {DONT_DOWNLOAD, NORMAL}]
  BY <1>1 DEF ByName
<1>4. Named' = {i \in DOMAIN files : files[i].name = name}
  BY DEF Named
<1>5. Wanted' = Named'
  BY <1>1, <1>4 DEF Wanted, ByName, NORMAL, DONT_DOWNLOAD
<1>6. Matching(name) \in Named'
  BY <1>2, <1>4
<1>7. OnlyReturnedWanted'
  BY <1>1, <1>5, <1>6 DEF OnlyReturnedWanted
<1>8. BiggestChosen'
  BY <1>6 DEF BiggestChosen
<1>9. QED
  BY <1>3, <1>7, <1>8

(* Lemma: without a file of the name one of the biggest is loaded, or none. *)
LEMMA BySizeWanted ==
  ASSUME FileTypeOK, NEW name, ChooseBySize(name), files' = files, fileName' = name
  PROVE  /\ priority' \in [DOMAIN files -> {DONT_DOWNLOAD, NORMAL}]
         /\ OnlyReturnedWanted' /\ BiggestChosen'
<1> DEFINE p == IF name = NoName THEN priority ELSE ByName(name, priority)
           w == BySize(p)
           N == Len(files)
<1>1. /\ N \in Nat /\ N >= 1 /\ DOMAIN files = 1 .. N
      /\ \A i \in 1 .. N : files[i].size \in Nat /\ Reported(files[i].size) \in Int
  BY FilesTyped
<1>2. p \in [DOMAIN files -> {DONT_DOWNLOAD, NORMAL}]
  BY DEF FileTypeOK, ByName
<1>3. /\ Matching(name) = 0 /\ priority' = w.priorities
      /\ location' = w.biggest /\ size' = w.size
  BY DEF ChooseBySize
<1>4. FoundAmong(w, N)
  <2> HIDE DEF p
  <2>1. QED
    BY <1>2, BySizeFinds
<1> HIDE DEF p, w
<1>5. /\ w \in Works
      /\ NoneFound(w, N) \/ OneFound(w, N)
      /\ \A i \in 1 .. N : Reported(files[i].size) <= w.size
  BY <1>4 DEF FoundAmong
<1>6. priority' \in [DOMAIN files -> {DONT_DOWNLOAD, NORMAL}]
  <2>1. w \in Works
    BY <1>5
  <2>2. w.priorities \in [DOMAIN files -> {DONT_DOWNLOAD, NORMAL}]
    BY <2>1 DEF Works
  <2>3. QED
    BY <1>3, <2>2
<1>7. Named' = {} /\ Wanted' = {i \in 1 .. N : w.priorities[i] # DONT_DOWNLOAD}
  <2>1. {i \in DOMAIN files : files[i].name = name} = {}
    BY <1>3, MatchingLast
  <2>2. QED
    BY <1>1, <1>3, <2>1 DEF Named, Wanted
<1>8. CASE NoneFound(w, N)
  <2>1. Wanted' = {} /\ size' = -1
    BY <1>3, <1>7, <1>8 DEF NoneFound
  <2>2. OnlyReturnedWanted'
    BY <1>7, <2>1, FS_EmptySet DEF OnlyReturnedWanted
  <2>3. ~Fits(1)'
    <3>1. 1 \in 1 .. N /\ files[1].size \in Nat /\ Reported(files[1].size) <= -1
      BY <1>1, <1>5, <1>8 DEF NoneFound
    <3>2. ~(files[1].size <= LongMax)
      BY <3>1, ReportedSize
    <3>3. QED
      BY <3>2 DEF Fits
  <2>4. BiggestChosen'
    BY <1>1, <2>3 DEF BiggestChosen
  <2>5. QED
    BY <1>6, <2>2, <2>4
<1>9. CASE OneFound(w, N)
  <2> DEFINE b == w.biggest
  <2>1. /\ b \in 1 .. N /\ w.size = Reported(files[b].size)
        /\ \A i \in 1 .. b - 1 : Reported(files[i].size) < w.size
    BY <1>9 DEF OneFound
  <2>2. Wanted' = {b}
    BY <1>7, <1>9 DEF OneFound, NORMAL, DONT_DOWNLOAD
  <2>3. Cardinality({b}) = 1
    BY FS_Singleton
  <2> HIDE DEF b
  <2>4. location' = b /\ size' = w.size
    BY <1>3 DEF b
  <2>5. OnlyReturnedWanted'
    <3>1. location' \in Wanted' /\ size' = Reported(files'[location'].size)
      BY <2>1, <2>2, <2>4
    <3>2. Cardinality(Wanted') <= 1
      BY <2>2, <2>3
    <3>3. QED
      BY <1>7, <3>1, <3>2 DEF OnlyReturnedWanted
  <2>6. ASSUME \A i \in 1 .. N : files[i].size <= LongMax
        PROVE  /\ w.size = files[b].size
               /\ \A i \in 1 .. N : files[i].size <= w.size
               /\ \A i \in 1 .. b - 1 : files[i].size < w.size
    <3>1. \A i \in 1 .. N : Reported(files[i].size) = files[i].size
      BY <1>1, <2>6, ReportedSize
    <3>2. \A i \in 1 .. b - 1 : i \in 1 .. N
      BY <1>1, <2>1
    <3>3. QED
      BY <1>5, <2>1, <3>1, <3>2
  <2>7. BiggestChosen'
    BY <1>1, <2>4, <2>6 DEF BiggestChosen, Fits
  <2>8. QED
    BY <1>6, <2>5, <2>7
<1>10. QED
  BY <1>5, <1>8, <1>9

(* The file that is returned is one that is loaded, or it is refused;       *)
(* nothing else is loaded but the files of the name that is asked for, or   *)
(* the first of the biggest: for any files and sizes, any long and any      *)
(* calls before.                                                            *)
THEOREM RightFileIsWanted == FileSpec => []RightFileWanted
<1>1. FileInit => FileInv
  <2> SUFFICES ASSUME FileInit PROVE FileInv
    OBVIOUS
  <2>1. PICK n \in 0 .. MaxFiles : files \in [1 .. n -> File]
    BY DEF FileInit, SeqOf, File
  <2>2. n \in Nat
    BY <2>1, FileAssumption
  <2>3. files \in Seq(File) /\ files # <<>> /\ calls = 0
    BY <2>1, <2>2 DEF FileInit, Added
  <2>4. priority \in [DOMAIN files -> {DONT_DOWNLOAD, NORMAL}]
    BY DEF FileInit, Added
  <2>5. QED
    BY <2>3, <2>4 DEF FileInv, FileTypeOK, RightFileWanted
<1>2. FileInv /\ [Next]_vars => FileInv'
  <2> SUFFICES ASSUME FileInv, [Next]_vars PROVE FileInv'
    OBVIOUS
  <2>1. ASSUME NEW name, SetFilePriority(name) PROVE FileInv'
    <3>1. /\ files' = files /\ fileName' = name /\ calls' = calls + 1
          /\ ChooseByName(name) \/ ChooseBySize(name)
      BY <2>1 DEF SetFilePriority
    <3>2. FileTypeOK
      BY DEF FileInv
    <3>3. /\ priority' \in [DOMAIN files -> {DONT_DOWNLOAD, NORMAL}]
          /\ OnlyReturnedWanted' /\ BiggestChosen'
      BY <3>1, <3>2, ByNameWanted, BySizeWanted
    <3>4. FileTypeOK'
      BY <3>1, <3>2, <3>3 DEF FileTypeOK
    <3>5. QED
      BY <3>3, <3>4 DEF FileInv, RightFileWanted
  <2>2. CASE UNCHANGED vars
    BY <2>2 DEF vars, FileInv, FileTypeOK, RightFileWanted, OnlyReturnedWanted, BiggestChosen,
       Wanted, Named, Fits
  <2>3. QED
    BY <2>1, <2>2 DEF Next
<1>3. FileInv => RightFileWanted
  BY DEF FileInv
<1>4. QED
  BY <1>1, <1>2, <1>3, PTL DEF FileSpec

-----------------------------------------------------------------------------
(* A torrent file.                                                          *)

(* What f takes a call to, token by token.                                  *)
Reads(f, call, t, n) ==
    f[0] = call /\ \A k \in 1 .. n : f[k] = NextToken(f[k - 1], t[k])

(* Lemma: the decoder gets through any number of tokens, and so through all.*)
LEMMA AfterReads ==
  ASSUME NEW T, NEW t \in Seq(T), NEW call
  PROVE  \E f : Reads(f, call, t, Len(t)) /\ f[Len(t)] = After(call, t)
<1> DEFINE N == Len(t)
           Is(f, n) == f = [k \in 0 .. n |-> IF k = 0 THEN call ELSE NextToken(f[k - 1], t[k])]
           Reached == {n \in 0 .. N : \E f : Is(f, n)}
           upTo == CHOOSE f : Is(f, N)
<1>1. 0 \in Reached
  <2>1. Is([k \in 0 .. 0 |-> call], 0)
    OBVIOUS
  <2>2. \E f : Is(f, 0)
    BY <2>1
  <2>3. QED
    BY <2>2
<1>2. ASSUME NEW n \in 1 .. N, n - 1 \in Reached PROVE n \in Reached
  <2>1. PICK f : Is(f, n - 1)
    BY <1>2
  <2> DEFINE g == [k \in 0 .. n |-> IF k = n THEN NextToken(f[n - 1], t[n]) ELSE f[k]]
  <2>2. ASSUME NEW k \in 1 .. n PROVE g[k] = NextToken(g[k - 1], t[k])
    <3>1. k - 1 \in 0 .. n /\ k - 1 # n /\ g[k - 1] = f[k - 1]
      OBVIOUS
    <3>2. CASE k = n
      BY <3>1, <3>2
    <3>3. CASE k # n
      <4>1. k \in 0 .. (n - 1) /\ k # 0 /\ g[k] = f[k]
        BY <3>3
      <4>2. f[k] = NextToken(f[k - 1], t[k])
        BY <2>1, <4>1
      <4>3. QED
        BY <3>1, <4>1, <4>2
    <3>4. QED
      BY <3>2, <3>3
  <2>3. g[0] = call
    <3>1. f[0] = call /\ 0 \in 0 .. n /\ 0 # n
      BY <2>1
    <3>2. QED
      BY <3>1
  <2>4. g = [k \in 0 .. n |-> g[k]]
    OBVIOUS
  <2>5. Is(g, n)
    <3> HIDE DEF g
    <3>1. \A k \in 0 .. n : g[k] = IF k = 0 THEN call ELSE NextToken(g[k - 1], t[k])
      BY <2>2, <2>3
    <3>2. QED
      BY <2>4, <3>1
  <2>6. \E h : Is(h, n)
    BY <2>5
  <2>7. QED
    BY <2>6
<1>3. N \in Nat
  OBVIOUS
<1>4. N \in Reached
  <2> HIDE DEF Reached, N
  <2>1. \A n \in 0 .. N : n \in Reached
    BY <1>1, <1>2, <1>3, UpTo
  <2>2. QED
    BY <1>3, <2>1
<1>5. \E f : Is(f, N)
  BY <1>4
<1>6. Is(upTo, N)
  BY <1>5
<1>7. After(call, t) = upTo[N]
  BY DEF After
<1> HIDE DEF upTo
<1>8. Reads(upTo, call, t, N)
  <2>1. upTo[0] = call
    BY <1>3, <1>6
  <2>2. ASSUME NEW k \in 1 .. N PROVE upTo[k] = NextToken(upTo[k - 1], t[k])
    BY <1>3, <1>6
  <2>3. QED
    BY <2>1, <2>2 DEF Reads
<1>9. QED
  BY <1>7, <1>8

(* Lemma: there is one way to get through them.                             *)
LEMMA ReadsAfter ==
  ASSUME NEW T, NEW t \in Seq(T), NEW call, NEW f, Reads(f, call, t, Len(t))
  PROVE  f[Len(t)] = After(call, t)
<1> DEFINE N == Len(t)
<1>1. PICK g : Reads(g, call, t, N) /\ g[N] = After(call, t)
  BY AfterReads
<1> DEFINE Same == {k \in 0 .. N : f[k] = g[k]}
<1>2. N \in Nat
  OBVIOUS
<1>3. 0 \in Same
  BY <1>1, <1>2 DEF Reads
<1>4. ASSUME NEW k \in 1 .. N, k - 1 \in Same PROVE k \in Same
  <2>1. f[k - 1] = g[k - 1]
    BY <1>4
  <2>2. f[k] = NextToken(f[k - 1], t[k]) /\ g[k] = NextToken(g[k - 1], t[k])
    BY <1>1 DEF Reads
  <2>3. QED
    BY <2>1, <2>2
<1>5. N \in Same
  <2> HIDE DEF Same, N
  <2>1. \A k \in 0 .. N : k \in Same
    BY <1>2, <1>3, <1>4, UpTo
  <2>2. QED
    BY <1>2, <2>1
<1>6. QED
  BY <1>1, <1>5

(* Lemma: the tokens of two sequences are read one sequence after the other.*)
LEMMA AfterBoth ==
  ASSUME NEW T, NEW s \in Seq(T), NEW u \in Seq(T), NEW call
  PROVE  After(call, s \o u) = After(After(call, s), u)
<1> DEFINE m == Len(s)
           n == Len(u)
           t == s \o u
<1>1. /\ m \in Nat /\ n \in Nat /\ t \in Seq(T) /\ Len(t) = m + n
      /\ \A k \in 1 .. m : t[k] = s[k]
      /\ \A k \in 1 .. n : t[m + k] = u[k]
  OBVIOUS
<1> HIDE DEF t
<1>2. PICK f : Reads(f, call, t, m + n) /\ f[m + n] = After(call, t)
  BY <1>1, AfterReads
<1> HIDE DEF m, n
<1>3. Reads(f, call, s, m)
  <2>1. ASSUME NEW k \in 1 .. m PROVE f[k] = NextToken(f[k - 1], s[k])
    <3>1. k \in 1 .. (m + n)
      BY <1>1
    <3>2. QED
      BY <1>1, <1>2, <3>1 DEF Reads
  <2>2. QED
    BY <1>2, <2>1 DEF Reads
<1>4. f[m] = After(call, s)
  BY <1>3, ReadsAfter DEF m
<1> DEFINE g == [k \in 0 .. n |-> f[m + k]]
<1>5. Reads(g, f[m], u, n)
  <2>1. ASSUME NEW k \in 1 .. n PROVE g[k] = NextToken(g[k - 1], u[k])
    <3>1. m + k \in 1 .. (m + n) /\ k \in 0 .. n /\ k - 1 \in 0 .. n
          /\ (m + k) - 1 = m + (k - 1)
      BY <1>1
    <3>2. f[m + k] = NextToken(f[(m + k) - 1], t[m + k])
      BY <1>2, <3>1 DEF Reads
    <3>3. g[k] = f[m + k] /\ g[k - 1] = f[m + (k - 1)]
      BY <3>1
    <3>4. t[m + k] = u[k]
      BY <1>1
    <3>5. QED
      BY <3>1, <3>2, <3>3, <3>4
  <2>2. g[0] = f[m]
    <3>1. 0 \in 0 .. n /\ m + 0 = m
      BY <1>1
    <3>2. QED
      BY <3>1
  <2>3. QED
    BY <2>1, <2>2 DEF Reads
<1>6. g[n] = f[m + n]
  BY <1>1
<1> HIDE DEF g
<1>7. g[n] = After(f[m], u)
  BY <1>5, ReadsAfter DEF n
<1>8. QED
  BY <1>2, <1>4, <1>6, <1>7 DEF t

(* Lemma: no token leaves a call where it is, and one takes it a step.      *)
LEMMA AfterFew ==
  ASSUME NEW call, NEW c
  PROVE  After(call, <<>>) = call /\ After(call, <<c>>) = NextToken(call, c)
<1>1. <<>> \in Seq({c}) /\ Len(<<>>) = 0 /\ <<c>> \in Seq({c}) /\ Len(<<c>>) = 1 /\ <<c>>[1] = c
  OBVIOUS
<1>2. PICK f : Reads(f, call, <<>>, 0) /\ f[0] = After(call, <<>>)
  BY <1>1, AfterReads
<1>3. PICK g : Reads(g, call, <<c>>, 1) /\ g[1] = After(call, <<c>>)
  BY <1>1, AfterReads
<1>4. g[1] = NextToken(g[0], c)
  <2>1. 1 \in 1 .. 1 /\ 1 - 1 = 0
    OBVIOUS
  <2>2. g[1] = NextToken(g[1 - 1], <<c>>[1])
    BY <1>3, <2>1 DEF Reads
  <2>3. QED
    BY <1>1, <2>1, <2>2
<1>5. QED
  BY <1>2, <1>3, <1>4 DEF Reads

(* Lemma: a token is read before the ones that follow it.                   *)
LEMMA AfterFirst ==
  ASSUME NEW T, NEW c \in T, NEW u \in Seq(T), NEW call
  PROVE  After(call, <<c>> \o u) = After(NextToken(call, c), u)
<1>1. <<c>> \in Seq(T)
  OBVIOUS
<1>2. After(call, <<c>> \o u) = After(After(call, <<c>>), u)
  BY <1>1, AfterBoth
<1>3. After(call, <<c>>) = NextToken(call, c)
  BY AfterFew
<1>4. QED
  BY <1>2, <1>3

(* Lemma: nothing is read after the end.                                    *)
LEMMA AfterEnd ==
  ASSUME NEW T, NEW t \in Seq(T), NEW call, call.is \in {"value", "exception"}
  PROVE  After(call, t) = call
<1>1. Reads([k \in 0 .. Len(t) |-> call], call, t, Len(t))
  <2>1. NextToken(call, t) = call /\ \A c : NextToken(call, c) = call
    BY DEF NextToken
  <2>2. QED
    BY <2>1 DEF Reads
<1>2. QED
  BY <1>1, ReadsAfter

-----------------------------------------------------------------------------
(* The tokens of a file, one after the other.                               *)

(* Lemma: two tokens take a call two steps.                              *)
LEMMA AfterTwo ==
  ASSUME NEW call, NEW a, NEW b
  PROVE  After(call, <<a, b>>) = NextToken(NextToken(call, a), b)
<1> DEFINE t == <<a, b>>
<1>1. t \in Seq({a, b}) /\ Len(t) = 2
  OBVIOUS
<1>2. t[1] = a /\ t[2] = b
  OBVIOUS
<1> HIDE DEF t
<1>3. PICK f : Reads(f, call, t, 2) /\ f[2] = After(call, t)
  BY <1>1, AfterReads
<1>4. f[1] = NextToken(f[0], t[1])
  BY <1>3 DEF Reads
<1>5. f[2] = NextToken(f[1], t[2])
  BY <1>3 DEF Reads
<1>6. f[0] = call
  BY <1>3 DEF Reads
<1>7. QED
  BY <1>2, <1>3, <1>4, <1>5, <1>6 DEF t

(* Lemma: four tokens take a call four steps.                            *)
LEMMA AfterFour ==
  ASSUME NEW call, NEW a, NEW b, NEW c, NEW d
  PROVE  After(call, <<a, b, c, d>>) = NextToken(NextToken(NextToken(NextToken(call, a), b), c), d)
<1> DEFINE t == <<a, b, c, d>>
<1>1. t \in Seq({a, b, c, d}) /\ Len(t) = 4
  OBVIOUS
<1>2. t[1] = a /\ t[2] = b /\ t[3] = c /\ t[4] = d
  OBVIOUS
<1> HIDE DEF t
<1>3. PICK f : Reads(f, call, t, 4) /\ f[4] = After(call, t)
  BY <1>1, AfterReads
<1>4. f[1] = NextToken(f[0], t[1])
  BY <1>3 DEF Reads
<1>5. f[2] = NextToken(f[1], t[2])
  BY <1>3 DEF Reads
<1>6. f[3] = NextToken(f[2], t[3])
  BY <1>3 DEF Reads
<1>7. f[4] = NextToken(f[3], t[4])
  BY <1>3 DEF Reads
<1>8. f[0] = call
  BY <1>3 DEF Reads
<1>9. QED
  BY <1>2, <1>3, <1>4, <1>5, <1>6, <1>7, <1>8 DEF t

(* Lemma: five tokens take a call five steps.                            *)
LEMMA AfterFive ==
  ASSUME NEW call, NEW a, NEW b, NEW c, NEW d, NEW e
  PROVE  After(call, <<a, b, c, d, e>>) =
             NextToken(NextToken(NextToken(NextToken(NextToken(call, a), b), c), d), e)
<1> DEFINE t == <<a, b, c, d, e>>
<1>1. t \in Seq({a, b, c, d, e}) /\ Len(t) = 5
  OBVIOUS
<1>2. t[1] = a /\ t[2] = b /\ t[3] = c /\ t[4] = d /\ t[5] = e
  OBVIOUS
<1> HIDE DEF t
<1>3. PICK f : Reads(f, call, t, 5) /\ f[5] = After(call, t)
  BY <1>1, AfterReads
<1>4. f[1] = NextToken(f[0], t[1])
  BY <1>3 DEF Reads
<1>5. f[2] = NextToken(f[1], t[2])
  BY <1>3 DEF Reads
<1>6. f[3] = NextToken(f[2], t[3])
  BY <1>3 DEF Reads
<1>7. f[4] = NextToken(f[3], t[4])
  BY <1>3 DEF Reads
<1>8. f[5] = NextToken(f[4], t[5])
  BY <1>3 DEF Reads
<1>9. f[0] = call
  BY <1>3 DEF Reads
<1>10. QED
  BY <1>2, <1>3, <1>4, <1>5, <1>6, <1>7, <1>8, <1>9 DEF t

ListOf(items)     == [is |-> "list", items |-> items]
DictionaryOf(map) == [is |-> "dictionary", map |-> map]

(* Lemma: the fields of the tokens.                                         *)
LEMMA TokenFields ==
  ASSUME NEW token
  PROVE  /\ \A c : token = Symbol(c) => token.is = c
         /\ \A s : token = Text(s) => token.is = "string" /\ token.text = s
         /\ \A n : token = Number(n) => token.is = "number"
BY DEF Symbol, Text, Number

(* Lemma: what each kind of call does with a value.                         *)
LEMMA Returns ==
  ASSUME NEW v, NEW map, NEW key, NEW items, NEW caller
  PROVE  /\ Returned(v, DecodeList(items, caller)) = DecodeList(Append(items, v), caller)
         /\ Returned(v, DecodeValue(map, key, caller)) =
                DecodeDictionary(Put(map, key, v), caller)
         /\ Returned(v, Whole) = Read(v)
<1>1. ASSUME NEW call, call.is = "list", call.items = items, call.caller = caller
      PROVE  Returned(v, call) = DecodeList(Append(items, v), caller)
  BY <1>1 DEF Returned
<1>2. ASSUME NEW call, call.is = "value of", call.map = map, call.key = key, call.caller = caller
      PROVE  Returned(v, call) = DecodeDictionary(Put(map, key, v), caller)
  BY <1>2 DEF Returned
<1>3. ASSUME NEW call, call.is = "whole file" PROVE Returned(v, call) = Read(v)
  BY <1>3 DEF Returned
<1> DEFINE c1 == DecodeList(items, caller)
           c2 == DecodeValue(map, key, caller)
<1>4. c1.is = "list" /\ c1.items = items /\ c1.caller = caller
  BY DEF DecodeList
<1>5. c2.is = "value of" /\ c2.map = map /\ c2.key = key /\ c2.caller = caller
  BY DEF DecodeValue
<1>6. Whole.is = "whole file"
  BY DEF Whole
<1> HIDE DEF c1, c2
<1>7. Returned(v, c1) = DecodeList(Append(items, v), caller)
  BY <1>1, <1>4
<1>8. Returned(v, c2) = DecodeDictionary(Put(map, key, v), caller)
  BY <1>2, <1>5
<1>9. Returned(v, Whole) = Read(v)
  BY <1>3, <1>6, Zenon
<1>10. QED
  BY <1>7, <1>8, <1>9 DEF c1, c2

(* A value can begin.                                                       *)
ForValue(call) == call.is \in {"list", "value of", "whole file"}

(* Lemma: where a value can begin, one does, or is there.                   *)
LEMMA ValueBegins ==
  ASSUME NEW call, ForValue(call)
  PROVE  /\ NextToken(call, Symbol("d")) = DecodeDictionary(<<>>, call)
         /\ NextToken(call, Symbol("l")) = DecodeList(<<>>, call)
         /\ \A n : NextToken(call, Number(n)) = Returned(Number(n), call)
         /\ NextToken(call, Text(NoName)) = Exception
         /\ \A s : s # NoName => NextToken(call, Text(s)) = Returned(Text(s), call)
<1>1. ASSUME NEW c, c.is # "e" PROVE NextToken(call, c) = Decode(c, call)
  BY <1>1 DEF NextToken, ForValue
<1>2. ASSUME NEW c, c.is = "d" PROVE Decode(c, call) = DecodeDictionary(<<>>, call)
  BY <1>2 DEF Decode
<1>3. ASSUME NEW c, c.is = "l" PROVE Decode(c, call) = DecodeList(<<>>, call)
  BY <1>3 DEF Decode
<1>4. ASSUME NEW c, c.is = "number" PROVE Decode(c, call) = Returned(c, call)
  BY <1>4 DEF Decode
<1>5. ASSUME NEW c, NEW s, c.is = "string", c.text = s
      PROVE  Decode(c, call) = IF s = NoName THEN Exception ELSE Returned(c, call)
  BY <1>5 DEF Decode
<1>6. NextToken(call, Symbol("d")) = DecodeDictionary(<<>>, call)
  <2> DEFINE c == Symbol("d")
  <2>1. c.is = "d" /\ c.is # "e"
    BY TokenFields
  <2> HIDE DEF c
  <2>2. NextToken(call, c) = DecodeDictionary(<<>>, call)
    BY <1>1, <1>2, <2>1
  <2>3. QED
    BY <2>2 DEF c
<1>7. NextToken(call, Symbol("l")) = DecodeList(<<>>, call)
  <2> DEFINE c == Symbol("l")
  <2>1. c.is = "l" /\ c.is # "e"
    BY TokenFields
  <2> HIDE DEF c
  <2>2. NextToken(call, c) = DecodeList(<<>>, call)
    BY <1>1, <1>3, <2>1
  <2>3. QED
    BY <2>2 DEF c
<1>8. ASSUME NEW n PROVE NextToken(call, Number(n)) = Returned(Number(n), call)
  <2> DEFINE c == Number(n)
  <2>1. c.is = "number" /\ c.is # "e"
    BY TokenFields
  <2> HIDE DEF c
  <2>2. NextToken(call, c) = Returned(c, call)
    BY <1>1, <1>4, <2>1
  <2>3. QED
    BY <2>2 DEF c
<1>9. ASSUME NEW s
      PROVE  NextToken(call, Text(s)) = IF s = NoName THEN Exception ELSE Returned(Text(s), call)
  <2> DEFINE c == Text(s)
  <2>1. c.is = "string" /\ c.text = s /\ c.is # "e"
    BY TokenFields
  <2> HIDE DEF c
  <2>2. NextToken(call, c) = IF s = NoName THEN Exception ELSE Returned(c, call)
    BY <1>1, <1>5, <2>1
  <2>3. QED
    BY <2>2 DEF c
<1>10. QED
  BY <1>6, <1>7, <1>8, <1>9

(* Lemma: so it is at the value of a key.                                   *)
LEMMA ValueSteps ==
  ASSUME NEW map, NEW key, NEW caller
  PROVE  LET call == DecodeValue(map, key, caller) IN
         /\ NextToken(call, Symbol("d")) = DecodeDictionary(<<>>, call)
         /\ NextToken(call, Symbol("l")) = DecodeList(<<>>, call)
         /\ \A n : NextToken(call, Number(n)) = DecodeDictionary(Put(map, key, Number(n)), caller)
         /\ NextToken(call, Text(NoName)) = Exception
         /\ \A s : s # NoName =>
                NextToken(call, Text(s)) = DecodeDictionary(Put(map, key, Text(s)), caller)
<1> DEFINE call == DecodeValue(map, key, caller)
<1>1. call.is = "value of"
  BY DEF DecodeValue
<1> HIDE DEF call
<1>2. \A v : Returned(v, call) = DecodeDictionary(Put(map, key, v), caller)
  BY Returns DEF call
<1>3. ForValue(call)
  BY <1>1 DEF ForValue
<1>4. /\ NextToken(call, Symbol("d")) = DecodeDictionary(<<>>, call)
      /\ NextToken(call, Symbol("l")) = DecodeList(<<>>, call)
      /\ \A n : NextToken(call, Number(n)) = Returned(Number(n), call)
      /\ NextToken(call, Text(NoName)) = Exception
      /\ \A s : s # NoName => NextToken(call, Text(s)) = Returned(Text(s), call)
  BY <1>3, ValueBegins
<1>5. \A n : NextToken(call, Number(n)) = DecodeDictionary(Put(map, key, Number(n)), caller)
  BY <1>2, <1>4
<1>6. \A s : s # NoName =>
          NextToken(call, Text(s)) = DecodeDictionary(Put(map, key, Text(s)), caller)
  BY <1>2, <1>4
<1>7. QED
  BY <1>4, <1>5, <1>6, Zenon DEF call

(* Lemma: a list gets an item, or is ended.                                 *)
LEMMA ListSteps ==
  ASSUME NEW items, NEW caller
  PROVE  LET call == DecodeList(items, caller) IN
         /\ NextToken(call, Symbol("d")) = DecodeDictionary(<<>>, call)
         /\ \A s : s # NoName =>
                NextToken(call, Text(s)) = DecodeList(Append(items, Text(s)), caller)
         /\ NextToken(call, Symbol("e")) = Returned(ListOf(items), caller)
<1> DEFINE call == DecodeList(items, caller)
<1>1. call.is = "list" /\ call.items = items /\ call.caller = caller
  BY DEF DecodeList
<1> HIDE DEF call
<1>2. \A v : Returned(v, call) = DecodeList(Append(items, v), caller)
  BY Returns DEF call
<1>3. Decoded(call) = ListOf(items)
  BY <1>1 DEF Decoded, ListOf
<1>4. ASSUME NEW c, c.is = "e" PROVE NextToken(call, c) = Returned(Decoded(call), caller)
  BY <1>1, <1>4 DEF NextToken
<1>5. NextToken(call, Symbol("e")) = Returned(ListOf(items), caller)
  <2> DEFINE c == Symbol("e")
  <2>1. c.is = "e"
    BY TokenFields
  <2> HIDE DEF c
  <2>2. NextToken(call, c) = Returned(ListOf(items), caller)
    BY <1>3, <1>4, <2>1
  <2>3. QED
    BY <2>2 DEF c
<1>6. ForValue(call)
  BY <1>1 DEF ForValue
<1>7. /\ NextToken(call, Symbol("d")) = DecodeDictionary(<<>>, call)
      /\ NextToken(call, Text(NoName)) = Exception
      /\ \A s : s # NoName => NextToken(call, Text(s)) = Returned(Text(s), call)
  BY <1>6, ValueBegins
<1>8. \A s : s # NoName => NextToken(call, Text(s)) = DecodeList(Append(items, Text(s)), caller)
  BY <1>2, <1>7
<1>9. QED
  BY <1>5, <1>7, <1>8, Zenon DEF call

(* Lemma: a dictionary reads a key, or is ended.                            *)
LEMMA DictionarySteps ==
  ASSUME NEW map, NEW caller
  PROVE  LET call == DecodeDictionary(map, caller) IN
         /\ \A s : NextToken(call, Text(s)) = DecodeValue(map, s, caller)
         /\ NextToken(call, Symbol("e")) = Returned(DictionaryOf(map), caller)
<1> DEFINE call == DecodeDictionary(map, caller)
<1>1. call.is = "dictionary" /\ call.map = map /\ call.caller = caller
  BY DEF DecodeDictionary
<1> HIDE DEF call
<1>2. Decoded(call) = DictionaryOf(map)
  BY <1>1 DEF Decoded, DictionaryOf
<1>3. ASSUME NEW c, c.is = "e" PROVE NextToken(call, c) = Returned(Decoded(call), caller)
  BY <1>1, <1>3 DEF NextToken
<1>4. ASSUME NEW c, NEW s, c.is = "string", c.text = s
      PROVE  NextToken(call, c) = DecodeValue(map, s, caller)
  BY <1>1, <1>4 DEF NextToken
<1>5. NextToken(call, Symbol("e")) = Returned(DictionaryOf(map), caller)
  <2> DEFINE c == Symbol("e")
  <2>1. c.is = "e"
    BY TokenFields
  <2> HIDE DEF c
  <2>2. NextToken(call, c) = Returned(DictionaryOf(map), caller)
    BY <1>2, <1>3, <2>1
  <2>3. QED
    BY <2>2 DEF c
<1>6. ASSUME NEW s PROVE NextToken(call, Text(s)) = DecodeValue(map, s, caller)
  <2> DEFINE c == Text(s)
  <2>1. c.is = "string" /\ c.text = s
    BY TokenFields
  <2> HIDE DEF c
  <2>2. NextToken(call, c) = DecodeValue(map, s, caller)
    BY <1>4, <2>1
  <2>3. QED
    BY <2>2 DEF c
<1>7. QED
  BY <1>5, <1>6 DEF call

-----------------------------------------------------------------------------
(* What is read of a file that was written.                                 *)

Words  == {"text", "comment", "info", "length", "path", "files", "name", "folder"}
Tokens == {Symbol(c) : c \in {"d", "l", "e"}} \cup {Text(s) : s \in Parts \cup Words \cup {NoName}}
              \cup {Number(n) : n \in Nat}

TextsOf(path) == [k \in DOMAIN path |-> Text(path[k])]

ValueOfFile(f) ==
    DictionaryOf(Put(Put(<<>>, "length", Number(f.size)), "path", ListOf(TextsOf(f.path))))

(* Lemma: what is written of a word, a name or a number is a token.         *)
LEMMA TokensAre ==
  /\ Symbol("d") \in Tokens /\ Symbol("l") \in Tokens /\ Symbol("e") \in Tokens
  /\ \A s \in Parts \cup Words \cup {NoName} : Text(s) \in Tokens
  /\ \A n \in Nat : Number(n) \in Tokens
BY DEF Tokens

(* Lemma: the texts of a path are as many tokens.                           *)
LEMMA TextsAre ==
  ASSUME NEW path \in Seq(Parts)
  PROVE  /\ TextsOf(path) \in Seq(Tokens) /\ Len(TextsOf(path)) = Len(path)
         /\ \A k \in 1 .. Len(path) : TextsOf(path)[k] = Text(path[k])
<1>1. Len(path) \in Nat /\ DOMAIN path = 1 .. Len(path)
      /\ \A k \in 1 .. Len(path) : path[k] \in Parts
  OBVIOUS
<1>2. \A k \in 1 .. Len(path) : Text(path[k]) \in Tokens
  BY <1>1, TokensAre
<1>3. TextsOf(path) \in [1 .. Len(path) -> Tokens]
      /\ \A k \in 1 .. Len(path) : TextsOf(path)[k] = Text(path[k])
  BY <1>1, <1>2 DEF TextsOf
<1>4. QED
  BY <1>1, <1>3, SequenceOf

(* Lemma: a list of texts is read item by item.                             *)
LEMMA PathRead ==
  ASSUME NEW path \in Seq(Parts), NoName \notin Parts, NEW caller
  PROVE  After(DecodeList(<<>>, caller), TextsOf(path)) = DecodeList(TextsOf(path), caller)
<1> DEFINE t == TextsOf(path)
           n == Len(t)
           f == [k \in 0 .. n |-> DecodeList(SubSeq(t, 1, k), caller)]
<1>1. t \in Seq(Tokens) /\ n \in Nat /\ \A k \in 1 .. n : t[k] = Text(path[k]) /\ path[k] \in Parts
  BY TextsAre
<1> HIDE DEF t
<1>2. SubSeq(t, 1, 0) = <<>> /\ SubSeq(t, 1, n) = t
  BY <1>1
<1>3. \A k \in 1 .. n : SubSeq(t, 1, k) = Append(SubSeq(t, 1, k - 1), t[k])
  BY <1>1
<1>4. ASSUME NEW k \in 1 .. n PROVE f[k] = NextToken(f[k - 1], t[k])
  <2> DEFINE before == DecodeList(SubSeq(t, 1, k - 1), caller)
  <2>1. f[k - 1] = before /\ f[k] = DecodeList(SubSeq(t, 1, k), caller)
    BY <1>1
  <2>2. path[k] # NoName /\ t[k] = Text(path[k])
    BY <1>1
  <2>3. NextToken(before, t[k]) = DecodeList(Append(SubSeq(t, 1, k - 1), t[k]), caller)
    BY <2>2, ListSteps
  <2> HIDE DEF before
  <2>4. QED
    BY <1>3, <2>1, <2>3
<1>5. f[0] = DecodeList(<<>>, caller) /\ f[n] = DecodeList(t, caller)
  <2>1. f[0] = DecodeList(SubSeq(t, 1, 0), caller) /\ f[n] = DecodeList(SubSeq(t, 1, n), caller)
    BY <1>1
  <2> HIDE DEF f, n
  <2>2. QED
    BY <1>2, <2>1
<1> HIDE DEF f
<1>6. Reads(f, DecodeList(<<>>, caller), t, n)
  BY <1>4, <1>5 DEF Reads
<1>7. f[n] = After(DecodeList(<<>>, caller), t)
  BY <1>1, <1>6, ReadsAfter
<1>8. QED
  BY <1>5, <1>7 DEF t

FilesHeld == [path : Seq(Parts), size : Nat]

(* Lemma: a file is read as one more item of the list of files.             *)
LEMMA FileRead ==
  ASSUME NEW f \in FilesHeld, NoName \notin Parts, NEW items, NEW caller
  PROVE  /\ WriteFile(f) \in Seq(Tokens)
         /\ After(DecodeList(items, caller), WriteFile(f)) =
                DecodeList(Append(items, ValueOfFile(f)), caller)
<1> DEFINE first == <<Symbol("d"), Text("length"), Number(f.size), Text("path"), Symbol("l")>>
           texts == TextsOf(f.path)
           last  == <<Symbol("e"), Symbol("e")>>
           c0 == DecodeList(items, caller)
           m1 == Put(<<>>, "length", Number(f.size))
           c4 == DecodeValue(m1, "path", c0)
           m2 == Put(m1, "path", ListOf(texts))
<1>1. f.path \in Seq(Parts) /\ f.size \in Nat
  BY DEF FilesHeld
<1>2. /\ Symbol("d") \in Tokens /\ Text("length") \in Tokens /\ Number(f.size) \in Tokens
      /\ Text("path") \in Tokens /\ Symbol("l") \in Tokens /\ Symbol("e") \in Tokens
  BY <1>1, TokensAre DEF Words
<1>3. first \in Seq(Tokens) /\ last \in Seq(Tokens)
  BY <1>2
<1>4. texts \in Seq(Tokens)
  BY <1>1, TextsAre
<1>5. WriteFile(f) = (first \o texts) \o last
  BY DEF WriteFile, TextsOf
<1>6. After(c0, first) = DecodeList(<<>>, c4)
  <2>1. NextToken(c0, Symbol("d")) = DecodeDictionary(<<>>, c0)
    BY ListSteps
  <2>2. NextToken(DecodeDictionary(<<>>, c0), Text("length")) = DecodeValue(<<>>, "length", c0)
    BY DictionarySteps
  <2>3. NextToken(DecodeValue(<<>>, "length", c0), Number(f.size)) = DecodeDictionary(m1, c0)
    BY ValueSteps
  <2>4. NextToken(DecodeDictionary(m1, c0), Text("path")) = c4
    BY DictionarySteps
  <2>5. NextToken(c4, Symbol("l")) = DecodeList(<<>>, c4)
    BY ValueSteps
  <2> HIDE DEF c0, m1, c4
  <2>6. After(c0, first) =
            NextToken(NextToken(NextToken(NextToken(NextToken(c0, Symbol("d")),
                Text("length")), Number(f.size)), Text("path")), Symbol("l"))
    BY AfterFive
  <2>7. QED
    BY <2>1, <2>2, <2>3, <2>4, <2>5, <2>6, Zenon
<1>7. After(DecodeList(<<>>, c4), texts) = DecodeList(texts, c4)
  BY <1>1, PathRead
<1>8. After(DecodeList(texts, c4), last) = DecodeList(Append(items, ValueOfFile(f)), caller)
  <2>1. NextToken(DecodeList(texts, c4), Symbol("e")) = DecodeDictionary(m2, c0)
    <3> HIDE DEF c0, m1, texts
    <3>1. \A v : Returned(v, c4) = DecodeDictionary(Put(m1, "path", v), c0)
      BY Returns
    <3> HIDE DEF c4
    <3>2. NextToken(DecodeList(texts, c4), Symbol("e")) = Returned(ListOf(texts), c4)
      BY ListSteps
    <3>3. QED
      BY <3>1, <3>2, Zenon
  <2>2. NextToken(DecodeDictionary(m2, c0), Symbol("e")) =
            DecodeList(Append(items, DictionaryOf(m2)), caller)
    <3>1. NextToken(DecodeDictionary(m2, c0), Symbol("e")) = Returned(DictionaryOf(m2), c0)
      BY DictionarySteps
    <3>2. \A v : Returned(v, c0) = DecodeList(Append(items, v), caller)
      BY Returns
    <3> HIDE DEF c0, m2
    <3>3. QED
      BY <3>1, <3>2, Zenon
  <2>3. ValueOfFile(f) = DictionaryOf(m2)
    BY DEF ValueOfFile
  <2> HIDE DEF c0, m2, c4
  <2>4. After(DecodeList(texts, c4), last) =
            NextToken(NextToken(DecodeList(texts, c4), Symbol("e")), Symbol("e"))
    BY AfterTwo
  <2>5. QED
    BY <2>1, <2>2, <2>3, <2>4, Zenon
<1> HIDE DEF first, texts, last, c0, c4
<1>9. first \o texts \in Seq(Tokens)
  BY <1>3, <1>4
<1>10. WriteFile(f) \in Seq(Tokens)
  BY <1>3, <1>5, <1>9
<1>11. After(c0, WriteFile(f)) = After(After(After(c0, first), texts), last)
  <2>1. After(c0, (first \o texts) \o last) = After(After(c0, first \o texts), last)
    BY <1>3, <1>9, AfterBoth
  <2>2. After(c0, first \o texts) = After(After(c0, first), texts)
    BY <1>3, <1>4, AfterBoth
  <2>3. QED
    BY <1>5, <2>1, <2>2
<1>12. QED
  BY <1>6, <1>7, <1>8, <1>10, <1>11 DEF c0

(* Lemma: three tokens take a call three steps.                             *)
LEMMA AfterThree ==
  ASSUME NEW call, NEW a, NEW b, NEW c
  PROVE  After(call, <<a, b, c>>) = NextToken(NextToken(NextToken(call, a), b), c)
<1> DEFINE t == <<a, b, c>>
<1>1. t \in Seq({a, b, c}) /\ Len(t) = 3
  OBVIOUS
<1>2. t[1] = a /\ t[2] = b /\ t[3] = c
  OBVIOUS
<1> HIDE DEF t
<1>3. PICK f : Reads(f, call, t, 3) /\ f[3] = After(call, t)
  BY <1>1, AfterReads
<1>4. f[1] = NextToken(f[0], t[1])
  BY <1>3 DEF Reads
<1>5. f[2] = NextToken(f[1], t[2])
  BY <1>3 DEF Reads
<1>6. f[3] = NextToken(f[2], t[3])
  BY <1>3 DEF Reads
<1>7. f[0] = call
  BY <1>3 DEF Reads
<1>8. QED
  BY <1>2, <1>3, <1>4, <1>5, <1>6, <1>7 DEF t

(* Lemma: the tokens of the files follow each other.                        *)
LEMMA FilesWritten ==
  ASSUME NEW t, t.files \in Seq(FilesHeld), NoName \notin Parts
  PROVE  \E w : /\ w \in [0 .. Len(t.files) -> Seq(Tokens)] /\ w[0] = <<>>
                /\ \A k \in 1 .. Len(t.files) : w[k] = w[k - 1] \o WriteFile(t.files[k])
                /\ WriteFiles(t) = w[Len(t.files)]
<1> DEFINE N == Len(t.files)
           S == Seq(Tokens)
           Step(w, k) == w \o WriteFile(t.files[k])
           step == [p \in S \X (1 .. N) |-> Step(p[1], p[2])]
           Is(w) == w = [k \in 0 .. N |-> IF k = 0 THEN <<>> ELSE Step(w[k - 1], k)]
           upTo == CHOOSE w : Is(w)
<1>1. N \in Nat /\ <<>> \in S /\ \A k \in 1 .. N : t.files[k] \in FilesHeld
  OBVIOUS
<1>2. ASSUME NEW w \in S, NEW k \in 1 .. N PROVE Step(w, k) \in S
  <2>1. WriteFile(t.files[k]) \in S
    BY <1>1, FileRead
  <2>2. QED
    BY <2>1
<1>3. step \in Steps(S, N)
  BY <1>2 DEF Steps
<1>4. \A w \in S : \A k \in 1 .. N : step[<<w, k>>] = Step(w, k)
  OBVIOUS
<1>5. PICK w : Repeats(w, N, S, <<>>, step)
  <2> HIDE DEF N, S, step
  <2>1. QED
    BY <1>1, <1>3, Recursion
<1>6. ASSUME NEW k \in 1 .. N PROVE w[k] = Step(w[k - 1], k)
  <2> HIDE DEF N, S, step, Step
  <2>1. k - 1 \in 0 .. N /\ w[k - 1] \in S
    BY <1>1, <1>5 DEF Repeats
  <2>2. QED
    BY <1>4, <1>5, <2>1 DEF Repeats
<1>7. w \in [0 .. N -> S] /\ w[0] = <<>>
  <2> HIDE DEF N, S, step
  <2>1. QED
    BY <1>5 DEF Repeats
<1> HIDE DEF Step
<1>8. Is(w)
  BY <1>1, <1>6, <1>7
<1>9. Is(upTo)
  BY <1>8
<1>10. WriteFiles(t) = upTo[N]
  BY DEF WriteFiles, Step
<1>11. upTo \in [0 .. N -> S] /\ upTo[0] = <<>>
       /\ \A k \in 1 .. N : upTo[k] = Step(upTo[k - 1], k)
  <2> HIDE DEF upTo, S, N
  <2>1. /\ upTo = [k \in 0 .. N |-> IF k = 0 THEN <<>> ELSE Step(upTo[k - 1], k)]
        /\ DOMAIN upTo = 0 .. N
    BY <1>9
  <2>2. upTo[0] = <<>>
    BY <1>1, <2>1
  <2>3. ASSUME NEW k \in 1 .. N PROVE upTo[k] = Step(upTo[k - 1], k)
    BY <1>1, <2>1
  <2> DEFINE Typed == {k \in 0 .. N : upTo[k] \in S}
  <2>4. 0 \in Typed
    BY <1>1, <2>2
  <2>5. ASSUME NEW k \in 1 .. N, k - 1 \in Typed PROVE k \in Typed
    BY <1>2, <2>3, <2>5
  <2>6. \A k \in 0 .. N : k \in Typed
    <3> HIDE DEF Typed
    <3>1. QED
      BY <1>1, <2>4, <2>5, UpTo
  <2>7. \A k \in 0 .. N : upTo[k] \in S
    BY <2>6
  <2>8. upTo \in [0 .. N -> S]
    BY <2>1, <2>7
  <2>9. QED
    BY <2>2, <2>3, <2>8
<1> HIDE DEF upTo
<1>12. QED
  BY <1>10, <1>11 DEF Step

ValuesOf(t) == [i \in DOMAIN t.files |-> ValueOfFile(t.files[i])]

(* Lemma: a list of files is read item by item.                             *)
LEMMA FilesRead ==
  ASSUME NEW t, t.files \in Seq(FilesHeld), NoName \notin Parts, NEW caller
  PROVE  /\ WriteFiles(t) \in Seq(Tokens)
         /\ After(DecodeList(<<>>, caller), WriteFiles(t)) = DecodeList(ValuesOf(t), caller)
<1> DEFINE N == Len(t.files)
           v == ValuesOf(t)
           V == {v[k] : k \in 1 .. N}
           call == DecodeList(<<>>, caller)
<1>1. N \in Nat /\ DOMAIN t.files = 1 .. N /\ \A k \in 1 .. N : t.files[k] \in FilesHeld
  OBVIOUS
<1>2. v \in Seq(V) /\ Len(v) = N /\ \A k \in 1 .. N : v[k] = ValueOfFile(t.files[k])
  <2>1. v \in [1 .. N -> V] /\ \A k \in 1 .. N : v[k] = ValueOfFile(t.files[k])
    BY <1>1 DEF ValuesOf
  <2> HIDE DEF v, V
  <2>2. QED
    BY <1>1, <2>1, SequenceOf
<1> HIDE DEF v, V
<1>3. SubSeq(v, 1, 0) = <<>> /\ SubSeq(v, 1, N) = v
  <2> HIDE DEF N
  <2>1. QED
    BY <1>1, <1>2
<1>4. \A k \in 1 .. N : SubSeq(v, 1, k) = Append(SubSeq(v, 1, k - 1), v[k])
  <2> HIDE DEF N
  <2>1. QED
    BY <1>1, <1>2
<1>5. PICK w : /\ w \in [0 .. N -> Seq(Tokens)] /\ w[0] = <<>>
               /\ \A k \in 1 .. N : w[k] = w[k - 1] \o WriteFile(t.files[k])
               /\ WriteFiles(t) = w[N]
  BY FilesWritten
<1> DEFINE Done == {k \in 0 .. N : After(call, w[k]) = DecodeList(SubSeq(v, 1, k), caller)}
<1>6. 0 \in Done
  <2> HIDE DEF N, call
  <2>1. After(call, <<>>) = call
    BY AfterFew
  <2>2. After(call, w[0]) = DecodeList(SubSeq(v, 1, 0), caller)
    BY <1>3, <1>5, <2>1 DEF call
  <2>3. QED
    BY <1>1, <2>2
<1>7. ASSUME NEW k \in 1 .. N, k - 1 \in Done PROVE k \in Done
  <2> DEFINE f == t.files[k]
             before == SubSeq(v, 1, k - 1)
  <2>1. f \in FilesHeld /\ k - 1 \in 0 .. N
    BY <1>1
  <2>2. w[k - 1] \in Seq(Tokens) /\ w[k] = w[k - 1] \o WriteFile(f)
    BY <1>5, <2>1
  <2>3. After(call, w[k - 1]) = DecodeList(before, caller)
    BY <1>7
  <2> HIDE DEF f, before, call, N
  <2>4. /\ WriteFile(f) \in Seq(Tokens)
        /\ After(DecodeList(before, caller), WriteFile(f)) =
               DecodeList(Append(before, ValueOfFile(f)), caller)
    BY <2>1, FileRead
  <2>5. After(call, w[k - 1] \o WriteFile(f)) = After(After(call, w[k - 1]), WriteFile(f))
    BY <2>2, <2>4, AfterBoth
  <2>6. After(call, w[k]) = DecodeList(Append(before, ValueOfFile(f)), caller)
    BY <2>2, <2>3, <2>4, <2>5
  <2>7. SubSeq(v, 1, k) = Append(before, ValueOfFile(f))
    BY <1>2, <1>4 DEF before, f
  <2>8. k \in 0 .. N
    BY <1>1
  <2>9. QED
    BY <2>6, <2>7, <2>8
<1>8. N \in Done
  <2> HIDE DEF Done, N
  <2>1. \A k \in 0 .. N : k \in Done
    BY <1>1, <1>6, <1>7, UpTo
  <2>2. QED
    BY <1>1, <2>1
<1>9. After(call, w[N]) = DecodeList(SubSeq(v, 1, N), caller)
  BY <1>8
<1>10. w[N] \in Seq(Tokens)
  <2> HIDE DEF N
  <2>1. QED
    BY <1>1, <1>5
<1>11. QED
  BY <1>3, <1>5, <1>9, <1>10 DEF v

-----------------------------------------------------------------------------
(* The whole file.                                                          *)

(* The torrents, without the bounds of the runs.                            *)
TorrentsHeld ==
    {t \in [files : Seq(FilesHeld), single : BOOLEAN, comment : {<<>>, <<NoName>>, <<"text">>},
            cut : {0, 1, 4}] :
        /\ Len(t.files) >= 1
        /\ \A i \in 1 .. Len(t.files) : Len(t.files[i].path) >= 1
        /\ t.single => Len(t.files) = 1 /\ Len(t.files[1].path) = 1}

MapOfInfo(t) ==
    IF t.single
      THEN Put(Put(<<>>, "length", Number(t.files[1].size)), "name", Text(t.files[1].path[1]))
      ELSE Put(Put(<<>>, "files", ListOf(ValuesOf(t))), "name", Text("folder"))

(* Lemma: the description of the files is read key by key.                  *)
LEMMA InfoRead ==
  ASSUME NEW t \in TorrentsHeld, NoName \notin Parts, NEW caller
  PROVE  /\ WriteInfo(t) \in Seq(Tokens)
         /\ After(DecodeDictionary(<<>>, caller), WriteInfo(t)) =
                DecodeDictionary(MapOfInfo(t), caller)
<1> DEFINE c0 == DecodeDictionary(<<>>, caller)
<1>1. /\ t.files \in Seq(FilesHeld) /\ Len(t.files) >= 1
      /\ t.single => Len(t.files) = 1 /\ Len(t.files[1].path) = 1
  BY DEF TorrentsHeld
<1>2. t.files[1] \in FilesHeld
  BY <1>1
<1>3. t.files[1].path \in Seq(Parts) /\ t.files[1].size \in Nat
  BY <1>2 DEF FilesHeld
<1>4. CASE t.single
  <2> DEFINE n == Number(t.files[1].size)
             p == Text(t.files[1].path[1])
             m1 == Put(<<>>, "length", n)
             m2 == Put(m1, "name", p)
             written == <<Text("length"), n, Text("name"), p>>
  <2>1. t.files[1].path[1] \in Parts /\ t.files[1].path[1] # NoName
    BY <1>1, <1>3, <1>4
  <2>2. n \in Tokens /\ p \in Tokens /\ Text("length") \in Tokens /\ Text("name") \in Tokens
    BY <1>3, <2>1, TokensAre DEF Words
  <2>3. NextToken(c0, Text("length")) = DecodeValue(<<>>, "length", caller)
    BY DictionarySteps
  <2>4. NextToken(DecodeValue(<<>>, "length", caller), n) = DecodeDictionary(m1, caller)
    BY ValueSteps
  <2>5. NextToken(DecodeDictionary(m1, caller), Text("name")) = DecodeValue(m1, "name", caller)
    BY DictionarySteps
  <2>6. NextToken(DecodeValue(m1, "name", caller), p) = DecodeDictionary(m2, caller)
    BY <2>1, ValueSteps
  <2>7. WriteInfo(t) = written
    BY <1>4 DEF WriteInfo
  <2>8. MapOfInfo(t) = m2
    BY <1>4 DEF MapOfInfo
  <2> HIDE DEF n, p, c0, m1, m2
  <2>9. written \in Seq(Tokens)
    BY <2>2
  <2>10. After(c0, written) =
            NextToken(NextToken(NextToken(NextToken(c0, Text("length")), n), Text("name")), p)
    BY AfterFour
  <2>11. After(c0, written) = DecodeDictionary(m2, caller)
    BY <2>3, <2>4, <2>5, <2>6, <2>10, Zenon
  <2> HIDE DEF written
  <2>12. QED
    BY <2>7, <2>8, <2>9, <2>11 DEF c0
<1>5. CASE ~t.single
  <2> DEFINE v == ListOf(ValuesOf(t))
             m1 == Put(<<>>, "files", v)
             m2 == Put(m1, "name", Text("folder"))
             c1 == DecodeValue(<<>>, "files", caller)
             first == <<Text("files"), Symbol("l")>>
             middle == WriteFiles(t)
             last == <<Symbol("e"), Text("name"), Text("folder")>>
  <2>1. /\ Text("files") \in Tokens /\ Symbol("l") \in Tokens /\ Symbol("e") \in Tokens
        /\ Text("name") \in Tokens /\ Text("folder") \in Tokens
    BY TokensAre DEF Words
  <2>2. first \in Seq(Tokens) /\ last \in Seq(Tokens)
    BY <2>1
  <2>3. middle \in Seq(Tokens) /\ After(DecodeList(<<>>, c1), middle) = DecodeList(ValuesOf(t), c1)
    BY <1>1, FilesRead
  <2>4. WriteInfo(t) = (first \o middle) \o last
    BY <1>5 DEF WriteInfo
  <2>5. MapOfInfo(t) = m2
    BY <1>5 DEF MapOfInfo
  <2>6. NextToken(c0, Text("files")) = c1
    BY DictionarySteps
  <2>7. NextToken(c1, Symbol("l")) = DecodeList(<<>>, c1)
    BY ValueSteps
  <2>8. NextToken(DecodeList(ValuesOf(t), c1), Symbol("e")) = DecodeDictionary(m1, caller)
    <3>1. NextToken(DecodeList(ValuesOf(t), c1), Symbol("e")) = Returned(v, c1)
      BY ListSteps
    <3>2. QED
      BY <3>1, Returns
  <2>9. NextToken(DecodeDictionary(m1, caller), Text("name")) = DecodeValue(m1, "name", caller)
    BY DictionarySteps
  <2>10. NextToken(DecodeValue(m1, "name", caller), Text("folder")) = DecodeDictionary(m2, caller)
    <3>1. "folder" # NoName
      BY DEF NoName
    <3>2. QED
      BY <3>1, ValueSteps
  <2> HIDE DEF v, c0, m1, m2, c1, middle
  <2>11. After(c0, first) = NextToken(NextToken(c0, Text("files")), Symbol("l"))
    BY AfterTwo
  <2>12. After(c0, first) = DecodeList(<<>>, c1)
    BY <2>6, <2>7, <2>11, Zenon
  <2>13. After(DecodeList(ValuesOf(t), c1), last) =
             NextToken(NextToken(NextToken(DecodeList(ValuesOf(t), c1), Symbol("e")),
                                 Text("name")), Text("folder"))
    BY AfterThree
  <2>14. After(DecodeList(ValuesOf(t), c1), last) = DecodeDictionary(m2, caller)
    BY <2>8, <2>9, <2>10, <2>13, Zenon
  <2> HIDE DEF first, last
  <2>15. first \o middle \in Seq(Tokens)
    BY <2>2, <2>3
  <2>16. After(c0, (first \o middle) \o last) = After(After(c0, first \o middle), last)
    BY <2>2, <2>15, AfterBoth
  <2>17. After(c0, first \o middle) = After(After(c0, first), middle)
    BY <2>2, <2>3, AfterBoth
  <2>18. WriteInfo(t) \in Seq(Tokens)
    BY <2>2, <2>4, <2>15
  <2>19. After(c0, WriteInfo(t)) = DecodeDictionary(m2, caller)
    BY <2>3, <2>4, <2>12, <2>14, <2>16, <2>17
  <2>20. QED
    BY <2>5, <2>18, <2>19 DEF c0
<1>6. QED
  BY <1>4, <1>5

Comment(t) == IF t.comment = <<>> THEN <<>> ELSE <<Text("comment"), Text(t.comment[1])>>

(* All but the end of the dictionary that is the file.                      *)
Body(t) ==
    (((<<Symbol("d")>> \o Comment(t)) \o <<Text("info"), Symbol("d")>>) \o WriteInfo(t))
        \o <<Symbol("e")>>

MapOfTorrent(t) ==
    Put(IF t.comment = <<>> THEN <<>> ELSE Put(<<>>, "comment", Text("text")),
        "info", DictionaryOf(MapOfInfo(t)))

(* Lemma: the comment of a torrent has a token for its key and one for its  *)
(* text.                                                                    *)
LEMMA CommentRead ==
  ASSUME NEW t \in TorrentsHeld
  PROVE  /\ Comment(t) \in Seq(Tokens)
         /\ t.comment = <<NoName>> =>
                After(DecodeDictionary(<<>>, Whole), Comment(t)) = Exception
         /\ t.comment # <<NoName>> =>
                After(DecodeDictionary(<<>>, Whole), Comment(t)) =
                    DecodeDictionary(IF t.comment = <<>> THEN <<>>
                                     ELSE Put(<<>>, "comment", Text("text")), Whole)
<1> DEFINE c0 == DecodeDictionary(<<>>, Whole)
<1>1. t.comment \in {<<>>, <<NoName>>, <<"text">>}
  BY DEF TorrentsHeld
<1>2. <<NoName>> # <<>> /\ <<"text">> # <<>> /\ <<NoName>>[1] = NoName /\ <<"text">>[1] = "text"
      /\ "text" # NoName
  BY DEF NoName
<1>3. <<"text">> # <<NoName>>
  BY <1>2
<1>4. Text("comment") \in Tokens /\ Text("text") \in Tokens /\ Text(NoName) \in Tokens
  BY TokensAre DEF Words
<1>5. NextToken(c0, Text("comment")) = DecodeValue(<<>>, "comment", Whole)
  BY DictionarySteps
<1>6. NextToken(DecodeValue(<<>>, "comment", Whole), Text("text")) =
          DecodeDictionary(Put(<<>>, "comment", Text("text")), Whole)
  BY <1>2, ValueSteps
<1>7. NextToken(DecodeValue(<<>>, "comment", Whole), Text(NoName)) = Exception
  BY ValueSteps
<1> HIDE DEF c0
<1>8. \A x : After(c0, <<Text("comment"), x>>) = NextToken(NextToken(c0, Text("comment")), x)
  BY AfterTwo
<1>9. After(c0, <<>>) = c0
  BY AfterFew
<1>10. CASE t.comment = <<>>
  <2>1. Comment(t) = <<>>
    BY <1>10 DEF Comment
  <2>2. t.comment # <<NoName>>
    BY <1>2, <1>10
  <2>3. <<>> \in Seq(Tokens)
    OBVIOUS
  <2>4. QED
    BY <1>9, <1>10, <2>1, <2>2, <2>3 DEF c0
<1>11. CASE t.comment = <<NoName>>
  <2>1. Comment(t) = <<Text("comment"), Text(NoName)>>
    BY <1>2, <1>11 DEF Comment
  <2>2. <<Text("comment"), Text(NoName)>> \in Seq(Tokens)
    BY <1>4
  <2>3. After(c0, <<Text("comment"), Text(NoName)>>) = Exception
    BY <1>5, <1>7, <1>8, Zenon
  <2>4. QED
    BY <1>11, <2>1, <2>2, <2>3, Zenon DEF c0
<1>12. CASE t.comment = <<"text">>
  <2>1. Comment(t) = <<Text("comment"), Text("text")>>
    BY <1>2, <1>12 DEF Comment
  <2>2. <<Text("comment"), Text("text")>> \in Seq(Tokens)
    BY <1>4
  <2>3. After(c0, <<Text("comment"), Text("text")>>) =
            DecodeDictionary(Put(<<>>, "comment", Text("text")), Whole)
    BY <1>5, <1>6, <1>8, Zenon
  <2>4. t.comment # <<>> /\ t.comment # <<NoName>>
    BY <1>2, <1>3, <1>12
  <2>5. QED
    BY <2>1, <2>2, <2>3, <2>4 DEF c0
<1>13. QED
  BY <1>1, <1>10, <1>11, <1>12

(* Lemma: a whole file can be a dictionary.                                 *)
LEMMA WholeStep == NextToken(Whole, Symbol("d")) = DecodeDictionary(<<>>, Whole)
<1> DEFINE x == Whole
<1>1. ForValue(x)
  BY DEF Whole, ForValue
<1> HIDE DEF x
<1>2. NextToken(x, Symbol("d")) = DecodeDictionary(<<>>, x)
  BY <1>1, ValueBegins
<1>3. QED
  BY <1>2 DEF x

(* Lemma: an exception stays one.                                           *)
LEMMA AfterException ==
  ASSUME NEW s \in Seq(Tokens) PROVE After(Exception, s) = Exception
<1> DEFINE x == Exception
<1>1. x.is \in {"value", "exception"}
  BY DEF Exception
<1> HIDE DEF x
<1>2. After(x, s) = x
  BY <1>1, AfterEnd
<1>3. QED
  BY <1>2 DEF x

(* Lemma: a file that can be read is read up to its end.                    *)
LEMMA BodyRead ==
  ASSUME NEW t \in TorrentsHeld, NoName \notin Parts
  PROVE  /\ Body(t) \in Seq(Tokens)
         /\ t.comment # <<NoName>> =>
                After(Whole, Body(t)) = DecodeDictionary(MapOfTorrent(t), Whole)
         /\ t.comment = <<NoName>> => After(Whole, Body(t)) = Exception
<1> DEFINE d == <<Symbol("d")>>
           c == Comment(t)
           i == <<Text("info"), Symbol("d")>>
           w == WriteInfo(t)
           e == <<Symbol("e")>>
           a1 == d \o c
           a2 == a1 \o i
           a3 == a2 \o w
           a4 == a3 \o e
           m0 == IF t.comment = <<>> THEN <<>> ELSE Put(<<>>, "comment", Text("text"))
           c1 == DecodeDictionary(<<>>, Whole)
           c2 == DecodeDictionary(m0, Whole)
           c3 == DecodeValue(m0, "info", Whole)
           c4 == DecodeDictionary(<<>>, c3)
           c5 == DecodeDictionary(MapOfInfo(t), c3)
           c6 == DecodeDictionary(MapOfTorrent(t), Whole)
<1>1. Symbol("d") \in Tokens /\ Symbol("e") \in Tokens /\ Text("info") \in Tokens
  BY TokensAre DEF Words
<1>2. d \in Seq(Tokens) /\ i \in Seq(Tokens) /\ e \in Seq(Tokens)
  BY <1>1
<1>3. w \in Seq(Tokens) /\ After(c4, w) = c5
  BY InfoRead
<1>4. /\ c \in Seq(Tokens)
      /\ t.comment = <<NoName>> => After(c1, c) = Exception
      /\ t.comment # <<NoName>> => After(c1, c) = c2
  BY CommentRead
<1>5. Body(t) = a4
  BY DEF Body
<1>6. After(Whole, d) = c1
  <2>1. After(Whole, d) = NextToken(Whole, Symbol("d"))
    BY AfterFew
  <2>2. QED
    BY <2>1, WholeStep
<1>7. After(c2, i) = c4
  <2>1. NextToken(c2, Text("info")) = c3
    BY DictionarySteps
  <2>2. NextToken(c3, Symbol("d")) = c4
    BY ValueSteps
  <2> HIDE DEF c2, c3, c4
  <2>3. After(c2, i) = NextToken(NextToken(c2, Text("info")), Symbol("d"))
    BY AfterTwo
  <2>4. QED
    BY <2>1, <2>2, <2>3, Zenon
<1>8. After(c5, e) = c6
  <2>1. After(c5, e) = NextToken(c5, Symbol("e"))
    <3> HIDE DEF c5
    <3>1. QED
      BY AfterFew
  <2>2. NextToken(c5, Symbol("e")) = Returned(DictionaryOf(MapOfInfo(t)), c3)
    BY DictionarySteps
  <2>3. Returned(DictionaryOf(MapOfInfo(t)), c3) =
            DecodeDictionary(Put(m0, "info", DictionaryOf(MapOfInfo(t))), Whole)
    BY Returns
  <2>4. MapOfTorrent(t) = Put(m0, "info", DictionaryOf(MapOfInfo(t)))
    BY DEF MapOfTorrent
  <2> HIDE DEF c3, c5, m0
  <2>5. QED
    BY <2>1, <2>2, <2>3, <2>4 DEF c6
<1> HIDE DEF d, c, i, w, e, m0, c1, c2, c3, c4, c5, c6
<1>9. a1 \in Seq(Tokens) /\ a2 \in Seq(Tokens) /\ a3 \in Seq(Tokens) /\ a4 \in Seq(Tokens)
  <2>1. a1 \in Seq(Tokens)
    BY <1>2, <1>4
  <2> HIDE DEF a1
  <2>2. a2 \in Seq(Tokens)
    BY <1>2, <2>1
  <2> HIDE DEF a2
  <2>3. a3 \in Seq(Tokens)
    BY <1>3, <2>2
  <2> HIDE DEF a3
  <2>4. a4 \in Seq(Tokens)
    BY <1>2, <2>3
  <2>5. QED
    BY <2>1, <2>2, <2>3, <2>4
<1>10. After(Whole, a1) = After(After(Whole, d), c)
  BY <1>2, <1>4, AfterBoth
<1> HIDE DEF a1
<1>11. After(Whole, a2) = After(After(Whole, a1), i)
  BY <1>2, <1>9, AfterBoth
<1> HIDE DEF a2
<1>12. After(Whole, a3) = After(After(Whole, a2), w)
  BY <1>3, <1>9, AfterBoth
<1> HIDE DEF a3
<1>13. After(Whole, a4) = After(After(Whole, a3), e)
  BY <1>2, <1>9, AfterBoth
<1> HIDE DEF a4
<1>14. CASE t.comment # <<NoName>>
  <2>1. After(Whole, a1) = c2
    BY <1>4, <1>6, <1>10, <1>14
  <2>2. After(Whole, a3) = c5
    BY <1>3, <1>7, <1>11, <1>12, <2>1
  <2>3. After(Whole, a4) = c6
    BY <1>8, <1>13, <2>2
  <2>4. QED
    BY <1>5, <1>9, <1>14, <2>3 DEF c6
<1>15. CASE t.comment = <<NoName>>
  <2>1. After(Whole, a1) = Exception
    BY <1>4, <1>6, <1>10, <1>15
  <2>2. \A s \in Seq(Tokens) : After(Exception, s) = Exception
    BY AfterException
  <2>3. After(Whole, a4) = Exception
    BY <1>2, <1>3, <1>11, <1>12, <1>13, <2>1, <2>2
  <2>4. QED
    BY <1>5, <1>9, <1>15, <2>3
<1>16. QED
  BY <1>14, <1>15

-----------------------------------------------------------------------------
(* What the decoder makes of it.                                            *)

(* Lemma: two ends are one and another.                                     *)
LEMMA TwoEnds ==
  ASSUME NEW T, NEW s \in Seq(T), NEW x \in T
  PROVE  /\ \A b : b = s \o <<x>> => s \o <<x, x>> = b \o <<x>>
         /\ s \o <<x>> \in Seq(T) /\ Len(s \o <<x>>) = Len(s) + 1
         /\ SubSeq(s \o <<x>>, 1, Len(s) + 1) = s \o <<x>>
         /\ \A m \in Int : m <= Len(s) => SubSeq(s \o <<x>>, 1, m) = SubSeq(s, 1, m)
<1>1. \A b : b = s \o <<x>> => s \o <<x, x>> = b \o <<x>>
  OBVIOUS
<1>2. s \o <<x>> \in Seq(T) /\ Len(s \o <<x>>) = Len(s) + 1
  OBVIOUS
<1>3. SubSeq(s \o <<x>>, 1, Len(s) + 1) = s \o <<x>>
  OBVIOUS
<1>4. ASSUME NEW m \in Int, m <= Len(s) PROVE SubSeq(s \o <<x>>, 1, m) = SubSeq(s, 1, m)
  BY <1>4
<1>5. QED
  BY <1>1, <1>2, <1>3, <1>4

(* Lemma: what is written is the file, but for the tokens that are cut.     *)
LEMMA WholeWritten ==
  ASSUME NEW t \in TorrentsHeld, NoName \notin Parts
  PROVE  LET body == Body(t) IN
         /\ body \in Seq(Tokens)
         /\ t.cut = 0 => Write(t) = body \o <<Symbol("e")>>
         /\ t.cut # 0 => Write(t) = SubSeq(body, 1, Len(body) + 1 - t.cut)
<1> DEFINE body == Body(t)
           e == Symbol("e")
           s == ((<<Symbol("d")>> \o Comment(t)) \o <<Text("info"), Symbol("d")>>) \o WriteInfo(t)
           whole == s \o <<e, e>>
<1>1. e \in Tokens /\ Symbol("d") \in Tokens /\ Text("info") \in Tokens
  BY TokensAre DEF Words
<1>2. s \in Seq(Tokens)
  <2>1. Comment(t) \in Seq(Tokens) /\ WriteInfo(t) \in Seq(Tokens)
    BY CommentRead, InfoRead
  <2>2. <<Symbol("d")>> \in Seq(Tokens) /\ <<Text("info"), Symbol("d")>> \in Seq(Tokens)
    BY <1>1
  <2> DEFINE a1 == <<Symbol("d")>> \o Comment(t)
             a2 == a1 \o <<Text("info"), Symbol("d")>>
  <2>3. a1 \in Seq(Tokens)
    BY <2>1, <2>2
  <2> HIDE DEF a1
  <2>4. a2 \in Seq(Tokens)
    BY <2>2, <2>3
  <2> HIDE DEF a2
  <2>5. a2 \o WriteInfo(t) \in Seq(Tokens)
    BY <2>1, <2>4
  <2>6. QED
    BY <2>5 DEF a1, a2
<1>3. body = s \o <<e>>
  BY DEF Body
<1>4. Write(t) = SubSeq(whole, 1, Len(whole) - t.cut)
  BY DEF Write, Comment
<1> HIDE DEF s, e, body
<1>5. whole = body \o <<e>> /\ body \in Seq(Tokens)
  <2>1. s \o <<e, e>> = body \o <<e>> /\ s \o <<e>> \in Seq(Tokens)
    BY <1>1, <1>2, <1>3, TwoEnds
  <2>2. QED
    BY <1>3, <2>1
<1> HIDE DEF whole
<1>6. /\ Len(whole) = Len(body) + 1 /\ Len(body) \in Nat
      /\ SubSeq(whole, 1, Len(body) + 1) = body \o <<e>>
      /\ \A m \in Int : m <= Len(body) => SubSeq(whole, 1, m) = SubSeq(body, 1, m)
  <2> DEFINE w == body \o <<e>>
  <2>1. Len(body) \in Nat
    BY <1>5
  <2>2. Len(w) = Len(body) + 1
    BY <1>1, <1>5, TwoEnds
  <2>3. SubSeq(w, 1, Len(body) + 1) = w
    BY <1>1, <1>5, TwoEnds
  <2>4. \A m \in Int : m <= Len(body) => SubSeq(w, 1, m) = SubSeq(body, 1, m)
    BY <1>1, <1>5, TwoEnds
  <2>5. whole = w
    BY <1>5
  <2> HIDE DEF w
  <2>6. QED
    BY <2>1, <2>2, <2>3, <2>4, <2>5 DEF w
<1>7. t.cut \in {0, 1, 4}
  BY DEF TorrentsHeld
<1>8. CASE t.cut = 0
  <2>1. Len(whole) - t.cut = Len(body) + 1
    BY <1>6, <1>8
  <2>2. QED
    BY <1>4, <1>5, <1>6, <1>8, <2>1 DEF e, body
<1>9. CASE t.cut # 0
  <2>1. Len(whole) - t.cut = Len(body) + 1 - t.cut /\ Len(body) + 1 - t.cut \in Int
        /\ Len(body) + 1 - t.cut <= Len(body)
    BY <1>6, <1>7, <1>9
  <2>2. Write(t) = SubSeq(body, 1, Len(body) + 1 - t.cut)
    BY <1>4, <1>6, <2>1
  <2>3. QED
    BY <1>5, <1>9, <2>2 DEF e, body
<1>10. QED
  BY <1>8, <1>9

(* Lemmas: the elements of two sequences in a row, and of equal ones.       *)
LEMMA ConcatOf ==
  ASSUME NEW T, NEW s \in Seq(T), NEW u \in Seq(T)
  PROVE  /\ s \o u \in Seq(T) /\ Len(s \o u) = Len(s) + Len(u)
         /\ \A k \in 1 .. Len(s) : (s \o u)[k] = s[k]
         /\ \A k \in 1 .. Len(u) : (s \o u)[Len(s) + k] = u[k]
OBVIOUS

LEMMA SameSequence ==
  ASSUME NEW T, NEW s \in Seq(T), NEW u \in Seq(T), Len(u) = Len(s),
         \A k \in 1 .. Len(s) : u[k] = s[k]
  PROVE  u = s
OBVIOUS

(* Lemma: a sequence is its beginning and the rest.                         *)
LEMMA SplitAt ==
  ASSUME NEW T, NEW s \in Seq(T), NEW m \in 0 .. Len(s)
  PROVE  /\ SubSeq(s, 1, m) \in Seq(T) /\ SubSeq(s, m + 1, Len(s)) \in Seq(T)
         /\ s = SubSeq(s, 1, m) \o SubSeq(s, m + 1, Len(s))
<1> DEFINE n == Len(s)
           b == SubSeq(s, 1, m)
           r == SubSeq(s, m + 1, n)
<1>1. n \in Nat /\ m \in 0 .. n
  OBVIOUS
<1>2. b \in Seq(T) /\ Len(b) = m /\ \A k \in 1 .. m : b[k] = s[k]
  OBVIOUS
<1>3. r \in Seq(T) /\ Len(r) = n - m /\ \A k \in 1 .. (n - m) : r[k] = s[m + k]
  OBVIOUS
<1> HIDE DEF b, r
<1>4. /\ b \o r \in Seq(T) /\ Len(b \o r) = m + (n - m)
      /\ \A k \in 1 .. m : (b \o r)[k] = b[k]
      /\ \A k \in 1 .. (n - m) : (b \o r)[m + k] = r[k]
  BY <1>2, <1>3, ConcatOf
<1> DEFINE u == b \o r
<1> HIDE DEF n, u
<1>5. ASSUME NEW k \in 1 .. n PROVE u[k] = s[k]
  <2>1. CASE k <= m
    <3>1. k \in 1 .. m
      BY <1>1, <2>1
    <3>2. QED
      BY <1>2, <1>4, <3>1 DEF u
  <2>2. CASE ~(k <= m)
    <3>1. k - m \in 1 .. (n - m) /\ m + (k - m) = k
      BY <1>1, <2>2
    <3>2. u[m + (k - m)] = r[k - m] /\ r[k - m] = s[m + (k - m)]
      BY <1>3, <1>4, <3>1 DEF u
    <3>3. QED
      BY <3>1, <3>2
  <2>3. QED
    BY <2>1, <2>2
<1>6. Len(u) = n /\ u \in Seq(T)
  BY <1>1, <1>4 DEF u
<1>7. u = s
  BY <1>5, <1>6, SameSequence DEF n
<1>8. QED
  BY <1>2, <1>3, <1>7 DEF b, r, u, n

(* Lemma: no value is there before the last token that it takes.            *)
LEMMA BeforeValue ==
  ASSUME NEW s \in Seq(Tokens), NEW m \in Int, m <= Len(s), NEW call,
         NEW x, x = After(call, s), x.is # "value", NEW y, y = After(call, SubSeq(s, 1, m)),
         call.is # "value"
  PROVE  y.is # "value"
<1> SUFFICES ASSUME y.is = "value" PROVE FALSE
  OBVIOUS
<1>1. CASE m <= 0
  <2>1. SubSeq(s, 1, m) = <<>>
    BY <1>1
  <2>2. y = call
    BY <2>1, AfterFew
  <2>3. QED
    BY <2>2
<1>2. CASE m > 0
  <2> DEFINE n == Len(s)
             b == SubSeq(s, 1, m)
             r == SubSeq(s, m + 1, n)
  <2>1. b \in Seq(Tokens) /\ r \in Seq(Tokens) /\ s = b \o r
    <3>1. m \in 0 .. Len(s)
      BY <1>2
    <3>2. QED
      BY <3>1, SplitAt
  <2> HIDE DEF b, r
  <2>2. After(call, s) = After(After(call, b), r)
    BY <2>1, AfterBoth
  <2>3. y = After(call, b)
    BY DEF b
  <2>4. y.is \in {"value", "exception"}
    OBVIOUS
  <2>5. After(y, r) = y
    <3> HIDE DEF b
    <3>1. r \in Seq(Tokens)
      BY <2>1
    <3>2. QED
      BY <2>4, <3>1, AfterEnd
  <2>6. x = y
    BY <2>2, <2>3, <2>5
  <2>7. QED
    BY <2>6
<1>3. QED
  BY <1>1, <1>2

(* Lemma: the decoder answers with the dictionary of the torrent, or, when  *)
(* it is broken, with an exception.                                         *)
LEMMA DecoderAnswers ==
  ASSUME NEW t \in TorrentsHeld, NoName \notin Parts
  PROVE  Decoder(Write(t)) = IF Readable(t) THEN Read(DictionaryOf(MapOfTorrent(t))) ELSE Exception
<1> DEFINE body == Body(t)
           e == <<Symbol("e")>>
           y == After(Whole, Write(t))
           call == DecodeDictionary(MapOfTorrent(t), Whole)
           x == After(Whole, body)
           start == Whole
<1>1. Decoder(Write(t)) = IF y.is = "value" THEN y ELSE Exception
  BY DEF Decoder
<1>2. /\ body \in Seq(Tokens)
      /\ t.comment # <<NoName>> => After(Whole, body) = call
      /\ t.comment = <<NoName>> => After(Whole, body) = Exception
  BY BodyRead
<1>3. /\ t.cut = 0 => Write(t) = body \o e
      /\ t.cut # 0 => Write(t) = SubSeq(body, 1, Len(body) + 1 - t.cut)
  BY WholeWritten
<1>4. Symbol("e") \in Tokens /\ e \in Seq(Tokens)
  BY TokensAre
<1>5. call.is = "dictionary"
  BY DEF DecodeDictionary
<1>6. start.is = "whole file"
  BY DEF Whole
<1> HIDE DEF call
<1>7. After(call, e) = Read(DictionaryOf(MapOfTorrent(t)))
  <2>1. After(call, e) = NextToken(call, Symbol("e"))
    BY AfterFew
  <2>2. NextToken(call, Symbol("e")) = Returned(DictionaryOf(MapOfTorrent(t)), Whole)
    BY DictionarySteps DEF call
  <2>3. QED
    BY <2>1, <2>2, Returns
<1> DEFINE ex == Exception
           v == Read(DictionaryOf(MapOfTorrent(t)))
<1>8. ex.is = "exception" /\ v.is = "value"
  BY DEF Exception, Read
<1> HIDE DEF body, e, y, x, start, ex, v
<1>9. ASSUME t.cut # 0 PROVE y.is # "value"
  <2>1. t.cut \in {0, 1, 4} /\ Len(body) \in Nat
    BY <1>2 DEF TorrentsHeld
  <2> DEFINE m == Len(body) + 1 - t.cut
  <2>2. m \in Int /\ m <= Len(body)
    BY <1>9, <2>1
  <2>3. x = After(start, body) /\ y = After(start, SubSeq(body, 1, m))
    BY <1>3, <1>9 DEF x, y, start
  <2>4. x.is # "value"
    <3>1. x = call \/ x = ex
      BY <1>2 DEF x, ex
    <3>2. QED
      BY <1>5, <1>8, <3>1
  <2> HIDE DEF m
  <2>5. QED
    <3>1. start.is # "value"
      BY <1>6
    <3>2. body \in Seq(Tokens)
      BY <1>2
    <3>3. QED
      BY <2>2, <2>3, <2>4, <3>1, <3>2, BeforeValue, Zenon
<1>10. ASSUME t.cut = 0 PROVE y = After(After(Whole, body), e)
  <2>1. y = After(Whole, body \o e)
    BY <1>3, <1>10 DEF y
  <2>2. body \in Seq(Tokens)
    BY <1>2
  <2>3. After(Whole, body \o e) = After(After(Whole, body), e)
    BY <1>4, <2>2, AfterBoth
  <2>4. QED
    BY <2>1, <2>3
<1>11. CASE Readable(t)
  <2>1. t.cut = 0 /\ t.comment # <<NoName>>
    BY <1>11 DEF Readable
  <2>2. y = v
    BY <1>2, <1>7, <1>10, <2>1 DEF v
  <2>3. QED
    BY <1>1, <1>8, <1>11, <2>2 DEF v
<1>12. CASE ~Readable(t)
  <2>1. y.is # "value"
    <3>1. CASE t.cut # 0
      BY <1>9, <3>1
    <3>2. CASE t.cut = 0
      <4>1. t.comment = <<NoName>>
        BY <1>12, <3>2 DEF Readable
      <4>2. After(Exception, e) = Exception
        BY <1>4, AfterException
      <4>3. y = ex
        BY <1>2, <1>10, <3>2, <4>1, <4>2 DEF ex
      <4>4. QED
        BY <1>8, <4>3
    <3>3. QED
      BY <3>1, <3>2
  <2>2. QED
    BY <1>1, <1>12, <2>1
<1>13. QED
  BY <1>11, <1>12

-----------------------------------------------------------------------------
(* What the screen lists of it.                                             *)

Entries == [name : Parts, size : Nat]

(* Lemma: what is put under a key is there, with what was under the others. *)
LEMMA PutKey ==
  ASSUME NEW map, NEW key, NEW v, NEW m, m = Put(map, key, v)
  PROVE  /\ DOMAIN m = DOMAIN map \cup {key} /\ m[key] = v
         /\ \A x \in DOMAIN map : x # key => m[x] = map[x]
BY DEF Put

(* Lemma: the value of a key that is there, and of one that is not.         *)
LEMMA GetKey ==
  ASSUME NEW map, NEW key, NEW d, d = DictionaryOf(map)
  PROVE  GetValue(d, key) = IF key \in DOMAIN map THEN map[key] ELSE Null
BY DEF GetValue, DictionaryOf

(* Lemma: what is put first is there alone.                                 *)
LEMMA PutFirst ==
  ASSUME NEW key, NEW v, NEW m, m = Put(<<>>, key, v)
  PROVE  DOMAIN m = {key} /\ m[key] = v
<1>1. m = [x \in {key} |-> v]
  <2>1. DOMAIN <<>> = {}
    OBVIOUS
  <2>2. {} \cup {key} = {key}
    OBVIOUS
  <2>3. m = [x \in {} \cup {key} |-> IF x = key THEN v ELSE <<>>[x]]
    BY <2>1, Zenon DEF Put
  <2>4. m = [x \in {key} |-> IF x = key THEN v ELSE <<>>[x]]
    BY <2>2, <2>3, Zenon
  <2>5. QED
    BY <2>4
<1>4. QED
  BY <1>1

(* Lemma: the values of a dictionary with two keys.                         *)
LEMMA TwoKeys ==
  ASSUME NEW a, NEW b, a # b, NEW v, NEW w
  PROVE  LET d == DictionaryOf(Put(Put(<<>>, a, v), b, w)) IN
         /\ GetValue(d, a) = v /\ GetValue(d, b) = w
         /\ \A c : c \notin {a, b} => GetValue(d, c) = Null
<1> DEFINE m1 == Put(<<>>, a, v)
           m2 == Put(m1, b, w)
<1>1. m1 = Put(<<>>, a, v) /\ m2 = Put(m1, b, w)
  OBVIOUS
<1> HIDE DEF m1, m2
<1>2. DOMAIN m1 = {a} /\ m1[a] = v
  BY <1>1, PutFirst, Zenon
<1>3. m2 = [x \in DOMAIN m1 \cup {b} |-> IF x = b THEN w ELSE m1[x]]
  BY <1>1 DEF Put
<1>4. DOMAIN m2 = {a, b} /\ m2[a] = v /\ m2[b] = w
  <2>1. a \in DOMAIN m1 /\ a # b
    BY <1>2
  <2>2. m2[b] = w /\ m2[a] = m1[a]
    BY <1>3, <2>1
  <2>3. DOMAIN m2 = {a, b}
    BY <1>2, <1>3
  <2>4. QED
    BY <1>2, <2>2, <2>3
<1> DEFINE d == DictionaryOf(m2)
<1>5. \A c : GetValue(d, c) = IF c \in DOMAIN m2 THEN m2[c] ELSE Null
  BY GetKey
<1> HIDE DEF d
<1>6. GetValue(d, a) = v /\ GetValue(d, b) = w /\ \A c : c \notin {a, b} => GetValue(d, c) = Null
  BY <1>4, <1>5
<1>7. QED
  BY <1>6 DEF d, m2, m1

(* Lemma: the fields of a file in the list.                                 *)
LEMMA FileFields ==
  ASSUME NEW f \in FilesHeld
  PROVE  /\ GetValue(ValueOfFile(f), "path") = ListOf(TextsOf(f.path))
         /\ GetValue(ValueOfFile(f), "length") = Number(f.size)
<1> DEFINE n == Number(f.size)
           p == ListOf(TextsOf(f.path))
           d == DictionaryOf(Put(Put(<<>>, "length", n), "path", p))
<1>1. ValueOfFile(f) = d
  BY DEF ValueOfFile
<1> HIDE DEF n, p
<1>2. "length" # "path"
  OBVIOUS
<1>3. GetValue(d, "path") = p /\ GetValue(d, "length") = n
  BY <1>2, TwoKeys
<1>4. QED
  BY <1>1, <1>3, Zenon DEF n, p

(* Lemma: the description of the files is under a key of its own, and holds *)
(* what the form of the torrent says.                                       *)
LEMMA InfoFields ==
  ASSUME NEW t
  PROVE  /\ GetValue(DictionaryOf(MapOfTorrent(t)), "info") = DictionaryOf(MapOfInfo(t))
         /\ t.single =>
              /\ GetValue(DictionaryOf(MapOfInfo(t)), "files") = Null
              /\ GetValue(DictionaryOf(MapOfInfo(t)), "name") = Text(t.files[1].path[1])
              /\ GetValue(DictionaryOf(MapOfInfo(t)), "length") = Number(t.files[1].size)
         /\ ~t.single => GetValue(DictionaryOf(MapOfInfo(t)), "files") = ListOf(ValuesOf(t))
<1> DEFINE v == DictionaryOf(MapOfInfo(t))
           before == IF t.comment = <<>> THEN <<>> ELSE Put(<<>>, "comment", Text("text"))
           m == Put(before, "info", v)
           l == Number(t.files[1].size)
           n == Text(t.files[1].path[1])
           many == ListOf(ValuesOf(t))
           one == DictionaryOf(Put(Put(<<>>, "length", l), "name", n))
           more == DictionaryOf(Put(Put(<<>>, "files", many), "name", Text("folder")))
<1>1. "length" # "name" /\ "files" # "name" /\ "files" \notin {"length", "name"}
  OBVIOUS
<1>2. MapOfTorrent(t) = m
  BY DEF MapOfTorrent
<1>3. t.single => v = one
  BY DEF MapOfInfo
<1>4. ~t.single => v = more
  BY DEF MapOfInfo
<1>5. GetValue(DictionaryOf(m), "info") = v
  <2> HIDE DEF v, before
  <2>1. m = [x \in DOMAIN before \cup {"info"} |-> IF x = "info" THEN v ELSE before[x]]
    BY DEF Put
  <2> HIDE DEF m
  <2>2. "info" \in DOMAIN m /\ m["info"] = v
    BY <2>1
  <2>3. GetValue(DictionaryOf(m), "info") = IF "info" \in DOMAIN m THEN m["info"] ELSE Null
    BY GetKey
  <2>4. QED
    BY <2>2, <2>3
<1>6. /\ GetValue(one, "files") = Null
      /\ GetValue(one, "name") = n
      /\ GetValue(one, "length") = l
  <2> HIDE DEF l, n
  <2>1. QED
    BY <1>1, TwoKeys
<1>7. GetValue(more, "files") = many
  <2> HIDE DEF many
  <2>1. QED
    BY <1>1, TwoKeys
<1> HIDE DEF m, one, more
<1>8. GetValue(DictionaryOf(MapOfTorrent(t)), "info") = DictionaryOf(MapOfInfo(t))
  BY <1>2, <1>5, Zenon
<1> HIDE DEF v
<1>9. t.single => /\ GetValue(v, "files") = Null
                  /\ GetValue(v, "name") = n /\ GetValue(v, "length") = l
  BY <1>3, <1>6, Zenon
<1>10. ~t.single => GetValue(v, "files") = many
  BY <1>4, <1>7, Zenon
<1>11. QED
  BY <1>8, <1>9, <1>10, Zenon DEF v, n, l, many

(* Lemma: a part of a path that ends like a video gets an entry, and none   *)
(* is lost.                                                                 *)
LEMMA AddToFilesAdds ==
  ASSUME NEW entries \in Seq(Entries), NEW part \in Parts, NEW n \in Nat
  PROVE  LET r == AddToFiles(entries, part, n) IN
         /\ r \in Seq(Entries)
         /\ \A x \in ToSet(entries) : x \in ToSet(r)
         /\ part \in Videos => Entry(part, n) \in ToSet(r)
<1> DEFINE e == Entry(part, n)
           r == Append(entries, e)
<1>1. e \in Entries
  BY DEF Entry, Entries
<1> HIDE DEF e
<1>2. /\ r \in Seq(Entries) /\ Len(entries) \in Nat /\ Len(r) = Len(entries) + 1
      /\ r[Len(entries) + 1] = e /\ \A i \in 1 .. Len(entries) : r[i] = entries[i]
  BY <1>1, AppendTo
<1> HIDE DEF r
<1>3. e \in ToSet(r)
  BY <1>2 DEF ToSet
<1>4. \A x \in ToSet(entries) : x \in ToSet(r)
  BY <1>2 DEF ToSet
<1>5. CASE part \in Videos
  <2>1. AddToFiles(entries, part, n) = r
    BY <1>5 DEF AddToFiles, r, e
  <2>2. QED
    BY <1>2, <1>3, <1>4, <2>1 DEF e
<1>6. CASE part \notin Videos
  <2>1. AddToFiles(entries, part, n) = entries
    BY <1>6 DEF AddToFiles
  <2>2. QED
    BY <1>6, <2>1
<1>7. QED
  BY <1>5, <1>6

(* Lemma: every part of a path that ends like a video gets an entry, and    *)
(* none is lost.                                                            *)
LEMMA AddFileAdds ==
  ASSUME NEW entries \in Seq(Entries), NEW f \in FilesHeld
  PROVE  LET r == AddFile(entries, ValueOfFile(f)) IN
         /\ r \in Seq(Entries)
         /\ \A x \in ToSet(entries) : x \in ToSet(r)
         /\ \A k \in 1 .. Len(f.path) :
                f.path[k] \in Videos => Entry(f.path[k], f.size) \in ToSet(r)
<1> DEFINE file == ValueOfFile(f)
           list1 == GetValue(file, "path")
           number1 == GetValue(file, "length")
           items == list1.items
           number == number1.number
           N == Len(items)
           S == Seq(Entries)
           Step(r, k) == AddToFiles(r, items[k].text, number)
           step == [p \in S \X (1 .. N) |-> Step(p[1], p[2])]
           Is(r) == r = [k \in 0 .. N |-> IF k = 0 THEN entries ELSE Step(r[k - 1], k)]
           upTo == CHOOSE r : Is(r)
<1>1. AddFile(entries, file) = upTo[N]
  BY DEF AddFile
<1>2. /\ f.path \in Seq(Parts) /\ f.size \in Nat /\ Len(f.path) \in Nat
      /\ \A k \in 1 .. Len(f.path) : f.path[k] \in Parts
  BY DEF FilesHeld
<1>3. list1 = ListOf(TextsOf(f.path)) /\ number1 = Number(f.size)
  BY FileFields
<1> HIDE DEF file, list1, number1
<1>4. items = TextsOf(f.path) /\ number = f.size
  BY <1>3 DEF ListOf, Number
<1> HIDE DEF items, number
<1>5. /\ N \in Nat /\ N = Len(f.path)
      /\ \A k \in 1 .. N : items[k] = Text(f.path[k])
  BY <1>2, <1>4, TextsAre
<1>6. ASSUME NEW k \in 1 .. N PROVE items[k].text = f.path[k]
  <2>1. items[k] = Text(f.path[k])
    BY <1>5
  <2>2. QED
    BY <2>1 DEF Text
<1>7. ASSUME NEW r \in S, NEW k \in 1 .. N
      PROVE  /\ Step(r, k) \in S
             /\ \A x \in ToSet(r) : x \in ToSet(Step(r, k))
             /\ f.path[k] \in Videos => Entry(f.path[k], f.size) \in ToSet(Step(r, k))
  <2>1. Step(r, k) = AddToFiles(r, f.path[k], f.size)
    BY <1>4, <1>6
  <2>2. f.path[k] \in Parts
    BY <1>2, <1>5
  <2> HIDE DEF Step
  <2>3. QED
    BY <1>2, <2>1, <2>2, AddToFilesAdds
<1> HIDE DEF N, Step
<1>8. step \in Steps(S, N)
  BY <1>7 DEF Steps
<1>9. \A r \in S : \A k \in 1 .. N : step[<<r, k>>] = Step(r, k)
  OBVIOUS
<1>10. entries \in S
  OBVIOUS
<1> HIDE DEF S, step
<1>11. PICK g : Repeats(g, N, S, entries, step)
  BY <1>5, <1>8, <1>10, Recursion
<1>12. ASSUME NEW k \in 1 .. N PROVE g[k] = Step(g[k - 1], k)
  <2>1. k - 1 \in 0 .. N
    BY <1>5
  <2>2. g \in [0 .. N -> S] /\ g[k] = step[<<g[k - 1], k>>]
    BY <1>11, Zenon DEF Repeats
  <2>3. g[k - 1] \in S
    BY <2>1, <2>2, Zenon
  <2>4. QED
    BY <1>9, <2>2, <2>3, Zenon
<1>13. g \in [0 .. N -> S] /\ g[0] = entries
  BY <1>11 DEF Repeats
<1>14. Is(g)
  BY <1>5, <1>12, <1>13
<1>15. Is(upTo)
  BY <1>14
<1> HIDE DEF upTo
<1>16. upTo[0] = entries /\ \A k \in 1 .. N : upTo[k] = Step(upTo[k - 1], k)
  BY <1>5, <1>15
<1> DEFINE Shows(r, j) == f.path[j] \in Videos => Entry(f.path[j], f.size) \in ToSet(r)
           Keeps(r) == \A x \in ToSet(entries) : x \in ToSet(r)
           Good == {k \in 0 .. N : /\ upTo[k] \in S /\ Keeps(upTo[k])
                                   /\ \A j \in 1 .. k : Shows(upTo[k], j)}
<1>17. 0 \in Good
  <2>1. 0 \in 0 .. N /\ 1 .. 0 = {}
    BY <1>5
  <2>2. QED
    BY <1>10, <1>16, <2>1
<1>18. ASSUME NEW k \in 1 .. N, k - 1 \in Good PROVE k \in Good
  <2> DEFINE r == upTo[k - 1]
             s == upTo[k]
  <2>1. /\ r \in S /\ \A x \in ToSet(entries) : x \in ToSet(r)
        /\ \A j \in 1 .. (k - 1) : f.path[j] \in Videos => Entry(f.path[j], f.size) \in ToSet(r)
    BY <1>18
  <2>2. s = Step(r, k)
    BY <1>16
  <2> HIDE DEF r, s
  <2>3. /\ s \in S /\ \A x \in ToSet(r) : x \in ToSet(s)
        /\ f.path[k] \in Videos => Entry(f.path[k], f.size) \in ToSet(s)
    BY <1>7, <2>1, <2>2
  <2>4. ASSUME NEW j \in 1 .. k, f.path[j] \in Videos
        PROVE  Entry(f.path[j], f.size) \in ToSet(s)
    <3>1. CASE j = k
      BY <2>3, <2>4, <3>1
    <3>2. CASE j # k
      <4>1. j \in 1 .. (k - 1)
        BY <1>5, <3>2
      <4>2. QED
        BY <2>1, <2>3, <2>4, <4>1
    <3>3. QED
      BY <3>1, <3>2
  <2>5. k \in 0 .. N
    BY <1>5
  <2>6. QED
    BY <2>1, <2>3, <2>4, <2>5 DEF s
<1>19. N \in Good
  <2> HIDE DEF Good
  <2>1. \A k \in 0 .. N : k \in Good
    BY <1>5, <1>17, <1>18, UpTo
  <2>2. QED
    BY <1>5, <2>1
<1>20. /\ upTo[N] \in S /\ \A x \in ToSet(entries) : x \in ToSet(upTo[N])
       /\ \A j \in 1 .. N : f.path[j] \in Videos => Entry(f.path[j], f.size) \in ToSet(upTo[N])
  BY <1>19
<1>21. QED
  BY <1>1, <1>5, <1>20 DEF S, file

(* Lemma: every part of every path that ends like a video gets an entry.    *)
LEMMA AddFilesAdds ==
  ASSUME NEW t, t.files \in Seq(FilesHeld)
  PROVE  \A i \in 1 .. Len(t.files) : \A k \in 1 .. Len(t.files[i].path) :
             t.files[i].path[k] \in Videos =>
                 Entry(t.files[i].path[k], t.files[i].size) \in ToSet(AddFiles(ValuesOf(t)))
<1> DEFINE many == ValuesOf(t)
           N == Len(many)
           S == Seq(Entries)
           Step(r, k) == AddFile(r, many[k])
           step == [p \in S \X (1 .. N) |-> Step(p[1], p[2])]
           Is(r) == r = [k \in 0 .. N |-> IF k = 0 THEN <<>> ELSE Step(r[k - 1], k)]
           upTo == CHOOSE r : Is(r)
           Shows(r, i) == \A k \in 1 .. Len(t.files[i].path) : t.files[i].path[k] \in Videos =>
                              Entry(t.files[i].path[k], t.files[i].size) \in ToSet(r)
<1>1. AddFiles(many) = upTo[N]
  BY DEF AddFiles
<1>2. /\ N \in Nat /\ N = Len(t.files) /\ \A k \in 1 .. N : t.files[k] \in FilesHeld
      /\ \A k \in 1 .. N : many[k] = ValueOfFile(t.files[k])
  <2> DEFINE V == {many[k] : k \in 1 .. Len(t.files)}
             n == Len(t.files)
  <2>1. n \in Nat /\ DOMAIN t.files = 1 .. n /\ \A k \in 1 .. n : t.files[k] \in FilesHeld
    OBVIOUS
  <2>2. many \in [1 .. n -> V] /\ \A k \in 1 .. n : many[k] = ValueOfFile(t.files[k])
    BY <2>1 DEF ValuesOf
  <2> HIDE DEF V, many, n
  <2>3. many \in Seq(V) /\ Len(many) = n
    BY <2>1, <2>2
  <2>4. QED
    BY <2>1, <2>2, <2>3 DEF n
<1> HIDE DEF many
<1>3. ASSUME NEW r \in S, NEW k \in 1 .. N
      PROVE  /\ Step(r, k) \in S /\ Shows(Step(r, k), k)
             /\ \A x \in ToSet(r) : x \in ToSet(Step(r, k))
  <2>1. Step(r, k) = AddFile(r, ValueOfFile(t.files[k])) /\ t.files[k] \in FilesHeld
    BY <1>2
  <2> HIDE DEF Step
  <2>2. QED
    BY <2>1, AddFileAdds
<1> HIDE DEF N, Step
<1>4. step \in Steps(S, N)
  BY <1>3 DEF Steps
<1>5. \A r \in S : \A k \in 1 .. N : step[<<r, k>>] = Step(r, k)
  OBVIOUS
<1>6. <<>> \in S
  OBVIOUS
<1> HIDE DEF S, step
<1>7. PICK g : Repeats(g, N, S, <<>>, step)
  BY <1>2, <1>4, <1>6, Recursion
<1>8. ASSUME NEW k \in 1 .. N PROVE g[k] = Step(g[k - 1], k)
  <2>1. k - 1 \in 0 .. N /\ g[k - 1] \in S
    BY <1>2, <1>7 DEF Repeats
  <2>2. QED
    BY <1>5, <1>7, <2>1 DEF Repeats
<1>9. g \in [0 .. N -> S] /\ g[0] = <<>>
  BY <1>7 DEF Repeats
<1>10. Is(g)
  BY <1>2, <1>8, <1>9
<1>11. Is(upTo)
  BY <1>10
<1> HIDE DEF upTo
<1>12. upTo[0] = <<>> /\ \A k \in 1 .. N : upTo[k] = Step(upTo[k - 1], k)
  BY <1>2, <1>11
<1> DEFINE Good == {k \in 0 .. N : upTo[k] \in S /\ \A i \in 1 .. k : Shows(upTo[k], i)}
<1>13. 0 \in Good
  BY <1>2, <1>6, <1>12
<1>14. ASSUME NEW k \in 1 .. N, k - 1 \in Good PROVE k \in Good
  <2> DEFINE r == upTo[k - 1]
             s == upTo[k]
  <2>1. r \in S /\ \A i \in 1 .. (k - 1) : Shows(r, i)
    BY <1>14
  <2>2. s = Step(r, k)
    BY <1>12
  <2> HIDE DEF r, s
  <2>3. s \in S /\ Shows(s, k) /\ \A x \in ToSet(r) : x \in ToSet(s)
    BY <1>3, <2>1, <2>2
  <2>4. ASSUME NEW i \in 1 .. k PROVE Shows(s, i)
    <3>1. CASE i = k
      BY <2>3, <3>1
    <3>2. CASE i # k
      <4>1. i \in 1 .. (k - 1)
        BY <1>2, <3>2
      <4>2. Shows(r, i)
        BY <2>1, <4>1
      <4>3. QED
        BY <2>3, <4>2
    <3>3. QED
      BY <3>1, <3>2
  <2>5. k \in 0 .. N
    BY <1>2
  <2>6. QED
    BY <2>3, <2>4, <2>5 DEF s
<1>15. N \in Good
  <2> HIDE DEF Good
  <2>1. \A k \in 0 .. N : k \in Good
    BY <1>2, <1>13, <1>14, UpTo
  <2>2. QED
    BY <1>2, <2>1
<1>16. \A i \in 1 .. N : Shows(upTo[N], i)
  BY <1>15
<1>17. QED
  BY <1>1, <1>2, <1>16 DEF many

(* Lemma: a torrent for one file lists it when its name ends like a video, *)
(* one for several lists file by file, and nothing of a broken one is      *)
(* listed.                                                                  *)
LEMMA ListingOf ==
  ASSUME NEW t \in TorrentsHeld, NoName \notin Parts
  PROVE  /\ ~Readable(t) => Listing(Write(t)) = <<>>
         /\ Readable(t) /\ t.single =>
                Listing(Write(t)) = AddToFiles(<<>>, t.files[1].path[1], t.files[1].size)
         /\ Readable(t) /\ ~t.single => Listing(Write(t)) = AddFiles(ValuesOf(t))
<1> DEFINE read == Decoder(Write(t))
           top == DictionaryOf(MapOfTorrent(t))
           i0 == DictionaryOf(MapOfInfo(t))
           info == GetValue(read.value, "info")
           many == GetValue(info, "files")
           name == GetValue(info, "name")
           length == GetValue(info, "length")
           one == AddToFiles(<<>>, name.text, length.number)
           all == AddFiles(many.items)
           texts == Text(t.files[1].path[1])
           sizes == Number(t.files[1].size)
           lists == ListOf(ValuesOf(t))
<1>1. Listing(Write(t)) = IF read.is = "exception" THEN <<>> ELSE IF many # Null THEN all ELSE one
  BY DEF Listing
<1>2. /\ Readable(t) => read = Read(top)
      /\ ~Readable(t) => read = Exception
  BY DecoderAnswers
<1>3. ASSUME NEW v PROVE LET r == Read(v) IN r.is = "value" /\ r.value = v
  BY DEF Read
<1>4. LET r == Exception IN r.is = "exception"
  BY DEF Exception
<1>5. GetValue(top, "info") = i0 /\ (~t.single => GetValue(i0, "files") = lists)
  BY InfoFields
<1>6. t.single => GetValue(i0, "files") = Null
  BY InfoFields
<1>7. t.single => GetValue(i0, "name") = texts /\ GetValue(i0, "length") = sizes
  BY InfoFields
<1>8. texts.text = t.files[1].path[1] /\ sizes.number = t.files[1].size
  BY DEF Text, Number
<1>9. lists.is = "list" /\ lists.items = ValuesOf(t) /\ lists # Null
  BY DEF ListOf, Null
<1> HIDE DEF top, i0, texts, sizes, lists, read
<1>10. ASSUME Readable(t) PROVE read.is = "value" /\ info = i0
  <2> DEFINE r == Read(top)
  <2>1. r.is = "value" /\ r.value = top
    BY <1>3
  <2>2. read = r
    BY <1>2, <1>10
  <2> HIDE DEF r
  <2>3. read.is = "value" /\ read.value = top
    BY <2>1, <2>2
  <2>4. QED
    BY <1>5, <2>3, Zenon
<1>11. ASSUME ~Readable(t) PROVE read.is = "exception"
  <2> DEFINE r == Exception
  <2>1. r.is = "exception"
    BY <1>4
  <2>2. read = r
    BY <1>2, <1>11
  <2> HIDE DEF r
  <2>3. QED
    BY <2>1, <2>2
<1>12. ASSUME Readable(t), t.single
       PROVE  many = Null /\ name = texts /\ length = sizes
  BY <1>6, <1>7, <1>10, <1>12, Zenon
<1>13. ASSUME Readable(t), ~t.single PROVE many = lists
  BY <1>5, <1>10, <1>13, Zenon
<1> HIDE DEF many, name, length
<1>14. ASSUME Readable(t), t.single
       PROVE  Listing(Write(t)) = AddToFiles(<<>>, t.files[1].path[1], t.files[1].size)
  <2>1. name.text = t.files[1].path[1] /\ length.number = t.files[1].size
    BY <1>8, <1>12, <1>14
  <2>2. one = AddToFiles(<<>>, t.files[1].path[1], t.files[1].size)
    BY <2>1, Zenon
  <2> HIDE DEF one, all
  <2>3. Listing(Write(t)) = one
    BY <1>1, <1>10, <1>12, <1>14
  <2>4. QED
    BY <2>2, <2>3, Zenon
<1>15. ASSUME Readable(t), ~t.single PROVE Listing(Write(t)) = AddFiles(ValuesOf(t))
  <2>1. many.items = ValuesOf(t) /\ many # Null
    BY <1>9, <1>13, <1>15
  <2>2. all = AddFiles(ValuesOf(t))
    BY <2>1, Zenon
  <2> HIDE DEF one, all
  <2>3. Listing(Write(t)) = all
    BY <1>1, <1>10, <1>15, <2>1
  <2>4. QED
    BY <2>2, <2>3, Zenon
<1>16. ASSUME ~Readable(t) PROVE Listing(Write(t)) = <<>>
  BY <1>1, <1>11, <1>16
<1>17. QED
  BY <1>14, <1>15, <1>16

(* Lemma: every part of a path that ends like a video is in the list of a   *)
(* torrent that can be read.                                                *)
LEMMA ListingShows ==
  ASSUME NEW t \in TorrentsHeld, NoName \notin Parts
  PROVE  /\ ~Readable(t) => Listing(Write(t)) = <<>>
         /\ Readable(t) => \A i \in 1 .. Len(t.files) : \A k \in 1 .. Len(t.files[i].path) :
                t.files[i].path[k] \in Videos =>
                    Entry(t.files[i].path[k], t.files[i].size) \in ToSet(Listing(Write(t)))
<1> DEFINE L == Listing(Write(t))
<1>1. /\ ~Readable(t) => L = <<>>
      /\ Readable(t) /\ t.single => L = AddToFiles(<<>>, t.files[1].path[1], t.files[1].size)
      /\ Readable(t) /\ ~t.single => L = AddFiles(ValuesOf(t))
  BY ListingOf
<1> HIDE DEF L
<1>2. t.files \in Seq(FilesHeld)
  BY DEF TorrentsHeld
<1>3. ASSUME Readable(t), t.single,
             NEW i \in 1 .. Len(t.files), NEW k \in 1 .. Len(t.files[i].path),
             t.files[i].path[k] \in Videos
      PROVE  Entry(t.files[i].path[k], t.files[i].size) \in ToSet(L)
  <2>1. Len(t.files) = 1 /\ Len(t.files[1].path) = 1 /\ t.files[1] \in FilesHeld
    BY <1>2, <1>3 DEF TorrentsHeld
  <2>2. i = 1 /\ k = 1
    BY <1>3, <2>1
  <2> DEFINE p == t.files[1].path[1]
             n == t.files[1].size
  <2>3. p \in Parts /\ n \in Nat /\ p \in Videos
    BY <1>3, <2>1, <2>2 DEF FilesHeld
  <2>4. L = AddToFiles(<<>>, p, n)
    BY <1>1, <1>3
  <2>5. <<>> \in Seq(Entries)
    OBVIOUS
  <2> HIDE DEF p, n
  <2>6. Entry(p, n) \in ToSet(L)
    BY <2>3, <2>4, <2>5, AddToFilesAdds
  <2>7. QED
    BY <2>2, <2>6 DEF p, n
<1>4. ASSUME Readable(t), ~t.single
      PROVE  \A i \in 1 .. Len(t.files) : \A k \in 1 .. Len(t.files[i].path) :
                t.files[i].path[k] \in Videos =>
                    Entry(t.files[i].path[k], t.files[i].size) \in ToSet(L)
  <2>1. L = AddFiles(ValuesOf(t))
    BY <1>1, <1>4
  <2>2. QED
    BY <1>2, <2>1, AddFilesAdds
<1>5. QED
  BY <1>1, <1>3, <1>4 DEF L

(* Lemma: what the screen opens is such a torrent, and libtorrent names its *)
(* files by the last parts of their paths.                                  *)
LEMMA TorrentsTyped ==
  ASSUME NEW t \in Torrents
  PROVE  /\ t \in TorrentsHeld
         /\ Native(t) \in Seq(File) /\ Native(t) # <<>> /\ DOMAIN Native(t) = 1 .. Len(t.files)
         /\ \A i \in 1 .. Len(t.files) :
                LET path == t.files[i].path IN
                Len(path) \in 1 .. Len(path)
                    /\ Native(t)[i] = [name |-> path[Len(path)], size |-> t.files[i].size]
<1> DEFINE F == [path : Paths, size : Sizes]
           C == {<<>>, <<NoName>>, <<"text">>}
<1>1. PICK n \in 1 .. MaxFiles :
          t \in [files : [1 .. n -> F], single : BOOLEAN, comment : C, cut : {0, 1, 4}]
  BY DEF Torrents
<1>2. t.files \in [1 .. n -> F]
  BY <1>1
<1>3. n \in Nat /\ n >= 1
  BY FileAssumption
<1>4. t.files \in Seq(F) /\ Len(t.files) = n /\ DOMAIN t.files = 1 .. n
  <2> HIDE DEF F
  <2>1. QED
    BY <1>2, <1>3
<1>5. \A i \in 1 .. n : t.files[i].path \in Paths /\ t.files[i].size \in Sizes
  BY <1>2
<1>6. ASSUME NEW path \in Paths
      PROVE  path \in Seq(Parts) /\ Len(path) >= 1 /\ Len(path) \in Nat /\ path[Len(path)] \in Names
  <2>1. path \in Seq(Parts) /\ path # <<>> /\ Last(path) \in Names
    BY PathAssumption
  <2>2. Last(path) = path[Len(path)]
    BY DEF Last
  <2>3. QED
    BY <2>1, <2>2
<1>7. t.files \in Seq(FilesHeld)
  <2>1. F \subseteq FilesHeld
    <3>1. \A path \in Paths : path \in Seq(Parts)
      BY <1>6
    <3>2. Sizes \subseteq Nat
      BY FileAssumption
    <3>3. QED
      BY <3>1, <3>2 DEF FilesHeld
  <2> HIDE DEF F
  <2>2. t.files \in [1 .. n -> FilesHeld]
    BY <1>2, <2>1
  <2>3. QED
    BY <1>3, <2>2
<1>8. t.single => Len(t.files) = 1 /\ Len(t.files[1].path) = 1
  BY DEF Torrents
<1>9. t \in TorrentsHeld
  <2>1. \A i \in 1 .. Len(t.files) : Len(t.files[i].path) >= 1
    BY <1>4, <1>5, <1>6
  <2>2. t \in [files : Seq(FilesHeld), single : BOOLEAN, comment : C, cut : {0, 1, 4}]
    <3> HIDE DEF F, C
    <3>1. QED
      BY <1>1, <1>7
  <2>3. QED
    BY <1>3, <1>4, <1>8, <2>1, <2>2 DEF TorrentsHeld
<1> DEFINE N == Native(t)
<1>10. /\ N = [i \in 1 .. n |-> N[i]]
       /\ \A i \in 1 .. n : N[i] = [name |-> Last(t.files[i].path), size |-> t.files[i].size]
  BY <1>4 DEF Native
<1> HIDE DEF N
<1>11. ASSUME NEW i \in 1 .. n
       PROVE  LET path == t.files[i].path IN
              /\ Len(path) \in 1 .. Len(path)
              /\ N[i] = [name |-> path[Len(path)], size |-> t.files[i].size] /\ N[i] \in File
  <2> DEFINE path == t.files[i].path
             s == t.files[i].size
  <2>1. path \in Paths /\ s \in Sizes
    BY <1>5
  <2> HIDE DEF path, s
  <2>2. Len(path) >= 1 /\ Len(path) \in Nat /\ path[Len(path)] \in Names
    BY <1>6, <2>1
  <2>3. N[i] = [name |-> path[Len(path)], size |-> s]
    BY <1>10 DEF Last, path, s
  <2>4. N[i] \in File
    BY <2>1, <2>2, <2>3 DEF File
  <2>5. QED
    BY <2>2, <2>3, <2>4 DEF path, s
<1>12. N \in [1 .. n -> File]
  BY <1>10, <1>11
<1>13. N \in Seq(File) /\ N # <<>> /\ DOMAIN N = 1 .. Len(t.files)
  BY <1>3, <1>4, <1>12
<1>14. QED
  BY <1>4, <1>9, <1>11, <1>13 DEF N

(* When the file that was asked for is there, the last call has returned    *)
(* one of its name, with what its size is reported as, and these are        *)
(* loaded.                                                                  *)
NamedChosen ==
    calls > 0 /\ Named # {} =>
        location \in Named /\ size = Reported(files[location].size) /\ Wanted = Named

ScreenInv ==
    /\ torrent \in Torrents /\ files = Native(torrent)
    /\ opened \in BOOLEAN /\ (opened => listed = Listing(Write(torrent)))
    /\ FileTypeOK
    /\ NamedChosen

(* Lemma: any call keeps the types, and what is chosen by name.             *)
LEMMA ChosenKept ==
  ASSUME FileTypeOK, NEW name, SetFilePriority(name)
  PROVE  files' = files /\ FileTypeOK' /\ NamedChosen'
<1>1. /\ files' = files /\ fileName' = name /\ calls' = calls + 1
      /\ ChooseByName(name) \/ ChooseBySize(name)
  BY DEF SetFilePriority
<1>2. priority' \in [DOMAIN files -> {DONT_DOWNLOAD, NORMAL}] /\ OnlyReturnedWanted'
  BY <1>1, ByNameWanted, BySizeWanted
<1>3. FileTypeOK'
  BY <1>1, <1>2 DEF FileTypeOK
<1>4. Named' = {i \in DOMAIN files : files[i].name = name}
  BY <1>1 DEF Named
<1>5. /\ Named' = {} <=> Matching(name) = 0
      /\ Matching(name) # 0 => Matching(name) \in Named'
  BY <1>4, MatchingLast
<1>6. CASE ChooseByName(name)
  <2>1. location' = Matching(name) /\ size' = Reported(files[Matching(name)].size)
    BY <1>6 DEF ChooseByName
  <2>2. location' \in Named' /\ size' = Reported(files'[location'].size)
    BY <1>1, <1>5, <1>6, <2>1 DEF ChooseByName
  <2>3. Named' # {} => Wanted' = Named'
    BY <1>2 DEF OnlyReturnedWanted
  <2>4. QED
    BY <1>1, <1>3, <2>2, <2>3 DEF NamedChosen
<1>7. CASE ChooseBySize(name)
  <2>1. Named' = {}
    BY <1>5, <1>7 DEF ChooseBySize
  <2>2. QED
    BY <1>1, <1>3, <2>1 DEF NamedChosen
<1>8. QED
  BY <1>1, <1>6, <1>7

(* Lemma: what the screen shows and what was chosen by name make a picked   *)
(* video the one that is loaded.                                            *)
LEMMA ScreenShows == ScreenInv => PickedIsLoaded
<1> SUFFICES ASSUME ScreenInv PROVE PickedIsLoaded
  OBVIOUS
<1> DEFINE t == torrent
           n == Len(t.files)
<1>1. t \in Torrents /\ files = Native(t)
  BY DEF ScreenInv
<1>2. /\ t \in TorrentsHeld /\ DOMAIN files = 1 .. n
      /\ \A i \in 1 .. n :
             LET path == t.files[i].path IN
             Len(path) \in 1 .. Len(path)
                 /\ files[i] = [name |-> path[Len(path)], size |-> t.files[i].size]
  BY <1>1, TorrentsTyped
<1>3. opened => listed = Listing(Write(t))
  BY DEF ScreenInv
<1> HIDE DEF t, n
<1>4. ASSUME opened, ~Readable(t) PROVE listed = <<>>
  BY <1>2, <1>3, <1>4, PathAssumption, ListingShows
<1>5. ASSUME opened, Readable(t), NEW i \in 1 .. n, files[i].name \in Videos
      PROVE  Shown(i) \in ToSet(listed)
  <2> DEFINE path == t.files[i].path
             l == Len(path)
             s == t.files[i].size
  <2>1. l \in 1 .. l /\ files[i] = [name |-> path[l], size |-> s]
    BY <1>2
  <2>2. path[l] \in Videos => Entry(path[l], s) \in ToSet(Listing(Write(t)))
    <3>1. l \in 1 .. Len(t.files[i].path) /\ i \in 1 .. Len(t.files)
      BY <2>1 DEF n
    <3>2. QED
      BY <1>2, <1>5, <3>1, PathAssumption, ListingShows
  <2> HIDE DEF path, l, s
  <2>3. files[i].name = path[l] /\ files[i].size = s
    BY <2>1
  <2>4. QED
    BY <1>3, <1>5, <2>2, <2>3 DEF Shown
<1>6. ASSUME calls > 0, NEW i \in 1 .. n, Named = {i}, Shown(i) = picked
      PROVE  location = i /\ size = Reported(picked.size) /\ Wanted = {i}
  <2>1. location = i /\ size = Reported(files[i].size) /\ Wanted = {i}
    BY <1>6 DEF ScreenInv, NamedChosen
  <2>2. picked.size = files[i].size
    BY <1>6 DEF Shown, Entry
  <2>3. QED
    BY <2>1, <2>2
<1>7. QED
  BY <1>2, <1>4, <1>5, <1>6 DEF PickedIsLoaded, t

(* Every video of a whole torrent is in the list of the screen with its     *)
(* size, nothing of a broken one is, and the file that is loaded is the one *)
(* that was picked, if no other has its name: for any names, sizes, number  *)
(* of files and depth of their paths, and whatever is called before.        *)
THEOREM PickedIsWhatIsLoaded == TorrentSpec => []PickedIsLoaded
<1>1. ScreenInit => ScreenInv
  <2> SUFFICES ASSUME ScreenInit PROVE ScreenInv
    OBVIOUS
  <2>1. /\ torrent \in Torrents /\ files = Native(torrent)
        /\ opened \in BOOLEAN /\ ~opened /\ calls = 0
    BY DEF ScreenInit, Added
  <2>2. priority \in [DOMAIN files -> {DONT_DOWNLOAD, NORMAL}]
    BY DEF ScreenInit, Added
  <2>3. files \in Seq(File) /\ files # <<>>
    BY <2>1, TorrentsTyped
  <2>4. FileTypeOK
    BY <2>1, <2>2, <2>3 DEF FileTypeOK
  <2>5. QED
    BY <2>1, <2>4 DEF ScreenInv, NamedChosen
<1>2. ScreenInv /\ [ScreenNext]_<<vars, screenVars>> => ScreenInv'
  <2> SUFFICES ASSUME ScreenInv, [ScreenNext]_<<vars, screenVars>> PROVE ScreenInv'
    OBVIOUS
  <2>1. ASSUME UNCHANGED <<vars, torrent>>,
               opened' \in BOOLEAN, opened' => listed' = Listing(Write(torrent))
        PROVE  ScreenInv'
    <3>1. NamedChosen' /\ FileTypeOK'
      BY <2>1 DEF ScreenInv, NamedChosen, FileTypeOK, Named, Wanted, vars
    <3>2. torrent' \in Torrents /\ files' = Native(torrent')
      BY <2>1 DEF ScreenInv, vars
    <3>3. QED
      BY <2>1, <3>1, <3>2 DEF ScreenInv
  <2>2. ASSUME NEW name, SetFilePriority(name), UNCHANGED screenVars PROVE ScreenInv'
    <3>1. files' = files /\ FileTypeOK' /\ NamedChosen'
      BY <2>2, ChosenKept DEF ScreenInv
    <3>2. QED
      BY <2>2, <3>1 DEF ScreenInv, screenVars
  <2>3. CASE ParseMetadata
    BY <2>1, <2>3 DEF ParseMetadata
  <2>4. CASE HandleWatch
    BY <2>2, <2>4 DEF HandleWatch
  <2>5. CASE WatchFromCatalogue
    BY <2>2, <2>5 DEF WatchFromCatalogue, Next
  <2>6. ASSUME NEW p \in DOMAIN listed, OnItemSelected(p) PROVE ScreenInv'
    BY <2>1, <2>6 DEF OnItemSelected, ScreenInv
  <2>7. CASE UNCHANGED <<vars, screenVars>>
    BY <2>1, <2>7 DEF screenVars, ScreenInv
  <2>8. QED
    BY <2>3, <2>4, <2>5, <2>6, <2>7 DEF ScreenNext
<1>3. QED
  BY <1>1, <1>2, ScreenShows, PTL DEF TorrentSpec
=============================================================================
