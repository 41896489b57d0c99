--------------------------- MODULE SubtitleChoice ---------------------------
(***************************************************************************)
(* The list of subtitles of the selected episode (VideoTVShowFragment over *)
(* Subtitles): every selection clears the list and asks for that of the    *)
(* episode; the answer passes the looper twice, as the result of the       *)
(* loader and as a message of Subtitles, with the clicks of the user in    *)
(* between.                                                                *)
(***************************************************************************)
EXTENDS Integers, SequencesExt

CONSTANTS
    Episodes,
    Languages,      \* that subtitles are in
    SubLang,        \* the one the settings prefer
    MaxSelections,  \* bound: selections of an episode
    MaxSubtitles    \* bound: subtitles of an episode

ASSUME ChoiceAssumption ==
    SubLang \in Languages /\ MaxSelections \in Nat /\ MaxSubtitles \in Nat

VARIABLES
    episode,    \* selected
    list,       \* data with urls: languages and the episode they are for, or NoList
    position,   \* in the list, from 0 on
    selections, \* of episodes; its value names the request of the last one
    loading,    \* the loader of the last request runs
    looper,     \* results and answers that wait, in order
    chosen,     \* the user has chosen from the list
    crashed,    \* an answer without a text has ended the application
    overtaken   \* history: an answer was handled after the next selection

choiceVars == <<episode, list, position, selections, loading, looper, chosen, crashed,
                overtaken>>

Without == "none"
NoList  == [of |-> "no episode", languages |-> <<>>]

\* An error and a count of 0 change nothing, an error without a message comes as
\* an answer without a text.  A list that breaks off is the list of what was read
\* before.
Nothing == [is |-> "nothing"]
NoText  == [is |-> "no text"]
Answers == {Nothing, NoText} \cup {[is |-> "list", languages |-> l] : l \in SeqOf(Languages, MaxSubtitles)}

Message(what, answer) == [what |-> what, request |-> selections, of |-> episode, answer |-> answer]

-----------------------------------------------------------------------------
RestartLoader_KeepPosition ==
    /\ list' = NoList /\ UNCHANGED position
    /\ loading' = TRUE

RestartLoader ==
    /\ list' = NoList /\ position' = 0
    /\ loading' = TRUE

\* An episode is clicked, or the first one of a season that is.
OnItemClick(e) ==
    /\ selections < MaxSelections /\ selections' = selections + 1
    /\ episode' = e
    /\ RestartLoader
    /\ chosen' = FALSE /\ overtaken' = FALSE
    /\ UNCHANGED <<looper, crashed>>

\* The task of the loader has the text of the answer.
LoadEnds(answer) ==
    /\ loading /\ loading' = FALSE
    /\ looper' = Append(looper, Message("result", answer))
    /\ UNCHANGED <<episode, list, position, selections, chosen, crashed, overtaken>>

\* Only the loader that was restarted last delivers.
OnLoadFinished ==
    /\ looper # <<>> /\ Head(looper).what = "result"
    /\ looper' = IF Head(looper).request = selections
                   THEN Append(Tail(looper), [Head(looper) EXCEPT !.what = "answer"])
                   ELSE Tail(looper)
    /\ UNCHANGED <<episode, list, position, selections, loading, chosen, crashed, overtaken>>

\* The last subtitles in the preferred language; without one the position
\* stays what it is.
PositionIn(languages) ==
    IF SubLang \in ToSet(languages) THEN SelectLastInSeq(languages, LAMBDA l : l = SubLang) ELSE position

\* onSubtitleLoadSucces only catches what is no JSON, not that there is no text.
ParseTVShows(m) ==
    /\ crashed' = (m.answer = NoText)
    /\ IF m.answer \in {Nothing, NoText}
         THEN UNCHANGED <<list, position>>
         ELSE /\ list' = [of |-> m.of, languages |-> <<Without>> \o m.answer.languages]
              /\ position' = PositionIn(m.answer.languages)

\* The messages without the answers among them.
NoAnswers(messages) ==
    LET upTo[k \in 0 .. Len(messages)] ==
            IF k = 0 THEN <<>>
            ELSE IF messages[k].what = "answer" THEN upTo[k - 1]
            ELSE Append(upTo[k - 1], messages[k])
    IN  upTo[Len(messages)]

\* The message is handled whoever is selected now; others of its kind are
\* removed.
HandleMessage ==
    /\ looper # <<>> /\ Head(looper).what = "answer"
    /\ ParseTVShows(Head(looper))
    /\ looper' = NoAnswers(Tail(looper))
    /\ overtaken' = (overtaken \/ Head(looper).request # selections)
    /\ UNCHANGED <<episode, selections, loading, chosen>>

\* The spinner is only visible with a list.
OnSubtitleSelected(p) ==
    /\ list # NoList
    /\ position' = p - 1 /\ chosen' = TRUE
    /\ UNCHANGED <<episode, list, selections, loading, looper, crashed, overtaken>>

-----------------------------------------------------------------------------
ChoiceInit ==
    /\ episode \in Episodes /\ list = NoList /\ position = 0
    /\ selections = 1 /\ loading = TRUE /\ looper = <<>>
    /\ chosen = FALSE /\ crashed = FALSE /\ overtaken = FALSE

ChoiceNext ==
    /\ ~crashed
    /\ \/ OnLoadFinished \/ HandleMessage
       \/ \E e \in Episodes : OnItemClick(e)
       \/ \E answer \in Answers : LoadEnds(answer)
       \/ \E p \in DOMAIN list.languages : OnSubtitleSelected(p)

ChoiceSpec == ChoiceInit /\ [][ChoiceNext]_choiceVars

-----------------------------------------------------------------------------
Chosen == list.languages[position + 1]

(* A list that is shown, and that "watch now" gives to the player with the  *)
(* position, is of the selected episode, and what it stands at before the   *)
(* user chooses is the preferred language or, without it, no subtitles;     *)
(* unless an answer was overtaken by the selection of another episode.      *)
SubtitlesOfEpisode ==
    list # NoList /\ ~overtaken =>
        /\ list.of = episode
        /\ position + 1 \in DOMAIN list.languages
        /\ ~chosen => Chosen = IF SubLang \in ToSet(list.languages) THEN SubLang ELSE Without
=============================================================================
