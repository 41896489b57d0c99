---------------------------- MODULE MCSmallParts ----------------------------
(***************************************************************************)
(* Four parts that share nothing: a torrent file opened from outside, the  *)
(* subtitles of a video, the list of them, and the session.  Each          *)
(* behaviour moves one of them.                                            *)
(***************************************************************************)
EXTENDS TorrentFile, SubtitleFile, SubtitleChoice, Session

VARIABLE part  \* the one that moves

parts == <<vars, screenVars, subtitleVars, choiceVars, sessionVars, part>>

MCPaths == {<<"film">>, <<"sample">>, <<"film", "notes">>, <<"extras", "film">>}

\* The state of a part that does not move.
SomeTorrent == CHOOSE t \in Torrents : TRUE
SomeEpisode == CHOOSE e \in Episodes : TRUE

MCInit ==
    /\ part \in {"torrent", "subtitles", "list", "session"}
    /\ ScreenInit /\ SubtitleInit /\ ChoiceInit /\ SessionInit
    /\ part # "torrent" => torrent = SomeTorrent
    /\ part # "list" => episode = SomeEpisode
    /\ part # "session" => enabled = FALSE

TorrentStep ==
    /\ part = "torrent" /\ ScreenNext
    /\ UNCHANGED <<subtitleVars, choiceVars, sessionVars, part>>

SubtitlesStep ==
    /\ part = "subtitles" /\ SubtitleNext
    /\ UNCHANGED <<vars, screenVars, choiceVars, sessionVars, part>>

ListStep ==
    /\ part = "list" /\ ChoiceNext
    /\ UNCHANGED <<vars, screenVars, subtitleVars, sessionVars, part>>

SessionStep ==
    /\ part = "session" /\ SessionNext
    /\ UNCHANGED <<vars, screenVars, subtitleVars, choiceVars, part>>

MCNext == TorrentStep \/ SubtitlesStep \/ ListStep \/ SessionStep

MCSpec == MCInit /\ [][MCNext]_parts
=============================================================================
