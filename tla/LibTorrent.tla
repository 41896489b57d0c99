----------------------------- MODULE LibTorrent -----------------------------
(***************************************************************************)
(* The torrents of the native session, as libtorrent.cpp keeps them: the   *)
(* map gTorrents from the name of a content to its handle.  A torrent file *)
(* has no other identity, so two torrent files with one content name share *)
(* one handle, and the second AddTorrent adds nothing.                     *)
(*                                                                         *)
(* The session is ready and each handle of the map is valid: gSessionState *)
(* becomes FALSE only when a call on the session has thrown, which is in   *)
(* Session, and a call on a handle throws, and erases it from the map,     *)
(* when something else than RemoveTorrent has removed the torrent, which   *)
(* is in Prioritizer.  paused stands for "paused and not auto_managed":    *)
(* PauseTorrent and ResumeTorrent change the two together, and the queue   *)
(* that libtorrent has for auto_managed torrents is left out.              *)
(***************************************************************************)
EXTENDS Integers

CONSTANTS
    Contents,   \* names of contents, what GetTorrentName returns
    Places      \* directories a torrent can be saved in

Nowhere == -1
NoName  == "no name"

ASSUME PlaceAssumption   == Nowhere \notin Places
ASSUME ContentAssumption == NoName \notin Contents

VARIABLES
    savePath,   \* where each content of gTorrents is saved, Nowhere for the others
    paused      \* the contents of gTorrents that are paused

gTorrents == {c \in Contents : savePath[c] # Nowhere}

session == <<savePath, paused>>

SessionInit == savePath = [c \in Contents |-> Nowhere] /\ paused = {}

\* The file cannot be parsed, or its content is known already: nothing happens.
AddTorrent(place, name) ==
    IF name \in Contents \ gTorrents
      THEN savePath' = [savePath EXCEPT ![name] = place] /\ paused' = paused \ {name}
      ELSE UNCHANGED session

RemoveTorrent(name) ==
    IF name \in gTorrents
      THEN savePath' = [savePath EXCEPT ![name] = Nowhere] /\ paused' = paused \ {name}
      ELSE UNCHANGED session

PauseTorrent(name) ==
    /\ paused' = paused \cup ({name} \cap gTorrents)
    /\ UNCHANGED savePath

ResumeTorrent(name) == paused' = paused \ {name} /\ UNCHANGED savePath

SessionOK ==
    /\ savePath \in [Contents -> Places \cup {Nowhere}]
    /\ paused \subseteq gTorrents
=============================================================================
