----------------------------- MODULE MCPlayback -----------------------------
(* Instances of Playback for TLC: one download, or none, beside the         *)
(* contents that are only watched.                                          *)
EXTENDS Playback

MCContentOf == [d \in Downloads |-> "film"]
MCPlaces    == 0 .. MaxDownloads
=============================================================================
