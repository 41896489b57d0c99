-------------------------- MODULE MCTorrentService --------------------------
(* Instances of TorrentService: three downloads, the first two of one       *)
(* content; the last one a local torrent file.                              *)
EXTENDS TorrentServiceRefinement

MCContentOf == [d \in Downloads |-> IF d <= 2 THEN "shared" ELSE "other"]
MCDistinct  == [d \in Downloads |-> IF d = 1 THEN "shared" ELSE "other"]
MCPlaces    == 0 .. MaxDownloads
=============================================================================
