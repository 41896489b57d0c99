---------------------- MODULE TorrentServiceRefinement ----------------------
(***************************************************************************)
(* The download manager implements DownloadLife: the mapping from the      *)
(* table, the files, the session, the queue and the worker to the life of  *)
(* each download.                                                          *)
(***************************************************************************)
EXTENDS TorrentService

\* The row is in the table, with a torrent file that can be read.
Kept(d) == table[d] # NoRow /\ torrentFile[d] = "whole"

\* Its intent is in the queue, or the worker has just taken it.
Waiting(d) ==
    \/ \E i \in 1 .. Len(queue) : queue[i].action = "add" /\ queue[i].row = d
    \/ At("add", d)

\* It is in the table, or will be.
Present(d) == table[d] # NoRow \/ Waiting(d)

Stage == [d \in Downloads |->
    IF d \notin asked THEN "new"
    ELSE IF Kept(d) THEN "kept"
    ELSE IF Present(d) THEN "asked"
    ELSE "gone"]

\* "action" removes d when it is asked for row "row".
Removes(action, row, d) == action = "removeAll" \/ (action = "remove" /\ row = d)

Unwanted == {d \in Downloads :
    \/ Removes(work.action, work.row, d)
    \/ \E i \in 1 .. Len(queue) : Removes(queue[i].action, queue[i].row, d)}

Running == {savePath[c] : c \in gTorrents \ paused}

Life == INSTANCE DownloadLife WITH
    stage <- Stage, unwanted <- Unwanted, running <- Running

(* At every step of the worker, of the user, of the network and of the      *)
(* system, whatever was interrupted: a download whose torrent file could be *)
(* read leaves the table only on a request to remove it and only when its   *)
(* torrent transfers no more; none transfers before it has its row and its  *)
(* file; and a download that is gone never comes back, whatever requests    *)
(* are still queued for it.                                                 *)
ImplementsLife == Life!Spec
=============================================================================
