---------------------------- MODULE DownloadLife ----------------------------
(***************************************************************************)
(* What the download manager promises of every download, without the       *)
(* worker, the table, the files and the session that keep the promise: it  *)
(* is asked for once, is kept from the moment its torrent file is there    *)
(* until the user wants it removed, transfers data only while it is kept,  *)
(* and never comes back.  TorrentServiceRefinement maps the code to this.  *)
(***************************************************************************)
CONSTANT Downloads

VARIABLES
    stage,     \* of each download
    unwanted,  \* downloads with a request to remove them that is not served yet
    running    \* downloads whose torrent transfers data

vars == <<stage, unwanted, running>>

Stages == {"new", "asked", "kept", "gone"}

In(s) == {d \in Downloads : stage[d] = s}

Init ==
    /\ stage = [d \in Downloads |-> "new"]
    /\ unwanted = {} /\ running = {}

Becomes(D, s) == stage' = [d \in Downloads |-> IF d \in D THEN s ELSE stage[d]]

Ask(d) ==
    /\ d \in In("new")
    /\ Becomes({d}, "asked")
    /\ UNCHANGED <<unwanted, running>>

\* The torrent file has arrived, and can be read.
Keep(d) ==
    /\ d \in In("asked")
    /\ Becomes({d}, "kept")
    /\ UNCHANGED <<unwanted, running>>

\* What was never kept may fail, or be lost with the process; what is kept goes
\* only if it is unwanted and transfers no more data.
Drop(D) ==
    /\ D \subseteq In("asked") \cup (In("kept") \cap unwanted)
    /\ D \cap running = {}
    /\ Becomes(D, "gone")
    /\ unwanted' \in SUBSET unwanted /\ running' \in SUBSET running

\* The user asks for removals, and they are served.
Want == unwanted' \in SUBSET Downloads /\ UNCHANGED <<stage, running>>

\* Torrents are added, paused, resumed and removed.
Transfer == running' \in SUBSET In("kept") /\ UNCHANGED <<stage, unwanted>>

Next ==
    \/ \E d \in Downloads : Ask(d) \/ Keep(d)
    \/ \E D \in SUBSET Downloads : Drop(D)
    \/ Want \/ Transfer

Spec == Init /\ [][Next]_vars
=============================================================================
