---------------------------- MODULE MCPrioritizer ----------------------------
(* Instances of Prioritizer for TLC.                                        *)
EXTENDS Prioritizer

\* The video after and before another file, the first of two files with
\* its name, shorter than the head that load asks for
\* at the end of the torrent, and no file at all.
MCLayouts == {2 .. 6, 0 .. 4, (0 .. 3) \cup {6}, 5 .. 6, {}}
MCSingleFile == {0 .. 5}
\* The engine starts with nothing, or with the scattered pieces of an
\* earlier, interrupted viewing.
MCNothing == {{}}
MCResumed == {{}, {1, 4}}
=============================================================================
