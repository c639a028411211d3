-------------------------- MODULE BinaryExtractionMC --------------------------
(* Two releases of different sizes; the smaller is written in one chunk.    *)
EXTENDS BinaryExtraction, TLC

CONSTANTS oldRelease, newRelease

Releases == {oldRelease, newRelease}
SizeOf == (oldRelease :> 1) @@ (newRelease :> 2)

\* Processes are alike, and so are inodes.
Alike == Permutations(Process) \cup Permutations(Inode)
=============================================================================
