----------------------------- MODULE PoolFilesMC -----------------------------
(* Two disks, of which one is cloned, or which are given one path; and two  *)
(* configurations of a cloud-init directory, one with a network-config.     *)
EXTENDS PoolFiles, TLC

CONSTANTS d1, d2, q1, base, clone, image, full, zero, text, other

MCDisk == {d1, d2}
MCPool == {q1}
MCPath == {base, clone}
MCPoolOf == [p \in MCPath |-> q1]
MCImage == {image}
MCContents == image :> <<full>>
MCBlock == {full, zero}

\* The copied image with room added, clones of it, one of which would have to
\* shrink, and a blank disk.
MCPlan ==
    {[path |-> base, from |-> image, size |-> 2]} \cup
    {[path |-> clone, from |-> base, size |-> n] : n \in {1, None}} \cup
    {[path |-> clone, from |-> None, size |-> 1]}

MCData == {text, other}
MCConfig ==
    {"user-data" :> text @@ "meta-data" :> text @@ "network-config" :> Absent,
     "user-data" :> other @@ "meta-data" :> text @@ "network-config" :> text}

MCSymmetry == Permutations(MCDisk)

=============================================================================
