---------------------------- MODULE StorageProofs ----------------------------
(***************************************************************************)
(* Proofs about Storage, for any number of disks, pools and paths and for  *)
(* files of any size.                                                      *)
(***************************************************************************)
EXTENDS Storage, SequenceTheorems, TLAPS

Present == Writing \cup {"recorded"}

\* Two disks on one path have made it contested.
Exclusive ==
    \A d, e \in Disk :
        d # e /\ stage[d] # "none" /\ stage[e] # "none"
              /\ plan[d].path = plan[e].path
            => plan[d].path \in contested

\* A clone is not made from a contested path without being contested itself,
\* and the disk it is made from is there.
Sourced ==
    \A d \in Disk :
        /\ stage[d] \in {"open", "copy"}
        /\ plan[d].from \in Path
        /\ plan[d].path \notin contested
        => /\ plan[d].from \notin contested
           /\ \E e \in Disk :
                 stage[e] = "recorded" /\ plan[e].path = plan[d].from

\* Files and records are below directories that are there.
Placed ==
    /\ \A p \in Path : file[p] # None => PoolOf[p] \in dirs
    /\ \A q \in dirs : poolStage[q] # "none"
    /\ \A d \in Disk :
          /\ stage[d] # "none" => poolStage[PoolOf[plan[d].path]] # "deleting"
          /\ stage[d] \in Present => PoolOf[plan[d].path] \in dirs

\* A file is a residue or that of a disk whose Create has begun to write.
Owned ==
    \A p \in Path : file[p] # None =>
        \/ p \in residue
        \/ \E d \in Disk : stage[d] \in Present /\ plan[d].path = p

\* f holds the first n blocks of s.
Prefix(f, s, n) ==
    f \in File /\ n <= Len(s) /\ Len(f) = n /\ \A i \in 1 .. n : f[i] = s[i]

\* How far the file of a disk that is alone on its path has come.
Due(d) ==
    LET pl == plan[d]
        f  == file[pl.path]
    IN  /\ stage[d] \in {"open", "copy"} =>
              due[d] = Asked(pl) /\ (pl.from # None => At(pl.from) \in File)
        /\ stage[d] = "copy" =>
              pl.from # None /\ Prefix(f, At(pl.from), offset[d])
        /\ stage[d] = "fit" =>
              f \in File /\ due[d] = IF pl.size = None THEN f
                                     ELSE Truncated(f, pl.size)
        /\ stage[d] \in {"commit", "recorded"} => f \in File /\ due[d] = f

Progress ==
    \A d \in Disk :
        stage[d] # "none" /\ plan[d].path \notin contested => Due(d)

IInv == Exclusive /\ Sourced /\ Placed /\ Owned /\ Progress

-----------------------------------------------------------------------------
(* Contents.                                                               *)
LEMMA EmptyFile == <<>> \in File /\ Len(<<>>) = 0
  BY DEF File

LEMMA TruncatedFile ==
    ASSUME NEW f \in File, NEW n \in Nat
    PROVE  Truncated(f, n) \in File
<1>1. \A i \in 1 .. n : (IF i <= Len(f) THEN f[i] ELSE Zero) \in Block
  BY ZeroAssumption DEF File
<1> QED
  BY <1>1 DEF Truncated, File

LEMMA WrittenFile ==
    ASSUME NEW f \in File, NEW n \in Nat, NEW b \in Block
    PROVE  Written(f, n, b) \in File
<1> DEFINE m == IF Len(f) > n THEN Len(f) ELSE n + 1
<1>1. m \in Nat
  BY DEF File
<1>2. \A i \in 1 .. m :
          (IF i = n + 1 THEN b ELSE IF i <= Len(f) THEN f[i] ELSE Zero) \in Block
  BY ZeroAssumption DEF File
<1> HIDE DEF m
<1>3. [i \in 1 .. m |->
          IF i = n + 1 THEN b ELSE IF i <= Len(f) THEN f[i] ELSE Zero] \in File
  BY <1>1, <1>2 DEF File
<1> QED
  BY <1>3 DEF Written, m

LEMMA WrittenPrefix ==
    ASSUME NEW f, NEW s \in File, NEW n \in Nat, Prefix(f, s, n), n < Len(s)
    PROVE  Prefix(Written(f, n, s[n + 1]), s, n + 1)
<1> DEFINE g == Written(f, n, s[n + 1])
<1>1. f \in File /\ Len(f) = n /\ \A i \in 1 .. n : f[i] = s[i]
  BY DEF Prefix
<1>2. s[n + 1] \in Block /\ Len(s) \in Nat
  BY DEF File
<1>3. g \in File
  BY <1>1, <1>2, WrittenFile
<1>4. g = [i \in 1 .. n + 1 |-> IF i = n + 1 THEN s[n + 1]
                                ELSE IF i <= n THEN f[i] ELSE Zero]
  BY <1>1 DEF Written
<1>5. Len(g) = n + 1
  BY <1>4
<1>6. \A i \in 1 .. n + 1 : g[i] = s[i]
  BY <1>1, <1>4
<1> QED
  BY <1>2, <1>3, <1>5, <1>6 DEF Prefix

LEMMA WholePrefix ==
    ASSUME NEW f, NEW s \in File, NEW n \in Nat, Prefix(f, s, n), ~(n < Len(s))
    PROVE  f = s
<1>1. f \in Seq(Block) /\ s \in Seq(Block) /\ Len(f) = Len(s)
  BY DEF Prefix, File
<1>2. \A i \in 1 .. Len(f) : f[i] = s[i]
  BY <1>1 DEF Prefix
<1> QED
  BY <1>1, <1>2, SeqEqual

-----------------------------------------------------------------------------
(* Type correctness.                                                       *)
LEMMA PlanFacts ==
    ASSUME TypeOK, NEW d \in Disk, stage[d] # "none"
    PROVE  /\ plan[d] \in Plan /\ plan[d].path \in Path
           /\ plan[d].from # None => plan[d].from \in Path \cup Image
           /\ plan[d].size # None => plan[d].size \in Nat
           /\ plan[d].size = None => plan[d].from # None
  BY PlanAssumption DEF TypeOK

LEMMA AtFile ==
    ASSUME TypeOK, NEW x \in Path \cup Image, At(x) # None
    PROVE  At(x) \in File
  BY PathAssumption, ContentsAssumption DEF TypeOK, At

LEMMA TypeInit == Init => TypeOK
  BY DEF Init, TypeOK, Creating, Writing

LEMMA ReleaseType ==
    ASSUME TypeOK, NEW S, Release(S)
    PROVE  /\ stage' \in [Disk -> Creating \cup {"none", "recorded"}]
           /\ DOMAIN plan' = Disk /\ DOMAIN due' = Disk
           /\ offset' \in [Disk -> Nat]
           /\ contested' \subseteq Path
           /\ \A d \in Disk :
                 /\ stage'[d] # "none" => plan'[d] \in Plan
                 /\ stage'[d] = "copy" => plan'[d].from # None
  BY DEF TypeOK, Release

LEMMA TypeStep == TypeOK /\ [Next]_vars => TypeOK'
<1> SUFFICES ASSUME TypeOK, [Next]_vars PROVE TypeOK'
  OBVIOUS
<1> USE DEF Creating, Writing, poolVars
<1>1. ASSUME NEW d \in Disk, NEW pl \in Plan, StartCreate(d, pl) PROVE TypeOK'
  BY <1>1, PlanAssumption DEF StartCreate, TypeOK
<1>2. ASSUME NEW d \in Disk, Clone(d) PROVE TypeOK'
  BY <1>2, PlanFacts, AtFile DEF Clone, CanOpen, TypeOK
<1>3. ASSUME NEW d \in Disk, Open(d) PROVE TypeOK'
  BY <1>3, EmptyFile DEF Open, CanOpen, TypeOK
<1>4. ASSUME NEW d \in Disk, CopyBlock(d) PROVE TypeOK'
  <2> DEFINE s == At(plan[d].from)
             p == plan[d].path
  <2>1. CASE s # None /\ offset[d] < Len(s)
    <3>1. s \in File /\ offset[d] \in Nat
      BY <1>4, <2>1, PlanFacts, AtFile, NoneAssumption DEF CopyBlock, TypeOK
    <3>2. s[offset[d] + 1] \in Block
      BY <2>1, <3>1 DEF File
    <3>3. file[p] # None => Written(file[p], offset[d], s[offset[d] + 1]) \in File
      BY <1>4, <3>1, <3>2, PlanFacts, WrittenFile DEF CopyBlock, TypeOK
    <3>4. /\ file' = [file EXCEPT ![p] = IF @ = None THEN None
                        ELSE Written(@, offset[d], s[offset[d] + 1])]
          /\ offset' = [offset EXCEPT ![d] = @ + 1]
          /\ UNCHANGED <<poolVars, stage, plan, due, contested, residue>>
      BY <1>4, <2>1 DEF CopyBlock
    <3>5. \A r \in Path : file'[r] # None => file'[r] \in File
      BY <3>3, <3>4 DEF TypeOK
    <3>6. offset' \in [Disk -> Nat]
      BY <3>4 DEF TypeOK
    <3> QED
      BY <3>4, <3>5, <3>6 DEF TypeOK
  <2>2. CASE ~(s # None /\ offset[d] < Len(s))
    BY <1>4, <2>2 DEF CopyBlock, TypeOK
  <2> QED
    BY <2>1, <2>2
<1>5. ASSUME NEW d \in Disk, Fit(d) PROVE TypeOK'
  BY <1>5, PlanFacts, TruncatedFile DEF Fit, TypeOK
<1>6. ASSUME NEW d \in Disk, RefuseToShrink(d) PROVE TypeOK'
  BY <1>6, ReleaseType DEF RefuseToShrink, TypeOK
<1>7. ASSUME NEW d \in Disk, Commit(d) PROVE TypeOK'
  BY <1>7 DEF Commit, TypeOK
<1>8. ASSUME NEW d \in Disk, FailCreate(d) PROVE TypeOK'
  BY <1>8, ReleaseType DEF FailCreate, Begun, TypeOK
<1>9. ASSUME NEW d \in Disk, ReadDrops(d) PROVE TypeOK'
  BY <1>9, ReleaseType DEF ReadDrops, TypeOK
<1>10. ASSUME NEW d \in Disk, Delete(d) PROVE TypeOK'
  BY <1>10, ReleaseType DEF Delete, TypeOK
<1>11. ASSUME NEW q \in Pool, CreatePool(q) PROVE TypeOK'
  BY <1>11 DEF CreatePool, TypeOK
<1>12. ASSUME NEW q \in Pool, ReadPoolDrops(q) PROVE TypeOK'
  BY <1>12 DEF ReadPoolDrops, TypeOK
<1>13. ASSUME NEW q \in Pool, DeletePool(q) PROVE TypeOK'
  BY <1>13 DEF DeletePool, TypeOK
<1>14. ASSUME NEW q \in Pool, RemoveEntry(q) PROVE TypeOK'
  BY <1>14 DEF RemoveEntry, FilesIn, TypeOK
<1>15. ASSUME NEW q \in Pool, PoolDeleted(q) PROVE TypeOK'
  BY <1>15 DEF PoolDeleted, TypeOK
<1>16. ASSUME NEW q \in Pool, DeletePoolFails(q) PROVE TypeOK'
  BY <1>16 DEF DeletePoolFails, TypeOK
<1>17. ASSUME NEW q \in Pool, MakeDir(q) PROVE TypeOK'
  BY <1>17 DEF MakeDir, TypeOK
<1>18. CASE ProviderDies
  BY <1>18, ReleaseType DEF ProviderDies, Begun, TypeOK
<1>19. CASE UNCHANGED vars
  BY <1>19 DEF vars, TypeOK
<1> QED
  BY <1>1, <1>2, <1>3, <1>4, <1>5, <1>6, <1>7, <1>8, <1>9, <1>10, <1>11, <1>12,
     <1>13, <1>14, <1>15, <1>16, <1>17, <1>18,
     <1>19 DEF Next, DiskSteps, PoolSteps

-----------------------------------------------------------------------------
(* What a step of one disk does to another.                                *)
LEMMA InvInit == Init => IInv
  BY DEF Init, IInv, Exclusive, Sourced, Placed, Owned, Progress, Present, Writing

\* Nothing that Due(e) speaks of changes.
LEMMA SameDue ==
    ASSUME NEW e \in Disk, Due(e), stage'[e] = stage[e], plan'[e] = plan[e],
           due'[e] = due[e], offset'[e] = offset[e], file' = file
    PROVE  Due(e)'
  BY DEF Due, Asked, At

\* A change at the path r is nothing to a disk that neither has r nor copies it.
LEMMA FarDue ==
    ASSUME TypeOK, NEW e \in Disk, NEW r, stage[e] # "none", Due(e),
           plan[e].path # r, ~Copies(e, r),
           stage'[e] = stage[e], plan'[e] = plan[e],
           due'[e] = due[e], offset'[e] = offset[e],
           \A p \in Path \ {r} : file'[p] = file[p]
    PROVE  Due(e)'
<1>1. file'[plan[e].path] = file[plan[e].path]
  BY PlanFacts
<1>2. CASE stage[e] \in {"open", "copy"} /\ plan[e].from # None
  <2>1. plan[e].from \in Path \cup Image /\ plan[e].from # r
    BY <1>2, PlanFacts DEF Copies
  <2>2. At(plan[e].from)' = At(plan[e].from)
    BY <2>1 DEF At
  <2>3. Asked(plan[e])' = Asked(plan[e])
    BY <1>2, <2>2 DEF Asked
  <2> QED
    BY <1>1, <1>2, <2>2, <2>3 DEF Due
<1>3. CASE stage[e] \in {"open", "copy"} /\ plan[e].from = None
  <2>1. Asked(plan[e])' = Asked(plan[e])
    BY <1>3 DEF Asked
  <2> QED
    BY <1>1, <1>3, <2>1 DEF Due
<1>4. CASE stage[e] \notin {"open", "copy"}
  BY <1>1, <1>4 DEF Due
<1> QED
  BY <1>2, <1>3, <1>4

\* A step of d that writes at d's own path leaves the clean disk e alone: e has
\* another path, and the disk e copies from is at rest.
LEMMA OtherDue ==
    ASSUME TypeOK, Exclusive, Sourced,
           NEW d \in Disk, NEW e \in Disk, d # e,
           stage[d] # "none", stage[e] # "none",
           plan[e].path \notin contested, Due(e),
           stage[d] = "recorded" => ~Copies(e, plan[d].path),
           stage'[e] = stage[e], plan'[e] = plan[e],
           due'[e] = due[e], offset'[e] = offset[e],
           \A p \in Path \ {plan[d].path} : file'[p] = file[p]
    PROVE  Due(e)'
<1>1. plan[d].path \in Path /\ plan[e].path # plan[d].path
  BY PlanFacts DEF Exclusive
<1>2. ~Copies(e, plan[d].path)
  <2> SUFFICES ASSUME Copies(e, plan[d].path) PROVE FALSE
    OBVIOUS
  <2>1. plan[d].path \notin contested
    BY <1>1 DEF Copies, Sourced
  <2>2. PICK x \in Disk : stage[x] = "recorded" /\ plan[x].path = plan[d].path
    BY <1>1 DEF Copies, Sourced
  <2>3. x = d
    BY <2>1, <2>2 DEF Exclusive
  <2> QED
    BY <2>2, <2>3
<1> QED
  BY <1>1, <1>2, FarDue

\* After Release only disks outside of S hold a path; they and the contested
\* paths among theirs are what they were.
LEMMA ReleaseFacts ==
    ASSUME TypeOK, NEW S, S \subseteq Disk, Release(S)
    PROVE  /\ \A e \in Disk : stage'[e] # "none" =>
                 /\ e \notin S /\ stage[e] # "none"
                 /\ stage'[e] = stage[e] /\ plan'[e] = plan[e]
                 /\ due'[e] = due[e] /\ offset'[e] = offset[e]
                 /\ plan'[e].path \in contested' <=> plan[e].path \in contested
           /\ \A e \in Disk \ S :
                 /\ stage'[e] = stage[e] /\ plan'[e] = plan[e]
                 /\ due'[e] = due[e] /\ offset'[e] = offset[e]
           /\ contested' \subseteq contested
  BY DEF Release, TypeOK, Holds

LEMMA ReleaseExclusive ==
    ASSUME TypeOK, Exclusive, NEW S, S \subseteq Disk, Release(S)
    PROVE  Exclusive'
  BY ReleaseFacts DEF Exclusive

\* The disks that clones are made from are not among those released.
LEMMA ReleaseSourced ==
    ASSUME TypeOK, Sourced, NEW S, S \subseteq Disk, Release(S),
           \A d \in S, e \in Disk :
               stage[d] = "recorded" /\ plan[e].path \notin contested
                   => ~Copies(e, plan[d].path)
    PROVE  Sourced'
<1> SUFFICES ASSUME NEW d \in Disk, stage'[d] \in {"open", "copy"},
                    plan'[d].from \in Path, plan'[d].path \notin contested'
             PROVE  /\ plan'[d].from \notin contested'
                    /\ \E e \in Disk : stage'[e] = "recorded"
                                      /\ plan'[e].path = plan'[d].from
  BY DEF Sourced
<1>1. stage[d] = stage'[d] /\ plan[d] = plan'[d] /\ plan[d].path \notin contested
  BY ReleaseFacts
<1>2. plan[d].from \notin contested
  BY <1>1 DEF Sourced
<1>3. PICK e \in Disk : stage[e] = "recorded" /\ plan[e].path = plan[d].from
  BY <1>1 DEF Sourced
<1>4. Copies(d, plan[e].path)
  BY <1>1, <1>3 DEF Copies
<1>5. e \notin S
  BY <1>1, <1>3, <1>4
<1> QED
  BY <1>1, <1>2, <1>3, <1>5, ReleaseFacts

\* The disks that stay are undisturbed when the one file that changes, if any
\* does, is that of the disk that goes.
LEMMA ReleaseProgress ==
    ASSUME TypeOK, Exclusive, Sourced, Progress, NEW d \in Disk, Release({d}),
           stage[d] # "none",
           \A e \in Disk :
               stage[d] = "recorded" /\ plan[e].path \notin contested
                   => ~Copies(e, plan[d].path),
           \A p \in Path \ {plan[d].path} : file'[p] = file[p]
    PROVE  Progress'
<1> SUFFICES ASSUME NEW e \in Disk, stage'[e] # "none",
                    plan'[e].path \notin contested'
             PROVE  Due(e)'
  BY DEF Progress
<1>1. /\ e # d /\ stage[e] # "none" /\ plan[e].path \notin contested
      /\ stage'[e] = stage[e] /\ plan'[e] = plan[e]
      /\ due'[e] = due[e] /\ offset'[e] = offset[e]
  BY ReleaseFacts
<1>2. Due(e)
  BY <1>1 DEF Progress
<1> QED
  BY <1>1, <1>2, OtherDue

\* A step of a Create that goes on: it writes at its own path if anywhere.
LEMMA WriteInv ==
    ASSUME TypeOK, IInv, NEW d \in Disk, NEW s \in Present,
           stage[d] \in Creating, stage' = [stage EXCEPT ![d] = s],
           s = "copy" => stage[d] \in {"open", "copy"},
           UNCHANGED <<poolVars, plan, due, contested, residue>>,
           \A e \in Disk \ {d} : offset'[e] = offset[e],
           \A p \in Path \ {plan[d].path} : file'[p] = file[p],
           PoolOf[plan[d].path] \in dirs,
           plan[d].path \notin contested => Due(d)'
    PROVE  IInv'
<1> USE DEF Creating, Writing, Present, poolVars
<1>0. /\ stage[d] # "none" /\ stage'[d] = s
      /\ \A e \in Disk \ {d} : stage'[e] = stage[e]
  BY DEF TypeOK
<1>1. Exclusive'
  BY <1>0 DEF IInv, Exclusive
<1>2. Sourced'
  <2> SUFFICES ASSUME NEW x \in Disk, stage'[x] \in {"open", "copy"},
                      plan[x].from \in Path, plan[x].path \notin contested
               PROVE  /\ plan[x].from \notin contested
                      /\ \E e \in Disk : stage'[e] = "recorded"
                                        /\ plan[e].path = plan[x].from
    BY DEF Sourced
  <2>1. stage[x] \in {"open", "copy"}
    BY <1>0
  <2>2. plan[x].from \notin contested
    BY <2>1 DEF IInv, Sourced
  <2>3. PICK e \in Disk : stage[e] = "recorded" /\ plan[e].path = plan[x].from
    BY <2>1 DEF IInv, Sourced
  <2> QED
    BY <1>0, <2>2, <2>3
<1>3. Placed'
  <2>1. \A p \in Path : file'[p] # None => PoolOf[p] \in dirs
    BY DEF IInv, Placed
  <2>2. \A e \in Disk :
            /\ stage'[e] # "none" => poolStage[PoolOf[plan[e].path]] # "deleting"
            /\ stage'[e] \in Present => PoolOf[plan[e].path] \in dirs
    BY <1>0 DEF IInv, Placed
  <2> QED
    BY <2>1, <2>2 DEF IInv, Placed
<1>4. Owned'
  <2> SUFFICES ASSUME NEW p \in Path, file'[p] # None
               PROVE  \/ p \in residue
                      \/ \E e \in Disk : stage'[e] \in Present /\ plan[e].path = p
    BY DEF Owned
  <2>1. CASE p = plan[d].path
    BY <1>0, <2>1
  <2>2. CASE p # plan[d].path
    BY <1>0, <2>2 DEF IInv, Owned
  <2> QED
    BY <2>1, <2>2
<1>5. Progress'
  <2> SUFFICES ASSUME NEW e \in Disk, stage'[e] # "none",
                      plan[e].path \notin contested
               PROVE  Due(e)'
    BY DEF Progress
  <2>1. CASE e = d
    BY <2>1
  <2>2. CASE e # d
    <3>1. stage[e] # "none" /\ Due(e)
      BY <1>0, <2>2 DEF IInv, Progress
    <3> QED
      BY <1>0, <2>2, <3>1, OtherDue DEF IInv
  <2> QED
    BY <2>1, <2>2
<1> QED
  BY <1>1, <1>2, <1>3, <1>4, <1>5 DEF IInv

-----------------------------------------------------------------------------
(* Create of a disk.                                                       *)
LEMMA StartCreateInv ==
    ASSUME TypeOK, IInv, NEW d \in Disk, NEW pl \in Plan, StartCreate(d, pl)
    PROVE  IInv'
<1>0. /\ stage[d] = "none" /\ poolStage[PoolOf[pl.path]] = "recorded"
      /\ stage'[d] = "open" /\ plan'[d] = pl
      /\ due'[d] = IF pl.from \in Path /\ file[pl.from] = None THEN None
                   ELSE Asked(pl)
      /\ \A e \in Disk \ {d} :
            stage'[e] = stage[e] /\ plan'[e] = plan[e] /\ due'[e] = due[e]
      /\ UNCHANGED <<poolStage, dirs, offset, file, residue>>
  BY DEF StartCreate, TypeOK, poolVars
<1>1. /\ contested \subseteq contested'
      /\ Clash(d, pl) => pl.path \in contested'
      /\ ~Clash(d, pl) => contested' = contested
  BY DEF StartCreate
<1>2. Exclusive'
  <2> SUFFICES ASSUME NEW x \in Disk, NEW y \in Disk, x # y,
                      stage'[x] # "none", stage'[y] # "none",
                      plan'[x].path = plan'[y].path
               PROVE  plan'[x].path \in contested'
    BY DEF Exclusive
  <2>1. CASE x = d \/ y = d
    BY <1>0, <1>1, <2>1 DEF Clash, Holds
  <2>2. CASE x # d /\ y # d
    BY <1>0, <1>1, <2>2 DEF IInv, Exclusive
  <2> QED
    BY <2>1, <2>2
<1>3. Sourced'
  <2> SUFFICES ASSUME NEW x \in Disk, stage'[x] \in {"open", "copy"},
                      plan'[x].from \in Path, plan'[x].path \notin contested'
               PROVE  /\ plan'[x].from \notin contested'
                      /\ \E e \in Disk : stage'[e] = "recorded"
                                        /\ plan'[e].path = plan'[x].from
    BY DEF Sourced
  <2>1. CASE x = d
    <3>1. PICK e \in Disk : stage[e] = "recorded" /\ plan[e].path = pl.from
      BY <1>0, <2>1 DEF StartCreate
    <3> QED
      BY <1>0, <1>1, <2>1, <3>1 DEF Clash
  <2>2. CASE x # d
    <3>1. /\ stage[x] \in {"open", "copy"} /\ plan'[x] = plan[x]
          /\ plan[x].from \notin contested
      BY <1>0, <1>1, <2>2 DEF IInv, Sourced
    <3>2. PICK e \in Disk : stage[e] = "recorded" /\ plan[e].path = plan[x].from
      BY <1>0, <1>1, <2>2 DEF IInv, Sourced
    <3>3. stage'[e] = "recorded" /\ plan'[e].path = plan'[x].from
      BY <1>0, <3>1, <3>2
    <3>4. plan[x].path \in Path
      BY <3>1, PlanFacts
    <3>5. ASSUME plan[x].from \in contested' PROVE FALSE
      <4>1. Clash(d, pl)
        BY <1>1, <3>1, <3>5
      <4>2. contested' = contested \cup {pl.path} \cup
                {p \in Path : \E y \in Disk :
                     Copies(y, pl.path) /\ plan[y].path = p}
        BY <4>1 DEF StartCreate
      <4>3. plan[x].from # pl.path
        BY <3>1, <3>4, <4>2 DEF Copies
      <4>4. PICK y \in Disk : Copies(y, pl.path) /\ plan[y].path = plan[x].from
        BY <3>1, <3>5, <4>2, <4>3
      <4>5. y # e /\ stage[y] # "none"
        BY <3>2, <4>4 DEF Copies
      <4> QED
        BY <3>1, <3>2, <4>4, <4>5 DEF IInv, Exclusive
    <3> QED
      BY <3>1, <3>3, <3>5
  <2> QED
    BY <2>1, <2>2
<1>4. Placed'
  BY <1>0 DEF IInv, Placed, Present, Writing
<1>5. Owned'
  <2> SUFFICES ASSUME NEW p \in Path, file[p] # None, p \notin residue
               PROVE  \E e \in Disk : stage'[e] \in Present /\ plan'[e].path = p
    BY <1>0 DEF Owned
  <2>1. PICK e \in Disk : stage[e] \in Present /\ plan[e].path = p
    BY DEF IInv, Owned
  <2>2. e # d
    BY <1>0, <2>1 DEF Present, Writing
  <2> QED
    BY <1>0, <2>1, <2>2
<1>6. Progress'
  <2> SUFFICES ASSUME NEW e \in Disk, stage'[e] # "none",
                      plan'[e].path \notin contested'
               PROVE  Due(e)'
    BY DEF Progress
  <2>1. CASE e = d
    <3>1. ~Clash(d, pl)
      BY <1>0, <1>1, <2>1
    <3>2. pl.from \in Path => file[pl.from] \in File
      <4> SUFFICES ASSUME pl.from \in Path PROVE file[pl.from] \in File
        OBVIOUS
      <4>1. PICK x \in Disk : stage[x] = "recorded" /\ plan[x].path = pl.from
        BY DEF StartCreate
      <4>2. Due(x)
        BY <3>1, <4>1 DEF Clash, IInv, Progress
      <4> QED
        BY <4>1, <4>2 DEF Due
    <3>3. pl.from # None => At(pl.from) \in File
      BY <3>2, PlanAssumption, PathAssumption, ContentsAssumption DEF At
    <3>4. due'[d] = Asked(pl)
      BY <1>0, <3>2, NoneAssumption
    <3>5. Asked(pl)' = Asked(pl) /\ At(pl.from)' = At(pl.from)
      BY <1>0 DEF Asked, At
    <3> QED
      BY <1>0, <2>1, <3>3, <3>4, <3>5 DEF Due
  <2>2. CASE e # d
    <3>1. Due(e)
      BY <1>0, <1>1, <2>2 DEF IInv, Progress
    <3> QED
      BY <1>0, <2>2, <3>1, SameDue
  <2> QED
    BY <2>1, <2>2
<1> QED
  BY <1>2, <1>3, <1>4, <1>5, <1>6 DEF IInv

LEMMA CloneInv ==
    ASSUME TypeOK, IInv, NEW d \in Disk, Clone(d) PROVE IInv'
<1> DEFINE p == plan[d].path
           src == At(plan[d].from)
<1>0. /\ stage[d] = "open" /\ PoolOf[p] \in dirs
      /\ plan[d].from # None /\ src # None
      /\ file' = [file EXCEPT ![p] = src]
      /\ stage' = [stage EXCEPT ![d] = "fit"]
      /\ UNCHANGED <<poolVars, plan, offset, due, contested, residue>>
  BY DEF Clone, CanOpen
<1>1. p \in Path /\ src \in File
  BY <1>0, PlanFacts, AtFile
<1>2. ASSUME p \notin contested PROVE Due(d)'
  <2>1. due[d] = Asked(plan[d])
    BY <1>0, <1>2 DEF IInv, Progress, Due
  <2>2. file'[p] = src /\ stage'[d] = "fit"
    BY <1>0, <1>1 DEF TypeOK
  <2> QED
    BY <1>0, <1>1, <2>1, <2>2 DEF Due, Asked
<1>3. \A r \in Path \ {p} : file'[r] = file[r]
  BY <1>0 DEF TypeOK
<1> QED
  BY <1>0, <1>2, <1>3, WriteInv DEF Present, Writing, Creating

LEMMA OpenInv ==
    ASSUME TypeOK, IInv, NEW d \in Disk, Open(d) PROVE IInv'
<1> DEFINE p == plan[d].path
           s == IF plan[d].from = None THEN "fit" ELSE "copy"
<1>0. /\ stage[d] = "open" /\ PoolOf[p] \in dirs
      /\ file' = [file EXCEPT ![p] = <<>>]
      /\ offset' = [offset EXCEPT ![d] = 0]
      /\ stage' = [stage EXCEPT ![d] = s]
      /\ UNCHANGED <<poolVars, plan, due, contested, residue>>
  BY DEF Open, CanOpen
<1>1. /\ p \in Path /\ file'[p] = <<>> /\ offset'[d] = 0 /\ stage'[d] = s
      /\ \A r \in Path \ {p} : file'[r] = file[r]
      /\ \A e \in Disk \ {d} : offset'[e] = offset[e]
  BY <1>0, PlanFacts DEF TypeOK
<1>2. ASSUME p \notin contested PROVE Due(d)'
  <2>1. due[d] = Asked(plan[d]) /\ (plan[d].from # None => At(plan[d].from) \in File)
    BY <1>0, <1>2 DEF IInv, Progress, Due
  <2>2. CASE plan[d].from = None
    <3>1. due[d] = IF plan[d].size = None THEN <<>>
                   ELSE Truncated(<<>>, plan[d].size)
      BY <2>1, <2>2 DEF Asked
    <3> QED
      BY <1>0, <1>1, <2>2, <3>1, EmptyFile DEF Due
  <2>3. CASE plan[d].from # None
    <3>1. plan[d].from \in Path \cup Image
      BY <1>0, <2>3, PlanFacts
    <3>2. plan[d].from # p
      <4> SUFFICES ASSUME plan[d].from = p PROVE FALSE
        OBVIOUS
      <4>1. PICK e \in Disk : stage[e] = "recorded" /\ plan[e].path = p
        BY <1>0, <1>1, <1>2 DEF IInv, Sourced
      <4> QED
        BY <1>0, <1>2, <4>1 DEF IInv, Exclusive
    <3>3. At(plan[d].from)' = At(plan[d].from)
      BY <1>0, <1>1, <3>1, <3>2 DEF At
    <3>4. Asked(plan[d])' = Asked(plan[d])
      BY <1>0, <2>3, <3>3 DEF Asked
    <3>5. Prefix(<<>>, At(plan[d].from), 0)
      BY <2>1, <2>3, EmptyFile DEF Prefix, File
    <3> QED
      BY <1>0, <1>1, <2>1, <2>3, <3>3, <3>4, <3>5 DEF Due
  <2> QED
    BY <2>2, <2>3
<1>3. s \in Present /\ stage[d] \in Creating
      /\ (s = "copy" => stage[d] \in {"open", "copy"})
  BY <1>0 DEF Present, Writing, Creating
<1> HIDE DEF s
<1> QED
  BY <1>0, <1>1, <1>2, <1>3, WriteInv

LEMMA CopyBlockInv ==
    ASSUME TypeOK, IInv, NEW d \in Disk, CopyBlock(d) PROVE IInv'
<1> DEFINE p == plan[d].path
           src == At(plan[d].from)
           n == offset[d]
<1>0. stage[d] = "copy" /\ p \in Path /\ n \in Nat
      /\ stage[d] \in Creating /\ "copy" \in Present /\ "fit" \in Present
  BY PlanFacts DEF CopyBlock, TypeOK, Creating, Present, Writing
<1>1. plan[d].from \in Path \cup Image /\ PoolOf[p] \in dirs
  BY <1>0, PlanFacts DEF TypeOK, IInv, Placed
<1>2. ASSUME p \notin contested
      PROVE  /\ due[d] = Asked(plan[d]) /\ src \in File
             /\ Prefix(file[p], src, n)
             /\ plan[d].from # None /\ plan[d].from # p
  <2>1. Due(d)
    BY <1>0, <1>2 DEF IInv, Progress
  <2>2. plan[d].from # p
    <3> SUFFICES ASSUME plan[d].from = p PROVE FALSE
      OBVIOUS
    <3>1. PICK e \in Disk : stage[e] = "recorded" /\ plan[e].path = p
      BY <1>0, <1>2 DEF IInv, Sourced
    <3> QED
      BY <1>0, <1>2, <3>1 DEF IInv, Exclusive
  <2> QED
    BY <1>0, <2>1, <2>2 DEF Due
<1>3. CASE src # None /\ n < Len(src)
  <2>1. /\ file' = [file EXCEPT ![p] = IF @ = None THEN None
                                       ELSE Written(@, n, src[n + 1])]
        /\ offset' = [offset EXCEPT ![d] = @ + 1]
        /\ UNCHANGED <<poolVars, stage, plan, due, contested, residue>>
    BY <1>3 DEF CopyBlock
  <2>2. /\ offset'[d] = n + 1 /\ \A e \in Disk \ {d} : offset'[e] = offset[e]
        /\ file'[p] = IF file[p] = None THEN None
                      ELSE Written(file[p], n, src[n + 1])
        /\ \A r \in Path \ {p} : file'[r] = file[r]
        /\ stage' = [stage EXCEPT ![d] = "copy"]
    BY <1>0, <2>1 DEF TypeOK
  <2>3. ASSUME p \notin contested PROVE Due(d)'
    <3>1. At(plan[d].from)' = src
      BY <1>1, <1>2, <2>1, <2>2, <2>3 DEF At
    <3>2. Asked(plan[d])' = Asked(plan[d])
      BY <1>2, <2>1, <2>3, <3>1 DEF Asked
    <3>3. file[p] # None
      BY <1>2, <2>3, NoneAssumption DEF Prefix
    <3>4. Prefix(file'[p], src, offset'[d])
      BY <1>0, <1>2, <1>3, <2>2, <2>3, <3>3, WrittenPrefix
    <3> QED
      BY <1>0, <1>2, <2>1, <2>3, <3>1, <3>2, <3>4 DEF Due
  <2> QED
    BY <1>0, <1>1, <2>1, <2>2, <2>3, WriteInv
<1>4. CASE ~(src # None /\ n < Len(src))
  <2>1. /\ stage' = [stage EXCEPT ![d] = "fit"]
        /\ offset' = [offset EXCEPT ![d] = 0] /\ file' = file
        /\ UNCHANGED <<poolVars, plan, due, contested, residue>>
    BY <1>4 DEF CopyBlock
  <2>2. stage'[d] = "fit" /\ \A e \in Disk \ {d} : offset'[e] = offset[e]
    BY <2>1 DEF TypeOK
  <2>3. ASSUME p \notin contested PROVE Due(d)'
    <3>1. src # None
      BY <1>2, <2>3, NoneAssumption
    <3>2. file[p] = src
      BY <1>0, <1>2, <1>4, <2>3, <3>1, WholePrefix
    <3>3. due[d] = IF plan[d].size = None THEN src
                   ELSE Truncated(src, plan[d].size)
      BY <1>2, <2>3 DEF Asked
    <3> QED
      BY <1>2, <2>1, <2>2, <2>3, <3>2, <3>3 DEF Due
  <2> QED
    BY <1>0, <1>1, <2>1, <2>2, <2>3, WriteInv
<1> QED
  BY <1>3, <1>4

LEMMA FitInv ==
    ASSUME TypeOK, IInv, NEW d \in Disk, Fit(d) PROVE IInv'
<1> DEFINE p == plan[d].path
           g == IF plan[d].size = None \/ file[p] = None THEN file[p]
                ELSE Truncated(file[p], plan[d].size)
<1>0. /\ stage[d] = "fit" /\ p \in Path
      /\ stage' = [stage EXCEPT ![d] = "commit"]
      /\ file' = [file EXCEPT ![p] = g]
      /\ UNCHANGED <<poolVars, plan, offset, due, contested, residue>>
  BY PlanFacts DEF Fit
<1>1. /\ stage'[d] = "commit" /\ file'[p] = g
      /\ \A r \in Path \ {p} : file'[r] = file[r]
      /\ PoolOf[p] \in dirs
  BY <1>0 DEF TypeOK, IInv, Placed, Present, Writing
<1>2. ASSUME p \notin contested PROVE Due(d)'
  <2>1. /\ file[p] \in File /\ file[p] # None
        /\ due[d] = IF plan[d].size = None THEN file[p]
                    ELSE Truncated(file[p], plan[d].size)
    BY <1>0, <1>2, NoneAssumption DEF IInv, Progress, Due
  <2>2. g \in File /\ due[d] = g
    BY <1>0, <2>1, PlanFacts, TruncatedFile
  <2> QED
    BY <1>0, <1>1, <2>2 DEF Due
<1> HIDE DEF g
<1> QED
  BY <1>0, <1>1, <1>2, WriteInv DEF Present, Writing, Creating

LEMMA CommitInv ==
    ASSUME TypeOK, IInv, NEW d \in Disk, Commit(d) PROVE IInv'
<1>0. /\ stage[d] = "commit" /\ stage' = [stage EXCEPT ![d] = "recorded"]
      /\ UNCHANGED <<poolVars, plan, offset, file, due, contested, residue>>
  BY DEF Commit
<1>1. stage'[d] = "recorded" /\ PoolOf[plan[d].path] \in dirs
  BY <1>0 DEF TypeOK, IInv, Placed, Present, Writing
<1>2. ASSUME plan[d].path \notin contested PROVE Due(d)'
  BY <1>0, <1>1, <1>2 DEF IInv, Progress, Due
<1> QED
  BY <1>0, <1>1, <1>2, WriteInv DEF Present, Writing, Creating

-----------------------------------------------------------------------------
(* The end of a Create or of a record.                                     *)
LEMMA ReleasePlaced ==
    ASSUME TypeOK, Placed, NEW d \in Disk, Release({d}), UNCHANGED poolVars,
           \A p \in Path : file'[p] # None => file[p] # None
    PROVE  Placed'
  BY ReleaseFacts DEF Placed, poolVars, Present, Writing

\* The file is removed with the record.
LEMMA RemoveInv ==
    ASSUME TypeOK, IInv, NEW d \in Disk, stage[d] # "none", Release({d}),
           stage[d] = "recorded" =>
               ~ \E e \in Disk : Copies(e, plan[d].path),
           file' = [file EXCEPT ![plan[d].path] = None],
           residue' = residue \ {plan[d].path}, UNCHANGED poolVars
    PROVE  IInv'
<1>1. /\ plan[d].path \in Path /\ file'[plan[d].path] = None
      /\ \A p \in Path \ {plan[d].path} : file'[p] = file[p]
  BY PlanFacts DEF TypeOK
<1>2. Exclusive'
  BY ReleaseExclusive DEF IInv
<1>3. Sourced'
  BY ReleaseSourced DEF IInv
<1>4. Placed'
  BY <1>1, ReleasePlaced DEF IInv
<1>5. Owned'
  <2> SUFFICES ASSUME NEW p \in Path, file'[p] # None, p \notin residue'
               PROVE  \E e \in Disk : stage'[e] \in Present /\ plan'[e].path = p
    BY DEF Owned
  <2>1. p # plan[d].path /\ file[p] # None /\ p \notin residue
    BY <1>1
  <2>2. PICK e \in Disk : stage[e] \in Present /\ plan[e].path = p
    BY <2>1 DEF IInv, Owned
  <2> QED
    BY <2>1, <2>2, ReleaseFacts
<1>6. Progress'
  BY <1>1, ReleaseProgress DEF IInv
<1> QED
  BY <1>2, <1>3, <1>4, <1>5, <1>6 DEF IInv

LEMMA FailCreateInv ==
    ASSUME TypeOK, IInv, NEW d \in Disk, FailCreate(d) PROVE IInv'
<1>0. /\ stage[d] \in {"open", "copy", "fit"} /\ Release({d})
      /\ residue' = residue \cup Begun({d}) /\ UNCHANGED <<poolVars, file>>
  BY DEF FailCreate
<1>1. Exclusive'
  BY <1>0, ReleaseExclusive DEF IInv
<1>2. Sourced'
  BY <1>0, ReleaseSourced DEF IInv
<1>3. Placed'
  BY <1>0, ReleasePlaced DEF IInv
<1>4. Owned'
  <2> SUFFICES ASSUME NEW p \in Path, file[p] # None, p \notin residue'
               PROVE  \E e \in Disk : stage'[e] \in Present /\ plan'[e].path = p
    BY <1>0 DEF Owned
  <2>1. PICK e \in Disk : stage[e] \in Present /\ plan[e].path = p
    BY <1>0 DEF IInv, Owned
  <2>2. e # d
    BY <1>0, <2>1 DEF Begun, Present
  <2> QED
    BY <1>0, <2>1, <2>2, ReleaseFacts
<1>5. Progress'
  BY <1>0, ReleaseProgress DEF IInv
<1> QED
  BY <1>1, <1>2, <1>3, <1>4, <1>5 DEF IInv

\* No clone is being made from the disk: its file is missing.
LEMMA ReadDropsInv ==
    ASSUME TypeOK, IInv, NEW d \in Disk, ReadDrops(d) PROVE IInv'
<1>0. /\ stage[d] = "recorded" /\ file[plan[d].path] = None /\ Release({d})
      /\ UNCHANGED <<poolVars, file, residue>> /\ plan[d].path \in Path
  BY PlanFacts DEF ReadDrops
<1>1. ASSUME NEW e \in Disk, plan[e].path \notin contested
      PROVE  ~Copies(e, plan[d].path)
  <2> SUFFICES ASSUME Copies(e, plan[d].path) PROVE FALSE
    OBVIOUS
  <2>1. plan[d].path \notin contested
    BY <1>0, <1>1 DEF Copies, IInv, Sourced
  <2>2. file[plan[d].path] \in File
    BY <1>0, <2>1 DEF IInv, Progress, Due
  <2> QED
    BY <1>0, <2>2, NoneAssumption
<1>2. Exclusive'
  BY <1>0, ReleaseExclusive DEF IInv
<1>3. Sourced'
  BY <1>0, <1>1, ReleaseSourced DEF IInv
<1>4. Placed'
  BY <1>0, ReleasePlaced DEF IInv
<1>5. Owned'
  <2> SUFFICES ASSUME NEW p \in Path, file[p] # None, p \notin residue
               PROVE  \E e \in Disk : stage'[e] \in Present /\ plan'[e].path = p
    BY <1>0 DEF Owned
  <2>1. PICK e \in Disk : stage[e] \in Present /\ plan[e].path = p
    BY DEF IInv, Owned
  <2> QED
    BY <1>0, <2>1, ReleaseFacts
<1>6. Progress'
  BY <1>0, <1>1, ReleaseProgress DEF IInv
<1> QED
  BY <1>2, <1>3, <1>4, <1>5, <1>6 DEF IInv

LEMMA ProviderDiesInv ==
    ASSUME TypeOK, IInv, ProviderDies PROVE IInv'
<1> DEFINE cut == {d \in Disk : stage[d] \in Creating}
<1>0. /\ cut \subseteq Disk /\ Release(cut)
      /\ residue' = residue \cup Begun(cut)
      /\ poolStage' = [q \in Pool |-> IF poolStage[q] = "none" THEN "none"
                                      ELSE "recorded"]
      /\ UNCHANGED <<dirs, file>>
      /\ \A d \in cut : stage[d] # "recorded"
  BY DEF ProviderDies, Creating, Writing
<1>1. Exclusive'
  BY <1>0, ReleaseExclusive DEF IInv
<1>2. Sourced'
  <2> HIDE DEF cut
  <2> QED
    BY <1>0, ReleaseSourced DEF IInv
<1>3. \A e \in Disk : stage'[e] # "none" => stage'[e] = "recorded"
  BY <1>0, ReleaseFacts DEF TypeOK
<1>4. Placed'
  <2>1. \A q \in dirs : poolStage'[q] # "none"
    BY <1>0 DEF IInv, Placed, TypeOK
  <2>2. ASSUME NEW e \in Disk, stage'[e] # "none"
        PROVE  /\ stage[e] = stage'[e] /\ plan'[e] = plan[e]
               /\ PoolOf[plan[e].path] \in Pool
    BY <1>0, <2>2, ReleaseFacts, PlanFacts, PathAssumption
  <2>3. ASSUME NEW e \in Disk, stage'[e] # "none"
        PROVE  poolStage'[PoolOf[plan'[e].path]] # "deleting"
    BY <1>0, <2>2, <2>3
  <2>4. ASSUME NEW e \in Disk, stage'[e] \in Present
        PROVE  PoolOf[plan'[e].path] \in dirs
    BY <2>2, <2>4 DEF IInv, Placed, Present, Writing
  <2> QED
    BY <1>0, <2>1, <2>3, <2>4 DEF IInv, Placed
<1>5. Owned'
  <2> SUFFICES ASSUME NEW p \in Path, file[p] # None, p \notin residue'
               PROVE  \E e \in Disk : stage'[e] \in Present /\ plan'[e].path = p
    BY <1>0 DEF Owned
  <2>1. PICK e \in Disk : stage[e] \in Present /\ plan[e].path = p
    BY <1>0 DEF IInv, Owned
  <2>2. e \notin cut
    BY <1>0, <2>1 DEF Begun, Present, Writing
  <2> HIDE DEF cut
  <2> QED
    BY <1>0, <2>1, <2>2, ReleaseFacts
<1>6. Progress'
  <2> SUFFICES ASSUME NEW e \in Disk, stage'[e] # "none",
                      plan'[e].path \notin contested'
               PROVE  Due(e)'
    BY DEF Progress
  <2>1. /\ stage[e] = stage'[e] /\ plan'[e] = plan[e] /\ due'[e] = due[e]
        /\ offset'[e] = offset[e] /\ plan[e].path \notin contested
    BY <1>0, ReleaseFacts
  <2>2. Due(e)
    BY <2>1 DEF IInv, Progress
  <2> QED
    BY <1>0, <2>1, <2>2, SameDue
<1> QED
  BY <1>1, <1>2, <1>4, <1>5, <1>6 DEF IInv

-----------------------------------------------------------------------------
(* Pools.                                                                  *)

\* A step that leaves the disks and their files alone.
LEMMA PoolStepInv ==
    ASSUME TypeOK, IInv,
           UNCHANGED <<stage, plan, offset, file, due, contested, residue>>,
           Placed'
    PROVE  IInv'
<1>1. Exclusive'
  BY DEF IInv, Exclusive
<1>2. Sourced'
  BY DEF IInv, Sourced
<1>3. Owned'
  BY DEF IInv, Owned
<1>4. Progress'
  <2> SUFFICES ASSUME NEW e \in Disk, stage[e] # "none",
                      plan[e].path \notin contested
               PROVE  Due(e)'
    BY DEF Progress
  <2>1. Due(e)
    BY DEF IInv, Progress
  <2> QED
    BY <2>1, SameDue
<1> QED
  BY <1>1, <1>2, <1>3, <1>4 DEF IInv

LEMMA PoolPlaced ==
    ASSUME TypeOK, Placed, NEW q \in Pool,
           \/ CreatePool(q) \/ ReadPoolDrops(q) \/ DeletePool(q)
           \/ PoolDeleted(q) \/ DeletePoolFails(q) \/ MakeDir(q)
    PROVE  Placed'
<1>0. UNCHANGED <<stage, plan, file>>
  BY DEF CreatePool, ReadPoolDrops, DeletePool, PoolDeleted, DeletePoolFails,
         MakeDir
<1>1. CASE CreatePool(q)
  BY <1>0, <1>1 DEF CreatePool, Placed, TypeOK
<1>2. CASE ReadPoolDrops(q)
  BY <1>0, <1>2 DEF ReadPoolDrops, Placed, TypeOK
<1>3. CASE DeletePool(q)
  BY <1>0, <1>3 DEF DeletePool, Placed, TypeOK
<1>4. CASE PoolDeleted(q)
  BY <1>0, <1>4 DEF PoolDeleted, Placed, TypeOK
<1>5. CASE DeletePoolFails(q)
  BY <1>0, <1>5 DEF DeletePoolFails, Placed, TypeOK
<1>6. CASE MakeDir(q)
  BY <1>0, <1>6 DEF MakeDir, Placed, TypeOK
<1> QED
  BY <1>1, <1>2, <1>3, <1>4, <1>5, <1>6

LEMMA RemoveEntryInv ==
    ASSUME TypeOK, IInv, NEW q \in Pool, RemoveEntry(q) PROVE IInv'
<1>0. poolStage[q] = "deleting"
      /\ UNCHANGED <<poolStage, stage, plan, offset, due, contested>>
  BY DEF RemoveEntry
<1>1. \A e \in Disk : stage[e] # "none" => PoolOf[plan[e].path] # q
  BY <1>0 DEF IInv, Placed
<1>2. CASE dirs' = dirs \ {q} /\ FilesIn(q) = {} /\ UNCHANGED <<file, residue>>
  <2>1. \A p \in Path : file[p] # None => PoolOf[p] # q
    BY <1>2 DEF FilesIn
  <2>2. Placed'
    BY <1>0, <1>1, <1>2, <2>1 DEF IInv, Placed, Present, Writing
  <2> QED
    BY <1>0, <1>2, <2>2, PoolStepInv
<1>3. ASSUME NEW r \in FilesIn(q), file' = [file EXCEPT ![r] = None],
             residue' = residue \ {r}, UNCHANGED dirs
      PROVE  IInv'
  <2>1. /\ r \in Path /\ PoolOf[r] = q /\ file'[r] = None
        /\ \A p \in Path \ {r} : file'[p] = file[p]
    BY <1>3 DEF FilesIn, TypeOK
  <2>2. Exclusive'
    BY <1>0 DEF IInv, Exclusive
  <2>3. Sourced'
    BY <1>0 DEF IInv, Sourced
  <2>4. Placed'
    BY <1>0, <1>3, <2>1 DEF IInv, Placed
  <2>5. Owned'
    BY <1>0, <1>3, <2>1 DEF IInv, Owned
  <2>6. Progress'
    <3> SUFFICES ASSUME NEW e \in Disk, stage[e] # "none",
                        plan[e].path \notin contested
                 PROVE  Due(e)'
      BY <1>0 DEF Progress
    <3>1. plan[e].path # r /\ Due(e)
      BY <1>1, <2>1 DEF IInv, Progress
    <3>2. ~Copies(e, r)
      <4> SUFFICES ASSUME Copies(e, r) PROVE FALSE
        OBVIOUS
      <4>1. PICK x \in Disk : stage[x] = "recorded" /\ plan[x].path = r
        BY <2>1 DEF Copies, IInv, Sourced
      <4> QED
        BY <1>1, <2>1, <4>1
    <3> QED
      BY <1>0, <2>1, <3>1, <3>2, FarDue
  <2> QED
    BY <2>2, <2>3, <2>4, <2>5, <2>6 DEF IInv
<1> QED
  BY <1>2, <1>3 DEF RemoveEntry

-----------------------------------------------------------------------------
LEMMA InvStep == TypeOK /\ IInv /\ [Next]_vars => IInv'
<1> SUFFICES ASSUME TypeOK, IInv, [Next]_vars PROVE IInv'
  OBVIOUS
<1>1. ASSUME NEW d \in Disk, NEW pl \in Plan, StartCreate(d, pl) PROVE IInv'
  BY <1>1, StartCreateInv
<1>2. ASSUME NEW d \in Disk, Clone(d) PROVE IInv'
  BY <1>2, CloneInv
<1>3. ASSUME NEW d \in Disk, Open(d) PROVE IInv'
  BY <1>3, OpenInv
<1>4. ASSUME NEW d \in Disk, CopyBlock(d) PROVE IInv'
  BY <1>4, CopyBlockInv
<1>5. ASSUME NEW d \in Disk, Fit(d) PROVE IInv'
  BY <1>5, FitInv
<1>6. ASSUME NEW d \in Disk, RefuseToShrink(d) PROVE IInv'
  BY <1>6, RemoveInv DEF RefuseToShrink
<1>7. ASSUME NEW d \in Disk, Commit(d) PROVE IInv'
  BY <1>7, CommitInv
<1>8. ASSUME NEW d \in Disk, FailCreate(d) PROVE IInv'
  BY <1>8, FailCreateInv
<1>9. ASSUME NEW d \in Disk, ReadDrops(d) PROVE IInv'
  BY <1>9, ReadDropsInv
<1>10. ASSUME NEW d \in Disk, Delete(d) PROVE IInv'
  BY <1>10, RemoveInv DEF Delete
<1>11. ASSUME NEW q \in Pool,
              \/ CreatePool(q) \/ ReadPoolDrops(q) \/ DeletePool(q)
              \/ PoolDeleted(q) \/ DeletePoolFails(q) \/ MakeDir(q)
       PROVE  IInv'
  <2>1. Placed'
    BY <1>11, PoolPlaced DEF IInv
  <2>2. UNCHANGED <<stage, plan, offset, file, due, contested, residue>>
    BY <1>11
    DEF CreatePool, ReadPoolDrops, DeletePool, PoolDeleted, DeletePoolFails,
        MakeDir
  <2> QED
    BY <2>1, <2>2, PoolStepInv
<1>12. ASSUME NEW q \in Pool, RemoveEntry(q) PROVE IInv'
  BY <1>12, RemoveEntryInv
<1>13. CASE ProviderDies
  BY <1>13, ProviderDiesInv
<1>14. CASE UNCHANGED vars
  <2>1. Placed'
    BY <1>14 DEF vars, IInv, Placed
  <2> QED
    BY <1>14, <2>1, PoolStepInv DEF vars
<1> QED
  BY <1>1, <1>2, <1>3, <1>4, <1>5, <1>6, <1>7, <1>8, <1>9, <1>10, <1>11, <1>12,
     <1>13, <1>14 DEF Next, DiskSteps, PoolSteps

\* Every state of a behaviour has the types above.
THEOREM TypeCorrect == Spec => []TypeOK
  BY TypeInit, TypeStep, PTL DEF Spec

LEMMA Invariance == Spec => []IInv
  BY TypeCorrect, InvInit, InvStep, PTL DEF Spec

\* A recorded disk holds all of what its plan asked for (resource_disk.go,
\* Create and cloneDisk), unless two disks were given its path.
THEOREM Wholeness == Spec => []RecordedIsWhole
<1>1. IInv => RecordedIsWhole
  BY NoneAssumption DEF IInv, Progress, Due, RecordedIsWhole
<1> QED
  BY <1>1, Invariance, PTL

\* Files without a disk come from Creates that failed or were interrupted.
THEOREM Orphans == Spec => []OrphanOnlyAfterFailure
<1>1. IInv => OrphanOnlyAfterFailure
  BY DEF IInv, Owned, OrphanOnlyAfterFailure, Holds, Present, Writing
<1> QED
  BY <1>1, Invariance, PTL

\* The record of a pool goes only after everything in its directory
\* (resource_pool.go, Delete).
THEOREM PoolsAreEmptied == Spec => []NothingOutlivesPool
<1>1. IInv => NothingOutlivesPool
  BY DEF IInv, Placed, NothingOutlivesPool
<1> QED
  BY <1>1, Invariance, PTL

-----------------------------------------------------------------------------
(* What befalls the file of a recorded disk while it is recorded.          *)

RecordedStable ==
    \A d \in Disk :
        stage[d] = "recorded" /\ stage'[d] = "recorded"
                /\ plan[d].path \notin contested'
            => file'[plan[d].path] = file[plan[d].path]

\* A record that stays is the same, and its path remains contested if it was.
LEMMA RecordKept ==
    ASSUME TypeOK, [Next]_vars, NEW d \in Disk,
           stage[d] = "recorded", stage'[d] = "recorded"
    PROVE  /\ plan'[d] = plan[d] /\ due'[d] = due[d]
           /\ plan[d].path \in contested => plan[d].path \in contested'
<1> USE DEF TypeOK
<1>1. ASSUME NEW S \in SUBSET Disk, Release(S)
      PROVE  /\ plan'[d] = plan[d] /\ due'[d] = due[d]
             /\ plan[d].path \in contested => plan[d].path \in contested'
  BY <1>1 DEF Release, Holds
<1>2. ASSUME NEW e \in Disk, NEW pl \in Plan, StartCreate(e, pl)
      PROVE  /\ plan'[d] = plan[d] /\ due'[d] = due[d]
             /\ plan[d].path \in contested => plan[d].path \in contested'
  BY <1>2 DEF StartCreate
<1>3. ASSUME NEW e \in Disk,
             Clone(e) \/ Open(e) \/ CopyBlock(e) \/ Fit(e) \/ Commit(e)
      PROVE  UNCHANGED <<plan, due, contested>>
  BY <1>3 DEF Clone, Open, CopyBlock, Fit, Commit
<1>4. ASSUME NEW e \in Disk,
             RefuseToShrink(e) \/ FailCreate(e) \/ ReadDrops(e) \/ Delete(e)
      PROVE  Release({e})
  BY <1>4 DEF RefuseToShrink, FailCreate, ReadDrops, Delete
<1>5. ASSUME NEW q \in Pool, PoolSteps(q) \/ MakeDir(q)
      PROVE  UNCHANGED <<plan, due, contested>>
  BY <1>5 DEF PoolSteps, MakeDir, CreatePool, ReadPoolDrops, DeletePool,
     RemoveEntry, PoolDeleted, DeletePoolFails
<1>6. CASE ProviderDies
  BY <1>1, <1>6 DEF ProviderDies
<1>7. CASE UNCHANGED vars
  BY <1>7 DEF vars
<1> QED
  BY <1>1, <1>2, <1>3, <1>4, <1>5, <1>6, <1>7 DEF Next, DiskSteps

LEMMA StableStep == TypeOK /\ IInv /\ [Next]_vars => RecordedStable
<1> SUFFICES ASSUME TypeOK, IInv, [Next]_vars, NEW d \in Disk,
                    stage[d] = "recorded", stage'[d] = "recorded",
                    plan[d].path \notin contested'
             PROVE  file'[plan[d].path] = file[plan[d].path]
  BY DEF RecordedStable
<1>1. plan[d].path \notin contested /\ plan'[d] = plan[d] /\ due'[d] = due[d]
  BY RecordKept
<1>2. IInv'
  BY InvStep
<1>3. due[d] = file[plan[d].path]
  BY <1>1 DEF IInv, Progress, Due
<1>4. due'[d] = file'[plan'[d].path]
  BY <1>1, <1>2 DEF IInv, Progress, Due
<1> QED
  BY <1>1, <1>3, <1>4

\* From its Create to its Delete nothing changes the file of a disk that has
\* its path alone: no other Create, copy, failure, clean-up or Delete of a pool
\* (resource_disk.go and resource_pool.go), in whatever order they run.
THEOREM RecordedDisksAreLeftAlone == Spec => [][RecordedStable]_vars
<1>1. TypeOK /\ IInv /\ [Next]_vars => [RecordedStable]_vars
  BY StableStep
<1> QED
  BY <1>1, TypeCorrect, Invariance, PTL DEF Spec

=============================================================================
