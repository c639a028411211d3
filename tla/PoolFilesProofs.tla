--------------------------- MODULE PoolFilesProofs ---------------------------
(***************************************************************************)
(* Proofs about CloudInit, for any texts and configurations, and about the *)
(* composition of a cloud-init directory with the disks and pools.         *)
(***************************************************************************)
EXTENDS PoolFiles, StorageProofs

\* What the directory holds as the Create of its record comes along.
SeedInv ==
    /\ damaged => leftover /\ seed \in {"recorded", "removing"}
    /\ seed = "none" /\ ~leftover => \A f \in Files : entry[f] = Absent
    /\ seed \in Files \cup {"commit", "recorded"} /\ ~leftover
            /\ want["network-config"] = Absent
        => entry["network-config"] = Absent
    /\ seed \in {"meta-data", "network-config", "commit", "recorded"} /\ ~damaged
        => entry["user-data"] = want["user-data"]
    /\ seed \in {"network-config", "commit", "recorded"} /\ ~damaged
        => entry["meta-data"] = want["meta-data"]
    /\ seed = "network-config" => want["network-config"] # Absent
    /\ seed \in {"commit", "recorded"} /\ ~damaged
            /\ want["network-config"] # Absent
        => entry["network-config"] = want["network-config"]

SeedIInv == SeedTypeOK /\ SeedInv

LEMMA ConfigFacts ==
    ASSUME NEW w \in Config
    PROVE  /\ w \in [Files -> Data \cup {Absent}]
           /\ w["user-data"] # Absent
           /\ w["meta-data"] # Absent
  BY ConfigAssumption

LEMMA SeedInitial == SeedInit => SeedIInv
  BY DEF SeedInit, SeedIInv, SeedTypeOK, SeedInv, Files

LEMMA SeedStep == SeedIInv /\ [SeedNext]_seedVars => SeedIInv'
<1> SUFFICES ASSUME SeedIInv, [SeedNext]_seedVars PROVE SeedIInv'
  OBVIOUS
<1> USE DEF SeedIInv, SeedTypeOK, SeedInv, Files
<1>0. /\ want \in [Files -> Data \cup {Absent}]
      /\ want["user-data"] # Absent
      /\ want["meta-data"] # Absent
  BY ConfigFacts
<1>1. ASSUME NEW w \in Config, StartSeed(w) PROVE SeedIInv'
  BY <1>1 DEF StartSeed
<1>2. CASE WriteFile
  BY <1>0, <1>2 DEF WriteFile, After
<1>3. CASE CommitSeed
  BY <1>3 DEF CommitSeed
<1>4. CASE SeedFails
  BY <1>4 DEF SeedFails
<1>5. CASE ReadSeedDrops
  BY <1>0, <1>5 DEF ReadSeedDrops
<1>6. CASE DeleteSeed
  BY <1>6 DEF DeleteSeed
<1>7. CASE Removed
  BY <1>7 DEF Removed
<1>8. CASE RemoveFails
  BY <1>8 DEF RemoveFails
<1>9. ASSUME NEW f \in Files, RemoveFile(f) PROVE SeedIInv'
  BY <1>9 DEF RemoveFile
<1>10. CASE SeedCutShort
  <2>1. CASE seed = "commit" /\ seed' = "none" /\ leftover' = TRUE
             /\ UNCHANGED <<want, entry, damaged>>
    BY <2>1
  <2>2. CASE UNCHANGED seedVars
    BY <2>2 DEF seedVars
  <2> QED
    BY <1>4, <1>8, <1>10, <2>1, <2>2 DEF SeedCutShort
<1>11. ASSUME NEW f \in Files, PoolTakesFile(f) PROVE SeedIInv'
  BY <1>11 DEF PoolTakesFile
<1>12. CASE PoolTakesDirectory
  BY <1>12 DEF PoolTakesDirectory
<1>13. CASE UNCHANGED seedVars
  BY <1>13 DEF seedVars
<1> QED
  BY <1>1, <1>2, <1>3, <1>4, <1>5, <1>6, <1>7, <1>8, <1>9, <1>10, <1>11, <1>12,
     <1>13 DEF SeedNext, SeedSteps

LEMMA SeedInvariance == SeedSpec => []SeedIInv
  BY SeedInitial, SeedStep, PTL DEF SeedSpec

LEMMA SeedHolds == SeedIInv => SeedAsPlanned
  BY DEF SeedIInv, SeedInv, SeedAsPlanned, Files

-----------------------------------------------------------------------------
(* The composition.                                                        *)

\* A step in a pool directory is one of the disks and pools and one of the
\* cloud-init directory, or leaves either alone.
LEMMA FilesStep ==
    ASSUME [FilesNext]_filesVars PROVE [Next]_vars /\ [SeedNext]_seedVars
<1>1. CASE DiskPart
  BY <1>1 DEF DiskPart, Next
<1>2. CASE PoolPart
  <2>1. ASSUME NEW q \in Pool, UNCHANGED seedVars,
               \/ CreatePool(q) \/ ReadPoolDrops(q)
               \/ PoolDeleted(q) \/ DeletePoolFails(q) \/ DeletePool(q)
        PROVE  [Next]_vars /\ [SeedNext]_seedVars
    BY <2>1 DEF Next, PoolSteps
  <2>2. ASSUME NEW q \in Pool, RemoveEntry(q),
               PoolTakesDirectory \/ UNCHANGED seedVars
        PROVE  [Next]_vars /\ [SeedNext]_seedVars
    BY <2>2 DEF Next, PoolSteps, SeedNext
  <2>3. ASSUME NEW f \in Files, PoolTakesFile(f), UNCHANGED vars
        PROVE  [Next]_vars /\ [SeedNext]_seedVars
    BY <2>3 DEF SeedNext
  <2> QED
    BY <1>2, <2>1, <2>2, <2>3 DEF PoolPart
<1>3. CASE SeedPart
  <2>1. ASSUME NEW w \in Config, StartSeed(w), MakeDir(SeedPool)
        PROVE  [Next]_vars /\ [SeedNext]_seedVars
    BY <2>1, SeedPoolAssumption DEF Next, SeedNext
  <2>2. CASE SeedSteps /\ UNCHANGED vars
    BY <2>2 DEF SeedNext
  <2> QED
    BY <1>3, <2>1, <2>2 DEF SeedPart
<1>4. CASE ProviderDies /\ SeedCutShort
  BY <1>4 DEF Next, SeedNext
<1>5. CASE UNCHANGED filesVars
  BY <1>5 DEF filesVars
<1> QED
  BY <1>1, <1>2, <1>3, <1>4, <1>5 DEF FilesNext

\* The composition implements its parts.
THEOREM FilesImplementsParts == FilesSpec => Spec /\ SeedSpec
  BY FilesStep, PTL DEF FilesSpec, FilesInit, Spec, SeedSpec

\* A recorded cloud-init directory holds what its configuration asks for, with
\* the exceptions that SeedAsPlanned names, whatever happens to its pool
\* (resource_cloudinit_disk.go, Create and Delete).
THEOREM SeedKept == FilesSpec => []SeedAsPlanned
  BY FilesImplementsParts, SeedInvariance, SeedHolds, PTL

\* What holds of pools and disks holds beside a cloud-init directory.
THEOREM DisksKept ==
    FilesSpec => [](/\ TypeOK /\ RecordedIsWhole
                    /\ OrphanOnlyAfterFailure /\ NothingOutlivesPool)
  BY FilesImplementsParts, TypeCorrect, Wholeness, Orphans, PoolsAreEmptied, PTL

\* Nor does anything that happens to a cloud-init directory change their files.
THEOREM RecordedDisksKept == FilesSpec => [][RecordedStable]_filesVars
<1>1. TypeOK /\ IInv /\ [FilesNext]_filesVars => [RecordedStable]_filesVars
  BY FilesStep, StableStep
<1> QED
  BY <1>1, FilesImplementsParts, TypeCorrect, Invariance, PTL DEF FilesSpec

-----------------------------------------------------------------------------
(***************************************************************************)
(* The cloud-init directory and its pool. A record, Create or Delete of the *)
(* one keeps the record of the other from being deleted; the files that are *)
(* left without a record go with the pool's directory.                     *)
(***************************************************************************)
SeedPlaced ==
    /\ seed # "none" => poolStage[SeedPool] = "recorded" /\ SeedPool \in dirs
    /\ (\E f \in Files : entry[f] # Absent) => SeedPool \in dirs
    /\ leftover => SeedPool \in dirs
    /\ poolStage[SeedPool] = "none" => SeedPool \notin dirs

NothingOfSeedOutlivesPool ==
    poolStage[SeedPool] = "none"
        => seed = "none" /\ ~leftover /\ \A f \in Files : entry[f] = Absent

LEMMA SeedPlacedInit == FilesInit => SeedPlaced
  BY SeedPoolAssumption DEF FilesInit, Init, SeedInit, SeedPlaced

LEMMA SeedPlacedStep ==
    TypeOK /\ SeedTypeOK /\ SeedPlaced /\ [FilesNext]_filesVars => SeedPlaced'
<1> SUFFICES ASSUME TypeOK, SeedTypeOK, SeedPlaced, [FilesNext]_filesVars
             PROVE  SeedPlaced'
  OBVIOUS
<1> USE SeedPoolAssumption DEF TypeOK, SeedTypeOK, SeedPlaced, seedVars
<1>1. CASE DiskPart
  <2>1. UNCHANGED <<poolStage, dirs, seedVars>>
    BY <1>1 DEF DiskPart, DiskSteps, StartCreate, Clone, Open, CopyBlock, Fit,
       RefuseToShrink, Commit, FailCreate, ReadDrops, Delete, poolVars
  <2> QED
    BY <2>1
<1>2. CASE PoolPart
  <2>1. ASSUME NEW q \in Pool, UNCHANGED seedVars,
               \/ CreatePool(q) \/ ReadPoolDrops(q)
               \/ PoolDeleted(q) \/ DeletePoolFails(q)
               \/ DeletePool(q) /\ (q = SeedPool => seed = "none")
        PROVE  SeedPlaced'
    BY <2>1 DEF CreatePool, ReadPoolDrops, PoolDeleted, DeletePoolFails,
       DeletePool
  <2>2. ASSUME NEW q \in Pool, RemoveEntry(q),
               IF SeedPool \in dirs \ dirs' THEN PoolTakesDirectory
               ELSE UNCHANGED seedVars
        PROVE  SeedPlaced'
    BY <2>2 DEF RemoveEntry, PoolTakesDirectory
  <2>3. ASSUME NEW f \in Files, PoolTakesFile(f), UNCHANGED vars
        PROVE  SeedPlaced'
    BY <2>3 DEF PoolTakesFile, vars
  <2> QED
    BY <1>2, <2>1, <2>2, <2>3 DEF PoolPart
<1>3. CASE SeedPart
  <2>1. ASSUME NEW w \in Config, StartSeed(w), MakeDir(SeedPool)
        PROVE  SeedPlaced'
    BY <2>1 DEF StartSeed, MakeDir
  <2>2. CASE SeedSteps /\ UNCHANGED vars
    <3>1. UNCHANGED <<poolStage, dirs>> /\ seed # "none"
      BY <2>2 DEF vars, SeedSteps, WriteFile, CommitSeed, SeedFails,
         ReadSeedDrops, DeleteSeed, Removed, RemoveFails, RemoveFile, Files
    <3> QED
      BY <3>1
  <2> QED
    BY <1>3, <2>1, <2>2 DEF SeedPart
<1>4. CASE ProviderDies /\ SeedCutShort
  <2>1. dirs' = dirs /\ poolStage' = [q \in Pool |->
            IF poolStage[q] = "none" THEN "none" ELSE "recorded"]
    BY <1>4 DEF ProviderDies
  <2>2. seed # "none" \/ UNCHANGED seedVars
    BY <1>4 DEF SeedCutShort, SeedFails, RemoveFails, Files
  <2> QED
    BY <2>1, <2>2 DEF SeedCutShort
<1>5. CASE UNCHANGED filesVars
  BY <1>5 DEF filesVars, vars
<1> QED
  BY <1>1, <1>2, <1>3, <1>4, <1>5 DEF FilesNext

\* The record of a pool goes only after the cloud-init directory in it: neither
\* its files nor what a Create or Delete that was cut short left there remain
\* (resource_pool.go, Delete; resource_cloudinit_disk.go).
THEOREM SeedGoesWithPool == FilesSpec => []NothingOfSeedOutlivesPool
<1>1. SeedPlaced => NothingOfSeedOutlivesPool
  BY DEF SeedPlaced, NothingOfSeedOutlivesPool
<1>2. SeedPlaced /\ [](TypeOK /\ SeedTypeOK) /\ [][FilesNext]_filesVars
        => []SeedPlaced
  BY SeedPlacedStep, PTL
<1>3. SeedIInv => SeedTypeOK
  BY DEF SeedIInv
<1> QED
  BY <1>1, <1>2, <1>3, SeedPlacedInit, FilesImplementsParts, TypeCorrect,
     SeedInvariance, PTL DEF FilesSpec

=============================================================================
