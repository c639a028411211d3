------------------------------ MODULE PoolFiles ------------------------------
(***************************************************************************)
(* What the provider keeps in pool directories: disks and a cloud-init     *)
(* directory, made and removed at the same time, and the removal of a pool *)
(* with what failed operations left in it.                                 *)
(***************************************************************************)
EXTENDS Storage, CloudInit

CONSTANT SeedPool   \* the pool that the cloud-init directory is in

ASSUME SeedPoolAssumption == SeedPool \in Pool

filesVars == <<vars, seedVars>>

FilesInit == Init /\ SeedInit

DiskPart == \E d \in Disk : DiskSteps(d) /\ UNCHANGED seedVars

\* A pool is removed after the cloud-init directory in it, or what is left of
\* that, and its own directory last.
PoolPart ==
    \/ \E q \in Pool : \/ CreatePool(q) \/ ReadPoolDrops(q)
                       \/ PoolDeleted(q) \/ DeletePoolFails(q)
                       \/ DeletePool(q) /\ (q = SeedPool => seed = "none")
       /\ UNCHANGED seedVars
    \/ \E q \in Pool :
          /\ RemoveEntry(q)
          /\ IF SeedPool \in dirs \ dirs' THEN PoolTakesDirectory
             ELSE UNCHANGED seedVars
    \/ \E f \in Files :
          /\ poolStage[SeedPool] = "deleting"
          /\ PoolTakesFile(f)
          /\ UNCHANGED vars

SeedPart ==
    \/ \E w \in Config : StartSeed(w) /\ MakeDir(SeedPool)
    \/ SeedSteps /\ UNCHANGED vars

FilesNext ==
    \/ DiskPart \/ PoolPart \/ SeedPart
    \/ ProviderDies /\ SeedCutShort

FilesSpec == FilesInit /\ [][FilesNext]_filesVars

=============================================================================
