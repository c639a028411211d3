------------------------------- MODULE Storage -------------------------------
(***************************************************************************)
(* Pools and disks: directories and the raw files in them, and the records *)
(* Terraform keeps of them. Several disks are created at the same time; any *)
(* step may fail, and the provider may die between two of them. A file that *)
(* a failed Create leaves is met by the next one.                          *)
(*                                                                         *)
(* Terraform orders the operations: a disk is created after its pool and   *)
(* after the disk it clones, and each of these outlasts it or its Create.  *)
(* Open files are known by their paths. Where that differs from their      *)
(* inodes, two disks have one path, and nothing is claimed of its contents. *)
(***************************************************************************)
EXTENDS Naturals, Sequences

CONSTANTS
    Disk,       \* macvf_disk resources
    Pool,       \* macvf_pool resources, a directory each
    Path,       \* paths of disk files, <pool_id>/<name>.raw
    PoolOf,     \* the directory a path lies in
    Image,      \* files outside the pools
    Contents,   \* what each image holds
    Block,      \* what a unit of a file may hold
    Zero,       \* what a hole reads as
    Plan,       \* what the configuration of a disk may ask for
    None        \* no file, no source, no size

File == Seq(Block)

ASSUME NoneAssumption == None \notin File \cup Path \cup Image \cup Nat
ASSUME ZeroAssumption == Zero \in Block
ASSUME PathAssumption == Path \cap Image = {} /\ PoolOf \in [Path -> Pool]
ASSUME ContentsAssumption ==
    DOMAIN Contents = Image /\ \A i \in Image : Contents[i] \in File
\* Create refuses a size of zero, and a blank disk without a size.
ASSUME PlanAssumption ==
    \A pl \in Plan :
        /\ DOMAIN pl = {"path", "from", "size"}
        /\ pl.path \in Path
        /\ pl.from \in Path \cup Image \cup {None}
        /\ pl.size = None => pl.from # None
        /\ pl.size # None => pl.size \in Nat \ {0}

VARIABLES
    poolStage,  \* the record of each pool, or its Delete in progress
    dirs,       \* the pool directories there are
    stage,      \* the record of each disk, or its Create in progress
    plan,       \* the plan of that record or Create
    offset,     \* how far the copy of a Create has come
    file,       \* what is at each path
    due,        \* history: what the plan asks the file to hold
    contested,  \* history: paths two disks were given at the same time, and
                \* those of the clones made from such a path
    residue     \* history: paths where a Create failed after its first write

vars == <<poolStage, dirs, stage, plan, offset, file, due, contested, residue>>
poolVars == <<poolStage, dirs>>

Writing == {"copy", "fit", "commit"}
Creating == {"open"} \cup Writing

TypeOK ==
    /\ poolStage \in [Pool -> {"none", "recorded", "deleting"}]
    /\ dirs \subseteq Pool
    /\ stage \in [Disk -> Creating \cup {"none", "recorded"}]
    /\ \A d \in Disk :
          /\ stage[d] # "none" => plan[d] \in Plan
          /\ stage[d] = "copy" => plan[d].from # None
    /\ DOMAIN plan = Disk
    /\ offset \in [Disk -> Nat]
    /\ DOMAIN file = Path
    /\ \A p \in Path : file[p] # None => file[p] \in File
    /\ DOMAIN due = Disk
    /\ contested \subseteq Path
    /\ residue \subseteq Path

Init ==
    /\ poolStage = [q \in Pool |-> "none"]
    /\ dirs = {}
    /\ stage = [d \in Disk |-> "none"]
    /\ plan = [d \in Disk |-> None]
    /\ offset = [d \in Disk |-> 0]
    /\ file = [p \in Path |-> None]
    /\ due = [d \in Disk |-> None]
    /\ contested = {}
    /\ residue = {}

\* What can be read at a path or image.
At(src) == IF src \in Image THEN Contents[src] ELSE file[src]

\* truncate(2): a shorter file gets a hole at its end.
Truncated(f, n) == [i \in 1 .. n |-> IF i <= Len(f) THEN f[i] ELSE Zero]

\* write(2) of one block after the first n.
Written(f, n, b) ==
    [i \in 1 .. IF Len(f) > n THEN Len(f) ELSE n + 1 |->
        IF i = n + 1 THEN b ELSE IF i <= Len(f) THEN f[i] ELSE Zero]

Asked(pl) ==
    LET f == IF pl.from = None THEN <<>> ELSE At(pl.from)
    IN  IF pl.size = None THEN f ELSE Truncated(f, pl.size)

Holds(d, p) == stage[d] # "none" /\ plan[d].path = p
Copies(d, p) == stage[d] \in {"open", "copy"} /\ plan[d].from = p

\* The disks in S are through with their paths.
Release(S) ==
    /\ stage' = [d \in Disk |-> IF d \in S THEN "none" ELSE stage[d]]
    /\ plan' = [d \in Disk |-> IF d \in S THEN None ELSE plan[d]]
    /\ offset' = [d \in Disk |-> IF d \in S THEN 0 ELSE offset[d]]
    /\ due' = [d \in Disk |-> IF d \in S THEN None ELSE due[d]]
    /\ contested' = {p \in contested : \E e \in Disk \ S : Holds(e, p)}

-----------------------------------------------------------------------------
(* Create of a disk.                                                       *)

\* A disk asks for a path somebody has, or for a clone of a contested one.
Clash(d, pl) ==
    pl.from \in contested \/ \E e \in Disk \ {d} : Holds(e, pl.path)

StartCreate(d, pl) ==
    /\ stage[d] = "none"
    /\ poolStage[PoolOf[pl.path]] = "recorded"
    /\ pl.from \in Path =>
           \E e \in Disk : stage[e] = "recorded" /\ plan[e].path = pl.from
    /\ stage' = [stage EXCEPT ![d] = "open"]
    /\ plan' = [plan EXCEPT ![d] = pl]
    /\ due' = [due EXCEPT ![d] =
                  IF pl.from \in Path /\ file[pl.from] = None THEN None
                  ELSE Asked(pl)]
    /\ contested' =
           IF Clash(d, pl)
           THEN contested \cup {pl.path} \cup
                    {p \in Path : \E e \in Disk :
                         Copies(e, pl.path) /\ plan[e].path = p}
           ELSE contested
    /\ UNCHANGED <<poolVars, offset, file, residue>>

\* The pool's directory is there, and so is the source.
CanOpen(d) ==
    /\ stage[d] = "open"
    /\ PoolOf[plan[d].path] \in dirs
    /\ plan[d].from # None => At(plan[d].from) # None

\* clonefileat makes the whole copy at once, and only at a free path.
Clone(d) ==
    /\ CanOpen(d)
    /\ plan[d].from # None
    /\ file[plan[d].path] = None
    /\ file' = [file EXCEPT ![plan[d].path] = At(plan[d].from)]
    /\ stage' = [stage EXCEPT ![d] = "fit"]
    /\ UNCHANGED <<poolVars, plan, offset, due, contested, residue>>

\* Deviation: the case of a blank disk falls through to the copy.
OpenToCopy(d) ==
    /\ CanOpen(d)
    /\ file' = [file EXCEPT ![plan[d].path] = <<>>]
    /\ offset' = [offset EXCEPT ![d] = 0]
    /\ stage' = [stage EXCEPT ![d] = "copy"]
    /\ UNCHANGED <<poolVars, plan, due, contested, residue>>

\* Deviation: the destination is opened without O_TRUNC.
OpenOver(d) ==
    /\ CanOpen(d)
    /\ file' = [file EXCEPT ![plan[d].path] = IF @ = None THEN <<>> ELSE @]
    /\ offset' = [offset EXCEPT ![d] = 0]
    /\ stage' = [stage EXCEPT
                    ![d] = IF plan[d].from = None THEN "fit" ELSE "copy"]
    /\ UNCHANGED <<poolVars, plan, due, contested, residue>>

\* Where it cannot clone, copyFile opens the destination, as os.Create does for
\* a blank disk: whatever was at the path is emptied.
Open(d) ==
    /\ CanOpen(d)
    /\ file' = [file EXCEPT ![plan[d].path] = <<>>]
    /\ offset' = [offset EXCEPT ![d] = 0]
    /\ stage' = [stage EXCEPT
                    ![d] = IF plan[d].from = None THEN "fit" ELSE "copy"]
    /\ UNCHANGED <<poolVars, plan, due, contested, residue>>

\* io.Copy, block by block. A file that was removed is written to all the same.
CopyBlock(d) ==
    LET src == At(plan[d].from) IN
    /\ stage[d] = "copy"
    /\ IF src # None /\ offset[d] < Len(src)
       THEN /\ file' = [file EXCEPT ![plan[d].path] =
                           IF @ = None THEN None
                           ELSE Written(@, offset[d], src[offset[d] + 1])]
            /\ offset' = [offset EXCEPT ![d] = @ + 1]
            /\ UNCHANGED stage
       ELSE /\ stage' = [stage EXCEPT ![d] = "fit"]
            /\ offset' = [offset EXCEPT ![d] = 0]
            /\ UNCHANGED file
    /\ UNCHANGED <<poolVars, plan, due, contested, residue>>

\* A blank disk, or a copy that is not larger, gets the size that was asked for.
Fit(d) ==
    LET p == plan[d].path IN
    /\ stage[d] = "fit"
    /\ plan[d].size # None /\ plan[d].from # None
           => file[p] # None /\ Len(file[p]) <= plan[d].size
    /\ file' = [file EXCEPT ![p] =
                   IF plan[d].size = None \/ @ = None THEN @
                   ELSE Truncated(@, plan[d].size)]
    /\ stage' = [stage EXCEPT ![d] = "commit"]
    /\ UNCHANGED <<poolVars, plan, offset, due, contested, residue>>

\* Deviation: the copy that cannot be shrunk is left behind.
RefuseToShrinkOnly(d) ==
    LET p == plan[d].path IN
    /\ stage[d] = "fit"
    /\ plan[d].size # None /\ plan[d].from # None
    /\ file[p] # None /\ Len(file[p]) > plan[d].size
    /\ Release({d})
    /\ UNCHANGED <<poolVars, file, residue>>

\* A copy larger than the size asked for is removed.
RefuseToShrink(d) ==
    LET p == plan[d].path IN
    /\ stage[d] = "fit"
    /\ plan[d].size # None /\ plan[d].from # None
    /\ file[p] # None /\ Len(file[p]) > plan[d].size
    /\ file' = [file EXCEPT ![p] = None]
    /\ Release({d})
    /\ residue' = residue \ {p}
    /\ UNCHANGED poolVars

Commit(d) ==
    /\ stage[d] = "commit"
    /\ stage' = [stage EXCEPT ![d] = "recorded"]
    /\ UNCHANGED <<poolVars, plan, offset, file, due, contested, residue>>

\* The paths at which the Creates in S may have begun a file.
Begun(S) == {p \in Path : \E d \in S : stage[d] \in Writing /\ plan[d].path = p}

\* Any step but the last may return an error; what was written stays.
FailCreate(d) ==
    /\ stage[d] \in {"open", "copy", "fit"}
    /\ Release({d})
    /\ residue' = residue \cup Begun({d})
    /\ UNCHANGED <<poolVars, file>>

-----------------------------------------------------------------------------
(* Read and Delete of a disk.                                              *)

ReadDrops(d) ==
    /\ stage[d] = "recorded"
    /\ file[plan[d].path] = None
    /\ Release({d})
    /\ UNCHANGED <<poolVars, file, residue>>

\* A file that is gone already is no error; after any other the record stays.
Delete(d) ==
    LET p == plan[d].path IN
    /\ stage[d] = "recorded"
    /\ ~ \E e \in Disk : Copies(e, p)
    /\ file' = [file EXCEPT ![p] = None]
    /\ Release({d})
    /\ residue' = residue \ {p}
    /\ UNCHANGED poolVars

DiskSteps(d) ==
    \/ \E pl \in Plan : StartCreate(d, pl)
    \/ Clone(d) \/ Open(d) \/ CopyBlock(d) \/ Fit(d) \/ RefuseToShrink(d)
    \/ Commit(d) \/ FailCreate(d) \/ ReadDrops(d) \/ Delete(d)

-----------------------------------------------------------------------------
(* Pools.                                                                  *)

FilesIn(q) == {p \in Path : PoolOf[p] = q /\ file[p] # None}

\* MkdirAll takes over a directory that exists.
CreatePool(q) ==
    /\ poolStage[q] = "none"
    /\ poolStage' = [poolStage EXCEPT ![q] = "recorded"]
    /\ dirs' = dirs \cup {q}
    /\ UNCHANGED <<stage, plan, offset, file, due, contested, residue>>

\* MkdirAll of a cloud-init directory makes that of its pool as well.
MakeDir(q) ==
    /\ poolStage[q] = "recorded"
    /\ dirs' = dirs \cup {q}
    /\ UNCHANGED <<poolStage, stage, plan, offset, file, due, contested, residue>>

ReadPoolDrops(q) ==
    /\ poolStage[q] = "recorded"
    /\ q \notin dirs
    /\ poolStage' = [poolStage EXCEPT ![q] = "none"]
    /\ UNCHANGED <<dirs, stage, plan, offset, file, due, contested, residue>>

DeletePool(q) ==
    /\ poolStage[q] = "recorded"
    /\ ~ \E d \in Disk : stage[d] # "none" /\ PoolOf[plan[d].path] = q
    /\ poolStage' = [poolStage EXCEPT ![q] = "deleting"]
    /\ UNCHANGED <<dirs, stage, plan, offset, file, due, contested, residue>>

\* os.RemoveAll, one entry after the other and the directory last.
RemoveEntry(q) ==
    /\ poolStage[q] = "deleting"
    /\ \/ \E p \in FilesIn(q) :
             /\ file' = [file EXCEPT ![p] = None]
             /\ residue' = residue \ {p}
             /\ UNCHANGED dirs
       \/ /\ FilesIn(q) = {}
          /\ dirs' = dirs \ {q}
          /\ UNCHANGED <<file, residue>>
    /\ UNCHANGED <<poolStage, stage, plan, offset, due, contested>>

\* Deviation: the record goes although the directory could not be removed.
PoolForgotten(q) ==
    /\ poolStage[q] = "deleting"
    /\ poolStage' = [poolStage EXCEPT ![q] = "none"]
    /\ UNCHANGED <<dirs, stage, plan, offset, file, due, contested, residue>>

PoolDeleted(q) ==
    /\ poolStage[q] = "deleting"
    /\ q \notin dirs
    /\ poolStage' = [poolStage EXCEPT ![q] = "none"]
    /\ UNCHANGED <<dirs, stage, plan, offset, file, due, contested, residue>>

\* RemoveAll stops at an error: Terraform keeps the record.
DeletePoolFails(q) ==
    /\ poolStage[q] = "deleting"
    /\ poolStage' = [poolStage EXCEPT ![q] = "recorded"]
    /\ UNCHANGED <<dirs, stage, plan, offset, file, due, contested, residue>>

PoolSteps(q) ==
    \/ CreatePool(q) \/ ReadPoolDrops(q) \/ DeletePool(q) \/ RemoveEntry(q)
    \/ PoolDeleted(q) \/ DeletePoolFails(q)

-----------------------------------------------------------------------------
\* The provider process dies in the middle of its operations.
ProviderDies ==
    LET cut == {d \in Disk : stage[d] \in Creating} IN
    /\ Release(cut)
    /\ residue' = residue \cup Begun(cut)
    /\ poolStage' = [q \in Pool |-> IF poolStage[q] = "none" THEN "none"
                                    ELSE "recorded"]
    /\ UNCHANGED <<dirs, file>>

Next ==
    \/ \E d \in Disk : DiskSteps(d)
    \/ \E q \in Pool : PoolSteps(q) \/ MakeDir(q)
    \/ ProviderDies

Spec == Init /\ [][Next]_vars

-----------------------------------------------------------------------------
(* Properties.                                                             *)

\* A recorded disk holds what its plan asked for, a copy of all of its source,
\* grown and never shrunk to the size, whatever failed Creates left at its path
\* and whatever is cloned from it. Two disks with one path lose this.
RecordedIsWhole ==
    \A d \in Disk :
        stage[d] = "recorded" /\ plan[d].path \notin contested
            => file[plan[d].path] = due[d] /\ due[d] # None

\* A file that no disk has is what a failed or interrupted Create left: neither
\* Read, nor Delete, nor the refusal to shrink leaves one.
OrphanOnlyAfterFailure ==
    \A p \in Path : file[p] # None =>
        p \in residue \/ \E d \in Disk : Holds(d, p)

\* A pool takes everything below it along, orphans included: without its record
\* there is no file.
NothingOutlivesPool ==
    \A p \in Path : poolStage[PoolOf[p]] = "none" => file[p] = None

=============================================================================
