----------------------- MODULE InstanceLifecycleProofs -----------------------
(***************************************************************************)
(* Proofs about InstanceLifecycle, for any number of lives, which build on *)
(* those about one Create.                                                 *)
(***************************************************************************)
EXTENDS InstanceLifecycle, InstanceCreateProofs

(***************************************************************************)
(* The invariant adds to that of one Create: when the store is unlinked,   *)
(* the poll has seen the end of vfkit or Delete has sent it SIGKILL; and a *)
(* store that is in use goes with its record, or what kept it is           *)
(* remembered.                                                             *)
(***************************************************************************)
Unlinking == record = "unlinking" => vfkit # "running" \/ killed

StoreInv ==
    store = "own" =>
        /\ efi
        /\ record = "none" /\ create \notin Pending => unremoved \/ cutShort

LifeIInv ==
    LifeTypeOK /\ NoStrayVfkit /\ Unlinking /\ StoreInv /\ StoreIsFresh

-----------------------------------------------------------------------------
(* One Create, seen from its life.                                         *)

LEMMA LifeStart == LifeInit => TypeOK /\ IInv /\ LifeIInv
<1>1. LifeInit => TypeOK /\ IInv
  BY InitHolds DEF LifeInit
<1>2. LifeInit => LifeIInv
  BY DEF LifeInit, Init, LifeIInv, LifeTypeOK, NoStrayVfkit, Unlinking,
     StoreInv, StoreIsFresh, Pending
<1> QED
  BY <1>1, <1>2

\* The next life starts as the first one did.
LEMMA NextLifeInv == NextLife => (TypeOK /\ IInv)'
<1> SUFFICES ASSUME NextLife PROVE TypeOK' /\ IInv'
  OBVIOUS
<1>1. {written, buffered, logged}' \subseteq 0 .. MaxLines
  BY MaxLinesAssumption DEF NextLife
<1>2. quiet' \in BOOLEAN /\ refused' \in BOOLEAN
  BY DEF NextLife
<1>3. TypeOK'
  BY <1>1, <1>2 DEF NextLife, TypeOK, Pending
<1>4. IInv'
  BY DEF NextLife, IInv, Counts, BeforeStart, InWindow, AfterWindow, Collected,
     Failed
<1> QED
  BY <1>3, <1>4

\* Vfkit is collected by launchd.
LEMMA ReapedInv == TypeOK /\ IInv /\ LaunchdReaps => (TypeOK /\ IInv)'
<1> SUFFICES ASSUME TypeOK, IInv, LaunchdReaps PROVE TypeOK' /\ IInv'
  OBVIOUS
<1>1. /\ UNCHANGED <<create, quiet, log, waiting, copier, lines>>
      /\ vfkit = "zombie" /\ waiting = "lost" /\ vfkit' = "reaped"
  BY DEF LaunchdReaps
<1>2. TypeOK'
  BY <1>1 DEF TypeOK, lines
<1>3. IInv'
  BY <1>1 DEF IInv, Counts, BeforeStart, InWindow, AfterWindow, Collected,
     Failed, lines
<1> QED
  BY <1>2, <1>3

\* Any other step is one of a Create, or none: a SIGKILL is seen by nobody.
LEMMA LifeStepCases ==
    [LifeNext]_lifeVars => [Next]_vars \/ NextLife \/ LaunchdReaps
  BY DEF LifeNext, lifeVars, LifeCreate, ReadDrops, SendTerm, DeleteSteps,
     PollSeesEnd, KillAtDeadline, RemoveStore, LifeProviderEnds,
     LifeProcesses, VfkitOpensStore, PoolTakesStore, StrayRuns, LingererEnds,
     Recycle, Next

LEMMA CreateInvStep ==
    TypeOK /\ IInv /\ [LifeNext]_lifeVars => (TypeOK /\ IInv)'
  BY LifeStepCases, TypeStep, InvStep, NextLifeInv, ReapedInv

-----------------------------------------------------------------------------
(* The invariant of the lives.                                             *)

LEMMA LifeStep ==
    TypeOK /\ IInv /\ LifeIInv /\ [LifeNext]_lifeVars => LifeIInv'
<1> SUFFICES ASSUME TypeOK, IInv, LifeIInv, [LifeNext]_lifeVars
             PROVE  LifeIInv'
  OBVIOUS
<1> USE DEF LifeIInv, LifeTypeOK, NoStrayVfkit, Unlinking, StoreInv,
        StoreIsFresh, Pending, recordVars, sigkill, worldVars
<1>1. CASE LifeCreate
  <2>1. CreateSteps /\ UNCHANGED <<efi, foreign, worldVars>>
        /\ record' = (IF create' = "committed" THEN "recorded" ELSE record)
        /\ unremoved' = (unremoved \/ create' = "failed")
    BY <1>1 DEF LifeCreate
  <2>2. create \in Pending /\ create' \in Pending \cup {"committed", "failed"}
    BY <2>1 DEF CreateSteps, OpenLog, StartVfkit, StartFails, SelectExit,
       SelectTimer, Commit
  <2>3. create' = "failed" => vfkit' # "running"
    BY <2>1, CreateInvStep DEF CreateSteps, OpenLog, StartVfkit, StartFails,
       SelectExit, SelectTimer, Commit, IInv, Collected, BeforeStart
  <2>4. record = "none" /\ ~foreign
    BY <2>2
  <2> QED
    BY <2>1, <2>2, <2>3, <2>4
<1>2. CASE NextLife
  BY <1>2 DEF NextLife
<1>3. CASE ReadDrops
  BY <1>3 DEF ReadDrops, isProcessAlive, vars
<1>4. CASE SendTerm
  BY <1>4 DEF SendTerm, isProcessAlive, vars
<1>5. CASE PollSeesEnd
  BY <1>5 DEF PollSeesEnd, isProcessAlive, vars
<1>6. CASE KillAtDeadline
  BY <1>6 DEF KillAtDeadline, vars
<1>7. CASE RemoveStore
  BY <1>7 DEF RemoveStore, vars
<1>8. CASE LifeProviderEnds
  <2>1. /\ vfkit' = vfkit
        /\ create' = IF create \in Pending THEN "crashed" ELSE create
    BY <1>8 DEF LifeProviderEnds, ProviderEnds, vars
  <2> QED
    BY <1>8, <2>1 DEF LifeProviderEnds
<1>9. CASE LifeProcesses
  <2>1. /\ UNCHANGED <<create, recordVars, worldVars>>
        /\ vfkit' = vfkit \/ (vfkit = "running" /\ vfkit' = "zombie")
           \/ (vfkit = "zombie" /\ vfkit' = "reaped")
    BY <1>9 DEF LifeProcesses, GoroutineSteps, Reap, Deliver, CopyLine,
       CopyEnds, VfkitWrites, VfkitRefused, VfkitExits
  <2> QED
    BY <2>1
<1>10. CASE LaunchdReaps
  BY <1>10 DEF LaunchdReaps
<1>11. CASE VfkitOpensStore
  BY <1>11 DEF VfkitOpensStore, vars
<1>12. CASE StrayRuns
  BY <1>12 DEF StrayRuns, vars
<1>13. CASE Recycle
  BY <1>13 DEF Recycle, vars
<1>14. CASE PoolTakesStore
  BY <1>14 DEF PoolTakesStore, vars
<1>15. CASE LingererEnds
  BY <1>15 DEF LingererEnds, vars
<1>16. CASE UNCHANGED lifeVars
  BY <1>16 DEF lifeVars, vars
<1> QED
  BY <1>1, <1>2, <1>3, <1>4, <1>5, <1>6, <1>7, <1>8, <1>9, <1>10, <1>11, <1>12,
     <1>13, <1>14, <1>15, <1>16 DEF LifeNext, DeleteSteps

LEMMA LifeInvariance == LifeSpec => [](TypeOK /\ IInv /\ LifeIInv)
  BY LifeStart, CreateInvStep, LifeStep, PTL DEF LifeSpec

-----------------------------------------------------------------------------
\* Every state of every life has the types above.
THEOREM LifeTypeCorrect == LifeSpec => [](TypeOK /\ LifeTypeOK)
  BY LifeInvariance, PTL DEF LifeIInv

\* What is shown of one Create (resource_instance.go, Create) holds of each.
THEOREM EveryCreateHolds == LifeSpec => [](ErrorHasStderr /\ NoVfkitLeftBehind)
<1>1. TypeOK /\ IInv => ErrorHasStderr /\ NoVfkitLeftBehind
  BY DEF IInv, Failed, ErrorHasStderr, NoVfkitLeftBehind
<1> QED
  BY <1>1, LifeInvariance, PTL

\* A vfkit that runs and was not sent SIGKILL can be reached through its record,
\* unless a Create ended with the provider process: neither Read, nor Delete,
\* nor a failed Create loses one. What the next Create may meet is a vfkit that was
\* sent SIGKILL and is still ending.
THEOREM VfkitStaysReachable == LifeSpec => []NoStrayVfkit
  BY LifeInvariance, PTL DEF LifeIInv

\* Delete takes the EFI variable store along (resource_instance.go, Delete), so
\* that the next life finds one only for the reasons that StoreIsFresh names.
THEOREM StoresAreFresh == LifeSpec => []StoreIsFresh
  BY LifeInvariance, PTL DEF LifeIInv

\* The store is removed only once the end of vfkit was seen or vfkit was sent
\* SIGKILL, by Delete, which does not wait for what the SIGKILL does; or with
\* the pool of an instance that has no record.
THEOREM StoresOutliveVfkit == LifeSpec => StoreOutlivesVfkit
<1>1. LifeIInv /\ [LifeNext]_lifeVars
        => [store = "own" /\ store' = "none"
               => \/ vfkit # "running" \/ killed
                  \/ record = "none" /\ cutShort]_lifeVars
  <2> SUFFICES ASSUME LifeIInv, LifeNext, store = "own", store' = "none"
               PROVE  \/ vfkit # "running" \/ killed
                      \/ record = "none" /\ cutShort
    BY DEF lifeVars
  <2>1. CASE RemoveStore
    BY <2>1 DEF RemoveStore, LifeIInv, Unlinking
  <2>2. CASE PoolTakesStore
    BY <2>2 DEF PoolTakesStore, LifeIInv, NoStrayVfkit
  <2> QED
    BY <2>1, <2>2 DEF LifeNext, LifeCreate, NextLife, ReadDrops, SendTerm,
       DeleteSteps, PollSeesEnd, KillAtDeadline, LifeProviderEnds,
       LifeProcesses, LaunchdReaps, VfkitOpensStore, StrayRuns, LingererEnds,
       Recycle, recordVars, worldVars
<1> QED
  BY <1>1, LifeInvariance, PTL DEF LifeSpec, StoreOutlivesVfkit

-----------------------------------------------------------------------------
(* The processes and the pipe, in every life.                              *)

LEMMA LifePipeStep ==
    TypeOK /\ IInv /\ PipeInv /\ [LifeNext]_lifeVars => PipeInv'
<1> SUFFICES ASSUME TypeOK, IInv, PipeInv, [LifeNext]_lifeVars PROVE PipeInv'
  OBVIOUS
<1>1. CASE [Next]_vars
  BY <1>1, PipeStep
<1>2. CASE NextLife
  BY <1>2 DEF NextLife, PipeInv, StderrLossBounded
<1>3. CASE LaunchdReaps
  BY <1>3 DEF LaunchdReaps, PipeInv, StderrLossBounded, lines
<1> QED
  BY <1>1, <1>2, <1>3, LifeStepCases

LEMMA LifePipeInvariance == LifeSpec => []PipeInv
<1>1. LifeInit => PipeInv
  BY PipeInit DEF LifeInit
<1>2. PipeInv /\ [](TypeOK /\ IInv) /\ [][LifeNext]_lifeVars => []PipeInv
  BY LifePipeStep, PTL
<1> QED
  BY <1>1, <1>2, LifeInvariance, PTL DEF LifeSpec

\* A vfkit that ends, for a SIGKILL of Delete or otherwise, is waited for by the
\* goroutine of its Create (resource_instance.go, Create) while that provider
\* lives; and in no life is more lost of what vfkit wrote than in the first.
THEOREM EveryZombieHasWaiter ==
    LifeSpec => [](ChildIsWaitedFor /\ StderrLossBounded)
<1>1. TypeOK /\ IInv /\ PipeInv => ChildIsWaitedFor /\ StderrLossBounded
  BY DEF TypeOK, IInv, Collected, PipeInv, ChildIsWaitedFor
<1> QED
  BY <1>1, LifeInvariance, LifePipeInvariance, PTL

-----------------------------------------------------------------------------
(* The refinement of LaunchContract over many lives.                       *)

LEMMA LifeContractStep ==
    TypeOK /\ IInv /\ LifeIInv /\ [LifeNext]_lifeVars
        => [Contract!Next]_Contract!vars
<1> SUFFICES ASSUME TypeOK, IInv, LifeIInv, [LifeNext]_lifeVars
             PROVE  [Contract!Next]_Contract!vars
  OBVIOUS
<1>1. CASE [Next]_vars
  BY <1>1, ContractStep
<1>2. CASE NextLife
  BY <1>2 DEF NextLife, TypeOK, Pending, Contract!Next, Contract!Again
<1>3. CASE LaunchdReaps
  BY <1>3 DEF LaunchdReaps, Contract!vars
<1> QED
  BY <1>1, <1>2, <1>3, LifeStepCases

\* The contract is kept by every Create of an instance that is created again and
\* again, whatever happens to it between two Creates.
THEOREM EveryLifeKeepsContract ==
    LifeSpec => Contract!Init /\ [][Contract!Next]_Contract!vars
<1>1. LifeInit => Contract!Init
  BY ContractInit DEF LifeInit
<1> QED
  BY <1>1, LifeContractStep, LifeInvariance, PTL DEF LifeSpec

-----------------------------------------------------------------------------
(***************************************************************************)
(* The refinement of RecordContract. A vfkit that nothing names is a stray  *)
(* of an earlier life or what a cut-short Create of this one left.         *)
(***************************************************************************)
LEMMA RecordInit == LifeInit => Record!Init
  BY DEF LifeInit, Init, Record!Init, Named, Pending

LEMMA RecordStep ==
    TypeOK /\ IInv /\ LifeIInv /\ [LifeNext]_lifeVars
        => [Record!Next]_Record!vars
<1> SUFFICES ASSUME TypeOK, IInv, LifeIInv, [LifeNext]_lifeVars
             PROVE  [Record!Next]_Record!vars
  OBVIOUS
<1> USE DEF TypeOK, LifeIInv, LifeTypeOK, Named, Pending, Record!Next,
            Record!vars, Record!others, recordVars, sigkill, worldVars
<1>1. CASE LifeCreate
  <2>1. /\ CreateSteps /\ UNCHANGED worldVars
        /\ record' = IF create' = "committed" THEN "recorded" ELSE record
    BY <1>1 DEF LifeCreate
  <2>2. CASE OpenLog \/ SelectTimer
    BY <2>1, <2>2 DEF OpenLog, SelectTimer
  <2>3. CASE StartVfkit
    BY <2>1, <2>3 DEF StartVfkit, IInv, BeforeStart, Record!Start
  <2>4. CASE StartFails \/ SelectExit
    BY <2>1, <2>4 DEF StartFails, SelectExit, IInv, BeforeStart, Collected,
       Record!Fail
  <2>5. CASE Commit
    BY <2>1, <2>5 DEF Commit, IInv, AfterWindow, Record!Keep
  <2> QED
    BY <2>1, <2>2, <2>3, <2>4, <2>5 DEF CreateSteps
<1>2. CASE NextLife
  BY <1>2 DEF NextLife, Record!Begin
<1>3. CASE ReadDrops
  BY <1>3 DEF ReadDrops, isProcessAlive, vars, IInv, AfterWindow,
     Record!ReadDrops
<1>4. CASE SendTerm \/ PollSeesEnd
  BY <1>4 DEF SendTerm, PollSeesEnd, vars, Record!Delete
<1>5. CASE KillAtDeadline
  BY <1>5 DEF KillAtDeadline, vars, Record!Kill
<1>6. CASE RemoveStore
  BY <1>6 DEF RemoveStore, vars, Unlinking, IInv, AfterWindow,
     Record!DeleteDrops
<1>7. CASE LifeProviderEnds
  <2>1. /\ vfkit' = vfkit
        /\ create' = IF create \in Pending THEN "crashed" ELSE create
    BY <1>7 DEF LifeProviderEnds, ProviderEnds, vars
  <2> QED
    BY <1>7, <2>1 DEF LifeProviderEnds, Record!CreateCutShort,
       Record!DeleteCutShort
<1>8. CASE LifeProcesses
  <2>1. /\ UNCHANGED <<create, recordVars, worldVars>>
        /\ \/ vfkit' = vfkit
           \/ vfkit = "running" /\ vfkit' = "zombie"
           \/ vfkit = "zombie" /\ vfkit' = "reaped"
    BY <1>8 DEF LifeProcesses, GoroutineSteps, Reap, Deliver, CopyLine,
       CopyEnds, VfkitWrites, VfkitRefused, VfkitExits
  <2> QED
    BY <2>1 DEF Record!End, Record!StrayEnds, Record!LingererEnds
<1>9. CASE LaunchdReaps
  BY <1>9 DEF LaunchdReaps
<1>10. CASE VfkitOpensStore \/ PoolTakesStore \/ Recycle
  BY <1>10 DEF VfkitOpensStore, PoolTakesStore, Recycle, vars
<1>11. CASE StrayRuns
  BY <1>11 DEF StrayRuns, vars, Record!StrayEnds
<1>12. CASE LingererEnds
  BY <1>12 DEF LingererEnds, vars, Record!LingererEnds
<1>13. CASE UNCHANGED lifeVars
  BY <1>13 DEF lifeVars, vars
<1> QED
  BY <1>1, <1>2, <1>3, <1>4, <1>5, <1>6, <1>7, <1>8, <1>9, <1>10, <1>11, <1>12,
     <1>13 DEF LifeNext, DeleteSteps

\* Through all its lives the record of an instance keeps its contract: Read
\* drops it only after vfkit has ended, Delete only after vfkit has ended or was
\* sent SIGKILL, and a vfkit that nothing names and nobody killed is left by a Create
\* that was cut short only.
THEOREM RecordIsKept == LifeSpec => RecordKeepsContract
  BY RecordInit, RecordStep, LifeInvariance, PTL DEF LifeSpec,
     RecordKeepsContract, Record!Spec

=============================================================================
