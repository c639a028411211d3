------------------------- MODULE InstanceCreateProofs -------------------------
(***************************************************************************)
(* Proofs about InstanceCreate, for any number of lines of standard error. *)
(***************************************************************************)
EXTENDS InstanceCreate, TLAPS

(***************************************************************************)
(* The invariant follows Create. Before vfkit is started nothing happened;  *)
(* in the window the file has what the buffer has, and the copy ends only   *)
(* because vfkit did; cmd.Wait returns after both.                          *)
(***************************************************************************)
Counts == logged <= buffered /\ buffered <= written

BeforeStart ==
    create \in {"log", "start"}
        => /\ vfkit = "none" /\ copier = "none" /\ waiting = "none"
           /\ log # "closed" /\ ~quiet
           /\ written = 0 /\ buffered = 0 /\ logged = 0

InWindow ==
    create = "window"
        => /\ vfkit # "none" /\ log # "closed" /\ ~quiet
           /\ log = "open" => logged = buffered
           /\ copier # "none"
           /\ copier = "done" => buffered = written /\ vfkit # "running"

AfterWindow == create \in {"detach", "committed"} => vfkit # "none" /\ quiet

Collected ==
    /\ waiting \in {"drain", "delivered"} => vfkit = "reaped"
    /\ waiting = "delivered" => copier = "done"

Failed ==
    create = "failed"
        => \/ vfkit = "none" /\ waiting = "none" /\ copier = "none"
           \/ /\ vfkit = "reaped" /\ waiting = "delivered" /\ copier = "done"
              /\ buffered = written
              /\ log # "none" => logged = written

IInv ==
    Counts /\ BeforeStart /\ InWindow /\ AfterWindow /\ Collected /\ Failed

LEMMA InitHolds == Init => TypeOK /\ IInv
<1>1. ASSUME Init PROVE TypeOK
  <2>1. quiet \in BOOLEAN /\ refused \in BOOLEAN
    BY <1>1 DEF Init
  <2>2. {written, buffered, logged} \subseteq 0 .. MaxLines
    BY <1>1, MaxLinesAssumption DEF Init
  <2> QED
    BY <1>1, <2>1, <2>2 DEF Init, TypeOK, Pending
<1>2. Init => IInv
  BY DEF Init, IInv, Counts, BeforeStart, InWindow, AfterWindow, Collected,
     Failed
<1> QED
  BY <1>1, <1>2

LEMMA TypeStep == TypeOK /\ IInv /\ [Next]_vars => TypeOK'
<1> SUFFICES ASSUME TypeOK, Counts, [Next]_vars PROVE TypeOK'
  BY DEF IInv
<1> USE MaxLinesAssumption DEF TypeOK, Pending, lines
<1>1. CASE CreateSteps
  BY <1>1 DEF CreateSteps, OpenLog, StartVfkit, StartFails, SelectExit,
     SelectTimer, Commit, CloseLog
<1>2. CASE Reap \/ Deliver \/ CopyEnds
  BY <1>2 DEF Reap, Deliver, CopyEnds
<1>3. CASE CopyLine
  BY <1>3 DEF CopyLine, Counts
<1>4. CASE ProviderEnds
  BY <1>4 DEF ProviderEnds
<1>5. CASE VfkitWrites
  BY <1>5 DEF VfkitWrites
<1>6. CASE VfkitRefused \/ VfkitExits
  BY <1>6 DEF VfkitRefused, VfkitExits
<1>7. CASE UNCHANGED vars
  BY <1>7 DEF vars
<1> QED
  BY <1>1, <1>2, <1>3, <1>4, <1>5, <1>6, <1>7 DEF Next, GoroutineSteps

LEMMA InvStep == TypeOK /\ IInv /\ [Next]_vars => IInv'
<1> SUFFICES ASSUME TypeOK, IInv, [Next]_vars PROVE IInv'
  OBVIOUS
<1> USE MaxLinesAssumption DEF TypeOK, IInv, Counts, BeforeStart, InWindow,
    AfterWindow, Collected, Failed, Pending, lines
<1>1. CASE OpenLog
  BY <1>1 DEF OpenLog
<1>2. CASE StartVfkit
  BY <1>2 DEF StartVfkit
<1>3. CASE StartFails
  BY <1>3 DEF StartFails, CloseLog
<1>4. CASE SelectExit
  BY <1>4 DEF SelectExit, CloseLog
<1>5. CASE SelectTimer
  BY <1>5 DEF SelectTimer, CloseLog
<1>6. CASE Commit
  BY <1>6 DEF Commit
<1>7. CASE Reap
  BY <1>7 DEF Reap
<1>8. CASE Deliver
  BY <1>8 DEF Deliver
<1>9. CASE CopyLine
  BY <1>9 DEF CopyLine
<1>10. CASE CopyEnds
  BY <1>10 DEF CopyEnds
<1>11. CASE ProviderEnds
  BY <1>11 DEF ProviderEnds
<1>12. CASE VfkitWrites
  BY <1>12 DEF VfkitWrites
<1>13. CASE VfkitRefused
  BY <1>13 DEF VfkitRefused
<1>14. CASE VfkitExits
  BY <1>14 DEF VfkitExits
<1>15. CASE UNCHANGED vars
  BY <1>15 DEF vars
<1> QED
  BY <1>1, <1>2, <1>3, <1>4, <1>5, <1>6, <1>7, <1>8, <1>9, <1>10, <1>11,
     <1>12, <1>13, <1>14, <1>15 DEF Next, CreateSteps, GoroutineSteps

LEMMA Invariance == Spec => [](TypeOK /\ IInv)
  BY InitHolds, TypeStep, InvStep, PTL DEF Spec

(* Every state of a Create has the types above.                             *)
THEOREM TypeCorrect == Spec => []TypeOK
  BY Invariance, PTL

(* The error of a vfkit that died in the window carries all it wrote: Create *)
(* reads the buffer only after cmd.Wait, which waits for the copy.          *)
THEOREM StartupErrorIsComplete == Spec => []ErrorHasStderr
<1>1. TypeOK /\ IInv => ErrorHasStderr
  BY DEF IInv, Failed, ErrorHasStderr
<1> QED
  BY <1>1, Invariance, PTL

(* A Create that returns an error leaves no vfkit, not even a zombie.       *)
THEOREM FailedCreateStopsVfkit == Spec => []NoVfkitLeftBehind
<1>1. IInv => NoVfkitLeftBehind
  BY DEF IInv, Failed, NoVfkitLeftBehind
<1> QED
  BY <1>1, Invariance, PTL

-----------------------------------------------------------------------------
(***************************************************************************)
(* The processes and the pipe. What runs or is a zombie has a goroutine in  *)
(* cmd.Wait, unless the provider has ended; the copier stops before vfkit   *)
(* only when the log was closed under it, which only the timer does, or     *)
(* with the provider.                                                      *)
(***************************************************************************)
ChildIsWaitedFor ==
    vfkit \in {"running", "zombie"} => waiting \in {"wait", "lost"}

StderrLossBounded ==
    /\ log # "none" => buffered \in {logged, logged + 1}
    /\ log # "none" /\ buffered # logged => quiet
    /\ refused => quiet \/ waiting = "lost"

PipeInv ==
    /\ vfkit = "none" => waiting = "none" /\ copier = "none"
    /\ waiting = "none" \/ copier = "none" => vfkit = "none"
    /\ log = "closed" /\ copier = "copying" => quiet /\ buffered = logged
    /\ log = "open" => buffered = logged
    /\ copier = "done" /\ vfkit = "running" => quiet \/ waiting = "lost"
    /\ StderrLossBounded

LEMMA PipeInit == Init => PipeInv
  BY DEF Init, PipeInv, StderrLossBounded

LEMMA PipeStep == TypeOK /\ IInv /\ PipeInv /\ [Next]_vars => PipeInv'
<1> SUFFICES ASSUME TypeOK, IInv, PipeInv, [Next]_vars PROVE PipeInv'
  OBVIOUS
<1> USE DEF TypeOK, IInv, BeforeStart, InWindow, Collected, Pending, lines,
    PipeInv, StderrLossBounded
<1>1. CASE OpenLog
  BY <1>1 DEF OpenLog
<1>2. CASE StartVfkit
  BY <1>2 DEF StartVfkit
<1>3. CASE StartFails
  BY <1>3 DEF StartFails, CloseLog
<1>4. CASE SelectExit
  BY <1>4 DEF SelectExit, CloseLog
<1>5. CASE SelectTimer
  BY <1>5 DEF SelectTimer, CloseLog
<1>6. CASE Commit
  BY <1>6 DEF Commit
<1>7. CASE Reap \/ Deliver \/ CopyEnds
  BY <1>7 DEF Reap, Deliver, CopyEnds
<1>8. CASE CopyLine
  BY <1>8, MaxLinesAssumption DEF CopyLine
<1>9. CASE ProviderEnds
  BY <1>9 DEF ProviderEnds
<1>10. CASE VfkitWrites \/ VfkitRefused \/ VfkitExits
  BY <1>10 DEF VfkitWrites, VfkitRefused, VfkitExits
<1>11. CASE UNCHANGED vars
  BY <1>11 DEF vars
<1> QED
  BY <1>1, <1>2, <1>3, <1>4, <1>5, <1>6, <1>7, <1>8, <1>9, <1>10, <1>11
     DEF Next, CreateSteps, GoroutineSteps

LEMMA PipeInvariance == Spec => []PipeInv
<1>1. PipeInv /\ [](TypeOK /\ IInv) /\ [][Next]_vars => []PipeInv
  BY PipeStep, PTL
<1> QED
  BY PipeInit, Invariance, <1>1, PTL DEF Spec

(* As long as the provider lives, a vfkit that runs or has just ended is   *)
(* waited for, detached or not: no zombie is without the goroutine that is  *)
(* to collect it.                                                          *)
THEOREM ZombieHasWaiter == Spec => []ChildIsWaitedFor
<1>1. TypeOK /\ IInv /\ PipeInv => ChildIsWaitedFor
  BY DEF TypeOK, IInv, Collected, PipeInv, ChildIsWaitedFor
<1> QED
  BY <1>1, Invariance, PipeInvariance, PTL

(* What the closed log costs: until the window ends the file has all that   *)
(* the buffer has and vfkit can write; after it the copy loses one line at  *)
(* most before it ends, and from then on vfkit is refused.                  *)
THEOREM StderrLossIsBounded == Spec => []StderrLossBounded
  BY PipeInvariance, PTL DEF PipeInv

-----------------------------------------------------------------------------
(* The refinement of LaunchContract.                                       *)
LEMMA ContractInit == Init => Contract!Init
  BY DEF Init, Contract!Init, Pending

LEMMA ContractStep ==
    TypeOK /\ IInv /\ [Next]_vars => [Contract!Next]_Contract!vars
<1> SUFFICES ASSUME TypeOK, IInv, [Next]_vars
             PROVE  [Contract!Next]_Contract!vars
  OBVIOUS
<1> USE DEF TypeOK, IInv, BeforeStart, InWindow, AfterWindow, Collected, Pending
<1>1. CASE OpenLog
  BY <1>1 DEF OpenLog, Contract!vars
<1>2. CASE StartVfkit
  BY <1>2 DEF StartVfkit, Contract!Next, Contract!Spawn
<1>3. CASE StartFails \/ SelectExit
  BY <1>3 DEF StartFails, SelectExit, Contract!Next, Contract!Fail
<1>4. CASE SelectTimer
  BY <1>4 DEF SelectTimer, Contract!Next, Contract!Announce
<1>5. CASE Commit
  BY <1>5 DEF Commit, Contract!Next, Contract!Commit
<1>6. CASE Deliver
  BY <1>6 DEF Deliver, Contract!Next, Contract!ProcEnds
<1>7. CASE Reap \/ CopyLine \/ CopyEnds
  BY <1>7 DEF Reap, CopyLine, CopyEnds, Contract!vars
<1>8. CASE ProviderEnds
  BY <1>8 DEF ProviderEnds, Contract!Next, Contract!Crash, Contract!vars
<1>9. CASE VfkitWrites \/ VfkitRefused \/ VfkitExits
  BY <1>9 DEF VfkitWrites, VfkitRefused, VfkitExits, Contract!vars
<1>10. CASE UNCHANGED vars
  BY <1>10 DEF vars, Contract!vars
<1> QED
  BY <1>1, <1>2, <1>3, <1>4, <1>5, <1>6, <1>7, <1>8, <1>9, <1>10 DEF Next,
     CreateSteps, GoroutineSteps

(* An instance is committed only if its window ended before its exit was    *)
(* collected, and its Create fails only without a running vfkit.            *)
THEOREM InstanceCreateKeepsContract ==
    Spec => Contract!Init /\ [][Contract!Next]_Contract!vars
  BY ContractInit, ContractStep, Invariance, PTL DEF Spec

=============================================================================
