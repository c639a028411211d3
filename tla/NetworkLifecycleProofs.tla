------------------------ MODULE NetworkLifecycleProofs ------------------------
(***************************************************************************)
(* Proofs about NetworkLifecycle, for any number of networks and process    *)
(* identifiers, whether or not identifiers recur.                          *)
(***************************************************************************)
EXTENDS NetworkLifecycle, TLAPS

(* Type correctness.                                                       *)
LEMMA TypeInit == Init => TypeOK
  BY DEF Init, TypeOK, Runner, Recorded

LEMMA SockAfterType ==
    ASSUME TypeOK, NEW p
    PROVE  SockAfter(p) \in [Network -> Pid \cup {"absent", "stale"}]
  BY DEF TypeOK, SockAfter

LEMMA RemainsType == ASSUME NEW p PROVE Remains(p) \in {"zombie", "gone"}
  BY DEF Remains

LEMMA TypeStep == TypeOK /\ [Next]_vars => TypeOK'
<1> SUFFICES ASSUME TypeOK, [Next]_vars PROVE TypeOK'
  OBVIOUS
<1> USE DEF TypeOK, Runner, Killed, Recorded
<1>1. ASSUME NEW n \in Network, NEW p \in Pid, StartCreate(n, p)
      PROVE  TypeOK'
  BY <1>1 DEF StartCreate
<1>2. ASSUME NEW n \in Network, CommitCreate(n) PROVE TypeOK'
  BY <1>2 DEF CommitCreate
<1>3. ASSUME NEW n \in Network, FailCreate(n) PROVE TypeOK'
  BY <1>3, SockAfterType DEF FailCreate
<1>4. ASSUME NEW n \in Network, ReadDrops(n) PROVE TypeOK'
  BY <1>4 DEF ReadDrops, TryRemove
<1>5. ASSUME NEW n \in Network, SendTerm(n) PROVE TypeOK'
  BY <1>5 DEF SendTerm, Terminated
<1>6. ASSUME NEW n \in Network, PollSeesEnd(n) PROVE TypeOK'
  BY <1>6 DEF PollSeesEnd
<1>7. ASSUME NEW n \in Network, KillAtDeadline(n) PROVE TypeOK'
  BY <1>7 DEF KillAtDeadline, SigKilled
<1>8. ASSUME NEW n \in Network, RemoveSocket(n) PROVE TypeOK'
  BY <1>8 DEF RemoveSocket, TryRemove
<1>9. ASSUME NEW p \in Pid, Bind(p) PROVE TypeOK'
  BY <1>9 DEF Bind
<1>10. ASSUME NEW p \in Pid, BindFails(p) PROVE TypeOK'
  BY <1>10 DEF BindFails
<1>11. ASSUME NEW p \in Pid, StopServing(p) PROVE TypeOK'
  BY <1>11 DEF StopServing
<1>12. ASSUME NEW p \in Pid, Unlink(p) PROVE TypeOK'
  BY <1>12 DEF Unlink
<1>13. ASSUME NEW p \in Pid, RunnerEnds(p) PROVE TypeOK'
  BY <1>13, SockAfterType, RemainsType DEF RunnerEnds
<1>14. ASSUME NEW p \in Pid, Recycle(p) PROVE TypeOK'
  BY <1>14 DEF Recycle
<1>15. CASE ProviderEnds
  BY <1>15 DEF ProviderEnds
<1>16. ASSUME NEW p \in Pid, KilledEnds(p) PROVE TypeOK'
  BY <1>16, SockAfterType, RemainsType DEF KilledEnds
<1>17. CASE UNCHANGED vars
  BY <1>17 DEF vars
<1> QED
  BY <1>1, <1>2, <1>3, <1>4, <1>5, <1>6, <1>7, <1>8, <1>9, <1>10, <1>11,
     <1>12, <1>13, <1>14, <1>15, <1>16, <1>17 DEF Next, DeleteSteps,
     RunnerSteps

(* The variables keep their types and every record or Create has a PID.    *)
THEOREM TypeCorrect == Spec => []TypeOK
  BY TypeInit, TypeStep, PTL DEF Spec

-----------------------------------------------------------------------------
(***************************************************************************)
(* NoStrayRunner is not inductive: Read and Delete drop records, and are    *)
(* right to do so only because the runner they drop has ended or was sent   *)
(* SIGKILL. Named says that a live runner's network is not past that point, *)
(* Stopped that Delete removes the socket after it, and Bound that a runner *)
(* keeps its socket until it unlinks it itself.                             *)
(***************************************************************************)
Named ==
    \A n \in Network \ cutShort, p \in Pid :
        IsRunnerOf(p, n)
            => phase[n] \in {"creating", "recorded", "polling"} /\ pid[n] = p

Bound ==
    \A n \in Network \ cutShort, p \in Pid :
        IsRunnerOf(p, n) /\ proc[p] \in {"serving", "stopping"} => sock[n] = p

Stopped == \A n \in Network : phase[n] = "unlinking" => ~IsRunnerOf(pid[n], n)

IInv == Named /\ Bound /\ Stopped

LEMMA InvInit == Init => IInv
  BY DEF Init, IInv, Named, Bound, Stopped, IsRunnerOf, Runner

LEMMA InvStep == TypeOK /\ IInv /\ [Next]_vars => IInv'
<1> SUFFICES ASSUME TypeOK, Named, Bound, Stopped, [Next]_vars
             PROVE  IInv'
  BY DEF IInv
<1> USE DEF IInv, TypeOK, Named, Bound, Stopped, IsRunnerOf, Runner
\* No runner of n is left, and the identifier p is not a runner's.
<1>1. ASSUME NEW n \in Network, NEW p \in Pid, StartCreate(n, p)
      PROVE  IInv'
  BY <1>1 DEF StartCreate
<1>2. ASSUME NEW n \in Network, CommitCreate(n) PROVE IInv'
  BY <1>2 DEF CommitCreate
<1>3. ASSUME NEW n \in Network, FailCreate(n) PROVE IInv'
  BY <1>3 DEF FailCreate, SockAfter
\* By Named, a live runner of n would be the one whose PID is gone.
<1>4. ASSUME NEW n \in Network, ReadDrops(n) PROVE IInv'
  BY <1>4 DEF ReadDrops, isProcessAlive, TryRemove
<1>5. ASSUME NEW n \in Network, SendTerm(n) PROVE IInv'
  BY <1>5 DEF SendTerm, Terminated
<1>6. ASSUME NEW n \in Network, PollSeesEnd(n) PROVE IInv'
  BY <1>6 DEF PollSeesEnd, isProcessAlive
<1>7. ASSUME NEW n \in Network, KillAtDeadline(n)
      PROVE  IInv'
  BY <1>7 DEF KillAtDeadline, SigKilled
<1>8. ASSUME NEW n \in Network, RemoveSocket(n) PROVE IInv'
  BY <1>8 DEF RemoveSocket, TryRemove
\* Two runners of one network would both be named by its one PID.
<1>9. ASSUME NEW p \in Pid, Bind(p) PROVE IInv'
  BY <1>9 DEF Bind
<1>10. ASSUME NEW p \in Pid, BindFails(p) PROVE IInv'
  BY <1>10 DEF BindFails
<1>11. ASSUME NEW p \in Pid, StopServing(p) PROVE IInv'
  BY <1>11 DEF StopServing
<1>12. ASSUME NEW p \in Pid, Unlink(p) PROVE IInv'
  BY <1>12 DEF Unlink
<1>13. ASSUME NEW p \in Pid, RunnerEnds(p) PROVE IInv'
  BY <1>13, RemainsType DEF RunnerEnds, SockAfter
<1>14. ASSUME NEW p \in Pid, Recycle(p) PROVE IInv'
  BY <1>14 DEF Recycle
<1>15. CASE ProviderEnds
  BY <1>15 DEF ProviderEnds, Recorded
\* What was sent SIGKILL is no runner, and the socket it held nobody's.
<1>16. ASSUME NEW p \in Pid, KilledEnds(p) PROVE IInv'
  BY <1>16, RemainsType DEF KilledEnds, Killed, SockAfter
<1>17. CASE UNCHANGED vars
  BY <1>17 DEF vars
<1> QED
  BY <1>1, <1>2, <1>3, <1>4, <1>5, <1>6, <1>7, <1>8, <1>9, <1>10, <1>11,
     <1>12, <1>13, <1>14, <1>15, <1>16, <1>17 DEF Next, DeleteSteps,
     RunnerSteps

LEMMA Invariance == Spec => [](TypeOK /\ IInv)
  BY TypeInit, TypeStep, InvInit, InvStep, PTL DEF Spec

(* Every live runner is named by its network's record or pending Create,   *)
(* unless the provider was killed in the middle of a Create of that network. *)
THEOREM RunnersAreNamed == Spec => []NoStrayRunner
<1>1. IInv => NoStrayRunner
  BY DEF IInv, Named, NoStrayRunner
<1> QED
  BY <1>1, Invariance, PTL

(* No Read, Delete or late shutdown takes the socket of a serving runner.  *)
THEOREM SocketsAreKept == Spec => []ServingHasSocket
<1>1. IInv => ServingHasSocket
  BY DEF IInv, Bound, ServingHasSocket
<1> QED
  BY <1>1, Invariance, PTL

(* A Read drops a record only once the runner it names has ended, a Delete  *)
(* once it has ended or was sent SIGKILL, also for a network one of whose    *)
(* Creates was cut short. That Delete does not wait for the end of a runner *)
(* it sent SIGKILL is part of the statement.                               *)
THEOREM RecordsOutliveRunners == Spec => RecordDroppedWhenStopped
<1>1. TypeOK /\ IInv /\ [Next]_vars
        => [\A n \in Network : phase[n] \in Recorded /\ phase'[n] = "none"
                => /\ ~IsRunnerOf(pid[n], n)
                   /\ phase[n] = "recorded"
                         => ~IsKilledRunnerOf(pid[n], n)]_vars
  <2> SUFFICES ASSUME TypeOK, Stopped, Next, NEW n \in Network,
                      phase[n] \in Recorded, phase'[n] = "none"
               PROVE  /\ ~IsRunnerOf(pid[n], n)
                      /\ phase[n] = "recorded" => ~IsKilledRunnerOf(pid[n], n)
    BY DEF IInv
  <2>1. CASE ReadDrops(n)
    BY <2>1 DEF ReadDrops, isProcessAlive, IsRunnerOf, IsKilledRunnerOf, Runner
  <2>2. CASE RemoveSocket(n)
    BY <2>2 DEF RemoveSocket, Stopped
  <2>3. CASE ~ReadDrops(n) /\ ~RemoveSocket(n)
    BY <2>3 DEF Next, StartCreate, CommitCreate, FailCreate, ReadDrops,
       SendTerm, DeleteSteps, PollSeesEnd, KillAtDeadline, RemoveSocket,
       ProviderEnds, RunnerSteps, Bind, BindFails, StopServing, Unlink,
       RunnerEnds, KilledEnds, Recycle, Recorded, TypeOK
  <2> QED
    BY <2>1, <2>2, <2>3
<1> QED
  BY <1>1, Invariance, PTL DEF Spec, RecordDroppedWhenStopped

-----------------------------------------------------------------------------
(***************************************************************************)
(* The refinement of RecordContract by each network. Polls and the binds of *)
(* runners are unseen; a step on one network's identifier may end or kill   *)
(* another's runner, which the contract allows at any time.                *)
(***************************************************************************)
Stray(n) == \E p \in Pid : IsRunnerOf(p, n) /\ Unnamed(p, n)
Lingering(n) == \E p \in Pid : IsKilledRunnerOf(p, n) /\ Unnamed(p, n)

LEMMA RecordInit == Init => \A n \in Network : Record(n)!Init
<1> SUFFICES ASSUME Init, NEW n \in Network PROVE Record(n)!Init
  OBVIOUS
<1>1. phase[n] = "none" /\ n \notin cutShort
  BY DEF Init
<1>2. \A p \in Pid : ~IsRunnerOf(p, n) /\ ~IsKilledRunnerOf(p, n)
  BY DEF Init, IsRunnerOf, IsKilledRunnerOf, Runner
<1>3. Stray(n) = FALSE /\ Lingering(n) = FALSE
  BY <1>2 DEF Stray, Lingering
<1>4. (n \in cutShort) = FALSE
  BY <1>1
<1> QED
  BY <1>1, <1>3, <1>4 DEF Record!Init, Stray, Lingering

\* A step that moves no process and no PID of the network, and leaves what the
\* record is, is unseen.
LEMMA RecordUnseen ==
    ASSUME TypeOK, NEW n \in Network,
           pid'[n] = pid[n], cutShort' = cutShort,
           phase'[n] = phase[n]
              \/ {phase[n], phase'[n]} \subseteq {"polling", "unlinking"},
           \A p \in Pid : /\ IsRunnerOf(p, n)' <=> IsRunnerOf(p, n)
                          /\ IsKilledRunnerOf(p, n)' <=> IsKilledRunnerOf(p, n)
    PROVE  UNCHANGED Record(n)!vars
<1>1. Stray(n)' = Stray(n) /\ Lingering(n)' = Lingering(n)
  BY DEF Stray, Lingering, Unnamed
<1>2. phase[n] # "none" => pid[n] \in Pid
  BY DEF TypeOK
<1> QED
  BY <1>1, <1>2 DEF Record!vars, Stray, Lingering

\* A step that ends a process or sends it SIGKILL, whichever it is.
LEMMA ProcessMoves ==
    ASSUME TypeOK, NEW n \in Network, NEW p \in Pid,
           pid'[n] = pid[n], cutShort' = cutShort, owner' = owner,
           phase'[n] = phase[n]
              \/ {phase[n], phase'[n]} \subseteq {"polling", "unlinking"},
           \A q \in Pid \ {p} : proc'[q] = proc[q],
           proc'[p] \notin Runner,
           proc'[p] = "killed" => proc[p] \in Runner \cup {"killed"}
    PROVE  [Record(n)!Next]_(Record(n)!vars)
<1>1. \A q \in Pid \ {p} :
         /\ IsRunnerOf(q, n)' <=> IsRunnerOf(q, n)
         /\ IsKilledRunnerOf(q, n)' <=> IsKilledRunnerOf(q, n)
  BY DEF IsRunnerOf, IsKilledRunnerOf
<1>2. /\ ~IsRunnerOf(p, n)'
      /\ IsKilledRunnerOf(p, n)'
            => IsRunnerOf(p, n) \/ IsKilledRunnerOf(p, n)
      /\ ~(IsRunnerOf(p, n) /\ IsKilledRunnerOf(p, n))
  BY DEF IsRunnerOf, IsKilledRunnerOf, Runner
<1>3. \A q \in Pid : Unnamed(q, n)' <=> Unnamed(q, n)
  BY DEF Unnamed
<1>4. CASE /\ ~IsRunnerOf(p, n)
           /\ IsKilledRunnerOf(p, n)' <=> IsKilledRunnerOf(p, n)
  BY <1>1, <1>2, <1>4, RecordUnseen
<1>5. CASE /\ IsRunnerOf(p, n) \/ IsKilledRunnerOf(p, n)
           /\ ~Unnamed(p, n)
  <2>1. phase[n] # "none" /\ pid[n] = p
    BY <1>5 DEF Unnamed
  <2>2. Stray(n)' = Stray(n) /\ Lingering(n)' = Lingering(n)
    <3>1. Stray(n)' <=> Stray(n)
      BY <1>1, <1>2, <1>3, <1>5 DEF Stray
    <3>2. Lingering(n)' <=> Lingering(n)
      BY <1>1, <1>3, <1>5 DEF Lingering
    <3> QED
      BY <3>1, <3>2 DEF Stray, Lingering
  <2> QED
    BY <1>2, <1>5, <2>1, <2>2 DEF Record!Next, Record!vars, Record!others,
       Record!Kill, Record!End, Stray, Lingering
<1>6. CASE IsRunnerOf(p, n) /\ Unnamed(p, n)
  <2>1. Stray(n) = TRUE /\ (Lingering(n) => Lingering(n)')
    BY <1>1, <1>2, <1>3, <1>6 DEF Stray, Lingering
  <2>2. phase[n] = "none" \/ pid[n] # p
    BY <1>6 DEF Unnamed
  <2>3. /\ phase'[n] = "none" <=> phase[n] = "none"
        /\ phase[n] # "none" => pid[n] \in Pid \ {p}
    BY <2>2 DEF TypeOK
  <2>4. CASE IsKilledRunnerOf(p, n)'
    <3>1. Lingering(n)' = TRUE /\ Stray(n)' \in BOOLEAN
      BY <1>3, <1>6, <2>4 DEF Lingering, Stray
    <3> QED
      BY <1>1, <2>1, <2>3, <3>1 DEF Record!Next, Record!StrayKilled, Stray,
         Lingering
  <2>5. CASE ~IsKilledRunnerOf(p, n)'
    <3>1. Lingering(n)' = Lingering(n)
      BY <1>1, <1>2, <1>3, <1>6, <2>5 DEF Lingering
    <3>2. Stray(n)' = TRUE \/ Stray(n)' = FALSE
      BY DEF Stray
    <3> QED
      BY <1>1, <2>1, <2>3, <3>1, <3>2 DEF Record!Next, Record!vars,
         Record!StrayEnds, Stray, Lingering
  <2> QED
    BY <2>4, <2>5
<1>7. CASE IsKilledRunnerOf(p, n) /\ Unnamed(p, n) /\ ~IsKilledRunnerOf(p, n)'
  <2>1. Lingering(n) = TRUE /\ (Lingering(n)' = TRUE \/ Lingering(n)' = FALSE)
    BY <1>7 DEF Lingering
  <2>2. Stray(n)' = Stray(n)
    BY <1>1, <1>2, <1>3, <1>7 DEF Stray
  <2>3. phase[n] = "none" \/ pid[n] # p
    BY <1>7 DEF Unnamed
  <2>4. /\ phase'[n] = "none" <=> phase[n] = "none"
        /\ phase[n] # "none" => pid[n] \in Pid \ {p}
    BY <2>3 DEF TypeOK
  <2> QED
    BY <1>1, <2>1, <2>2, <2>4 DEF Record!Next, Record!vars,
       Record!LingererEnds, Stray, Lingering
<1> QED
  BY <1>2, <1>4, <1>5, <1>6, <1>7

\* The end of the provider, in a Create, in a Delete or in neither.
LEMMA ProviderEndsSeen ==
    ASSUME TypeOK, ProviderEnds, NEW n \in Network
    PROVE  [Record(n)!Next]_(Record(n)!vars)
<1>1. /\ pid'[n] = IF phase[n] = "creating" THEN NoPid ELSE pid[n]
      /\ n \in cutShort' <=> n \in cutShort \/ phase[n] = "creating"
      /\ phase[n] # "none" => pid[n] \in Pid
  BY DEF ProviderEnds, TypeOK
<1>2. \A p \in Pid : /\ IsRunnerOf(p, n)' <=> IsRunnerOf(p, n)
                     /\ IsKilledRunnerOf(p, n)' <=> IsKilledRunnerOf(p, n)
  BY DEF ProviderEnds, IsRunnerOf, IsKilledRunnerOf, Runner, TypeOK
<1>3. CASE phase[n] = "creating"
  <2>1. phase'[n] = "none" /\ n \in cutShort'
    BY <1>1, <1>3 DEF ProviderEnds
  <2>2. /\ \A p \in Pid : Unnamed(p, n)'
        /\ \A p \in Pid : Unnamed(p, n) <=> pid[n] # p
    BY <1>3, <2>1 DEF Unnamed
  <2>3. Stray(n)' = (Stray(n) \/ IsRunnerOf(pid[n], n))
    <3>1. Stray(n)' <=> Stray(n) \/ IsRunnerOf(pid[n], n)
      BY <1>1, <1>2, <1>3, <2>2 DEF Stray
    <3> QED
      BY <3>1 DEF Stray
  <2>4. Lingering(n)' = (Lingering(n) \/ IsKilledRunnerOf(pid[n], n))
    <3>1. Lingering(n)' <=> Lingering(n) \/ IsKilledRunnerOf(pid[n], n)
      BY <1>1, <1>2, <1>3, <2>2 DEF Lingering
    <3> QED
      BY <3>1 DEF Lingering
  <2>5. ~(IsRunnerOf(pid[n], n) /\ IsKilledRunnerOf(pid[n], n))
    BY DEF IsRunnerOf, IsKilledRunnerOf, Runner
  <2> QED
    BY <1>3, <2>1, <2>3, <2>4, <2>5 DEF Record!Next, Record!CreateCutShort,
       Stray, Lingering
<1>4. CASE phase[n] # "creating"
  <2>1. /\ phase'[n] = IF phase[n] = "none" THEN "none" ELSE "recorded"
        /\ pid'[n] = pid[n]
        /\ (n \in cutShort)' = (n \in cutShort)
    BY <1>1, <1>4 DEF ProviderEnds
  <2>2. Stray(n)' = Stray(n) /\ Lingering(n)' = Lingering(n)
    BY <1>2, <2>1 DEF Stray, Lingering, Unnamed
  <2>3. phase[n] \in {"none", "recorded", "polling", "unlinking"}
    BY <1>4 DEF TypeOK, Recorded
  <2> QED
    BY <1>1, <1>2, <2>1, <2>2, <2>3 DEF Record!Next, Record!vars,
       Record!others, Record!DeleteCutShort, Stray, Lingering
<1> QED
  BY <1>3, <1>4

LEMMA RecordStep ==
    ASSUME TypeOK, IInv, [Next]_vars, NEW n \in Network
    PROVE  [Record(n)!Next]_(Record(n)!vars)
<1> DEFINE Seen == [Record(n)!Next]_(Record(n)!vars)
           Names(p) == /\ IsRunnerOf(p, n)' <=> IsRunnerOf(p, n)
                       /\ IsKilledRunnerOf(p, n)' <=> IsKilledRunnerOf(p, n)
<1> USE DEF TypeOK
<1>1. ASSUME NEW m \in Network, NEW p \in Pid, StartCreate(m, p) PROVE Seen
  <2>1. \A q \in Pid \ {p} : Names(q)
    BY <1>1 DEF StartCreate, IsRunnerOf, IsKilledRunnerOf
  <2>2. ~IsRunnerOf(p, n) /\ ~IsKilledRunnerOf(p, n)
    BY <1>1 DEF StartCreate, IsRunnerOf, IsKilledRunnerOf, Runner
  <2>3. CASE m = n
    <3>1. /\ phase[n] = "none" /\ phase'[n] = "creating" /\ pid'[n] = p
          /\ IsRunnerOf(p, n)' /\ ~IsKilledRunnerOf(p, n)'
          /\ cutShort' = cutShort
      BY <1>1, <2>3 DEF StartCreate, IsRunnerOf, IsKilledRunnerOf, Runner
    <3>2. Stray(n)' = Stray(n) /\ Lingering(n)' = Lingering(n)
      <4>1. Stray(n)' <=> Stray(n)
        BY <2>1, <2>2, <3>1 DEF Stray, Unnamed
      <4>2. Lingering(n)' <=> Lingering(n)
        BY <2>1, <2>2, <3>1 DEF Lingering, Unnamed
      <4> QED
        BY <4>1, <4>2 DEF Stray, Lingering
    <3> QED
      BY <3>1, <3>2 DEF Record!Next, Record!Begin, Record!others, Stray,
         Lingering
  <2>4. CASE m # n
    <3>1. /\ phase'[n] = phase[n] /\ pid'[n] = pid[n] /\ cutShort' = cutShort
          /\ ~IsRunnerOf(p, n)' /\ ~IsKilledRunnerOf(p, n)'
      BY <1>1, <2>4 DEF StartCreate, IsRunnerOf, IsKilledRunnerOf
    <3> QED
      BY <2>1, <2>2, <3>1, RecordUnseen
  <2> QED
    BY <2>3, <2>4
\* Steps on the record itself; the same of another network is unseen.
<1>2. ASSUME NEW m \in Network, CommitCreate(m) PROVE Seen
  <2>1. \A p \in Pid : Names(p)
    BY <1>2 DEF CommitCreate, IsRunnerOf, IsKilledRunnerOf
  <2>2. CASE m = n
    <3>1. /\ phase[n] = "creating" /\ phase'[n] = "recorded"
          /\ pid'[n] = pid[n] /\ pid[n] \in Pid /\ cutShort' = cutShort
      BY <1>2, <2>2 DEF CommitCreate
    <3>2. Stray(n)' = Stray(n) /\ Lingering(n)' = Lingering(n)
      BY <2>1, <3>1 DEF Stray, Lingering, Unnamed
    <3> QED
      BY <2>1, <3>1, <3>2 DEF Record!Next, Record!Keep, Record!others, Stray,
         Lingering
  <2>3. CASE m # n
    <3>1. phase'[n] = phase[n] /\ pid'[n] = pid[n] /\ cutShort' = cutShort
      BY <1>2, <2>3 DEF CommitCreate
    <3> QED
      BY <2>1, <3>1, RecordUnseen
  <2> QED
    BY <2>2, <2>3
<1>3. ASSUME NEW m \in Network, FailCreate(m) PROVE Seen
  <2>1. /\ pid[m] \in Pid /\ proc'[pid[m]] = "gone"
        /\ \A q \in Pid \ {pid[m]} : proc'[q] = proc[q]
        /\ UNCHANGED <<owner, cutShort>>
    BY <1>3 DEF FailCreate
  <2>2. CASE m = n
    <3>1. phase[n] = "creating" /\ phase'[n] = "none"
      BY <1>3, <2>2 DEF FailCreate
    <3>2. PICK p \in Pid : p = pid[n]
      BY <2>1, <2>2
    <3>3. /\ ~IsRunnerOf(p, n)' /\ ~IsKilledRunnerOf(p, n)'
          /\ \A q \in Pid \ {p} : Names(q)
      BY <2>1, <2>2, <3>2 DEF IsRunnerOf, IsKilledRunnerOf, Runner
    <3>4. /\ \A q \in Pid : Unnamed(q, n)'
          /\ \A q \in Pid : Unnamed(q, n) <=> q # p
      BY <3>1, <3>2 DEF Unnamed
    <3>5. Stray(n)' = Stray(n) /\ Lingering(n)' = Lingering(n)
      <4>1. Stray(n)' <=> Stray(n)
        BY <3>3, <3>4 DEF Stray
      <4>2. Lingering(n)' <=> Lingering(n)
        BY <3>3, <3>4 DEF Lingering
      <4> QED
        BY <4>1, <4>2 DEF Stray, Lingering
    <3> QED
      BY <2>1, <3>1, <3>5 DEF Record!Next, Record!Fail, Record!others, Stray,
         Lingering
  <2>3. CASE m # n
    <3>1. phase'[n] = phase[n] /\ pid'[n] = pid[n]
      BY <1>3, <2>3 DEF FailCreate
    <3> QED
      BY <2>1, <3>1, ProcessMoves DEF Runner
  <2> QED
    BY <2>2, <2>3
<1>4. ASSUME NEW m \in Network, ReadDrops(m) \/ RemoveSocket(m) PROVE Seen
  <2>1. \A p \in Pid : Names(p)
    BY <1>4 DEF ReadDrops, RemoveSocket, IsRunnerOf, IsKilledRunnerOf
  <2>2. CASE m = n
    <3>1. /\ phase[n] \in {"recorded", "unlinking"} /\ phase'[n] = "none"
          /\ pid[n] \in Pid /\ cutShort' = cutShort
          /\ ~IsRunnerOf(pid[n], n)
          /\ phase[n] = "recorded" => ~IsKilledRunnerOf(pid[n], n)
      BY <1>4, <2>2 DEF ReadDrops, RemoveSocket, IInv, Stopped,
         isProcessAlive, IsRunnerOf, IsKilledRunnerOf, Runner
    <3>2. Stray(n)' = Stray(n)
      <4>1. Stray(n)' <=> Stray(n)
        BY <2>1, <3>1 DEF Stray, Unnamed
      <4> QED
        BY <4>1 DEF Stray
    <3>3. Lingering(n)' = (Lingering(n) \/ IsKilledRunnerOf(pid[n], n))
      <4>1. Lingering(n)' <=> Lingering(n) \/ IsKilledRunnerOf(pid[n], n)
        BY <2>1, <3>1 DEF Lingering, Unnamed
      <4> QED
        BY <4>1 DEF Lingering
    <3>4. CASE phase[n] = "recorded"
      BY <3>1, <3>2, <3>3, <3>4 DEF Record!Next, Record!ReadDrops,
         Record!others, Stray, Lingering
    <3>5. CASE phase[n] = "unlinking"
      BY <3>1, <3>2, <3>3, <3>5 DEF Record!Next, Record!DeleteDrops, Stray,
         Lingering
    <3> QED
      BY <3>1, <3>4, <3>5
  <2>3. CASE m # n
    <3>1. phase'[n] = phase[n] /\ pid'[n] = pid[n] /\ cutShort' = cutShort
      BY <1>4, <2>3 DEF ReadDrops, RemoveSocket
    <3> QED
      BY <2>1, <3>1, RecordUnseen
  <2> QED
    BY <2>2, <2>3
<1>5. ASSUME NEW m \in Network, SendTerm(m) PROVE Seen
  <2>1. \A p \in Pid : Names(p)
    BY <1>5 DEF SendTerm, Terminated, IsRunnerOf, IsKilledRunnerOf, Runner
  <2>2. CASE m = n
    <3>1. /\ phase[n] = "recorded" /\ phase'[n] \in {"polling", "unlinking"}
          /\ pid'[n] = pid[n] /\ pid[n] \in Pid /\ cutShort' = cutShort
      BY <1>5, <2>2 DEF SendTerm
    <3>2. Stray(n)' = Stray(n) /\ Lingering(n)' = Lingering(n)
      BY <2>1, <3>1 DEF Stray, Lingering, Unnamed
    <3> QED
      BY <2>1, <3>1, <3>2 DEF Record!Next, Record!Delete, Record!others, Stray,
         Lingering
  <2>3. CASE m # n
    <3>1. phase'[n] = phase[n] /\ pid'[n] = pid[n] /\ cutShort' = cutShort
      BY <1>5, <2>3 DEF SendTerm
    <3> QED
      BY <2>1, <3>1, RecordUnseen
  <2> QED
    BY <2>2, <2>3
\* Steps on processes.
<1>6. ASSUME NEW m \in Network, PollSeesEnd(m) PROVE Seen
  BY <1>6, RecordUnseen DEF PollSeesEnd, IsRunnerOf, IsKilledRunnerOf
<1>7. ASSUME NEW m \in Network, KillAtDeadline(m) PROVE Seen
  <2>1. /\ pid[m] \in Pid /\ UNCHANGED <<pid, owner, cutShort>>
        /\ phase'[n] = phase[n]
              \/ {phase[n], phase'[n]} \subseteq {"polling", "unlinking"}
        /\ \A q \in Pid \ {pid[m]} : proc'[q] = proc[q]
        /\ proc'[pid[m]] \notin Runner
        /\ proc'[pid[m]] = "killed" => proc[pid[m]] \in Runner \cup {"killed"}
    BY <1>7 DEF KillAtDeadline, SigKilled, Runner
  <2> QED
    BY <2>1, ProcessMoves
<1>8. ASSUME NEW p \in Pid,
             \/ Bind(p) \/ BindFails(p) \/ StopServing(p) \/ Unlink(p)
             \/ Recycle(p)
      PROVE  Seen
  <2>1. \A q \in Pid : Names(q)
    BY <1>8 DEF Bind, BindFails, StopServing, Unlink, Recycle, IsRunnerOf,
       IsKilledRunnerOf, Runner
  <2>2. UNCHANGED <<phase, pid, cutShort>>
    BY <1>8 DEF Bind, BindFails, StopServing, Unlink, Recycle
  <2> QED
    BY <2>1, <2>2, RecordUnseen
<1>9. ASSUME NEW p \in Pid, RunnerEnds(p) \/ KilledEnds(p) PROVE Seen
  <2>1. /\ UNCHANGED <<phase, pid, owner, cutShort>>
        /\ \A q \in Pid \ {p} : proc'[q] = proc[q]
        /\ proc'[p] \in {"zombie", "gone"}
    BY <1>9, RemainsType DEF RunnerEnds, KilledEnds
  <2> QED
    BY <2>1, ProcessMoves DEF Runner
<1>10. CASE ProviderEnds
  BY <1>10, ProviderEndsSeen
<1>11. CASE UNCHANGED vars
  BY <1>11, RecordUnseen DEF vars, IsRunnerOf, IsKilledRunnerOf
<1> QED
  BY <1>1, <1>2, <1>3, <1>4, <1>5, <1>6, <1>7, <1>8, <1>9, <1>10, <1>11
     DEF Next, DeleteSteps, RunnerSteps

(* Through Create, Read, Delete and the end of the provider at any point of *)
(* them, each network's record keeps its contract: Read drops it after its  *)
(* runner has ended, Delete after the runner has ended or was sent SIGKILL, *)
(* and a runner that nothing names and nobody killed is left by a Create    *)
(* that was cut short only.                                                *)
THEOREM RecordsAreKept == Spec => RecordsKeepContract
<1>1. TypeOK /\ IInv /\ [Next]_vars
        => [\A n \in Network : [Record(n)!Next]_(Record(n)!vars)]_vars
  BY RecordStep
<1> QED
  BY <1>1, RecordInit, Invariance, PTL DEF Spec, RecordsKeepContract

-----------------------------------------------------------------------------
(* A Create is committed for a runner that has bound its socket.           *)

\* The runner that the identifier of n names, where it is n's and still runs,
\* is past its bind once n's Create heard of it.
BoundOnceHeard(n) ==
    phase[n] # "none" /\ (phase[n] = "creating" => n \in announced)
            /\ IsRunnerOf(pid[n], n)
        => proc[pid[n]] # "booting"

HeardInv == \A n \in Network : BoundOnceHeard(n)

RecordedHasBound ==
    \A n \in Network :
        phase[n] \in Recorded /\ IsRunnerOf(pid[n], n)
            => proc[pid[n]] # "booting"

LEMMA HeardStep == TypeOK /\ HeardInv /\ [Next]_vars => HeardInv'
<1> SUFFICES ASSUME TypeOK, HeardInv, [Next]_vars PROVE HeardInv'
  OBVIOUS
<1> USE DEF TypeOK, HeardInv, BoundOnceHeard, IsRunnerOf, Runner, Recorded
<1>1. ASSUME NEW n \in Network, NEW p \in Pid, StartCreate(n, p)
      PROVE  HeardInv'
  BY <1>1 DEF StartCreate
<1>2. ASSUME NEW n \in Network, FailCreate(n) PROVE HeardInv'
  BY <1>2 DEF FailCreate
<1>3. ASSUME NEW n \in Network,
             CommitCreate(n) \/ ReadDrops(n) \/ PollSeesEnd(n) \/ RemoveSocket(n)
      PROVE  HeardInv'
  BY <1>3 DEF CommitCreate, ReadDrops, PollSeesEnd, RemoveSocket
<1>4. ASSUME NEW n \in Network, SendTerm(n) PROVE HeardInv'
  BY <1>4 DEF SendTerm, Terminated
<1>5. ASSUME NEW n \in Network, KillAtDeadline(n) PROVE HeardInv'
  BY <1>5 DEF KillAtDeadline, SigKilled
<1>6. ASSUME NEW p \in Pid, Bind(p) PROVE HeardInv'
  BY <1>6 DEF Bind
<1>7. ASSUME NEW p \in Pid, BindFails(p) \/ StopServing(p) \/ Unlink(p)
      PROVE  HeardInv'
  BY <1>7 DEF BindFails, StopServing, Unlink
<1>8. ASSUME NEW p \in Pid, RunnerEnds(p) \/ KilledEnds(p) PROVE HeardInv'
  BY <1>8 DEF RunnerEnds, KilledEnds, Remains
<1>9. ASSUME NEW p \in Pid, Recycle(p) PROVE HeardInv'
  BY <1>9 DEF Recycle
<1>10. CASE ProviderEnds
  BY <1>10 DEF ProviderEnds
<1>11. CASE UNCHANGED vars
  BY <1>11 DEF vars
<1> QED
  BY <1>1, <1>2, <1>3, <1>4, <1>5, <1>6, <1>7, <1>8, <1>9, <1>10, <1>11
     DEF Next, DeleteSteps, RunnerSteps

(* Every record was committed for a runner that had bound its socket: the   *)
(* late bind of a runner that an earlier Create left does not commit a      *)
(* later Create of the same network, nor does a PID that is used again.     *)
THEOREM CommittedRunnersHaveBound == Spec => []RecordedHasBound
<1>1. Init => HeardInv
  BY DEF Init, HeardInv, BoundOnceHeard
<1>2. HeardInv => RecordedHasBound
  BY DEF HeardInv, BoundOnceHeard, RecordedHasBound, Recorded
<1> QED
  BY <1>1, <1>2, HeardStep, TypeCorrect, PTL DEF Spec

-----------------------------------------------------------------------------
(***************************************************************************)
(* How far the identifier in a record can be trusted. What a pending Create *)
(* has is its own child, which keeps its identifier as a zombie until it is *)
(* waited for; a record's identifier is the runner's only as long as none   *)
(* is handed out twice.                                                    *)
(***************************************************************************)

\* The step ends or signals a process that is not a runner of network n.
StopsAnother(n) ==
    \E p \in Pid :
        /\ proc'[p] # proc[p]
        /\ proc[p] = "foreign" \/ \E m \in Network \ {n} : IsRunnerOf(p, m)

\* A Create in progress and its child.
ChildKept(n) ==
    /\ pid[n] \in children
    /\ owner[pid[n]] = n
    /\ proc[pid[n]] \in Runner \cup {"killed", "zombie"}

ChildInv == \A n \in Network : phase[n] = "creating" => ChildKept(n)

\* Identifiers that are never handed out again.
OwnInv ==
    /\ \A p \in Pid : proc[p] # "foreign"
    /\ \A n \in Network :
          phase[n] # "none" => owner[pid[n]] = n /\ proc[pid[n]] # "free"

LEMMA ChildStep == TypeOK /\ ChildInv /\ [Next]_vars => ChildInv'
<1> SUFFICES ASSUME TypeOK, ChildInv, [Next]_vars PROVE ChildInv'
  OBVIOUS
<1> USE DEF TypeOK, ChildInv, ChildKept, Runner, Recorded
<1>1. ASSUME NEW n \in Network, NEW p \in Pid, StartCreate(n, p)
      PROVE  ChildInv'
  BY <1>1 DEF StartCreate
<1>2. ASSUME NEW n \in Network, FailCreate(n) PROVE ChildInv'
  BY <1>2 DEF FailCreate
<1>3. ASSUME NEW n \in Network,
             CommitCreate(n) \/ ReadDrops(n) \/ PollSeesEnd(n) \/ RemoveSocket(n)
      PROVE  ChildInv'
  BY <1>3 DEF CommitCreate, ReadDrops, PollSeesEnd, RemoveSocket
<1>4. ASSUME NEW n \in Network, SendTerm(n) PROVE ChildInv'
  BY <1>4 DEF SendTerm, Terminated
<1>5. ASSUME NEW n \in Network, KillAtDeadline(n) PROVE ChildInv'
  BY <1>5 DEF KillAtDeadline, SigKilled
<1>6. ASSUME NEW p \in Pid,
             Bind(p) \/ BindFails(p) \/ StopServing(p) \/ Unlink(p)
      PROVE  ChildInv'
  BY <1>6 DEF Bind, BindFails, StopServing, Unlink
<1>7. ASSUME NEW p \in Pid, RunnerEnds(p) \/ KilledEnds(p) PROVE ChildInv'
  BY <1>7 DEF RunnerEnds, KilledEnds, Killed, Remains
<1>8. ASSUME NEW p \in Pid, Recycle(p) PROVE ChildInv'
  BY <1>8 DEF Recycle
<1>9. CASE ProviderEnds
  BY <1>9 DEF ProviderEnds
<1>10. CASE UNCHANGED vars
  BY <1>10 DEF vars
<1> QED
  BY <1>1, <1>2, <1>3, <1>4, <1>5, <1>6, <1>7, <1>8, <1>9, <1>10 DEF Next,
     DeleteSteps, RunnerSteps

LEMMA OwnStep == ~PidsRecur /\ TypeOK /\ OwnInv /\ [Next]_vars => OwnInv'
<1> SUFFICES ASSUME ~PidsRecur, TypeOK, OwnInv, [Next]_vars PROVE OwnInv'
  OBVIOUS
<1> USE DEF TypeOK, OwnInv, Runner, Recorded
<1>1. ASSUME NEW n \in Network, NEW p \in Pid, StartCreate(n, p)
      PROVE  OwnInv'
  BY <1>1 DEF StartCreate
<1>2. ASSUME NEW n \in Network, FailCreate(n) PROVE OwnInv'
  BY <1>2 DEF FailCreate
<1>3. ASSUME NEW n \in Network,
             CommitCreate(n) \/ ReadDrops(n) \/ PollSeesEnd(n) \/ RemoveSocket(n)
      PROVE  OwnInv'
  BY <1>3 DEF CommitCreate, ReadDrops, PollSeesEnd, RemoveSocket
<1>4. ASSUME NEW n \in Network, SendTerm(n) PROVE OwnInv'
  BY <1>4 DEF SendTerm, Terminated
<1>5. ASSUME NEW n \in Network, KillAtDeadline(n) PROVE OwnInv'
  BY <1>5 DEF KillAtDeadline, SigKilled
<1>6. ASSUME NEW p \in Pid,
             Bind(p) \/ BindFails(p) \/ StopServing(p) \/ Unlink(p)
      PROVE  OwnInv'
  BY <1>6 DEF Bind, BindFails, StopServing, Unlink
<1>7. ASSUME NEW p \in Pid, RunnerEnds(p) \/ KilledEnds(p) PROVE OwnInv'
  BY <1>7 DEF RunnerEnds, KilledEnds, Killed, Remains
<1>8. ASSUME NEW p \in Pid, Recycle(p) PROVE OwnInv'
  BY <1>8 DEF Recycle
<1>9. CASE ProviderEnds
  BY <1>9 DEF ProviderEnds
<1>10. CASE UNCHANGED vars
  BY <1>10 DEF vars
<1> QED
  BY <1>1, <1>2, <1>3, <1>4, <1>5, <1>6, <1>7, <1>8, <1>9, <1>10 DEF Next,
     DeleteSteps, RunnerSteps

\* An operation that changes the phase of n touches the process its PID names,
\* if any, and the end of the provider touches zombies alone.
LEMMA StopsNamed ==
    ASSUME TypeOK, Next, NEW n \in Network, phase'[n] # phase[n], NEW p \in Pid,
           proc'[p] # proc[p], proc[p] \in Runner \cup {"foreign"}
    PROVE  phase[n] # "none" /\ p = pid[n]
<1> USE DEF TypeOK, Runner, Recorded
<1>1. ASSUME NEW m \in Network, NEW q \in Pid, StartCreate(m, q)
      PROVE  phase[n] # "none" /\ p = pid[n]
  BY <1>1 DEF StartCreate
<1>2. ASSUME NEW m \in Network,
             CommitCreate(m) \/ ReadDrops(m) \/ PollSeesEnd(m) \/ RemoveSocket(m)
      PROVE  phase[n] # "none" /\ p = pid[n]
  BY <1>2 DEF CommitCreate, ReadDrops, PollSeesEnd, RemoveSocket
<1>3. ASSUME NEW m \in Network,
             FailCreate(m) \/ SendTerm(m) \/ KillAtDeadline(m)
      PROVE  phase[n] # "none" /\ p = pid[n]
  <2>1. n = m
    BY <1>3 DEF FailCreate, SendTerm, KillAtDeadline
  <2> QED
    BY <1>3, <2>1 DEF FailCreate, SendTerm, Terminated, KillAtDeadline,
       SigKilled
<1>4. CASE ProviderEnds
  BY <1>4 DEF ProviderEnds
<1>5. ASSUME NEW q \in Pid, RunnerSteps(q) \/ KilledEnds(q) \/ Recycle(q)
      PROVE  phase' = phase
  BY <1>5 DEF RunnerSteps, Bind, BindFails, StopServing, Unlink, RunnerEnds,
     KilledEnds, Recycle
<1> QED
  BY <1>1, <1>2, <1>3, <1>4, <1>5 DEF Next, DeleteSteps

(* A Create that fails kills the runner it started and no other process,   *)
(* although its PID may meanwhile be in the stale record of another network *)
(* whose Delete signals it.                                                *)
THEOREM FailedCreateStopsItsOwn ==
    Spec => [][\A n \in Network :
                  phase[n] = "creating" /\ phase'[n] # phase[n]
                      => ~StopsAnother(n)]_vars
<1>1. Init => ChildInv
  BY DEF Init, ChildInv
<1>2. TypeOK /\ ChildInv /\ [Next]_vars
        => [\A n \in Network : phase[n] = "creating" /\ phase'[n] # phase[n]
                => ~StopsAnother(n)]_vars
  <2> SUFFICES ASSUME TypeOK, ChildInv, Next, NEW n \in Network,
                      phase[n] = "creating", phase'[n] # phase[n],
                      NEW p \in Pid, proc'[p] # proc[p],
                      proc[p] = "foreign"
                         \/ \E m \in Network \ {n} : IsRunnerOf(p, m)
               PROVE  FALSE
    BY DEF StopsAnother
  <2>1. p = pid[n]
    BY StopsNamed DEF IsRunnerOf
  <2> QED
    BY <2>1 DEF ChildInv, ChildKept, IsRunnerOf, Runner
<1> QED
  BY <1>1, <1>2, ChildStep, TypeCorrect, PTL DEF Spec

(* Where identifiers are not handed out again, no operation on a network   *)
(* signals anything but that network's own runner: the reuse of identifiers *)
(* is the only way in which Read, Delete or Create harm another process.   *)
THEOREM OnlyItsOwnRunnerIsStopped ==
    ASSUME ~PidsRecur
    PROVE  Spec => [][\A n \in Network : phase'[n] # phase[n]
                         => ~StopsAnother(n)]_vars
<1>1. Init => OwnInv
  BY DEF Init, OwnInv
<1>2. TypeOK /\ OwnInv /\ [Next]_vars => OwnInv'
  BY OwnStep
<1>3. TypeOK /\ OwnInv /\ [Next]_vars
        => [\A n \in Network : phase'[n] # phase[n] => ~StopsAnother(n)]_vars
  <2> SUFFICES ASSUME TypeOK, OwnInv, Next, NEW n \in Network,
                      phase'[n] # phase[n], NEW p \in Pid, proc'[p] # proc[p],
                      proc[p] = "foreign"
                         \/ \E m \in Network \ {n} : IsRunnerOf(p, m)
               PROVE  FALSE
    BY DEF StopsAnother
  <2>1. phase[n] # "none" /\ p = pid[n]
    BY StopsNamed DEF IsRunnerOf
  <2> QED
    BY <2>1 DEF OwnInv, IsRunnerOf
<1> QED
  BY <1>1, <1>2, <1>3, TypeCorrect, PTL DEF Spec

=============================================================================
