--------------------------- MODULE NetworkLifecycle ---------------------------
(***************************************************************************)
(* The life of several macvf_network resources: Create, Read and Delete of *)
(* each, run by a provider process that lives for one terraform command,   *)
(* and the network-runner processes, which outlive it and which the state  *)
(* names by their PID.                                                     *)
(*                                                                         *)
(* Create is taken apart in NetworkCreate; here it starts a runner and     *)
(* commits or aborts it. Delete is taken apart: SIGTERM, a poll for the    *)
(* runner's end, SIGKILL at the deadline, and the removal of the socket.   *)
(* Every network has a socket path of its own, the same at every Create.   *)
(*                                                                         *)
(* Nobody waits for the end of a process that Delete sends SIGKILL. The     *)
(* assumption about such a process: it runs no code of its own again, but   *)
(* it exists, and holds what it has open, until it ends at some later time. *)
(***************************************************************************)

CONSTANTS
    Network,    \* resource addresses
    Pid,        \* process identifiers
    NoPid,      \* none of them
    PidsRecur   \* TRUE when the kernel hands out the identifier of a process
                \* that ended again, to a runner or to a process unknown here

ASSUME NoPidAssumption == NoPid \notin Pid
ASSUME PidsRecurAssumption == PidsRecur \in BOOLEAN

VARIABLES
    phase,      \* where each network is between its operations
    pid,        \* the PID in a network's record, or that of the runner a
                \* pending Create started
    proc,       \* what each identifier names at present
    owner,      \* the network a runner was started for
    sock,       \* what is at each network's socket path: nothing, a file that
                \* nobody serves, or the socket of the runner that bound it
    announced,  \* networks whose pending Create was told "ready"
    children,   \* runners started by the provider process that runs now
    cutShort    \* networks that had a Create end with the provider process

vars == <<phase, pid, proc, owner, sock, announced, children, cutShort>>

Runner == {"booting", "serving", "stopping", "exiting"}

\* A runner and another program that were sent SIGKILL and have yet to end.
Killed == {"killed", "ousted"}
Recorded == {"recorded", "polling", "unlinking"}

TypeOK ==
    /\ phase \in [Network -> Recorded \cup {"none", "creating"}]
    /\ pid \in [Network -> Pid \cup {NoPid}]
    /\ \A n \in Network : phase[n] # "none" => pid[n] \in Pid
    /\ proc \in [Pid -> Runner \cup Killed
                            \cup {"free", "foreign", "zombie", "gone"}]
    /\ owner \in [Pid -> Network]
    /\ sock \in [Network -> Pid \cup {"absent", "stale"}]
    /\ announced \subseteq Network
    /\ children \subseteq Pid
    /\ cutShort \subseteq Network

\* At an explicit socket_path there may be a file already.
Init ==
    /\ phase = [n \in Network |-> "none"]
    /\ pid = [n \in Network |-> NoPid]
    /\ proc = [p \in Pid |-> "free"]
    /\ owner \in [Pid -> Network]
    /\ sock \in [Network -> {"absent", "stale"}]
    /\ announced = {}
    /\ children = {}
    /\ cutShort = {}

\* Deviation: a runner is taken to be alive as long as it has its socket.
hasSocket(p) == \E n \in Network : sock[n] = p

\* kill(p, 0) succeeds for a zombie as well.
isProcessAlive(p) == proc[p] \notin {"free", "gone"}

IsRunnerOf(p, n) == proc[p] \in Runner /\ owner[p] = n
IsKilledRunnerOf(p, n) == proc[p] = "killed" /\ owner[p] = n

\* What is left of a process that ended: a child stays a zombie, for after a
\* successful Create nobody waits for it.
Remains(p) == IF p \in children THEN "zombie" ELSE "gone"

\* The sockets once p ended without removing its own.
SockAfter(p) == [n \in Network |-> IF sock[n] = p THEN "stale" ELSE sock[n]]

-----------------------------------------------------------------------------
(* Create.                                                                 *)

StartCreate(n, p) ==
    /\ phase[n] = "none"
    /\ proc[p] = "free"
    /\ phase' = [phase EXCEPT ![n] = "creating"]
    /\ pid' = [pid EXCEPT ![n] = p]
    /\ proc' = [proc EXCEPT ![p] = "booting"]
    /\ owner' = [owner EXCEPT ![p] = n]
    /\ announced' = announced \ {n}
    /\ children' = children \cup {p}
    /\ UNCHANGED <<sock, cutShort>>

\* Deviation: the PID is not stored in the record.
CommitWithoutPid(n) ==
    /\ phase[n] = "creating"
    /\ n \in announced
    /\ phase' = [phase EXCEPT ![n] = "recorded"]
    /\ pid' = [pid EXCEPT ![n] = NoPid]
    /\ UNCHANGED <<proc, owner, sock, announced, children, cutShort>>

CommitCreate(n) ==
    /\ phase[n] = "creating"
    /\ n \in announced
    /\ phase' = [phase EXCEPT ![n] = "recorded"]
    /\ UNCHANGED <<pid, proc, owner, sock, announced, children, cutShort>>

\* A failure message or the timeout: the runner is killed and waited for.
FailCreate(n) ==
    /\ phase[n] = "creating"
    /\ phase' = [phase EXCEPT ![n] = "none"]
    /\ pid' = [pid EXCEPT ![n] = NoPid]
    /\ proc' = [proc EXCEPT ![pid[n]] = "gone"]
    /\ sock' = SockAfter(pid[n])
    /\ children' = children \ {pid[n]}
    /\ UNCHANGED <<owner, announced, cutShort>>

-----------------------------------------------------------------------------
(* Read.                                                                   *)

\* Read and Delete only warn when they cannot remove the file.
TryRemove(n) == sock' \in {sock, [sock EXCEPT ![n] = "absent"]}

\* A record whose process is gone is dropped, with the file at its path; any
\* other record is kept as it is.
ReadDrops(n) ==
    /\ phase[n] = "recorded"
    /\ ~isProcessAlive(pid[n])
    /\ phase' = [phase EXCEPT ![n] = "none"]
    /\ pid' = [pid EXCEPT ![n] = NoPid]
    /\ TryRemove(n)
    /\ UNCHANGED <<proc, owner, announced, children, cutShort>>

-----------------------------------------------------------------------------
(* Delete: terminateProcess, then the removal of the socket.               *)

Terminated(p) == [proc EXCEPT ![p] = IF @ = "serving" THEN "stopping" ELSE @]

\* Deviation: Delete does not wait for the end of the process it signalled.
SendTermOnly(n) ==
    /\ phase[n] = "recorded"
    /\ proc' = Terminated(pid[n])
    /\ phase' = [phase EXCEPT ![n] = "unlinking"]
    /\ UNCHANGED <<pid, owner, sock, announced, children, cutShort>>

\* SIGTERM cannot be delivered to a process that is gone, nor to a foreign one
\* of another user; Delete only warns and goes on.
SendTerm(n) ==
    /\ phase[n] = "recorded"
    /\ \/ /\ isProcessAlive(pid[n])
          /\ proc' = Terminated(pid[n])
          /\ phase' = [phase EXCEPT ![n] = "polling"]
       \/ /\ proc[pid[n]] \in {"free", "gone", "foreign"}
          /\ phase' = [phase EXCEPT ![n] = "unlinking"]
          /\ UNCHANGED proc
    /\ UNCHANGED <<pid, owner, sock, announced, children, cutShort>>

PollSeesEnd(n) ==
    /\ phase[n] = "polling"
    /\ ~isProcessAlive(pid[n])
    /\ phase' = [phase EXCEPT ![n] = "unlinking"]
    /\ UNCHANGED <<pid, proc, owner, sock, announced, children, cutShort>>

\* A zombie stays what it is, and a process that is gone gets no signal.
SigKilled(p) ==
    [proc EXCEPT ![p] = IF @ \in Runner THEN "killed"
                        ELSE IF @ = "foreign" THEN "ousted" ELSE @]

\* Deviation: after the SIGKILL the poll goes on until the process is gone.
KillAndPoll(n) ==
    /\ phase[n] = "polling"
    /\ isProcessAlive(pid[n])
    /\ proc' = SigKilled(pid[n])
    /\ UNCHANGED <<phase, pid, owner, sock, announced, children, cutShort>>

\* Deviation: Delete gives up when the grace period ends.
GiveUpAtDeadline(n) ==
    /\ phase[n] = "polling"
    /\ phase' = [phase EXCEPT ![n] = "unlinking"]
    /\ UNCHANGED <<pid, proc, owner, sock, announced, children, cutShort>>

\* The grace period may end at any moment. Nobody waits after the SIGKILL.
KillAtDeadline(n) ==
    /\ phase[n] = "polling"
    /\ phase' = [phase EXCEPT ![n] = "unlinking"]
    /\ proc' = SigKilled(pid[n])
    /\ UNCHANGED <<pid, owner, sock, announced, children, cutShort>>

\* Delete cannot fail, so Terraform drops the record.
RemoveSocket(n) ==
    /\ phase[n] = "unlinking"
    /\ TryRemove(n)
    /\ phase' = [phase EXCEPT ![n] = "none"]
    /\ pid' = [pid EXCEPT ![n] = NoPid]
    /\ UNCHANGED <<proc, owner, announced, children, cutShort>>

DeleteSteps(n) == PollSeesEnd(n) \/ KillAtDeadline(n) \/ RemoveSocket(n)

-----------------------------------------------------------------------------
(* The provider process ends, killed in the middle of operations or at the *)
(* end of a command, and the next command starts another one. Terraform    *)
(* keeps the record of an interrupted Delete and has none of an            *)
(* interrupted Create.                                                     *)
ProviderEnds ==
    LET creating == {n \in Network : phase[n] = "creating"} IN
    /\ phase' = [n \in Network |->
                    IF n \in creating THEN "none"
                    ELSE IF phase[n] = "none" THEN "none" ELSE "recorded"]
    /\ pid' = [n \in Network |-> IF n \in creating THEN NoPid ELSE pid[n]]
    /\ proc' = [p \in Pid |-> IF proc[p] = "zombie" THEN "gone" ELSE proc[p]]
    /\ announced' = {}
    /\ children' = {}
    /\ cutShort' = cutShort \cup creating
    /\ UNCHANGED <<owner, sock>>

-----------------------------------------------------------------------------
(* The runners.                                                            *)

\* Ready is sent once the socket is bound; a file at the path prevents that.
Bind(p) ==
    /\ proc[p] = "booting"
    /\ sock[owner[p]] = "absent"
    /\ proc' = [proc EXCEPT ![p] = "serving"]
    /\ sock' = [sock EXCEPT ![owner[p]] = p]
    /\ announced' = announced \cup {n \in {owner[p]} : pid[n] = p}
    /\ UNCHANGED <<phase, pid, owner, children, cutShort>>

BindFails(p) ==
    /\ proc[p] = "booting"
    /\ proc' = [proc EXCEPT ![p] = "exiting"]
    /\ UNCHANGED <<phase, pid, owner, sock, announced, children, cutShort>>

\* A signal or a broken peer ends the service.
StopServing(p) ==
    /\ proc[p] = "serving"
    /\ proc' = [proc EXCEPT ![p] = "stopping"]
    /\ UNCHANGED <<phase, pid, owner, sock, announced, children, cutShort>>

\* The runner's deferred removal takes whatever is at its path.
Unlink(p) ==
    /\ proc[p] = "stopping"
    /\ proc' = [proc EXCEPT ![p] = "exiting"]
    /\ sock' = [sock EXCEPT ![owner[p]] = "absent"]
    /\ UNCHANGED <<phase, pid, owner, announced, children, cutShort>>

\* The end of main, a crash or a signal that is not handled.
RunnerEnds(p) ==
    /\ proc[p] \in Runner
    /\ proc' = [proc EXCEPT ![p] = Remains(p)]
    /\ sock' = SockAfter(p)
    /\ UNCHANGED <<phase, pid, owner, announced, children, cutShort>>

RunnerSteps(p) ==
    Bind(p) \/ BindFails(p) \/ StopServing(p) \/ Unlink(p) \/ RunnerEnds(p)

\* A process that was sent SIGKILL ends, sooner or later.
KilledEnds(p) ==
    /\ proc[p] \in Killed
    /\ proc' = [proc EXCEPT ![p] = Remains(p)]
    /\ sock' = SockAfter(p)
    /\ UNCHANGED <<phase, pid, owner, announced, children, cutShort>>

\* Identifiers are used again, and other programs run.
Recycle(p) ==
    /\ PidsRecur
    /\ \/ proc[p] = "gone" /\ proc' = [proc EXCEPT ![p] = "free"]
       \/ proc[p] = "free" /\ proc' = [proc EXCEPT ![p] = "foreign"]
       \/ proc[p] = "foreign" /\ proc' = [proc EXCEPT ![p] = "gone"]
    /\ UNCHANGED <<phase, pid, owner, sock, announced, children, cutShort>>

-----------------------------------------------------------------------------
Next ==
    \/ \E n \in Network :
          \/ \E p \in Pid : StartCreate(n, p)
          \/ CommitCreate(n) \/ FailCreate(n)
          \/ ReadDrops(n) \/ SendTerm(n) \/ DeleteSteps(n)
    \/ \E p \in Pid : RunnerSteps(p) \/ KilledEnds(p) \/ Recycle(p)
    \/ ProviderEnds

\* A Delete that was started goes on: its poll ends at the deadline. Nothing is
\* asked of the runners, nor of who runs terraform.
Spec == Init /\ [][Next]_vars /\ \A n \in Network : WF_vars(DeleteSteps(n))

-----------------------------------------------------------------------------
(* Properties.                                                             *)

\* A runner that runs and was not sent SIGKILL is named by its network's record
\* or by the Create in progress: Terraform can always reach it. Only a Create
\* that ended with the provider process loses one.
NoStrayRunner ==
    \A n \in Network \ cutShort, p \in Pid :
        IsRunnerOf(p, n) => phase[n] # "none" /\ pid[n] = p

\* The socket of a serving runner stays at its path: neither the Read nor the
\* Delete of a network, nor the late shutdown of an earlier runner of the same
\* network, removes the file its successor has bound.
ServingHasSocket ==
    \A n \in Network \ cutShort, p \in Pid :
        IsRunnerOf(p, n) /\ proc[p] = "serving" => sock[n] = p

\* When Read drops a record the network's runner has ended; when Delete drops
\* it, the runner has ended or was sent SIGKILL, whose effect Delete does not
\* wait for.
RecordDroppedWhenStopped ==
    [][\A n \in Network : phase[n] \in Recorded /\ phase'[n] = "none"
           => /\ ~IsRunnerOf(pid[n], n)
              /\ phase[n] = "recorded" => ~IsKilledRunnerOf(pid[n], n)]_vars

\* A Delete that was started ends, unless the provider process does, although
\* the runner may ignore SIGTERM.
DeleteCompletes ==
    \A n \in Network :
        phase[n] = "polling" ~> phase[n] \in {"none", "recorded"}

\* The PID in the record is that of the network's runner: no operation on a
\* network ends a process that is not a runner.
OnlyRunnersAreStopped ==
    [][\A p \in Pid : proc[p] = "foreign" /\ phase' # phase
           => proc'[p] = "foreign"]_vars

Unnamed(p, n) == phase[n] = "none" \/ pid[n] # p

\* What the record of each network promises.
Record(n) == INSTANCE RecordContract WITH
    record    <- IF phase[n] = "none" THEN "none"
                 ELSE IF phase[n] = "creating" THEN "pending"
                 ELSE IF phase[n] = "recorded" THEN "kept"
                 ELSE "deleting",
    process   <- IF phase[n] = "none" THEN "none"
                 ELSE IF IsRunnerOf(pid[n], n) THEN "up"
                 ELSE IF IsKilledRunnerOf(pid[n], n) THEN "killed"
                 ELSE "ended",
    stray     <- \E p \in Pid : IsRunnerOf(p, n) /\ Unnamed(p, n),
    lingering <- \E p \in Pid : IsKilledRunnerOf(p, n) /\ Unnamed(p, n),
    cutShort  <- n \in cutShort

RecordsKeepContract ==
    /\ \A n \in Network : Record(n)!Init
    /\ [][\A n \in Network : [Record(n)!Next]_(Record(n)!vars)]_vars

=============================================================================
