---------------------------- MODULE NetworkCreate ----------------------------
(***************************************************************************)
(* One Create of a macvf_network: the handler and the waiter goroutine in  *)
(* the provider process, the network-runner process it starts, and the     *)
(* notification socket between them.                                       *)
(*                                                                         *)
(* The provider listens on an ephemeral stream socket, starts the runner   *)
(* and waits for "ready", "hypervisor_error" or the start-up timeout. The  *)
(* runner queues its messages for a sender goroutine, which dials one      *)
(* connection per message and drops a message whose dial fails; a           *)
(* connection can be cut before the message is written when the runner dies. *)
(***************************************************************************)

CONSTANT
    SocketAtStart   \* what may already be at the runner's socket path

ASSUME SocketAtStartAssumption == SocketAtStart \subseteq {"absent", "foreign"}

VARIABLES
    create,      \* program counter of Create
    result,      \* why Create returned, or what it received ("none" before)
    waiter,      \* the goroutine waitForReady
    done,        \* the channel notifyDone, of capacity 1
    listening,   \* the provider's notification listener is open
    notifyFile,  \* the notification socket file exists
    mail,        \* life of each message from runner to waiter
    conn,        \* the message whose connection the waiter has accepted
    runner,      \* program counter of network-runner's run()
    ctxDone,     \* the runner got SIGINT or SIGTERM and cancelled its context
    sock         \* what is at the runner's data socket path

notifySocket == <<listening, notifyFile>>
runnerVars == <<runner, ctxDone, sock>>
provider == <<create, result, waiter, done, notifySocket>>
vars == <<provider, mail, conn, runnerVars>>

Message == {"ready", "hypervisor_error"}
NoMessage == "none"

\* Create still has to return.
Pending == {"listen", "log", "start", "await", "close", "settle"}
Alive == {"boot", "setup", "bind", "announce", "serving", "unlink", "exiting"}

Result ==
    {"none", "ready", "hypervisor_error", "accept_error", "timeout",
     "listen_error", "log_error", "start_error"}

\* "dialled" and "cut" are connections with nothing written: still open, and
\* closed by the runner's death. "read" is decoded or given up by the waiter,
\* "dropped" given up by the sender.
MailState ==
    {"unsent", "queued", "dropped", "dialled", "written", "cut", "read"}

TypeOK ==
    /\ create \in Pending \cup {"committed", "failed", "crashed"}
    /\ result \in Result
    /\ waiter \in {"none", "accept", "decode", "finished"}
    /\ done \in {"empty", "accept_error"} \cup Message
    /\ listening \in BOOLEAN
    /\ notifyFile \in BOOLEAN
    /\ mail \in [Message -> MailState]
    /\ conn \in Message \cup {NoMessage}
    /\ runner \in Alive \cup {"none", "dead"}
    /\ ctxDone \in BOOLEAN
    /\ sock \in {"absent", "foreign", "bound", "orphaned"}

\* A plan that passed the early checks; with an explicit socket_path a file
\* may be there already.
Init ==
    /\ create = "listen"
    /\ result = "none"
    /\ waiter = "none"
    /\ done = "empty"
    /\ listening = FALSE
    /\ notifyFile = FALSE
    /\ mail = [m \in Message |-> "unsent"]
    /\ conn = NoMessage
    /\ runner = "none"
    /\ ctxDone = FALSE
    /\ sock \in SocketAtStart

-----------------------------------------------------------------------------
(* Create, in the provider process.                                        *)

Return(outcome, why) ==
    /\ create' = outcome
    /\ result' = why

\* Listen on the notification socket and start the waiter goroutine.
StartListener ==
    /\ create = "listen"
    /\ create' = "log"
    /\ listening' = TRUE
    /\ notifyFile' = TRUE
    /\ waiter' = "accept"
    /\ UNCHANGED <<result, done, mail, conn, runnerVars>>

ListenFails ==
    /\ create = "listen"
    /\ Return("failed", "listen_error")
    /\ UNCHANGED <<waiter, done, notifySocket, mail, conn, runnerVars>>

OpenLog ==
    /\ create = "log"
    /\ create' = "start"
    /\ UNCHANGED <<result, waiter, done, notifySocket, mail, conn, runnerVars>>

\* The early return leaves the listener, its file and the waiter behind.
OpenLogFails ==
    /\ create = "log"
    /\ Return("failed", "log_error")
    /\ UNCHANGED <<waiter, done, notifySocket, mail, conn, runnerVars>>

StartRunner ==
    /\ create = "start"
    /\ create' = "await"
    /\ runner' = "boot"
    /\ UNCHANGED <<result, waiter, done, notifySocket, mail, conn, ctxDone,
                   sock>>

\* Deviation: the listener and its file are left to the end of the process.
KeepNotification == UNCHANGED <<listening, notifyFile>>

\* Closing the listener and removing its file, as both users of it do.
CloseNotification ==
    /\ listening' = FALSE
    /\ notifyFile' = FALSE

StartFails ==
    /\ create = "start"
    /\ Return("failed", "start_error")
    /\ CloseNotification
    /\ UNCHANGED <<waiter, done, mail, conn, runnerVars>>

\* Deviation: the channel is closed before the result was sent.
AwaitClosedChannel ==
    /\ create = "await"
    /\ create' = "close"
    /\ result' = done
    /\ done' = "empty"
    /\ UNCHANGED <<waiter, notifySocket, mail, conn, runnerVars>>

\* The waiter sends exactly one result before it closes the channel, so a
\* receive from the closed, empty channel cannot happen.
AwaitResult ==
    /\ create = "await"
    /\ done # "empty"
    /\ create' = "close"
    /\ result' = done
    /\ done' = "empty"
    /\ UNCHANGED <<waiter, notifySocket, mail, conn, runnerVars>>

\* Deviation: the timer runs from the first connection of the runner.
AwaitTimeoutAfterDial ==
    /\ create = "await"
    /\ waiter = "decode"
    /\ create' = "close"
    /\ result' = "timeout"
    /\ UNCHANGED <<waiter, done, notifySocket, mail, conn, runnerVars>>

\* The timer may win at any moment, over a result that is ready as well.
AwaitTimeout ==
    /\ create = "await"
    /\ create' = "close"
    /\ result' = "timeout"
    /\ UNCHANGED <<waiter, done, notifySocket, mail, conn, runnerVars>>

CloseListener ==
    /\ create = "close"
    /\ create' = "settle"
    /\ CloseNotification
    /\ UNCHANGED <<result, waiter, done, mail, conn, runnerVars>>

\* The process is gone: what it had not written never comes, and the file of
\* the socket it had bound stays.
RunnerGone ==
    /\ runner' = "dead"
    /\ mail' = [m \in Message |->
                   IF mail[m] = "dialled" THEN "cut" ELSE mail[m]]
    /\ sock' = IF sock = "bound" THEN "orphaned" ELSE sock

\* Deviation: the runner is left alone when Create fails.
LeaveRunner == UNCHANGED <<runner, mail, sock>>

\* Kill sends SIGKILL, also to a process that already ended; Wait reaps it.
KillAndWait == RunnerGone

AbortRunner ==
    /\ create = "settle"
    /\ result # "ready"
    /\ create' = "failed"
    /\ KillAndWait
    /\ UNCHANGED <<result, waiter, done, notifySocket, conn, ctxDone>>

\* Deviation: a runner that said nothing is taken to be ready.
CommitOnSilence ==
    /\ create = "settle"
    /\ result \in {"ready", "timeout"}
    /\ create' = "committed"
    /\ UNCHANGED <<result, waiter, done, notifySocket, mail, conn, runnerVars>>

Commit ==
    /\ create = "settle"
    /\ result = "ready"
    /\ create' = "committed"
    /\ UNCHANGED <<result, waiter, done, notifySocket, mail, conn, runnerVars>>

\* The provider process is killed: its descriptors close and its goroutines
\* end, but no file is removed and the runner lives on.
ProviderCrash ==
    /\ create \in Pending
    /\ create' = "crashed"
    /\ waiter' = IF waiter = "none" THEN "none" ELSE "finished"
    /\ listening' = FALSE
    /\ conn' = NoMessage
    /\ mail' = [m \in Message |-> IF m = conn THEN "read" ELSE mail[m]]
    /\ UNCHANGED <<result, done, notifyFile, runnerVars>>

CreateSteps ==
    \/ StartListener \/ ListenFails \/ OpenLog \/ OpenLogFails
    \/ StartRunner \/ StartFails \/ AwaitResult \/ AwaitTimeout
    \/ CloseListener \/ AbortRunner \/ Commit

-----------------------------------------------------------------------------
(* The waiter goroutine.                                                   *)

\* Deviation: an unbuffered channel, which needs a receiver.
DoneHasReceiver == done = "empty" /\ create = "await"

\* Room for the waiter's result in the channel of capacity 1.
DoneHasRoom == done = "empty"

Finish(what) ==
    /\ DoneHasRoom
    /\ done' = what
    /\ waiter' = "finished"

\* Connections are accepted in the order they were dialled: "ready" first.
Accept(m) ==
    /\ waiter = "accept"
    /\ listening
    /\ mail[m] \in {"dialled", "written", "cut"}
    /\ m = "hypervisor_error" => mail["ready"] \in {"unsent", "dropped", "read"}
    /\ conn' = m
    /\ waiter' = "decode"
    /\ UNCHANGED <<create, result, done, notifySocket, mail, runnerVars>>

\* Accept fails once the listener is closed, and may fail before (no descriptor
\* is free): any error ends the goroutine.
AcceptFails ==
    /\ waiter = "accept"
    /\ Finish("accept_error")
    /\ UNCHANGED <<create, result, notifySocket, mail, conn, runnerVars>>

\* Both known message types end the goroutine with a result.
Decode(m) ==
    /\ waiter = "decode"
    /\ conn = m
    /\ mail[m] = "written"
    /\ Finish(m)
    /\ mail' = [mail EXCEPT ![m] = "read"]
    /\ conn' = NoMessage
    /\ UNCHANGED <<create, result, notifySocket, runnerVars>>

\* A connection without a message is dropped and the next one is awaited.
DecodeFails(m) ==
    /\ waiter = "decode"
    /\ conn = m
    /\ mail[m] = "cut"
    /\ mail' = [mail EXCEPT ![m] = "read"]
    /\ conn' = NoMessage
    /\ waiter' = "accept"
    /\ UNCHANGED <<create, result, done, notifySocket, runnerVars>>

WaiterSteps ==
    \/ AcceptFails
    \/ \E m \in Message : Accept(m) \/ Decode(m) \/ DecodeFails(m)

\* An open listener nobody has dialled: Accept may wait for ever, or fail.
AcceptBlocks ==
    /\ waiter = "accept"
    /\ listening
    /\ \A m \in Message : mail[m] \notin {"dialled", "written", "cut"}

-----------------------------------------------------------------------------
(* network-runner.                                                         *)

Send(m) == mail' = [mail EXCEPT ![m] = "queued"]

\* The configuration is read and decoded; a bad one ends the process unheard.
ReadConfig ==
    /\ runner = "boot"
    /\ runner' \in {"setup", "exiting"}
    /\ UNCHANGED <<provider, mail, conn, ctxDone, sock>>

\* Deviation: ready is sent once the network is built, before the bind.
ReadyBeforeBind ==
    /\ runner = "setup"
    /\ Send("ready")
    /\ runner' = "bind"
    /\ UNCHANGED <<provider, conn, ctxDone, sock>>

BuildNetwork ==
    /\ runner = "setup"
    /\ runner' = "bind"
    /\ UNCHANGED <<provider, mail, conn, ctxDone, sock>>

BuildNetworkFails ==
    /\ runner = "setup"
    /\ Send("hypervisor_error")
    /\ runner' = "exiting"
    /\ UNCHANGED <<provider, conn, ctxDone, sock>>

\* Deviation: the path is cleared before the bind.
BindAfterRemove ==
    /\ runner = "bind"
    /\ sock' = "bound"
    /\ runner' = "announce"
    /\ UNCHANGED <<provider, mail, conn, ctxDone>>

\* bind(2) refuses a path at which there is a file.
BindSocket ==
    /\ runner = "bind"
    /\ sock = "absent"
    /\ sock' = "bound"
    /\ runner' = "announce"
    /\ UNCHANGED <<provider, mail, conn, ctxDone>>

BindFails ==
    /\ runner = "bind"
    /\ Send("hypervisor_error")
    /\ runner' = "exiting"
    /\ UNCHANGED <<provider, conn, ctxDone, sock>>

SendReady ==
    /\ runner = "announce"
    /\ Send("ready")
    /\ runner' = "serving"
    /\ UNCHANGED <<provider, conn, ctxDone, sock>>

\* A cancelled context closes the socket and ends the wait without a message.
ServingCancelled ==
    /\ runner = "serving"
    /\ ctxDone
    /\ runner' = "unlink"
    /\ UNCHANGED <<provider, mail, conn, ctxDone, sock>>

\* The peer could not be learnt or its connection broke.
ServingFails ==
    /\ runner = "serving"
    /\ Send("hypervisor_error")
    /\ runner' = "unlink"
    /\ UNCHANGED <<provider, conn, ctxDone, sock>>

\* Deviation: the removal was not deferred.
LeaveSocket ==
    /\ runner = "unlink"
    /\ runner' = "exiting"
    /\ UNCHANGED <<provider, mail, conn, ctxDone, sock>>

\* The deferred removal of the socket, set up once the bind succeeded.
RemoveSocket ==
    /\ runner = "unlink"
    /\ sock' = "absent"
    /\ runner' = "exiting"
    /\ UNCHANGED <<provider, mail, conn, ctxDone>>

\* The end of main, an unhandled SIGINT or SIGTERM before the handler is in
\* place, a crash or a SIGKILL.
RunnerDies ==
    /\ runner \in Alive
    /\ RunnerGone
    /\ UNCHANGED <<provider, conn, ctxDone>>

\* SIGINT (a Ctrl-C reaches the whole process group) or SIGTERM, caught.
Interrupt ==
    /\ runner \in Alive \ {"boot"}
    /\ ~ctxDone
    /\ ctxDone' = TRUE
    /\ UNCHANGED <<provider, mail, conn, runner, sock>>

\* The sender takes the messages in order, one connection at a time. A
\* cancelled sender stops, and what is queued then stays so for ever.
NextToSend(m) ==
    /\ mail[m] = "queued"
    /\ \A n \in Message : mail[n] # "dialled"
    /\ m = "hypervisor_error" => mail["ready"] # "queued"

SenderDials(m) ==
    /\ runner \in Alive
    /\ listening
    /\ NextToSend(m)
    /\ mail' = [mail EXCEPT ![m] = "dialled"]
    /\ UNCHANGED <<provider, conn, runnerVars>>

\* A dial fails when nobody listens, and may fail when somebody does: the
\* message is dropped and the sender goes on to the next.
SenderDialFails(m) ==
    /\ runner \in Alive
    /\ NextToSend(m)
    /\ mail' = [mail EXCEPT ![m] = "dropped"]
    /\ UNCHANGED <<provider, conn, runnerVars>>

SenderWrites(m) ==
    /\ runner \in Alive
    /\ mail[m] = "dialled"
    /\ mail' = [mail EXCEPT ![m] = "written"]
    /\ UNCHANGED <<provider, conn, runnerVars>>

RunnerSteps ==
    \/ ReadConfig \/ BuildNetwork \/ BuildNetworkFails \/ BindSocket
    \/ BindFails \/ SendReady \/ ServingCancelled \/ ServingFails
    \/ RemoveSocket \/ RunnerDies \/ Interrupt
    \/ \E m \in Message :
          SenderDials(m) \/ SenderDialFails(m) \/ SenderWrites(m)

-----------------------------------------------------------------------------
Next == CreateSteps \/ WaiterSteps \/ RunnerSteps \/ ProviderCrash

\* The provider's goroutines run and its timer fires. Nothing is asked of the
\* runner: it may hang, and its messages may never be sent; nor of an Accept
\* that has nothing to return.
Spec ==
    /\ Init
    /\ [][Next]_vars
    /\ WF_vars(CreateSteps)
    /\ WF_vars(~AcceptBlocks /\ WaiterSteps)

-----------------------------------------------------------------------------
(* Properties.                                                             *)

Returned == create \in {"committed", "failed"}

\* "ready" is a stronger promise than a running process: the record of a
\* network is never committed while its runner has yet to bind the socket the
\* instances are to use, and until the runner is told to stop or fails it keeps
\* that socket.
ReadyMeansReachable ==
    create = "committed" /\ runner \in Alive
        => \/ runner = "serving" /\ sock = "bound"
           \/ runner \in {"unlink", "exiting"}
              /\ (ctxDone \/ mail["hypervisor_error"] # "unsent")

\* A Create that reports an error, by a message, by the timeout or by a race of
\* both, leaves no runner that no record names.
NoRunnerLeftBehind == create = "failed" => runner \in {"none", "dead"}

\* Once the runner has been started, every way Create returns closes the
\* notification listener, and the file is gone.
NotifySocketCleaned ==
    Returned /\ runner # "none" => ~listening /\ ~notifyFile

\* A file that another process keeps at an explicit socket_path survives: the
\* runner that fails to bind it does not remove it either.
ForeignSocketUntouched == [][sock = "foreign" => sock' = "foreign"]_vars

\* Create returns although the runner may hang, be cut off in the middle of a
\* message or never be heard of.
CreateReturns == <>(create \notin Pending)

\* A waiter whose listener is closed ends: no send blocks although Create may
\* have stopped receiving, and no decode waits on a connection for ever.
WaiterTerminates ==
    [](~listening /\ waiter # "none" => <>(waiter = "finished"))

\* The whole implements the contract of a launch.
Contract == INSTANCE LaunchContract WITH
    outcome  <- IF create \in Pending THEN "pending" ELSE create,
    proc     <- CASE runner = "none" -> "none"
                  [] runner = "dead" -> "down"
                  [] OTHER -> "up",
    evidence <- mail["ready"] # "unsent"

ImplementsContract == Contract!Spec

\* One network and the runner of this Create, as NetworkLifecycle sees them: a
\* runner that was not waited for is a zombie while the provider lives, and a
\* file that nobody serves is stale. The bind is what the lifecycle announces.
LifePhase ==
    IF runner = "none" \/ create \in {"failed", "crashed"} THEN "none"
    ELSE IF create = "committed" THEN "recorded"
    ELSE "creating"

LifeProc ==
    CASE runner = "none" -> "free"
      [] runner \in {"boot", "setup", "bind"} -> "booting"
      [] runner \in {"announce", "serving"} -> "serving"
      [] runner = "unlink" -> "stopping"
      [] runner = "exiting" -> "exiting"
      [] runner = "dead" -> IF LifePhase = "none" THEN "gone" ELSE "zombie"

HasBound == sock \in {"bound", "orphaned"} \/ mail["ready"] # "unsent"

Life == INSTANCE NetworkLifecycle WITH
    Network   <- {"network"},
    Pid       <- {"runner"},
    NoPid     <- "none",
    PidsRecur <- FALSE,
    phase     <- [n \in {"network"} |-> LifePhase],
    pid       <- [n \in {"network"} |->
                     IF LifePhase = "none" THEN "none" ELSE "runner"],
    proc      <- [p \in {"runner"} |-> LifeProc],
    owner     <- [p \in {"runner"} |-> "network"],
    sock      <- [n \in {"network"} |->
                     CASE sock = "absent" -> "absent"
                       [] sock = "bound" -> "runner"
                       [] OTHER -> "stale"],
    announced <- {n \in {"network"} : HasBound /\ create # "crashed"},
    children  <- {p \in {"runner"} : LifePhase # "none"},
    cutShort  <- {n \in {"network"} : create = "crashed" /\ runner # "none"}

\* Everything that happens in a Create, taken apart, is what NetworkLifecycle
\* says of it in a handful of steps.
ImplementsLifecycle == Life!Spec

\* The notification socket lives only for the duration of Create.
NotifySocketEphemeral == Returned => ~notifyFile

\* The socket of a network exists only while its runner does: none is left at
\* the path of a Create that failed.
SocketOnlyWhileRunning == create = "failed" => sock # "orphaned"

=============================================================================
