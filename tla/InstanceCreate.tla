---------------------------- MODULE InstanceCreate ----------------------------
(***************************************************************************)
(* One Create of a macvf_instance: the handler, the goroutine that waits   *)
(* for vfkit, the goroutine of os/exec that copies vfkit's standard error, *)
(* and vfkit itself.                                                       *)
(*                                                                         *)
(* Create starts vfkit and watches it for a window of three seconds. An    *)
(* exit collected in the window is an error that carries vfkit's standard  *)
(* error; otherwise vfkit is detached. Standard error is a pipe, copied to *)
(* a buffer and to a sidecar log file. It is counted in lines.             *)
(***************************************************************************)
EXTENDS Naturals

CONSTANT MaxLines   \* a bound on the lines vfkit writes

ASSUME MaxLinesAssumption == MaxLines \in Nat

VARIABLES
    create,     \* program counter of Create
    quiet,      \* the window ended before an exit was collected
    log,        \* the sidecar file: "none" when it could not be opened
    waiting,    \* the goroutine in cmd.Wait
    copier,     \* the goroutine that reads the pipe
    vfkit,      \* the process; a "zombie" has ended and is not collected
    written,    \* lines vfkit wrote to the pipe
    buffered,   \* lines taken from the pipe into the buffer
    logged,     \* lines in the sidecar file
    refused     \* vfkit tried to write when nobody read the pipe

vars == <<create, quiet, log, waiting, copier, vfkit, written, buffered,
          logged, refused>>
lines == <<written, buffered, logged, refused>>

Pending == {"log", "start", "window", "detach"}

TypeOK ==
    /\ create \in Pending \cup {"committed", "failed", "crashed"}
    /\ quiet \in BOOLEAN
    /\ log \in {"none", "open", "closed"}
    /\ waiting \in {"none", "wait", "drain", "delivered", "lost"}
    /\ copier \in {"none", "copying", "done"}
    /\ vfkit \in {"none", "running", "zombie", "reaped"}
    /\ {written, buffered, logged} \subseteq 0 .. MaxLines
    /\ refused \in BOOLEAN

\* A plan whose boot mode, disks and devices were accepted.
Init ==
    /\ create = "log"
    /\ quiet = FALSE
    /\ log = "none"
    /\ waiting = "none"
    /\ copier = "none"
    /\ vfkit = "none"
    /\ written = 0
    /\ buffered = 0
    /\ logged = 0
    /\ refused = FALSE

-----------------------------------------------------------------------------
(* Create.                                                                 *)

\* A log that cannot be opened is no error: the buffer alone is used.
OpenLog ==
    /\ create = "log"
    /\ create' = "start"
    /\ log' \in {"open", "none"}
    /\ UNCHANGED <<quiet, waiting, copier, vfkit, lines>>

CloseLog == log' = IF log = "open" THEN "closed" ELSE log

\* Deviation: vfkit is detached as soon as it is started.
StartAndDetach ==
    /\ create = "start"
    /\ create' = "detach"
    /\ vfkit' = "running"
    /\ copier' = "copying"
    /\ waiting' = "wait"
    /\ UNCHANGED <<quiet, log, lines>>

StartVfkit ==
    /\ create = "start"
    /\ create' = "window"
    /\ vfkit' = "running"
    /\ copier' = "copying"
    /\ waiting' = "wait"
    /\ UNCHANGED <<quiet, log, lines>>

StartFails ==
    /\ create = "start"
    /\ create' = "failed"
    /\ CloseLog
    /\ UNCHANGED <<quiet, waiting, copier, vfkit, lines>>

\* Deviation: the first line on standard error counts as a failure.
SelectStderr ==
    /\ create = "window"
    /\ buffered > 0
    /\ create' = "failed"
    /\ CloseLog
    /\ UNCHANGED <<quiet, waiting, copier, vfkit, lines>>

\* cmd.Wait returned in the window.
SelectExit ==
    /\ create = "window"
    /\ waiting = "delivered"
    /\ create' = "failed"
    /\ CloseLog
    /\ UNCHANGED <<quiet, waiting, copier, vfkit, lines>>

\* Create sits in the select: an exit collected first would have woken it. The
\* log is closed although the copier goes on.
SelectTimer ==
    /\ create = "window"
    /\ waiting # "delivered"
    /\ create' = "detach"
    /\ quiet' = TRUE
    /\ CloseLog
    /\ UNCHANGED <<waiting, copier, vfkit, lines>>

\* Release does not disturb the goroutine in cmd.Wait.
Commit ==
    /\ create = "detach"
    /\ create' = "committed"
    /\ UNCHANGED <<quiet, log, waiting, copier, vfkit, lines>>

CreateSteps ==
    OpenLog \/ StartVfkit \/ StartFails \/ SelectExit \/ SelectTimer \/ Commit

\* The provider is killed, or the command it serves is over: its goroutines end
\* and its end of the pipe closes.
ProviderEnds ==
    /\ create \in Pending \/ waiting \in {"wait", "drain"}
    /\ create' = IF create \in Pending THEN "crashed" ELSE create
    /\ waiting' = IF waiting \in {"wait", "drain"} THEN "lost" ELSE waiting
    /\ copier' = IF copier = "copying" THEN "done" ELSE copier
    /\ UNCHANGED <<quiet, log, vfkit, lines>>

-----------------------------------------------------------------------------
(* The goroutines of os/exec.                                              *)

\* Deviation: vfkit is waited for in the window alone.
ReapInWindow ==
    /\ create = "window"
    /\ waiting = "wait"
    /\ vfkit = "zombie"
    /\ vfkit' = "reaped"
    /\ waiting' = "drain"
    /\ UNCHANGED <<create, quiet, log, copier, lines>>

Reap ==
    /\ waiting = "wait"
    /\ vfkit = "zombie"
    /\ vfkit' = "reaped"
    /\ waiting' = "drain"
    /\ UNCHANGED <<create, quiet, log, copier, lines>>

\* Deviation: the process is waited for, its output is not.
DeliverExitOnly ==
    /\ waiting = "drain"
    /\ waiting' = "delivered"
    /\ UNCHANGED <<create, quiet, log, copier, vfkit, lines>>

\* cmd.Wait returns once the copy is complete.
Deliver ==
    /\ waiting = "drain"
    /\ copier = "done"
    /\ waiting' = "delivered"
    /\ UNCHANGED <<create, quiet, log, copier, vfkit, lines>>

\* Deviation: a line is written to the file once per writer.
CopyLineTwice ==
    /\ copier = "copying"
    /\ buffered < written
    /\ buffered' = buffered + 1
    /\ logged' = IF log = "open" THEN logged + 2 ELSE logged
    /\ copier' = IF log = "closed" THEN "done" ELSE "copying"
    /\ UNCHANGED <<create, quiet, log, waiting, vfkit, written, refused>>

\* A line goes to the buffer, then to the file. A write to the closed file is
\* an error, which ends the copy and closes the pipe.
CopyLine ==
    /\ copier = "copying"
    /\ buffered < written
    /\ buffered' = buffered + 1
    /\ logged' = IF log = "open" THEN logged + 1 ELSE logged
    /\ copier' = IF log = "closed" THEN "done" ELSE "copying"
    /\ UNCHANGED <<create, quiet, log, waiting, vfkit, written, refused>>

CopyEnds ==
    /\ copier = "copying"
    /\ buffered = written
    /\ vfkit \in {"zombie", "reaped"}
    /\ copier' = "done"
    /\ UNCHANGED <<create, quiet, log, waiting, vfkit, lines>>

GoroutineSteps == Reap \/ Deliver \/ CopyLine \/ CopyEnds

-----------------------------------------------------------------------------
(* vfkit.                                                                  *)

VfkitWrites ==
    /\ vfkit = "running"
    /\ copier = "copying"
    /\ written < MaxLines
    /\ written' = written + 1
    /\ UNCHANGED <<create, quiet, log, waiting, copier, vfkit, buffered, logged,
                   refused>>

\* Writing to a pipe nobody reads fails, and SIGPIPE may end the process.
VfkitRefused ==
    /\ vfkit = "running"
    /\ copier = "done"
    /\ refused' = TRUE
    /\ vfkit' \in {"running", "zombie"}
    /\ UNCHANGED <<create, quiet, log, waiting, copier, written, buffered,
                   logged>>

VfkitExits ==
    /\ vfkit = "running"
    /\ vfkit' = "zombie"
    /\ UNCHANGED <<create, quiet, log, waiting, copier, lines>>

-----------------------------------------------------------------------------
Next ==
    \/ CreateSteps \/ GoroutineSteps \/ ProviderEnds
    \/ VfkitWrites \/ VfkitRefused \/ VfkitExits

\* The provider's goroutines run and its timer fires; vfkit owes nothing.
Spec ==
    /\ Init
    /\ [][Next]_vars
    /\ WF_vars(CreateSteps)
    /\ WF_vars(Reap) /\ WF_vars(Deliver) /\ WF_vars(CopyLine \/ CopyEnds)

-----------------------------------------------------------------------------
(* Properties.                                                             *)

\* The error of a vfkit that died at start-up carries everything it wrote, in
\* the message and in the log: the log is closed only once the copy is complete.
ErrorHasStderr ==
    create = "failed" /\ vfkit # "none"
        => buffered = written /\ (log # "none" => logged = written)

\* A Create that reports an error leaves neither a running vfkit nor a zombie.
NoVfkitLeftBehind == create = "failed" => vfkit \in {"none", "reaped"}

\* A vfkit that ends is collected as long as the provider lives, also after
\* Create has detached it: a later kill -0 does not see a zombie.
DetachedChildIsReaped ==
    vfkit = "zombie" ~> (vfkit # "zombie" \/ waiting = "lost")

\* A record is committed only for a vfkit that was not seen to end in the
\* window, and an error is reported only for one that was.
Contract == INSTANCE LaunchContract WITH
    outcome  <- IF create \in Pending THEN "pending" ELSE create,
    proc     <- IF vfkit = "none" THEN "none"
                ELSE IF waiting = "delivered" THEN "down"
                ELSE "up",
    evidence <- quiet

ImplementsContract == Contract!Spec

\* What vfkit writes to its standard error reaches the sidecar log.
StderrAlwaysCaptured ==
    log # "none" => logged = buffered /\ (refused => waiting = "lost")

=============================================================================
