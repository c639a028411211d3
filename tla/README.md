# A formal model of terraform-provider-macvf

`macvf` is a Terraform provider that runs virtual machines on macOS. It has no
daemon of its own: every resource is a file or a process that one `terraform`
command leaves behind and a later one finds again through its state. A network
is a `network-runner` process, an instance is a `vfkit` process, and both are
known to later commands by a process identifier. What can go wrong is in the
seams: between the provider and the process it starts, between one command and
the next, between a process and the socket or log file it leaves.

The modules here model those seams. TLC checks them on small instances and
TLAPS proves the safety properties, and the steps of the refinements, for every
value of the constants.

## 1. Inventory

| Component | Source | State it keeps | Operations | Interacts with |
|---|---|---|---|---|
| Provider | `provider.go`, `main.go` | paths of `vfkit` and `network-runner` | Configure | extracts binaries, hands their paths to the resources |
| Extraction | `networkrunner.go` | `<cache>/bin/*` and a shared `.tmp` file | `extractEmbedded`, at every Configure | other provider processes on the same cache |
| `macvf_network` | `resource_network.go` | record with PID and socket path; data socket, log, notification socket | Create, Read, Update (refuses), Delete | starts, signals and kills `network-runner`; hears from it over the notification socket |
| `network-runner` | `cmd/network-runner/main.go` | data socket, context, queue of notifications | read configuration, build network, bind, announce, serve one peer, shut down | provider (stdin, notifications, signals), instances (datagrams) |
| gvisor configuration | `resource_network.go` | none | `buildGvisorConfig` | input to `network-runner` |
| `macvf_instance` | `resource_instance.go` | record with PID; stderr log, EFI store | Create, Read, Update (refuses), Delete | starts, watches and signals `vfkit`; names a network's socket, disks, cloud-init directory |
| Process helpers | `utils.go` | none | `isProcessAlive`, `terminateProcess` | Read and Delete of networks and instances |
| Storage | `resource_pool.go`, `resource_disk.go`, `resource_cloudinit_disk.go` | directories and files | Create, Read, Update (refuses), Delete | instances and disks name each other's paths |
| Validators, arithmetic | `utils.go`, `resource_network.go` | none | sizes, names, addresses, MACs | schemas and Create |

What is hard about them, and what makes each correct:

- **Network Create** is a race of four actors: the handler, the waiter
  goroutine, the runner and the runner's sender goroutine; plus a timer, signals
  and the death of either process. Correct means: commit only after the runner
  has bound its socket; on any failure leave no runner, no goroutine and no
  socket behind; return in any case; never touch a file that is not its own.
- **Network Read and Delete** act on a PID that an earlier provider process
  recorded. Correct means: no runner that the state does not name, no record
  dropped while its runner lives, no socket taken from a live runner, and a
  Delete that ends. A Delete whose grace period is over sends SIGKILL and waits for
  nothing more, so "lives" here and below means: runs and was not sent SIGKILL.
- **Instance Create** decides by silence: no exit in three seconds is success.
  Correct means: what exits in the window is reported with all it wrote, what is
  committed was not seen to exit, and a detached `vfkit` is neither disturbed nor
  left a zombie.
- **Extraction** shares a temporary file among processes that do not know of each
  other. Correct means: what is installed is one release's complete binary, whoever
  extracts or dies at the same time, and a binary in use is not written to.
- **Instance Read and Delete** act on a recorded PID as well, and on the EFI
  variable store beside the boot disk. Correct means: no `vfkit` that the state
  does not name, no store taken from a running machine, and no store of an earlier
  machine left to the next without a reason.
- **Storage** has no transactions: a disk is a file that is copied, then grown,
  then recorded; a cloud-init directory is three files; a pool is removed entry by
  entry. Correct means: a recorded disk is whole and of the size asked for,
  whatever an earlier failure left at its path and whatever is cloned from it at
  the same time; files without a record are those of failed Creates; nothing is
  left of a pool whose record is gone; a recorded cloud-init directory has the
  files it was asked to have.
- **The configuration** is correct if every accepted lease has one DHCP entry and
  one DNS name, and clashes are refused.

`PROJECT.json` lists the hazards line by line.

## 2. Modules

| Module | What it is |
|---|---|
| `LaunchContract` | abstract: what a Create that launches a daemon promises |
| `RecordContract` | abstract: what the record of a daemon promises from one Create to the next |
| `NetworkCreate` | one network Create, its waiter and its runner; implements `LaunchContract` and, for one network, `NetworkLifecycle` |
| `NetworkCreateProofs` | theorems about `NetworkCreate` |
| `NetworkLifecycle`, `NetworkLifecycleMC` | many networks over many provider processes; the instance for TLC; implements `RecordContract` for each network |
| `NetworkLifecycleProofs` | theorems about `NetworkLifecycle` |
| `InstanceCreate` | one instance Create, the goroutines of os/exec and vfkit; implements `LaunchContract` |
| `InstanceCreateProofs` | theorems about `InstanceCreate` |
| `InstanceLifecycle` | the lives of one instance: its Creates, one after the other, Read, Delete, the EFI variable store; extends `InstanceCreate`, implements `RecordContract` |
| `InstanceLifecycleProofs` | theorems about `InstanceLifecycle`, from those about one Create |
| `Storage` | pools and disks |
| `StorageProofs` | theorems about `Storage` |
| `CloudInit` | one cloud-init directory |
| `PoolFiles`, `PoolFilesMC` | the composition of `Storage` and `CloudInit` in one pool; the instance for TLC |
| `PoolFilesProofs` | theorems about `CloudInit` and the composition |
| `BinaryExtraction`, `BinaryExtractionMC` | provider processes that extract to one cache directory; the instance for TLC |
| `BinaryExtractionProofs` | theorems about `BinaryExtraction` |
| `GvisorConfig`, `GvisorConfigMC` | the configuration computed from a network's plan; the instance for TLC |
| `GvisorConfigProofs` | theorems about `GvisorConfig` |

Definitions whose comment begins with "Deviation" are not part of a
specification: each is a plausible bug, a variant of the action defined after it,
and the property listed with it in `PROJECT.json` fails when it takes that
action's place.

### LaunchContract

`outcome`, `proc` and `evidence`: a child is spawned once; `Commit` needs
evidence that the child came up; `Fail` leaves the child down; `Crash` is the
provider's own death and promises nothing about the child; `Again` is the next
Create of the same resource. Its fairness says that a Create which is not cut
short returns. A network's evidence is that the runner
has sent "ready", an instance's that the window ended before an exit was
collected.

### RecordContract

`record` is `none`, `pending` in a Create, `kept` or `deleting`; `process` is what
that record or Create names. A Read drops a record only when its process has
ended, a Delete only when it has ended or was sent SIGKILL; a Create that fails
takes its process along, and nothing is started beside a record. `stray`, a
process that nothing names and nobody killed, may become true only as a Create
ends with its provider, which `cutShort` remembers; `lingering`, one that was sent
SIGKILL and has not ended, only as a record is dropped, a Create is cut short or a
stray process is killed. That a successor may start beside a lingering process is
part of the contract: the code promises no more. `LaunchContract` speaks of one
Create and of the evidence for its success; `RecordContract` of all the Creates,
Reads and Deletes of a resource and of the process between them.

### NetworkCreate

`create` is the program counter of the handler: `listen`, `log`, `start`,
`await`, `close` (a result is there, the listener still open), `settle` (commit or
kill). The checks of the plan and the generation of names before the listener
change nothing outside the handler; they are the initial state. `waiter` and
`conn` are `waitForReady`; `done` is its channel of capacity 1. `runner` is the
program counter of `run`: `boot` until the signal handler is in place, `setup`,
`bind`, `announce`, `serving`, `unlink` (the deferred removal), `exiting`.

Messages are the two the runner sends and the waiter knows. `mail[m]` follows one:
`unsent`, `queued` for the sender goroutine, `dialled`, then `written`, or `cut`
when the runner died first, and `read` when the waiter closed the connection. A
message whose dial fails is `dropped`, which may happen although the provider
listens, and the sender goes on to the next. A sender that stopped with its
context leaves its messages `queued`. Accept may fail at any time, also while the
listener is open. `ConnectionEstablished` and other messages of gvisor-tap-vsock
are sent only after "ready" has been queued, so the waiter never meets them first
and they are left out. `sock` is the data socket's path: `foreign` is a file of
somebody else (possible for an explicit `socket_path`), `orphaned` the file of a
runner that died without removing it.

The timer is an action that is enabled throughout `await`: it may fire before
anything happened or after the result is in the channel, as Go's select allows.
`Kill` and `Wait` are one step; nothing the runner does between them could not
also have happened before. `Release` cannot fail on Unix and is part of `Commit`.

Fairness: weak fairness of the handler's steps together and of the waiter's, for
goroutines are scheduled, local system calls return and timers fire. The waiter's
excludes an Accept that has no connection to return (`AcceptBlocks`): that it may
fail then is possible, and nothing relies on it. None is assumed of the runner.

Seen from `NetworkLifecycle` (`ImplementsLifecycle`) a whole Create is a few steps:
the start of the runner, its bind, its end, the commit or the failure. The mapping
makes the program counters of handler and runner one `phase` and one `proc`, counts
a runner that nobody has waited for as a zombie while the provider lives, and takes
a file that is not served (`foreign`, `orphaned`) for a stale one. So what
`NetworkLifecycle` assumes of a Create is not a second reading of the code beside
`NetworkCreate`; it is what the detailed module does.

### NetworkLifecycle

`phase[n]` and `pid[n]` are the record of network `n` together with the operation
in progress: no record and no Create (`none`), `creating`, `recorded`, and the two
waits inside Delete, `polling` and `unlinking`. `proc[p]` says what the identifier
`p` names: a runner (`booting`, `serving`, `stopping`, `exiting`), one that was
sent SIGKILL (`killed`, or `ousted` if it was a program unknown here), a `zombie`
that only the end of its parent removes, a `foreign` process, or nothing (`free`,
and `gone` until the kernel hands the identifier out again). Create is its outcome
only, as `NetworkCreate` refines it; a network's path may hold a stale file before
its first Create. `TryRemove` is an `os.Remove` whose error is only warned of:
Read and Delete drop the record whether or not the file went. Delete is
`terminateProcess` step by step, then the removal of the socket. `ProviderEnds` is
both the normal end of a command and a crash in the middle of operations:
Terraform keeps the record of an interrupted Delete and has none for an
interrupted Create; `cutShort` remembers the networks to which the latter
happened.

`announced` holds the networks whose runner has bound since their Create began; it
ends with the provider.

Every network has a path of its own that is the same at each Create. That is the
explicit `socket_path`; the default path is new each time, which only removes
collisions between a network's successive runners.

SIGKILL and the end of the process are two steps (`KillAtDeadline`, `KilledEnds`):
`terminateProcess` ignores the error of the signal and returns without waiting.
The assumption about a process that was sent SIGKILL is that it runs none of its
code again, so it neither binds nor removes a file; it exists, answers signal 0,
keeps its identifier and holds what it has open until it ends, at any later time
or never. A Create or Read of the same network may come first.

`isProcessAlive` is true of such a process and of a zombie: signal 0 reaches it. A
runner is a zombie after its end as long as the provider that started it lives,
because a successful Create releases the process without waiting for it.

Fairness: a Delete that was started goes on. Terraform's commands, Read and the
runners have none.

### InstanceCreate

`create` is the handler: `log`, `start`, `window` (the select), `detach` (log
closed), `committed`. `waiting` is the goroutine in `cmd.Wait`: `wait`, `drain`
(vfkit reaped, output still being copied), `delivered`. `copier` is the goroutine
of os/exec between the pipe and the two writers. Standard error is counted in
lines: `written` to the pipe, `buffered`, `logged`. vfkit is external: it may
write, hang or exit at any time; a write to a pipe without a reader is `refused`
and may end it. The arguments of vfkit are left out.

The handler sits in the select from the start of the window, so the event that
comes first is the one it takes: `SelectTimer` needs that no exit was delivered.

Fairness: the handler, `cmd.Wait` and the copier run; vfkit owes nothing.

### InstanceLifecycle

`record` is the record of the present life, or the Delete of it: `recorded`,
`polling` inside `terminateProcess`, `unlinking` before the removal of the store.
Each step of a Create (`LifeCreate`) is one of `InstanceCreate`; `NextLife` starts
the next. The record is there when Create has committed, and its PID is that of
the life's `vfkit`, so it is alive when `vfkit` runs, is a zombie, or has ended and
left its identifier to another program (`foreign`). `vfkit` may outlive its
provider: then `launchd` collects it. A `vfkit` of an earlier life that still runs
is `stray`.

SIGKILL ends nothing at once here either: `KillAtDeadline` sets `killed` and
Delete goes on to remove the store, while `vfkit` exists, with its disks and its
store open, until it exits in a step of its own. The assumption is the same as for
the runner: it runs none of its code again, and so neither opens nor makes a
store. If the next life begins before that, the old `vfkit` is `lingering` beside
the new one.

`store` is the variable store at `<pool>/<instance>.efivars.fd`, which `vfkit`
makes with its option `create`. The plan of a life has it or not (`efi`); Delete
decides by the plan in the record, and only warns when it cannot remove the file.
The pool may be deleted, with the store in it, when there is no record. Two
history variables say why a property may not hold: `cutShort`, a Create ended with
the provider process, and `unremoved`, a store was left.

`InstanceCreate` follows one Create with its provider; here the same variables
carry the life on, and what remains of the goroutines of an earlier life in the
same provider process is left out when the next begins: they hold a reaped or dead
process and closed files.

Fairness: that of `InstanceCreate`, and a Delete that was started goes on.

### Storage

`poolStage[q]` and `stage[d]` are the records, or the operation in progress:
`open`, `copy`, `fit` and `commit` in the Create of a disk, `deleting` in that of
a pool. `file[p]` is the content of a path as a sequence of blocks, so that half a
copy, a hole and a copy of the wrong file differ. Create clones or falls back to
the copy; `Clone` needs a free path, `Open` empties what is there, `CopyBlock` is
one write, `Fit` the truncation at the end and `RefuseToShrink` the refusal before
it. `FailCreate` is an error of any step and leaves what was written.
`ProviderDies` ends every operation in progress at once.

The order of operations is Terraform's, which follows references: a disk comes
after its pool and after the disk it clones, and goes before them. Two resources
may still have one path: two disks of one name, or the new and the old disk of a
replacement that creates first. `contested` remembers such paths and the clones
made from them; nothing is claimed of their contents. Open files are known by
their paths, which differs from their inodes only there. `due` and `residue` are
history: what a plan asked for when its Create began, and where a Create failed.

### CloudInit and PoolFiles

`seed` is the record or the file that Create writes next, `entry` what the directory
holds: a text, nothing, or a file that was not written to its end. `Read` looks at
`user-data` alone, and `Delete` is a removal file by file that may stop at any of
them. `damaged` and `leftover` remember that a Delete or a Create was cut short.
`PoolFiles` puts the directory in one pool with the disks: the pool goes after the
directory or what a failed Create left of it, the directory's Create makes that of
the pool again, and the provider's death hits both.

### BinaryExtraction

A file is an inode with chunks; `tmp` and `dest` are the names, `fd[p]` the inode
that process `p` opened. `Launch` is the open of `os.WriteFile` (O_CREATE,
O_TRUNC), `WriteChunk` a write at the process's own offset, `Install` the rename of
whatever has the temporary name by then. Errors and deaths may come between any
two steps. A process of another release embeds another binary, of another size.
`running` holds the inodes that live runners execute. `MkdirAll` and a failure to
open change nothing that a later step sees. The network-runner and vfkit are
extracted one after the other to files of their own, so one of them is modelled.
Loss of power is left out: the code does not call `fsync`, and what a file system
keeps then is its own affair.

`overlapped`, `raced` and `torn` are history: which extractions in progress were
not alone, whether any overlapped since the last that was alone succeeded, and
whether one that overlapped was cut short.

### GvisorConfig

A sequential computation, one step per iteration: `macs` draws the MAC addresses
the plan leaves out, `leases` is the loop that checks and adds leases, `forwards`
the loop over port forwards, `domains` the conversion that may still fail. The plan
is the input; every plan within the bounds is an initial state. Go's maps are
functions with `None` for a missing entry. The loop that turns `dnsByName` into
zones visits each name once, in an order Go does not fix, and is left out: the
zones are `byName`. Addresses are compared as strings, so two spellings of one MAC
address are two addresses here as they are in the code.

## 3. Runs

| Run | Bounds | What it shows |
|---|---|---|
| `network_create` | one Create; path absent or foreign | no failure, signal, timeout or death at any point of provider or runner breaks the safety properties; Create returns, the waiter ends, the contract is implemented with its liveness, and so is the lifecycle of one network |
| `network_log_open_fails` | same, path absent | finding: the error path for the log file leaks the listener |
| `network_socket_left` | same, path absent | finding: the killed runner's socket file stays |
| `network_lifecycle` | 2 networks, 2 recurring identifiers | no stray runner but what a SIGKILL is ending, sockets are kept, records go only with runners that ended or were sent SIGKILL, every record keeps its contract, Delete ends; with stale files and removals that fail |
| `network_pid_reuse` | same | finding: Delete kills a foreign process |
| `instance_create` | at most 3 lines in a life | start-up errors are complete, nothing is left behind, a detached child is reaped, the contract is implemented, all of it in any life; no stray vfkit but what a SIGKILL is ending, stores are fresh and are not taken from a vfkit that was not killed, the record keeps its contract, Delete ends |
| `instance_stderr_lost` | one Create, at most 3 lines | finding: stderr after the window is lost |
| `binary_extraction` | 2 processes, 3 files, binaries of 1 and 2 chunks | the installed binary is whole unless extractions overlap, what an overlap leaves is whole or a mix of two releases, upgrades take effect, executed binaries are not written to |
| `extraction_overlap` | same | finding: the returned path holds a truncated binary |
| `gvisor_config` | 3 leases, 2 forwards, 2 values of each kind | accepted plans are exactly the complete ones without clashes, and the configuration is theirs |
| `gvisor_shared_name` | same | finding: a shared hostname loses the first lease's name |
| `storage` | 2 disks, 1 pool, 2 paths, files of at most 2 blocks, 2 configurations of one cloud-init directory | recorded disks are whole, orphans come from failures, pools are emptied, cloud-init files are as planned |

`NetworkCreate` needs no bound: each message is sent at most once and there is one
runner. Two networks and two identifiers are the least with which an identifier
can pass from one network's runner to the other's and a runner can still be
shutting down when its successor starts; the theorems hold for any number. Three
lines let one be in the log, one in the pipe and one unwritten. The lives of an
instance need no bound: what an earlier one leaves is a store, a stray process and
the two history variables. Two disks are a base and its clone, or two that are
given one path; of the plans one copies an image and grows it, one clones, one
would have to shrink and one is blank, and a copy of two blocks can be cut short in
the middle. The two cloud-init configurations differ in a file's text and in
whether there is a `network-config`. Three files are one
that is executed or installed, one that is renamed under a writer and one that
another writer creates meanwhile; a binary of two chunks can be half written, and a
smaller one can be written over it. With three leases a clash need not be between
neighbours. Deadlock is not
checked where one Create or one computation is the whole system, since it ends.

Properties worth a reader's attention:

- `ReadyMeansReachable` relates the record to the runner's progress: it fails as
  soon as "ready" is sent one step earlier.
- `WaiterTerminates` needs the buffer of the channel and the kill: a waiter that
  reads a connection has no deadline of its own.
- `ServingHasSocket` is why Delete must wait for the end of the runner it
  signals: the deferred removal of a runner that is still shutting down would take
  the file of its successor. It excludes networks in `cutShort`: after a crash of
  the provider in the middle of a Create the orphan may bind the path later.
- `NoStrayRunner` excludes the same networks, and runners that were sent SIGKILL.
- `NoStrayVfkit` says that Terraform can reach every `vfkit` that nobody has sent
  SIGKILL, except after a Create that died with its provider: then there is no
  record and the next apply starts another machine. It does not say that there are
  never two machines on one disk: a `vfkit` that ignored the request to shut down
  and was sent SIGKILL may still exist when the next one starts, since Delete does
  not wait.
- `StoreIsFresh` and `StoreOutlivesVfkit` pull in opposite directions: a Delete
  that returned early would leave the store, one that did not wait for the end or
  the deadline would remove it too early. After the SIGKILL at the deadline the
  store is removed while `vfkit` may still have it open, and `StoreOutlivesVfkit`
  excludes that.
- `RecordDroppedWhenStopped` tells Read from Delete: what Read drops has ended, what
  Delete drops has ended or been sent SIGKILL.
- `WholeUnlessMixed` is what remains true of extractions that overlap: once all are
  through, the path holds a whole binary or chunks of two releases. So provider
  processes of one release, the usual case, repair what they do to each other, while
  two releases may leave a mixture for good, and nothing promises otherwise.
- `RecordedIsWhole` speaks of contents. It fails when the fall-back of a clone opens
  what a failed Create left without emptying it.
- `SeedAsPlanned` names what the code does not do: a `network-config` that was not
  asked for stays if an earlier operation on the directory was cut short, and an
  instance passes it on because it exists. So it does not catch that hazard, nor a
  directory whose Delete failed half way; it catches a `user-data` or `meta-data`
  that an earlier disk left. Likewise `RecordedIsWhole` says nothing of disks that
  share a path.
- `RecordsKeepContract` and `RecordKeepsContract` tie what Read, Delete and Create
  do to the process into one abstract machine. A Delete that gives up at its
  deadline, or one that drops the record after SIGTERM without a look at the
  process, breaks the step that drops a record.
- `ImplementsLifecycle` fails if the runner's deferred removal does not take its
  file: the lifecycle has no step in which a runner that shuts down leaves one.
- `ErrorHasStderr` is why the exit is taken from `cmd.Wait` and not from the
  process.

## 4. Findings

Six violation runs show disagreements between the code and its comments or
documents: the leaked notification socket, the data socket left by a Create that
failed, the foreign process that Delete stops, the lost standard error, the
truncated binary of two extractions at the same time, and the hostname of two
leases. `PROJECT.json` quotes the lines.

## 5. Proofs

Each proof module first proves type correctness, action by action, then one
inductive invariant, and from it the properties.

- `NetworkCreateProofs`: `IInv` consists of `LaunchInv` (where Create has a
  runner), `ListenerInv` (where the listener is closed), `RunnerInv` (where the
  runner owns the socket and has sent what) and `ReadyInv` (what the provider
  holds was sent). `ReadyMeansReachable` alone is not inductive: it speaks of
  committed records, and a "ready" passes through the mail, a connection, the
  channel and `result` first. The lemma `SentStays` says that no step unsends a
  message. From `IInv` follow four properties and the steps of the refinement.
  `OrderInv` adds the order of the two messages: a failure that is heard was not
  preceded by a "ready" that was delivered (`ReadyIsHeardFirst`), since the sender
  dials one connection after the other; only one whose dial failed is passed over.
  `SilenceInv` carries that to the socket which a failed Create leaves. `LifeStep`
  shows step by step that the module implements `NetworkLifecycle`; it needs
  `IInv` to know, for instance, that a runner which is killed at the end of a
  failed Create leaves the process table with it.
- `NetworkLifecycleProofs`: `NoStrayRunner` is not inductive because Read and
  Delete drop records. `Named` adds that a network with a live runner is not yet
  in `unlinking`, `Bound` that a runner keeps its socket up to its own unlink, and
  `Stopped` that Delete unlinks only after the runner's end or its SIGKILL, for
  networks in `cutShort` as well. That two runners never contend for one path
  follows: both would be named by the same PID. With these `RecordStep` maps every
  action to a step of `RecordContract`. `HeardInv` carries the bind from Create to
  the record. `ChildKept` says that the child of a Create in progress keeps its
  identifier until it is waited for, so that a failing Create cannot hit another
  process although Delete can.
- `InstanceCreateProofs`: the invariant follows the handler: in the window the
  file has what the buffer has, and the copy ends only because vfkit did.
  `PipeInv` follows the pipe past the window: only the timer closes the log under
  the copier, and one line is the most that it takes without writing it. It also
  gives every zombie a goroutine in `cmd.Wait`.
- `InstanceLifecycleProofs`: every step of a life is one of a Create, the next
  life's beginning, or the collection of `vfkit` by launchd, so that the invariant
  of one Create carries over (`CreateInvStep`). To it come `Unlinking`, that the
  poll has seen the end of `vfkit` or Delete has sent SIGKILL, and `StoreInv`,
  that a store in use goes with its record or is remembered as left: without these
  neither `NoStrayVfkit` nor `StoreIsFresh` is inductive. `RecordStep` maps every
  step to one of `RecordContract`.
- `StorageProofs`: `Due` follows the file of a disk that is alone on its path: a
  prefix of the source while it is copied, the source when it is fitted, and then
  what was asked for. It needs `Exclusive` (two disks on a path have made it
  contested), `Sourced` (the source of a copy is a recorded disk that is not
  contested, which no step writes to) and `Placed` (files are below directories
  that are there). `Owned` gives every file a disk or a residue.
  `RecordedDisksAreLeftAlone` is the same as an action property: the file of a
  disk that stays recorded does not change.
- `PoolFilesProofs`: `SeedInv` says which files are written at each step of a
  Create. `FilesStep` shows that a step of the composition is a step or a stutter
  of either part, so what is proved of the parts holds of the whole. `SeedPlaced`
  ties the cloud-init directory to its pool: it is below a pool that is recorded
  or still has its directory. Hence nothing of it, residue included, outlives the
  pool's record.
- `BinaryExtractionProofs`: `InstalledIsWhole` says nothing of the temporary file
  that the next rename installs. `AloneInv` follows that file chunk by chunk as
  long as its writer is alone, `NameInv` keeps what is being written apart from
  what is installed or executed, and `RaceInv` ties the history to the processes
  in progress. For `WholeUnlessMixed`, `CoverInv` follows every file that
  overlapping processes may write to: a release of which it has one chunk is there
  up to its end, or `Owes` names the process that writes what is missing, and the
  process that truncated last began with the first chunk. The lemma
  `AloneInstalls` gives the contents at the rename. `Kept` says what no step does
  to a file that is executed; with it `RunnersStayWhole` needs no overlap anywhere
  in the behaviour.
- `GvisorConfigProofs`: loop invariants. `Folded` and `Forwarded` are the entries
  before the index; `LeaseInv`, `NameInv` and `ForwardInv` say that the maps hold
  exactly these. The lemma `TakenMeansClash` turns a hit in the maps into a clash of
  the plan, which is what makes a refusal right.

What the theorems about records, stray processes and stores say of a process that
was sent SIGKILL is in their statements: they hold with a process that is still
there when its record is gone, and rest on its running no code of its own.

Findings and theorems. A violation run shows that something goes wrong once; a
theorem beside it says when it cannot, so that a reader knows the extent:

| Finding | Theorem | It needs |
|---|---|---|
| notification socket left | `OnlyLogErrorLeaksNotification` | a log file that cannot be opened |
| data socket left | `SocketLeftOnlyUnheard` | a Create that was not told "ready": a timeout, an error of Accept or a dial that failed |
| foreign process stopped | `OnlyItsOwnRunnerIsStopped`, `FailedCreateStopsItsOwn` | a PID that recurs, and Delete |
| standard error lost | `StderrLossIsBounded` | the end of the window; one line |
| truncated binary | `InstallIsAtomic`, `RunnersStayWhole` | an overlap of two extractions |
| hostname of two leases | `ExpandedIfNamesDiffer` | two leases with one name, and nothing else |

Of the liveness of the waiter the part without fairness is proved:
`WaiterIsNeverBlocked` says that after a Create that closed its listener the guard
of one of the waiter's own steps holds until it has finished, and
`WaiterEndsInFiveSteps` that each of these lowers a number that is at most five and
that nothing raises again. What remains is that a goroutine which can run does.
`ZombieHasWaiter` is the corresponding half of `DetachedChildIsReaped`.

Assumptions: `SocketAtStartAssumption` (what may be at the path),
`NoPidAssumption`, `PidsRecurAssumption`, `MaxLinesAssumption`,
`MaxSizeAssumption`, `SizeAssumption` and `NoneAssumption` of `BinaryExtraction`,
`NoneAssumption`, `ZeroAssumption`, `PathAssumption`, `ContentsAssumption` and
`PlanAssumption` of `Storage` (what Create itself refuses is no plan),
`DataAssumption` and `ConfigAssumption` of `CloudInit`, `SeedPoolAssumption` of
`PoolFiles`, `BoundsAssumption` and `DistinctAssumption` of `GvisorConfig`; TLC
evaluates them in the runs. `OnlyItsOwnRunnerIsStopped` alone has a hypothesis of
its own, `~PidsRecur`; without it TLC refutes the statement. The refinement
theorems state initial states and steps: `Contract!Spec` and `Life!Spec` also have
fairness, whose proof needs ENABLED, and are checked by TLC as a whole
(`RecordContract` has none, and is proved as a whole). That Create returns, that
the waiter ends, that Delete completes and that a detached child is reaped are
liveness properties and are checked by TLC only.

## 6. Not modelled

- The validators, the size parser, the default gateway and the generated MAC
  addresses: expressions over strings and numbers without state, which a model
  would only restate. Sizes in `Storage` are numbers of blocks.
- What the kernel does with a process after SIGKILL, beyond that it runs no code of
  its own and may end at any time: how long a virtual machine keeps its disks, and
  whether its successor is refused them meanwhile. It is listed as a hazard.
- What guests write to their disks. A base disk that is in use while it is copied
  gives a clone of no single moment; that is listed as a hazard.
- Terraform's planning: which changes of a configuration replace a resource and
  which reach an Update that refuses. The models take the order of operations that
  references impose, and allow everything else. A disk that is replaced under a
  running instance (`disk_id` does not force a replacement) is listed as a hazard.
- What the runner does once its first peer is gone, which is gvisor-tap-vsock's.
- Provider configuration and schema declarations, the data path of
  gvisor-tap-vsock, Apple's virtualisation framework, documentation generation and
  the build.
- Loss of power. The provider process may die at any step; the file system keeps
  what it was told.
