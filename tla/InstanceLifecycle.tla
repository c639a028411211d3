-------------------------- MODULE InstanceLifecycle --------------------------
(***************************************************************************)
(* The Creates of one macvf_instance, one after the other, and what lies   *)
(* between them: Read, Delete and the EFI variable store beside the boot   *)
(* disk.                                                                   *)
(*                                                                         *)
(* A life begins with a Create, step by step as in InstanceCreate, and     *)
(* ends when there is no record. Its vfkit has the identifier in the       *)
(* record, and may live on when the Create is cut short. The name and the  *)
(* boot disk are the same in every life, and with them the store's path.   *)
(*                                                                         *)
(* Nobody waits for the end of a vfkit that Delete sends SIGKILL. The      *)
(* assumption about it: it runs no code of its own again, but it exists,    *)
(* and holds what it has open, until it ends at some later time.           *)
(***************************************************************************)
EXTENDS InstanceCreate

VARIABLES
    record,     \* the record of this life, or a Delete in progress
    efi,        \* this life's plan has no linux_boot block
    foreign,    \* the identifier in the record names another program that the
                \* provider may signal
    store,      \* the variable store: none, one that this life's vfkit uses,
                \* or one that an earlier vfkit made
    killed,     \* this life's vfkit was sent SIGKILL; as long as vfkit is
                \* "running" it exists all the same
    stray,      \* a vfkit of an earlier life runs that was not sent SIGKILL
    lingering,  \* a vfkit of an earlier life was, and has not ended
    cutShort,   \* history: a Create ended with the provider process
    unremoved   \* history: a record was dropped, or a Create ended, without the
                \* removal of the store, and neither a Delete nor that of
                \* the pool has removed it since

recordVars == <<record, efi, foreign, unremoved>>
sigkill == <<killed, lingering>>
worldVars == <<store, sigkill, stray, cutShort>>
lifeVars == <<vars, recordVars, worldVars>>

LifeTypeOK ==
    /\ record \in {"none", "recorded", "polling", "unlinking"}
    /\ efi \in BOOLEAN
    /\ foreign \in BOOLEAN
    /\ store \in {"none", "own", "earlier"}
    /\ killed \in BOOLEAN
    /\ stray \in BOOLEAN
    /\ lingering \in BOOLEAN
    /\ cutShort \in BOOLEAN
    /\ unremoved \in BOOLEAN
    /\ record # "none" => create = "committed"
    /\ foreign => vfkit = "reaped" /\ record # "none"
    /\ killed => create = "committed"

LifeInit ==
    /\ Init
    /\ record = "none"
    /\ efi \in BOOLEAN
    /\ foreign = FALSE
    /\ store = "none"
    /\ killed = FALSE
    /\ stray = FALSE
    /\ lingering = FALSE
    /\ cutShort = FALSE
    /\ unremoved = FALSE

\* What kill(pid, 0) tells of the identifier in the record: a process that was
\* sent SIGKILL, and a zombie, count as alive.
isProcessAlive == vfkit \in {"running", "zombie"} \/ foreign

-----------------------------------------------------------------------------
(* Create.                                                                 *)

\* Deviation: the record is saved as soon as vfkit is started.
LifeCreateEarly ==
    /\ CreateSteps
    /\ record' = IF create' \in {"window", "committed"} THEN "recorded"
                 ELSE record
    /\ unremoved' = (unremoved \/ create' = "failed")
    /\ UNCHANGED <<efi, foreign, worldVars>>

LifeCreate ==
    /\ CreateSteps
    /\ record' = IF create' = "committed" THEN "recorded" ELSE record
    /\ unremoved' = (unremoved \/ create' = "failed")
    /\ UNCHANGED <<efi, foreign, worldVars>>

\* The next life: Terraform calls Create again.
NextLife ==
    /\ record = "none"
    /\ create \notin Pending
    /\ create' = "log"
    /\ quiet' = FALSE
    /\ log' = "none"
    /\ waiting' = "none"
    /\ copier' = "none"
    /\ vfkit' = "none"
    /\ written' = 0 /\ buffered' = 0 /\ logged' = 0
    /\ refused' = FALSE
    /\ efi' \in BOOLEAN
    /\ killed' = FALSE
    /\ stray' = (stray \/ (vfkit = "running" /\ ~killed))
    /\ lingering' = (lingering \/ (vfkit = "running" /\ killed))
    /\ store' = IF store = "own" THEN "earlier" ELSE store
    /\ UNCHANGED <<record, foreign, cutShort, unremoved>>

-----------------------------------------------------------------------------
(* Read.                                                                   *)

\* A record whose process is gone is dropped; the store stays.
ReadDrops ==
    /\ record = "recorded"
    /\ ~isProcessAlive
    /\ record' = "none"
    /\ unremoved' = (unremoved \/ store # "none")
    /\ UNCHANGED <<vars, efi, foreign, worldVars>>

-----------------------------------------------------------------------------
(* Delete: terminateProcess, then the removal of the store.                *)

\* Deviation: Delete does not wait for the end of the process it signalled.
SendTermOnly ==
    /\ record = "recorded"
    /\ record' = "unlinking"
    /\ UNCHANGED <<vars, efi, foreign, unremoved, worldVars>>

\* Deviation: Delete returns when there is nothing to signal.
SendTermOrReturn ==
    /\ record = "recorded"
    /\ record' = IF isProcessAlive THEN "polling" ELSE "none"
    /\ foreign' = FALSE
    /\ UNCHANGED <<vars, efi, unremoved, worldVars>>

\* What SIGTERM does is up to the process. That it cannot be delivered to one
\* that is gone is a warning.
SendTerm ==
    /\ record = "recorded"
    /\ record' = IF isProcessAlive THEN "polling" ELSE "unlinking"
    /\ UNCHANGED <<vars, efi, foreign, unremoved, worldVars>>

PollSeesEnd ==
    /\ record = "polling"
    /\ ~isProcessAlive
    /\ record' = "unlinking"
    /\ UNCHANGED <<vars, efi, foreign, unremoved, worldVars>>

\* Deviation: Delete gives up when the grace period ends.
GiveUpAtDeadline ==
    /\ record = "polling"
    /\ record' = "unlinking"
    /\ UNCHANGED <<vars, efi, foreign, unremoved, worldVars>>

\* Deviation: there is no SIGKILL for a process that ignores SIGTERM.
WaitForEnd ==
    /\ record = "polling"
    /\ ~isProcessAlive
    /\ record' = "unlinking"
    /\ UNCHANGED <<vars, efi, foreign, unremoved, worldVars>>

\* The grace period ends: SIGKILL, whose effect nobody waits for.
KillAtDeadline ==
    /\ record = "polling"
    /\ record' = "unlinking"
    /\ killed' = (killed \/ vfkit = "running")
    /\ UNCHANGED <<vars, efi, foreign, unremoved, store, stray, lingering,
                   cutShort>>

\* The record goes, and with it the store unless that cannot be removed, which
\* is a warning. The plan in the record tells whether there is one.
RemoveStore ==
    /\ record = "unlinking"
    /\ record' = "none"
    /\ foreign' = FALSE
    /\ \/ efi /\ store' = "none" /\ unremoved' = FALSE
       \/ efi /\ store # "none" /\ unremoved' = TRUE /\ UNCHANGED store
       \/ ~efi /\ UNCHANGED <<store, unremoved>>
    /\ UNCHANGED <<vars, efi, sigkill, stray, cutShort>>

DeleteSteps == PollSeesEnd \/ KillAtDeadline \/ RemoveStore

-----------------------------------------------------------------------------
(* The processes and the provider's end.                                   *)

\* The provider process that runs now ends, its goroutines and its Create with
\* it. Terraform keeps the record of a Delete.
LifeProviderEnds ==
    /\ ProviderEnds \/ UNCHANGED vars
    /\ create \in Pending => create' = "crashed"
    /\ record' = IF record = "none" THEN "none" ELSE "recorded"
    /\ cutShort' = (cutShort \/ create \in Pending)
    /\ unremoved' = (unremoved \/ create \in Pending)
    /\ UNCHANGED <<efi, foreign, store, sigkill, stray>>

\* What was sent SIGKILL can only end.
LifeProcesses ==
    /\ \/ GoroutineSteps
       \/ ~killed /\ (VfkitWrites \/ VfkitRefused)
       \/ VfkitExits
    /\ UNCHANGED <<recordVars, worldVars>>

\* The parent of an orphan is launchd, which collects it.
LaunchdReaps ==
    /\ vfkit = "zombie"
    /\ waiting = "lost"
    /\ vfkit' = "reaped"
    /\ UNCHANGED <<create, quiet, log, waiting, copier, lines, recordVars,
                   worldVars>>

\* vfkit opens its variable store, which it makes if there is none.
VfkitOpensStore ==
    /\ vfkit = "running"
    /\ ~killed
    /\ efi
    /\ store' = "own"
    /\ UNCHANGED <<vars, recordVars, sigkill, stray, cutShort>>

\* The boot disk's pool is deleted between two lives, and all that is in it.
PoolTakesStore ==
    /\ record = "none"
    /\ create \notin Pending
    /\ store' = "none"
    /\ unremoved' = FALSE
    /\ UNCHANGED <<vars, record, efi, foreign, sigkill, stray, cutShort>>

\* A vfkit of an earlier life opens its store, or ends.
StrayRuns ==
    /\ stray
    /\ \/ store' = (IF store = "none" THEN "earlier" ELSE store)
          /\ UNCHANGED stray
       \/ stray' = FALSE /\ UNCHANGED store
    /\ UNCHANGED <<vars, recordVars, sigkill, cutShort>>

LingererEnds ==
    /\ lingering
    /\ lingering' = FALSE
    /\ UNCHANGED <<vars, recordVars, killed, store, stray, cutShort>>

\* The identifier of a vfkit that ended is handed out again.
Recycle ==
    /\ record # "none"
    /\ vfkit = "reaped"
    /\ foreign' = ~foreign
    /\ UNCHANGED <<vars, record, efi, unremoved, worldVars>>

-----------------------------------------------------------------------------
LifeNext ==
    \/ LifeCreate \/ NextLife \/ ReadDrops \/ SendTerm \/ DeleteSteps
    \/ LifeProviderEnds \/ LifeProcesses
    \/ LaunchdReaps \/ VfkitOpensStore \/ PoolTakesStore
    \/ StrayRuns \/ LingererEnds \/ Recycle

\* The provider's goroutines run and its timers fire; a Delete that was started
\* goes on. Nothing is asked of vfkit, nor of who runs terraform.
LifeSpec ==
    /\ LifeInit
    /\ [][LifeNext]_lifeVars
    /\ WF_lifeVars(LifeCreate)
    /\ WF_lifeVars(LifeProcesses /\ Reap)
    /\ WF_lifeVars(LifeProcesses /\ Deliver)
    /\ WF_lifeVars(LifeProcesses /\ (CopyLine \/ CopyEnds))
    /\ WF_lifeVars(DeleteSteps)

-----------------------------------------------------------------------------
(* Properties.                                                             *)

\* A vfkit that runs and was not sent SIGKILL has a record or a Create in
\* progress: the next Create finds none on the disks it is to use, but one that
\* is ending, for Delete does not wait for the SIGKILL. Only a Create that ended
\* with the provider process leaves a vfkit that Terraform cannot reach.
NoStrayVfkit ==
    ~cutShort =>
        /\ ~stray
        /\ vfkit = "running" /\ ~killed => create \in Pending \/ record # "none"

\* The variable store is not removed under the vfkit that uses it, neither by
\* Delete nor with the pool, unless that vfkit was sent SIGKILL: again but for
\* a Create that was cut short, whose vfkit holds back nobody who deletes its
\* pool.
StoreOutlivesVfkit ==
    [][store = "own" /\ store' = "none"
           => \/ vfkit # "running" \/ killed
              \/ record = "none" /\ cutShort]_lifeVars

\* A life starts with the variable store of an earlier one only when no Delete
\* has removed that one: its record was dropped by Read, its Create failed or
\* was cut short, or the removal failed.
StoreIsFresh == store = "earlier" => unremoved \/ cutShort

\* A Delete that was started ends, unless the provider process does, although
\* the guest may ignore the request to shut down.
DeleteCompletes == record = "polling" ~> record \in {"none", "recorded"}

\* What the record of the instance promises.
Named == create \in Pending \/ record # "none"

Record == INSTANCE RecordContract WITH
    record    <- IF create \in Pending THEN "pending"
                 ELSE IF record = "none" THEN "none"
                 ELSE IF record = "recorded" THEN "kept"
                 ELSE "deleting",
    process   <- IF ~Named \/ vfkit = "none" THEN "none"
                 ELSE IF vfkit # "running" THEN "ended"
                 ELSE IF killed THEN "killed"
                 ELSE "up",
    stray     <- stray \/ (vfkit = "running" /\ ~killed /\ ~Named),
    lingering <- lingering \/ (vfkit = "running" /\ killed /\ ~Named),
    cutShort  <- cutShort

RecordKeepsContract == Record!Spec

=============================================================================
