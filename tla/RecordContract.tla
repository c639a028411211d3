---------------------------- MODULE RecordContract ----------------------------
(***************************************************************************)
(* What the record of a daemon promises over the life of a resource, from  *)
(* one Create to the next and whichever daemon it is. Terraform reaches a  *)
(* process only through the record that names it, so that                  *)
(*   - a Read drops a record only after its process has ended, a Delete     *)
(*     only after it has ended or was sent SIGKILL;                        *)
(*   - a Create that fails takes the process it started along;             *)
(*   - no process is started for a resource that has a record;             *)
(*   - a process that no record names and that was not sent SIGKILL is left *)
(*     by a Create that ended with the provider process, and by nothing     *)
(*     else.                                                               *)
(* Nobody waits for the end of a process that a Delete sent SIGKILL: it may *)
(* linger while the next Create of the resource runs.                      *)
(*                                                                         *)
(* NetworkLifecycle implements it for every network, InstanceLifecycle for *)
(* its instance.                                                           *)
(***************************************************************************)

VARIABLES
    record,     \* "none", "pending" during a Create, "kept", "deleting"
    process,    \* the process that record or Create names: "none" so far, "up",
                \* "killed" (sent SIGKILL and not ended yet), or "ended"
    stray,      \* TRUE while a process of the resource runs that nothing names
                \* and that was not sent SIGKILL
    lingering,  \* TRUE while a process that nothing names is "killed"
    cutShort    \* TRUE once a Create ended with the provider process

vars == <<record, process, stray, lingering, cutShort>>
others == <<stray, lingering>>

Init ==
    /\ record \in {"none", "pending"}
    /\ process = "none"
    /\ stray = FALSE
    /\ lingering = FALSE
    /\ cutShort = FALSE

\* The process may be started with the Create or later in it.
Begin ==
    /\ record = "none"
    /\ record' = "pending"
    /\ process' \in {"none", "up"}
    /\ UNCHANGED <<others, cutShort>>

Start ==
    /\ record = "pending"
    /\ process = "none"
    /\ process' = "up"
    /\ UNCHANGED <<record, others, cutShort>>

\* The process may have ended already.
Keep ==
    /\ record = "pending"
    /\ process # "none"
    /\ record' = "kept"
    /\ UNCHANGED <<process, others, cutShort>>

\* Nothing is left running, hence stray and lingering do not change.
Fail ==
    /\ record = "pending"
    /\ record' = "none"
    /\ process' = "none"
    /\ UNCHANGED <<others, cutShort>>

ReadDrops ==
    /\ record = "kept"
    /\ process = "ended"
    /\ record' = "none"
    /\ process' = "none"
    /\ UNCHANGED <<others, cutShort>>

Delete ==
    /\ record = "kept"
    /\ record' = "deleting"
    /\ UNCHANGED <<process, others, cutShort>>

DeleteDrops ==
    /\ record = "deleting"
    /\ process \in {"killed", "ended"}
    /\ record' = "none"
    /\ process' = "none"
    /\ lingering' = (lingering \/ process = "killed")
    /\ UNCHANGED <<stray, cutShort>>

\* The provider process ends during a Delete: Terraform keeps the record.
DeleteCutShort ==
    /\ record = "deleting"
    /\ record' = "kept"
    /\ UNCHANGED <<process, others, cutShort>>

\* The provider process ends during a Create.
CreateCutShort ==
    /\ record = "pending"
    /\ record' = "none"
    /\ process' = "none"
    /\ stray' = (stray \/ process = "up")
    /\ lingering' = (lingering \/ process = "killed")
    /\ cutShort' = TRUE

\* SIGKILL, and the end of a process, which may come without it.
Kill ==
    /\ process = "up"
    /\ process' = "killed"
    /\ UNCHANGED <<record, others, cutShort>>

End ==
    /\ process \in {"up", "killed"}
    /\ process' = "ended"
    /\ UNCHANGED <<record, others, cutShort>>

\* The same for the processes that nothing names, of which there may be more.
StrayKilled ==
    /\ stray
    /\ stray' \in BOOLEAN
    /\ lingering' = TRUE
    /\ UNCHANGED <<record, process, cutShort>>

StrayEnds ==
    /\ stray
    /\ stray' = FALSE
    /\ UNCHANGED <<record, process, lingering, cutShort>>

LingererEnds ==
    /\ lingering
    /\ lingering' = FALSE
    /\ UNCHANGED <<record, process, stray, cutShort>>

Next ==
    \/ Begin \/ Start \/ Keep \/ Fail \/ ReadDrops
    \/ Delete \/ DeleteDrops \/ DeleteCutShort \/ CreateCutShort
    \/ Kill \/ End \/ StrayKilled \/ StrayEnds \/ LingererEnds

Spec == Init /\ [][Next]_vars

=============================================================================
