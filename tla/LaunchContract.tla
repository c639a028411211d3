--------------------------- MODULE LaunchContract ---------------------------
(***************************************************************************)
(* What a Create that launches a daemon promises, whichever daemon it is.  *)
(* Both Create handlers of the provider (the network's, which waits for a  *)
(* notification, and the instance's, which waits for three quiet seconds)  *)
(* implement it:                                                           *)
(*   - a record is committed only for a child that was started and gave    *)
(*     evidence that it works;                                             *)
(*   - a Create that reports an error leaves no child running;             *)
(*   - a Create whose provider survives returns.                           *)
(***************************************************************************)

VARIABLES
    outcome,    \* what Terraform learns: "pending", "committed", "failed", or
                \* "crashed" when the provider died before it answered
    proc,       \* the launched process: "none", "up", "down"
    evidence    \* TRUE once the child has shown that it came up

vars == <<outcome, proc, evidence>>

TypeOK ==
    /\ outcome \in {"pending", "committed", "failed", "crashed"}
    /\ proc \in {"none", "up", "down"}
    /\ evidence \in BOOLEAN

Init ==
    /\ outcome = "pending"
    /\ proc = "none"
    /\ evidence = FALSE

Spawn ==
    /\ outcome = "pending"
    /\ proc = "none"
    /\ proc' = "up"
    /\ UNCHANGED <<outcome, evidence>>

\* Only a running child gives evidence; it may do so for a dead provider.
Announce ==
    /\ proc = "up"
    /\ ~evidence
    /\ evidence' = TRUE
    /\ UNCHANGED <<outcome, proc>>

\* The child may end at any time: the contract does not keep it alive.
ProcEnds ==
    /\ proc = "up"
    /\ proc' = "down"
    /\ UNCHANGED <<outcome, evidence>>

\* The child may have ended since it gave its evidence.
Commit ==
    /\ outcome = "pending"
    /\ evidence
    /\ outcome' = "committed"
    /\ UNCHANGED <<proc, evidence>>

\* An error is returned only once a child that was started is down.
Fail ==
    /\ outcome = "pending"
    /\ outcome' = "failed"
    /\ proc' = IF proc = "up" THEN "down" ELSE proc
    /\ UNCHANGED evidence

\* The provider process dies; nobody stops the child.
Crash ==
    /\ outcome = "pending"
    /\ outcome' = "crashed"
    /\ UNCHANGED <<proc, evidence>>

\* The resource is created again.
Again ==
    /\ outcome # "pending"
    /\ outcome' = "pending"
    /\ proc' = "none"
    /\ evidence' = FALSE

Next == Spawn \/ Announce \/ ProcEnds \/ Commit \/ Fail \/ Crash \/ Again

\* A Create that is not cut short returns.
Spec == Init /\ [][Next]_vars /\ WF_vars(Commit \/ Fail)

=============================================================================
