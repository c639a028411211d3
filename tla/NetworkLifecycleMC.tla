-------------------------- MODULE NetworkLifecycleMC --------------------------
(* Two networks and two identifiers that recur: a runner may be still       *)
(* shutting down while the next one of its network starts, or its           *)
(* identifier may come to name the other network's runner.                  *)
EXTENDS NetworkLifecycle

CONSTANTS n1, n2, p1, p2

MCNetwork == {n1, n2}
MCPid == {p1, p2}

=============================================================================
