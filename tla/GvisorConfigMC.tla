---------------------------- MODULE GvisorConfigMC ----------------------------
(* Values of one kind are alike.                                           *)
EXTENDS GvisorConfig, TLC

Alike == UNION {Permutations(S) : S \in {Mac, Ip, Name, Host, Vm}}
=============================================================================
