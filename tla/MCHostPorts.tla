---------------------------- MODULE MCHostPorts ----------------------------
(* HostPorts on small instances: see the .cfg files. *)
EXTENDS HostPorts, TLC

CONSTANTS t1, t2, e1, e2, e3, h1

(* Both ports of a template are looked for from the same number upwards.   *)
MCWanted == [i \in 1..NumPorts |-> 1]

Symmetric == Permutations(Threads) \cup Permutations(Exprs)
=============================================================================
