---------------------------- MODULE MCExperiment ----------------------------
(* Experiment on small instances: see the .cfg files. *)
EXTENDS Experiment, TLC

CONSTANTS t1, t2, t3, e1, e2, e3, u1, u2, p1, p2, h1, h2

Symmetric ==
    Permutations(Threads) \cup Permutations(Exprs) \cup Permutations(Users)
=============================================================================
