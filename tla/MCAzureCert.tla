---------------------------- MODULE MCAzureCert ----------------------------
(* AzureCert on a small instance: see the .cfg file. *)
EXTENDS AzureCert, TLC

CONSTANTS t1, t2, h1, h2, s1

Symmetric == Permutations(Threads) \cup Permutations(Hackathons)
=============================================================================
