--------------------------- MODULE MCRegistration ---------------------------
(* Registration on small instances: see the .cfg file. *)
EXTENDS Registration, TLC

CONSTANTS t1, t2, u1, u2, u3

Symmetric == Permutations(Threads) \cup Permutations(Users \ SuperAdmins)
=============================================================================
