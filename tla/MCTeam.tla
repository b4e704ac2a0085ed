------------------------------- MODULE MCTeam -------------------------------
(* Team on small instances: see the .cfg files. *)
EXTENDS Team, TLC

CONSTANTS t1, t2, u1, u2, u3, n1, n2

Symmetric ==
    Permutations(Threads) \cup Permutations(Names) \cup Permutations(Users)
=============================================================================
