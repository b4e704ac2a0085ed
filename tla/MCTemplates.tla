---------------------------- MODULE MCTemplates ----------------------------
(* Templates on a small instance: see the .cfg file. *)
EXTENDS Templates

CONSTANTS t1, t2, n1
=============================================================================
