------------------------------ MODULE MCLogin ------------------------------
(* Login on a small instance: see the .cfg file.  One person has accounts  *)
(* at GitHub, Live and Gitcafe that share emails; another one has an       *)
(* account at QQ and a password.                                           *)
EXTENDS Login, TLC

CONSTANTS t1, t2, github, live, gitcafe, qq, mysql, e1, e2, p1, p2

MCProvider ==
    (github :> "github" @@ live :> "live" @@ gitcafe :> "gitcafe" @@
     qq :> "qq" @@ mysql :> "mysql")

MCEmailsOf ==
    (github :> {e1, e2} @@ live :> {e1} @@ gitcafe :> {e1} @@
     qq :> {} @@ mysql :> {})

MCOwner ==
    (github :> p1 @@ live :> p1 @@ gitcafe :> p1 @@ qq :> p2 @@
     mysql :> p2)

MCPresets == {[id |-> 1, openid |-> mysql]}

Symmetric == Permutations(Threads)
=============================================================================
