----------------------------- MODULE Hackathons -----------------------------
(***************************************************************************)
(* Hackathons and their administrators (hack/hackathon_manager.py and      *)
(* hack/admin_manager.py).  Every query and every insert or delete is a    *)
(* transaction of its own.  The hackathon with the id -1, whose            *)
(* administrators are entitled to everything, is the constant SuperAdmins. *)
(***************************************************************************)
EXTENDS Integers, FiniteSets

CONSTANTS
    Threads,       \* threads of the server process
    Users,         \* users of the system
    SuperAdmins,   \* users with an administrator row of hackathon -1
    Limits,        \* values of max_enrollment, 0 for no limit
    MaxHackathons, \* bound: rows ever inserted into hackathon
    MaxAdmins,     \* bound: rows ever inserted into admin_hackathon_rel
    CanRestart,    \* TRUE: the server process may crash and restart
    None

ASSUME HackathonsAssumption ==
    /\ IsFiniteSet(Threads) /\ Threads # {}
    /\ SuperAdmins \subseteq Users
    /\ Limits \subseteq Nat
    /\ MaxHackathons \in Nat
    /\ MaxAdmins \in Nat
    /\ CanRestart \in BOOLEAN
    /\ None \notin Nat

VARIABLES
    hackathons, \* rows of hackathon: id, creator_id, max_enrollment, and, as
                \* history, the highest max_enrollment the row has had
    admins,     \* rows of admin_hackathon_rel: id, user_id, hackathon_id
    nextAdmin,  \* AUTO_INCREMENT of admin_hackathon_rel
    call,       \* call[t]: the request t serves and its next transaction
    orphans     \* history: hackathons whose creation failed half way

Ids == Nat \ {0}

HackathonRows == [id : Ids, creator : Users, limit : Limits, peak : Limits]

AdminRows == [id : Ids, user : Users, hackathon : Ids]

(* step: the next transaction; hackathon: id of g.hackathon or of the new  *)
(* row; who: the user the request is about; row: the id of the             *)
(* administrator the request names; limit: the new max_enrollment.         *)
Calls(steps) ==
    [step : steps, hackathon : Ids \cup {None}, who : Users \cup {None},
     row : Ids \cup {None}, limit : Limits \cup {None}]

HackathonSteps ==
    {"insert", "creator", "update", "find_admin", "add_admin", "find_rel",
     "delete_rel"}

HackathonInit ==
    /\ hackathons = {} /\ admins = {} /\ nextAdmin = 1
    /\ call = [t \in Threads |-> None]
    /\ orphans = {}

Request(t, c) ==
    /\ call[t] = None
    /\ call' = [call EXCEPT ![t] = c]

Goto(t, step) == call' = [call EXCEPT ![t].step = step]

Answer(t) == call' = [call EXCEPT ![t] = None]

At(t, step) == call[t] # None /\ call[t].step = step

Existing(h) == \E x \in hackathons : x.id = h

AdminsOf(h, u) == {a \in admins : a.hackathon = h /\ a.user = u}

(* validate_admin_privilege, as the decorator of an administrator's call   *)
Entitled(u, h) == u \in SuperAdmins \/ AdminsOf(h, u) # {}

(* Mutant of InsertAdmin: the id is handed out again.                      *)
InsertSameId(h, u) ==
    /\ admins' = admins \cup {[id |-> nextAdmin, user |-> u, hackathon |-> h]}
    /\ UNCHANGED nextAdmin

InsertAdmin(h, u) ==
    /\ admins' = admins \cup {[id |-> nextAdmin, user |-> u, hackathon |-> h]}
    /\ nextAdmin' = nextAdmin + 1

(* Bound: room for one more administrator besides those being inserted.    *)
Inserting ==
    {t \in Threads : call[t] # None /\
        call[t].step \in {"insert", "creator", "find_admin", "add_admin"}}

RoomForAdmin == nextAdmin + Cardinality(Inserting) <= MaxAdmins

----------------------------------------------------------------------------
(* create_new_hackathon: the name has been looked up, and is free          *)

EnterCreate(t, u) ==
    /\ RoomForAdmin
    /\ Cardinality(hackathons) +
           Cardinality({x \in Threads : At(x, "insert")}) < MaxHackathons
    /\ Request(t, [step |-> "insert", hackathon |-> None, who |-> u,
                   row |-> None, limit |-> None])
    /\ UNCHANGED <<hackathons, admins, nextAdmin, orphans>>

(* The default basic_info, whose max_enrollment is configured.             *)
InsertHackathon(t) ==
    /\ At(t, "insert")
    /\ LET h == Cardinality(hackathons) + 1
       IN  /\ \E l \in Limits :
                hackathons' = hackathons \cup
                    {[id |-> h, creator |-> call[t].who, limit |-> l,
                      peak |-> l]}
           /\ call' = [call EXCEPT ![t].step = "creator", ![t].hackathon = h]
    /\ UNCHANGED <<admins, nextAdmin, orphans>>

(* The insert of the administrator may fail; the hackathon stays.          *)
InsertCreator(t) ==
    /\ At(t, "creator")
    /\ \/ /\ InsertAdmin(call[t].hackathon, call[t].who)
          /\ UNCHANGED orphans
       \/ /\ orphans' = orphans \cup {call[t].hackathon}
          /\ UNCHANGED <<admins, nextAdmin>>
    /\ Answer(t)
    /\ UNCHANGED hackathons

----------------------------------------------------------------------------
(* update_hackathon: creator_id and id are never among the updated items   *)

EnterUpdate(t, u, h, l) ==
    /\ Existing(h) /\ Entitled(u, h)
    /\ Request(t, [step |-> "update", hackathon |-> h, who |-> None,
                   row |-> None, limit |-> l])
    /\ UNCHANGED <<hackathons, admins, nextAdmin, orphans>>

(* The higher of two limits, of which 0 means none.                        *)
Higher(l, m) == IF l = 0 \/ m = 0 THEN 0 ELSE IF l > m THEN l ELSE m

UpdateHackathon(t) ==
    /\ At(t, "update")
    /\ hackathons' = {IF x.id = call[t].hackathon
                      THEN [x EXCEPT !.limit = call[t].limit,
                                     !.peak = Higher(x.peak, call[t].limit)]
                      ELSE x : x \in hackathons}
    /\ Answer(t)
    /\ UNCHANGED <<admins, nextAdmin, orphans>>

----------------------------------------------------------------------------
(* add_admin *)

EnterAdd(t, u, h, w) ==
    /\ RoomForAdmin
    /\ Existing(h) /\ Entitled(u, h)
    /\ Request(t, [step |-> "find_admin", hackathon |-> h, who |-> w,
                   row |-> None, limit |-> None])
    /\ UNCHANGED <<hackathons, admins, nextAdmin, orphans>>

(* Mutant of FindAdmin: no look-up.                                        *)
AddAgain(t) ==
    /\ At(t, "find_admin")
    /\ Goto(t, "add_admin")
    /\ UNCHANGED <<hackathons, admins, nextAdmin, orphans>>

FindAdmin(t) ==
    /\ At(t, "find_admin")
    /\ IF AdminsOf(call[t].hackathon, call[t].who) = {}
       THEN Goto(t, "add_admin")
       ELSE Answer(t)
    /\ UNCHANGED <<hackathons, admins, nextAdmin, orphans>>

AddAdmin(t) ==
    /\ At(t, "add_admin")
    /\ InsertAdmin(call[t].hackathon, call[t].who)
    /\ Answer(t)
    /\ UNCHANGED <<hackathons, orphans>>

----------------------------------------------------------------------------
(* delete_admin: the row is named by its id, of whichever hackathon        *)

EnterDelete(t, u, h, a) ==
    /\ Existing(h) /\ Entitled(u, h)
    /\ Request(t, [step |-> "find_rel", hackathon |-> h, who |-> None,
                   row |-> a, limit |-> None])
    /\ UNCHANGED <<hackathons, admins, nextAdmin, orphans>>

IsCreator(a) ==
    \E h \in hackathons : h.id = a.hackathon /\ h.creator = a.user

(* Mutant of FindDeletable: the creator is not looked for.                 *)
FindAny(t) ==
    /\ At(t, "find_rel")
    /\ IF \E a \in admins : a.id = call[t].row
       THEN Goto(t, "delete_rel")
       ELSE Answer(t)
    /\ UNCHANGED <<hackathons, admins, nextAdmin, orphans>>

FindDeletable(t) ==
    /\ At(t, "find_rel")
    /\ IF \E a \in admins : a.id = call[t].row /\ ~IsCreator(a)
       THEN Goto(t, "delete_rel")
       ELSE Answer(t)
    /\ UNCHANGED <<hackathons, admins, nextAdmin, orphans>>

DeleteAdmin(t) ==
    /\ At(t, "delete_rel")
    /\ admins' = {a \in admins : a.id # call[t].row}
    /\ Answer(t)
    /\ UNCHANGED <<hackathons, nextAdmin, orphans>>

----------------------------------------------------------------------------
HackathonStep(t) ==
    \/ InsertHackathon(t) \/ InsertCreator(t) \/ UpdateHackathon(t)
    \/ FindAdmin(t) \/ AddAdmin(t) \/ FindDeletable(t) \/ DeleteAdmin(t)
    \/ \E u \in Users : EnterCreate(t, u)
    \/ \E u \in Users, h \in 1..MaxHackathons :
        \/ \E l \in Limits : EnterUpdate(t, u, h, l)
        \/ \E w \in Users : EnterAdd(t, u, h, w)
        \/ \E a \in 1..(nextAdmin - 1) : EnterDelete(t, u, h, a)

(* A crash drops every call; a hackathon without its creator stays so.     *)
Crash ==
    /\ CanRestart
    /\ \E t \in Threads : call[t] # None
    /\ call' = [t \in Threads |-> None]
    /\ orphans' = orphans \cup
        {call[t].hackathon : t \in {x \in Threads : At(x, "creator")}}
    /\ UNCHANGED <<hackathons, admins, nextAdmin>>

----------------------------------------------------------------------------
(* The creator of a hackathon administers it from the end of its creation  *)
(* on, whatever is added, deleted and updated: delete_admin's docstring    *)
(* says "creator of the hackathon cannot be deleted".  The exceptions are  *)
(* creations that failed, or crashed, between the two inserts.             *)
CreatorIsAdmin ==
    \A x \in hackathons :
        \/ x.id \in orphans
        \/ \E t \in Threads : At(t, "creator") /\ call[t].hackathon = x.id
        \/ AdminsOf(x.id, x.creator) # {}

(* add_admin looks for a row before it inserts one, in another transaction,*)
(* and no constraint backs it up: a user has at most as many rows of one   *)
(* hackathon as there are threads, and the creator one of them.            *)
AdminRowsBounded ==
    \A x \in hackathons, u \in Users :
        Cardinality(AdminsOf(x.id, u)) <= Cardinality(Threads)
=============================================================================
