---------------------------- MODULE Registration ----------------------------
(***************************************************************************)
(* Registration for hackathons (registration/register_mgr.py), composed    *)
(* with the hackathons and administrators of Hackathons.  The registration *)
(* window is open and the column deleted is never set: nothing in the      *)
(* repository sets it.                                                     *)
(***************************************************************************)
EXTENDS Hackathons

CONSTANTS
    MaxRegistrations, \* bound: rows ever inserted into user_hackathon_rel
    OneAtATime        \* TRUE: nobody registers a user twice at a time

ASSUME RegistrationAssumption ==
    /\ MaxRegistrations \in Nat
    /\ OneAtATime \in BOOLEAN

VARIABLES
    registers   \* rows of user_hackathon_rel: id, user_id, hackathon_id

hackathonVars == <<hackathons, admins, nextAdmin, orphans>>
vars == <<hackathonVars, call, registers>>

RegisterRows == [id : Ids, user : Users, hackathon : Ids]

RegisterSteps == {"find_register", "count", "enroll"}

Steps == HackathonSteps \cup RegisterSteps

ASSUME NoneAssumption == None \notin Calls(Steps)

Init == HackathonInit /\ registers = {}

RegistersOf(h, u) == {r \in registers : r.hackathon = h /\ r.user = u}

Enrolled(h) == {r \in registers : r.hackathon = h}

Registering == {t \in Threads : call[t] # None /\ call[t].step \in RegisterSteps}

----------------------------------------------------------------------------
(* create_registration, called by the user or by an administrator          *)

EnterRegister(t, u, h, w) ==
    /\ Cardinality(registers) + Cardinality(Registering) < MaxRegistrations
    /\ Existing(h)
    /\ w = u \/ Entitled(u, h)
    /\ OneAtATime => \A x \in Registering : call[x].who # w
    /\ Request(t, [step |-> "find_register", hackathon |-> h, who |-> w,
                   row |-> None, limit |-> None])
    /\ UNCHANGED <<hackathonVars, registers>>

(* Mutant of FindRegister: no look-up.                                     *)
SkipFind(t) ==
    /\ At(t, "find_register")
    /\ Goto(t, "count")
    /\ UNCHANGED <<hackathonVars, registers>>

FindRegister(t) ==
    /\ At(t, "find_register")
    /\ IF RegistersOf(call[t].hackathon, call[t].who) = {}
       THEN Goto(t, "count")
       ELSE Answer(t)
    /\ UNCHANGED <<hackathonVars, registers>>

(* Mutant of Open: off by one.                                             *)
OpenTooLong(h) ==
    \E x \in hackathons :
        /\ x.id = h
        /\ x.limit = 0 \/ x.limit >= Cardinality(Enrolled(h))

(* check_register_enrollment *)
Open(h) ==
    \E x \in hackathons :
        /\ x.id = h
        /\ x.limit = 0 \/ x.limit > Cardinality(Enrolled(h))

CheckEnrollment(t) ==
    /\ At(t, "count")
    /\ IF Open(call[t].hackathon) THEN Goto(t, "enroll") ELSE Answer(t)
    /\ UNCHANGED <<hackathonVars, registers>>

CreateRegistration(t) ==
    /\ At(t, "enroll")
    /\ registers' = registers \cup
        {[id |-> Cardinality(registers) + 1, user |-> call[t].who,
          hackathon |-> call[t].hackathon]}
    /\ Answer(t)
    /\ UNCHANGED hackathonVars

----------------------------------------------------------------------------
Step(t) ==
    \/ HackathonStep(t) /\ UNCHANGED registers
    \/ FindRegister(t) \/ CheckEnrollment(t) \/ CreateRegistration(t)
    \/ \E u, w \in Users, h \in 1..MaxHackathons : EnterRegister(t, u, h, w)

Restart == Crash /\ UNCHANGED registers

Next == Restart \/ \E t \in Threads : Step(t)

Spec == Init /\ [][Next]_vars

----------------------------------------------------------------------------
TypeOK ==
    /\ hackathons \subseteq HackathonRows
    /\ {x.id : x \in hackathons} = 1..Cardinality(hackathons)
    /\ admins \subseteq AdminRows
    /\ nextAdmin \in Ids
    /\ \A a \in admins : a.id < nextAdmin
    /\ call \in [Threads -> Calls(Steps) \cup {None}]
    /\ orphans \subseteq Ids
    /\ registers \subseteq RegisterRows

(* check_register_enrollment counts in one transaction and the row is      *)
(* inserted in another: each thread but one may exceed the highest limit   *)
(* the hackathon has had by one row, also while administrators change it,  *)
(* and never more than that.                                               *)
EnrollmentBounded ==
    \A h \in hackathons :
        h.peak # 0 =>
            Cardinality(Enrolled(h.id)) < h.peak + Cardinality(Threads)

(* validate_created_args: "user already registered on hackathon".  Held    *)
(* while nobody registers a user twice at a time, although administrators  *)
(* register users too.                                                     *)
OneRegistration ==
    OneAtATime =>
        \A r, s \in registers :
            r.user = s.user /\ r.hackathon = s.hackathon => r = s
=============================================================================
