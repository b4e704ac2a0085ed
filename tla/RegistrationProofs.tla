------------------------- MODULE RegistrationProofs -------------------------
(***************************************************************************)
(* Registration, for any number of threads, users, hackathons and rows:    *)
(* types, and the promises of hackathons, administrators and registrations.*)
(***************************************************************************)
EXTENDS Registration, FiniteSetTheorems, FunctionTheorems, TLAPS

----------------------------------------------------------------------------
(* Types *)

HackathonsOK ==
    /\ hackathons \subseteq HackathonRows
    /\ IsFiniteSet(hackathons)
    /\ {x.id : x \in hackathons} = 1..Cardinality(hackathons)
    /\ \A x, y \in hackathons : x.id = y.id => x = y

AdminsOK ==
    /\ admins \subseteq AdminRows
    /\ IsFiniteSet(admins)
    /\ nextAdmin \in Ids
    /\ \A a \in admins : a.id < nextAdmin
    /\ \A a, b \in admins : a.id = b.id => a = b
    /\ \A a \in admins : Existing(a.hackathon)

RegistersOK ==
    /\ registers \subseteq RegisterRows
    /\ IsFiniteSet(registers)
    /\ \A r \in registers : Existing(r.hackathon)

(* What a request holds at its next step. *)
Fits(c) ==
    /\ c.step \notin {"update", "find_rel", "delete_rel"} => c.who \in Users
    /\ c.step # "insert" => Existing(c.hackathon)
    /\ c.step = "creator" =>
         \E x \in hackathons : x.id = c.hackathon /\ x.creator = c.who
    /\ c.step \in {"find_rel", "delete_rel"} => c.row \in 1..(nextAdmin - 1)
    /\ c.step = "update" => c.limit \in Limits

CallsOK ==
    /\ call \in [Threads -> Calls(Steps) \cup {None}]
    /\ \A t \in Threads : call[t] # None => Fits(call[t])

TypeInv ==
    /\ HackathonsOK /\ AdminsOK /\ RegistersOK /\ CallsOK
    /\ orphans \subseteq Ids

LEMMA TypeInvInit == Init => TypeInv
  <1> SUFFICES ASSUME Init PROVE TypeInv
    OBVIOUS
  <1>1. IsFiniteSet({}) /\ Cardinality({}) = 0
    BY FS_EmptySet
  <1>2. HackathonsOK
    BY <1>1 DEF Init, HackathonInit, HackathonsOK
  <1> QED
    BY <1>1, <1>2 DEF Init, HackathonInit, TypeInv, AdminsOK, RegistersOK,
       CallsOK, Ids

LEMMA IntervalGrows ==
    \A m, n \in Nat : n >= m => \A i \in 1..(m - 1) : i \in 1..(n - 1)
  OBVIOUS

(* A call that is new or moves on, where hackathons stay. *)
LEMMA CallMoves ==
    ASSUME TypeInv, NEW t \in Threads, UNCHANGED hackathons,
           nextAdmin' \in Ids, nextAdmin' >= nextAdmin,
           NEW c \in Calls(Steps) \cup {None},
           c # None => Fits(c),
           call' = [call EXCEPT ![t] = c]
    PROVE  CallsOK'
  <1> USE DEF TypeInv
  <1>1. call' \in [Threads -> Calls(Steps) \cup {None}]
    BY DEF CallsOK
  <1>2. ASSUME NEW s \in Threads, call[s]' # None PROVE Fits(call[s])'
    <2>1. \E d : d = call[s]' /\ Fits(d)
      BY <1>2 DEF CallsOK
    <2>2. PICK d : d = call[s]' /\ Fits(d)
      BY <2>1
    <2>3. nextAdmin \in Nat /\ nextAdmin' \in Nat
      BY DEF AdminsOK, Ids
    <2>5. \A i \in 1..(nextAdmin - 1) : i \in 1..(nextAdmin' - 1)
      BY <2>3, IntervalGrows
    <2> QED BY <2>2, <2>5 DEF Fits, Existing
  <1> QED BY <1>1, <1>2 DEF CallsOK

LEMMA GotoOK ==
    ASSUME TypeInv, NEW t \in Threads, UNCHANGED hackathons,
           nextAdmin' \in Ids, nextAdmin' >= nextAdmin,
           call[t] # None, NEW step \in Steps \ {"insert", "creator", "update"},
           step \notin {"find_rel", "delete_rel"} => call[t].who \in Users,
           step \in {"find_rel", "delete_rel"} =>
               call[t].row \in 1..(nextAdmin - 1),
           call[t].step # "insert",
           Goto(t, step)
    PROVE  CallsOK'
  <1> DEFINE c == [call[t] EXCEPT !.step = step]
  <1>1. call[t] \in Calls(Steps) /\ Fits(call[t])
    BY DEF TypeInv, CallsOK
  <1>2. c \in Calls(Steps) /\ c.step = step /\ c.who = call[t].who
        /\ c.row = call[t].row /\ c.hackathon = call[t].hackathon
    BY <1>1 DEF Calls
  <1>3. Fits(c)
    BY <1>1, <1>2 DEF Fits
  <1>4. call' = [call EXCEPT ![t] = c]
    BY DEF Goto
  <1> HIDE DEF c
  <1> QED BY <1>2, <1>3, <1>4, CallMoves

LEMMA AnswerOK ==
    ASSUME TypeInv, NEW t \in Threads, UNCHANGED hackathons,
           nextAdmin' \in Ids, nextAdmin' >= nextAdmin, Answer(t)
    PROVE  CallsOK'
  BY CallMoves DEF Answer

LEMMA RequestOK ==
    ASSUME TypeInv, NEW t \in Threads, UNCHANGED <<hackathons, nextAdmin>>,
           NEW c \in Calls(Steps), Fits(c), Request(t, c)
    PROVE  CallsOK'
  <1>1. nextAdmin' \in Ids /\ nextAdmin' >= nextAdmin
    BY DEF TypeInv, AdminsOK, Ids
  <1> QED BY <1>1, CallMoves DEF Request

(* At its step, what a call is like. *)
LEMMA AtFits ==
    ASSUME TypeInv, NEW t \in Threads, NEW step, At(t, step)
    PROVE  /\ call[t] # None /\ call[t] \in Calls(Steps)
           /\ call[t].step = step /\ Fits(call[t])
  BY DEF At, TypeInv, CallsOK

(* A row of an administrator is inserted. *)
LEMMA InsertAdminOK ==
    ASSUME TypeInv, NEW h \in Ids, NEW u \in Users, Existing(h),
           UNCHANGED hackathons, InsertAdmin(h, u)
    PROVE  AdminsOK' /\ nextAdmin' \in Ids /\ nextAdmin' >= nextAdmin
  <1> DEFINE a == [id |-> nextAdmin, user |-> u, hackathon |-> h]
  <1>1. a \in AdminRows
    BY DEF TypeInv, AdminsOK, AdminRows
  <1>2. IsFiniteSet(admins')
    BY FS_AddElement DEF InsertAdmin, TypeInv, AdminsOK
  <1>3. \A b \in admins' : b.id < nextAdmin'
    BY DEF InsertAdmin, TypeInv, AdminsOK, Ids, AdminRows
  <1>4. \A b, d \in admins' : b.id = d.id => b = d
    BY DEF InsertAdmin, TypeInv, AdminsOK, Ids, AdminRows
  <1>5. \A b \in admins' : Existing(b.hackathon)'
    BY DEF InsertAdmin, TypeInv, AdminsOK, Existing
  <1> QED
    BY <1>1, <1>2, <1>3, <1>4, <1>5 DEF InsertAdmin, TypeInv, AdminsOK, Ids

----------------------------------------------------------------------------
(* Types: the steps *)

LEMMA CreateTypes ==
    ASSUME TypeInv, NEW t \in Threads, NEW u \in Users,
           EnterCreate(t, u), UNCHANGED registers
    PROVE  TypeInv'
  <1> DEFINE c == [step |-> "insert", hackathon |-> None, who |-> u,
                   row |-> None, limit |-> None]
  <1>1. c \in Calls(Steps) /\ Fits(c)
    BY DEF Calls, Fits, Steps, HackathonSteps
  <1>2. UNCHANGED <<hackathons, admins, nextAdmin, orphans>> /\ Request(t, c)
    BY DEF EnterCreate
  <1>3. CallsOK'
    <2> HIDE DEF c
    <2> QED BY <1>1, <1>2, RequestOK
  <1> QED
    BY <1>2, <1>3 DEF TypeInv, HackathonsOK, AdminsOK, RegistersOK, Existing

LEMMA InsertHackathonTypes ==
    ASSUME TypeInv, NEW t \in Threads, InsertHackathon(t), UNCHANGED registers
    PROVE  TypeInv'
  <1> DEFINE h == Cardinality(hackathons) + 1
  <1>1. call[t] # None /\ call[t] \in Calls(Steps) /\ call[t].who \in Users
    BY AtFits DEF InsertHackathon, Fits
  <1>2. PICK l \in Limits : hackathons' = hackathons \cup
            {[id |-> h, creator |-> call[t].who, limit |-> l, peak |-> l]}
    BY DEF InsertHackathon
  <1> DEFINE x == [id |-> h, creator |-> call[t].who, limit |-> l, peak |-> l]
  <1>3. Cardinality(hackathons) \in Nat
    BY FS_CardinalityType DEF TypeInv, HackathonsOK
  <1>4. h \in Ids /\ x \in HackathonRows
    BY <1>1, <1>3 DEF HackathonRows, Ids
  <1>5. \A y \in hackathons : y.id \in 1..Cardinality(hackathons)
    BY DEF TypeInv, HackathonsOK
  <1>6. x \notin hackathons
    BY <1>3, <1>5
  <1>7. IsFiniteSet(hackathons') /\ Cardinality(hackathons') = h
    BY <1>2, <1>6, FS_AddElement DEF TypeInv, HackathonsOK
  <1>8. {y.id : y \in hackathons'} = 1..h
    <2>1. hackathons' = hackathons \cup {x} /\ x.id = h
      BY <1>2
    <2> HIDE DEF x, h
    <2>2. {y.id : y \in hackathons'} = {y.id : y \in hackathons} \cup {h}
      BY <2>1
    <2>3. h = Cardinality(hackathons) + 1
      BY DEF h
    <2> QED BY <2>2, <2>3, <1>3 DEF TypeInv, HackathonsOK
  <1>9. \A y, z \in hackathons' : y.id = z.id => y = z
    <2>1. \A y \in hackathons : y.id # h
      BY <1>3, <1>5
    <2> QED BY <2>1, <1>2 DEF TypeInv, HackathonsOK
  <1>10. HackathonsOK'
    BY <1>2, <1>4, <1>7, <1>8, <1>9 DEF TypeInv, HackathonsOK
  <1>11. \A i : Existing(i) => Existing(i)'
    BY <1>2 DEF Existing
  <1>12. AdminsOK' /\ RegistersOK' /\ (orphans \subseteq Ids)'
    BY <1>11 DEF TypeInv, AdminsOK, RegistersOK, InsertHackathon
  <1>13. CallsOK'
    <2> DEFINE c == [call[t] EXCEPT !.step = "creator", !.hackathon = h]
    <2>1. call' = [call EXCEPT ![t] = c]
      BY <1>1 DEF InsertHackathon, Calls
    <2>2. /\ c \in Calls(Steps) /\ c.step = "creator"
          /\ c.hackathon = h /\ c.who = call[t].who
      BY <1>1, <1>4 DEF Calls, Steps, HackathonSteps
    <2>3. ASSUME NEW s \in Threads, call[s]' # None PROVE Fits(call[s])'
      <3>1. CASE s = t
        <4>1. call[s]' = c
          BY <2>1, <3>1 DEF TypeInv, CallsOK
        <4>2. \E y \in hackathons' : y.id = h /\ y.creator = call[t].who
          <5>1. x \in hackathons' /\ x.id = h /\ x.creator = call[t].who
            BY <1>2
          <5> QED BY <5>1
        <4> HIDE DEF c, h
        <4> QED BY <1>1, <2>2, <4>1, <4>2 DEF Fits, Existing
      <3>2. CASE s # t
        <4>1. call[s]' = call[s]
          BY <2>1, <3>2 DEF TypeInv, CallsOK
        <4>2. Fits(call[s])
          BY <4>1, <2>3 DEF TypeInv, CallsOK
        <4>3. nextAdmin' = nextAdmin
          BY DEF InsertHackathon
        <4>4. hackathons \subseteq hackathons'
          BY <1>2
        <4> QED BY <4>1, <4>2, <4>3, <4>4 DEF Fits, Existing
      <3> QED BY <3>1, <3>2
    <2>4. call' \in [Threads -> Calls(Steps) \cup {None}]
      <3> HIDE DEF c
      <3> QED BY <2>1, <2>2 DEF TypeInv, CallsOK
    <2> QED BY <2>3, <2>4 DEF CallsOK
  <1> QED
    BY <1>10, <1>12, <1>13 DEF TypeInv

LEMMA InsertCreatorTypes ==
    ASSUME TypeInv, NEW t \in Threads, InsertCreator(t), UNCHANGED registers
    PROVE  TypeInv'
  <1>1. /\ call[t] \in Calls(Steps) /\ call[t].who \in Users
        /\ Existing(call[t].hackathon)
    BY AtFits DEF InsertCreator, Fits
  <1>2. call[t].hackathon \in Ids
    BY <1>1 DEF Existing, TypeInv, HackathonsOK, HackathonRows
  <1>3. AdminsOK' /\ nextAdmin' \in Ids /\ nextAdmin' >= nextAdmin
    <2>1. CASE InsertAdmin(call[t].hackathon, call[t].who)
      BY <1>1, <1>2, <2>1, InsertAdminOK DEF InsertCreator
    <2>2. CASE UNCHANGED <<admins, nextAdmin>>
      BY <2>2 DEF InsertCreator, TypeInv, AdminsOK, Ids, Existing
    <2> QED BY <2>1, <2>2 DEF InsertCreator
  <1>4. CallsOK'
    BY <1>3, AnswerOK DEF InsertCreator
  <1>5. (orphans \subseteq Ids)'
    BY <1>2 DEF InsertCreator, TypeInv
  <1> QED
    BY <1>3, <1>4, <1>5
    DEF InsertCreator, TypeInv, HackathonsOK, RegistersOK, Existing

LEMMA UpdateHackathonTypes ==
    ASSUME TypeInv, NEW t \in Threads, UpdateHackathon(t), UNCHANGED registers
    PROVE  TypeInv'
  <1> DEFINE l == call[t].limit
             F(x) == IF x.id = call[t].hackathon
                     THEN [x EXCEPT !.limit = l, !.peak = Higher(x.peak, l)]
                     ELSE x
             f == [x \in hackathons |-> F(x)]
  <1>1. l \in Limits
    BY AtFits DEF UpdateHackathon, Fits
  <1>2. hackathons' = {F(x) : x \in hackathons}
    BY DEF UpdateHackathon
  <1>3. \A x \in hackathons : /\ F(x) \in HackathonRows /\ F(x).id = x.id
                              /\ F(x).creator = x.creator
    <2> SUFFICES ASSUME NEW x \in hackathons
                 PROVE  /\ F(x) \in HackathonRows /\ F(x).id = x.id
                        /\ F(x).creator = x.creator
      OBVIOUS
    <2>1. x \in HackathonRows /\ Higher(x.peak, l) \in Limits
      BY <1>1 DEF TypeInv, HackathonsOK, HackathonRows, Higher
    <2> HIDE DEF l
    <2> QED BY <1>1, <2>1 DEF HackathonRows
  <1> HIDE DEF F
  <1>4. f \in Surjection(hackathons, hackathons')
    BY <1>2 DEF Surjection
  <1>5. f \in Injection(hackathons, hackathons')
    BY <1>2, <1>3 DEF Injection, IsInjective, TypeInv, HackathonsOK
  <1>6. /\ IsFiniteSet(hackathons')
        /\ Cardinality(hackathons') = Cardinality(hackathons)
    BY <1>4, <1>5, FS_Surjection DEF TypeInv, HackathonsOK
  <1>7. {x.id : x \in hackathons'} = {x.id : x \in hackathons}
    BY <1>2, <1>3
  <1>8. HackathonsOK'
    BY <1>2, <1>3, <1>6, <1>7 DEF TypeInv, HackathonsOK
  <1>9. \A h : Existing(h) => Existing(h)'
    BY <1>2, <1>3 DEF Existing
  <1>10. AdminsOK' /\ RegistersOK' /\ (orphans \subseteq Ids)'
    BY <1>9 DEF TypeInv, AdminsOK, RegistersOK, UpdateHackathon
  <1>11. CallsOK'
    <2>1. call' = [call EXCEPT ![t] = None] /\ nextAdmin' = nextAdmin
      BY DEF UpdateHackathon, Answer
    <2>2. ASSUME NEW s \in Threads, call[s]' # None PROVE Fits(call[s])'
      <3>1. call[s]' = call[s] /\ Fits(call[s])
        BY <2>1, <2>2 DEF TypeInv, CallsOK
      <3>2. \A h, u : (\E x \in hackathons : x.id = h /\ x.creator = u) =>
                      (\E x \in hackathons' : x.id = h /\ x.creator = u)
        BY <1>2, <1>3
      <3> QED BY <3>1, <3>2, <2>1, <1>9 DEF Fits
    <2> QED BY <2>1, <2>2 DEF TypeInv, CallsOK
  <1> QED
    BY <1>8, <1>10, <1>11 DEF TypeInv

(* Where no row of a hackathon changes, the administrators' rows and the   *)
(* calls are what is left to show.                                         *)
LEMMA TablesKept ==
    ASSUME TypeInv, UNCHANGED <<hackathons, orphans>>,
           UNCHANGED <<admins, nextAdmin>> \/ AdminsOK',
           UNCHANGED registers \/ RegistersOK',
           CallsOK'
    PROVE  TypeInv'
  BY DEF TypeInv, HackathonsOK, AdminsOK, RegistersOK, Existing

LEMMA NextAdminKept ==
    ASSUME TypeInv, UNCHANGED nextAdmin
    PROVE  nextAdmin' \in Ids /\ nextAdmin' >= nextAdmin
  BY DEF TypeInv, AdminsOK, Ids

LEMMA EnterTypes ==
    ASSUME TypeInv, NEW t \in Threads, NEW u \in Users,
           NEW h \in 1..MaxHackathons, UNCHANGED registers,
           \/ \E l \in Limits : EnterUpdate(t, u, h, l)
           \/ \E w \in Users : EnterAdd(t, u, h, w)
           \/ \E a \in 1..(nextAdmin - 1) : EnterDelete(t, u, h, a)
    PROVE  TypeInv'
  <1> USE DEF Calls, Steps, HackathonSteps
  <1>0. h \in Ids
    BY HackathonsAssumption DEF Ids
  <1>1. ASSUME NEW l \in Limits, EnterUpdate(t, u, h, l) PROVE TypeInv'
    <2> DEFINE c == [step |-> "update", hackathon |-> h, who |-> None,
                     row |-> None, limit |-> l]
    <2>1. c \in Calls(Steps) /\ (Existing(h) => Fits(c))
      BY <1>0 DEF Fits
    <2> HIDE DEF c
    <2>2. CallsOK'
      BY <1>1, <2>1, RequestOK DEF EnterUpdate, c
    <2> QED BY <1>1, <2>2, TablesKept DEF EnterUpdate
  <1>2. ASSUME NEW w \in Users, EnterAdd(t, u, h, w) PROVE TypeInv'
    <2> DEFINE c == [step |-> "find_admin", hackathon |-> h, who |-> w,
                     row |-> None, limit |-> None]
    <2>1. c \in Calls(Steps) /\ (Existing(h) => Fits(c))
      BY <1>0 DEF Fits
    <2> HIDE DEF c
    <2>2. CallsOK'
      BY <1>2, <2>1, RequestOK DEF EnterAdd, c
    <2> QED BY <1>2, <2>2, TablesKept DEF EnterAdd
  <1>3. ASSUME NEW a \in 1..(nextAdmin - 1), EnterDelete(t, u, h, a)
        PROVE  TypeInv'
    <2> DEFINE c == [step |-> "find_rel", hackathon |-> h, who |-> None,
                     row |-> a, limit |-> None]
    <2>0. a \in Ids
      BY DEF TypeInv, AdminsOK, Ids
    <2>1. c \in Calls(Steps) /\ (Existing(h) => Fits(c))
      BY <1>0, <2>0 DEF Fits
    <2> HIDE DEF c
    <2>2. CallsOK'
      BY <1>3, <2>1, RequestOK DEF EnterDelete, c
    <2> QED BY <1>3, <2>2, TablesKept DEF EnterDelete
  <1> QED BY <1>1, <1>2, <1>3

LEMMA AdminTypes ==
    ASSUME TypeInv, NEW t \in Threads, UNCHANGED registers,
           FindAdmin(t) \/ AddAdmin(t) \/ FindDeletable(t) \/ DeleteAdmin(t)
    PROVE  TypeInv'
  <1> USE DEF Steps, HackathonSteps
  <1>1. CASE FindAdmin(t)
    <2>1. call[t] # None /\ call[t].step = "find_admin" /\ call[t].who \in Users
      BY <1>1, AtFits DEF FindAdmin, Fits
    <2>2. nextAdmin' \in Ids /\ nextAdmin' >= nextAdmin
      BY <1>1, NextAdminKept DEF FindAdmin
    <2>3. CallsOK'
      BY <1>1, <2>1, <2>2, GotoOK, AnswerOK DEF FindAdmin
    <2> QED BY <1>1, <2>3, TablesKept DEF FindAdmin
  <1>2. CASE AddAdmin(t)
    <2>1. /\ call[t].who \in Users /\ Existing(call[t].hackathon)
      BY <1>2, AtFits DEF AddAdmin, Fits
    <2>2. call[t].hackathon \in Ids
      BY <2>1 DEF Existing, TypeInv, HackathonsOK, HackathonRows
    <2>3. AdminsOK' /\ nextAdmin' \in Ids /\ nextAdmin' >= nextAdmin
      BY <1>2, <2>1, <2>2, InsertAdminOK DEF AddAdmin
    <2>4. CallsOK'
      BY <1>2, <2>3, AnswerOK DEF AddAdmin
    <2> QED BY <1>2, <2>3, <2>4, TablesKept DEF AddAdmin
  <1>3. CASE FindDeletable(t)
    <2>1. /\ call[t] # None /\ call[t].step = "find_rel"
          /\ call[t].row \in 1..(nextAdmin - 1)
      BY <1>3, AtFits DEF FindDeletable, Fits
    <2>2. nextAdmin' \in Ids /\ nextAdmin' >= nextAdmin
      BY <1>3, NextAdminKept DEF FindDeletable
    <2>3. CallsOK'
      BY <1>3, <2>1, <2>2, GotoOK, AnswerOK DEF FindDeletable
    <2> QED BY <1>3, <2>3, TablesKept DEF FindDeletable
  <1>4. CASE DeleteAdmin(t)
    <2>1. nextAdmin' \in Ids /\ nextAdmin' >= nextAdmin
      BY <1>4, NextAdminKept DEF DeleteAdmin
    <2>2. CallsOK'
      BY <1>4, <2>1, AnswerOK DEF DeleteAdmin
    <2>3. admins' \subseteq admins /\ IsFiniteSet(admins')
      BY <1>4, FS_Subset DEF DeleteAdmin, TypeInv, AdminsOK
    <2>4. AdminsOK'
      BY <1>4, <2>3 DEF DeleteAdmin, TypeInv, AdminsOK, Existing
    <2> QED BY <1>4, <2>2, <2>4, TablesKept DEF DeleteAdmin
  <1> QED BY <1>1, <1>2, <1>3, <1>4

LEMMA RegisterTypes ==
    ASSUME TypeInv, NEW t \in Threads,
           \/ FindRegister(t) \/ CheckEnrollment(t) \/ CreateRegistration(t)
           \/ \E u, w \in Users, h \in 1..MaxHackathons :
                EnterRegister(t, u, h, w)
    PROVE  TypeInv'
  <1> USE DEF Steps, RegisterSteps
  <1>0. UNCHANGED <<hackathons, admins, nextAdmin, orphans>>
    BY DEF FindRegister, CheckEnrollment, CreateRegistration, EnterRegister,
       hackathonVars
  <1>1. nextAdmin' \in Ids /\ nextAdmin' >= nextAdmin
    BY <1>0, NextAdminKept
  <1>2. CASE FindRegister(t)
    <2>1. /\ call[t] # None /\ call[t].step = "find_register"
          /\ call[t].who \in Users
      BY <1>2, AtFits DEF FindRegister, Fits
    <2>2. CallsOK'
      BY <1>0, <1>1, <1>2, <2>1, GotoOK, AnswerOK DEF FindRegister
    <2> QED BY <1>0, <1>2, <2>2, TablesKept DEF FindRegister
  <1>3. CASE CheckEnrollment(t)
    <2>1. /\ call[t] # None /\ call[t].step = "count"
          /\ call[t].who \in Users
      BY <1>3, AtFits DEF CheckEnrollment, Fits
    <2>2. CallsOK'
      BY <1>0, <1>1, <1>3, <2>1, GotoOK, AnswerOK DEF CheckEnrollment
    <2> QED BY <1>0, <1>3, <2>2, TablesKept DEF CheckEnrollment
  <1>4. CASE CreateRegistration(t)
    <2>1. call[t].who \in Users /\ Existing(call[t].hackathon)
      BY <1>4, AtFits DEF CreateRegistration, Fits
    <2>2. call[t].hackathon \in Ids
      BY <2>1 DEF Existing, TypeInv, HackathonsOK, HackathonRows
    <2>3. Cardinality(registers) + 1 \in Ids
      BY FS_CardinalityType DEF TypeInv, RegistersOK, Ids
    <2>4. CallsOK'
      BY <1>0, <1>1, <1>4, AnswerOK DEF CreateRegistration
    <2>5. IsFiniteSet(registers')
      BY <1>4, FS_AddElement DEF CreateRegistration, TypeInv, RegistersOK
    <2>6. RegistersOK'
      BY <1>0, <1>4, <2>1, <2>2, <2>3, <2>5
      DEF CreateRegistration, TypeInv, RegistersOK, RegisterRows, Existing
    <2> QED BY <1>0, <2>4, <2>6, TablesKept
  <1>5. ASSUME NEW u \in Users, NEW w \in Users, NEW h \in 1..MaxHackathons,
               EnterRegister(t, u, h, w)
        PROVE  TypeInv'
    <2> DEFINE c == [step |-> "find_register", hackathon |-> h, who |-> w,
                     row |-> None, limit |-> None]
    <2>0. h \in Ids
      BY HackathonsAssumption DEF Ids
    <2>1. c \in Calls(Steps) /\ (Existing(h) => Fits(c))
      BY <2>0 DEF Fits, Calls
    <2> HIDE DEF c
    <2>2. CallsOK'
      BY <1>0, <1>5, <2>1, RequestOK DEF EnterRegister, c
    <2> QED BY <1>0, <1>5, <2>2, TablesKept DEF EnterRegister
  <1> QED BY <1>2, <1>3, <1>4, <1>5

LEMMA RestartTypes ==
    ASSUME TypeInv, Restart PROVE TypeInv'
  <1>1. /\ UNCHANGED <<hackathons, admins, nextAdmin, registers>>
        /\ call' = [t \in Threads |-> None]
    BY DEF Restart, Crash
  <1>2. CallsOK'
    BY <1>1 DEF CallsOK
  <1>3. \A t \in Threads : At(t, "creator") => call[t].hackathon \in Ids
    <2> SUFFICES ASSUME NEW t \in Threads, At(t, "creator")
                 PROVE  call[t].hackathon \in Ids
      OBVIOUS
    <2>1. Existing(call[t].hackathon)
      BY AtFits DEF Fits
    <2> QED BY <2>1 DEF Existing, TypeInv, HackathonsOK, HackathonRows
  <1>4. (orphans \subseteq Ids)'
    BY <1>3 DEF Restart, Crash, TypeInv
  <1> QED
    BY <1>1, <1>2, <1>4
    DEF TypeInv, HackathonsOK, AdminsOK, RegistersOK, Existing

LEMMA TypeInvStep == TypeInv /\ [Next]_vars => TypeInv'
  <1> SUFFICES ASSUME TypeInv, [Next]_vars PROVE TypeInv'
    OBVIOUS
  <1>1. CASE UNCHANGED vars
    BY <1>1 DEF vars, hackathonVars, TypeInv, HackathonsOK, AdminsOK,
       RegistersOK, CallsOK, Fits, Existing
  <1>2. CASE Restart
    BY <1>2, RestartTypes
  <1>3. ASSUME NEW t \in Threads, Step(t) PROVE TypeInv'
    BY <1>3, CreateTypes, InsertHackathonTypes, InsertCreatorTypes,
       UpdateHackathonTypes, EnterTypes, AdminTypes, RegisterTypes
    DEF Step, HackathonStep
  <1> QED BY <1>1, <1>2, <1>3 DEF Next

LEMMA TypeInvTypes == TypeInv => TypeOK
  BY DEF TypeInv, TypeOK, HackathonsOK, AdminsOK, RegistersOK, CallsOK

(* Whatever the calls and the crashes, the rows, the ids and the steps are *)
(* what the columns and the code say.                                      *)
THEOREM RegistrationTypeCorrect == Spec => []TypeOK
  <1>1. TypeInv /\ [Next]_vars => TypeInv'
    BY TypeInvStep
  <1> QED BY <1>1, TypeInvInit, TypeInvTypes, PTL DEF Spec

----------------------------------------------------------------------------
(* The creator administers the hackathon *)

(* No row that is about to be deleted is a creator's.                      *)
NoCreatorDeleted ==
    \A t \in Threads :
        At(t, "delete_rel") =>
            \A a \in admins : a.id = call[t].row => ~IsCreator(a)

CreatorInv == CreatorIsAdmin /\ NoCreatorDeleted

LEMMA Others ==
    ASSUME TypeInv, NEW t \in Threads, Step(t)
    PROVE  \A s \in Threads \ {t} : call[s]' = call[s]
  <1>1. call \in [Threads -> Calls(Steps) \cup {None}]
    BY DEF TypeInv, CallsOK
  <1>2. \E c : call' = [call EXCEPT ![t] = c]
    <2>1. CASE HackathonStep(t)
      BY <2>1
      DEF HackathonStep, InsertHackathon, InsertCreator, UpdateHackathon,
          FindAdmin, AddAdmin, FindDeletable, DeleteAdmin, EnterCreate,
          EnterUpdate, EnterAdd, EnterDelete, Goto, Answer, Request
    <2>2. CASE \/ FindRegister(t) \/ CheckEnrollment(t) \/ CreateRegistration(t)
               \/ \E u, w \in Users, h \in 1..MaxHackathons :
                    EnterRegister(t, u, h, w)
      BY <2>2
      DEF FindRegister, CheckEnrollment, CreateRegistration, EnterRegister,
          Goto, Answer, Request
    <2> QED BY <2>1, <2>2 DEF Step
  <1> QED BY <1>1, <1>2

(* Steps of which neither rows nor deletions are the matter. *)
LEMMA CreatorUnchanged ==
    ASSUME CreatorInv, NEW t \in Threads,
           UNCHANGED <<hackathons, admins, orphans>>,
           ~At(t, "creator"), ~At(t, "delete_rel")',
           \A s \in Threads \ {t} : call[s]' = call[s]
    PROVE  CreatorInv'
  <1>1. \A step : \A s \in Threads \ {t} : At(s, step)' <=> At(s, step)
    BY DEF At
  <1>2. CreatorIsAdmin'
    BY <1>1 DEF CreatorInv, CreatorIsAdmin, AdminsOf
  <1>3. NoCreatorDeleted'
    BY <1>1 DEF CreatorInv, NoCreatorDeleted, IsCreator
  <1> QED BY <1>2, <1>3 DEF CreatorInv

(* The next step of a call that moves on, or is new. *)
LEMMA NextStep ==
    ASSUME TypeInv, NEW t \in Threads
    PROVE  /\ \A step : Goto(t, step) /\ call[t] # None =>
                (\A other : At(t, other)' => other = step)
           /\ Answer(t) => \A other : ~At(t, other)'
           /\ \A c \in Calls(Steps) : Request(t, c) =>
                (\A other : At(t, other)' => other = c.step)
  <1>1. call \in [Threads -> Calls(Steps) \cup {None}]
    BY DEF TypeInv, CallsOK
  <1>2. ASSUME NEW step, Goto(t, step), call[t] # None, NEW other, At(t, other)'
        PROVE  other = step
    <2>1. call[t]' = [call[t] EXCEPT !.step = step]
      BY <1>1, <1>2 DEF Goto
    <2> QED BY <1>1, <1>2, <2>1 DEF At, Calls
  <1>3. ASSUME Answer(t), NEW other PROVE ~At(t, other)'
    BY <1>1, <1>3 DEF Answer, At
  <1>4. ASSUME NEW c \in Calls(Steps), Request(t, c), NEW other, At(t, other)'
        PROVE  other = c.step
    BY <1>1, <1>4 DEF Request, At
  <1> QED BY <1>2, <1>3, <1>4

Enters(t) ==
    \/ \E u \in Users : EnterCreate(t, u)
    \/ \E u \in Users, h \in 1..MaxHackathons :
        \/ \E l \in Limits : EnterUpdate(t, u, h, l)
        \/ \E w \in Users : EnterAdd(t, u, h, w)
        \/ \E a \in 1..(nextAdmin - 1) : EnterDelete(t, u, h, a)
    \/ \E u, w \in Users, h \in 1..MaxHackathons : EnterRegister(t, u, h, w)

FirstSteps == {"insert", "update", "find_admin", "find_rel", "find_register"}

LEMMA EntersOK ==
    ASSUME TypeInv, NEW t \in Threads, Enters(t)
    PROVE  /\ call[t] = None
           /\ UNCHANGED <<hackathons, admins, nextAdmin, orphans>>
           /\ \A step : At(t, step)' => step \in FirstSteps
  <1>1. call \in [Threads -> Calls(Steps) \cup {None}]
    BY DEF TypeInv, CallsOK
  <1>2. /\ call[t] = None
        /\ UNCHANGED <<hackathons, admins, nextAdmin, orphans>>
    BY DEF Enters, EnterCreate, EnterUpdate, EnterAdd, EnterDelete,
       EnterRegister, Request, hackathonVars
  <1>3. \E c : c.step \in FirstSteps /\ Request(t, c)
    <2>1. CASE \E u \in Users : EnterCreate(t, u)
      BY <2>1 DEF EnterCreate, FirstSteps
    <2>2. CASE \E u \in Users, h \in 1..MaxHackathons, l \in Limits :
                 EnterUpdate(t, u, h, l)
      BY <2>2 DEF EnterUpdate, FirstSteps
    <2>3. CASE \E u, w \in Users, h \in 1..MaxHackathons : EnterAdd(t, u, h, w)
      BY <2>3 DEF EnterAdd, FirstSteps
    <2>4. CASE \E u \in Users, h \in 1..MaxHackathons,
                  a \in 1..(nextAdmin - 1) : EnterDelete(t, u, h, a)
      BY <2>4 DEF EnterDelete, FirstSteps
    <2>5. CASE \E u, w \in Users, h \in 1..MaxHackathons :
                 EnterRegister(t, u, h, w)
      BY <2>5 DEF EnterRegister, FirstSteps
    <2> QED BY <2>1, <2>2, <2>3, <2>4, <2>5 DEF Enters
  <1>4. PICK c : c.step \in FirstSteps /\ Request(t, c)
    BY <1>3
  <1>5. call[t]' = c
    BY <1>1, <1>4 DEF Request
  <1> QED BY <1>2, <1>4, <1>5 DEF At

(* The steps that are left once no row of hackathons and administrators    *)
(* changes and no administrator is about to be deleted.                    *)
LEMMA QuietStep ==
    ASSUME TypeInv, NEW t \in Threads,
           \/ Enters(t) \/ FindAdmin(t)
           \/ FindRegister(t) \/ CheckEnrollment(t) \/ CreateRegistration(t)
    PROVE  /\ UNCHANGED <<hackathons, admins, nextAdmin, orphans>>
           /\ ~At(t, "creator") /\ ~At(t, "delete_rel")'
  <1>1. CASE Enters(t)
    BY <1>1, EntersOK DEF At, FirstSteps
  <1>2. CASE FindAdmin(t)
    BY <1>2, NextStep DEF FindAdmin, At
  <1>3. CASE FindRegister(t) \/ CheckEnrollment(t) \/ CreateRegistration(t)
    <2>1. UNCHANGED <<hackathons, admins, nextAdmin, orphans>>
      BY <1>3
      DEF FindRegister, CheckEnrollment, CreateRegistration, hackathonVars
    <2>2. ~At(t, "creator")
      BY <1>3 DEF FindRegister, CheckEnrollment, CreateRegistration, At
    <2>3. ~At(t, "delete_rel")'
      BY <1>3, NextStep
      DEF FindRegister, CheckEnrollment, CreateRegistration, At
    <2> QED BY <2>1, <2>2, <2>3
  <1> QED BY <1>1, <1>2, <1>3

LEMMA CreatorInsertHackathon ==
    ASSUME TypeInv, CreatorInv, NEW t \in Threads, InsertHackathon(t),
           \A s \in Threads \ {t} : call[s]' = call[s]
    PROVE  CreatorInv'
  <1> DEFINE h == Cardinality(hackathons) + 1
  <1>1. PICK x : x.id = h /\ hackathons' = hackathons \cup {x}
    <2>1. PICK l \in Limits : hackathons' = hackathons \cup
              {[id |-> h, creator |-> call[t].who, limit |-> l, peak |-> l]}
      BY DEF InsertHackathon
    <2> QED BY <2>1
  <1> DEFINE c == [call[t] EXCEPT !.step = "creator", !.hackathon = h]
  <1>2. call[t] \in Calls(Steps) /\ At(t, "insert")
    BY AtFits DEF InsertHackathon
  <1>3. call' = [call EXCEPT ![t] = c]
    BY <1>2 DEF InsertHackathon, Calls
  <1>4. Cardinality(hackathons) \in Nat
    BY FS_CardinalityType DEF TypeInv, HackathonsOK
  <1>5. At(t, "creator")' /\ call[t]'.hackathon = h /\ ~At(t, "delete_rel")'
    <2>0. h \in Ids
      BY <1>4 DEF Ids
    <2>1. c \in Calls(Steps) /\ c.step = "creator" /\ c.hackathon = h
      <3> HIDE DEF h
      <3> QED BY <1>2, <2>0 DEF Calls, Steps, HackathonSteps
    <2>2. call[t]' = c
      BY <1>3 DEF TypeInv, CallsOK
    <2> HIDE DEF c
    <2> QED BY <2>1, <2>2, NoneAssumption DEF At
  <1>6. \A a \in admins : a.hackathon # h
    BY <1>4 DEF TypeInv, AdminsOK, HackathonsOK, Existing
  <1>7. UNCHANGED <<admins, orphans>>
    BY DEF InsertHackathon
  <1>8. \A step : \A s \in Threads : s # t => (At(s, step)' <=> At(s, step))
    BY DEF At
  <1> HIDE DEF h, c
  <1>9. CreatorIsAdmin'
    <2> SUFFICES ASSUME NEW y \in hackathons'
                 PROVE  \/ y.id \in orphans
                        \/ \E s \in Threads : At(s, "creator")'
                                              /\ call[s]'.hackathon = y.id
                        \/ AdminsOf(y.id, y.creator) # {}
      BY <1>7 DEF CreatorIsAdmin, AdminsOf
    <2>1. CASE y = x
      BY <1>1, <1>5, <2>1
    <2>2. CASE y \in hackathons
      <3>1. ASSUME NEW s \in Threads, At(s, "creator"), call[s].hackathon = y.id
            PROVE  At(s, "creator")' /\ call[s]'.hackathon = y.id
        <4>1. s # t
          BY <1>2, <3>1 DEF At
        <4> QED BY <1>8, <3>1, <4>1
      <3> QED BY <2>2, <3>1 DEF CreatorInv, CreatorIsAdmin
    <2> QED BY <1>1, <2>1, <2>2
  <1>10. NoCreatorDeleted'
    <2> SUFFICES ASSUME NEW s \in Threads, At(s, "delete_rel")',
                        NEW a \in admins, a.id = call[s]'.row
                 PROVE  ~IsCreator(a)'
      BY <1>7 DEF NoCreatorDeleted
    <2>1. s # t /\ At(s, "delete_rel") /\ a.id = call[s].row
      BY <1>5, <1>8
    <2>2. ~IsCreator(a) /\ a.hackathon # h
      BY <2>1, <1>6 DEF CreatorInv, NoCreatorDeleted
    <2> QED BY <1>1, <2>2 DEF IsCreator
  <1> QED BY <1>9, <1>10 DEF CreatorInv

LEMMA CreatorInserted ==
    ASSUME TypeInv, CreatorInv, NEW t \in Threads, InsertCreator(t),
           \A s \in Threads \ {t} : call[s]' = call[s]
    PROVE  CreatorInv'
  <1> DEFINE h == call[t].hackathon
  <1>1. call[t] \in Calls(Steps) /\ Fits(call[t]) /\ At(t, "creator")
    BY AtFits DEF InsertCreator
  <1>2. PICK x \in hackathons : x.id = h /\ x.creator = call[t].who
    BY <1>1 DEF At, Fits
  <1>3. \A step : ~At(t, step)'
    BY NextStep DEF InsertCreator
  <1>4. hackathons' = hackathons /\ admins \subseteq admins'
        /\ orphans \subseteq orphans'
    BY DEF InsertCreator, InsertAdmin
  <1>5. x.id \in orphans' \/ AdminsOf(x.id, x.creator)' # {}
    <2>1. CASE InsertAdmin(h, call[t].who)
      <3> DEFINE a == [id |-> nextAdmin, user |-> call[t].who, hackathon |-> h]
      <3>1. a \in admins' /\ a.hackathon = x.id /\ a.user = x.creator
        BY <1>2, <2>1 DEF InsertAdmin
      <3> HIDE DEF a
      <3> QED BY <3>1 DEF AdminsOf
    <2>2. CASE orphans' = orphans \cup {h}
      BY <1>2, <2>2
    <2> QED BY <2>1, <2>2 DEF InsertCreator
  <1>6. CreatorIsAdmin'
    <2> SUFFICES ASSUME NEW y \in hackathons'
                 PROVE  \/ y.id \in orphans'
                        \/ \E s \in Threads : At(s, "creator")'
                                              /\ call[s]'.hackathon = y.id
                        \/ AdminsOf(y.id, y.creator)' # {}
      BY DEF CreatorIsAdmin
    <2>1. CASE y.id = h
      BY <1>2, <1>4, <1>5, <2>1 DEF TypeInv, HackathonsOK
    <2>2. CASE y.id # h
      <3>1. CASE y.id \in orphans
        BY <1>4, <3>1
      <3>2. ASSUME NEW s \in Threads, At(s, "creator"), call[s].hackathon = y.id
            PROVE  At(s, "creator")' /\ call[s]'.hackathon = y.id
        BY <2>2, <3>2 DEF At
      <3>3. CASE AdminsOf(y.id, y.creator) # {}
        BY <1>4, <3>3 DEF AdminsOf
      <3> QED BY <1>4, <3>1, <3>2, <3>3 DEF CreatorInv, CreatorIsAdmin
    <2> QED BY <2>1, <2>2
  <1>7. NoCreatorDeleted'
    <2> SUFFICES ASSUME NEW s \in Threads, At(s, "delete_rel")',
                        NEW a \in admins', a.id = call[s]'.row
                 PROVE  ~IsCreator(a)'
      BY DEF NoCreatorDeleted
    <2>1. s # t /\ call[s]' = call[s] /\ At(s, "delete_rel")
      BY <1>3 DEF At
    <2>2. call[s].row \in 1..(nextAdmin - 1)
      BY <2>1, AtFits DEF Fits
    <2>3. a \in admins
      BY <2>1, <2>2 DEF InsertCreator, InsertAdmin, TypeInv, AdminsOK, Ids
    <2> QED BY <1>4, <2>1, <2>3 DEF CreatorInv, NoCreatorDeleted, IsCreator
  <1> QED BY <1>6, <1>7 DEF CreatorInv

LEMMA CreatorUpdate ==
    ASSUME TypeInv, CreatorInv, NEW t \in Threads, UpdateHackathon(t),
           \A s \in Threads \ {t} : call[s]' = call[s]
    PROVE  CreatorInv'
  <1>1. \A x \in hackathons' :
            \E y \in hackathons : y.id = x.id /\ y.creator = x.creator
    <2>1. \A z : \A y \in hackathons : z = (IF y.id = call[t].hackathon
              THEN [y EXCEPT !.limit = call[t].limit,
                             !.peak = Higher(y.peak, call[t].limit)]
              ELSE y) => z.id = y.id /\ z.creator = y.creator
      BY DEF TypeInv, HackathonsOK, HackathonRows
    <2> QED BY <2>1 DEF UpdateHackathon
  <1>2. UNCHANGED <<admins, orphans>> /\ At(t, "update")
    BY DEF UpdateHackathon
  <1>3. \A step : ~At(t, step)'
    BY NextStep DEF UpdateHackathon
  <1>4. ~At(t, "creator")
    BY <1>2 DEF At
  <1>5. CreatorIsAdmin'
    <2> SUFFICES ASSUME NEW x \in hackathons'
                 PROVE  \/ x.id \in orphans
                        \/ \E s \in Threads : At(s, "creator")'
                                              /\ call[s]'.hackathon = x.id
                        \/ AdminsOf(x.id, x.creator) # {}
      BY <1>2 DEF CreatorIsAdmin, AdminsOf
    <2>1. PICK y \in hackathons : y.id = x.id /\ y.creator = x.creator
      BY <1>1
    <2>2. \A s \in Threads : At(s, "creator") =>
              At(s, "creator")' /\ call[s]' = call[s]
      BY <1>4 DEF At
    <2> QED BY <2>1, <2>2 DEF CreatorInv, CreatorIsAdmin
  <1>6. NoCreatorDeleted'
    <2> SUFFICES ASSUME NEW s \in Threads, At(s, "delete_rel")',
                        NEW a \in admins, a.id = call[s]'.row
                 PROVE  ~IsCreator(a)'
      BY <1>2 DEF NoCreatorDeleted
    <2>1. At(s, "delete_rel") /\ call[s]' = call[s]
      BY <1>3 DEF At
    <2> QED BY <1>1, <2>1 DEF CreatorInv, NoCreatorDeleted, IsCreator
  <1> QED BY <1>5, <1>6 DEF CreatorInv

LEMMA CreatorAddAdmin ==
    ASSUME TypeInv, CreatorInv, NEW t \in Threads, AddAdmin(t),
           \A s \in Threads \ {t} : call[s]' = call[s]
    PROVE  CreatorInv'
  <1>1. /\ UNCHANGED <<hackathons, orphans>> /\ admins \subseteq admins'
        /\ \A a \in admins' \ admins : a.id = nextAdmin
    BY DEF AddAdmin, InsertAdmin
  <1>2. \A step : ~At(t, step)'
    BY NextStep DEF AddAdmin
  <1>3. ~At(t, "creator")
    BY DEF AddAdmin, At
  <1>4. CreatorIsAdmin'
    <2>1. \A s \in Threads : At(s, "creator") =>
              At(s, "creator")' /\ call[s]' = call[s]
      BY <1>3 DEF At
    <2>2. \A h, u : AdminsOf(h, u) \subseteq AdminsOf(h, u)'
      BY <1>1 DEF AdminsOf
    <2> QED BY <1>1, <2>1, <2>2 DEF CreatorInv, CreatorIsAdmin
  <1>5. NoCreatorDeleted'
    <2> SUFFICES ASSUME NEW s \in Threads, At(s, "delete_rel")',
                        NEW a \in admins', a.id = call[s]'.row
                 PROVE  ~IsCreator(a)'
      BY DEF NoCreatorDeleted
    <2>1. At(s, "delete_rel") /\ call[s]' = call[s]
      BY <1>2 DEF At
    <2>2. call[s].row \in 1..(nextAdmin - 1)
      BY <2>1, AtFits DEF Fits
    <2>3. a \in admins
      BY <1>1, <2>1, <2>2 DEF TypeInv, AdminsOK, Ids
    <2> QED BY <1>1, <2>1, <2>3 DEF CreatorInv, NoCreatorDeleted, IsCreator
  <1> QED BY <1>4, <1>5 DEF CreatorInv

LEMMA CreatorFindDeletable ==
    ASSUME TypeInv, CreatorInv, NEW t \in Threads, FindDeletable(t),
           \A s \in Threads \ {t} : call[s]' = call[s]
    PROVE  CreatorInv'
  <1>1. /\ UNCHANGED <<hackathons, admins, orphans>>
        /\ At(t, "find_rel") /\ ~At(t, "creator") /\ ~At(t, "delete_rel")
    BY DEF FindDeletable, At
  <1>2. CASE Answer(t)
    BY <1>1, <1>2, NextStep, CreatorUnchanged
  <1>3. CASE /\ \E a \in admins : a.id = call[t].row /\ ~IsCreator(a)
             /\ Goto(t, "delete_rel")
    <2>1. \A b \in admins : b.id = call[t].row => ~IsCreator(b)
      BY <1>3 DEF TypeInv, AdminsOK
    <2>2. \A other : At(t, other)' => other = "delete_rel"
      BY <1>1, <1>3, NextStep DEF At
    <2>3. call[t] \in Calls(Steps)
      BY <1>1, AtFits
    <2>4. call[t]'.row = call[t].row
      BY <1>3, <2>3 DEF Goto, TypeInv, CallsOK, Calls
    <2>5. CreatorIsAdmin'
      <3>1. \A s \in Threads : At(s, "creator") =>
                At(s, "creator")' /\ call[s]' = call[s]
        BY <1>1 DEF At
      <3> QED BY <1>1, <3>1 DEF CreatorInv, CreatorIsAdmin, AdminsOf
    <2>6. NoCreatorDeleted'
      <3> SUFFICES ASSUME NEW s \in Threads, At(s, "delete_rel")',
                          NEW a \in admins, a.id = call[s]'.row
                   PROVE  ~IsCreator(a)
        BY <1>1 DEF NoCreatorDeleted, IsCreator
      <3>1. CASE s = t
        BY <3>1, <2>1, <2>4
      <3>2. CASE s # t
        BY <3>2 DEF CreatorInv, NoCreatorDeleted, At
      <3> QED BY <3>1, <3>2
    <2> QED BY <2>5, <2>6 DEF CreatorInv
  <1> QED BY <1>2, <1>3 DEF FindDeletable

LEMMA CreatorDeleteAdmin ==
    ASSUME TypeInv, CreatorInv, NEW t \in Threads, DeleteAdmin(t),
           \A s \in Threads \ {t} : call[s]' = call[s]
    PROVE  CreatorInv'
  <1>1. /\ UNCHANGED <<hackathons, orphans>> /\ At(t, "delete_rel")
        /\ admins' = {a \in admins : a.id # call[t].row}
    BY DEF DeleteAdmin
  <1>2. \A step : ~At(t, step)'
    BY NextStep DEF DeleteAdmin
  <1>3. \A s \in Threads : At(s, "creator") =>
            At(s, "creator")' /\ call[s]' = call[s]
    BY <1>1 DEF At
  <1>4. ASSUME NEW x \in hackathons, AdminsOf(x.id, x.creator) # {}
        PROVE  AdminsOf(x.id, x.creator)' # {}
    <2>1. PICK a \in admins : a.hackathon = x.id /\ a.user = x.creator
      BY <1>4 DEF AdminsOf
    <2>2. a.id # call[t].row
      BY <1>1, <2>1 DEF CreatorInv, NoCreatorDeleted, IsCreator
    <2> QED BY <1>1, <2>1, <2>2 DEF AdminsOf
  <1>5. CreatorIsAdmin'
    BY <1>1, <1>3, <1>4 DEF CreatorInv, CreatorIsAdmin
  <1>6. NoCreatorDeleted'
    <2> SUFFICES ASSUME NEW s \in Threads, At(s, "delete_rel")',
                        NEW a \in admins', a.id = call[s]'.row
                 PROVE  ~IsCreator(a)'
      BY DEF NoCreatorDeleted
    <2>1. At(s, "delete_rel") /\ call[s]' = call[s]
      BY <1>2 DEF At
    <2> QED BY <1>1, <2>1 DEF CreatorInv, NoCreatorDeleted, IsCreator
  <1> QED BY <1>5, <1>6 DEF CreatorInv

LEMMA CreatorRestart ==
    ASSUME TypeInv, CreatorInv, Restart PROVE CreatorInv'
  <1>1. /\ UNCHANGED <<hackathons, admins>>
        /\ orphans' = orphans \cup
               {call[t].hackathon : t \in {x \in Threads : At(x, "creator")}}
        /\ call' = [t \in Threads |-> None]
    BY DEF Restart, Crash
  <1>2. CreatorIsAdmin'
    BY <1>1 DEF CreatorInv, CreatorIsAdmin, AdminsOf
  <1>3. NoCreatorDeleted'
    BY <1>1 DEF NoCreatorDeleted, At
  <1> QED BY <1>2, <1>3 DEF CreatorInv

LEMMA StepCases ==
    ASSUME NEW t \in Threads, Step(t)
    PROVE  \/ Enters(t) \/ InsertHackathon(t) \/ InsertCreator(t)
           \/ UpdateHackathon(t) \/ FindAdmin(t) \/ AddAdmin(t)
           \/ FindDeletable(t) \/ DeleteAdmin(t) \/ FindRegister(t)
           \/ CheckEnrollment(t) \/ CreateRegistration(t)
  BY DEF Step, HackathonStep, Enters

LEMMA CreatorInvStep == TypeInv /\ CreatorInv /\ [Next]_vars => CreatorInv'
  <1> SUFFICES ASSUME TypeInv, CreatorInv, [Next]_vars PROVE CreatorInv'
    OBVIOUS
  <1>1. CASE UNCHANGED vars
    BY <1>1 DEF vars, hackathonVars, CreatorInv, CreatorIsAdmin,
       NoCreatorDeleted, AdminsOf, IsCreator, At
  <1>2. CASE Restart
    BY <1>2, CreatorRestart
  <1>3. ASSUME NEW t \in Threads, Step(t) PROVE CreatorInv'
    <2>1. \A s \in Threads \ {t} : call[s]' = call[s]
      BY <1>3, Others
    <2>2. CASE \/ Enters(t) \/ FindAdmin(t) \/ FindRegister(t)
               \/ CheckEnrollment(t) \/ CreateRegistration(t)
      BY <2>1, <2>2, QuietStep, CreatorUnchanged
    <2> QED
      BY <1>3, <2>1, <2>2, StepCases, CreatorInsertHackathon,
         CreatorInserted, CreatorUpdate, CreatorAddAdmin,
         CreatorFindDeletable, CreatorDeleteAdmin
  <1> QED BY <1>1, <1>2, <1>3 DEF Next

LEMMA CreatorInvInit == Init => CreatorInv
  BY DEF Init, HackathonInit, CreatorInv, CreatorIsAdmin, NoCreatorDeleted, At

(* Nobody deletes the creator from the administrators, although the row is *)
(* looked at in one transaction and deleted in another: the creator of a   *)
(* hackathon administers it unless its creation failed half way.           *)
THEOREM CreatorAlwaysAdmin == Spec => []CreatorIsAdmin
  <1>1. CreatorInv => CreatorIsAdmin
    BY DEF CreatorInv
  <1> QED
    BY <1>1, TypeInvInit, TypeInvStep, CreatorInvInit, CreatorInvStep, PTL
    DEF Spec

----------------------------------------------------------------------------
(* How often one user administers one hackathon *)

Adders(h, u) ==
    {t \in Threads : /\ At(t, "add_admin") \/ At(t, "creator")
                     /\ call[t].hackathon = h /\ call[t].who = u}

(* A thread that is about to insert the row counts as one.                 *)
RowsInv ==
    \A h, u : Cardinality(AdminsOf(h, u)) + Cardinality(Adders(h, u))
                  <= Cardinality(Threads)

LEMMA Finite ==
    ASSUME TypeInv, NEW h, NEW u
    PROVE  /\ IsFiniteSet(AdminsOf(h, u)) /\ Cardinality(AdminsOf(h, u)) \in Nat
           /\ IsFiniteSet(Adders(h, u)) /\ Cardinality(Adders(h, u)) \in Nat
           /\ Cardinality(Adders(h, u)) <= Cardinality(Threads)
           /\ Cardinality(Threads) \in Nat \ {0}
  <1>1. AdminsOf(h, u) \subseteq admins /\ Adders(h, u) \subseteq Threads
    BY DEF AdminsOf, Adders
  <1>2. IsFiniteSet(admins) /\ IsFiniteSet(Threads) /\ Threads # {}
    BY HackathonsAssumption DEF TypeInv, AdminsOK
  <1> QED BY <1>1, <1>2, FS_Subset, FS_CardinalityType, FS_EmptySet

LEMMA RowsKept ==
    ASSUME TypeInv, RowsInv,
           \A h, u : /\ AdminsOf(h, u)' \subseteq AdminsOf(h, u)
                     /\ Adders(h, u)' \subseteq Adders(h, u)
    PROVE  RowsInv'
  <1> SUFFICES ASSUME NEW h, NEW u
               PROVE  Cardinality(AdminsOf(h, u)') + Cardinality(Adders(h, u)')
                         <= Cardinality(Threads)
    BY DEF RowsInv
  <1>1. /\ Cardinality(AdminsOf(h, u)') <= Cardinality(AdminsOf(h, u))
        /\ Cardinality(AdminsOf(h, u)') \in Nat
    BY Finite, FS_Subset, FS_CardinalityType
  <1>2. /\ Cardinality(Adders(h, u)') <= Cardinality(Adders(h, u))
        /\ Cardinality(Adders(h, u)') \in Nat
    BY Finite, FS_Subset, FS_CardinalityType
  <1> QED BY <1>1, <1>2, Finite DEF RowsInv

(* The thread of a step that does not lead to an insert. *)
LEMMA AddersFewer ==
    ASSUME TypeInv, NEW t \in Threads,
           ~At(t, "add_admin")', ~At(t, "creator")',
           \A s \in Threads \ {t} : call[s]' = call[s],
           NEW h, NEW u
    PROVE  Adders(h, u)' \subseteq Adders(h, u) \ {t}
  BY DEF Adders, At

(* A step that leads to an insert: so far there is no row to count. *)
LEMMA RowsFirst ==
    ASSUME TypeInv, RowsInv, NEW t \in Threads, UNCHANGED admins,
           \A s \in Threads \ {t} : call[s]' = call[s],
           At(t, "add_admin")' \/ At(t, "creator")' =>
               AdminsOf(call[t]'.hackathon, call[t]'.who) = {}
    PROVE  RowsInv'
  <1> SUFFICES ASSUME NEW h, NEW u
               PROVE  Cardinality(AdminsOf(h, u)') + Cardinality(Adders(h, u)')
                         <= Cardinality(Threads)
    BY DEF RowsInv
  <1>0. AdminsOf(h, u)' = AdminsOf(h, u)
    BY DEF AdminsOf
  <1>1. CASE t \in Adders(h, u)'
    <2>1. AdminsOf(h, u)' = {}
      BY <1>0, <1>1 DEF Adders
    <2>2. Cardinality(Adders(h, u)') \in Nat
          /\ Cardinality(Adders(h, u)') <= Cardinality(Threads)
      BY HackathonsAssumption, FS_Subset, FS_CardinalityType DEF Adders
    <2> QED BY <2>1, <2>2, FS_EmptySet
  <1>2. CASE t \notin Adders(h, u)'
    <2>1. Adders(h, u)' \subseteq Adders(h, u)
      BY <1>2 DEF Adders, At
    <2>2. /\ Cardinality(Adders(h, u)') <= Cardinality(Adders(h, u))
          /\ Cardinality(Adders(h, u)') \in Nat
      BY <2>1, Finite, FS_Subset, FS_CardinalityType
    <2> QED BY <1>0, <2>2, Finite DEF RowsInv
  <1> QED BY <1>1, <1>2

LEMMA AtMostOneMore ==
    ASSUME NEW S, IsFiniteSet(S), NEW x
    PROVE  /\ Cardinality(S \cup {x}) <= Cardinality(S) + 1
           /\ Cardinality(S \cup {x}) \in Nat
  <1>1. Cardinality(S) \in Nat
    BY FS_CardinalityType
  <1>2. CASE x \in S
    <2>1. S \cup {x} = S
      BY <1>2
    <2> QED BY <1>1, <2>1
  <1>3. CASE x \notin S
    <2>1. Cardinality(S \cup {x}) = Cardinality(S) + 1
      BY <1>3, FS_AddElement
    <2> QED BY <1>1, <2>1
  <1> QED BY <1>2, <1>3

(* The insert: one row more, one thread less. *)
LEMMA RowsInserted ==
    ASSUME TypeInv, RowsInv, NEW t \in Threads,
           At(t, "add_admin") \/ At(t, "creator"),
           InsertAdmin(call[t].hackathon, call[t].who), Answer(t),
           \A s \in Threads \ {t} : call[s]' = call[s]
    PROVE  RowsInv'
  <1> SUFFICES ASSUME NEW h, NEW u
               PROVE  Cardinality(AdminsOf(h, u)') + Cardinality(Adders(h, u)')
                         <= Cardinality(Threads)
    BY DEF RowsInv
  <1>1. Adders(h, u)' \subseteq Adders(h, u) \ {t}
    BY NextStep, AddersFewer
  <1>2. IsFiniteSet(Adders(h, u) \ {t}) /\ Cardinality(Adders(h, u) \ {t}) \in Nat
    BY Finite, FS_Subset, FS_CardinalityType
  <1>3. /\ Cardinality(Adders(h, u)') <= Cardinality(Adders(h, u) \ {t})
        /\ Cardinality(Adders(h, u)') \in Nat
    BY <1>1, <1>2, FS_Subset, FS_CardinalityType
  <1> DEFINE a == [id |-> nextAdmin, user |-> call[t].who,
                   hackathon |-> call[t].hackathon]
  <1>4. admins' = admins \cup {a}
    BY DEF InsertAdmin
  <1>5. CASE call[t].hackathon = h /\ call[t].who = u
    <2>1. t \in Adders(h, u)
      BY <1>5 DEF Adders
    <2>2. Cardinality(Adders(h, u) \ {t}) = Cardinality(Adders(h, u)) - 1
      BY <2>1, Finite, FS_RemoveElement
    <2>3. AdminsOf(h, u)' = AdminsOf(h, u) \cup {a}
      BY <1>4, <1>5 DEF AdminsOf
    <2> HIDE DEF a
    <2>4. /\ Cardinality(AdminsOf(h, u)') <= Cardinality(AdminsOf(h, u)) + 1
          /\ Cardinality(AdminsOf(h, u)') \in Nat
      BY <2>3, Finite, AtMostOneMore
    <2> QED BY <1>2, <1>3, <2>2, <2>4, Finite DEF RowsInv
  <1>6. CASE ~(call[t].hackathon = h /\ call[t].who = u)
    <2>1. AdminsOf(h, u)' = AdminsOf(h, u)
      BY <1>4, <1>6 DEF AdminsOf
    <2>2. Cardinality(Adders(h, u)') <= Cardinality(Adders(h, u))
      BY <1>1, Finite, FS_Subset
    <2> QED BY <1>3, <2>1, <2>2, Finite DEF RowsInv
  <1> QED BY <1>5, <1>6

(* A step that neither inserts nor leads to an insert. *)
LEMMA RowsOther ==
    ASSUME TypeInv, RowsInv, NEW t \in Threads, admins' \subseteq admins,
           ~At(t, "add_admin")', ~At(t, "creator")',
           \A s \in Threads \ {t} : call[s]' = call[s]
    PROVE  RowsInv'
  <1>1. \A h, u : /\ AdminsOf(h, u)' \subseteq AdminsOf(h, u)
                  /\ Adders(h, u)' \subseteq Adders(h, u)
    BY AddersFewer DEF AdminsOf
  <1> QED BY <1>1, RowsKept

LEMMA RowsInvStep == TypeInv /\ RowsInv /\ [Next]_vars => RowsInv'
  <1> SUFFICES ASSUME TypeInv, RowsInv, [Next]_vars PROVE RowsInv'
    OBVIOUS
  <1>1. CASE UNCHANGED vars
    BY <1>1, RowsKept DEF vars, hackathonVars, AdminsOf, Adders, At
  <1>2. CASE Restart
    BY <1>2, RowsKept DEF Restart, Crash, AdminsOf, Adders, At
  <1>3. ASSUME NEW t \in Threads, Step(t) PROVE RowsInv'
    <2>1. \A s \in Threads \ {t} : call[s]' = call[s]
      BY <1>3, Others
    <2>2. CASE Enters(t)
      BY <2>1, <2>2, EntersOK, RowsOther DEF FirstSteps
    <2>3. CASE InsertHackathon(t)
      <3>1. call[t] \in Calls(Steps) /\ UNCHANGED admins
        BY <2>3, AtFits DEF InsertHackathon
      <3>2. call[t]'.hackathon = Cardinality(hackathons) + 1
        <4>1. call[t]' = [call[t] EXCEPT !.step = "creator",
                                         !.hackathon = Cardinality(hackathons) + 1]
          BY <2>3, <3>1 DEF InsertHackathon, TypeInv, CallsOK
        <4> QED BY <3>1, <4>1 DEF Calls
      <3>3. \A u : AdminsOf(Cardinality(hackathons) + 1, u) = {}
        <4>1. Cardinality(hackathons) \in Nat
          BY FS_CardinalityType DEF TypeInv, HackathonsOK
        <4>2. \A a \in admins : a.hackathon \in 1..Cardinality(hackathons)
          BY DEF TypeInv, AdminsOK, HackathonsOK, Existing
        <4> QED BY <4>1, <4>2 DEF AdminsOf
      <3> QED BY <2>1, <3>1, <3>2, <3>3, RowsFirst
    <2>4. CASE InsertCreator(t)
      <3>1. CASE InsertAdmin(call[t].hackathon, call[t].who)
        BY <2>1, <2>4, <3>1, RowsInserted DEF InsertCreator
      <3>2. CASE UNCHANGED admins
        BY <2>1, <2>4, <3>2, NextStep, RowsOther DEF InsertCreator
      <3> QED BY <2>4, <3>1, <3>2 DEF InsertCreator
    <2>5. CASE UpdateHackathon(t)
      BY <2>1, <2>5, NextStep, RowsOther DEF UpdateHackathon
    <2>6. CASE FindAdmin(t)
      <3>1. call[t] \in Calls(Steps)
        BY <2>6, AtFits DEF FindAdmin
      <3>2. CASE Answer(t)
        BY <2>1, <2>6, <3>2, NextStep, RowsOther DEF FindAdmin
      <3>3. CASE /\ AdminsOf(call[t].hackathon, call[t].who) = {}
                 /\ Goto(t, "add_admin")
        <4>1. call[t]' = [call[t] EXCEPT !.step = "add_admin"]
          BY <3>3 DEF Goto, TypeInv, CallsOK
        <4>2. /\ call[t]'.hackathon = call[t].hackathon
              /\ call[t]'.who = call[t].who
          BY <3>1, <4>1 DEF Calls
        <4> QED BY <2>1, <2>6, <3>3, <4>2, RowsFirst DEF FindAdmin
      <3> QED BY <2>6, <3>2, <3>3 DEF FindAdmin
    <2>7. CASE AddAdmin(t)
      BY <2>1, <2>7, RowsInserted DEF AddAdmin
    <2>8. CASE FindDeletable(t)
      BY <2>1, <2>8, NextStep, RowsOther DEF FindDeletable, At
    <2>9. CASE DeleteAdmin(t)
      BY <2>1, <2>9, NextStep, RowsOther DEF DeleteAdmin
    <2>10. CASE FindRegister(t) \/ CheckEnrollment(t) \/ CreateRegistration(t)
      <3>1. UNCHANGED admins
        BY <2>10
        DEF FindRegister, CheckEnrollment, CreateRegistration, hackathonVars
      <3>2. ~At(t, "add_admin")' /\ ~At(t, "creator")'
        BY <2>10, NextStep
        DEF FindRegister, CheckEnrollment, CreateRegistration, At
      <3> QED BY <2>1, <3>1, <3>2, RowsOther
    <2> QED
      BY <1>3, <2>2, <2>3, <2>4, <2>5, <2>6, <2>7, <2>8, <2>9, <2>10,
         StepCases
  <1> QED BY <1>1, <1>2, <1>3 DEF Next

LEMMA RowsInvInit == Init => RowsInv
  <1> SUFFICES ASSUME Init, NEW h, NEW u
               PROVE  Cardinality(AdminsOf(h, u)) + Cardinality(Adders(h, u))
                         <= Cardinality(Threads)
    BY DEF RowsInv
  <1>1. AdminsOf(h, u) = {} /\ Adders(h, u) = {}
    BY DEF Init, HackathonInit, AdminsOf, Adders, At
  <1> QED BY <1>1, FS_EmptySet, TypeInvInit, Finite

LEMMA RowsInvBounds == TypeInv /\ RowsInv => AdminRowsBounded
  BY Finite DEF RowsInv, AdminRowsBounded

(* However the requests interleave, a user never has more rows of one      *)
(* hackathon than the server has threads: the creator's own creation and   *)
(* every concurrent add_admin may add one.                                 *)
THEOREM AdminRowsAlwaysBounded == Spec => []AdminRowsBounded
  BY TypeInvInit, TypeInvStep, RowsInvInit, RowsInvStep, RowsInvBounds, PTL
  DEF Spec

----------------------------------------------------------------------------
(* How many users are registered *)

Enrollers(h) == {t \in Threads : At(t, "enroll") /\ call[t].hackathon = h}

LimitOK(x) ==
    /\ x.limit = 0 => x.peak = 0
    /\ x.peak = 0 \/ x.limit <= x.peak

(* A thread that has counted and is about to insert counts as one.         *)
EnrollOK(x) ==
    x.peak # 0 =>
        Cardinality(Enrolled(x.id)) + Cardinality(Enrollers(x.id))
            < x.peak + Cardinality(Threads)

EnrollInv == \A x \in hackathons : LimitOK(x) /\ EnrollOK(x)

LEMMA EnrollFinite ==
    ASSUME TypeInv, NEW h
    PROVE  /\ IsFiniteSet(Enrolled(h)) /\ Cardinality(Enrolled(h)) \in Nat
           /\ IsFiniteSet(Enrollers(h)) /\ Cardinality(Enrollers(h)) \in Nat
           /\ Cardinality(Enrollers(h)) <= Cardinality(Threads)
           /\ Cardinality(Threads) \in Nat \ {0}
  <1>1. Enrolled(h) \subseteq registers /\ Enrollers(h) \subseteq Threads
    BY DEF Enrolled, Enrollers
  <1>2. IsFiniteSet(registers) /\ IsFiniteSet(Threads) /\ Threads # {}
    BY HackathonsAssumption DEF TypeInv, RegistersOK
  <1> QED BY <1>1, <1>2, FS_Subset, FS_CardinalityType, FS_EmptySet

LEMMA PeakNat == TypeInv => \A x \in hackathons : x.limit \in Nat /\ x.peak \in Nat
  BY HackathonsAssumption DEF TypeInv, HackathonsOK, HackathonRows

(* Fewer registrations and fewer threads at the insert. *)
LEMMA EnrollFewer ==
    ASSUME TypeInv, NEW x \in hackathons, EnrollOK(x),
           Enrolled(x.id)' \subseteq Enrolled(x.id),
           Enrollers(x.id)' \subseteq Enrollers(x.id)
    PROVE  Cardinality(Enrolled(x.id)') + Cardinality(Enrollers(x.id)')
               <= Cardinality(Enrolled(x.id)) + Cardinality(Enrollers(x.id))
           /\ Cardinality(Enrolled(x.id)') \in Nat
           /\ Cardinality(Enrollers(x.id)') \in Nat
  <1>1. /\ Cardinality(Enrolled(x.id)') <= Cardinality(Enrolled(x.id))
        /\ Cardinality(Enrolled(x.id)') \in Nat
    BY EnrollFinite, FS_Subset, FS_CardinalityType
  <1>2. /\ Cardinality(Enrollers(x.id)') <= Cardinality(Enrollers(x.id))
        /\ Cardinality(Enrollers(x.id)') \in Nat
    BY EnrollFinite, FS_Subset, FS_CardinalityType
  <1> QED BY <1>1, <1>2, EnrollFinite

LEMMA EnrollKept ==
    ASSUME TypeInv, EnrollInv, UNCHANGED hackathons, registers' \subseteq registers,
           \A h : Enrollers(h)' \subseteq Enrollers(h)
    PROVE  EnrollInv'
  <1> SUFFICES ASSUME NEW x \in hackathons PROVE LimitOK(x) /\ EnrollOK(x)'
    BY DEF EnrollInv, LimitOK
  <1>1. LimitOK(x) /\ EnrollOK(x)
    BY DEF EnrollInv
  <1>2. Enrolled(x.id)' \subseteq Enrolled(x.id)
    BY DEF Enrolled
  <1> QED BY <1>1, <1>2, EnrollFewer, EnrollFinite, PeakNat DEF EnrollOK

LEMMA EnrollersFewer ==
    ASSUME TypeInv, NEW t \in Threads, ~At(t, "enroll")',
           \A s \in Threads \ {t} : call[s]' = call[s], NEW h
    PROVE  Enrollers(h)' \subseteq Enrollers(h) \ {t}
  BY DEF Enrollers, At

LEMMA EnrollInsertHackathon ==
    ASSUME TypeInv, EnrollInv, NEW t \in Threads, InsertHackathon(t),
           UNCHANGED registers, \A s \in Threads \ {t} : call[s]' = call[s],
           ~At(t, "enroll")'
    PROVE  EnrollInv'
  <1>0. PICK h : h = Cardinality(hackathons) + 1
    OBVIOUS
  <1>1. PICK l \in Limits : hackathons' = hackathons \cup
            {[id |-> h, creator |-> call[t].who, limit |-> l, peak |-> l]}
    BY <1>0 DEF InsertHackathon
  <1>2. \A i : Enrolled(i)' = Enrolled(i) /\ Enrollers(i)' \subseteq Enrollers(i)
    BY EnrollersFewer DEF Enrolled
  <1>3. ASSUME NEW x \in hackathons PROVE LimitOK(x) /\ EnrollOK(x)'
    <2>1. LimitOK(x) /\ EnrollOK(x)
      BY DEF EnrollInv
    <2> QED BY <1>2, <2>1, EnrollFewer, EnrollFinite, PeakNat DEF EnrollOK
  <1>4. ASSUME NEW x, x = [id |-> h, creator |-> call[t].who, limit |-> l,
                           peak |-> l]
        PROVE  LimitOK(x) /\ EnrollOK(x)'
    <2>1. x.id = h /\ x.limit = l /\ x.peak = l /\ l \in Nat
      BY <1>4, HackathonsAssumption
    <2>2. Cardinality(hackathons) \in Nat
      BY FS_CardinalityType DEF TypeInv, HackathonsOK
    <2>3. \A i : Existing(i) => i \in 1..Cardinality(hackathons)
      BY DEF Existing, TypeInv, HackathonsOK
    <2>4. Enrolled(h) = {}
      BY <1>0, <2>2, <2>3 DEF Enrolled, TypeInv, RegistersOK
    <2>5. Enrollers(h) = {}
      <3>1. \A s \in Threads : At(s, "enroll") => Existing(call[s].hackathon)
        BY AtFits DEF Fits
      <3> QED BY <1>0, <2>2, <2>3, <3>1 DEF Enrollers
    <2>6. Enrolled(h)' = {} /\ Enrollers(h)' = {}
      BY <1>2, <2>4, <2>5
    <2>7. Cardinality(Enrolled(x.id)') = 0 /\ Cardinality(Enrollers(x.id)') = 0
      BY <2>1, <2>6, FS_EmptySet
    <2> QED BY <2>1, <2>7, EnrollFinite DEF LimitOK, EnrollOK
  <1> QED BY <1>1, <1>3, <1>4 DEF EnrollInv, LimitOK

LEMMA EnrollUpdate ==
    ASSUME TypeInv, EnrollInv, NEW t \in Threads, UpdateHackathon(t),
           UNCHANGED registers, \A s \in Threads \ {t} : call[s]' = call[s]
    PROVE  EnrollInv'
  <1>1. call[t].limit \in Nat /\ ~At(t, "enroll")'
    BY AtFits, NextStep, HackathonsAssumption DEF UpdateHackathon, Fits
  <1>2. \A h : Enrolled(h)' = Enrolled(h) /\ Enrollers(h)' \subseteq Enrollers(h)
    BY <1>1, EnrollersFewer DEF Enrolled
  <1>3. ASSUME NEW x \in hackathons, NEW y, y.id = x.id,
               \/ y.limit = x.limit /\ y.peak = x.peak
               \/ /\ y.limit = call[t].limit
                  /\ y.peak = Higher(x.peak, call[t].limit)
        PROVE  LimitOK(y) /\ EnrollOK(y)'
    <2>1. LimitOK(x) /\ EnrollOK(x) /\ x.peak \in Nat /\ x.limit \in Nat
      BY PeakNat DEF EnrollInv
    <2>2. /\ y.peak \in Nat /\ LimitOK(y)
          /\ y.peak # 0 => x.peak # 0 /\ y.peak >= x.peak
      BY <1>1, <1>3, <2>1 DEF LimitOK, Higher
    <2>3. /\ Cardinality(Enrolled(x.id)') + Cardinality(Enrollers(x.id)')
               <= Cardinality(Enrolled(x.id)) + Cardinality(Enrollers(x.id))
          /\ Cardinality(Enrolled(x.id)') \in Nat
          /\ Cardinality(Enrollers(x.id)') \in Nat
      BY <1>2, <2>1, EnrollFewer
    <2>4. EnrollOK(y)'
      BY <1>3, <2>1, <2>2, <2>3, EnrollFinite DEF EnrollOK
    <2> QED BY <2>2, <2>4
  <1>4. ASSUME NEW y \in hackathons' PROVE LimitOK(y) /\ EnrollOK(y)'
    <2>1. PICK x \in hackathons :
            y = IF x.id = call[t].hackathon
                THEN [x EXCEPT !.limit = call[t].limit,
                               !.peak = Higher(x.peak, call[t].limit)]
                ELSE x
      BY DEF UpdateHackathon
    <2>2. x \in HackathonRows
      BY DEF TypeInv, HackathonsOK
    <2>3. /\ y.id = x.id
          /\ \/ y.limit = x.limit /\ y.peak = x.peak
             \/ /\ y.limit = call[t].limit
                /\ y.peak = Higher(x.peak, call[t].limit)
      BY <2>1, <2>2 DEF HackathonRows
    <2> QED BY <1>3, <2>3
  <1> QED BY <1>4 DEF EnrollInv, LimitOK

LEMMA EnrollCheck ==
    ASSUME TypeInv, EnrollInv, NEW t \in Threads, CheckEnrollment(t),
           \A s \in Threads \ {t} : call[s]' = call[s]
    PROVE  EnrollInv'
  <1>1. UNCHANGED <<hackathons, registers>> /\ call[t] \in Calls(Steps)
        /\ At(t, "count")
    BY AtFits DEF CheckEnrollment, hackathonVars
  <1>2. CASE Answer(t)
    <2>1. \A h : Enrollers(h)' \subseteq Enrollers(h)
      BY <1>2, NextStep, EnrollersFewer
    <2> QED BY <1>1, <2>1, EnrollKept
  <1>3. CASE Open(call[t].hackathon) /\ Goto(t, "enroll")
    <2>1. PICK z \in hackathons :
            /\ z.id = call[t].hackathon
            /\ z.limit = 0 \/ z.limit > Cardinality(Enrolled(call[t].hackathon))
      BY <1>3 DEF Open
    <2>2. call[t]' = [call[t] EXCEPT !.step = "enroll"]
      BY <1>3 DEF Goto, TypeInv, CallsOK
    <2>3. call[t]'.hackathon = call[t].hackathon
      BY <1>1, <2>2 DEF Calls
    <2> SUFFICES ASSUME NEW x \in hackathons PROVE LimitOK(x) /\ EnrollOK(x)'
      BY <1>1 DEF EnrollInv, LimitOK
    <2>4. LimitOK(x) /\ EnrollOK(x) /\ x.limit \in Nat /\ x.peak \in Nat
      BY PeakNat DEF EnrollInv
    <2>5. Enrolled(x.id)' = Enrolled(x.id)
      BY <1>1 DEF Enrolled
    <2>6. CASE x.id = call[t].hackathon
      <3>1. x = z
        BY <2>1, <2>6 DEF TypeInv, HackathonsOK
      <3>2. /\ Cardinality(Enrollers(x.id)') <= Cardinality(Threads)
            /\ Cardinality(Enrollers(x.id)') \in Nat
        BY HackathonsAssumption, FS_Subset, FS_CardinalityType DEF Enrollers
      <3>3. x.peak # 0 => Cardinality(Enrolled(x.id)) < x.peak
        BY <2>1, <2>4, <2>6, <3>1, EnrollFinite DEF LimitOK
      <3> QED BY <2>4, <2>5, <3>2, <3>3, EnrollFinite DEF EnrollOK
    <2>7. CASE x.id # call[t].hackathon
      <3>1. Enrollers(x.id)' \subseteq Enrollers(x.id)
        BY <2>3, <2>7 DEF Enrollers, At
      <3> QED BY <2>4, <2>5, <3>1, EnrollFewer, EnrollFinite DEF EnrollOK
    <2> QED BY <2>6, <2>7
  <1> QED BY <1>2, <1>3 DEF CheckEnrollment

LEMMA EnrollCreate ==
    ASSUME TypeInv, EnrollInv, NEW t \in Threads, CreateRegistration(t),
           \A s \in Threads \ {t} : call[s]' = call[s]
    PROVE  EnrollInv'
  <1> DEFINE r == [id |-> Cardinality(registers) + 1, user |-> call[t].who,
                   hackathon |-> call[t].hackathon]
  <1>1. /\ hackathons' = hackathons /\ registers' = registers \cup {r}
        /\ At(t, "enroll") /\ ~At(t, "enroll")'
    BY NextStep DEF CreateRegistration, hackathonVars
  <1> SUFFICES ASSUME NEW x \in hackathons PROVE LimitOK(x) /\ EnrollOK(x)'
    BY <1>1 DEF EnrollInv, LimitOK
  <1>2. LimitOK(x) /\ EnrollOK(x) /\ x.peak \in Nat
    BY PeakNat DEF EnrollInv
  <1>3. Enrollers(x.id)' \subseteq Enrollers(x.id) \ {t}
    BY <1>1, EnrollersFewer
  <1>4. CASE call[t].hackathon = x.id
    <2>1. t \in Enrollers(x.id)
      BY <1>1, <1>4 DEF Enrollers
    <2>2. /\ IsFiniteSet(Enrollers(x.id) \ {t})
          /\ Cardinality(Enrollers(x.id) \ {t}) = Cardinality(Enrollers(x.id)) - 1
      BY <2>1, EnrollFinite, FS_RemoveElement
    <2>3. /\ Cardinality(Enrollers(x.id)') <= Cardinality(Enrollers(x.id)) - 1
          /\ Cardinality(Enrollers(x.id)') \in Nat
      BY <1>3, <2>2, FS_Subset, FS_CardinalityType
    <2>4. Enrolled(x.id)' = Enrolled(x.id) \cup {r}
      BY <1>1, <1>4 DEF Enrolled
    <2> HIDE DEF r
    <2>5. /\ Cardinality(Enrolled(x.id)') <= Cardinality(Enrolled(x.id)) + 1
          /\ Cardinality(Enrolled(x.id)') \in Nat
      BY <2>4, EnrollFinite, AtMostOneMore
    <2> QED BY <1>2, <2>3, <2>5, EnrollFinite DEF EnrollOK
  <1>5. CASE call[t].hackathon # x.id
    <2>1. Enrolled(x.id)' = Enrolled(x.id)
      BY <1>1, <1>5 DEF Enrolled
    <2>2. Enrollers(x.id)' \subseteq Enrollers(x.id)
      BY <1>3
    <2> QED BY <1>2, <2>1, <2>2, EnrollFewer, EnrollFinite DEF EnrollOK
  <1> QED BY <1>4, <1>5

LEMMA EnrollInvStep == TypeInv /\ EnrollInv /\ [Next]_vars => EnrollInv'
  <1> SUFFICES ASSUME TypeInv, EnrollInv, [Next]_vars PROVE EnrollInv'
    OBVIOUS
  <1>1. CASE UNCHANGED vars
    BY <1>1, EnrollKept DEF vars, hackathonVars, Enrollers, At
  <1>2. CASE Restart
    BY <1>2, EnrollKept DEF Restart, Crash, Enrollers, At
  <1>3. ASSUME NEW t \in Threads, Step(t) PROVE EnrollInv'
    <2>1. \A s \in Threads \ {t} : call[s]' = call[s]
      BY <1>3, Others
    <2>2. CASE /\ UNCHANGED <<hackathons, registers>> /\ ~At(t, "enroll")'
      BY <2>1, <2>2, EnrollersFewer, EnrollKept
    <2>3. CASE Enters(t)
      <3>1. UNCHANGED registers
        BY <1>3, <2>3 DEF Enters, Step, EnterRegister, EnterCreate,
           EnterUpdate, EnterAdd, EnterDelete, FindRegister, CheckEnrollment,
           CreateRegistration, At, Request
      <3> QED BY <2>2, <2>3, <3>1, EntersOK DEF FirstSteps
    <2>4. CASE HackathonStep(t) /\ UNCHANGED registers
      <3>1. CASE InsertHackathon(t)
        <4>1. call[t]'.step = "creator"
          <5>1. call[t] \in Calls(Steps)
            BY <3>1, AtFits DEF InsertHackathon
          <5>2. call[t]' = [call[t] EXCEPT !.step = "creator",
                              !.hackathon = Cardinality(hackathons) + 1]
            BY <3>1, <5>1 DEF InsertHackathon, TypeInv, CallsOK
          <5> QED BY <5>1, <5>2 DEF Calls
        <4> QED BY <2>1, <2>4, <3>1, <4>1, EnrollInsertHackathon DEF At
      <3>2. CASE UpdateHackathon(t)
        BY <2>1, <2>4, <3>2, EnrollUpdate
      <3>3. CASE InsertCreator(t) \/ AddAdmin(t) \/ DeleteAdmin(t)
        BY <2>2, <2>4, <3>3, NextStep DEF InsertCreator, AddAdmin, DeleteAdmin
      <3>4. CASE FindAdmin(t) \/ FindDeletable(t)
        BY <2>2, <2>4, <3>4, NextStep DEF FindAdmin, FindDeletable, At
      <3> QED BY <2>3, <2>4, <3>1, <3>2, <3>3, <3>4 DEF HackathonStep, Enters
    <2>5. CASE FindRegister(t)
      BY <2>2, <2>5, NextStep DEF FindRegister, hackathonVars, At
    <2> QED
      BY <1>3, <2>1, <2>3, <2>4, <2>5, EnrollCheck, EnrollCreate
      DEF Step, Enters
  <1> QED BY <1>1, <1>2, <1>3 DEF Next

LEMMA EnrollInvBounds == TypeInv /\ EnrollInv => EnrollmentBounded
  BY EnrollFinite, PeakNat DEF EnrollInv, EnrollOK, EnrollmentBounded

LEMMA EnrollInvInit == Init => EnrollInv
  BY DEF Init, HackathonInit, EnrollInv

(* The count and the insert are two transactions: a hackathon never has as *)
(* many registrations as the highest limit it has had and the threads of   *)
(* the server together.                                                    *)
THEOREM EnrollmentAlwaysBounded == Spec => []EnrollmentBounded
  BY TypeInvInit, TypeInvStep, EnrollInvInit, EnrollInvStep, EnrollInvBounds,
     PTL
  DEF Spec

----------------------------------------------------------------------------
(* One registration per user *)

(* Nobody is registered twice at a time, and who has been looked for is    *)
(* not registered.                                                         *)
OneInv ==
    /\ \A s, t \in Registering : call[s].who = call[t].who => s = t
    /\ \A t \in Threads : At(t, "count") \/ At(t, "enroll") =>
            RegistersOf(call[t].hackathon, call[t].who) = {}
    /\ \A r, s \in registers :
            r.user = s.user /\ r.hackathon = s.hackathon => r = s

(* A call that moves on keeps its user, or the call has been answered.     *)
LEMMA OneKept ==
    ASSUME TypeInv, OneInv, NEW t \in Threads, UNCHANGED registers,
           \A s \in Threads \ {t} : call[s]' = call[s],
           t \in Registering' => t \in Registering /\ call[t]'.who = call[t].who,
           At(t, "count")' \/ At(t, "enroll")' =>
               RegistersOf(call[t]'.hackathon, call[t]'.who) = {}
    PROVE  OneInv'
  <1>1. \A s \in Registering' : s \in Registering /\ call[s]'.who = call[s].who
    BY DEF Registering
  <1>2. \A s, x \in Registering' : call[s]'.who = call[x]'.who => s = x
    BY <1>1 DEF OneInv
  <1>3. ASSUME NEW s \in Threads, At(s, "count")' \/ At(s, "enroll")'
        PROVE  RegistersOf(call[s]'.hackathon, call[s]'.who) = {}
    <2>1. CASE s = t
      BY <1>3, <2>1
    <2>2. CASE s # t
      BY <1>3, <2>2 DEF OneInv, At
    <2> QED BY <2>1, <2>2
  <1>4. \A h, u : RegistersOf(h, u)' = RegistersOf(h, u)
    BY DEF RegistersOf
  <1> QED BY <1>2, <1>3, <1>4 DEF OneInv, RegistersOf

LEMMA OneEnter ==
    ASSUME TypeInv, OneInv, OneAtATime, NEW t \in Threads,
           NEW u \in Users, NEW w \in Users, NEW h \in 1..MaxHackathons,
           EnterRegister(t, u, h, w)
    PROVE  OneInv'
  <1> DEFINE c == [step |-> "find_register", hackathon |-> h, who |-> w,
                   row |-> None, limit |-> None]
  <1>1. /\ UNCHANGED registers /\ \A x \in Registering : call[x].who # w
        /\ call' = [call EXCEPT ![t] = c]
    BY DEF EnterRegister, Request
  <1>2. call[t]' = c /\ \A s \in Threads \ {t} : call[s]' = call[s]
    BY <1>1 DEF TypeInv, CallsOK
  <1>3. Registering' \subseteq Registering \cup {t} /\ call[t]'.who = w
    BY <1>2 DEF Registering
  <1>4. \A s, x \in Registering' : call[s]'.who = call[x]'.who => s = x
    <2> SUFFICES ASSUME NEW s \in Registering', NEW x \in Registering',
                        call[s]'.who = call[x]'.who, s # x
                 PROVE  FALSE
      OBVIOUS
    <2>1. CASE s = t
      <3>1. x \in Registering /\ x \in Threads \ {t}
        BY <1>3, <2>1 DEF Registering
      <3> QED BY <1>1, <1>2, <1>3, <2>1, <3>1
    <2>2. CASE x = t
      <3>1. s \in Registering /\ s \in Threads \ {t}
        BY <1>3, <2>2 DEF Registering
      <3> QED BY <1>1, <1>2, <1>3, <2>2, <3>1
    <2>3. CASE s # t /\ x # t
      <3>1. s \in Registering /\ x \in Registering
        BY <1>3, <2>3
      <3> QED BY <1>2, <2>3, <3>1 DEF OneInv, Registering
    <2> QED BY <2>1, <2>2, <2>3
  <1>5. \A s \in Threads : At(s, "count")' \/ At(s, "enroll")' =>
            s # t /\ (At(s, "count") \/ At(s, "enroll"))
    BY <1>2 DEF At
  <1>6. \A i, v : RegistersOf(i, v)' = RegistersOf(i, v)
    BY <1>1 DEF RegistersOf
  <1>7. \A s \in Threads : At(s, "count")' \/ At(s, "enroll")' =>
            RegistersOf(call[s]'.hackathon, call[s]'.who) = {}
    BY <1>2, <1>5 DEF OneInv
  <1> QED BY <1>1, <1>4, <1>6, <1>7 DEF OneInv, RegistersOf

LEMMA OneFind ==
    ASSUME TypeInv, OneInv, NEW t \in Threads, FindRegister(t) \/ CheckEnrollment(t),
           \A s \in Threads \ {t} : call[s]' = call[s]
    PROVE  OneInv'
  <1>1. /\ UNCHANGED registers /\ call[t] \in Calls(Steps) /\ call[t] # None
        /\ t \in Registering
    BY AtFits DEF FindRegister, CheckEnrollment, hackathonVars, Registering,
       RegisterSteps, At
  <1>2. CASE Answer(t)
    <2>1. t \notin Registering'
      BY <1>2 DEF Answer, Registering, TypeInv, CallsOK
    <2> QED BY <1>1, <1>2, <2>1, NextStep, OneKept
  <1>3. ASSUME NEW step \in RegisterSteps, Goto(t, step),
               RegistersOf(call[t].hackathon, call[t].who) = {}
        PROVE  OneInv'
    <2>1. call[t]' = [call[t] EXCEPT !.step = step]
      BY <1>3 DEF Goto, TypeInv, CallsOK
    <2>2. /\ call[t]'.hackathon = call[t].hackathon
          /\ call[t]'.who = call[t].who
      BY <1>1, <2>1 DEF Calls
    <2> QED BY <1>1, <1>3, <2>2, OneKept
  <1>4. CheckEnrollment(t) => RegistersOf(call[t].hackathon, call[t].who) = {}
    BY DEF CheckEnrollment, OneInv
  <1> QED BY <1>2, <1>3, <1>4 DEF FindRegister, CheckEnrollment, RegisterSteps

LEMMA OneCreate ==
    ASSUME TypeInv, OneInv, NEW t \in Threads, CreateRegistration(t),
           \A s \in Threads \ {t} : call[s]' = call[s]
    PROVE  OneInv'
  <1> DEFINE r == [id |-> Cardinality(registers) + 1, user |-> call[t].who,
                   hackathon |-> call[t].hackathon]
  <1>1. /\ registers' = registers \cup {r} /\ At(t, "enroll")
        /\ \A step : ~At(t, step)'
        /\ RegistersOf(call[t].hackathon, call[t].who) = {}
    BY NextStep DEF CreateRegistration, OneInv
  <1>2. r.user = call[t].who /\ r.hackathon = call[t].hackathon
    OBVIOUS
  <1> HIDE DEF r
  <1>3. t \in Registering /\ Registering' \subseteq Registering \ {t}
    BY <1>1 DEF Registering, RegisterSteps, At
  <1>4. \A s \in Registering' : call[s]' = call[s]
    BY <1>3 DEF Registering
  <1>5. \A s, x \in Registering' : call[s]'.who = call[x]'.who => s = x
    BY <1>3, <1>4 DEF OneInv
  <1>6. ASSUME NEW s \in Threads, At(s, "count")' \/ At(s, "enroll")'
        PROVE  RegistersOf(call[s].hackathon, call[s].who)' = {}
    <2>1. s # t /\ call[s]' = call[s] /\ (At(s, "count") \/ At(s, "enroll"))
      BY <1>1, <1>6 DEF At
    <2>2. s \in Registering
      BY <2>1 DEF Registering, RegisterSteps, At
    <2>3. call[s].who # call[t].who
      BY <1>3, <2>1, <2>2 DEF OneInv
    <2>4. RegistersOf(call[s].hackathon, call[s].who) = {}
      BY <2>1 DEF OneInv
    <2>5. \A x \in registers : ~(x.hackathon = call[s].hackathon
                                 /\ x.user = call[s].who)
      BY <2>4 DEF RegistersOf
    <2>6. \A x \in registers' : ~(x.hackathon = call[s]'.hackathon
                                  /\ x.user = call[s]'.who)
      <3>1. ~(r.hackathon = call[s]'.hackathon /\ r.user = call[s]'.who)
        BY <1>2, <2>1, <2>3
      <3>2. \A x \in registers : ~(x.hackathon = call[s]'.hackathon
                                   /\ x.user = call[s]'.who)
        BY <2>1, <2>5
      <3> QED BY <1>1, <3>1, <3>2
    <2> QED BY <2>6 DEF RegistersOf
  <1>7. \A x, y \in registers' :
            x.user = y.user /\ x.hackathon = y.hackathon => x = y
    <2>1. \A x \in registers : ~(x.hackathon = r.hackathon /\ x.user = r.user)
      BY <1>1, <1>2 DEF RegistersOf
    <2> QED BY <1>1, <2>1 DEF OneInv
  <1> QED BY <1>5, <1>6, <1>7 DEF OneInv

LEMMA HackathonCalls ==
    ASSUME TypeInv, NEW t \in Threads, HackathonStep(t), NEW step \in RegisterSteps
    PROVE  ~At(t, step)'
  <1> USE DEF RegisterSteps
  <1>1. ASSUME NEW c, Request(t, c), c.step \notin RegisterSteps
        PROVE  ~At(t, step)'
    BY <1>1 DEF Request, At, TypeInv, CallsOK
  <1>2. ASSUME NEW u \in Users, EnterCreate(t, u) PROVE ~At(t, step)'
    BY <1>1, <1>2 DEF EnterCreate
  <1>3. ASSUME NEW u \in Users, NEW h \in 1..MaxHackathons, NEW l \in Limits,
               EnterUpdate(t, u, h, l)
        PROVE  ~At(t, step)'
    BY <1>1, <1>3 DEF EnterUpdate
  <1>4. ASSUME NEW u \in Users, NEW h \in 1..MaxHackathons, NEW w \in Users,
               EnterAdd(t, u, h, w)
        PROVE  ~At(t, step)'
    BY <1>1, <1>4 DEF EnterAdd
  <1>5. ASSUME NEW u \in Users, NEW h \in 1..MaxHackathons,
               NEW a \in 1..(nextAdmin - 1), EnterDelete(t, u, h, a)
        PROVE  ~At(t, step)'
    BY <1>1, <1>5 DEF EnterDelete
  <1>6. CASE InsertHackathon(t)
    <2>1. call[t] \in Calls(Steps)
      BY <1>6, AtFits DEF InsertHackathon
    <2>2. call[t]' = [call[t] EXCEPT !.step = "creator",
                        !.hackathon = Cardinality(hackathons) + 1]
      BY <1>6, <2>1 DEF InsertHackathon, TypeInv, CallsOK
    <2>3. call[t]'.step = "creator"
      BY <2>1, <2>2 DEF Calls
    <2> QED BY <2>3 DEF At
  <1>7. CASE \/ InsertCreator(t) \/ UpdateHackathon(t)
             \/ AddAdmin(t) \/ DeleteAdmin(t)
    BY <1>7, NextStep DEF InsertCreator, UpdateHackathon, AddAdmin, DeleteAdmin
  <1>8. CASE FindAdmin(t) \/ FindDeletable(t)
    <2>1. call[t] # None
      BY <1>8 DEF FindAdmin, FindDeletable, At
    <2>2. Answer(t) \/ Goto(t, "add_admin") \/ Goto(t, "delete_rel")
      BY <1>8 DEF FindAdmin, FindDeletable
    <2> QED BY <2>1, <2>2, NextStep
  <1> QED BY <1>2, <1>3, <1>4, <1>5, <1>6, <1>7, <1>8 DEF HackathonStep

LEMMA OneInvStep == TypeInv /\ OneAtATime /\ OneInv /\ [Next]_vars => OneInv'
  <1> SUFFICES ASSUME TypeInv, OneAtATime, OneInv, [Next]_vars PROVE OneInv'
    OBVIOUS
  <1>1. CASE UNCHANGED vars
    BY <1>1 DEF vars, hackathonVars, OneInv, Registering, RegistersOf, At
  <1>2. CASE Restart
    BY <1>2 DEF Restart, Crash, OneInv, Registering, RegistersOf, At
  <1>3. ASSUME NEW t \in Threads, Step(t) PROVE OneInv'
    <2>1. \A s \in Threads \ {t} : call[s]' = call[s]
      BY <1>3, Others
    <2>2. CASE HackathonStep(t) /\ UNCHANGED registers
      <3>1. t \notin Registering'
        BY <2>2, HackathonCalls DEF Registering, At
      <3> QED BY <2>1, <2>2, <3>1, OneKept DEF Registering, RegisterSteps, At
    <2>3. CASE \E u, w \in Users, h \in 1..MaxHackathons :
                 EnterRegister(t, u, h, w)
      BY <2>3, OneEnter
    <2> QED BY <1>3, <2>1, <2>2, <2>3, OneFind, OneCreate DEF Step
  <1> QED BY <1>1, <1>2, <1>3 DEF Next

LEMMA OneInvInit == Init => OneInv
  BY DEF Init, HackathonInit, OneInv, Registering, At

LEMMA OneInvOne == (OneAtATime => OneInv) => OneRegistration
  BY DEF OneInv, OneRegistration

(* While nobody registers a user twice at a time, nobody is registered     *)
(* twice, however the user's and the administrators' requests interleave.  *)
THEOREM OneRegistrationAlways == Spec => []OneRegistration
  <1> DEFINE Inv == OneAtATime => OneInv
  <1>1. Init => Inv
    BY OneInvInit
  <1>2. TypeInv /\ Inv /\ [Next]_vars => Inv'
    BY OneInvStep
  <1>3. Inv => OneRegistration
    BY OneInvOne
  <1> HIDE DEF Inv
  <1> QED BY <1>1, <1>2, <1>3, TypeInvInit, TypeInvStep, PTL DEF Spec

=============================================================================
