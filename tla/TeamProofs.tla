----------------------------- MODULE TeamProofs -----------------------------
(***************************************************************************)
(* Team, for any number of threads, users, names and rows: types always;   *)
(* for patient users, one team per user and the promise of Membership.     *)
(***************************************************************************)
EXTENDS Team, TLAPS

----------------------------------------------------------------------------
(* Types *)

TablesOK ==
    /\ teams \subseteq TeamRows /\ members \subseteq MemberRows
    /\ nextTeam \in Ids /\ nextMember \in Ids

ThreadsOK ==
    /\ pc \in [Threads -> Steps]
    /\ req \in [Threads -> Requests \cup {None}]
    /\ \A t \in Threads : pc[t] # "idle" => req[t] \in Requests
    /\ team \in [Threads -> Ids \cup {None}]
    /\ row \in [Threads -> Ids \cup {None}]

TypeInv == TablesOK /\ ThreadsOK /\ OpsFit

LEMMA TypeInvInit == Init => TypeInv
  BY DEF Init, TypeInv, TablesOK, ThreadsOK, OpsFit, Ids, Steps

(* A request, the next transaction of a thread, and an answer. *)
LEMMA RequestKeeps ==
    ASSUME TypeInv, NEW t \in Threads, NEW o \in AllOps, NEW u \in Users,
           NEW n \in Names, NEW w \in Users, NEW k \in Ids \cup {None},
           NEW step \in {"find", "name"}, Request(t, o, u, n, w, k, step)
    PROVE  TypeInv'
  <1>1. [op |-> o, user |-> u, name |-> n, who |-> w] \in Requests
    BY DEF Requests
  <1>2. TablesOK'
    BY DEF TypeInv, TablesOK, Request, tableVars
  <1>3. ThreadsOK'
    BY <1>1 DEF TypeInv, ThreadsOK, Request, Steps, tableVars
  <1>4. OpsFit'
    BY DEF TypeInv, ThreadsOK, OpsFit, Request, Steps
  <1> QED BY <1>2, <1>3, <1>4 DEF TypeInv

LEMMA GotoKeeps ==
    ASSUME ThreadsOK, OpsFit, NEW t \in Threads, pc[t] # "idle",
           NEW step \in Steps \ {"idle"}, Goto(t, step),
           step \in {"insert", "member"} => req[t].op \in {"create", "join"},
           step = "candidate" => req[t].op \in {"approve", "deny"}
    PROVE  (ThreadsOK /\ OpsFit)'
  BY DEF ThreadsOK, OpsFit, Goto, Steps

LEMMA AnswerKeeps ==
    ASSUME ThreadsOK, OpsFit, NEW t \in Threads, Answer(t)
    PROVE  (ThreadsOK /\ OpsFit)'
  BY DEF ThreadsOK, OpsFit, Answer, Steps

LEMMA TypeInvStep == TypeInv /\ [Next]_vars => TypeInv'
  <1> SUFFICES ASSUME TypeInv, [Next]_vars PROVE TypeInv'
    OBVIOUS
  <1> USE DEF TypeInv
  <1>1. ASSUME NEW t \in Threads, NEW u \in Users, NEW n \in Names, Enter(t, u, n)
        PROVE  TypeInv'
    BY <1>1, RequestKeeps DEF Enter, Enters, AllOps
  <1>2. ASSUME NEW t \in Threads, NEW u \in Users, NEW n \in Names,
               NEW o \in AllOps, NEW w \in Users, Call(t, o, u, n, w)
        PROVE  TypeInv'
    BY <1>2, RequestKeeps DEF Call
  <1>3. ASSUME NEW t \in Threads, NEW u \in Users, NEW n \in Names,
               NEW k \in teams, CallUpdate(t, u, k, n)
        PROVE  TypeInv'
    <2>1. k.id \in Ids
      BY DEF TablesOK, TeamRows
    <2> QED BY <1>3, <2>1, RequestKeeps DEF CallUpdate, AllOps
  <1>4. CASE Restart
    BY <1>4 DEF Restart, TablesOK, ThreadsOK, OpsFit, tableVars, Steps
  <1>5. CASE UNCHANGED vars
    BY <1>5 DEF vars, TablesOK, ThreadsOK, OpsFit, tableVars
  <1>6. ASSUME NEW t \in Threads, CheckName(t) PROVE TypeInv'
    <2>1. TablesOK'
      BY <1>6 DEF CheckName, TablesOK, tableVars
    <2> QED BY <1>6, <2>1, GotoKeeps, AnswerKeeps DEF CheckName, Steps
  <1>7. ASSUME NEW t \in Threads, InsertTeam(t) PROVE TypeInv'
    <2>1. req[t] \in Requests /\ req[t].op \in {"create", "join"}
      BY <1>7 DEF InsertTeam, ThreadsOK, OpsFit
    <2>2. [id |-> nextTeam, name |-> req[t].name, leader |-> req[t].user]
            \in TeamRows
      BY <2>1 DEF TablesOK, Requests, TeamRows
    <2>3. TablesOK'
      BY <1>7, <2>2 DEF InsertTeam, TablesOK, Ids
    <2>4. (ThreadsOK /\ OpsFit)'
      BY <1>7, <2>1 DEF InsertTeam, TablesOK, ThreadsOK, OpsFit, Steps
    <2> QED BY <2>3, <2>4
  <1>8. ASSUME NEW t \in Threads, InsertMember(t) PROVE TypeInv'
    <2>1. req[t] \in Requests
      BY <1>8 DEF InsertMember, ThreadsOK
    <2>2. ASSUME Exists(team[t]) PROVE TablesOK'
      <3>1. team[t] \in Ids
        BY <2>2 DEF Exists, TablesOK, TeamRows
      <3>2. [id |-> nextMember, user |-> req[t].user, team |-> team[t],
              status |-> IF req[t].op = "create" THEN "Approved" ELSE "Init"]
            \in MemberRows
        BY <2>1, <3>1 DEF TablesOK, Requests, MemberRows
      <3>3. PICK m \in MemberRows : members' = members \cup {m}
        BY <1>8, <2>2, <3>2 DEF InsertMember
      <3>4. nextMember' = nextMember + 1 /\ UNCHANGED <<teams, nextTeam>>
        BY <1>8, <2>2 DEF InsertMember
      <3>5. members' \subseteq MemberRows
        BY <3>3 DEF TablesOK
      <3>6. nextMember' \in Ids
        BY <3>4 DEF TablesOK, Ids
      <3> QED BY <3>4, <3>5, <3>6 DEF TablesOK
    <2>3. TablesOK'
      BY <1>8, <2>2 DEF InsertMember, TablesOK
    <2> QED BY <1>8, <2>3, AnswerKeeps DEF InsertMember
  <1>9. ASSUME NEW t \in Threads, FindTeam(t) PROVE TypeInv'
    <2>1. TablesOK'
      BY <1>9 DEF FindTeam, TablesOK, tableVars
    <2>2. \A k \in Named(req[t].name) : k.id \in Ids
      BY DEF Named, TablesOK, TeamRows
    <2>3. (ThreadsOK /\ OpsFit)'
      BY <1>9, <2>2, AnswerKeeps DEF FindTeam, ThreadsOK, OpsFit, Steps
    <2> QED BY <2>1, <2>3
  <1>10. ASSUME NEW t \in Threads, Validate(t) PROVE TypeInv'
    <2>1. TablesOK'
      BY <1>10 DEF Validate, TablesOK, tableVars
    <2> QED BY <1>10, <2>1, GotoKeeps, AnswerKeeps
            DEF Validate, Validated, Steps
  <1>11. ASSUME NEW t \in Threads, DeleteMembers(t) PROVE TypeInv'
    <2>1. TablesOK'
      BY <1>11 DEF DeleteMembers, TablesOK
    <2> QED BY <1>11, <2>1, GotoKeeps DEF DeleteMembers, Steps
  <1>12. ASSUME NEW t \in Threads, DeleteTeam(t) PROVE TypeInv'
    <2>1. TablesOK'
      BY <1>12 DEF DeleteTeam, TablesOK, MemberRows, TeamRows
    <2> QED BY <1>12, <2>1, AnswerKeeps DEF DeleteTeam
  <1>13. ASSUME NEW t \in Threads, FindCandidate(t) PROVE TypeInv'
    <2>1. TablesOK'
      BY <1>13 DEF FindCandidate, TablesOK, tableVars
    <2>2. \A m \in MembershipsOf(req[t].who) : m.id \in Ids
      BY DEF MembershipsOf, TablesOK, MemberRows
    <2>3. (ThreadsOK /\ OpsFit)'
      BY <1>13, <2>2, AnswerKeeps DEF FindCandidate, ThreadsOK, OpsFit, Steps
    <2> QED BY <2>1, <2>3
  <1>14. ASSUME NEW t \in Threads, Approve(t) \/ Deny(t) PROVE TypeInv'
    <2>1. TablesOK'
      BY <1>14 DEF Approve, Deny, TablesOK, MemberRows
    <2> QED BY <1>14, <2>1, AnswerKeeps DEF Approve, Deny
  <1>15. ASSUME NEW t \in Threads, CheckLeader(t) PROVE TypeInv'
    <2>1. TablesOK'
      BY <1>15 DEF CheckLeader, TablesOK, tableVars
    <2> QED BY <1>15, <2>1, GotoKeeps, AnswerKeeps DEF CheckLeader, Steps
  <1>16. ASSUME NEW t \in Threads, Leave(t) \/ Kick(t) PROVE TypeInv'
    <2>1. TablesOK'
      BY <1>16 DEF Leave, Kick, TablesOK
    <2> QED BY <1>16, <2>1, AnswerKeeps DEF Leave, Kick
  <1>17. ASSUME NEW t \in Threads, CountMembers(t) PROVE TypeInv'
    <2>1. TablesOK'
      BY <1>17 DEF CountMembers, TablesOK, tableVars
    <2>2. (ThreadsOK /\ OpsFit)'
      BY <1>17, AnswerKeeps DEF CountMembers, ThreadsOK, OpsFit, Steps,
         Requests, AllOps
    <2> QED BY <2>1, <2>2
  <1>18. ASSUME NEW t \in Threads, CheckNewLeader(t) PROVE TypeInv'
    <2>1. TablesOK'
      BY <1>18 DEF CheckNewLeader, TablesOK, tableVars
    <2> QED BY <1>18, <2>1, GotoKeeps, AnswerKeeps DEF CheckNewLeader, Steps
  <1>19. ASSUME NEW t \in Threads, Promote(t) \/ Rename(t) PROVE TypeInv'
    <2>1. req[t] \in Requests
      BY <1>19 DEF Promote, Rename, ThreadsOK
    <2>2. TablesOK'
      BY <1>19, <2>1 DEF Promote, Rename, UpdateTeam, TablesOK, TeamRows,
            Requests
    <2> QED BY <1>19, <2>2, AnswerKeeps DEF Promote, Rename, UpdateTeam
  <1> QED BY <1>1, <1>2, <1>3, <1>4, <1>5, <1>6, <1>7, <1>8, <1>9, <1>10,
             <1>11, <1>12, <1>13, <1>14, <1>15, <1>16, <1>17, <1>18, <1>19
          DEF Next, Work

LEMMA TypeInvAlways == Spec => []TypeInv
  BY TypeInvInit, TypeInvStep, PTL DEF Spec

(* Every row and every request in progress is well typed, whatever rows    *)
(* other requests insert, change and delete in between.                    *)
THEOREM TeamTypeCorrect == Spec => []TypeOK
  <1>1. TypeInv => TypeOK
    BY DEF TypeInv, TablesOK, ThreadsOK, TypeOK
  <1> QED BY <1>1, TypeInvAlways, PTL

----------------------------------------------------------------------------
(* One team per user *)

LEMMA RequestAlone ==
    ASSUME TypeInv, TeamInv, OneAtATime, NEW t \in Threads, NEW o, NEW u,
           NEW n, NEW w, NEW k, NEW step, Request(t, o, u, n, w, k, step),
           o \in {"create", "join"} => MembershipsOf(u) = {},
           step \in {"find", "name"}
    PROVE  (OneTeamPerUser /\ EntersAlone /\ EntersWithout)'
  <1>1. OneTeamPerUser'
    BY DEF TeamInv, OneTeamPerUser, Request, tableVars
  <1>2. EntersAlone'
    BY DEF TeamInv, TypeInv, ThreadsOK, EntersAlone, Request, Busy
  <1>3. EntersWithout'
    <2>1. /\ req'[t].user = u /\ req'[t].op = o /\ pc'[t] = step
          /\ \A s \in Threads \ {t} : req'[s] = req[s] /\ pc'[s] = pc[s]
          /\ members' = members
      BY DEF TypeInv, ThreadsOK, Request, tableVars
    <2> QED BY <2>1 DEF TeamInv, EntersWithout, Entering, MembershipsOf
  <1> QED BY <1>1, <1>2, <1>3

(* No user gets a membership who has none. *)
NoneInserted ==
    \A m \in members' : \E old \in members : old.user = m.user

(* Thread t goes on with its request, or answers; the others stay.         *)
GoesOn(t) ==
    /\ \A s \in Threads \ {t} : pc'[s] = pc[s] /\ req'[s] = req[s]
    /\ pc[t] # "idle"
    /\ pc'[t] # "idle" => req'[t].user = req[t].user
    /\ Entering(t)' => Entering(t)

LEMMA GoesOnAlone ==
    ASSUME EntersAlone, EntersWithout, NEW t \in Threads, GoesOn(t),
           NoneInserted
    PROVE  (EntersAlone /\ EntersWithout)'
  <1>1. EntersAlone'
    BY DEF EntersAlone, GoesOn
  <1>2. ASSUME NEW s \in Threads, Entering(s)'
        PROVE  (MembershipsOf(req[s].user) = {})'
    <2>1. Entering(s) /\ req'[s].user = req[s].user
      BY <1>2 DEF GoesOn, Entering
    <2>2. \A m \in members : m.user # req[s].user
      BY <2>1 DEF EntersWithout, MembershipsOf
    <2> QED BY <2>1, <2>2 DEF NoneInserted, MembershipsOf
  <1> QED BY <1>1, <1>2 DEF EntersWithout

LEMMA GotoGoesOn ==
    ASSUME ThreadsOK, NEW t \in Threads, NEW step, Goto(t, step),
           pc[t] # "idle",
           step \in {"find", "name", "insert", "member"} => Entering(t)
    PROVE  GoesOn(t)
  <1>1. /\ \A s \in Threads \ {t} : pc'[s] = pc[s]
        /\ pc'[t] = step /\ req' = req
    BY DEF ThreadsOK, Goto
  <1> QED BY <1>1 DEF GoesOn, Entering

LEMMA AnswerGoesOn ==
    ASSUME ThreadsOK, NEW t \in Threads, Answer(t), pc[t] # "idle"
    PROVE  GoesOn(t)
  <1>1. /\ \A s \in Threads \ {t} : pc'[s] = pc[s] /\ req'[s] = req[s]
        /\ pc'[t] = "idle"
    BY DEF ThreadsOK, Answer
  <1> QED BY <1>1 DEF GoesOn, Entering

(* A transaction of a thread that inserts no membership. *)
LEMMA KeepsAlone ==
    ASSUME TypeInv, TeamInv, NEW t \in Threads, GoesOn(t),
           \/ members' \subseteq members
           \/ \E f : \E kept \in SUBSET members :
                /\ members' = {f[m] : m \in kept}
                /\ \A m \in kept : f[m].user = m.user
    PROVE  (OneTeamPerUser /\ EntersAlone /\ EntersWithout)'
  <1>1. CASE members' \subseteq members
    <2>1. OneTeamPerUser'
      BY <1>1 DEF TeamInv, OneTeamPerUser
    <2> QED BY <1>1, <2>1, GoesOnAlone DEF TeamInv, NoneInserted
  <1>2. ASSUME NEW f, NEW kept \in SUBSET members,
               members' = {f[m] : m \in kept},
               \A m \in kept : f[m].user = m.user
        PROVE  (OneTeamPerUser /\ EntersAlone /\ EntersWithout)'
    <2>1. OneTeamPerUser'
      BY <1>2 DEF TeamInv, OneTeamPerUser
    <2> QED BY <1>2, <2>1, GoesOnAlone DEF TeamInv, NoneInserted
  <1> QED BY <1>1, <1>2

LEMMA TeamInvInit == Init => TeamInv
  BY DEF Init, TeamInv, OneTeamPerUser, EntersAlone, EntersWithout, Entering,
         OpsFit

LEMMA TeamInvStep ==
    ASSUME OneAtATime, TypeInv, TeamInv, [Next]_vars
    PROVE  TeamInv'
  <1> DEFINE Goal == (OneTeamPerUser /\ EntersAlone /\ EntersWithout)'
  <1>0. OpsFit'
    BY TypeInvStep DEF TypeInv
  <1>t. ThreadsOK /\ OpsFit
    BY DEF TypeInv
  <1>1. ASSUME NEW t \in Threads, NEW u \in Users, NEW n \in Names, Enter(t, u, n)
        PROVE  Goal
    BY <1>1, RequestAlone DEF Enter, Enters
  <1>2. ASSUME NEW t \in Threads, NEW u \in Users, NEW n \in Names,
               NEW o \in AllOps, NEW w \in Users, Call(t, o, u, n, w)
        PROVE  Goal
    BY <1>2, RequestAlone DEF Call
  <1>3. ASSUME NEW t \in Threads, NEW u \in Users, NEW n \in Names,
               NEW k \in teams, CallUpdate(t, u, k, n)
        PROVE  Goal
    BY <1>3, RequestAlone DEF CallUpdate
  <1>4. ASSUME Restart PROVE Goal
    BY <1>4 DEF Restart, TeamInv, OneTeamPerUser, EntersAlone, EntersWithout,
                Entering, tableVars
  <1>5. ASSUME UNCHANGED vars PROVE Goal
    BY <1>5 DEF vars, TeamInv, OneTeamPerUser, EntersAlone, EntersWithout,
                Entering, MembershipsOf, tableVars
  <1>6. ASSUME NEW t \in Threads, CheckName(t) PROVE Goal
    <2>1. GoesOn(t)
      BY <1>6, <1>t, GotoGoesOn, AnswerGoesOn DEF CheckName, Entering
    <2> QED BY <1>6, <2>1, KeepsAlone DEF CheckName, tableVars
  <1>7. ASSUME NEW t \in Threads, InsertTeam(t) PROVE Goal
    <2>1. GoesOn(t)
      BY <1>7, <1>t DEF InsertTeam, ThreadsOK, GoesOn, Entering
    <2> QED BY <1>7, <2>1, KeepsAlone DEF InsertTeam
  <1>8. ASSUME NEW t \in Threads, InsertMember(t) PROVE Goal
    <2>1. GoesOn(t)
      BY <1>8, <1>t, AnswerGoesOn DEF InsertMember
    <2>2. CASE members' = members
      BY <2>1, <2>2, KeepsAlone
    <2>3. ASSUME NEW new, new.user = req[t].user, members' = members \cup {new}
          PROVE  Goal
      <3>1. \A m \in members : m.user # req[t].user
        BY <1>8 DEF InsertMember, TeamInv, EntersWithout, Entering,
                    MembershipsOf
      <3>2. OneTeamPerUser'
        BY <2>3, <3>1 DEF TeamInv, OneTeamPerUser
      <3>3. EntersAlone'
        BY <2>1 DEF TeamInv, EntersAlone, GoesOn
      <3>4. ASSUME NEW s \in Threads, Entering(s)'
            PROVE  (MembershipsOf(req[s].user) = {})'
        <4>1. pc'[t] = "idle"
          BY <1>8, <1>t DEF InsertMember, Answer, ThreadsOK
        <4>2. s # t /\ Entering(s) /\ req'[s].user = req[s].user
          BY <2>1, <3>4, <4>1 DEF GoesOn, Entering
        <4>3. req[s].user # req[t].user
          BY <1>8, <4>2 DEF InsertMember, TeamInv, EntersAlone, Entering
        <4>4. \A m \in members : m.user # req[s].user
          BY <4>2 DEF TeamInv, EntersWithout, MembershipsOf
        <4> QED BY <2>3, <4>2, <4>3, <4>4 DEF MembershipsOf
      <3> QED BY <3>2, <3>3, <3>4 DEF EntersWithout
    <2> QED BY <1>8, <2>2, <2>3 DEF InsertMember
  <1>9. ASSUME NEW t \in Threads, FindTeam(t) PROVE Goal
    <2>1. GoesOn(t)
      <3>1. CASE Answer(t)
        BY <1>9, <1>t, <3>1, AnswerGoesOn DEF FindTeam
      <3>2. CASE ~Answer(t)
        BY <1>9, <1>t, <3>2 DEF FindTeam, ThreadsOK, GoesOn, Entering
      <3> QED BY <3>1, <3>2
    <2> QED BY <1>9, <2>1, KeepsAlone DEF FindTeam, tableVars
  <1>10. ASSUME NEW t \in Threads, Validate(t) PROVE Goal
    <2>1. GoesOn(t)
      BY <1>10, <1>t, GotoGoesOn, AnswerGoesOn DEF Validate, Validated
    <2> QED BY <1>10, <2>1, KeepsAlone DEF Validate, tableVars
  <1>11. ASSUME NEW t \in Threads, DeleteMembers(t) PROVE Goal
    <2>1. GoesOn(t)
      BY <1>11, <1>t, GotoGoesOn DEF DeleteMembers
    <2> QED BY <1>11, <2>1, KeepsAlone DEF DeleteMembers
  <1>12. ASSUME NEW t \in Threads, DeleteTeam(t) PROVE Goal
    <2>1. GoesOn(t)
      BY <1>12, <1>t, AnswerGoesOn DEF DeleteTeam
    <2>2. PICK cascaded \in SUBSET MembersOf(team[t]) :
            members' = {IF m.team = team[t] THEN [m EXCEPT !.team = None] ELSE m :
                            m \in members \ cascaded}
      BY <1>12 DEF DeleteTeam
    <2> DEFINE f == [m \in members |->
                        IF m.team = team[t] THEN [m EXCEPT !.team = None] ELSE m]
    <2>3. members' = {f[m] : m \in members \ cascaded}
      BY <2>2
    <2>4. \A m \in members : f[m].user = m.user
      BY DEF TypeInv, TablesOK, MemberRows
    <2>5. members \ cascaded \in SUBSET members
      OBVIOUS
    <2> HIDE DEF f
    <2>6. \E g : \E kept \in SUBSET members :
            /\ members' = {g[m] : m \in kept}
            /\ \A m \in kept : g[m].user = m.user
      BY <2>3, <2>4, <2>5
    <2> QED BY <2>1, <2>6, KeepsAlone
  <1>13. ASSUME NEW t \in Threads, FindCandidate(t) PROVE Goal
    <2>1. GoesOn(t)
      <3>1. CASE Answer(t)
        BY <1>13, <1>t, <3>1, AnswerGoesOn DEF FindCandidate
      <3>2. CASE ~Answer(t)
        BY <1>13, <1>t, <3>2 DEF FindCandidate, ThreadsOK, OpsFit, GoesOn,
                                 Entering
      <3> QED BY <3>1, <3>2
    <2> QED BY <1>13, <2>1, KeepsAlone DEF FindCandidate, tableVars
  <1>14. ASSUME NEW t \in Threads, Approve(t) PROVE Goal
    <2>1. GoesOn(t)
      BY <1>14, <1>t, AnswerGoesOn DEF Approve
    <2> DEFINE f == [m \in members |->
                        IF m.id = row[t] THEN [m EXCEPT !.status = "Approved"]
                                         ELSE m]
    <2>2. members' = {f[m] : m \in members}
      BY <1>14 DEF Approve
    <2>3. \A m \in members : f[m].user = m.user
      BY DEF TypeInv, TablesOK, MemberRows
    <2> HIDE DEF f
    <2> QED BY <2>1, <2>2, <2>3, KeepsAlone
  <1>15. ASSUME NEW t \in Threads, Deny(t) \/ Leave(t) \/ Kick(t) PROVE Goal
    <2>1. GoesOn(t)
      BY <1>15, <1>t, AnswerGoesOn DEF Deny, Leave, Kick
    <2>2. members' \subseteq members
      BY <1>15 DEF Deny, Leave, Kick
    <2> QED BY <2>1, <2>2, KeepsAlone
  <1>16. ASSUME NEW t \in Threads, CheckLeader(t) PROVE Goal
    <2>1. GoesOn(t)
      BY <1>16, <1>t, GotoGoesOn, AnswerGoesOn DEF CheckLeader
    <2> QED BY <1>16, <2>1, KeepsAlone DEF CheckLeader, tableVars
  <1>17. ASSUME NEW t \in Threads, CountMembers(t) PROVE Goal
    <2>1. GoesOn(t)
      <3>1. CASE Answer(t)
        BY <1>17, <1>t, <3>1, AnswerGoesOn DEF CountMembers
      <3>2. CASE ~Answer(t)
        <4>1. req[t] \in Requests
          BY <1>17, <1>t DEF CountMembers, ThreadsOK
        <4>2. /\ \A s \in Threads \ {t} : pc'[s] = pc[s] /\ req'[s] = req[s]
              /\ pc'[t] = "find"
              /\ req'[t].op = "dismiss" /\ req'[t].user = req[t].user
          BY <1>17, <1>t, <3>2, <4>1 DEF CountMembers, ThreadsOK, Requests
        <4> QED BY <1>17, <4>2 DEF CountMembers, GoesOn, Entering
      <3> QED BY <3>1, <3>2
    <2> QED BY <1>17, <2>1, KeepsAlone DEF CountMembers, tableVars
  <1>18. ASSUME NEW t \in Threads, CheckNewLeader(t) PROVE Goal
    <2>1. GoesOn(t)
      BY <1>18, <1>t, GotoGoesOn, AnswerGoesOn DEF CheckNewLeader
    <2> QED BY <1>18, <2>1, KeepsAlone DEF CheckNewLeader, tableVars
  <1>19. ASSUME NEW t \in Threads, Promote(t) \/ Rename(t) PROVE Goal
    <2>1. GoesOn(t)
      BY <1>19, <1>t, AnswerGoesOn DEF Promote, Rename, UpdateTeam
    <2> QED BY <1>19, <2>1, KeepsAlone DEF Promote, Rename, UpdateTeam
  <1>20. Goal
    BY <1>1, <1>2, <1>3, <1>4, <1>5, <1>6, <1>7, <1>8, <1>9, <1>10,
       <1>11, <1>12, <1>13, <1>14, <1>15, <1>16, <1>17, <1>18, <1>19
    DEF Next, Work
  <1> QED BY <1>0, <1>20 DEF TeamInv

LEMMA TeamInvAlways == ASSUME OneAtATime PROVE Spec => []TeamInv
  <1>1. TypeInv /\ TeamInv /\ [Next]_vars => TeamInv'
    BY TeamInvStep
  <1> QED BY <1>1, TeamInvInit, TypeInvAlways, PTL DEF Spec

(* Users who wait for each answer never have two memberships, however many *)
(* of them there are and whatever leaders and admins do at the same time.  *)
THEOREM PatientOneTeam ==
    ASSUME OneAtATime PROVE Spec => []OneTeamPerUser
  <1>1. TeamInv => OneTeamPerUser
    BY DEF TeamInv
  <1> QED BY <1>1, TeamInvAlways, PTL

(* The team invariant itself, which the runs check: requests of one user   *)
(* come one after the other, and whoever has passed the check for a        *)
(* membership still has none.                                              *)
THEOREM PatientTeamInvariant == ASSUME OneAtATime PROVE Spec => []TeamInv
  BY TeamInvAlways, PTL

----------------------------------------------------------------------------
(* The promise of Membership *)

LEMMA NoRow ==
    ASSUME NEW rows, NEW u, \A m \in rows : m.user # u
    PROVE  StandingIn(rows, u) = "Out" /\ TeamIn(rows, u) = None
  BY DEF StandingIn, TeamIn

LEMMA OneRow ==
    ASSUME NEW rows, \A a, b \in rows : a.user = b.user => a = b,
           NEW m \in rows
    PROVE  /\ StandingIn(rows, m.user) = m.status
           /\ TeamIn(rows, m.user) = m.team
  <1>1. {r \in rows : r.user = m.user} = {m}
    OBVIOUS
  <1> QED BY <1>1 DEF StandingIn, TeamIn

LEMMA StandingTyped ==
    ASSUME NEW rows \in SUBSET MemberRows,
           \A a, b \in rows : a.user = b.user => a = b, NEW u
    PROVE  /\ StandingIn(rows, u) \in {"Out", "Init", "Approved"}
           /\ TeamIn(rows, u) \in Ids \cup {None}
  <1>1. CASE \A m \in rows : m.user # u
    BY <1>1, NoRow
  <1>2. CASE \E m \in rows : m.user = u
    <2>1. PICK m \in rows : m.user = u
      BY <1>2
    <2>2. StandingIn(rows, u) = m.status /\ TeamIn(rows, u) = m.team
      BY <2>1, OneRow
    <2> QED BY <2>2 DEF MemberRows
  <1> QED BY <1>1, <1>2

(* The membership n that user u has after a step, and m, the one before.   *)
Kept(m, n) ==
    \/ n.team = m.team /\ n.status = m.status
    \/ n.team = m.team /\ m.status = "Init" /\ n.status = "Approved"
    \/ n.team = None /\ n.status = m.status

RowMoves(u) ==
    \/ \A n \in members' : n.user # u
    \/ \E m \in members, n \in members' : m.user = u /\ n.user = u /\ Kept(m, n)
    \/ /\ \A m \in members : m.user # u
       /\ \E n \in members' : n.user = u /\ n.team \in Ids

LEMMA MovesPromised ==
    ASSUME TypeInv, OneTeamPerUser, TypeInv', OneTeamPerUser',
           \A u \in Users : RowMoves(u)
    PROVE  Promise!Next
  <1>1. /\ members \in SUBSET MemberRows /\ members' \in SUBSET MemberRows
        /\ \A a, b \in members : a.user = b.user => a = b
        /\ \A a, b \in members' : a.user = b.user => a = b
    BY DEF TypeInv, TablesOK, OneTeamPerUser
  <1>2. \A u \in Users :
          /\ StandingIn(members, u) \in Promise!Standings
          /\ StandingIn(members', u) \in Promise!Standings
          /\ TeamIn(members', u) \in Ids \cup {None}
    BY <1>1, StandingTyped DEF Promise!Standings
  <1>3. ASSUME NEW u \in Users
        PROVE  \/ Promise!Apply(u) \/ Promise!Found(u) \/ Promise!Accept(u)
               \/ Promise!Leave(u) \/ Promise!LoseTeam(u) \/ Promise!Stay(u)
    <2>1. CASE \A n \in members' : n.user # u
      <3>1. StandingIn(members', u) = "Out" /\ TeamIn(members', u) = None
        BY <2>1, NoRow
      <3>2. Promise!Leave(u)
        BY <1>2, <3>1 DEF Promise!Leave, Promise!Moves
      <3> QED BY <3>2
    <2>2. ASSUME NEW m \in members, NEW n \in members',
                 m.user = u, n.user = u, Kept(m, n)
          PROVE  Promise!Accept(u) \/ Promise!LoseTeam(u) \/ Promise!Stay(u)
      <3>1. /\ StandingIn(members, u) = m.status /\ TeamIn(members, u) = m.team
            /\ StandingIn(members', u) = n.status /\ TeamIn(members', u) = n.team
        BY <1>1, <2>2, OneRow
      <3> QED BY <2>2, <3>1
              DEF Kept, Promise!Accept, Promise!Moves, Promise!LoseTeam,
                  Promise!Stay
    <2>3. ASSUME \A m \in members : m.user # u,
                 NEW n \in members', n.user = u, n.team \in Ids
          PROVE  Promise!Apply(u) \/ Promise!Found(u)
      <3>1. /\ StandingIn(members, u) = "Out"
            /\ StandingIn(members', u) = n.status /\ TeamIn(members', u) = n.team
        BY <1>1, <2>3, NoRow, OneRow
      <3>2. n.status \in {"Init", "Approved"}
        BY <1>1 DEF MemberRows
      <3> QED BY <2>3, <3>1, <3>2 DEF Promise!Apply, Promise!Found, Promise!Moves
    <2> QED BY <2>1, <2>2, <2>3 DEF RowMoves
  <1> QED BY <1>2, <1>3 DEF Promise!Next

LEMMA PromiseInit == Init => Promise!Init
  BY NoRow DEF Init, Promise!Init

(* A step that leaves each membership alone or deletes it. *)
LEMMA DeletingMoves ==
    ASSUME members' \subseteq members PROVE \A u : RowMoves(u)
  BY DEF RowMoves, Kept

LEMMA StepMoves ==
    ASSUME TypeInv, TeamInv, [Next]_vars
    PROVE  \A u \in Users : RowMoves(u)
  <1>1. ASSUME NEW t \in Threads, InsertMember(t)
        PROVE  \A u \in Users : RowMoves(u)
    <2>1. CASE UNCHANGED members
      BY <2>1, DeletingMoves
    <2>2. CASE ~UNCHANGED members
      <3>1. PICK new : /\ new.user = req[t].user /\ new.team = team[t]
                       /\ members' = members \cup {new}
        BY <1>1, <2>2 DEF InsertMember
      <3>2. team[t] \in Ids
        BY <1>1, <2>2 DEF InsertMember, Exists, TypeInv, TablesOK, TeamRows
      <3>3. \A m \in members : m.user # req[t].user
        BY <1>1 DEF InsertMember, TeamInv, EntersWithout, Entering, MembershipsOf
      <3> QED BY <3>1, <3>2, <3>3 DEF RowMoves, Kept
    <2> QED BY <2>1, <2>2
  <1>2. ASSUME NEW t \in Threads, DeleteTeam(t)
        PROVE  \A u \in Users : RowMoves(u)
    <2>1. PICK cascaded \in SUBSET MembersOf(team[t]) :
            members' = {IF m.team = team[t] THEN [m EXCEPT !.team = None] ELSE m :
                            m \in members \ cascaded}
      BY <1>2 DEF DeleteTeam
    <2> DEFINE f == [m \in members |->
                        IF m.team = team[t] THEN [m EXCEPT !.team = None] ELSE m]
    <2>2. members' = {f[m] : m \in members \ cascaded}
      BY <2>1
    <2>3. \A m \in members : f[m].user = m.user /\ Kept(m, f[m])
      BY DEF Kept, TypeInv, TablesOK, MemberRows
    <2> HIDE DEF f
    <2> QED BY <2>2, <2>3 DEF RowMoves
  <1>3. ASSUME NEW t \in Threads, Approve(t)
        PROVE  \A u \in Users : RowMoves(u)
    <2> DEFINE f == [m \in members |->
                        IF m.id = row[t] THEN [m EXCEPT !.status = "Approved"]
                                         ELSE m]
    <2>1. members' = {f[m] : m \in members}
      BY <1>3 DEF Approve
    <2>2. \A m \in members : f[m].user = m.user /\ Kept(m, f[m])
      BY DEF Kept, TypeInv, TablesOK, MemberRows
    <2> HIDE DEF f
    <2> QED BY <2>1, <2>2 DEF RowMoves
  <1>4. ASSUME members' \subseteq members PROVE \A u \in Users : RowMoves(u)
    BY <1>4, DeletingMoves
  <1> QED BY <1>1, <1>2, <1>3, <1>4
          DEF Next, Work, vars, tableVars, Enter, Enters, Call, CallUpdate, Request,
              CheckName, InsertTeam, FindTeam, Validate, DeleteMembers,
              FindCandidate, Deny, CheckLeader, Leave, CountMembers, Kick,
              CheckNewLeader, Promote, Rename, UpdateTeam, Restart

(* The team manager implements Membership for patient users: whatever the  *)
(* interleaving, a user gets into a team only as its founder or by asking, *)
(* is a full member only as its founder or after an approval, and leaves   *)
(* before entering another.                                                *)
THEOREM PromiseKept == ASSUME OneAtATime PROVE Spec => KeepsPromise
  <1>1. TypeInv /\ TypeInv' /\ TeamInv /\ TeamInv' /\ [Next]_vars
            => Promise!Next
    BY StepMoves, MovesPromised DEF TeamInv
  <1> QED BY <1>1, PromiseInit, TypeInvAlways, TeamInvAlways, PTL
          DEF Spec, KeepsPromise, Promise!Spec
=============================================================================
