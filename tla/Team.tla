-------------------------------- MODULE Team --------------------------------
(***************************************************************************)
(* The teams of one hackathon (hackathon/hack/team_manager.py).  Every     *)
(* query and every write of a handler is a transaction of its own, so the  *)
(* handlers of different requests interleave between any two of them.      *)
(***************************************************************************)
EXTENDS Naturals, FiniteSets

CONSTANTS
    Threads,    \* threads of the server process
    Users,      \* registered users
    Admins,     \* administrators of the hackathon
    Names,      \* names of teams
    Ops,        \* operations the views offer, of those in AllOps
    MaxTeams,   \* bound: rows ever inserted into team
    MaxMembers, \* bound: rows ever inserted into user_team_rel
    OneAtATime, \* TRUE: a user waits for each answer before the next request
    CanRestart, \* TRUE: the server process may crash and restart
    None

AllOps == {"create", "join", "update", "dismiss", "leave", "approve", "deny",
           "kick", "promote"}

ASSUME TeamAssumption ==
    /\ Admins \subseteq Users
    /\ Ops \subseteq AllOps
    /\ MaxTeams \in Nat
    /\ MaxMembers \in Nat
    /\ OneAtATime \in BOOLEAN
    /\ CanRestart \in BOOLEAN
    /\ None \notin Nat

VARIABLES
    teams,      \* rows of team: id, name, leader_id
    members,    \* rows of user_team_rel: id, user_id, team_id, status
    nextTeam,   \* AUTO_INCREMENT of team
    nextMember, \* AUTO_INCREMENT of user_team_rel
    pc,         \* pc[t]: the next transaction of thread t
    req,        \* req[t]: the request it serves
    team,       \* team[t]: id of the Team object it holds
    row         \* row[t]: id of the UserTeamRel object it holds

tableVars == <<teams, members, nextTeam, nextMember>>
vars == <<tableVars, pc, req, team, row>>

Steps == {"idle", "find", "name", "insert", "member", "validate",
          "delete_members", "delete_team", "candidate", "approve", "deny",
          "leader", "leave", "count", "kick", "new_leader", "promote",
          "rename"}

(* Ids of rows. *)
Ids == Nat \ {0}

TeamRows == [id : Ids, name : Names, leader : Users]

MemberRows == [id : Ids, user : Users, team : Ids \cup {None},
               status : {"Init", "Approved"}]

Requests == [op : AllOps, user : Users, name : Names, who : Users]

Init ==
    /\ teams = {} /\ members = {}
    /\ nextTeam = 1 /\ nextMember = 1
    /\ pc = [t \in Threads |-> "idle"]
    /\ req = [t \in Threads |-> None]
    /\ team = [t \in Threads |-> None]
    /\ row = [t \in Threads |-> None]

(* The next transaction of t, with the same objects in hand. *)
Goto(t, step) ==
    /\ pc' = [pc EXCEPT ![t] = step]
    /\ UNCHANGED <<req, team, row>>

Answer(t) ==
    /\ pc' = [pc EXCEPT ![t] = "idle"]
    /\ req' = [req EXCEPT ![t] = None]
    /\ team' = [team EXCEPT ![t] = None]
    /\ row' = [row EXCEPT ![t] = None]

(* Queries. *)
MembershipsOf(u) == {m \in members : m.user = u}
MembersOf(k) == {m \in members : m.team = k}
Named(n) == {k \in teams : k.name = n}
Exists(k) == \E x \in teams : x.id = k
Leads(u, k) == \E x \in teams : x.id = k /\ x.leader = u

Busy(u) == \E t \in Threads : pc[t] # "idle" /\ req[t].user = u

(* A request of user u arrives, whose handler has team k in hand (or None) *)
(* after its first query; n is the name and w the user the request names.  *)
Request(t, o, u, n, w, k, step) ==
    /\ pc[t] = "idle"
    /\ o \in Ops
    /\ OneAtATime => ~Busy(u)
    /\ pc' = [pc EXCEPT ![t] = step]
    /\ req' = [req EXCEPT ![t] = [op |-> o, user |-> u, name |-> n, who |-> w]]
    /\ team' = [team EXCEPT ![t] = k]
    /\ UNCHANGED <<tableVars, row>>

Inserting ==
    {t \in Threads : pc[t] # "idle" /\ req[t].op \in {"create", "join"}}

(* Bound: while there is room for one more row of each table, besides      *)
(* those that the calls in progress may insert.                            *)
RoomLeft ==
    /\ nextTeam + Cardinality(Inserting) <= MaxTeams
    /\ nextMember + Cardinality(Inserting) <= MaxMembers

----------------------------------------------------------------------------
(* create_team, join_team *)

Enters(t, u, n) ==
    /\ RoomLeft
    /\ \/ Request(t, "create", u, n, u, None, "name")
       \/ Request(t, "join", u, n, u, None, "find")

(* Mutant of Enter: a user who has a membership may enter another team.    *)
EnterAgain(t, u, n) == Enters(t, u, n)

(* Both refuse a user who has a membership. *)
Enter(t, u, n) == MembershipsOf(u) = {} /\ Enters(t, u, n)

(* "check team name to avoid duplicate name", also of update_team. *)
CheckName(t) ==
    /\ pc[t] = "name"
    /\ IF Named(req[t].name) # {} THEN Answer(t)
       ELSE Goto(t, IF req[t].op = "create" THEN "insert" ELSE "validate")
    /\ UNCHANGED tableVars

InsertTeam(t) ==
    /\ pc[t] = "insert"
    /\ teams' = teams \cup {[id |-> nextTeam, name |-> req[t].name,
                             leader |-> req[t].user]}
    /\ nextTeam' = nextTeam + 1
    /\ team' = [team EXCEPT ![t] = nextTeam]
    /\ pc' = [pc EXCEPT ![t] = "member"]
    /\ UNCHANGED <<members, nextMember, req, row>>

(* The founder is Approved, a candidate Init; the foreign key refuses a    *)
(* team that has been deleted since.                                       *)
InsertMember(t) ==
    /\ pc[t] = "member"
    /\ \/ /\ Exists(team[t])
          /\ members' = members \cup
                {[id |-> nextMember, user |-> req[t].user, team |-> team[t],
                  status |-> IF req[t].op = "create" THEN "Approved"
                             ELSE "Init"]}
          /\ nextMember' = nextMember + 1
       \/ ~Exists(team[t]) /\ UNCHANGED <<members, nextMember>>
    /\ Answer(t)
    /\ UNCHANGED <<teams, nextTeam>>

----------------------------------------------------------------------------
(* What the other operations begin with *)

(* The view turns a user's kick of himself into leave_team. *)
Call(t, o, u, n, w) ==
    /\ o \in {"dismiss", "approve", "deny", "leave", "kick", "promote"}
    /\ o \in {"dismiss", "leave"} => w = u
    /\ o = "kick" => w # u
    /\ Request(t, o, u, n, w, None, "find")

(* update_team finds the team by its id; n is the new name. *)
CallUpdate(t, u, k, n) ==
    /\ k.name # n
    /\ Request(t, "update", u, n, u, k.id, "name")

(* __get_team_by_name: any team of that name. *)
FindTeam(t) ==
    /\ pc[t] = "find"
    /\ \/ Named(req[t].name) = {} /\ Answer(t)
       \/ \E k \in Named(req[t].name) :
            /\ team' = [team EXCEPT ![t] = k.id]
            /\ pc' = [pc EXCEPT ![t] = CASE req[t].op = "join"  -> "member"
                                         [] req[t].op = "leave" -> "leader"
                                         [] OTHER               -> "validate"]
            /\ UNCHANGED <<req, row>>
    /\ UNCHANGED tableVars

Validated(o) ==
    CASE o = "dismiss"             -> "delete_members"
      [] o \in {"approve", "deny"} -> "candidate"
      [] o = "kick"                -> "kick"
      [] o = "promote"             -> "new_leader"
      [] OTHER                     -> "rename"

(* __validate_team_permission; it fails on a team that has been deleted.   *)
Permitted(u, k) == Leads(u, k) \/ (Exists(k) /\ u \in Admins)

Validate(t) ==
    /\ pc[t] = "validate"
    /\ IF Permitted(req[t].user, team[t])
       THEN Goto(t, Validated(req[t].op)) ELSE Answer(t)
    /\ UNCHANGED tableVars

----------------------------------------------------------------------------
(* dismiss_team *)

DeleteMembers(t) ==
    /\ pc[t] = "delete_members"
    /\ members' = members \ MembersOf(team[t])
    /\ Goto(t, "delete_team")
    /\ UNCHANGED <<teams, nextTeam, nextMember>>

(* Who has joined since the members were deleted keeps a row without team  *)
(* if the session reads it before it deletes the team; else the database   *)
(* cascades.                                                               *)
DeleteTeam(t) ==
    /\ pc[t] = "delete_team"
    /\ \E cascaded \in SUBSET MembersOf(team[t]) :
          members' = {IF m.team = team[t] THEN [m EXCEPT !.team = None] ELSE m :
                          m \in members \ cascaded}
    /\ teams' = {k \in teams : k.id # team[t]}
    /\ Answer(t)
    /\ UNCHANGED <<nextTeam, nextMember>>

----------------------------------------------------------------------------
(* update_team_member_status *)

(* The candidate is looked for in the hackathon, not in the team. *)
FindCandidate(t) ==
    /\ pc[t] = "candidate"
    /\ \/ MembershipsOf(req[t].who) = {} /\ Answer(t)
       \/ \E m \in MembershipsOf(req[t].who) :
            /\ row' = [row EXCEPT ![t] = m.id]
            /\ pc' = [pc EXCEPT ![t] = req[t].op]
            /\ UNCHANGED <<req, team>>
    /\ UNCHANGED tableVars

Approve(t) ==
    /\ pc[t] = "approve"
    /\ members' = {IF m.id = row[t] THEN [m EXCEPT !.status = "Approved"]
                                    ELSE m : m \in members}
    /\ Answer(t)
    /\ UNCHANGED <<teams, nextTeam, nextMember>>

(* Mutant of Deny: the status is saved. *)
DenySaved(t) ==
    /\ pc[t] = "deny"
    /\ members' = {IF m.id = row[t] THEN [m EXCEPT !.status = "Denied"]
                                    ELSE m : m \in members}
    /\ Answer(t)
    /\ UNCHANGED <<teams, nextTeam, nextMember>>

(* Mutant of Deny: the member becomes a candidate again. *)
DenyResets(t) ==
    /\ pc[t] = "deny"
    /\ members' = {IF m.id = row[t] THEN [m EXCEPT !.status = "Init"]
                                    ELSE m : m \in members}
    /\ Answer(t)
    /\ UNCHANGED <<teams, nextTeam, nextMember>>

Deny(t) ==
    /\ pc[t] = "deny"
    /\ members' = {m \in members : m.id # row[t]}
    /\ Answer(t)
    /\ UNCHANGED <<teams, nextTeam, nextMember>>

----------------------------------------------------------------------------
(* leave_team, kick *)

CheckLeader(t) ==
    /\ pc[t] = "leader"
    /\ IF Exists(team[t])
       THEN Goto(t, IF Leads(req[t].user, team[t]) THEN "count" ELSE "leave")
       ELSE Answer(t)
    /\ UNCHANGED tableVars

(* Every membership of the user goes, whichever team was named. *)
Leave(t) ==
    /\ pc[t] = "leave"
    /\ members' = members \ MembershipsOf(req[t].user)
    /\ Answer(t)
    /\ UNCHANGED <<teams, nextTeam, nextMember>>

(* The last member dismisses the team, found by its name once more. *)
CountMembers(t) ==
    /\ pc[t] = "count"
    /\ \/ Cardinality(MembersOf(team[t])) >= 2 /\ Answer(t)
       \/ /\ Cardinality(MembersOf(team[t])) < 2
          /\ req' = [req EXCEPT ![t].op = "dismiss"]
          /\ pc' = [pc EXCEPT ![t] = "find"]
          /\ UNCHANGED <<team, row>>
    /\ UNCHANGED tableVars

Kick(t) ==
    /\ pc[t] = "kick"
    /\ members' = members \ (MembersOf(team[t]) \cap MembershipsOf(req[t].who))
    /\ Answer(t)
    /\ UNCHANGED <<teams, nextTeam, nextMember>>

----------------------------------------------------------------------------
(* promote_leader, update_team *)

(* "check new leader and old leader in same team" *)
CheckNewLeader(t) ==
    /\ pc[t] = "new_leader"
    /\ \/ /\ \E m \in MembersOf(team[t]) :
                m.user = req[t].who /\ m.status = "Approved"
          /\ Goto(t, "promote")
       \/ /\ \A m \in MembersOf(team[t]) :
                m.user = req[t].who => m.status # "Approved"
          /\ Answer(t)
    /\ UNCHANGED tableVars

(* An UPDATE of the team's row, if it is still there. *)
UpdateTeam(t, column, value) ==
    /\ teams' = {IF k.id = team[t] THEN [k EXCEPT ![column] = value] ELSE k :
                    k \in teams}
    /\ Answer(t)
    /\ UNCHANGED <<members, nextTeam, nextMember>>

Promote(t) == pc[t] = "promote" /\ UpdateTeam(t, "leader", req[t].who)

Rename(t) == pc[t] = "rename" /\ UpdateTeam(t, "name", req[t].name)

----------------------------------------------------------------------------

(* The threads are lost, the tables stay. *)
Restart ==
    /\ CanRestart
    /\ pc' = [t \in Threads |-> "idle"]
    /\ req' = [t \in Threads |-> None]
    /\ team' = [t \in Threads |-> None]
    /\ row' = [t \in Threads |-> None]
    /\ UNCHANGED tableVars

Work(t) ==
    \/ CheckName(t) \/ InsertTeam(t) \/ InsertMember(t)
    \/ FindTeam(t) \/ Validate(t)
    \/ DeleteMembers(t) \/ DeleteTeam(t)
    \/ FindCandidate(t) \/ Approve(t) \/ Deny(t)
    \/ CheckLeader(t) \/ Leave(t) \/ CountMembers(t) \/ Kick(t)
    \/ CheckNewLeader(t) \/ Promote(t) \/ Rename(t)

Next ==
    \/ \E t \in Threads :
        \/ Work(t)
        \/ \E u \in Users, n \in Names :
            \/ Enter(t, u, n)
            \/ \E o \in AllOps, w \in Users : Call(t, o, u, n, w)
            \/ \E k \in teams : CallUpdate(t, u, k, n)
    \/ Restart

Spec == Init /\ [][Next]_vars

----------------------------------------------------------------------------

TypeOK ==
    /\ teams \subseteq TeamRows /\ members \subseteq MemberRows
    /\ nextTeam \in Ids /\ nextMember \in Ids
    /\ pc \in [Threads -> Steps]
    /\ req \in [Threads -> Requests \cup {None}]
    /\ \A t \in Threads : pc[t] # "idle" => req[t] \in Requests
    /\ team \in [Threads -> Ids \cup {None}]
    /\ row \in [Threads -> Ids \cup {None}]

(* "user only allow to join or create 1 team" (create_team): nobody has    *)
(* two memberships.  So it is if users wait for the answers to their       *)
(* requests, whatever leaders and admins do meanwhile; two requests of one *)
(* user at once both pass the check.                                       *)
OneTeamPerUser ==
    \A a, b \in members : a.user = b.user => a = b

(* A request that has passed the check of create_team or join_team. *)
Entering(t) ==
    \/ pc[t] \in {"insert", "member"}
    \/ pc[t] \in {"name", "find"} /\ req[t].op \in {"create", "join"}

(* Why OneTeamPerUser holds for patient users: only their own requests     *)
(* insert memberships, a request that has passed the check is the only one *)
(* of its user, and nothing else inserts one.                              *)
EntersAlone ==
    \A t \in Threads : pc[t] # "idle" =>
        \A s \in Threads \ {t} :
            pc[s] # "idle" => req[s].user # req[t].user

EntersWithout ==
    \A t \in Threads : Entering(t) => MembershipsOf(req[t].user) = {}

(* Only these operations get to these steps. *)
OpsFit ==
    \A t \in Threads :
        /\ pc[t] \in {"insert", "member"} => req[t].op \in {"create", "join"}
        /\ pc[t] = "candidate" => req[t].op \in {"approve", "deny"}

TeamInv == OneTeamPerUser /\ EntersAlone /\ EntersWithout /\ OpsFit

(* What the rows of user_team_rel say of user u. *)
StandingIn(rows, u) ==
    LET mine == {m \in rows : m.user = u}
    IN  IF mine = {} THEN "Out" ELSE (CHOOSE m \in mine : TRUE).status

TeamIn(rows, u) ==
    LET mine == {m \in rows : m.user = u}
    IN  IF mine = {} THEN None ELSE (CHOOSE m \in mine : TRUE).team

Promise == INSTANCE Membership
           WITH Teams <- Ids,
                standing <- [u \in Users |-> StandingIn(members, u)],
                team <- [u \in Users |-> TeamIn(members, u)]

(* The team manager keeps its promise to patient users: nobody gets from   *)
(* one team into another without leaving, or into a team that was joined   *)
(* without an approval.                                                    *)
KeepsPromise == Promise!Spec
=============================================================================
