----------------------------- MODULE Membership -----------------------------
(***************************************************************************)
(* What the operations of the team manager (hackathon/hack/team_manager.py)*)
(* do to the memberships of the users of a hackathon if each is taken as a *)
(* whole: a user belongs to one team at most, gets into another only by    *)
(* leaving the first, and is a full member either as a founder or after    *)
(* waiting for an approval.  One step may move several users.              *)
(***************************************************************************)
CONSTANTS Users, Teams, None

VARIABLES
    standing, \* standing[u]: "Out", "Init" (has asked to join) or "Approved"
    team      \* team[u]: the team of u, None if there is none (any more)

Standings == {"Out", "Init", "Approved"}

Init ==
    /\ standing = [u \in Users |-> "Out"]
    /\ team = [u \in Users |-> None]

Moves(u, from, to) == standing[u] \in from /\ standing'[u] = to

(* join_team *)
Apply(u) == Moves(u, {"Out"}, "Init") /\ team'[u] \in Teams

(* create_team *)
Found(u) == Moves(u, {"Out"}, "Approved") /\ team'[u] \in Teams

(* update_team_member_status *)
Accept(u) == Moves(u, {"Init"}, "Approved") /\ team'[u] = team[u]

(* leave_team, kick, dismiss_team, and the denial of a candidate. *)
Leave(u) == Moves(u, Standings, "Out") /\ team'[u] = None

(* The team is deleted, and the membership is not. *)
LoseTeam(u) == standing'[u] = standing[u] /\ team'[u] = None

Stay(u) == standing'[u] = standing[u] /\ team'[u] = team[u]

Next ==
    /\ standing' \in [Users -> Standings]
    /\ team' \in [Users -> Teams \cup {None}]
    /\ \A u \in Users :
          \/ Apply(u) \/ Found(u) \/ Accept(u)
          \/ Leave(u) \/ LoseTeam(u) \/ Stay(u)

Spec == Init /\ [][Next]_<<standing, team>>
=============================================================================
