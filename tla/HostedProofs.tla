---------------------------- MODULE HostedProofs ----------------------------
(***************************************************************************)
(* The hosted properties of Experiment, for every number of threads,       *)
(* users, experiments, virtual environments and hosts, with crashes, as    *)
(* long as no hackathon uses Alauda (AlaudaFlags = {FALSE}).               *)
(*                                                                         *)
(* HostedInv (module Experiment) is inductive.  A step of a thread is      *)
(* summed up by what it does to the containers, to the statuses, to the    *)
(* ports and to the thread (ContainersKept, StatusMove, PortsMove,         *)
(* ThreadMove): HostedMove shows that such a step keeps HostedInv, the     *)
(* lemmas after it that every action is such a step.                       *)
(*                                                                         *)
(* Two invariants are proved on top of it in the same way: HoldsInv, what  *)
(* RUNNING experiments hold while the process lives (summary HoldsMove),   *)
(* and OnlyOnes, one experiment per user that waits (summary OneMove).     *)
(***************************************************************************)
EXTENDS ExperimentProofs

(* No container row goes away. *)
ContainersKept ==
    \A e \in Exprs, i \in VEs : container[e][i] # None => container'[e][i] # None

(* Thread t may build experiment e; it may stop it or roll it back.        *)
MayLaunch(t, e) ==
    \A s \in Threads \ {t} : pc[s] \in LaunchSteps \cup EndSteps => cur[s] # e

MayEnd(t, e) ==
    \A s \in Threads \ {t} : pc[s] \in LaunchSteps => cur[s] # e

(* A status that changes was written by a thread entitled to do so.        *)
StatusMove(t) ==
    \A e \in Exprs : status'[e] # status[e] =>
        /\ status'[e] # "NONE"
        /\ \/ status'[e] \in Building
           \/ MayEnd(t, e) /\ ~(pc'[t] \in LaunchSteps /\ cur'[t] = e)
        /\ status'[e] = "RUNNING" => HasContainers(e, NumVE)
        /\ status'[e] \in {"STOPPED", "DELETED"} => bound[e] = {}

(* Ports are released at any time, but bound only by the start that        *)
(* builds the experiment.                                                  *)
PortsMove(t) ==
    \A e \in Exprs :
        \/ bound'[e] = bound[e]
        \/ bound'[e] = {}
        \/ /\ status[e] \in Building /\ status'[e] = status[e]
           /\ MayLaunch(t, e)
           /\ pc'[t] \in LaunchSteps

(* The step t goes to suits the experiment it holds.                       *)
ThreadMove(t) ==
    /\ cur'[t] \in Exprs => status'[cur'[t]] # "NONE"
    /\ pc'[t] \in LaunchSteps => /\ MayLaunch(t, cur'[t])
                                 /\ status'[cur'[t]] \in Building
                                 /\ cur'[t] \in Exprs
    /\ pc'[t] \in EndSteps => MayEnd(t, cur'[t])
    /\ Progress(t)'
    /\ pc'[t] \in ReleasedSteps => bound'[cur'[t]] = {}

LEMMA HostedMove ==
    ASSUME TypeInv, HostedInv, HostedOnly', NEW t \in Threads, Alone(t),
           ContainersKept, StatusMove(t), PortsMove(t), ThreadMove(t),
           \A e \in todo' : status'[e] # "NONE"
    PROVE  HostedInv'
<1>. USE DEF HostedInv
<1>1. \A s \in Threads \ {t} :
         /\ pc'[s] = pc[s] /\ cur'[s] = cur[s] /\ ve'[s] = ve[s]
         /\ LocatedAt(s)
    BY DEF Alone, TypeInv, Located
<1>2. /\ LaunchSteps \subseteq ExprSteps
      /\ EndSteps \subseteq ExprSteps
      /\ ReleasedSteps \subseteq EndSteps
      /\ LaunchSteps \cap EndSteps = {}
      /\ ReleasedSteps \cap LaunchSteps = {}
    BY DEF LaunchSteps, EndSteps, StopSteps, ReleasedSteps, ExprSteps, Steps,
           ManagerSteps, HostedSteps
<1>3. KnownExprs'
  <2>. SUFFICES ASSUME NEW s \in Threads, cur'[s] \in Exprs
                PROVE  status'[cur'[s]] # "NONE"
    BY DEF KnownExprs
  <2>. QED
    BY <1>1 DEF KnownExprs, ThreadMove, StatusMove
<1>4. LaunchIsPrivate'
  <2>. SUFFICES ASSUME NEW r \in Threads, pc'[r] \in LaunchSteps
                PROVE  /\ status'[cur'[r]] \in Building
                       /\ \A s \in Threads \ {r} :
                            pc'[s] \in LaunchSteps \cup EndSteps
                                => cur'[s] # cur'[r]
    BY DEF LaunchIsPrivate
  <2>1. CASE r = t
    BY <1>1, <2>1 DEF ThreadMove, MayLaunch
  <2>2. CASE r # t
    <3>1. /\ pc[r] \in LaunchSteps /\ cur[r] \in Exprs /\ cur'[r] = cur[r]
          /\ status[cur[r]] \in Building
      BY <1>1, <1>2, <2>2 DEF LocatedAt, LaunchIsPrivate
    <3>2. status'[cur[r]] \in Building
      BY <2>2, <3>1 DEF StatusMove, MayEnd
    <3>3. ASSUME NEW s \in Threads \ {r}, pc'[s] \in LaunchSteps \cup EndSteps
          PROVE  cur'[s] # cur[r]
      <4>1. CASE s = t
        BY <2>2, <3>1, <3>3, <4>1 DEF ThreadMove, MayLaunch, MayEnd
      <4>2. CASE s # t
        BY <1>1, <2>2, <3>1, <3>3, <4>2 DEF LaunchIsPrivate
      <4>. QED
        BY <4>1, <4>2
    <3>. QED
      BY <3>1, <3>2, <3>3
  <2>. QED
    BY <2>1, <2>2
<1>5. ContainersFirst'
  <2>1. ASSUME NEW e \in Exprs, NEW n, HasContainers(e, n)
        PROVE  HasContainers(e, n)'
    BY <2>1 DEF HasContainers, ContainersKept
  <2>2. ASSUME NEW s \in Threads, s # t PROVE Progress(s)'
    <3>1. Progress(s)
      BY DEF ContainersFirst
    <3>2. pc[s] \in LaunchSteps \cup EndSteps => cur[s] \in Exprs
      BY <1>1, <1>2, <2>2 DEF LocatedAt
    <3>. QED
      BY <1>1, <2>1, <2>2, <3>1, <3>2
         DEF Progress, LaunchSteps, EndSteps, StopSteps
  <2>3. ASSUME NEW e \in Exprs, status'[e] = "RUNNING"
        PROVE  HasContainers(e, NumVE)'
    BY <2>1, <2>3 DEF ContainersFirst, StatusMove
  <2>. QED
    BY <2>2, <2>3 DEF ContainersFirst, ThreadMove
<1>6. ReleasedFirst'
  <2>. SUFFICES ASSUME NEW s \in Threads, pc'[s] \in ReleasedSteps, s # t
                PROVE  bound'[cur'[s]] = {}
    BY DEF ReleasedFirst, ThreadMove
  <2>. QED
    BY <1>1, <1>2 DEF ReleasedFirst, PortsMove, MayLaunch, LocatedAt
<1>7. StoppedHoldsNoPorts'
  <2>. SUFFICES ASSUME NEW e \in Exprs, status'[e] \in {"STOPPED", "DELETED"}
                PROVE  bound'[e] = {}
    BY DEF StoppedHoldsNoPorts
  <2>. QED
    BY DEF StoppedHoldsNoPorts, StatusMove, PortsMove, Building
<1>. QED
    BY <1>3, <1>4, <1>5, <1>6, <1>7

LEMMA OnlyMove ==
    ASSUME HostedInv, NEW t \in Threads, Alone(t), pc'[t] \notin AlaudaSteps,
           UNCHANGED <<provider, alauda, job>>
    PROVE  HostedOnly'
    BY DEF HostedInv, HostedOnly, Alone

LEMMA TodoMove ==
    ASSUME TypeInv, HostedInv, NEW t \in Threads, StatusMove(t), todo' = todo
    PROVE  \A e \in todo' : status'[e] # "NONE"
    BY Parts DEF TypeInv, ThreadsOK, HostedInv, KnownExprs, StatusMove

(* The experiment a thread builds is its own; nobody builds one that a     *)
(* thread stops or rolls back.                                             *)
LEMMA OwnExpr ==
    ASSUME HostedInv, NEW t \in Threads
    PROVE  /\ pc[t] \in LaunchSteps =>
                /\ MayLaunch(t, cur[t]) /\ MayEnd(t, cur[t])
                /\ status[cur[t]] \in Building
           /\ pc[t] \in EndSteps => MayEnd(t, cur[t])
    BY DEF HostedInv, LaunchIsPrivate, MayLaunch, MayEnd, LaunchSteps,
           EndSteps, StopSteps

(* Steps of a start that has inserted the row of its current container.    *)
BuiltSteps == {"h_ports", "h_look", "h_create", "h_start", "h_incr",
               "h_verify", "h_up"}

LEMMA ThreadMoves ==
    ASSUME TypeInv, HostedInv, NEW t \in Threads, ContainersKept,
           StatusMove(t), cur[t] \in Exprs, cur'[t] \in {cur[t], None}
    PROVE  /\ pc'[t] \notin LaunchSteps \cup EndSteps => ThreadMove(t)
           /\ /\ pc[t] \in LaunchSteps \cup EndSteps
              /\ pc'[t] \in {"rollback", "rollback_ves"}
              /\ cur'[t] = cur[t]
              => ThreadMove(t)
           /\ /\ pc[t] \in StopSteps /\ pc'[t] \in StopSteps
              /\ cur'[t] = cur[t]
              /\ pc'[t] \in ReleasedSteps => bound'[cur[t]] = {}
              => ThreadMove(t)
           /\ /\ pc[t] \in LaunchSteps /\ pc'[t] \in LaunchSteps
              /\ cur'[t] = cur[t]
              /\ status'[cur[t]] \in Building
              /\ Progress(t)'
              => ThreadMove(t)
           /\ /\ pc[t] \in BuiltSteps /\ pc'[t] \in BuiltSteps
              /\ cur'[t] = cur[t] /\ ve'[t] = ve[t]
              /\ status'[cur[t]] = status[cur[t]]
              => ThreadMove(t)
<1>. USE DEF HostedInv
<1>1. cur'[t] \in Exprs => status'[cur'[t]] # "NONE"
    BY ExprAssumption DEF KnownExprs, StatusMove
<1>2. /\ LaunchSteps \cap EndSteps = {}
      /\ StopSteps \subseteq EndSteps /\ ReleasedSteps \subseteq StopSteps
      /\ {"rollback", "rollback_ves"} \subseteq EndSteps \ StopSteps
      /\ {"add_ve", "h_host", "set_running"} \subseteq LaunchSteps
      /\ BuiltSteps \subseteq LaunchSteps
      /\ BuiltSteps \cap {"add_ve", "h_host", "set_running"} = {}
    BY DEF LaunchSteps, EndSteps, StopSteps, ReleasedSteps, BuiltSteps
<1>3. pc'[t] \notin LaunchSteps \cup EndSteps => ThreadMove(t)
    BY <1>1, <1>2 DEF ThreadMove, Progress, BuiltSteps
<1>4. ASSUME pc[t] \in LaunchSteps \cup EndSteps,
             pc'[t] \in {"rollback", "rollback_ves"}, cur'[t] = cur[t]
      PROVE  ThreadMove(t)
    BY <1>1, <1>2, <1>4, OwnExpr DEF ThreadMove, Progress, BuiltSteps
<1>5. ASSUME NEW n, HasContainers(cur[t], n), cur'[t] = cur[t]
      PROVE  HasContainers(cur[t], n)'
    BY <1>5 DEF HasContainers, ContainersKept
<1>6. ASSUME pc[t] \in StopSteps, pc'[t] \in StopSteps, cur'[t] = cur[t],
             pc'[t] \in ReleasedSteps => bound'[cur[t]] = {}
      PROVE  ThreadMove(t)
  <2>1. HasContainers(cur[t], NumVE)'
    BY <1>5, <1>6 DEF ContainersFirst, Progress
  <2>2. Progress(t)'
    BY <1>2, <1>6, <2>1 DEF Progress, BuiltSteps
  <2>. QED
    BY <1>1, <1>2, <1>6, <2>2, OwnExpr DEF ThreadMove
<1>7. ASSUME pc[t] \in LaunchSteps, pc'[t] \in LaunchSteps,
             cur'[t] = cur[t], status'[cur[t]] \in Building, Progress(t)'
      PROVE  ThreadMove(t)
    BY <1>1, <1>2, <1>7, OwnExpr DEF ThreadMove
<1>8. ASSUME pc[t] \in BuiltSteps, pc'[t] \in BuiltSteps, cur'[t] = cur[t],
             ve'[t] = ve[t], status'[cur[t]] = status[cur[t]]
      PROVE  ThreadMove(t)
  <2>1. HasContainers(cur[t], ve[t])'
    BY <1>5, <1>8 DEF ContainersFirst, Progress, BuiltSteps, HasContainers
  <2>2. Progress(t)'
    BY <1>2, <1>8, <2>1 DEF Progress
  <2>. QED
    BY <1>2, <1>7, <1>8, <2>2, OwnExpr
<1>. QED
    BY <1>3, <1>4, <1>6, <1>7, <1>8

----------------------------------------------------------------------------
(* The steps of starts, stops, rollbacks and polls. *)

USE DEF exprVars, veVars, hostedVars, alaudaVars, SetStatus, SetRemote,
        Continue, Goto, TablesOK, HostedTypeOK, HostedInv,
        LaunchIsPrivate, ContainersKept, StatusMove, PortsMove,
        MayEnd, MayLaunch, Building

LEMMA AssignPooledHosted ==
    ASSUME TypeInv, HostedInv, AlaudaFlags = {FALSE}, NEW t \in Threads,
           AssignPooled(t), UNCHANGED hostedVars, UNCHANGED alaudaVars
    PROVE  HostedInv'
<1>1. TypeOK /\ NumVE \in Nat /\ cur[t] \in Exprs
    BY StepSets, ExprAssumption DEF TypeInv, Located, LocatedAt,
       AssignPooled, ExprSteps, VESteps, Steps, ManagerSteps, HostedSteps,
       AlaudaSteps
<1>2. /\ Alone(t) /\ pc'[t] \in {"report"}
      /\ cur'[t] = cur[t]
    BY <1>1, Parts DEF ThreadsOK, Alone, AssignPooled, Return, VEStarted
<1>3. UNCHANGED <<status, provider, alauda, job, todo>>
    BY DEF AssignPooled, Return, VEStarted
<1>4. HostedOnly'
    BY <1>2, <1>3, OnlyMove DEF AlaudaSteps
<1>5. ContainersKept /\ StatusMove(t) /\ PortsMove(t)
    BY <1>1, <1>2, <1>3, Parts DEF AssignPooled, Return, VEStarted,
       LaunchSteps, EndSteps, StopSteps, ReleasedSteps, BuiltSteps
<1>6. ThreadMove(t)
    BY <1>1, <1>2, <1>3, <1>5, ThreadMoves DEF AssignPooled, LaunchSteps,
       EndSteps, StopSteps, ReleasedSteps, BuiltSteps
<1>. QED
    BY <1>1, <1>2, <1>3, <1>4, <1>5, <1>6, HostedMove,
       TodoMove

LEMMA CountPoolHosted ==
    ASSUME TypeInv, HostedInv, AlaudaFlags = {FALSE}, NEW t \in Threads,
           CountPool(t), UNCHANGED hostedVars, UNCHANGED alaudaVars
    PROVE  HostedInv'
<1>1. TypeOK /\ NumVE \in Nat /\ cur[t] \in Exprs
    BY StepSets, ExprAssumption DEF TypeInv, Located, LocatedAt, CountPool,
       ExprSteps, VESteps, Steps, ManagerSteps, HostedSteps, AlaudaSteps
<1>2. /\ Alone(t) /\ pc'[t] \in {"rollback", "starting", "idle", "recycle"}
      /\ cur'[t] \in {cur[t], None}
      /\ pc'[t] \in {"starting", "rollback"} => cur'[t] = cur[t]
    BY <1>1, Parts DEF ThreadsOK, Alone, CountPool, Return, VEStarted
<1>3. UNCHANGED <<status, provider, alauda, job, todo>>
    BY DEF CountPool, Return, VEStarted
<1>4. HostedOnly'
    BY <1>2, <1>3, OnlyMove DEF AlaudaSteps
<1>5. ContainersKept /\ StatusMove(t) /\ PortsMove(t)
    BY <1>1, <1>2, <1>3, Parts DEF CountPool, Return, VEStarted,
       LaunchSteps, EndSteps, StopSteps, ReleasedSteps, BuiltSteps
<1>6. Progress(t)'
    BY <1>1, <1>2, <1>3, Parts DEF VEs, ContainersFirst, Progress,
       HasContainers, ThreadMove, CountPool, Return, VEStarted, StopSteps,
       ReleasedSteps, BuiltSteps
<1>7. pc'[t] \in LaunchSteps =>
         pc[t] \in LaunchSteps /\ cur'[t] = cur[t] /\ status'[cur[t]] \in Building
    BY <1>1, <1>2, <1>3, OwnExpr, Parts DEF CountPool, LaunchSteps
<1>8. ThreadMove(t)
    BY <1>1, <1>2, <1>3, <1>5, <1>6, <1>7, ThreadMoves DEF CountPool,
       LaunchSteps, EndSteps, StopSteps, ReleasedSteps, BuiltSteps
<1>. QED
    BY <1>1, <1>2, <1>3, <1>4, <1>5, <1>8, HostedMove,
       TodoMove

LEMMA SetStartingHosted ==
    ASSUME TypeInv, HostedInv, AlaudaFlags = {FALSE}, NEW t \in Threads,
           SetStarting(t), UNCHANGED hostedVars, UNCHANGED alaudaVars
    PROVE  HostedInv'
<1>1. TypeOK /\ NumVE \in Nat /\ cur[t] \in Exprs
    BY StepSets, ExprAssumption DEF TypeInv, Located, LocatedAt,
       SetStarting, ExprSteps, VESteps, Steps, ManagerSteps, HostedSteps,
       AlaudaSteps
<1>2. /\ Alone(t) /\ pc'[t] \in {"azure", "add_ve"}
      /\ cur'[t] = cur[t]
    BY <1>1, Parts DEF ThreadsOK, Alone, SetStarting, Return, VEStarted
<1>3. UNCHANGED <<provider, alauda, job, todo>>
    BY DEF SetStarting, Return, VEStarted
<1>4. HostedOnly'
    BY <1>2, <1>3, OnlyMove DEF AlaudaSteps
<1>5. ContainersKept /\ StatusMove(t) /\ PortsMove(t)
    BY <1>1, <1>2, <1>3, Parts DEF SetStarting, Return, VEStarted,
       LaunchSteps, EndSteps, StopSteps, ReleasedSteps, BuiltSteps
<1>6. Progress(t)'
  <2>1. ve'[t] = 1 /\ \A j \in VEs : ~(j <= 0)
    BY <1>1, Parts DEF ThreadsOK, SetStarting, VEs
  <2>. QED
    BY <1>2, <2>1 DEF Progress, HasContainers, StopSteps
<1>7. pc'[t] \in LaunchSteps =>
         pc[t] \in LaunchSteps /\ cur'[t] = cur[t] /\ status'[cur[t]] \in Building
    BY <1>1, <1>2, <1>3, OwnExpr, Parts DEF SetStarting, LaunchSteps
<1>8. ThreadMove(t)
    BY <1>1, <1>2, <1>3, <1>5, <1>6, <1>7, ThreadMoves DEF SetStarting,
       LaunchSteps, EndSteps, StopSteps, ReleasedSteps, BuiltSteps
<1>. QED
    BY <1>1, <1>2, <1>3, <1>4, <1>5, <1>8, HostedMove,
       TodoMove

LEMMA StartAzureHosted ==
    ASSUME TypeInv, HostedInv, AlaudaFlags = {FALSE}, NEW t \in Threads,
           StartAzure(t), UNCHANGED hostedVars, UNCHANGED alaudaVars
    PROVE  HostedInv'
<1>1. TypeOK /\ NumVE \in Nat /\ cur[t] \in Exprs
    BY StepSets, ExprAssumption DEF TypeInv, Located, LocatedAt, StartAzure,
       ExprSteps, VESteps, Steps, ManagerSteps, HostedSteps, AlaudaSteps
<1>2. /\ Alone(t) /\ pc'[t] \in {"idle", "recycle"}
      /\ cur'[t] = None
    BY <1>1, Parts DEF ThreadsOK, Alone, StartAzure, Return, VEStarted
<1>3. UNCHANGED <<status, provider, alauda, job, todo>>
    BY DEF StartAzure, Return, VEStarted
<1>4. HostedOnly'
    BY <1>2, <1>3, OnlyMove DEF AlaudaSteps
<1>5. ContainersKept /\ StatusMove(t) /\ PortsMove(t)
    BY <1>1, <1>2, <1>3, Parts DEF StartAzure, Return, VEStarted,
       LaunchSteps, EndSteps, StopSteps, ReleasedSteps, BuiltSteps
<1>6. ThreadMove(t)
    BY <1>1, <1>2, <1>3, <1>5, ThreadMoves DEF StartAzure, LaunchSteps,
       EndSteps, StopSteps, ReleasedSteps, BuiltSteps
<1>. QED
    BY <1>1, <1>2, <1>3, <1>4, <1>5, <1>6, HostedMove,
       TodoMove

LEMMA AddVEHosted ==
    ASSUME TypeInv, HostedInv, AlaudaFlags = {FALSE}, NEW t \in Threads,
           AddVE(t), UNCHANGED hostedVars, UNCHANGED alaudaVars
    PROVE  HostedInv'
<1>1. TypeOK /\ NumVE \in Nat /\ cur[t] \in Exprs /\ ve[t] \in VEs
    BY StepSets, ExprAssumption DEF TypeInv, Located, LocatedAt, AddVE,
       ExprSteps, VESteps, Steps, ManagerSteps, HostedSteps, AlaudaSteps
<1>2. /\ Alone(t) /\ pc'[t] \in {"h_host"}
      /\ cur'[t] = cur[t]
      /\ ve'[t] = ve[t]
    BY <1>1, Parts DEF ThreadsOK, Alone, AddVE, Return, VEStarted,
       HostedOnly
<1>3. UNCHANGED <<status, alauda, job, todo>>
    BY DEF AddVE, Return, VEStarted
<1>4. HostedOnly'
  <2>1. \A e \in Exprs, i \in VEs : provider'[e][i] = "DOCKER"
    <3>1. /\ provider \in [Exprs -> [VEs -> {"DOCKER", "ALAUDA"}]]
          /\ \A e \in Exprs, i \in VEs : provider[e][i] = "DOCKER"
      BY <1>1, Parts DEF HostedOnly
    <3>2. provider' = [provider EXCEPT ![cur[t]][ve[t]] = "DOCKER"]
      BY DEF AddVE
    <3>. QED
      BY <1>1, <3>1, <3>2, UpdateRow
  <2>. QED
    BY <1>2, <1>3, <2>1 DEF HostedInv, HostedOnly, Alone, AlaudaSteps
<1>5. ContainersKept /\ StatusMove(t) /\ PortsMove(t)
    BY <1>1, <1>2, <1>3, Parts DEF AddVE, Return, VEStarted, LaunchSteps,
       EndSteps, StopSteps, ReleasedSteps, BuiltSteps
<1>6. Progress(t)'
    BY <1>1, <1>2, <1>3, Parts DEF VEs, ContainersFirst, Progress,
       HasContainers, ThreadMove, AddVE, Return, VEStarted, StopSteps,
       ReleasedSteps, BuiltSteps
<1>7. pc'[t] \in LaunchSteps =>
         pc[t] \in LaunchSteps /\ cur'[t] = cur[t] /\ status'[cur[t]] \in Building
    BY <1>1, <1>2, <1>3, OwnExpr, Parts DEF AddVE, LaunchSteps
<1>8. ThreadMove(t)
    BY <1>1, <1>2, <1>3, <1>5, <1>6, <1>7, ThreadMoves DEF AddVE,
       LaunchSteps, EndSteps, StopSteps, ReleasedSteps, BuiltSteps
<1>. QED
    BY <1>1, <1>2, <1>3, <1>4, <1>5, <1>8, HostedMove,
       TodoMove

LEMMA SetRunningHosted ==
    ASSUME TypeInv, HostedInv, AlaudaFlags = {FALSE}, NEW t \in Threads,
           SetRunning(t), UNCHANGED hostedVars, UNCHANGED alaudaVars
    PROVE  HostedInv'
<1>1. TypeOK /\ NumVE \in Nat /\ cur[t] \in Exprs
    BY StepSets, ExprAssumption DEF TypeInv, Located, LocatedAt, SetRunning,
       ExprSteps, VESteps, Steps, ManagerSteps, HostedSteps, AlaudaSteps
<1>2. /\ Alone(t) /\ pc'[t] \in {"report"}
      /\ cur'[t] = cur[t]
    BY <1>1, Parts DEF ThreadsOK, Alone, SetRunning, Return, VEStarted
<1>3. UNCHANGED <<provider, alauda, job, todo>>
    BY DEF SetRunning, Return, VEStarted
<1>4. HostedOnly'
    BY <1>2, <1>3, OnlyMove DEF AlaudaSteps
<1>5. ContainersKept /\ StatusMove(t) /\ PortsMove(t)
    BY <1>1, <1>2, <1>3, Parts, OwnExpr DEF SetRunning, ContainersFirst,
       Progress, Return, VEStarted, LaunchSteps, EndSteps, StopSteps,
       ReleasedSteps, BuiltSteps
<1>6. ThreadMove(t)
    BY <1>1, <1>2, <1>3, <1>5, ThreadMoves DEF SetRunning, LaunchSteps,
       EndSteps, StopSteps, ReleasedSteps, BuiltSteps
<1>. QED
    BY <1>1, <1>2, <1>3, <1>4, <1>5, <1>6, HostedMove,
       TodoMove

LEMMA MarkExprHosted ==
    ASSUME TypeInv, HostedInv, AlaudaFlags = {FALSE}, NEW t \in Threads,
           MarkExpr(t), UNCHANGED hostedVars, UNCHANGED alaudaVars
    PROVE  HostedInv'
<1>1. TypeOK /\ NumVE \in Nat /\ cur[t] \in Exprs
    BY StepSets, ExprAssumption DEF TypeInv, Located, LocatedAt, MarkExpr,
       ExprSteps, VESteps, Steps, ManagerSteps, HostedSteps, AlaudaSteps
<1>2. /\ Alone(t) /\ pc'[t] \in {"mark_ve"}
      /\ cur'[t] = cur[t]
    BY <1>1, Parts DEF ThreadsOK, Alone, MarkExpr, Return, VEStarted
<1>3. UNCHANGED <<provider, alauda, job, todo>>
    BY DEF MarkExpr, Return, VEStarted
<1>4. HostedOnly'
    BY <1>2, <1>3, OnlyMove DEF AlaudaSteps
<1>5. ContainersKept /\ StatusMove(t) /\ PortsMove(t)
    BY <1>1, <1>2, <1>3, Parts DEF MarkExpr, Return, VEStarted, LaunchSteps,
       EndSteps, StopSteps, ReleasedSteps, BuiltSteps
<1>6. ThreadMove(t)
    BY <1>1, <1>2, <1>3, <1>5, ThreadMoves DEF MarkExpr, LaunchSteps,
       EndSteps, StopSteps, ReleasedSteps, BuiltSteps
<1>. QED
    BY <1>1, <1>2, <1>3, <1>4, <1>5, <1>6, HostedMove,
       TodoMove

LEMMA MarkVEHosted ==
    ASSUME TypeInv, HostedInv, AlaudaFlags = {FALSE}, NEW t \in Threads,
           MarkVE(t), UNCHANGED hostedVars, UNCHANGED alaudaVars
    PROVE  HostedInv'
<1>1. TypeOK /\ NumVE \in Nat /\ cur[t] \in Exprs
    BY StepSets, ExprAssumption DEF TypeInv, Located, LocatedAt, MarkVE,
       ExprSteps, VESteps, Steps, ManagerSteps, HostedSteps, AlaudaSteps
<1>2. /\ Alone(t) /\ pc'[t] \in {"idle", "recycle"}
      /\ cur'[t] = None
    BY <1>1, Parts DEF ThreadsOK, Alone, MarkVE, Return, VEStarted
<1>3. UNCHANGED <<status, provider, alauda, job, todo>>
    BY DEF MarkVE, Return, VEStarted
<1>4. HostedOnly'
    BY <1>2, <1>3, OnlyMove DEF AlaudaSteps
<1>5. ContainersKept /\ StatusMove(t) /\ PortsMove(t)
    BY <1>1, <1>2, <1>3, Parts DEF MarkVE, Return, VEStarted, LaunchSteps,
       EndSteps, StopSteps, ReleasedSteps, BuiltSteps
<1>6. ThreadMove(t)
    BY <1>1, <1>2, <1>3, <1>5, ThreadMoves DEF MarkVE, LaunchSteps,
       EndSteps, StopSteps, ReleasedSteps, BuiltSteps
<1>. QED
    BY <1>1, <1>2, <1>3, <1>4, <1>5, <1>6, HostedMove,
       TodoMove

LEMMA RollbackHosted ==
    ASSUME TypeInv, HostedInv, AlaudaFlags = {FALSE}, NEW t \in Threads,
           Rollback(t), UNCHANGED hostedVars, UNCHANGED alaudaVars
    PROVE  HostedInv'
<1>1. TypeOK /\ NumVE \in Nat /\ cur[t] \in Exprs
    BY StepSets, ExprAssumption DEF TypeInv, Located, LocatedAt, Rollback,
       ExprSteps, VESteps, Steps, ManagerSteps, HostedSteps, AlaudaSteps
<1>2. /\ Alone(t) /\ pc'[t] \in {"rollback_ves"}
      /\ cur'[t] = cur[t]
    BY <1>1, Parts DEF ThreadsOK, Alone, Rollback, Return, VEStarted
<1>3. UNCHANGED <<provider, alauda, job, todo>>
    BY DEF Rollback, Return, VEStarted
<1>4. HostedOnly'
    BY <1>2, <1>3, OnlyMove DEF AlaudaSteps
<1>5. ContainersKept /\ StatusMove(t) /\ PortsMove(t)
    BY <1>1, <1>2, <1>3, Parts DEF Rollback, Return, VEStarted, LaunchSteps,
       EndSteps, StopSteps, ReleasedSteps, BuiltSteps
<1>6. ThreadMove(t)
    BY <1>1, <1>2, <1>3, <1>5, ThreadMoves DEF Rollback, LaunchSteps,
       EndSteps, StopSteps, ReleasedSteps, BuiltSteps
<1>. QED
    BY <1>1, <1>2, <1>3, <1>4, <1>5, <1>6, HostedMove,
       TodoMove

LEMMA RollbackVEsHosted ==
    ASSUME TypeInv, HostedInv, AlaudaFlags = {FALSE}, NEW t \in Threads,
           RollbackVEs(t), UNCHANGED hostedVars, UNCHANGED alaudaVars
    PROVE  HostedInv'
<1>1. TypeOK /\ NumVE \in Nat /\ cur[t] \in Exprs
    BY StepSets, ExprAssumption DEF TypeInv, Located, LocatedAt,
       RollbackVEs, ExprSteps, VESteps, Steps, ManagerSteps, HostedSteps,
       AlaudaSteps
<1>2. /\ Alone(t) /\ pc'[t] \in {"idle", "recycle"}
      /\ cur'[t] = None
    BY <1>1, Parts DEF ThreadsOK, Alone, RollbackVEs, Return, VEStarted
<1>3. UNCHANGED <<provider, alauda, job, todo>>
    BY DEF RollbackVEs, Return, VEStarted
<1>4. HostedOnly'
    BY <1>2, <1>3, OnlyMove DEF AlaudaSteps
<1>5. ContainersKept /\ StatusMove(t) /\ PortsMove(t)
    BY <1>1, <1>2, <1>3, Parts DEF RollbackVEs, Return, VEStarted,
       LaunchSteps, EndSteps, StopSteps, ReleasedSteps, BuiltSteps
<1>6. ThreadMove(t)
    BY <1>1, <1>2, <1>3, <1>5, ThreadMoves DEF RollbackVEs, LaunchSteps,
       EndSteps, StopSteps, ReleasedSteps, BuiltSteps
<1>. QED
    BY <1>1, <1>2, <1>3, <1>4, <1>5, <1>6, HostedMove,
       TodoMove

LEMMA ReserveHostHosted ==
    ASSUME TypeInv, HostedInv, AlaudaFlags = {FALSE}, NEW t \in Threads,
           ReserveHost(t), UNCHANGED alaudaVars
    PROVE  HostedInv'
<1>1. TypeOK /\ cur[t] \in Exprs /\ ve[t] \in VEs /\ NumVE \in Nat
    BY StepSets, ExprAssumption DEF TypeInv, Located, LocatedAt,
       ReserveHost, ExprSteps, VESteps, Steps, ManagerSteps, HostedSteps,
       AlaudaSteps
<1>2. /\ Alone(t) /\ pc'[t] \in {"h_ports", "rollback"}
      /\ cur'[t] = cur[t]
      /\ ve'[t] = ve[t]
    BY <1>1, Parts DEF ThreadsOK, Alone, ReserveHost
<1>3. UNCHANGED <<status, provider, alauda, job, todo, bound>>
    BY DEF ReserveHost
<1>4. HostedOnly'
    BY <1>2, <1>3, OnlyMove DEF AlaudaSteps
<1>5. /\ ContainersKept
      /\ pc'[t] = "h_ports" => container'[cur[t]][ve[t]] # None
  <2>1. CASE UNCHANGED container /\ pc'[t] = "rollback"
    BY <2>1
  <2>2. CASE \E h \in Hosts :
                container' = [container EXCEPT ![cur[t]][ve[t]] = h]
    <3>1. PICK h \in Hosts :
                container' = [container EXCEPT ![cur[t]][ve[t]] = h]
      BY <2>2
    <3>2. container \in [Exprs -> [VEs -> Hosts \cup {None}]] /\ h # None
      BY <1>1, Parts, HostAssumption
    <3>. QED
      BY <1>1, <3>1, <3>2, UpdateRow
  <2>3. pc \in [Threads -> Steps]
    BY <1>1, Parts DEF ThreadsOK
  <2>. QED
    BY <2>1, <2>2, <2>3 DEF ReserveHost
<1>6. StatusMove(t) /\ PortsMove(t)
    BY <1>3
<1>7. pc'[t] = "h_ports" => Progress(t)'
  <2>1. \A j \in VEs : j <= ve[t] => j <= ve[t] - 1 \/ j = ve[t]
    BY <1>1 DEF VEs
  <2>2. HasContainers(cur[t], ve[t] - 1)
    BY DEF ContainersFirst, Progress, ReserveHost
  <2>3. pc'[t] = "h_ports" => HasContainers(cur[t], ve[t])'
    BY <1>1, <1>2, <1>5, <2>1, <2>2 DEF HasContainers
  <2>. QED
    BY <1>2, <2>3 DEF Progress, StopSteps
<1>8. pc[t] \in LaunchSteps /\ status'[cur[t]] \in Building
    BY <1>3, OwnExpr DEF ReserveHost, LaunchSteps
<1>9. ThreadMove(t)
    BY <1>1, <1>2, <1>5, <1>6, <1>7, <1>8, ThreadMoves DEF LaunchSteps
<1>. QED
    BY <1>1, <1>2, <1>3, <1>4, <1>5, <1>6, <1>9, HostedMove, TodoMove

LEMMA AssignPortsHosted ==
    ASSUME TypeInv, HostedInv, AlaudaFlags = {FALSE}, NEW t \in Threads,
           AssignPorts(t), UNCHANGED alaudaVars
    PROVE  HostedInv'
<1>1. TypeOK /\ NumVE \in Nat /\ cur[t] \in Exprs /\ ve[t] \in VEs
    BY StepSets, ExprAssumption DEF TypeInv, Located, LocatedAt,
       AssignPorts, ExprSteps, VESteps, Steps, ManagerSteps, HostedSteps,
       AlaudaSteps
<1>2. /\ Alone(t) /\ pc'[t] \in {"h_look", "rollback"}
      /\ cur'[t] = cur[t]
      /\ ve'[t] = ve[t]
    BY <1>1, Parts DEF ThreadsOK, Alone, AssignPorts, Return, VEStarted
<1>3. UNCHANGED <<status, provider, alauda, job, todo>>
    BY DEF AssignPorts, Return, VEStarted
<1>4. HostedOnly'
    BY <1>2, <1>3, OnlyMove DEF AlaudaSteps
<1>5. ContainersKept /\ StatusMove(t) /\ PortsMove(t)
  <2>1. ContainersKept /\ StatusMove(t)
    BY <1>3 DEF AssignPorts
  <2>2. CASE bound' = bound
    BY <2>1, <2>2
  <2>3. CASE /\ bound' = [bound EXCEPT ![cur[t]] = @ \cup {ve[t]}]
             /\ Continue(t, "h_look")
    <3>1. \A e \in Exprs : e # cur[t] => bound'[e] = bound[e]
      BY <1>1, <2>3, Parts
    <3>2. /\ status[cur[t]] \in Building /\ MayLaunch(t, cur[t])
          /\ pc'[t] \in LaunchSteps
      BY <1>1, <2>3, OwnExpr, Parts DEF AssignPorts, LaunchSteps, ThreadsOK
    <3>. QED
      BY <1>3, <2>1, <3>1, <3>2
  <2>. QED
    BY <2>2, <2>3 DEF AssignPorts
<1>6. ThreadMove(t)
    BY <1>1, <1>2, <1>3, <1>5, ThreadMoves DEF AssignPorts, LaunchSteps,
       EndSteps, StopSteps, ReleasedSteps, BuiltSteps
<1>. QED
    BY <1>1, <1>2, <1>3, <1>4, <1>5, <1>6, HostedMove,
       TodoMove

LEMMA LoadHostHosted ==
    ASSUME TypeInv, HostedInv, AlaudaFlags = {FALSE}, NEW t \in Threads,
           LoadHost(t), UNCHANGED alaudaVars
    PROVE  HostedInv'
<1>1. TypeOK /\ NumVE \in Nat /\ cur[t] \in Exprs /\ ve[t] \in VEs
    BY StepSets, ExprAssumption DEF TypeInv, Located, LocatedAt, LoadHost,
       ExprSteps, VESteps, Steps, ManagerSteps, HostedSteps, AlaudaSteps
<1>2. /\ Alone(t) /\ pc'[t] \in {"h_create", "rollback"}
      /\ cur'[t] = cur[t]
      /\ ve'[t] = ve[t]
    BY <1>1, Parts DEF ThreadsOK, Alone, LoadHost, Return, VEStarted
<1>3. UNCHANGED <<status, provider, alauda, job, todo>>
    BY DEF LoadHost, Return, VEStarted
<1>4. HostedOnly'
    BY <1>2, <1>3, OnlyMove DEF AlaudaSteps
<1>5. ContainersKept /\ StatusMove(t) /\ PortsMove(t)
    BY <1>1, <1>2, <1>3, Parts DEF LoadHost, Return, VEStarted, LaunchSteps,
       EndSteps, StopSteps, ReleasedSteps, BuiltSteps
<1>6. ThreadMove(t)
    BY <1>1, <1>2, <1>3, <1>5, ThreadMoves DEF LoadHost, LaunchSteps,
       EndSteps, StopSteps, ReleasedSteps, BuiltSteps
<1>. QED
    BY <1>1, <1>2, <1>3, <1>4, <1>5, <1>6, HostedMove,
       TodoMove

LEMMA CreateContainerHosted ==
    ASSUME TypeInv, HostedInv, AlaudaFlags = {FALSE}, NEW t \in Threads,
           CreateContainer(t), UNCHANGED alaudaVars
    PROVE  HostedInv'
<1>1. TypeOK /\ NumVE \in Nat /\ cur[t] \in Exprs /\ ve[t] \in VEs
    BY StepSets, ExprAssumption DEF TypeInv, Located, LocatedAt,
       CreateContainer, ExprSteps, VESteps, Steps, ManagerSteps,
       HostedSteps, AlaudaSteps
<1>2. /\ Alone(t) /\ pc'[t] \in {"h_start", "rollback"}
      /\ cur'[t] = cur[t]
      /\ ve'[t] = ve[t]
    BY <1>1, Parts DEF ThreadsOK, Alone, CreateContainer, Return, VEStarted
<1>3. UNCHANGED <<status, provider, alauda, job, todo>>
    BY DEF CreateContainer, Return, VEStarted
<1>4. HostedOnly'
    BY <1>2, <1>3, OnlyMove DEF AlaudaSteps
<1>5. ContainersKept /\ StatusMove(t) /\ PortsMove(t)
    BY <1>1, <1>2, <1>3, Parts DEF CreateContainer, Return, VEStarted,
       LaunchSteps, EndSteps, StopSteps, ReleasedSteps, BuiltSteps
<1>6. ThreadMove(t)
    BY <1>1, <1>2, <1>3, <1>5, ThreadMoves DEF CreateContainer, LaunchSteps,
       EndSteps, StopSteps, ReleasedSteps, BuiltSteps
<1>. QED
    BY <1>1, <1>2, <1>3, <1>4, <1>5, <1>6, HostedMove,
       TodoMove

LEMMA StartContainerHosted ==
    ASSUME TypeInv, HostedInv, AlaudaFlags = {FALSE}, NEW t \in Threads,
           StartContainer(t), UNCHANGED alaudaVars
    PROVE  HostedInv'
<1>1. TypeOK /\ NumVE \in Nat /\ cur[t] \in Exprs /\ ve[t] \in VEs
    BY StepSets, ExprAssumption DEF TypeInv, Located, LocatedAt,
       StartContainer, ExprSteps, VESteps, Steps, ManagerSteps, HostedSteps,
       AlaudaSteps
<1>2. /\ Alone(t) /\ pc'[t] \in {"h_incr", "rollback"}
      /\ cur'[t] = cur[t]
      /\ ve'[t] = ve[t]
    BY <1>1, Parts DEF ThreadsOK, Alone, StartContainer, Return, VEStarted
<1>3. UNCHANGED <<status, provider, alauda, job, todo>>
    BY DEF StartContainer, Return, VEStarted
<1>4. HostedOnly'
    BY <1>2, <1>3, OnlyMove DEF AlaudaSteps
<1>5. ContainersKept /\ StatusMove(t) /\ PortsMove(t)
    BY <1>1, <1>2, <1>3, Parts DEF StartContainer, Return, VEStarted,
       LaunchSteps, EndSteps, StopSteps, ReleasedSteps, BuiltSteps
<1>6. ThreadMove(t)
    BY <1>1, <1>2, <1>3, <1>5, ThreadMoves DEF StartContainer, LaunchSteps,
       EndSteps, StopSteps, ReleasedSteps, BuiltSteps
<1>. QED
    BY <1>1, <1>2, <1>3, <1>4, <1>5, <1>6, HostedMove,
       TodoMove

LEMMA IncrementCountHosted ==
    ASSUME TypeInv, HostedInv, AlaudaFlags = {FALSE}, NEW t \in Threads,
           IncrementCount(t), UNCHANGED alaudaVars
    PROVE  HostedInv'
<1>1. TypeOK /\ NumVE \in Nat /\ cur[t] \in Exprs /\ ve[t] \in VEs
    BY StepSets, ExprAssumption DEF TypeInv, Located, LocatedAt,
       IncrementCount, ExprSteps, VESteps, Steps, ManagerSteps, HostedSteps,
       AlaudaSteps
<1>2. /\ Alone(t) /\ pc'[t] \in {"h_verify"}
      /\ cur'[t] = cur[t]
      /\ ve'[t] = ve[t]
    BY <1>1, Parts DEF ThreadsOK, Alone, IncrementCount, Return, VEStarted
<1>3. UNCHANGED <<status, provider, alauda, job, todo>>
    BY DEF IncrementCount, Return, VEStarted
<1>4. HostedOnly'
    BY <1>2, <1>3, OnlyMove DEF AlaudaSteps
<1>5. ContainersKept /\ StatusMove(t) /\ PortsMove(t)
    BY <1>1, <1>2, <1>3, Parts DEF IncrementCount, Return, VEStarted,
       LaunchSteps, EndSteps, StopSteps, ReleasedSteps, BuiltSteps
<1>6. ThreadMove(t)
    BY <1>1, <1>2, <1>3, <1>5, ThreadMoves DEF IncrementCount, LaunchSteps,
       EndSteps, StopSteps, ReleasedSteps, BuiltSteps
<1>. QED
    BY <1>1, <1>2, <1>3, <1>4, <1>5, <1>6, HostedMove,
       TodoMove

LEMMA VerifyContainerHosted ==
    ASSUME TypeInv, HostedInv, AlaudaFlags = {FALSE}, NEW t \in Threads,
           VerifyContainer(t), UNCHANGED alaudaVars
    PROVE  HostedInv'
<1>1. TypeOK /\ NumVE \in Nat /\ cur[t] \in Exprs /\ ve[t] \in VEs
    BY StepSets, ExprAssumption DEF TypeInv, Located, LocatedAt,
       VerifyContainer, ExprSteps, VESteps, Steps, ManagerSteps,
       HostedSteps, AlaudaSteps
<1>2. /\ Alone(t) /\ pc'[t] \in {"h_up", "rollback"}
      /\ cur'[t] = cur[t]
      /\ ve'[t] = ve[t]
    BY <1>1, Parts DEF ThreadsOK, Alone, VerifyContainer, Return, VEStarted
<1>3. UNCHANGED <<status, provider, alauda, job, todo>>
    BY DEF VerifyContainer, Return, VEStarted
<1>4. HostedOnly'
    BY <1>2, <1>3, OnlyMove DEF AlaudaSteps
<1>5. ContainersKept /\ StatusMove(t) /\ PortsMove(t)
    BY <1>1, <1>2, <1>3, Parts DEF VerifyContainer, Return, VEStarted,
       LaunchSteps, EndSteps, StopSteps, ReleasedSteps, BuiltSteps
<1>6. ThreadMove(t)
    BY <1>1, <1>2, <1>3, <1>5, ThreadMoves DEF VerifyContainer, LaunchSteps,
       EndSteps, StopSteps, ReleasedSteps, BuiltSteps
<1>. QED
    BY <1>1, <1>2, <1>3, <1>4, <1>5, <1>6, HostedMove,
       TodoMove

LEMMA HostedVEUpHosted ==
    ASSUME TypeInv, HostedInv, AlaudaFlags = {FALSE}, NEW t \in Threads,
           HostedVEUp(t), UNCHANGED alaudaVars
    PROVE  HostedInv'
<1>1. TypeOK /\ NumVE \in Nat /\ cur[t] \in Exprs /\ ve[t] \in VEs
    BY StepSets, ExprAssumption DEF TypeInv, Located, LocatedAt, HostedVEUp,
       ExprSteps, VESteps, Steps, ManagerSteps, HostedSteps, AlaudaSteps
<1>2. /\ Alone(t) /\ pc'[t] \in {"add_ve", "set_running"}
      /\ cur'[t] = cur[t]
    BY <1>1, Parts DEF ThreadsOK, Alone, HostedVEUp, Return, VEStarted
<1>3. UNCHANGED <<status, provider, alauda, job, todo>>
    BY DEF HostedVEUp, Return, VEStarted
<1>4. HostedOnly'
    BY <1>2, <1>3, OnlyMove DEF AlaudaSteps
<1>5. ContainersKept /\ StatusMove(t) /\ PortsMove(t)
    BY <1>1, <1>2, <1>3, Parts DEF HostedVEUp, Return, VEStarted,
       LaunchSteps, EndSteps, StopSteps, ReleasedSteps, BuiltSteps
<1>6. Progress(t)'
    BY <1>1, <1>2, <1>3, Parts DEF VEs, ContainersFirst, Progress,
       HasContainers, ThreadMove, HostedVEUp, Return, VEStarted, StopSteps,
       ReleasedSteps, BuiltSteps
<1>7. pc'[t] \in LaunchSteps =>
         pc[t] \in LaunchSteps /\ cur'[t] = cur[t] /\ status'[cur[t]] \in Building
    BY <1>1, <1>2, <1>3, OwnExpr, Parts DEF HostedVEUp, LaunchSteps
<1>8. ThreadMove(t)
    BY <1>1, <1>2, <1>3, <1>5, <1>6, <1>7, ThreadMoves DEF HostedVEUp,
       LaunchSteps, EndSteps, StopSteps, ReleasedSteps, BuiltSteps
<1>. QED
    BY <1>1, <1>2, <1>3, <1>4, <1>5, <1>8, HostedMove,
       TodoMove

LEMMA StopContainerHosted ==
    ASSUME TypeInv, HostedInv, AlaudaFlags = {FALSE}, NEW t \in Threads,
           StopContainer(t), UNCHANGED alaudaVars
    PROVE  HostedInv'
<1>1. TypeOK /\ NumVE \in Nat /\ cur[t] \in Exprs /\ ve[t] \in VEs
    BY StepSets, ExprAssumption DEF TypeInv, Located, LocatedAt,
       StopContainer, ExprSteps, VESteps, Steps, ManagerSteps, HostedSteps,
       AlaudaSteps
<1>2. /\ Alone(t) /\ pc'[t] \in {"h_release", "rollback"}
      /\ cur'[t] = cur[t]
      /\ ve'[t] = ve[t]
    BY <1>1, Parts DEF ThreadsOK, Alone, StopContainer, Return, VEStarted
<1>3. UNCHANGED <<status, provider, alauda, job, todo>>
    BY DEF StopContainer, Return, VEStarted
<1>4. HostedOnly'
    BY <1>2, <1>3, OnlyMove DEF AlaudaSteps
<1>5. ContainersKept /\ StatusMove(t) /\ PortsMove(t)
    BY <1>1, <1>2, <1>3, Parts DEF StopContainer, Return, VEStarted,
       LaunchSteps, EndSteps, StopSteps, ReleasedSteps, BuiltSteps
<1>6. ThreadMove(t)
    BY <1>1, <1>2, <1>3, <1>5, ThreadMoves DEF StopContainer, LaunchSteps,
       EndSteps, StopSteps, ReleasedSteps, BuiltSteps
<1>. QED
    BY <1>1, <1>2, <1>3, <1>4, <1>5, <1>6, HostedMove,
       TodoMove

LEMMA ReleasePortsHosted ==
    ASSUME TypeInv, HostedInv, AlaudaFlags = {FALSE}, NEW t \in Threads,
           ReleasePorts(t), UNCHANGED alaudaVars
    PROVE  HostedInv'
<1>1. TypeOK /\ NumVE \in Nat /\ cur[t] \in Exprs /\ ve[t] \in VEs
    BY StepSets, ExprAssumption DEF TypeInv, Located, LocatedAt,
       ReleasePorts, ExprSteps, VESteps, Steps, ManagerSteps, HostedSteps,
       AlaudaSteps
<1>2. /\ Alone(t) /\ pc'[t] \in {"h_decr_read"}
      /\ cur'[t] = cur[t]
      /\ ve'[t] = ve[t]
    BY <1>1, Parts DEF ThreadsOK, Alone, ReleasePorts, Return, VEStarted
<1>3. UNCHANGED <<status, provider, alauda, job, todo>>
    BY DEF ReleasePorts, Return, VEStarted
<1>4. HostedOnly'
    BY <1>2, <1>3, OnlyMove DEF AlaudaSteps
<1>5. ContainersKept /\ StatusMove(t) /\ PortsMove(t)
    BY <1>1, <1>2, <1>3, Parts DEF ReleasePorts, Return, VEStarted,
       LaunchSteps, EndSteps, StopSteps, ReleasedSteps, BuiltSteps
<1>6. bound'[cur[t]] = {}
    BY <1>1, Parts DEF ReleasedFirst, ReleasedSteps, ReleasePorts
<1>7. ThreadMove(t)
    BY <1>1, <1>2, <1>3, <1>5, <1>6, ThreadMoves DEF ReleasePorts,
       LaunchSteps, EndSteps, StopSteps, ReleasedSteps, BuiltSteps
<1>. QED
    BY <1>1, <1>2, <1>3, <1>4, <1>5, <1>7, HostedMove,
       TodoMove

LEMMA LoadCountHosted ==
    ASSUME TypeInv, HostedInv, AlaudaFlags = {FALSE}, NEW t \in Threads,
           LoadCount(t), UNCHANGED alaudaVars
    PROVE  HostedInv'
<1>1. TypeOK /\ NumVE \in Nat /\ cur[t] \in Exprs /\ ve[t] \in VEs
    BY StepSets, ExprAssumption DEF TypeInv, Located, LocatedAt, LoadCount,
       ExprSteps, VESteps, Steps, ManagerSteps, HostedSteps, AlaudaSteps
<1>2. /\ Alone(t) /\ pc'[t] \in {"h_decr_write"}
      /\ cur'[t] = cur[t]
      /\ ve'[t] = ve[t]
    BY <1>1, Parts DEF ThreadsOK, Alone, LoadCount, Return, VEStarted
<1>3. UNCHANGED <<status, provider, alauda, job, todo>>
    BY DEF LoadCount, Return, VEStarted
<1>4. HostedOnly'
    BY <1>2, <1>3, OnlyMove DEF AlaudaSteps
<1>5. ContainersKept /\ StatusMove(t) /\ PortsMove(t)
    BY <1>1, <1>2, <1>3, Parts DEF LoadCount, Return, VEStarted,
       LaunchSteps, EndSteps, StopSteps, ReleasedSteps, BuiltSteps
<1>6. bound'[cur[t]] = {}
    BY <1>1, Parts DEF ReleasedFirst, ReleasedSteps, LoadCount
<1>7. ThreadMove(t)
    BY <1>1, <1>2, <1>3, <1>5, <1>6, ThreadMoves DEF LoadCount, LaunchSteps,
       EndSteps, StopSteps, ReleasedSteps, BuiltSteps
<1>. QED
    BY <1>1, <1>2, <1>3, <1>4, <1>5, <1>7, HostedMove,
       TodoMove

LEMMA DecrementCountHosted ==
    ASSUME TypeInv, HostedInv, AlaudaFlags = {FALSE}, NEW t \in Threads,
           DecrementCount(t), UNCHANGED alaudaVars
    PROVE  HostedInv'
<1>1. TypeOK /\ NumVE \in Nat /\ cur[t] \in Exprs /\ ve[t] \in VEs
    BY StepSets, ExprAssumption DEF TypeInv, Located, LocatedAt,
       DecrementCount, ExprSteps, VESteps, Steps, ManagerSteps, HostedSteps,
       AlaudaSteps
<1>2. /\ Alone(t) /\ pc'[t] \in {"h_stopped"}
      /\ cur'[t] = cur[t]
      /\ ve'[t] = ve[t]
    BY <1>1, Parts DEF ThreadsOK, Alone, DecrementCount, Return, VEStarted
<1>3. UNCHANGED <<status, provider, alauda, job, todo>>
    BY DEF DecrementCount, Return, VEStarted
<1>4. HostedOnly'
    BY <1>2, <1>3, OnlyMove DEF AlaudaSteps
<1>5. ContainersKept /\ StatusMove(t) /\ PortsMove(t)
    BY <1>1, <1>2, <1>3, Parts DEF DecrementCount, Return, VEStarted,
       LaunchSteps, EndSteps, StopSteps, ReleasedSteps, BuiltSteps
<1>6. bound'[cur[t]] = {}
    BY <1>1, Parts DEF ReleasedFirst, ReleasedSteps, DecrementCount
<1>7. ThreadMove(t)
    BY <1>1, <1>2, <1>3, <1>5, <1>6, ThreadMoves DEF DecrementCount,
       LaunchSteps, EndSteps, StopSteps, ReleasedSteps, BuiltSteps
<1>. QED
    BY <1>1, <1>2, <1>3, <1>4, <1>5, <1>7, HostedMove,
       TodoMove

HIDE DEF exprVars, veVars, hostedVars, alaudaVars, SetStatus, SetRemote,
         Continue, Goto, TablesOK, HostedTypeOK, HostedInv,
         LaunchIsPrivate, ContainersKept, StatusMove, PortsMove,
         MayEnd, MayLaunch, Building

----------------------------------------------------------------------------
(* Calls, and the steps that take another experiment.                      *)

(* A step that writes no table of the invariant.                           *)
LEMMA TablesStay ==
    ASSUME NEW t \in Threads, UNCHANGED <<status, container, bound>>
    PROVE  ContainersKept /\ StatusMove(t) /\ PortsMove(t)
    BY DEF ContainersKept, StatusMove, PortsMove

(* A thread that ends up neither building nor ending an experiment.        *)
LEMMA IdleMove ==
    ASSUME TypeInv, HostedInv, NEW t \in Threads, UNCHANGED status,
           pc'[t] \in {"idle", "pool", "assign", "insert", "report",
                       "mark_expr", "recycle", "recycle_assign"},
           cur'[t] \in Exprs => status[cur'[t]] # "NONE"
    PROVE  ThreadMove(t)
<1>1. pc'[t] \notin LaunchSteps \cup EndSteps
    BY DEF LaunchSteps, EndSteps, StopSteps
<1>2. pc'[t] \notin ReleasedSteps /\ Progress(t)'
    BY DEF ReleasedSteps, Progress, StopSteps
<1>. QED
    BY <1>1, <1>2 DEF ThreadMove

(* A stop begins with an experiment that nobody builds, complete.          *)
LEMMA EnterMove ==
    ASSUME TypeInv, HostedInv, NEW t \in Threads, NEW e \in Exprs,
           status[e] = "RUNNING", pc'[t] = "h_stop", cur'[t] = e,
           UNCHANGED <<status, container>>
    PROVE  ThreadMove(t)
<1>1. pc'[t] \notin LaunchSteps \cup ReleasedSteps
    BY DEF LaunchSteps, ReleasedSteps
<1>2. MayEnd(t, e)
    BY DEF HostedInv, LaunchIsPrivate, MayEnd, Building
<1>3. Progress(t)'
  <2>1. HasContainers(e, NumVE)'
    BY DEF HostedInv, ContainersFirst, HasContainers
  <2>. QED
    BY <2>1 DEF Progress
<1>. QED
    BY <1>1, <1>2, <1>3 DEF ThreadMove

LEMMA CallHosted ==
    ASSUME TypeInv, HostedInv, AlaudaFlags = {FALSE}, NEW t \in Threads,
           Call(t)
    PROVE  HostedInv'
<1>1. TypeOK /\ ThreadsOK
    BY Parts DEF TypeInv
<1>2. UNCHANGED <<status, provider, alauda, job, container, bound>>
    BY DEF Call, StartExpr, PollExpr, StopExpr, RecycleTick, exprVars,
           veVars, hostedVars, alaudaVars
<1>3. ContainersKept /\ StatusMove(t) /\ PortsMove(t)
    BY <1>2, TablesStay
<1>4. ASSUME Alone(t), ThreadMove(t), pc'[t] \notin AlaudaSteps,
             \A e \in todo' : status'[e] # "NONE"
      PROVE  HostedInv'
  <2>1. HostedOnly'
    BY <1>2, <1>4 DEF HostedInv, HostedOnly, Alone
  <2>. QED
    BY <1>3, <1>4, <2>1, HostedMove
<1>5. \A e \in todo : status'[e] # "NONE"
    BY <1>2 DEF HostedInv, KnownExprs
<1>6. ASSUME NEW u \in Users, NEW p \in Templates, StartExpr(t, u, p)
      PROVE  HostedInv'
  <2>1. Alone(t) /\ pc'[t] \in {"report", "pool"} /\ todo' = todo
    BY <1>1, <1>6 DEF ThreadsOK, StartExpr, Alone
  <2>2. cur'[t] \in Exprs => status[cur'[t]] # "NONE"
    BY <1>1, <1>6 DEF ThreadsOK, StartExpr, LiveOf, Live, HostedInv,
                      KnownExprs
  <2>. QED
    BY <1>2, <1>4, <1>5, <2>1, <2>2, IdleMove DEF AlaudaSteps
<1>7. ASSUME NEW e \in Exprs, PollExpr(t, e)
      PROVE  HostedInv'
  <2>1. /\ Alone(t) /\ pc'[t] = "report" /\ todo' = todo
        /\ cur'[t] = e /\ status[e] # "NONE"
    BY <1>1, <1>7 DEF ThreadsOK, PollExpr, Alone
  <2>. QED
    BY <1>2, <1>4, <1>5, <2>1, IdleMove DEF AlaudaSteps
<1>8. ASSUME NEW e \in Exprs, NEW op \in {"stop", "delete"},
             StopExpr(t, e, op)
      PROVE  HostedInv'
  <2>1. /\ Alone(t) /\ pc'[t] = "h_stop" /\ todo' = todo
        /\ cur'[t] = e /\ status[e] = "RUNNING"
    BY <1>1, <1>8 DEF ThreadsOK, StopExpr, EnterStop, Alone, HostedInv,
                      HostedOnly
  <2>. QED
    BY <1>2, <1>4, <1>5, <2>1, EnterMove DEF AlaudaSteps
<1>9. CASE RecycleTick(t)
  <2>1. Alone(t) /\ pc'[t] = "recycle" /\ cur'[t] = cur[t]
    BY <1>1, <1>9 DEF ThreadsOK, RecycleTick, Alone
  <2>2. \A e \in todo' : status'[e] # "NONE"
    BY <1>2, <1>9 DEF RecycleTick
  <2>3. cur'[t] \in Exprs => status[cur'[t]] # "NONE"
    BY <2>1 DEF HostedInv, KnownExprs
  <2>. QED
    BY <1>2, <1>4, <2>1, <2>2, <2>3, IdleMove DEF AlaudaSteps
<1>. QED
    BY <1>6, <1>7, <1>8, <1>9 DEF Call

LEMMA TakeHosted ==
    ASSUME TypeInv, HostedInv, AlaudaFlags = {FALSE}, NEW t \in Threads,
           \/ FindPooled(t) \/ RecycleNext(t) \/ RecycleAssign(t)
           \/ RecycleDone(t),
           UNCHANGED <<hostedVars, alaudaVars>>
    PROVE  HostedInv'
<1>1. TypeOK /\ ThreadsOK
    BY Parts DEF TypeInv
<1>2. UNCHANGED <<status, provider, alauda, job, container, bound>>
    BY DEF FindPooled, RecycleNext, RecycleAssign, RecycleDone, exprVars,
           veVars, hostedVars, alaudaVars
<1>3. ContainersKept /\ StatusMove(t) /\ PortsMove(t)
    BY <1>2, TablesStay
<1>4. todo' \subseteq todo
    BY DEF FindPooled, RecycleNext, RecycleAssign, RecycleDone, Return
<1>5. ASSUME Alone(t), ThreadMove(t), pc'[t] \notin AlaudaSteps
      PROVE  HostedInv'
  <2>1. HostedOnly'
    BY <1>2, <1>5 DEF HostedInv, HostedOnly, Alone
  <2>2. \A e \in todo' : status'[e] # "NONE"
    BY <1>2, <1>4 DEF HostedInv, KnownExprs
  <2>. QED
    BY <1>3, <1>5, <2>1, <2>2, HostedMove
<1>6. CASE FindPooled(t)
  <2>1. Alone(t) /\ pc'[t] \in {"assign", "insert"}
    BY <1>1, <1>6 DEF ThreadsOK, FindPooled, Alone
  <2>2. cur'[t] \in Exprs => status[cur'[t]] # "NONE"
    BY <1>1, <1>6 DEF ThreadsOK, FindPooled, Pooled, HostedInv, KnownExprs
  <2>. QED
    BY <1>2, <1>5, <2>1, <2>2, IdleMove DEF AlaudaSteps
<1>7. CASE RecycleNext(t)
  <2>1. PICK e \in todo :
            \/ EnterStop(t, e)
            \/ UNCHANGED <<pc, cur, ve, last>>
            \/ /\ cur' = [cur EXCEPT ![t] = e]
               /\ pc' = [pc EXCEPT ![t] = "recycle_assign"]
               /\ UNCHANGED <<ve, last>>
    BY <1>7 DEF RecycleNext
  <2>2. e \in Exprs /\ status[e] # "NONE"
    BY <1>1 DEF ThreadsOK, HostedInv, KnownExprs
  <2>3. CASE EnterStop(t, e)
    <3>1. /\ Alone(t) /\ pc'[t] = "h_stop" /\ cur'[t] = e
          /\ status[e] = "RUNNING"
      BY <1>1, <2>3 DEF ThreadsOK, EnterStop, Alone, HostedInv, HostedOnly
    <3>. QED
      BY <1>2, <1>5, <2>2, <3>1, EnterMove DEF AlaudaSteps
  <2>4. CASE UNCHANGED <<pc, cur, ve, last>>
    <3>1. Alone(t) /\ pc'[t] = "recycle" /\ cur'[t] = cur[t]
      BY <1>7, <2>4 DEF RecycleNext, Alone
    <3>2. cur'[t] \in Exprs => status[cur'[t]] # "NONE"
      BY <3>1 DEF HostedInv, KnownExprs
    <3>. QED
      BY <1>2, <1>5, <3>1, <3>2, IdleMove DEF AlaudaSteps
  <2>5. CASE /\ cur' = [cur EXCEPT ![t] = e]
             /\ pc' = [pc EXCEPT ![t] = "recycle_assign"]
             /\ UNCHANGED <<ve, last>>
    <3>1. Alone(t) /\ pc'[t] = "recycle_assign" /\ cur'[t] = e
      BY <1>1, <2>5 DEF ThreadsOK, Alone
    <3>. QED
      BY <1>2, <1>5, <2>2, <3>1, IdleMove DEF AlaudaSteps
  <2>. QED
    BY <2>1, <2>3, <2>4, <2>5
<1>8. CASE RecycleAssign(t) \/ RecycleDone(t)
  <2>1. /\ Alone(t) /\ pc'[t] \in {"idle", "recycle"}
        /\ cur'[t] \in {cur[t], None}
    BY <1>1, <1>8 DEF ThreadsOK, RecycleAssign, RecycleDone, Return, Alone
  <2>2. cur'[t] \in Exprs => status[cur'[t]] # "NONE"
    BY <2>1, ExprAssumption DEF HostedInv, KnownExprs
  <2>. QED
    BY <1>2, <1>5, <2>1, <2>2, IdleMove DEF AlaudaSteps
<1>. QED
    BY <1>6, <1>7, <1>8

(* The new row is an unused one, which no thread holds.                    *)
LEMMA InsertExprHosted ==
    ASSUME TypeInv, HostedInv, AlaudaFlags = {FALSE}, NEW t \in Threads,
           InsertExpr(t), UNCHANGED <<hostedVars, alaudaVars>>
    PROVE  HostedInv'
<1>1. TypeOK /\ ThreadsOK /\ TablesOK
    BY Parts DEF TypeInv
<1>2. PICK e \in Exprs : /\ status[e] = "NONE"
                         /\ status' = [status EXCEPT ![e] = "INIT"]
                         /\ cur' = [cur EXCEPT ![t] = e]
    BY DEF InsertExpr
<1>3. Alone(t) /\ pc'[t] = "count" /\ cur'[t] = e
    BY <1>1, <1>2 DEF ThreadsOK, InsertExpr, Alone
<1>4. UNCHANGED <<provider, alauda, job, container, bound, todo>>
    BY DEF InsertExpr, veVars, hostedVars, alaudaVars
<1>5. HostedOnly'
    BY <1>3, <1>4 DEF HostedInv, HostedOnly, Alone, AlaudaSteps
<1>6. \A s \in Threads : cur[s] # e
    BY <1>2 DEF HostedInv, KnownExprs
<1>7. status'[e] = "INIT" /\ \A f \in Exprs : f # e => status'[f] = status[f]
    BY <1>1, <1>2 DEF TablesOK
<1>8. ContainersKept /\ StatusMove(t) /\ PortsMove(t)
    BY <1>4, <1>7 DEF ContainersKept, StatusMove, PortsMove, Building
<1>9. ThreadMove(t)
    BY <1>3, <1>6, <1>7 DEF ThreadMove, MayLaunch, EndSteps, StopSteps,
       ReleasedSteps, Progress, Building
<1>10. \A f \in todo' : status'[f] # "NONE"
    BY <1>1, <1>4, <1>7 DEF ThreadsOK, HostedInv, KnownExprs
<1>. QED
    BY <1>3, <1>5, <1>8, <1>9, <1>10, HostedMove

LEMMA HostedVEStoppedHosted ==
    ASSUME TypeInv, HostedInv, AlaudaFlags = {FALSE}, NEW t \in Threads,
           HostedVEStopped(t), UNCHANGED alaudaVars
    PROVE  HostedInv'
<1>1. TypeOK /\ ThreadsOK /\ TablesOK /\ cur[t] \in Exprs
    BY Parts, StepSets DEF TypeInv, Located, LocatedAt, HostedVEStopped,
       ExprSteps, Steps, HostedSteps
<1>2. /\ Alone(t) /\ pc'[t] \in {"h_stop", "idle", "recycle"}
      /\ cur'[t] \in {cur[t], None}
      /\ pc'[t] = "h_stop" => cur'[t] = cur[t]
    BY <1>1 DEF ThreadsOK, HostedVEStopped, Return, Alone
<1>3. UNCHANGED <<provider, alauda, job, container, bound, todo>>
    BY DEF HostedVEStopped, Return, hostedVars, alaudaVars
<1>4. HostedOnly'
    BY <1>2, <1>3 DEF HostedInv, HostedOnly, Alone, AlaudaSteps
<1>5. MayEnd(t, cur[t]) /\ bound[cur[t]] = {}
    BY OwnExpr DEF HostedVEStopped, EndSteps, StopSteps, HostedInv,
       ReleasedFirst, ReleasedSteps
<1>6. /\ \A e \in Exprs : status'[e] # status[e] =>
            e = cur[t] /\ status'[e] \in {"STOPPED", "DELETED"}
      /\ ContainersKept
    BY <1>1, <1>3 DEF TablesOK, HostedVEStopped, StoppedStatus,
       ContainersKept
<1>7. StatusMove(t) /\ PortsMove(t)
    BY <1>2, <1>3, <1>5, <1>6 DEF StatusMove, PortsMove, LaunchSteps
<1>8. ThreadMove(t)
    BY <1>1, <1>2, <1>6, <1>7, ThreadMoves
       DEF HostedVEStopped, LaunchSteps, EndSteps, StopSteps, ReleasedSteps
<1>. QED
    BY <1>2, <1>3, <1>4, <1>6, <1>7, <1>8, HostedMove, TodoMove

LEMMA CheckContainersHosted ==
    ASSUME TypeInv, HostedInv, AlaudaFlags = {FALSE}, NEW t \in Threads,
           CheckContainers(t), UNCHANGED alaudaVars
    PROVE  HostedInv'
<1>1. TypeOK /\ ThreadsOK
    BY Parts DEF TypeInv
<1>2. /\ Alone(t) /\ pc'[t] \in {"mark_expr", "idle", "recycle"}
      /\ cur'[t] \in {cur[t], None}
    BY <1>1 DEF ThreadsOK, CheckContainers, Return, Alone
<1>3. UNCHANGED <<status, provider, alauda, job, container, bound, todo>>
    BY DEF CheckContainers, Return, exprVars, veVars, hostedVars, alaudaVars
<1>4. HostedOnly'
    BY <1>2, <1>3 DEF HostedInv, HostedOnly, Alone, AlaudaSteps
<1>5. ContainersKept /\ StatusMove(t) /\ PortsMove(t)
    BY <1>3, TablesStay
<1>6. cur'[t] \in Exprs => status[cur'[t]] # "NONE"
    BY <1>2, ExprAssumption DEF HostedInv, KnownExprs
<1>7. ThreadMove(t)
    BY <1>2, <1>3, <1>6, IdleMove
<1>. QED
    BY <1>2, <1>3, <1>4, <1>5, <1>7, HostedMove, TodoMove

LEMMA NoAlaudaStep ==
    ASSUME HostedInv, NEW t \in Threads
    PROVE  ~AlaudaStep(t)
    BY DEF HostedInv, HostedOnly, AlaudaStep, SetProvider, CreateService,
       QueryService, ServiceStarted, CheckAllRunning, PromoteExpr,
       ServiceFailed, StopService, ServicesStopped, RunJob, AlaudaSteps

LEMMA RestartHosted ==
    ASSUME TypeInv, HostedInv, Restart
    PROVE  HostedInv'
<1>1. /\ \A t \in Threads : pc'[t] = "idle" /\ cur'[t] = None
      /\ UNCHANGED <<status, container, bound, provider, alauda>>
      /\ todo' = {}
    BY DEF Restart, exprVars, veVars
<1>2. \A e \in Exprs, i \in VEs : ~job'[e][i]
    BY DEF Restart, HostedInv, HostedOnly
<1>3. HostedOnly' /\ KnownExprs'
    BY <1>1, <1>2, ExprAssumption
       DEF HostedInv, HostedOnly, KnownExprs, AlaudaSteps
<1>4. LaunchIsPrivate' /\ ReleasedFirst'
    BY <1>1 DEF LaunchIsPrivate, ReleasedFirst, LaunchSteps, ReleasedSteps
<1>5. ContainersFirst'
    BY <1>1 DEF HostedInv, ContainersFirst, Progress, StopSteps,
                HasContainers
<1>6. StoppedHoldsNoPorts'
    BY <1>1 DEF HostedInv, StoppedHoldsNoPorts
<1>. QED
    BY <1>3, <1>4, <1>5, <1>6 DEF HostedInv

LEMMA StutterHosted ==
    ASSUME HostedInv, UNCHANGED vars
    PROVE  HostedInv'
<1>. USE DEF vars, managerVars, exprVars, veVars, threadVars, hostedVars,
             alaudaVars, HostedInv
<1>1. HostedOnly' /\ KnownExprs'
    BY DEF HostedOnly, KnownExprs
<1>2. LaunchIsPrivate' /\ ReleasedFirst'
    BY DEF LaunchIsPrivate, ReleasedFirst
<1>3. ContainersFirst'
    BY DEF ContainersFirst, Progress, HasContainers
<1>4. StoppedHoldsNoPorts'
    BY DEF StoppedHoldsNoPorts
<1>. QED
    BY <1>1, <1>2, <1>3, <1>4

----------------------------------------------------------------------------
(* The invariant and what follows from it. *)

LEMMA InitHosted ==
    ASSUME Init, AlaudaFlags = {FALSE}
    PROVE  HostedInv
<1>. USE ExprAssumption DEF Init, ManagerInit, HostedInit, AlaudaInit
<1>1. HostedOnly /\ KnownExprs
    BY DEF HostedOnly, KnownExprs, AlaudaSteps
<1>2. LaunchIsPrivate /\ ReleasedFirst
    BY DEF LaunchIsPrivate, ReleasedFirst, LaunchSteps, ReleasedSteps
<1>3. ContainersFirst
    BY DEF ContainersFirst, Progress, StopSteps
<1>4. StoppedHoldsNoPorts
    BY DEF StoppedHoldsNoPorts
<1>. QED
    BY <1>1, <1>2, <1>3, <1>4 DEF HostedInv

LEMMA HostedNext ==
    ASSUME TypeInv, HostedInv, AlaudaFlags = {FALSE}, [Next]_vars
    PROVE  HostedInv'
<1>1. ASSUME NEW t \in Threads, ManagerStep(t) PROVE HostedInv'
    BY <1>1, TakeHosted, AssignPooledHosted, InsertExprHosted,
       CountPoolHosted, SetStartingHosted, StartAzureHosted, AddVEHosted,
       SetRunningHosted, MarkExprHosted, MarkVEHosted, RollbackHosted,
       RollbackVEsHosted
       DEF ManagerStep
<1>2. ASSUME NEW t \in Threads, HostedStep(t) PROVE HostedInv'
    BY <1>2, ReserveHostHosted, AssignPortsHosted, LoadHostHosted,
       CreateContainerHosted, StartContainerHosted, IncrementCountHosted,
       VerifyContainerHosted, HostedVEUpHosted, StopContainerHosted,
       ReleasePortsHosted, LoadCountHosted, DecrementCountHosted,
       HostedVEStoppedHosted, CheckContainersHosted
       DEF HostedStep
<1>3. ~ToggleAlauda
    BY DEF ToggleAlauda, HostedInv, HostedOnly
<1>. QED
    BY <1>1, <1>2, <1>3, CallHosted, NoAlaudaStep, RestartHosted,
       StutterHosted DEF Next, Work

LEMMA HostedAlways ==
    ASSUME AlaudaFlags = {FALSE}
    PROVE  Spec => [](TypeInv /\ HostedInv)
<1>1. Init => TypeInv /\ HostedInv
    BY TypeInit, InitHosted, ExprAssumption, HostAssumption
<1>2. TypeInv /\ HostedInv /\ [Next]_vars => (TypeInv /\ HostedInv)'
    BY TypeStep, HostedNext, ExprAssumption, HostAssumption
<1>. QED
    BY <1>1, <1>2, PTL DEF Spec

(* Only a start makes an experiment RUNNING, and only its own.             *)
LEMMA RunningFrom ==
    ASSUME TypeInv, HostedInv, [Next]_vars, NEW e \in Exprs,
           status'[e] = "RUNNING"
    PROVE  status[e] \in Building \cup {"RUNNING"}
<1>. SUFFICES ASSUME status'[e] # status[e]
              PROVE  status[e] \in Building
    OBVIOUS
<1>1. status \in [Exprs -> EStatus]
    BY Parts DEF TypeInv, TablesOK
<1>2. PICK t \in Threads : ManagerStep(t) \/ HostedStep(t)
    BY NoAlaudaStep DEF Next, vars, managerVars, exprVars, ToggleAlauda,
       Restart, Work, Call, StartExpr, PollExpr, StopExpr, RecycleTick
<1>3. CASE ManagerStep(t)
  <2>1. SetRunning(t)
    BY <1>1, <1>3 DEF ManagerStep, exprVars, SetStatus, Continue,
       FindPooled, AssignPooled, InsertExpr, CountPool, SetStarting,
       StartAzure, AddVE, MarkExpr, MarkVE, Rollback, RollbackVEs,
       RecycleNext, RecycleAssign, RecycleDone
  <2>2. status' = [status EXCEPT ![cur[t]] = "RUNNING"]
    BY <2>1 DEF SetRunning, SetStatus
  <2>3. status[cur[t]] \in Building
    BY <2>1, OwnExpr DEF SetRunning, LaunchSteps
  <2>. QED
    BY <1>1, <2>2, <2>3
<1>4. CASE HostedStep(t)
    BY <1>1, <1>4 DEF HostedStep, exprVars, hostedVars, Continue,
       ReserveHost, AssignPorts, LoadHost, CreateContainer, StartContainer,
       IncrementCount, VerifyContainer, HostedVEUp, StopContainer,
       ReleasePorts, LoadCount, DecrementCount, HostedVEStopped,
       StoppedStatus, CheckContainers
<1>. QED
    BY <1>2, <1>3, <1>4

(* On hosted docker an experiment that was stopped or deleted holds no     *)
(* port_binding rows, whatever calls run at the same time.                 *)
THEOREM HostedStopReleases ==
    ASSUME AlaudaFlags = {FALSE}
    PROVE  Spec => []StoppedHoldsNoPorts
<1>1. HostedInv => StoppedHoldsNoPorts
    BY DEF HostedInv
<1>. QED
    BY <1>1, HostedAlways, PTL

(* On hosted docker stop_expr finds the container row of every virtual     *)
(* environment it stops.                                                   *)
THEOREM HostedStopFinds ==
    ASSUME AlaudaFlags = {FALSE}
    PROVE  Spec => []StopFindsContainer
<1>1. ASSUME TypeInv, HostedInv PROVE StopFindsContainer
  <2>. SUFFICES ASSUME NEW t \in Threads, pc[t] = "h_stop"
                PROVE  container[cur[t]][ve[t]] # None
    BY DEF StopFindsContainer
  <2>1. ve[t] \in VEs
    BY <1>1 DEF TypeInv, Located, LocatedAt, VESteps, HostedSteps
  <2>2. HasContainers(cur[t], NumVE)
    BY <1>1 DEF HostedInv, ContainersFirst, Progress, StopSteps
  <2>. QED
    BY <2>1, <2>2, ExprAssumption DEF HasContainers, VEs
<1>. QED
    BY <1>1, HostedAlways, PTL

(* On hosted docker an experiment that was stopped, deleted or rolled back *)
(* never runs again.                                                       *)
THEOREM HostedNoResurrection ==
    ASSUME AlaudaFlags = {FALSE}
    PROVE  Spec => NoResurrection
<1>1. ASSUME TypeInv, HostedInv, [Next]_vars
      PROVE  [\A e \in Exprs : status[e] \in Ended
                                  => status'[e] # "RUNNING"]_vars
    BY <1>1, RunningFrom DEF Ended, Building
<1>. QED
    BY <1>1, HostedAlways, PTL DEF Spec, NoResurrection

(* The hosted invariant itself, which the runs check: whoever starts or    *)
(* stops an experiment has it for itself, ports are bound only while it has*)
(* not ended, and nothing of Alauda is touched.                            *)
THEOREM HostedInvariant ==
    ASSUME AlaudaFlags = {FALSE}
    PROVE  Spec => []HostedInv
    BY HostedAlways, PTL

----------------------------------------------------------------------------
(* What RUNNING experiments hold, and what their starts bound before.      *)
(*                                                                         *)
(* Ports are bound for one virtual environment after the other, nobody     *)
(* releases those of a start (LaunchIsPrivate), and a thread that stops or *)
(* rolls back an experiment leaves it other than RUNNING.                  *)

BoundTo(e, n) == \A j \in VEs : j <= n => j \in bound[e]

PortProgress(t) ==
    /\ pc[t] \in {"add_ve", "h_host", "h_ports"} => BoundTo(cur[t], ve[t] - 1)
    /\ pc[t] \in {"h_look", "h_create", "h_start", "h_incr", "h_verify",
                  "h_up"} => BoundTo(cur[t], ve[t])
    /\ pc[t] = "set_running" => BoundTo(cur[t], NumVE)

StopOps == {"stop", "delete", "recycle"}

(* A rollback is that of a stop, or of a start whose experiment is not     *)
(* RUNNING.                                                                *)
EndsFor(t) ==
    /\ pc[t] \in EndSteps => req[t].op \in StopOps \/ status[cur[t]] # "RUNNING"
    /\ pc[t] = "recycle" => req[t].op = "recycle"

RunningHolds ==
    \A e \in Exprs :
        /\ status[e] = "RUNNING"
        /\ \A t \in Threads : pc[t] \in EndSteps => cur[t] # e
        => BoundTo(e, NumVE)

HoldsInv ==
    /\ \A t \in Threads : PortProgress(t) /\ EndsFor(t)
    /\ RunningHolds

(* What a step of thread t may do to the ports, to RUNNING and to the      *)
(* stops and rollbacks under way.                                          *)
HoldsMove(t) ==
    /\ \A e \in Exprs :
          bound[e] \subseteq bound'[e] \/ (pc[t] = "h_release" /\ e = cur[t])
    /\ \A e \in Exprs :
          status'[e] = "RUNNING" =>
              status[e] = "RUNNING" \/ (pc[t] = "set_running" /\ e = cur[t])
    /\ PortProgress(t)'
    /\ pc'[t] = "recycle" => req'[t].op = "recycle"
    /\ pc[t] \in EndSteps =>
          \/ pc'[t] \in EndSteps /\ cur'[t] = cur[t] /\ req'[t] = req[t]
          \/ pc'[t] \notin EndSteps /\ status'[cur[t]] # "RUNNING"
    /\ pc[t] \notin EndSteps /\ pc'[t] \in EndSteps =>
          req'[t].op \in StopOps \/ status'[cur'[t]] # "RUNNING"

HeldInv == StepInv /\ HostedInv /\ HoldsInv

LEMMA HoldsKeeps ==
    ASSUME HeldInv, NEW t \in Threads, OthersWait(t), HoldsMove(t)
    PROVE  HoldsInv'
<1>. USE DEF HeldInv, HoldsInv
<1>1. /\ {"add_ve", "h_host", "h_ports", "h_look", "h_create", "h_start",
          "h_incr", "h_verify", "h_up", "set_running"} \subseteq LaunchSteps
      /\ "h_release" \in EndSteps /\ LaunchSteps \cap EndSteps = {}
      /\ "recycle" \notin EndSteps
    BY DEF LaunchSteps, EndSteps, StopSteps
<1>2. \A s \in Threads : pc[s] \in LaunchSteps \cup EndSteps => cur[s] \in Exprs
    BY DEF StepInv, TypeInv, Located, LocatedAt, LaunchSteps, EndSteps,
           StopSteps, ExprSteps, Steps, ManagerSteps, HostedSteps
<1>3. ASSUME NEW s \in Threads, NEW r \in Threads, s # r,
             cur[s] = cur[r], pc[s] \in LaunchSteps
      PROVE  pc[r] \notin LaunchSteps \cup EndSteps
    BY <1>3 DEF HostedInv, LaunchIsPrivate
<1>4. ASSUME NEW s \in Threads, s # t
      PROVE  PortProgress(s)'
  <2>1. pc'[s] = pc[s] /\ cur'[s] = cur[s] /\ ve'[s] = ve[s]
    BY <1>4, SameThread
  <2>2. pc[s] \in LaunchSteps => bound[cur[s]] \subseteq bound'[cur[s]]
    BY <1>1, <1>2, <1>3, <1>4 DEF HoldsMove
  <2>3. PortProgress(s)
    OBVIOUS
  <2>. QED
    BY <1>1, <2>1, <2>2, <2>3 DEF PortProgress, BoundTo
<1>5. ASSUME NEW s \in Threads, s # t
      PROVE  EndsFor(s)'
  <2>1. pc'[s] = pc[s] /\ cur'[s] = cur[s] /\ req'[s] = req[s]
    BY <1>5, SameThread DEF OthersWait
  <2>2. EndsFor(s)
    OBVIOUS
  <2>. QED
    BY <1>1, <1>2, <1>3, <1>5, <2>1, <2>2 DEF EndsFor, HoldsMove
<1>6. EndsFor(t)'
  <2>1. EndsFor(t)
    OBVIOUS
  <2>2. CASE pc[t] \in EndSteps /\ pc'[t] \in EndSteps
    BY <1>1, <1>2, <2>1, <2>2 DEF EndsFor, HoldsMove
  <2>3. CASE ~(pc[t] \in EndSteps /\ pc'[t] \in EndSteps)
    BY <2>3 DEF EndsFor, HoldsMove
  <2>. QED
    BY <2>2, <2>3
<1>7. RunningHolds'
  <2>. SUFFICES ASSUME NEW e \in Exprs, status'[e] = "RUNNING",
                       \A s \in Threads : pc'[s] \in EndSteps => cur'[s] # e
                PROVE  BoundTo(e, NumVE)'
    BY DEF RunningHolds
  <2>1. \A s \in Threads : pc[s] \in EndSteps => cur[s] # e
    BY SameThread DEF HoldsMove
  <2>2. bound[e] \subseteq bound'[e]
    BY <1>1, <2>1 DEF HoldsMove
  <2>3. BoundTo(e, NumVE)
    BY <2>1 DEF HoldsMove, RunningHolds, PortProgress
  <2>. QED
    BY <2>2, <2>3 DEF BoundTo
<1>. QED
    BY <1>4, <1>5, <1>6, <1>7 DEF HoldsMove

(* No step but that of the last container makes an experiment RUNNING.     *)
NoNewRunning ==
    \A e \in Exprs : status'[e] = "RUNNING" => status[e] = "RUNNING"

LEMMA HoldsStays ==
    ASSUME NEW t, bound' = bound, NoNewRunning,
           pc'[t] \notin LaunchSteps \cup EndSteps,
           pc'[t] = "recycle" => req'[t].op = "recycle",
           pc[t] \in EndSteps => status'[cur[t]] # "RUNNING"
    PROVE  HoldsMove(t)
    BY DEF HoldsMove, NoNewRunning, PortProgress, LaunchSteps

(* A start fails, or a stop goes on or fails. *)
LEMMA HoldsEnds ==
    ASSUME HeldInv, NEW t \in Threads, bound' = bound, NoNewRunning,
           pc[t] \in LaunchSteps \cup EndSteps, pc'[t] \in EndSteps,
           cur'[t] = cur[t], req'[t] = req[t]
    PROVE  HoldsMove(t)
<1>1. pc[t] \in LaunchSteps => status[cur[t]] # "RUNNING" /\ cur[t] \in Exprs
    BY OwnExpr, HoldsExpr DEF HeldInv, StepInv, Building, Launching
<1>2. LaunchSteps \cap EndSteps = {} /\ "recycle" \notin EndSteps
    BY DEF LaunchSteps, EndSteps, StopSteps
<1>3. PortProgress(t)'
    BY <1>2 DEF PortProgress, LaunchSteps
<1>4. pc[t] \notin EndSteps => status'[cur[t]] # "RUNNING"
    BY <1>1 DEF NoNewRunning
<1>. QED
    BY <1>2, <1>3, <1>4 DEF HoldsMove, NoNewRunning

(* A start goes on. *)
LEMMA HoldsLaunches ==
    ASSUME NEW t, \A e \in Exprs : bound[e] \subseteq bound'[e],
           NoNewRunning, pc[t] \in LaunchSteps, pc'[t] \in LaunchSteps,
           PortProgress(t)'
    PROVE  HoldsMove(t)
    BY DEF HoldsMove, NoNewRunning, LaunchSteps, EndSteps, StopSteps

LEMMA HoldsStop ==
    ASSUME HeldInv, NEW t \in Threads, NEW e \in Exprs, EnterStop(t, e),
           UNCHANGED <<bound, status>>, pc[t] \notin EndSteps,
           req'[t].op \in StopOps
    PROVE  HoldsMove(t)
<1>1. pc'[t] = "h_stop"
    BY StateFacts DEF HeldInv, HostedInv, HostedOnly, EnterStop, ThreadsOK
<1>. QED
    BY <1>1 DEF HoldsMove, PortProgress, EndSteps, StopSteps

USE DEF exprVars, veVars, hostedVars, alaudaVars, Goto, Continue, SetStatus,
        SetRemote

LEMMA CallHolds ==
    ASSUME HeldInv, NEW t \in Threads, Call(t)
    PROVE  HoldsMove(t)
<1>. USE StateFacts DEF HeldInv, ThreadsOK
<1>1. CASE \E e \in Exprs, op \in {"stop", "delete"} : StopExpr(t, e, op)
  <2>1. PICK e \in Exprs, op \in {"stop", "delete"} : StopExpr(t, e, op)
    BY <1>1
  <2>2. req'[t].op = op
    BY <2>1 DEF StopExpr, Requests
  <2>. QED
    BY <1>1, <2>1, <2>2, HoldsStop
       DEF Call, StopExpr, StopOps, EndSteps, StopSteps
<1>2. CASE RecycleTick(t)
  <2>1. req'[t].op = "recycle"
    BY <1>2 DEF RecycleTick, Requests
  <2>. QED
    BY <1>2, <2>1, HoldsStays DEF Call, RecycleTick, NoNewRunning,
       LaunchSteps, EndSteps, StopSteps
<1>3. CASE \/ \E u \in Users, p \in Templates : StartExpr(t, u, p)
           \/ \E e \in Exprs : PollExpr(t, e)
    BY <1>3, HoldsStays DEF Call, StartExpr, PollExpr, NoNewRunning,
       LaunchSteps, EndSteps, StopSteps
<1>. QED
    BY <1>1, <1>2, <1>3 DEF Call

LEMMA ManagerHolds ==
    ASSUME HeldInv, NEW t \in Threads, ManagerStep(t)
    PROVE  HoldsMove(t)
<1>. USE StateFacts DEF HeldInv, ThreadsOK, ManagerStep
<1>1. CASE FindPooled(t) \/ AssignPooled(t) \/ StartAzure(t) \/ MarkVE(t)
           \/ RecycleAssign(t) \/ RecycleDone(t)
    BY <1>1, HoldsStays DEF FindPooled, AssignPooled, StartAzure, MarkVE,
       RecycleAssign, RecycleDone, Return, NoNewRunning, LaunchSteps,
       EndSteps, StopSteps
<1>2. CASE MarkExpr(t)
    BY <1>2, HoldsStays DEF MarkExpr, TablesOK, NoNewRunning, LaunchSteps,
       EndSteps, StopSteps
<1>3. CASE InsertExpr(t)
    BY <1>3 DEF InsertExpr, TablesOK, HoldsMove, PortProgress, EndSteps,
       StopSteps
<1>4. CASE CountPool(t)
  <2>1. CASE Goto(t, "rollback")
    BY <1>4, <2>1, HoldsEnds DEF CountPool, NoNewRunning, LaunchSteps,
       EndSteps
  <2>2. CASE Goto(t, "starting")
    BY <1>4, <2>2, HoldsLaunches DEF CountPool, NoNewRunning, LaunchSteps,
       PortProgress
  <2>3. CASE Return(t)
    BY <1>4, <2>3, HoldsStays DEF CountPool, Return, NoNewRunning,
       LaunchSteps, EndSteps, StopSteps
  <2>. QED
    BY <1>4, <2>1, <2>2, <2>3 DEF CountPool
<1>5. CASE SetStarting(t)
  <2>1. PortProgress(t)'
    <3>1. ve'[t] = 1 /\ \A j \in VEs : ~(j <= 0)
      BY <1>5 DEF SetStarting, VEs
    <3>2. pc'[t] \in {"azure", "add_ve"}
      BY <1>5 DEF SetStarting
    <3>. QED
      BY <3>1, <3>2 DEF PortProgress, BoundTo
  <2>. QED
    BY <1>5, <2>1, HoldsLaunches DEF SetStarting, TablesOK, NoNewRunning,
       LaunchSteps
<1>6. CASE AddVE(t)
  <2>1. PortProgress(t)'
    BY <1>6 DEF AddVE, HostedInv, HostedOnly, HoldsInv, PortProgress, BoundTo
  <2>. QED
    BY <1>6, <2>1, HoldsLaunches DEF AddVE, HostedInv, HostedOnly,
       NoNewRunning, LaunchSteps
<1>7. CASE SetRunning(t)
    BY <1>7 DEF SetRunning, TablesOK, HoldsMove, PortProgress, EndSteps,
       StopSteps
<1>8. CASE Rollback(t)
    BY <1>8, HoldsEnds DEF Rollback, TablesOK, NoNewRunning, EndSteps
<1>9. CASE RollbackVEs(t)
  <2>1. cur[t] \in Exprs
    BY <1>9 DEF RollbackVEs, StepInv, TypeInv, Located, LocatedAt,
                ExprSteps, Steps, ManagerSteps
  <2>. QED
    BY <1>9, <2>1, HoldsStays DEF RollbackVEs, Return, TablesOK,
       NoNewRunning, LaunchSteps, EndSteps, StopSteps
<1>10. CASE RecycleNext(t)
  <2>1. req'[t].op = "recycle" /\ pc[t] \notin EndSteps
    BY <1>10 DEF RecycleNext, HoldsInv, EndsFor, EndSteps, StopSteps
  <2>2. PICK e \in todo :
            \/ EnterStop(t, e)
            \/ pc' = pc
            \/ pc' = [pc EXCEPT ![t] = "recycle_assign"]
    BY <1>10 DEF RecycleNext
  <2>3. CASE EnterStop(t, e)
    BY <1>10, <2>1, <2>3, HoldsStop DEF RecycleNext, StopOps
  <2>4. CASE pc' = pc \/ pc' = [pc EXCEPT ![t] = "recycle_assign"]
    BY <1>10, <2>1, <2>4, HoldsStays DEF RecycleNext, NoNewRunning,
       LaunchSteps, EndSteps, StopSteps
  <2>. QED
    BY <2>2, <2>3, <2>4
<1>. QED
    BY <1>1, <1>2, <1>3, <1>4, <1>5, <1>6, <1>7, <1>8, <1>9, <1>10

LEMMA HostedHolds ==
    ASSUME HeldInv, NEW t \in Threads, HostedStep(t)
    PROVE  HoldsMove(t)
<1>. USE StateFacts DEF HeldInv, ThreadsOK, HostedStep
<1>1. CASE pc'[t] = "rollback"
  <2>1. /\ pc[t] \in LaunchSteps \cup EndSteps
        /\ UNCHANGED <<bound, status>> /\ cur' = cur /\ req' = req
    BY <1>1 DEF ReserveHost, AssignPorts, LoadHost, CreateContainer,
       StartContainer, IncrementCount, VerifyContainer, HostedVEUp,
       VEStarted, StopContainer, ReleasePorts, LoadCount, DecrementCount,
       HostedVEStopped, CheckContainers, Return, LaunchSteps, EndSteps,
       StopSteps
  <2>. QED
    BY <1>1, <2>1, HoldsEnds DEF NoNewRunning, EndSteps
<1>2. CASE /\ pc'[t] # "rollback"
           /\ \/ ReserveHost(t) \/ LoadHost(t) \/ CreateContainer(t)
              \/ StartContainer(t) \/ IncrementCount(t) \/ VerifyContainer(t)
  <2>1. /\ pc[t] \in LaunchSteps /\ pc'[t] \in LaunchSteps
        /\ UNCHANGED <<bound, status, cur, ve>>
        /\ \/ pc[t] = "h_host" /\ pc'[t] = "h_ports"
           \/ /\ pc[t] \in {"h_look", "h_create", "h_start", "h_incr",
                            "h_verify"}
              /\ pc'[t] \in {"h_create", "h_start", "h_incr", "h_verify",
                             "h_up"}
    BY <1>2 DEF ReserveHost, LoadHost, CreateContainer, StartContainer,
       IncrementCount, VerifyContainer, LaunchSteps
  <2>2. PortProgress(t)'
    BY <2>1 DEF HoldsInv, PortProgress, BoundTo
  <2>. QED
    BY <2>1, <2>2, HoldsLaunches DEF NoNewRunning
<1>3. CASE AssignPorts(t) /\ pc'[t] # "rollback"
  <2>1. cur[t] \in Exprs /\ ve[t] \in VEs /\ pc[t] = "h_ports"
    BY <1>3, HoldsExpr DEF AssignPorts, StepInv
  <2>2. /\ bound' = [bound EXCEPT ![cur[t]] = @ \cup {ve[t]}]
        /\ pc'[t] = "h_look" /\ UNCHANGED <<status, cur, ve>>
    BY <1>3 DEF AssignPorts
  <2>3. PortProgress(t)'
    <3>1. BoundTo(cur[t], ve[t] - 1)
      BY <2>1 DEF HoldsInv, PortProgress
    <3>2. \A j \in VEs : j <= ve[t] => j <= ve[t] - 1 \/ j = ve[t]
      BY <2>1 DEF VEs
    <3>3. bound'[cur[t]] = bound[cur[t]] \cup {ve[t]}
      BY <2>1, <2>2 DEF TablesOK, HostedTypeOK
    <3>. QED
      BY <2>1, <2>2, <3>1, <3>2, <3>3 DEF PortProgress, BoundTo
  <2>4. \A e \in Exprs : bound[e] \subseteq bound'[e]
    BY <2>1, <2>2 DEF TablesOK, HostedTypeOK
  <2>. QED
    BY <2>1, <2>2, <2>3, <2>4, HoldsLaunches DEF NoNewRunning, LaunchSteps
<1>4. CASE HostedVEUp(t)
  <2>1. /\ ve[t] \in 1..NumVE /\ pc[t] = "h_up" /\ NumVE \in Nat
        /\ UNCHANGED <<bound, status, cur>>
    BY <1>4 DEF HostedVEUp, VEStarted, StepInv, TypeInv, Located, LocatedAt,
                VESteps, HostedSteps, VEs
  <2>2. /\ pc'[t] = IF ve[t] < NumVE THEN "add_ve" ELSE "set_running"
        /\ ve'[t] = IF ve[t] < NumVE THEN ve[t] + 1 ELSE ve[t]
    BY <1>4 DEF HostedVEUp, VEStarted
  <2>3. BoundTo(cur[t], ve[t])
    BY <2>1 DEF HoldsInv, PortProgress
  <2>4. PortProgress(t)'
    BY <2>1, <2>2, <2>3 DEF PortProgress, BoundTo
  <2>. QED
    BY <2>1, <2>2, <2>4, HoldsLaunches DEF NoNewRunning, LaunchSteps
<1>5. CASE /\ pc'[t] # "rollback"
           /\ StopContainer(t) \/ LoadCount(t) \/ DecrementCount(t)
    BY <1>5, HoldsEnds DEF StopContainer, LoadCount, DecrementCount,
       NoNewRunning, EndSteps, StopSteps
<1>6. CASE ReleasePorts(t)
    BY <1>6 DEF ReleasePorts, TablesOK, HostedTypeOK, HoldsMove,
       PortProgress, EndSteps, StopSteps
<1>7. CASE HostedVEStopped(t)
  <2>1. cur[t] \in Exprs /\ pc[t] = "h_stopped" /\ bound' = bound
    BY <1>7 DEF HostedVEStopped, StepInv, TypeInv, Located, LocatedAt,
                ExprSteps, Steps, HostedSteps
  <2>2. CASE /\ Return(t)
             /\ status' = [status EXCEPT ![cur[t]] = StoppedStatus(t)]
    BY <2>1, <2>2, HoldsStays DEF Return, StoppedStatus, TablesOK,
       NoNewRunning, LaunchSteps, EndSteps, StopSteps
  <2>3. CASE /\ pc' = [pc EXCEPT ![t] = "h_stop"]
             /\ UNCHANGED <<status, req, cur>>
    BY <2>1, <2>3, HoldsEnds DEF NoNewRunning, EndSteps, StopSteps
  <2>. QED
    BY <1>7, <2>2, <2>3 DEF HostedVEStopped
<1>8. CASE CheckContainers(t)
    BY <1>8, HoldsStays DEF CheckContainers, Return, NoNewRunning,
       LaunchSteps, EndSteps, StopSteps
<1>. QED
    BY <1>1, <1>2, <1>3, <1>4, <1>5, <1>6, <1>7, <1>8

HIDE DEF exprVars, veVars, hostedVars, alaudaVars, Goto, Continue, SetStatus,
         SetRemote

LEMMA HoldsNext ==
    ASSUME HeldInv, AlaudaFlags = {FALSE}, CanRestart = FALSE, [Next]_vars
    PROVE  HoldsInv'
<1>1. ASSUME NEW t \in Threads, Call(t) \/ Work(t) PROVE HoldsInv'
  <2>1. HoldsMove(t)
    BY <1>1, CallHolds, ManagerHolds, HostedHolds, NoAlaudaStep
       DEF Work, HeldInv
  <2>2. OthersWait(t)
    BY <1>1, ThreadStepMove DEF StepMove, HeldInv
  <2>. QED
    BY <2>1, <2>2, HoldsKeeps
<1>2. CASE UNCHANGED vars
    BY <1>2 DEF vars, managerVars, exprVars, threadVars, hostedVars,
       HeldInv, HoldsInv, PortProgress, BoundTo, EndsFor, RunningHolds
<1>3. ~ToggleAlauda
    BY DEF ToggleAlauda, HeldInv, HostedInv, HostedOnly
<1>. QED
    BY <1>1, <1>2, <1>3 DEF Next, Restart

(* On hosted docker a RUNNING experiment that nobody stops has the ports   *)
(* of all of its virtual environments, as long as the process does not     *)
(* crash: a crash between the release of the ports and the commit of       *)
(* STOPPED leaves it RUNNING without them.                                 *)
THEOREM HostedRunningHoldsPorts ==
    ASSUME AlaudaFlags = {FALSE}, CanRestart = FALSE
    PROVE  Spec => []RunningHoldsPorts
<1>1. Init => HeldInv
    BY InitStep, InitHosted DEF HeldInv, HoldsInv, PortProgress, EndsFor,
       RunningHolds, EndSteps, StopSteps, Init, ManagerInit
<1>2. HeldInv /\ [Next]_vars => HeldInv'
    BY NextStep, HostedNext, HoldsNext DEF HeldInv, StepInv
<1>3. HeldInv => RunningHoldsPorts
  <2>. SUFFICES ASSUME HeldInv, NEW e \in Exprs, status[e] = "RUNNING",
                       \A t \in Threads : ~Stopping(t, e)
                PROVE  bound[e] = VEs
    BY DEF RunningHoldsPorts
  <2>1. BoundTo(e, NumVE)
    BY DEF HeldInv, HoldsInv, EndsFor, RunningHolds, Stopping, StopOps
  <2>2. bound[e] \subseteq VEs
    BY StateFacts DEF HeldInv, TablesOK, HostedTypeOK
  <2>3. \A j \in VEs : j <= NumVE
    BY ExprAssumption DEF VEs
  <2>. QED
    BY <2>1, <2>2, <2>3 DEF BoundTo
<1>. QED
    BY <1>1, <1>2, <1>3, PTL DEF Spec

----------------------------------------------------------------------------
(* One experiment per user.                                                *)
(*                                                                         *)
(* A start keeps the user that waits for it from starting anything else    *)
(* (OneAtATime), so the experiments it found live are all there are until  *)
(* it makes its own STARTING or RUNNING; and on hosted docker the recycle  *)
(* job stops experiments and gives none away.                              *)

(* Steps of a start whose user has no other experiment. *)
StartSteps == {"pool", "insert"} \cup LaunchSteps

(* Steps of a start that has a row for its virtual environment. *)
PlacedSteps == LaunchSteps \ {"count", "starting", "azure", "add_ve"}

OneCallPerUser ==
    /\ \A t \in Threads : pc[t] \in StartSteps => req[t].user \in Users
    /\ \A s, t \in Threads :
          req[s].user = req[t].user /\ req[s].user \in Users => s = t

(* What runs, or the recycle job has listed, has a virtual environment:    *)
(* the job stops it.                                                       *)
HasRows ==
    /\ \A t \in Threads : pc[t] \in PlacedSteps => Rows(cur[t]) # {}
    /\ \A e \in Exprs : status[e] = "RUNNING" \/ e \in todo => Rows(e) # {}

NoPool ==
    /\ \A e \in Exprs : owner[e] # DefaultUser
    /\ \A t \in Threads : pc[t] \notin {"assign", "recycle_assign"}

NoneLive(t) ==
    pc[t] \in {"pool", "insert"} => LiveOf(req[t].user, req[t].template) = {}

OwnLaunch(t) ==
    pc[t] \in LaunchSteps =>
        /\ owner[cur[t]] = req[t].user
        /\ template[cur[t]] = req[t].template
        /\ LiveOf(req[t].user, req[t].template) \subseteq {cur[t]}

OnlyOnes ==
    /\ OneCallPerUser
    /\ HasRows
    /\ NoPool
    /\ \A t \in Threads : NoneLive(t) /\ OwnLaunch(t)
    /\ OneLivePerUser

(* What a step of thread t may do to the experiments' rows and to the call *)
(* it serves.                                                              *)
OneMove(t) ==
    /\ \A e \in Exprs :
          status'[e] \in Live =>
              status[e] \in Live \/ (pc[t] \in LaunchSteps /\ e = cur[t])
    /\ \A e \in Exprs :
          \/ owner'[e] = owner[e] /\ template'[e] = template[e]
          \/ status[e] = "NONE" /\ owner'[e] # DefaultUser
    /\ \A e \in Exprs : Rows(e) \subseteq Rows(e)'
    /\ \A e \in Exprs :
          status'[e] = "RUNNING" \/ e \in todo' =>
              status[e] = "RUNNING" \/ e \in todo \/ Rows(e)' # {}
    /\ pc'[t] \notin {"assign", "recycle_assign"}
    /\ \/ req'[t].user \in {req[t].user, None}
       \/ \A s \in Threads : req[s].user # req'[t].user
    /\ pc'[t] \in PlacedSteps =>
          \/ pc[t] \in PlacedSteps /\ cur'[t] = cur[t]
          \/ Rows(cur[t])' # {}
    /\ pc'[t] \in {"pool", "insert"} =>
          /\ pc[t] \notin LaunchSteps
          /\ \/ pc[t] \in {"pool", "insert"} /\ req'[t] = req[t]
             \/ /\ req'[t].user \in Users
                /\ LiveOf(req'[t].user, req'[t].template) = {}
    /\ pc'[t] \in LaunchSteps =>
          /\ req'[t] = req[t]
          /\ \/ pc[t] \in LaunchSteps /\ cur'[t] = cur[t]
             \/ /\ pc[t] = "insert"
                /\ owner'[cur'[t]] = req[t].user
                /\ template'[cur'[t]] = req[t].template

OneInv == StepInv /\ HostedInv /\ OnlyOnes

LEMMA OneKeeps ==
    ASSUME OneInv, NEW t \in Threads, OthersWait(t), OneMove(t)
    PROVE  OnlyOnes'
<1>. USE DEF OneInv, OnlyOnes
<1>1. /\ PlacedSteps \subseteq LaunchSteps /\ LaunchSteps \subseteq StartSteps
      /\ {"pool", "insert"} \subseteq StartSteps
      /\ {"pool", "insert"} \cap LaunchSteps = {}
    BY DEF StartSteps, PlacedSteps, LaunchSteps
<1>2. \A s \in Threads : pc[s] \in LaunchSteps =>
          cur[s] \in Exprs /\ status[cur[s]] # "NONE"
    BY HoldsExpr DEF StepInv, HostedInv, KnownExprs, Launching
<1>3. \A s \in Threads \ {t} :
          pc'[s] = pc[s] /\ cur'[s] = cur[s] /\ req'[s] = req[s]
    BY SameThread DEF OthersWait
<1>4. \A e \in Exprs : status'[e] \in Live \/ status[e] # "NONE" =>
          owner'[e] = owner[e] /\ template'[e] = template[e]
    BY <1>2 DEF OneMove, Live
<1>5. ASSUME NEW u, NEW p, NEW e \in Exprs, status'[e] \in Live,
             owner'[e] = u, u \in Admins => template'[e] = p
      PROVE  \/ e \in LiveOf(u, p)
             \/ pc[t] \in LaunchSteps /\ e = cur[t] /\ owner[cur[t]] = u
    BY <1>4, <1>5 DEF OneMove, LiveOf
<1>6. OneCallPerUser'
  <2>1. ASSUME NEW s \in Threads, pc'[s] \in StartSteps
        PROVE  req'[s].user \in Users
    BY <1>1, <1>3, <2>1 DEF OneCallPerUser, OneMove, StartSteps
  <2>2. ASSUME NEW s \in Threads \ {t}, req'[s].user \in Users
        PROVE  req'[s].user # req'[t].user
    BY <1>3, <2>2, ExprAssumption DEF OneCallPerUser, OneMove
  <2>. QED
    BY <1>3, <2>1, <2>2 DEF OneCallPerUser
<1>7. HasRows'
  <2>1. ASSUME NEW s \in Threads, pc'[s] \in PlacedSteps
        PROVE  Rows(cur[s])' # {}
    BY <1>1, <1>2, <1>3, <2>1 DEF HasRows, OneMove
  <2>2. ASSUME NEW e \in Exprs, status'[e] = "RUNNING" \/ e \in todo'
        PROVE  Rows(e)' # {}
    BY <2>2 DEF HasRows, OneMove
  <2>. QED
    BY <2>1, <2>2 DEF HasRows
<1>8. NoPool'
    BY <1>3 DEF NoPool, OneMove
<1>9. ASSUME NEW s \in Threads, s # t PROVE NoneLive(s)' /\ OwnLaunch(s)'
  <2>1. /\ NoneLive(s) /\ OwnLaunch(s)
        /\ pc'[s] = pc[s] /\ cur'[s] = cur[s] /\ req'[s] = req[s]
    BY <1>3, <1>9
  <2>2. pc[s] \in StartSteps /\ pc[t] \in LaunchSteps =>
            owner[cur[t]] # req[s].user
    BY <1>1, <1>9 DEF OneCallPerUser, OwnLaunch
  <2>3. ASSUME pc[s] \in StartSteps
        PROVE  LiveOf(req[s].user, req[s].template)' \subseteq
                   LiveOf(req[s].user, req[s].template)
    BY <1>5, <2>1, <2>2, <2>3 DEF LiveOf
  <2>4. NoneLive(s)'
    BY <1>1, <2>1, <2>3 DEF NoneLive
  <2>5. OwnLaunch(s)'
    BY <1>1, <1>2, <1>4, <2>1, <2>3 DEF OwnLaunch
  <2>. QED
    BY <2>4, <2>5
<1>10. NoneLive(t)'
  <2>. SUFFICES ASSUME pc'[t] \in {"pool", "insert"}
                PROVE  LiveOf(req[t].user, req[t].template)' = {}
    BY DEF NoneLive
  <2>1. LiveOf(req'[t].user, req'[t].template) = {} /\ pc[t] \notin LaunchSteps
    BY DEF OneMove, NoneLive
  <2>. QED
    BY <1>5, <2>1 DEF LiveOf
<1>11. OwnLaunch(t)'
  <2>. SUFFICES ASSUME pc'[t] \in LaunchSteps
                PROVE  /\ owner'[cur'[t]] = req'[t].user
                       /\ template'[cur'[t]] = req'[t].template
                       /\ LiveOf(req[t].user, req[t].template)'
                              \subseteq {cur'[t]}
    BY DEF OwnLaunch
  <2>1. req'[t] = req[t]
    BY DEF OneMove
  <2>2. CASE pc[t] \in LaunchSteps /\ cur'[t] = cur[t]
    <3>1. LiveOf(req[t].user, req[t].template)' \subseteq {cur[t]}
      BY <1>5, <2>1, <2>2 DEF LiveOf, OwnLaunch
    <3>. QED
      BY <1>2, <1>4, <2>1, <2>2, <3>1 DEF OwnLaunch
  <2>3. CASE /\ pc[t] = "insert"
             /\ owner'[cur'[t]] = req[t].user
             /\ template'[cur'[t]] = req[t].template
    <3>1. LiveOf(req[t].user, req[t].template)' = {}
      BY <1>1, <1>5, <2>1, <2>3 DEF LiveOf, NoneLive
    <3>. QED
      BY <2>1, <2>3, <3>1
  <2>. QED
    BY <2>2, <2>3 DEF OneMove
<1>12. OneLivePerUser'
  <2>. SUFFICES ASSUME NEW e \in Exprs, NEW f \in Exprs,
                       status'[e] \in Live, status'[f] \in Live,
                       owner'[e] = owner'[f], owner'[e] \in Users,
                       owner'[e] \in Admins => template'[e] = template'[f]
                PROVE  e = f
    BY DEF OneLivePerUser
  <2>1. /\ owner[e] = owner[f] /\ owner[e] \in Users
        /\ owner[e] \in Admins => template[e] = template[f]
    BY <1>4
  <2>2. CASE status[e] \in Live /\ status[f] \in Live
    BY <2>1, <2>2 DEF OneLivePerUser
  <2>3. CASE pc[t] \in LaunchSteps /\ e = cur[t] /\ status[f] \in Live
    BY <2>1, <2>3 DEF OwnLaunch, LiveOf
  <2>4. CASE pc[t] \in LaunchSteps /\ f = cur[t] /\ status[e] \in Live
    BY <2>1, <2>4 DEF OwnLaunch, LiveOf
  <2>. QED
    BY <2>2, <2>3, <2>4 DEF OneMove
<1>. QED
    BY <1>6, <1>7, <1>8, <1>9, <1>10, <1>11, <1>12

(* Most steps make nothing live, give nothing away and end or go on with a *)
(* call that is no start.                                                  *)
KeepsRows ==
    /\ \A e \in Exprs : /\ status'[e] \in Live => status[e] \in Live
                        /\ status'[e] = "RUNNING" => status[e] = "RUNNING"
                        /\ Rows(e) \subseteq Rows(e)'
    /\ UNCHANGED <<owner, template>>

LEMMA OneStays ==
    ASSUME NEW t \in Threads, KeepsRows, todo' \subseteq todo,
           pc'[t] \notin StartSteps \cup {"assign", "recycle_assign"},
           req'[t].user \in {req[t].user, None}
    PROVE  OneMove(t)
<1>1. /\ {"pool", "insert"} \subseteq StartSteps
      /\ PlacedSteps \subseteq LaunchSteps /\ LaunchSteps \subseteq StartSteps
    BY DEF StartSteps, PlacedSteps
<1>. QED
    BY <1>1 DEF OneMove, KeepsRows

(* A start goes on. *)
LEMMA OneLaunches ==
    ASSUME NEW t \in Threads, KeepsRows, todo' = todo,
           pc[t] \in LaunchSteps, pc'[t] \in LaunchSteps,
           cur'[t] = cur[t], req'[t] = req[t],
           pc'[t] \in PlacedSteps =>
               pc[t] \in PlacedSteps \/ Rows(cur[t])' # {}
    PROVE  OneMove(t)
<1>1. LaunchSteps \cap {"pool", "insert", "assign", "recycle_assign"} = {}
    BY DEF LaunchSteps
<1>. QED
    BY <1>1 DEF OneMove, KeepsRows, Rows

USE DEF exprVars, veVars, hostedVars, alaudaVars, Goto, Continue, SetStatus,
        SetRemote

LEMMA CallOne ==
    ASSUME OneInv, OneAtATime = TRUE, NEW t \in Threads, Call(t)
    PROVE  OneMove(t)
<1>. USE StateFacts DEF OneInv, ThreadsOK, KeepsRows
<1>1. CASE \E u \in Users, p \in Templates : StartExpr(t, u, p)
  <2>1. PICK u \in Users, p \in Templates : StartExpr(t, u, p)
    BY <1>1
  <2>2. /\ req'[t] = [op |-> "start", user |-> u, template |-> p]
        /\ \A s \in Threads : req[s].user # u
        /\ UNCHANGED <<exprVars, veVars, todo>>
        /\ pc[t] = "idle"
    BY <2>1 DEF StartExpr
  <2>3. /\ pc'[t] \in {"report", "pool"}
        /\ pc'[t] = "pool" => LiveOf(u, p) = {}
    BY <2>1 DEF StartExpr
  <2>4. /\ {"report", "pool"} \cap LaunchSteps = {}
        /\ PlacedSteps \subseteq LaunchSteps
        /\ "idle" \notin LaunchSteps
    BY DEF LaunchSteps, PlacedSteps
  <2>. QED
    BY <2>2, <2>3, <2>4 DEF OneMove, Rows
<1>2. CASE RecycleTick(t)
  <2>1. /\ pc'[t] = "recycle" /\ req'[t].user = req[t].user
        /\ UNCHANGED <<exprVars, veVars>>
        /\ \A e \in todo' : status[e] = "RUNNING"
    BY <1>2 DEF RecycleTick, Requests
  <2>2. /\ "recycle" \notin LaunchSteps \cup {"pool", "insert"}
        /\ PlacedSteps \subseteq LaunchSteps
    BY DEF LaunchSteps, PlacedSteps
  <2>. QED
    BY <2>1, <2>2 DEF OneMove, Rows
<1>3. CASE \/ \E e \in Exprs, op \in {"stop", "delete"} : StopExpr(t, e, op)
           \/ \E e \in Exprs : PollExpr(t, e)
  <2>1. /\ pc'[t] \in {"h_stop", "a_stop", "report"}
        /\ req'[t].user = req[t].user
        /\ UNCHANGED <<exprVars, veVars, todo>>
    BY <1>3 DEF StopExpr, EnterStop, PollExpr, Requests
  <2>. QED
    BY <2>1, OneStays DEF Rows, StartSteps, LaunchSteps
<1>. QED
    BY <1>1, <1>2, <1>3 DEF Call

LEMMA ManagerOne ==
    ASSUME OneInv, NEW t \in Threads, ManagerStep(t)
    PROVE  OneMove(t)
<1>. USE StateFacts DEF OneInv, ThreadsOK, ManagerStep, KeepsRows
<1>1. CASE StartAzure(t) \/ RecycleDone(t)
    BY <1>1, OneStays DEF StartAzure, RecycleDone, Return, NoReq, Rows,
       StartSteps, LaunchSteps
<1>2. CASE FindPooled(t)
  <2>1. Pooled(req[t].template) = {}
    BY DEF OnlyOnes, NoPool, Pooled
  <2>2. /\ pc[t] = "pool" /\ pc'[t] = "insert" /\ UNCHANGED <<req, todo>>
        /\ UNCHANGED <<exprVars, veVars>>
    BY <1>2, <2>1 DEF FindPooled
  <2>3. /\ {"pool", "insert"} \cap LaunchSteps = {}
        /\ PlacedSteps \subseteq LaunchSteps
    BY DEF LaunchSteps, PlacedSteps
  <2>. QED
    BY <2>2, <2>3 DEF OneMove, Rows
<1>3. CASE AssignPooled(t) \/ RecycleAssign(t)
    BY <1>3 DEF AssignPooled, RecycleAssign, OnlyOnes, NoPool
<1>4. CASE InsertExpr(t)
  <2>1. PICK e \in Exprs :
            /\ status[e] = "NONE" /\ cur'[t] = e
            /\ status' = [status EXCEPT ![e] = "INIT"]
            /\ owner' = [owner EXCEPT ![e] = req[t].user]
            /\ template' = [template EXCEPT ![e] = req[t].template]
    BY <1>4 DEF InsertExpr
  <2>2. /\ pc[t] = "insert" /\ pc'[t] = "count"
        /\ UNCHANGED <<veVars, req, todo>>
    BY <1>4 DEF InsertExpr
  <2>3. req[t].user \in Users /\ DefaultUser \notin Users
    BY <2>2, ExprAssumption DEF OnlyOnes, OneCallPerUser, StartSteps
  <2>4. /\ owner'[e] = req[t].user /\ template'[e] = req[t].template
        /\ status'[e] = "INIT"
        /\ \A f \in Exprs \ {e} : /\ owner'[f] = owner[f]
                                  /\ template'[f] = template[f]
                                  /\ status'[f] = status[f]
    BY <2>1 DEF TablesOK
  <2>5. "count" \notin PlacedSteps
    BY DEF PlacedSteps
  <2>. QED
    BY <2>1, <2>2, <2>3, <2>4, <2>5 DEF OneMove, Rows, Live
<1>5. CASE CountPool(t)
  <2>1. pc[t] = "count" /\ UNCHANGED <<exprVars, veVars, todo>>
    BY <1>5 DEF CountPool, Return
  <2>2. CASE Goto(t, "starting")
    BY <2>1, <2>2, OneLaunches DEF LaunchSteps, PlacedSteps, Rows
  <2>3. CASE Goto(t, "rollback") \/ Return(t)
    BY <2>1, <2>3, OneStays DEF Return, NoReq, Rows, StartSteps, LaunchSteps
  <2>. QED
    BY <1>5, <2>2, <2>3 DEF CountPool
<1>6. CASE SetStarting(t) \/ SetRunning(t)
  <2>1. /\ pc[t] \in {"starting", "set_running"} /\ cur[t] \in Exprs
        /\ pc[t] = "set_running" <=> SetRunning(t)
    BY <1>6, HoldsExpr DEF SetStarting, SetRunning, StepInv, Launching,
       LaunchSteps
  <2>2. /\ UNCHANGED <<owner, template, veVars, req, cur, todo>>
        /\ status' = [status EXCEPT ![cur[t]] =
                          IF SetRunning(t) THEN "RUNNING" ELSE "STARTING"]
        /\ pc'[t] \in IF SetRunning(t) THEN {"report"} ELSE {"azure", "add_ve"}
    BY <1>6, <2>1 DEF SetStarting, SetRunning
  <2>3. SetRunning(t) => Rows(cur[t]) # {}
    BY <2>1 DEF OnlyOnes, HasRows, PlacedSteps, LaunchSteps
  <2>4. \A e \in Exprs : Rows(e)' = Rows(e)
    BY <2>2 DEF Rows
  <2>5. /\ {"starting", "set_running", "azure", "add_ve"} \subseteq LaunchSteps
        /\ "report" \notin LaunchSteps /\ PlacedSteps \subseteq LaunchSteps
        /\ {"azure", "add_ve"} \cap PlacedSteps = {}
    BY DEF LaunchSteps, PlacedSteps
  <2>6. \A e \in Exprs : e # cur[t] => status'[e] = status[e]
    BY <2>2 DEF TablesOK
  <2>7. status'[cur[t]] = "RUNNING" => SetRunning(t)
    BY <2>1, <2>2 DEF TablesOK
  <2>. QED
    BY <2>1, <2>2, <2>3, <2>4, <2>5, <2>6, <2>7 DEF OneMove
<1>7. CASE AddVE(t)
  <2>1. /\ pc[t] = "add_ve" /\ cur[t] \in Exprs /\ ve[t] \in VEs
        /\ pc'[t] = "h_host" /\ UNCHANGED <<exprVars, req, cur, todo>>
    BY <1>7 DEF AddVE, HostedInv, HostedOnly, StepInv, TypeInv, Located,
       LocatedAt, VESteps, ExprSteps, Steps, ManagerSteps
  <2>2. \A e \in Exprs : Rows(e) \subseteq Rows(e)'
    BY <1>7, <2>1 DEF AddVE, Rows, TablesOK
  <2>3. ve[t] \in Rows(cur[t])'
    BY <1>7, <2>1 DEF AddVE, Rows, TablesOK
  <2>. QED
    BY <2>1, <2>2, <2>3, OneLaunches DEF LaunchSteps
<1>8. CASE MarkExpr(t)
    BY <1>8, OneStays DEF MarkExpr, TablesOK, Rows, Live, StartSteps,
       LaunchSteps
<1>9. CASE MarkVE(t)
  <2>1. \A e \in Exprs : Rows(e) \subseteq Rows(e)'
    BY <1>9 DEF MarkVE, Rows, TablesOK
  <2>. QED
    BY <1>9, <2>1, OneStays DEF MarkVE, Return, NoReq, StartSteps,
       LaunchSteps
<1>10. CASE Rollback(t)
    BY <1>10, OneStays DEF Rollback, TablesOK, Rows, Live, StartSteps,
       LaunchSteps
<1>11. CASE RollbackVEs(t)
    BY <1>11, OneStays DEF RollbackVEs, Return, NoReq, TablesOK, Rows, Live,
       StartSteps, LaunchSteps
<1>12. CASE RecycleNext(t)
  <2>1. PICK e \in todo :
            /\ todo' = todo \ {e}
            /\ \/ EnterStop(t, e)
               \/ pc' = pc
               \/ ~\E i \in Rows(e) : provider[e][i] = "DOCKER"
    BY <1>12 DEF RecycleNext
  <2>2. \E i \in Rows(e) : provider[e][i] = "DOCKER"
    BY DEF OnlyOnes, HasRows, HostedInv, HostedOnly, Rows
  <2>3. pc[t] = "recycle" /\ UNCHANGED <<exprVars, veVars, req>>
    BY <1>12 DEF RecycleNext
  <2>4. pc'[t] \in {"h_stop", "a_stop", "recycle"}
    BY <2>1, <2>2, <2>3 DEF EnterStop
  <2>. QED
    BY <2>1, <2>3, <2>4, OneStays DEF Rows, StartSteps, LaunchSteps
<1>. QED
    BY <1>1, <1>2, <1>3, <1>4, <1>5, <1>6, <1>7, <1>8, <1>9, <1>10, <1>11,
       <1>12

LEMMA HostedOne ==
    ASSUME OneInv, NEW t \in Threads, HostedStep(t)
    PROVE  OneMove(t)
<1>. USE StateFacts DEF OneInv, ThreadsOK, HostedStep, KeepsRows
<1>1. CASE \/ ReserveHost(t) \/ AssignPorts(t) \/ LoadHost(t)
           \/ CreateContainer(t) \/ StartContainer(t) \/ IncrementCount(t)
           \/ VerifyContainer(t)
  <2>1. /\ pc[t] \in PlacedSteps /\ pc'[t] \in PlacedSteps \cup {"rollback"}
        /\ UNCHANGED <<exprVars, veVars, req, cur, todo>>
    BY <1>1 DEF ReserveHost, AssignPorts, LoadHost, CreateContainer,
       StartContainer, IncrementCount, VerifyContainer, PlacedSteps,
       LaunchSteps
  <2>2. CASE pc'[t] = "rollback"
    BY <2>1, <2>2, OneStays DEF Rows, StartSteps, LaunchSteps
  <2>3. CASE pc'[t] \in PlacedSteps
    BY <2>1, <2>3, OneLaunches DEF Rows, PlacedSteps
  <2>. QED
    BY <2>1, <2>2, <2>3
<1>2. CASE HostedVEUp(t)
  <2>1. \A e \in Exprs : Rows(e) \subseteq Rows(e)'
    BY <1>2 DEF HostedVEUp, Rows, TablesOK
  <2>2. /\ pc[t] = "h_up" /\ pc'[t] \in {"add_ve", "set_running"}
        /\ UNCHANGED <<exprVars, req, cur, todo>>
    BY <1>2 DEF HostedVEUp, VEStarted
  <2>. QED
    BY <2>1, <2>2, OneLaunches DEF PlacedSteps, LaunchSteps
<1>3. CASE \/ StopContainer(t) \/ ReleasePorts(t) \/ LoadCount(t)
           \/ DecrementCount(t)
  <2>1. /\ pc'[t] \in EndSteps /\ UNCHANGED <<exprVars, veVars, req, todo>>
    BY <1>3 DEF StopContainer, ReleasePorts, LoadCount, DecrementCount,
       EndSteps, StopSteps
  <2>. QED
    BY <2>1, OneStays DEF Rows, StartSteps, LaunchSteps, EndSteps, StopSteps
<1>4. CASE HostedVEStopped(t)
  <2>1. \A e \in Exprs : Rows(e) \subseteq Rows(e)'
    BY <1>4 DEF HostedVEStopped, StoppedStatus, Rows, TablesOK
  <2>2. /\ pc'[t] \in {"h_stop", "recycle", "idle"}
        /\ req'[t].user \in {req[t].user, None}
        /\ UNCHANGED <<owner, template, todo>>
    BY <1>4 DEF HostedVEStopped, Return, NoReq
  <2>3. \A e \in Exprs : status'[e] \in Live => status'[e] = status[e]
    BY <1>4 DEF HostedVEStopped, StoppedStatus, TablesOK, Live
  <2>. QED
    BY <2>1, <2>2, <2>3, OneStays DEF Live, StartSteps, LaunchSteps
<1>5. CASE CheckContainers(t)
  <2>1. /\ pc'[t] \in {"mark_expr", "recycle", "idle"}
        /\ req'[t].user \in {req[t].user, None}
        /\ UNCHANGED <<exprVars, veVars, todo>>
    BY <1>5 DEF CheckContainers, Return, NoReq
  <2>. QED
    BY <2>1, OneStays DEF Rows, StartSteps, LaunchSteps
<1>. QED
    BY <1>1, <1>2, <1>3, <1>4, <1>5

HIDE DEF exprVars, veVars, hostedVars, alaudaVars, Goto, Continue, SetStatus,
         SetRemote

LEMMA OneNext ==
    ASSUME OneInv, AlaudaFlags = {FALSE}, OneAtATime = TRUE, [Next]_vars
    PROVE  OnlyOnes'
<1>1. ASSUME NEW t \in Threads, Call(t) \/ Work(t) PROVE OnlyOnes'
  <2>1. OneMove(t)
    BY <1>1, CallOne, ManagerOne, HostedOne, NoAlaudaStep DEF Work, OneInv
  <2>2. OthersWait(t)
    BY <1>1, ThreadStepMove DEF StepMove, OneInv
  <2>. QED
    BY <2>1, <2>2, OneKeeps
<1>2. CASE UNCHANGED vars
    BY <1>2 DEF vars, managerVars, exprVars, veVars, threadVars, OneInv,
       OnlyOnes, OneCallPerUser, HasRows, Rows, NoPool, NoneLive, OwnLaunch,
       LiveOf, OneLivePerUser
<1>3. CASE Restart
  <2>1. /\ \A t \in Threads : pc'[t] = "idle" /\ req'[t].user = None
        /\ todo' = {} /\ UNCHANGED <<exprVars, veVars>>
    BY <1>3 DEF Restart, NoReq
  <2>2. "idle" \notin StartSteps \cup PlacedSteps \cup LaunchSteps
    BY DEF StartSteps, PlacedSteps, LaunchSteps
  <2>. QED
    BY <2>1, <2>2, ExprAssumption DEF exprVars, veVars, OneInv, OnlyOnes,
       OneCallPerUser, HasRows, Rows, NoPool, NoneLive, OwnLaunch,
       OneLivePerUser
<1>4. ~ToggleAlauda
    BY DEF ToggleAlauda, OneInv, HostedInv, HostedOnly
<1>. QED
    BY <1>1, <1>2, <1>3, <1>4 DEF Next

(* On hosted docker a user that waits for the answer to a start never has  *)
(* two experiments STARTING or RUNNING (an admin, two of one template),    *)
(* whatever other users, polls, stops, the recycle job and crashes do.     *)
THEOREM HostedOneLivePerUser ==
    ASSUME AlaudaFlags = {FALSE}, OneAtATime = TRUE
    PROVE  Spec => []OneLivePerUser
<1>1. Init => OneInv
  <2>1. Init => OnlyOnes
    BY ExprAssumption DEF Init, ManagerInit, NoReq, OnlyOnes, OneCallPerUser,
       HasRows, NoPool, NoneLive, OwnLaunch, OneLivePerUser, Live,
       StartSteps, PlacedSteps, LaunchSteps
  <2>. QED
    BY <2>1, InitStep, InitHosted DEF OneInv
<1>2. OneInv /\ [Next]_vars => OneInv'
    BY NextStep, HostedNext, OneNext DEF OneInv, StepInv
<1>3. OneInv => OneLivePerUser
    BY DEF OneInv, OnlyOnes
<1>. QED
    BY <1>1, <1>2, <1>3, PTL DEF Spec
====
