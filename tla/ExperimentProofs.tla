-------------------------- MODULE ExperimentProofs --------------------------
(***************************************************************************)
(* What holds of Experiment for every value of its constants: the types,   *)
(* then the properties of starts, container rows, Alauda's watchers and    *)
(* the pool.                                                               *)
(*                                                                         *)
(* TypeOK is not inductive: that a thread at a given step holds an         *)
(* experiment, a virtual environment and a container row (Located) is      *)
(* needed with it.                                                         *)
(***************************************************************************)
EXTENDS Experiment, FiniteSetTheorems, TLAPS

(* Steps at which a thread works on an experiment.  *)
ExprSteps == Steps \ {"idle", "pool", "insert", "recycle"}

(* Steps at which it works on one virtual environment of it. *)
VESteps ==
    (HostedSteps \cup AlaudaSteps \cup {"add_ve", "mark_expr", "mark_ve"})
        \ {"a_stopped"}

(* Steps at which that virtual environment has a container row.            *)
ContainerSteps == HostedSteps \ {"h_host", "h_stop"}

(* What the step of thread t says of its local variables. *)
LocatedAt(t) ==
    /\ pc[t] \in ExprSteps => cur[t] \in Exprs
    /\ pc[t] \in VESteps => ve[t] \in VEs
    /\ pc[t] \in ContainerSteps => container[cur[t]][ve[t]] \in Hosts

Located == \A t \in Threads : LocatedAt(t)

TypeInv == TypeOK /\ Located

(* TypeOK in two parts: the threads, and the tables and the remote side.   *)
ThreadsOK ==
    /\ pc \in [Threads -> Steps]
    /\ req \in [Threads -> Requests]
    /\ cur \in [Threads -> Exprs \cup {None}]
    /\ ve \in [Threads -> 0..NumVE]
    /\ last \in [Threads -> 0..NumVE]
    /\ todo \in SUBSET Exprs

TablesOK ==
    /\ status \in [Exprs -> EStatus]
    /\ owner \in [Exprs -> Users \cup {DefaultUser, None}]
    /\ template \in [Exprs -> Templates \cup {None}]
    /\ veStatus \in [Exprs -> [VEs -> VEStatus]]
    /\ provider \in [Exprs -> [VEs -> {"DOCKER", "ALAUDA"}]]
    /\ alauda \in AlaudaFlags
    /\ HostedTypeOK
    /\ AlaudaTypeOK

(* Thread t takes a step: the local variables of the others stay.          *)
Alone(t) ==
    \A s \in Threads \ {t} :
        pc'[s] = pc[s] /\ cur'[s] = cur[s] /\ ve'[s] = ve[s]

(* A container row stays.                                                  *)
ContainersStay ==
    \A e \in Exprs, i \in VEs :
        container[e][i] \in Hosts => container'[e][i] \in Hosts

----------------------------------------------------------------------------
(* Lemmas about data. *)

(* An update of a table with a row per virtual environment. *)
LEMMA UpdateRow ==
    ASSUME NEW A, NEW B, NEW C, NEW f \in [A -> [B -> C]],
           NEW a \in A, NEW b \in B, NEW c \in C
    PROVE  /\ [f EXCEPT ![a][b] = c] \in [A -> [B -> C]]
           /\ [f EXCEPT ![a][b] = c][a][b] = c
           /\ \A x \in A, y \in B :
                x # a \/ y # b => [f EXCEPT ![a][b] = c][x][y] = f[x][y]
    OBVIOUS

(* The number of rows of an experiment. *)
LEMMA RowsCount ==
    ASSUME NEW e
    PROVE  Cardinality(Rows(e)) \in 0..NumVE
<1>1. NumVE \in Nat
    BY ExprAssumption
<1>2. IsFiniteSet(VEs) /\ Cardinality(VEs) = NumVE
    BY <1>1, FS_Interval DEF VEs
<1>3. Rows(e) \subseteq VEs
    BY DEF Rows
<1>4. Cardinality(Rows(e)) <= Cardinality(VEs) /\ IsFiniteSet(Rows(e))
    BY <1>2, <1>3, FS_Subset
<1>. QED
    BY <1>1, <1>2, <1>4, FS_CardinalityType

(* TypeOK is the conjunction of its two parts. *)
LEMMA Parts ==
    /\ TypeOK <=> ThreadsOK /\ TablesOK
    /\ TypeOK' <=> ThreadsOK' /\ TablesOK'
    BY DEF TypeOK, ManagerTypeOK, ThreadsOK, TablesOK

(* A thread works on a virtual environment only with an experiment, and    *)
(* uses a container row only with a virtual environment.                   *)
LEMMA StepSets ==
    /\ ContainerSteps \subseteq VESteps
    /\ VESteps \subseteq ExprSteps
    /\ ExprSteps \subseteq Steps
    BY DEF ContainerSteps, ExprSteps, VESteps, Steps, ManagerSteps,
           HostedSteps, AlaudaSteps

----------------------------------------------------------------------------
(* Lemmas about thread control. *)

LEMMA LocatedStep ==
    ASSUME Located, NEW t \in Threads, Alone(t), ContainersStay, LocatedAt(t)'
    PROVE  Located'
<1>. SUFFICES ASSUME NEW s \in Threads, s # t
              PROVE  LocatedAt(s)'
    BY DEF Located
<1>1. LocatedAt(s)
    BY DEF Located
<1>2. pc'[s] = pc[s] /\ cur'[s] = cur[s] /\ ve'[s] = ve[s]
    BY DEF Alone
<1>. QED
    BY <1>1, <1>2, StepSets DEF LocatedAt, ContainersStay

LEMMA GotoStep ==
    ASSUME TypeInv, NEW t \in Threads, NEW step \in ExprSteps, Goto(t, step),
           ContainersStay, cur[t] \in Exprs,
           step \in VESteps => ve[t] \in VEs,
           step \in ContainerSteps => container'[cur[t]][ve[t]] \in Hosts
    PROVE  ThreadsOK' /\ Located'
<1>1. ThreadsOK'
    BY StepSets, Parts DEF TypeInv, ThreadsOK, Goto
<1>2. Alone(t) /\ pc'[t] = step /\ cur' = cur /\ ve' = ve
    BY Parts DEF TypeInv, ThreadsOK, Goto, Alone
<1>3. LocatedAt(t)'
    BY <1>2, StepSets DEF LocatedAt
<1>. QED
    BY <1>1, <1>2, <1>3, LocatedStep DEF TypeInv

LEMMA ReturnStep ==
    ASSUME TypeInv, NEW t \in Threads, Return(t), ContainersStay,
           NumVE \in Nat
    PROVE  ThreadsOK' /\ Located'
<1>1. ThreadsOK'
    BY Parts DEF TypeInv, ThreadsOK, Return, Requests, NoReq, Steps,
                 ManagerSteps
<1>2. Alone(t) /\ pc'[t] \in {"idle", "recycle"}
    BY Parts DEF TypeInv, ThreadsOK, Return, Alone
<1>3. LocatedAt(t)'
    BY <1>2, StepSets DEF LocatedAt, ExprSteps
<1>. QED
    BY <1>1, <1>2, <1>3, LocatedStep DEF TypeInv

LEMMA VEStartedStep ==
    ASSUME TypeInv, NEW t \in Threads, VEStarted(t), ContainersStay,
           cur[t] \in Exprs, ve[t] \in VEs, NumVE \in Nat
    PROVE  ThreadsOK' /\ Located'
<1>1. ThreadsOK'
    BY Parts DEF TypeInv, ThreadsOK, VEStarted, Steps, ManagerSteps, VEs
<1>2. /\ Alone(t) /\ pc'[t] \in {"add_ve", "set_running"}
      /\ cur'[t] = cur[t] /\ ve'[t] \in VEs
    BY Parts DEF TypeInv, ThreadsOK, VEStarted, Alone, VEs
<1>3. LocatedAt(t)'
    BY <1>2 DEF LocatedAt, ContainerSteps, HostedSteps
<1>. QED
    BY <1>1, <1>2, <1>3, LocatedStep DEF TypeInv

----------------------------------------------------------------------------
(* One lemma per action. *)

USE DEF ExprSteps, VESteps, ContainerSteps, Steps, ManagerSteps, HostedSteps,
        AlaudaSteps, exprVars, veVars, hostedVars, alaudaVars, Goto,
        Continue, SetStatus, SetRemote, TypeInv, ContainersStay

LEMMA AssignPooledType ==
    ASSUME TypeInv, NEW t \in Threads,
           AssignPooled(t), UNCHANGED hostedVars, UNCHANGED alaudaVars
    PROVE  TypeInv'
<1>1. cur[t] \in Exprs /\ NumVE \in Nat
    BY StepSets, ExprAssumption DEF Located, LocatedAt, AssignPooled
<1>2. req[t].user \in Users \cup {None}
    BY <1>1, UpdateRow, Parts DEF TablesOK, HostedTypeOK, AlaudaTypeOK,
       ThreadsOK, Requests
<1>3. TablesOK' /\ ContainersStay
    BY <1>1, <1>2, Parts DEF AssignPooled, TablesOK, HostedTypeOK,
       AlaudaTypeOK
<1>4. ThreadsOK' /\ Located'
    BY <1>1, <1>2, <1>3, GotoStep DEF AssignPooled
<1>. QED
    BY <1>3, <1>4, Parts

LEMMA CountPoolType ==
    ASSUME TypeInv, NEW t \in Threads,
           CountPool(t), UNCHANGED hostedVars, UNCHANGED alaudaVars
    PROVE  TypeInv'
<1>1. cur[t] \in Exprs /\ NumVE \in Nat
    BY StepSets, ExprAssumption DEF Located, LocatedAt, CountPool
<1>2. TablesOK' /\ ContainersStay
    BY <1>1, UpdateRow, Parts DEF CountPool, TablesOK, HostedTypeOK,
       AlaudaTypeOK
<1>3. ThreadsOK' /\ Located'
    BY <1>1, <1>2, GotoStep, ReturnStep DEF CountPool
<1>. QED
    BY <1>2, <1>3, Parts

LEMMA StartAzureType ==
    ASSUME TypeInv, NEW t \in Threads,
           StartAzure(t), UNCHANGED hostedVars, UNCHANGED alaudaVars
    PROVE  TypeInv'
<1>1. cur[t] \in Exprs /\ NumVE \in Nat
    BY StepSets, ExprAssumption DEF Located, LocatedAt, StartAzure
<1>2. TablesOK' /\ ContainersStay
    BY <1>1, UpdateRow, Parts DEF StartAzure, TablesOK, HostedTypeOK,
       AlaudaTypeOK
<1>3. ThreadsOK' /\ Located'
    BY <1>1, <1>2, ReturnStep DEF StartAzure
<1>. QED
    BY <1>2, <1>3, Parts

LEMMA AddVEType ==
    ASSUME TypeInv, NEW t \in Threads,
           AddVE(t), UNCHANGED hostedVars, UNCHANGED alaudaVars
    PROVE  TypeInv'
<1>1. cur[t] \in Exprs /\ ve[t] \in VEs /\ NumVE \in Nat
    BY StepSets, ExprAssumption DEF Located, LocatedAt, AddVE
<1>2. TablesOK' /\ ContainersStay
    BY <1>1, UpdateRow, Parts DEF AddVE, VEStatus, TablesOK, HostedTypeOK,
       AlaudaTypeOK
<1>3. ThreadsOK' /\ Located'
    BY <1>1, <1>2, GotoStep DEF AddVE
<1>. QED
    BY <1>2, <1>3, Parts

LEMMA SetRunningType ==
    ASSUME TypeInv, NEW t \in Threads,
           SetRunning(t), UNCHANGED hostedVars, UNCHANGED alaudaVars
    PROVE  TypeInv'
<1>1. cur[t] \in Exprs /\ NumVE \in Nat
    BY StepSets, ExprAssumption DEF Located, LocatedAt, SetRunning
<1>2. TablesOK' /\ ContainersStay
    BY <1>1, UpdateRow, Parts DEF SetRunning, EStatus, TablesOK,
       HostedTypeOK, AlaudaTypeOK
<1>3. ThreadsOK' /\ Located'
    BY <1>1, <1>2, GotoStep DEF SetRunning
<1>. QED
    BY <1>2, <1>3, Parts

LEMMA MarkExprType ==
    ASSUME TypeInv, NEW t \in Threads,
           MarkExpr(t), UNCHANGED hostedVars, UNCHANGED alaudaVars
    PROVE  TypeInv'
<1>1. cur[t] \in Exprs /\ ve[t] \in VEs /\ NumVE \in Nat
    BY StepSets, ExprAssumption DEF Located, LocatedAt, MarkExpr
<1>2. TablesOK' /\ ContainersStay
    BY <1>1, UpdateRow, Parts DEF MarkExpr, EStatus, TablesOK, HostedTypeOK,
       AlaudaTypeOK
<1>3. ThreadsOK' /\ Located'
    BY <1>1, <1>2, GotoStep DEF MarkExpr
<1>. QED
    BY <1>2, <1>3, Parts

LEMMA MarkVEType ==
    ASSUME TypeInv, NEW t \in Threads,
           MarkVE(t), UNCHANGED hostedVars, UNCHANGED alaudaVars
    PROVE  TypeInv'
<1>1. cur[t] \in Exprs /\ ve[t] \in VEs /\ NumVE \in Nat
    BY StepSets, ExprAssumption DEF Located, LocatedAt, MarkVE
<1>2. TablesOK' /\ ContainersStay
    BY <1>1, UpdateRow, Parts DEF MarkVE, VEStatus, TablesOK, HostedTypeOK,
       AlaudaTypeOK
<1>3. ThreadsOK' /\ Located'
    BY <1>1, <1>2, ReturnStep DEF MarkVE
<1>. QED
    BY <1>2, <1>3, Parts

LEMMA RollbackType ==
    ASSUME TypeInv, NEW t \in Threads,
           Rollback(t), UNCHANGED hostedVars, UNCHANGED alaudaVars
    PROVE  TypeInv'
<1>1. cur[t] \in Exprs /\ NumVE \in Nat
    BY StepSets, ExprAssumption DEF Located, LocatedAt, Rollback
<1>2. TablesOK' /\ ContainersStay
    BY <1>1, UpdateRow, Parts DEF Rollback, EStatus, TablesOK, HostedTypeOK,
       AlaudaTypeOK
<1>3. ThreadsOK' /\ Located'
    BY <1>1, <1>2, GotoStep DEF Rollback
<1>. QED
    BY <1>2, <1>3, Parts

LEMMA RollbackVEsType ==
    ASSUME TypeInv, NEW t \in Threads,
           RollbackVEs(t), UNCHANGED hostedVars, UNCHANGED alaudaVars
    PROVE  TypeInv'
<1>1. cur[t] \in Exprs /\ NumVE \in Nat
    BY StepSets, ExprAssumption DEF Located, LocatedAt, RollbackVEs
<1>2. TablesOK' /\ ContainersStay
    BY <1>1, UpdateRow, Parts DEF RollbackVEs, EStatus, TablesOK,
       HostedTypeOK, AlaudaTypeOK
<1>3. ThreadsOK' /\ Located'
    BY <1>1, <1>2, ReturnStep DEF RollbackVEs
<1>. QED
    BY <1>2, <1>3, Parts

LEMMA RecycleAssignType ==
    ASSUME TypeInv, NEW t \in Threads,
           RecycleAssign(t), UNCHANGED hostedVars, UNCHANGED alaudaVars
    PROVE  TypeInv'
<1>1. cur[t] \in Exprs /\ NumVE \in Nat
    BY StepSets, ExprAssumption DEF Located, LocatedAt, RecycleAssign
<1>2. TablesOK' /\ ContainersStay
    BY <1>1, UpdateRow, Parts DEF RecycleAssign, TablesOK, HostedTypeOK,
       AlaudaTypeOK
<1>3. ThreadsOK' /\ Located'
    BY <1>1, <1>2, ReturnStep DEF RecycleAssign
<1>. QED
    BY <1>2, <1>3, Parts

LEMMA ReserveHostType ==
    ASSUME TypeInv, NEW t \in Threads,
           ReserveHost(t), UNCHANGED alaudaVars
    PROVE  TypeInv'
<1>1. cur[t] \in Exprs /\ ve[t] \in VEs
    BY DEF Located, LocatedAt, ReserveHost
<1>2. CASE UNCHANGED container /\ Continue(t, "rollback")
  <2>1. TablesOK' /\ ContainersStay
    BY <1>2, Parts DEF TablesOK, HostedTypeOK, AlaudaTypeOK, ReserveHost
  <2>2. "rollback" \in ExprSteps \ VESteps
    OBVIOUS
  <2>. QED
    BY <1>1, <1>2, <2>1, <2>2, StepSets, GotoStep, Parts
<1>3. CASE \E h \in Hosts :
            /\ container' = [container EXCEPT ![cur[t]][ve[t]] = h]
            /\ Continue(t, "h_ports")
  <2>1. PICK h \in Hosts :
            /\ container' = [container EXCEPT ![cur[t]][ve[t]] = h]
            /\ Continue(t, "h_ports")
    BY <1>3
  <2>2. "h_ports" \in ExprSteps /\ "h_ports" \in VESteps
    OBVIOUS
  <2>3. TablesOK' /\ ContainersStay /\ container'[cur[t]][ve[t]] = h
    BY <1>1, <2>1, UpdateRow, Parts DEF TablesOK, HostedTypeOK,
       AlaudaTypeOK, ReserveHost
  <2>. QED
    BY <1>1, <2>1, <2>2, <2>3, GotoStep, Parts
<1>. QED
    BY <1>2, <1>3 DEF ReserveHost

LEMMA AssignPortsType ==
    ASSUME TypeInv, NEW t \in Threads,
           AssignPorts(t), UNCHANGED alaudaVars
    PROVE  TypeInv'
<1>1. cur[t] \in Exprs /\ ve[t] \in VEs /\ NumVE \in Nat
         /\ container[cur[t]][ve[t]] \in Hosts
    BY StepSets, ExprAssumption DEF Located, LocatedAt, AssignPorts
<1>2. bound' \in [Exprs -> SUBSET VEs]
  <2>1. /\ bound \in [Exprs -> SUBSET VEs]
         /\ bound[cur[t]] \cup {ve[t]} \in SUBSET VEs
    BY <1>1, UpdateRow, Parts DEF TablesOK, HostedTypeOK, AlaudaTypeOK
  <2>. QED
    BY <2>1 DEF AssignPorts, AssignPorts
<1>3. TablesOK' /\ ContainersStay
    BY <1>1, <1>2, Parts DEF AssignPorts, TablesOK, HostedTypeOK,
       AlaudaTypeOK
<1>4. ThreadsOK' /\ Located'
    BY <1>1, <1>2, <1>3, GotoStep DEF AssignPorts
<1>. QED
    BY <1>3, <1>4, Parts

LEMMA LoadHostType ==
    ASSUME TypeInv, NEW t \in Threads,
           LoadHost(t), UNCHANGED alaudaVars
    PROVE  TypeInv'
<1>1. cur[t] \in Exprs /\ ve[t] \in VEs /\ NumVE \in Nat
         /\ container[cur[t]][ve[t]] \in Hosts
    BY StepSets, ExprAssumption DEF Located, LocatedAt, LoadHost
<1>2. seen' \in [Threads -> Nat]
  <2>1. /\ seen \in [Threads -> Nat]
         /\ count[container[cur[t]][ve[t]]] \in Nat
    BY <1>1, UpdateRow, Parts DEF TablesOK, HostedTypeOK, AlaudaTypeOK
  <2>. QED
    BY <2>1 DEF LoadHost, LoadHost
<1>3. TablesOK' /\ ContainersStay
    BY <1>1, <1>2, Parts DEF LoadHost, TablesOK, HostedTypeOK, AlaudaTypeOK
<1>4. ThreadsOK' /\ Located'
    BY <1>1, <1>2, <1>3, GotoStep DEF LoadHost
<1>. QED
    BY <1>3, <1>4, Parts

LEMMA CreateContainerType ==
    ASSUME TypeInv, NEW t \in Threads,
           CreateContainer(t), UNCHANGED alaudaVars
    PROVE  TypeInv'
<1>1. cur[t] \in Exprs /\ ve[t] \in VEs /\ NumVE \in Nat
         /\ container[cur[t]][ve[t]] \in Hosts
    BY StepSets, ExprAssumption DEF Located, LocatedAt, CreateContainer
<1>2. remote' \in [Exprs -> [VEs -> RemoteStates]]
  <2>1. /\ remote \in [Exprs -> [VEs -> RemoteStates]]
         /\ \A x \in RemoteStates :
              [remote EXCEPT ![cur[t]][ve[t]] = x]
                  \in [Exprs -> [VEs -> RemoteStates]]
    BY <1>1, UpdateRow, Parts DEF TablesOK, HostedTypeOK, AlaudaTypeOK,
       RemoteStates
  <2>. QED
    BY <2>1 DEF CreateContainer, CreateContainer, RemoteStates
<1>3. TablesOK' /\ ContainersStay
    BY <1>1, <1>2, Parts DEF CreateContainer, RemoteStates, TablesOK,
       HostedTypeOK, AlaudaTypeOK
<1>4. ThreadsOK' /\ Located'
    BY <1>1, <1>2, <1>3, GotoStep DEF CreateContainer
<1>. QED
    BY <1>3, <1>4, Parts

LEMMA StartContainerType ==
    ASSUME TypeInv, NEW t \in Threads,
           StartContainer(t), UNCHANGED alaudaVars
    PROVE  TypeInv'
<1>1. cur[t] \in Exprs /\ ve[t] \in VEs /\ NumVE \in Nat
         /\ container[cur[t]][ve[t]] \in Hosts
    BY StepSets, ExprAssumption DEF Located, LocatedAt, StartContainer
<1>2. TablesOK' /\ ContainersStay
    BY <1>1, UpdateRow, Parts DEF StartContainer, RemoteStates, TablesOK,
       HostedTypeOK, AlaudaTypeOK
<1>3. ThreadsOK' /\ Located'
    BY <1>1, <1>2, GotoStep DEF StartContainer
<1>. QED
    BY <1>2, <1>3, Parts

LEMMA IncrementCountType ==
    ASSUME TypeInv, NEW t \in Threads,
           IncrementCount(t), UNCHANGED alaudaVars
    PROVE  TypeInv'
<1>1. cur[t] \in Exprs /\ ve[t] \in VEs /\ NumVE \in Nat
         /\ container[cur[t]][ve[t]] \in Hosts
    BY StepSets, ExprAssumption DEF Located, LocatedAt, IncrementCount
<1>2. TablesOK' /\ ContainersStay
    BY <1>1, UpdateRow, Parts DEF IncrementCount, TablesOK, HostedTypeOK,
       AlaudaTypeOK
<1>3. ThreadsOK' /\ Located'
    BY <1>1, <1>2, GotoStep DEF IncrementCount
<1>. QED
    BY <1>2, <1>3, Parts

LEMMA VerifyContainerType ==
    ASSUME TypeInv, NEW t \in Threads,
           VerifyContainer(t), UNCHANGED alaudaVars
    PROVE  TypeInv'
<1>1. cur[t] \in Exprs /\ ve[t] \in VEs /\ NumVE \in Nat
         /\ container[cur[t]][ve[t]] \in Hosts
    BY StepSets, ExprAssumption DEF Located, LocatedAt, VerifyContainer
<1>2. container' = container
    BY <1>1, UpdateRow, Parts DEF TablesOK, HostedTypeOK, AlaudaTypeOK,
       VerifyContainer
<1>3. TablesOK' /\ ContainersStay
    BY <1>1, <1>2, Parts DEF VerifyContainer, TablesOK, HostedTypeOK,
       AlaudaTypeOK
<1>4. ThreadsOK' /\ Located'
  <2>1. CASE Continue(t, "h_up")
    BY <1>1, <1>2, <1>3, <2>1, GotoStep
  <2>2. CASE Continue(t, "rollback")
    BY <1>1, <1>2, <1>3, <2>2, GotoStep
  <2>. QED
    BY <2>1, <2>2 DEF VerifyContainer
<1>. QED
    BY <1>3, <1>4, Parts

LEMMA HostedVEUpType ==
    ASSUME TypeInv, NEW t \in Threads,
           HostedVEUp(t), UNCHANGED alaudaVars
    PROVE  TypeInv'
<1>1. cur[t] \in Exprs /\ ve[t] \in VEs /\ NumVE \in Nat
         /\ container[cur[t]][ve[t]] \in Hosts
    BY StepSets, ExprAssumption DEF Located, LocatedAt, HostedVEUp
<1>2. TablesOK' /\ ContainersStay
    BY <1>1, UpdateRow, Parts DEF HostedVEUp, VEStatus, TablesOK,
       HostedTypeOK, AlaudaTypeOK
<1>3. ThreadsOK' /\ Located'
    BY <1>1, <1>2, VEStartedStep DEF HostedVEUp
<1>. QED
    BY <1>2, <1>3, Parts

LEMMA StopContainerType ==
    ASSUME TypeInv, NEW t \in Threads,
           StopContainer(t), UNCHANGED alaudaVars
    PROVE  TypeInv'
<1>1. cur[t] \in Exprs /\ ve[t] \in VEs /\ NumVE \in Nat
    BY StepSets, ExprAssumption DEF Located, LocatedAt, StopContainer
<1>2. /\ remote' \in [Exprs -> [VEs -> RemoteStates]]
      /\ container' = container
      /\ container[cur[t]][ve[t]] \in Hosts \cup {None}
  <2>1. /\ remote \in [Exprs -> [VEs -> RemoteStates]]
         /\ \A x \in RemoteStates :
              [remote EXCEPT ![cur[t]][ve[t]] = x]
                  \in [Exprs -> [VEs -> RemoteStates]]
         /\ container[cur[t]][ve[t]] \in Hosts \cup {None}
    BY <1>1, UpdateRow, Parts DEF TablesOK, HostedTypeOK, AlaudaTypeOK,
       RemoteStates
  <2>. QED
    BY <2>1 DEF StopContainer, StopContainer, RemoteStates
<1>3. TablesOK' /\ ContainersStay
    BY <1>1, <1>2, Parts DEF StopContainer, RemoteStates, TablesOK,
       HostedTypeOK, AlaudaTypeOK
<1>4. ThreadsOK' /\ Located'
  <2>1. CASE Continue(t, "h_release") /\ container[cur[t]][ve[t]] # None
    BY <1>1, <1>2, <1>3, <2>1, GotoStep
  <2>2. CASE Continue(t, "rollback")
    BY <1>1, <1>2, <1>3, <2>2, GotoStep
  <2>. QED
    BY <2>1, <2>2 DEF StopContainer
<1>. QED
    BY <1>3, <1>4, Parts

LEMMA ReleasePortsType ==
    ASSUME TypeInv, NEW t \in Threads,
           ReleasePorts(t), UNCHANGED alaudaVars
    PROVE  TypeInv'
<1>1. cur[t] \in Exprs /\ ve[t] \in VEs /\ NumVE \in Nat
         /\ container[cur[t]][ve[t]] \in Hosts
    BY StepSets, ExprAssumption DEF Located, LocatedAt, ReleasePorts
<1>2. TablesOK' /\ ContainersStay
    BY <1>1, UpdateRow, Parts DEF ReleasePorts, TablesOK, HostedTypeOK,
       AlaudaTypeOK
<1>3. ThreadsOK' /\ Located'
    BY <1>1, <1>2, GotoStep DEF ReleasePorts
<1>. QED
    BY <1>2, <1>3, Parts

LEMMA LoadCountType ==
    ASSUME TypeInv, NEW t \in Threads,
           LoadCount(t), UNCHANGED alaudaVars
    PROVE  TypeInv'
<1>1. cur[t] \in Exprs /\ ve[t] \in VEs /\ NumVE \in Nat
         /\ container[cur[t]][ve[t]] \in Hosts
    BY StepSets, ExprAssumption DEF Located, LocatedAt, LoadCount
<1>2. TablesOK' /\ ContainersStay
    BY <1>1, UpdateRow, Parts DEF LoadCount, TablesOK, HostedTypeOK,
       AlaudaTypeOK
<1>3. ThreadsOK' /\ Located'
    BY <1>1, <1>2, GotoStep DEF LoadCount
<1>. QED
    BY <1>2, <1>3, Parts

LEMMA DecrementCountType ==
    ASSUME TypeInv, NEW t \in Threads,
           DecrementCount(t), UNCHANGED alaudaVars
    PROVE  TypeInv'
<1>1. cur[t] \in Exprs /\ ve[t] \in VEs /\ NumVE \in Nat
         /\ container[cur[t]][ve[t]] \in Hosts
    BY StepSets, ExprAssumption DEF Located, LocatedAt, DecrementCount
<1>2. count' \in [Hosts -> Nat]
  <2>1. /\ count \in [Hosts -> Nat] /\ seen[t] \in Nat
         /\ (IF seen[t] = 0 THEN 0 ELSE seen[t] - 1) \in Nat
    BY <1>1, UpdateRow, Parts DEF TablesOK, HostedTypeOK, AlaudaTypeOK
  <2>. QED
    BY <2>1 DEF DecrementCount, DecrementCount
<1>3. TablesOK' /\ ContainersStay
    BY <1>1, <1>2, Parts DEF DecrementCount, TablesOK, HostedTypeOK,
       AlaudaTypeOK
<1>4. ThreadsOK' /\ Located'
    BY <1>1, <1>2, <1>3, GotoStep DEF DecrementCount
<1>. QED
    BY <1>3, <1>4, Parts

LEMMA CreateServiceType ==
    ASSUME TypeInv, NEW t \in Threads,
           CreateService(t), UNCHANGED hostedVars
    PROVE  TypeInv'
<1>1. cur[t] \in Exprs /\ ve[t] \in VEs /\ NumVE \in Nat
    BY StepSets, ExprAssumption DEF Located, LocatedAt, CreateService
<1>2. TablesOK' /\ ContainersStay
    BY <1>1, UpdateRow, Parts DEF CreateService, TablesOK, HostedTypeOK,
       AlaudaTypeOK
<1>3. ThreadsOK' /\ Located'
    BY <1>1, <1>2, GotoStep DEF CreateService
<1>. QED
    BY <1>2, <1>3, Parts

LEMMA SetProviderType ==
    ASSUME TypeInv, NEW t \in Threads,
           SetProvider(t), UNCHANGED hostedVars
    PROVE  TypeInv'
<1>1. cur[t] \in Exprs /\ ve[t] \in VEs /\ NumVE \in Nat
    BY StepSets, ExprAssumption DEF Located, LocatedAt, SetProvider
<1>2. TablesOK' /\ ContainersStay
    BY <1>1, UpdateRow, Parts DEF SetProvider, TablesOK, HostedTypeOK,
       AlaudaTypeOK
<1>3. ThreadsOK' /\ Located'
    BY <1>1, <1>2, GotoStep DEF SetProvider
<1>. QED
    BY <1>2, <1>3, Parts

LEMMA QueryServiceType ==
    ASSUME TypeInv, NEW t \in Threads,
           QueryService(t), UNCHANGED hostedVars
    PROVE  TypeInv'
<1>1. cur[t] \in Exprs /\ ve[t] \in VEs /\ NumVE \in Nat
    BY StepSets, ExprAssumption DEF Located, LocatedAt, QueryService
<1>2. job' \in [Exprs -> [VEs -> BOOLEAN]]
  <2>1. /\ job \in [Exprs -> [VEs -> BOOLEAN]]
         /\ [job EXCEPT ![cur[t]][ve[t]] = TRUE]
              \in [Exprs -> [VEs -> BOOLEAN]]
    BY <1>1, UpdateRow, Parts DEF TablesOK, HostedTypeOK, AlaudaTypeOK
  <2>. QED
    BY <2>1 DEF QueryService, QueryService
<1>3. TablesOK' /\ ContainersStay
    BY <1>1, <1>2, Parts DEF QueryService, TablesOK, HostedTypeOK,
       AlaudaTypeOK
<1>4. ThreadsOK' /\ Located'
    BY <1>1, <1>2, <1>3, GotoStep, ReturnStep, VEStartedStep DEF
       QueryService, Handled, Raise
<1>. QED
    BY <1>3, <1>4, Parts

LEMMA ServiceStartedType ==
    ASSUME TypeInv, NEW t \in Threads,
           ServiceStarted(t), UNCHANGED hostedVars
    PROVE  TypeInv'
<1>1. cur[t] \in Exprs /\ ve[t] \in VEs /\ NumVE \in Nat
    BY StepSets, ExprAssumption DEF Located, LocatedAt, ServiceStarted
<1>2. veStatus' \in [Exprs -> [VEs -> VEStatus]]
  <2>1. /\ veStatus \in [Exprs -> [VEs -> VEStatus]]
         /\ \A x \in VEStatus :
              [veStatus EXCEPT ![cur[t]][ve[t]] = x]
                  \in [Exprs -> [VEs -> VEStatus]]
    BY <1>1, UpdateRow, Parts DEF TablesOK, HostedTypeOK, AlaudaTypeOK,
       VEStatus
  <2>. QED
    BY <2>1 DEF ServiceStarted, ServiceStarted, VEStatus
<1>3. TablesOK' /\ ContainersStay
    BY <1>1, <1>2, Parts DEF ServiceStarted, VEStatus, TablesOK,
       HostedTypeOK, AlaudaTypeOK
<1>4. ThreadsOK' /\ Located'
    BY <1>1, <1>2, <1>3, GotoStep, ReturnStep DEF ServiceStarted, Raise
<1>. QED
    BY <1>3, <1>4, Parts

LEMMA CheckAllRunningType ==
    ASSUME TypeInv, NEW t \in Threads,
           CheckAllRunning(t), UNCHANGED hostedVars
    PROVE  TypeInv'
<1>1. cur[t] \in Exprs /\ ve[t] \in VEs /\ NumVE \in Nat
    BY StepSets, ExprAssumption DEF Located, LocatedAt, CheckAllRunning
<1>2. TablesOK' /\ ContainersStay
    BY <1>1, UpdateRow, Parts DEF CheckAllRunning, TablesOK, HostedTypeOK,
       AlaudaTypeOK
<1>3. ThreadsOK' /\ Located'
    BY <1>1, <1>2, GotoStep, ReturnStep, VEStartedStep DEF CheckAllRunning,
       Handled
<1>. QED
    BY <1>2, <1>3, Parts

LEMMA PromoteExprType ==
    ASSUME TypeInv, NEW t \in Threads,
           PromoteExpr(t), UNCHANGED hostedVars
    PROVE  TypeInv'
<1>1. cur[t] \in Exprs /\ ve[t] \in VEs /\ NumVE \in Nat
    BY StepSets, ExprAssumption DEF Located, LocatedAt, PromoteExpr
<1>2. TablesOK' /\ ContainersStay
    BY <1>1, UpdateRow, Parts DEF PromoteExpr, EStatus, TablesOK,
       HostedTypeOK, AlaudaTypeOK
<1>3. ThreadsOK' /\ Located'
    BY <1>1, <1>2, ReturnStep, VEStartedStep DEF PromoteExpr, Handled
<1>. QED
    BY <1>2, <1>3, Parts

LEMMA ServiceFailedType ==
    ASSUME TypeInv, NEW t \in Threads,
           ServiceFailed(t), UNCHANGED hostedVars
    PROVE  TypeInv'
<1>1. cur[t] \in Exprs /\ ve[t] \in VEs /\ NumVE \in Nat
    BY StepSets, ExprAssumption DEF Located, LocatedAt, ServiceFailed
<1>2. veStatus' \in [Exprs -> [VEs -> VEStatus]] /\ status' \in [Exprs -> EStatus]
  <2>1. /\ veStatus \in [Exprs -> [VEs -> VEStatus]]
         /\ \A x \in VEStatus :
              [veStatus EXCEPT ![cur[t]][ve[t]] = x]
                  \in [Exprs -> [VEs -> VEStatus]]
         /\ status \in [Exprs -> EStatus]
    BY <1>1, UpdateRow, Parts DEF TablesOK, HostedTypeOK, AlaudaTypeOK,
       VEStatus, EStatus
  <2>. QED
    BY <2>1 DEF ServiceFailed, ServiceFailed, VEStatus, EStatus
<1>3. TablesOK' /\ ContainersStay
    BY <1>1, <1>2, Parts DEF ServiceFailed, EStatus, VEStatus, TablesOK,
       HostedTypeOK, AlaudaTypeOK
<1>4. ThreadsOK' /\ Located'
    BY <1>1, <1>2, <1>3, GotoStep, ReturnStep, VEStartedStep DEF
       ServiceFailed, Handled
<1>. QED
    BY <1>3, <1>4, Parts

LEMMA ServicesStoppedType ==
    ASSUME TypeInv, NEW t \in Threads,
           ServicesStopped(t), UNCHANGED hostedVars
    PROVE  TypeInv'
<1>1. cur[t] \in Exprs /\ NumVE \in Nat
    BY StepSets, ExprAssumption DEF Located, LocatedAt, ServicesStopped
<1>2. TablesOK' /\ ContainersStay
    BY <1>1, UpdateRow, Parts DEF ServicesStopped, EStatus, VEStatus,
       StoppedStatus, TablesOK, HostedTypeOK, AlaudaTypeOK
<1>3. ThreadsOK' /\ Located'
    BY <1>1, <1>2, ReturnStep DEF ServicesStopped
<1>. QED
    BY <1>2, <1>3, Parts

LEMMA PollExprType ==
    ASSUME TypeInv, NEW t \in Threads, NEW e \in Exprs,
           PollExpr(t, e), UNCHANGED hostedVars, UNCHANGED alaudaVars
    PROVE  TypeInv'
<1>1. NumVE \in Nat
    BY StepSets, ExprAssumption DEF Located, LocatedAt, PollExpr
<1>2. TablesOK' /\ ContainersStay
    BY <1>1, UpdateRow, Parts DEF PollExpr, TablesOK, HostedTypeOK,
       AlaudaTypeOK
<1>3. ThreadsOK'
    BY <1>1, Parts DEF ThreadsOK, PollExpr, Return, Requests
<1>4. Alone(t) /\ LocatedAt(t)'
    BY <1>1, Parts DEF ThreadsOK, Alone, LocatedAt, PollExpr, Return,
       Requests
<1>. QED
    BY <1>2, <1>3, <1>4, LocatedStep, Parts

LEMMA StartExprType ==
    ASSUME TypeInv, NEW t \in Threads, NEW u \in Users,
           NEW p \in Templates,
           StartExpr(t, u, p), UNCHANGED hostedVars, UNCHANGED alaudaVars
    PROVE  TypeInv'
<1>1. NumVE \in Nat
    BY StepSets, ExprAssumption DEF Located, LocatedAt, StartExpr
<1>2. TablesOK' /\ ContainersStay
    BY <1>1, UpdateRow, Parts DEF StartExpr, TablesOK, HostedTypeOK,
       AlaudaTypeOK
<1>3. ThreadsOK'
  <2>1. req' \in [Threads -> Requests]
    BY Parts DEF ThreadsOK, StartExpr, Requests
  <2>2. /\ cur' \in [Threads -> Exprs \cup {None}]
        /\ pc' \in [Threads -> Steps]
    BY Parts DEF ThreadsOK, StartExpr, LiveOf
  <2>. QED
    BY <2>1, <2>2, Parts DEF ThreadsOK, StartExpr
<1>4. Alone(t) /\ LocatedAt(t)'
    BY <1>1, Parts DEF ThreadsOK, Alone, LocatedAt, StartExpr, Return,
       Requests, LiveOf
<1>. QED
    BY <1>2, <1>3, <1>4, LocatedStep, Parts

LEMMA StopExprType ==
    ASSUME TypeInv, NEW t \in Threads, NEW e \in Exprs,
           NEW op \in {"stop", "delete"},
           StopExpr(t, e, op), UNCHANGED hostedVars, UNCHANGED alaudaVars
    PROVE  TypeInv'
<1>1. NumVE \in Nat
    BY StepSets, ExprAssumption DEF Located, LocatedAt, StopExpr
<1>2. TablesOK' /\ ContainersStay
    BY <1>1, UpdateRow, Parts DEF StopExpr, TablesOK, HostedTypeOK,
       AlaudaTypeOK
<1>3. ThreadsOK'
    BY <1>1, ExprAssumption, Parts, RowsCount DEF ThreadsOK, StopExpr, Return, Requests,
       EnterStop, VEs
<1>4. Alone(t) /\ LocatedAt(t)'
    BY <1>1, ExprAssumption, Parts, RowsCount DEF ThreadsOK, Alone, LocatedAt, StopExpr,
       Return, Requests, EnterStop, VEs
<1>. QED
    BY <1>2, <1>3, <1>4, LocatedStep, Parts

LEMMA RecycleTickType ==
    ASSUME TypeInv, NEW t \in Threads,
           RecycleTick(t), UNCHANGED hostedVars, UNCHANGED alaudaVars
    PROVE  TypeInv'
<1>1. NumVE \in Nat
    BY StepSets, ExprAssumption DEF Located, LocatedAt, RecycleTick
<1>2. TablesOK' /\ ContainersStay
    BY <1>1, UpdateRow, Parts DEF RecycleTick, TablesOK, HostedTypeOK,
       AlaudaTypeOK
<1>3. ThreadsOK'
    BY <1>1, Parts DEF ThreadsOK, RecycleTick, Return, Requests
<1>4. Alone(t) /\ LocatedAt(t)'
    BY <1>1, Parts DEF ThreadsOK, Alone, LocatedAt, RecycleTick, Return,
       Requests
<1>. QED
    BY <1>2, <1>3, <1>4, LocatedStep, Parts

LEMMA FindPooledType ==
    ASSUME TypeInv, NEW t \in Threads,
           FindPooled(t), UNCHANGED hostedVars, UNCHANGED alaudaVars
    PROVE  TypeInv'
<1>1. NumVE \in Nat
    BY StepSets, ExprAssumption DEF Located, LocatedAt, FindPooled
<1>2. TablesOK' /\ ContainersStay
    BY <1>1, UpdateRow, Parts DEF FindPooled, TablesOK, HostedTypeOK,
       AlaudaTypeOK
<1>3. ThreadsOK'
    BY <1>1, Parts DEF ThreadsOK, FindPooled, Return, Pooled
<1>4. Alone(t) /\ LocatedAt(t)'
    BY <1>1, Parts DEF ThreadsOK, Alone, LocatedAt, FindPooled, Return,
       Pooled
<1>. QED
    BY <1>2, <1>3, <1>4, LocatedStep, Parts

LEMMA InsertExprType ==
    ASSUME TypeInv, NEW t \in Threads,
           InsertExpr(t), UNCHANGED hostedVars, UNCHANGED alaudaVars
    PROVE  TypeInv'
<1>1. NumVE \in Nat
    BY StepSets, ExprAssumption DEF Located, LocatedAt, InsertExpr
<1>2. TablesOK' /\ ContainersStay
    BY <1>1, UpdateRow, Parts DEF InsertExpr, EStatus, ThreadsOK, Requests,
       TablesOK, HostedTypeOK, AlaudaTypeOK
<1>3. ThreadsOK'
    BY <1>1, Parts DEF ThreadsOK, InsertExpr, Return
<1>4. Alone(t) /\ LocatedAt(t)'
    BY <1>1, Parts DEF ThreadsOK, Alone, LocatedAt, InsertExpr, Return
<1>. QED
    BY <1>2, <1>3, <1>4, LocatedStep, Parts

LEMMA SetStartingType ==
    ASSUME TypeInv, NEW t \in Threads,
           SetStarting(t), UNCHANGED hostedVars, UNCHANGED alaudaVars
    PROVE  TypeInv'
<1>1. cur[t] \in Exprs /\ NumVE \in Nat
    BY StepSets, ExprAssumption DEF Located, LocatedAt, SetStarting
<1>2. TablesOK' /\ ContainersStay
    BY <1>1, UpdateRow, Parts DEF SetStarting, EStatus, TablesOK,
       HostedTypeOK, AlaudaTypeOK
<1>3. ThreadsOK'
    BY <1>1, ExprAssumption, Parts DEF ThreadsOK, SetStarting, Return, VEs
<1>4. Alone(t) /\ LocatedAt(t)'
    BY <1>1, ExprAssumption, Parts DEF ThreadsOK, Alone, LocatedAt, SetStarting, Return, VEs
<1>. QED
    BY <1>2, <1>3, <1>4, LocatedStep, Parts

LEMMA RecycleNextType ==
    ASSUME TypeInv, NEW t \in Threads,
           RecycleNext(t), UNCHANGED hostedVars, UNCHANGED alaudaVars
    PROVE  TypeInv'
<1>1. NumVE \in Nat
    BY StepSets, ExprAssumption DEF Located, LocatedAt, RecycleNext
<1>2. TablesOK' /\ ContainersStay
    BY <1>1, UpdateRow, Parts DEF RecycleNext, TablesOK, HostedTypeOK,
       AlaudaTypeOK
<1>3. ThreadsOK'
    BY <1>1, ExprAssumption, Parts, RowsCount DEF ThreadsOK, RecycleNext, Return, EnterStop,
       VEs
<1>4. Alone(t) /\ LocatedAt(t)'
    BY <1>1, ExprAssumption, Parts, RowsCount DEF ThreadsOK, Alone, LocatedAt, RecycleNext,
       Return, EnterStop, VEs
<1>. QED
    BY <1>2, <1>3, <1>4, LocatedStep, Parts

LEMMA RecycleDoneType ==
    ASSUME TypeInv, NEW t \in Threads,
           RecycleDone(t), UNCHANGED hostedVars, UNCHANGED alaudaVars
    PROVE  TypeInv'
<1>1. NumVE \in Nat
    BY StepSets, ExprAssumption DEF Located, LocatedAt, RecycleDone
<1>2. TablesOK' /\ ContainersStay
    BY <1>1, UpdateRow, Parts DEF RecycleDone, TablesOK, HostedTypeOK,
       AlaudaTypeOK
<1>3. ThreadsOK'
    BY <1>1, Parts DEF ThreadsOK, RecycleDone, Return, Requests, NoReq
<1>4. Alone(t) /\ LocatedAt(t)'
    BY <1>1, Parts DEF ThreadsOK, Alone, LocatedAt, RecycleDone, Return,
       Requests, NoReq
<1>. QED
    BY <1>2, <1>3, <1>4, LocatedStep, Parts

LEMMA HostedVEStoppedType ==
    ASSUME TypeInv, NEW t \in Threads,
           HostedVEStopped(t), UNCHANGED alaudaVars
    PROVE  TypeInv'
<1>1. cur[t] \in Exprs /\ ve[t] \in VEs /\ NumVE \in Nat
         /\ container[cur[t]][ve[t]] \in Hosts
    BY StepSets, ExprAssumption DEF Located, LocatedAt, HostedVEStopped
<1>2. TablesOK' /\ ContainersStay
  <2>1. StoppedStatus(t) \in EStatus \cap VEStatus
    BY DEF StoppedStatus, EStatus, VEStatus
  <2>2. veStatus' \in [Exprs -> [VEs -> VEStatus]]
    BY <1>1, <2>1, UpdateRow, Parts DEF TablesOK, HostedVEStopped
  <2>3. status' \in [Exprs -> EStatus]
    BY <1>1, <2>1, Parts DEF TablesOK, HostedVEStopped
  <2>. QED
    BY <2>2, <2>3, Parts DEF HostedVEStopped, TablesOK, HostedTypeOK,
       AlaudaTypeOK
<1>3. CASE Return(t)
    BY <1>1, <1>2, <1>3, ReturnStep, Parts
<1>4. CASE ve[t] < last[t] /\ ~Return(t)
  <2>1. ThreadsOK'
    BY <1>1, <1>4, Parts DEF ThreadsOK, HostedVEStopped, VEs
  <2>2. Alone(t) /\ LocatedAt(t)'
    BY <1>1, <1>4, Parts DEF ThreadsOK, Alone, LocatedAt, HostedVEStopped,
       VEs
  <2>. QED
    BY <1>2, <2>1, <2>2, LocatedStep, Parts
<1>. QED
    BY <1>3, <1>4 DEF HostedVEStopped

LEMMA CheckContainersType ==
    ASSUME TypeInv, NEW t \in Threads,
           CheckContainers(t), UNCHANGED alaudaVars
    PROVE  TypeInv'
<1>1. cur[t] \in Exprs /\ NumVE \in Nat
    BY StepSets, ExprAssumption DEF Located, LocatedAt, CheckContainers
<1>2. TablesOK' /\ ContainersStay
    BY <1>1, UpdateRow, Parts DEF CheckContainers, TablesOK, HostedTypeOK,
       AlaudaTypeOK
<1>3. CASE Return(t)
    BY <1>1, <1>2, <1>3, ReturnStep, Parts
<1>4. CASE ~Return(t)
  <2>1. PICK i \in VEs :
            /\ ve' = [ve EXCEPT ![t] = i]
            /\ pc' = [pc EXCEPT ![t] = "mark_expr"]
            /\ UNCHANGED <<req, cur, last, todo>>
    BY <1>4 DEF CheckContainers, Rows
  <2>2. ThreadsOK'
    BY <1>1, <2>1, Parts DEF ThreadsOK, VEs
  <2>3. Alone(t) /\ LocatedAt(t)'
    BY <1>1, <2>1, Parts DEF ThreadsOK, Alone, LocatedAt
  <2>. QED
    BY <1>2, <2>2, <2>3, LocatedStep, Parts
<1>. QED
    BY <1>3, <1>4

LEMMA StopServiceType ==
    ASSUME TypeInv, NEW t \in Threads,
           StopService(t), UNCHANGED hostedVars
    PROVE  TypeInv'
<1>1. cur[t] \in Exprs /\ ve[t] \in VEs /\ NumVE \in Nat
    BY StepSets, ExprAssumption DEF Located, LocatedAt, StopService
<1>2. veStatus' \in [Exprs -> [VEs -> VEStatus]]
  <2>1. /\ veStatus \in [Exprs -> [VEs -> VEStatus]]
        /\ StoppedStatus(t) \in VEStatus
    BY Parts DEF TablesOK, StoppedStatus, VEStatus
  <2>2. [j \in VEs |-> IF j < ve[t] THEN StoppedStatus(t)
                                    ELSE veStatus[cur[t]][j]]
            \in [VEs -> VEStatus]
    BY <1>1, <2>1
  <2>. QED
    BY <1>1, <2>1, <2>2 DEF StopService
<1>3. TablesOK' /\ ContainersStay
    BY <1>2, Parts DEF StopService, TablesOK, HostedTypeOK, AlaudaTypeOK
<1>4. CASE ve[t] < last[t] /\ ve' = [ve EXCEPT ![t] = ve[t] + 1]
           /\ UNCHANGED <<pc, req, cur, last, todo>>
  <2>1. ThreadsOK' /\ ve'[t] \in VEs
    BY <1>1, <1>4, Parts DEF ThreadsOK, VEs
  <2>2. pc'[t] = "a_stop"
    BY <1>4 DEF StopService
  <2>3. Alone(t) /\ LocatedAt(t)'
    BY <1>1, <1>4, <2>1, <2>2, Parts DEF ThreadsOK, Alone, LocatedAt
  <2>. QED
    BY <1>3, <2>1, <2>3, LocatedStep, Parts
<1>5. CASE Goto(t, "a_stopped") \/ Goto(t, "rollback")
  <2>1. {"a_stopped", "rollback"} \subseteq ExprSteps \ VESteps
    OBVIOUS
  <2>. QED
    BY <1>1, <1>3, <1>5, <2>1, StepSets, GotoStep, Parts
<1>. QED
    BY <1>4, <1>5 DEF StopService

LEMMA RunJobType ==
    ASSUME TypeInv, NEW t \in Threads, NEW e \in Exprs, NEW i \in VEs,
           RunJob(t, e, i), UNCHANGED hostedVars
    PROVE  TypeInv'
<1>1. NumVE \in Nat
    BY StepSets, ExprAssumption DEF Located, LocatedAt, RunJob
<1>2. TablesOK' /\ ContainersStay
    BY <1>1, UpdateRow, Parts DEF RunJob, TablesOK, HostedTypeOK,
       AlaudaTypeOK
<1>3. ThreadsOK'
    BY <1>1, Parts DEF ThreadsOK, RunJob, Return, Requests, VEs
<1>4. Alone(t) /\ LocatedAt(t)'
    BY <1>1, Parts DEF ThreadsOK, Alone, LocatedAt, RunJob, Return,
       Requests, VEs
<1>. QED
    BY <1>2, <1>3, <1>4, LocatedStep, Parts

HIDE DEF ExprSteps, VESteps, ContainerSteps, Steps, ManagerSteps, HostedSteps,
         AlaudaSteps, exprVars, veVars, hostedVars, alaudaVars, Goto,
         Continue, SetStatus, SetRemote, TypeInv, ContainersStay

----------------------------------------------------------------------------
(* The invariant. *)

LEMMA TypeInit ==
    ASSUME Init
    PROVE  TypeInv
<1>. USE DEF Init, ManagerInit, HostedInit, AlaudaInit
<1>1. ThreadsOK
    BY ExprAssumption DEF ThreadsOK, Requests, NoReq, Steps, ManagerSteps
<1>2. TablesOK
    BY DEF TablesOK, HostedTypeOK, AlaudaTypeOK, EStatus, VEStatus,
           RemoteStates
<1>3. Located
    BY StepSets DEF Located, LocatedAt, ExprSteps
<1>. QED
    BY <1>1, <1>2, <1>3, Parts DEF TypeInv

LEMMA RestartType ==
    ASSUME TypeInv, Restart
    PROVE  TypeInv'
<1>1. ThreadsOK'
    BY ExprAssumption DEF Restart, ThreadsOK, Requests, NoReq, Steps,
           ManagerSteps
<1>2. TablesOK'
  <2>1. TablesOK /\ [e \in Exprs |-> [i \in VEs |-> FALSE]]
                        \in [Exprs -> [VEs -> BOOLEAN]]
    BY Parts DEF TypeInv
  <2>. QED
    BY <2>1 DEF Restart, TablesOK, HostedTypeOK, AlaudaTypeOK, exprVars,
                veVars
<1>3. Located'
    BY StepSets DEF Restart, Located, LocatedAt, ExprSteps
<1>. QED
    BY <1>1, <1>2, <1>3, Parts DEF TypeInv

LEMMA OtherType ==
    ASSUME TypeInv,
           UNCHANGED <<exprVars, veVars, threadVars, hostedVars, alaudaVars>>,
           alauda' \in AlaudaFlags
    PROVE  TypeInv'
<1>1. ThreadsOK' /\ TablesOK'
    BY Parts DEF TypeInv, ThreadsOK, TablesOK, HostedTypeOK, AlaudaTypeOK,
       exprVars, veVars, threadVars, hostedVars, alaudaVars
<1>2. Located'
    BY DEF TypeInv, Located, LocatedAt, threadVars, hostedVars
<1>. QED
    BY <1>1, <1>2, Parts DEF TypeInv

LEMMA TypeStep ==
    ASSUME TypeInv, [Next]_vars
    PROVE  TypeInv'
<1>1. ASSUME NEW t \in Threads, Call(t) PROVE TypeInv'
    BY <1>1, StartExprType, PollExprType, StopExprType, RecycleTickType
       DEF Call
<1>2. ASSUME NEW t \in Threads, ManagerStep(t) PROVE TypeInv'
    BY <1>2, FindPooledType, AssignPooledType, InsertExprType,
       CountPoolType, SetStartingType, StartAzureType, AddVEType,
       SetRunningType, MarkExprType, MarkVEType, RollbackType,
       RollbackVEsType, RecycleNextType, RecycleAssignType, RecycleDoneType
       DEF ManagerStep
<1>3. ASSUME NEW t \in Threads, HostedStep(t) PROVE TypeInv'
    BY <1>3, ReserveHostType, AssignPortsType, LoadHostType,
       CreateContainerType, StartContainerType, IncrementCountType,
       VerifyContainerType, HostedVEUpType, StopContainerType,
       ReleasePortsType, LoadCountType, DecrementCountType,
       HostedVEStoppedType, CheckContainersType
       DEF HostedStep
<1>4. ASSUME NEW t \in Threads, AlaudaStep(t) PROVE TypeInv'
    BY <1>4, SetProviderType, CreateServiceType, QueryServiceType,
       ServiceStartedType, CheckAllRunningType, PromoteExprType,
       ServiceFailedType, RunJobType, StopServiceType, ServicesStoppedType
       DEF AlaudaStep
<1>5. CASE ToggleAlauda /\ UNCHANGED <<hostedVars, alaudaVars>>
    BY <1>5, OtherType DEF ToggleAlauda
<1>6. CASE UNCHANGED vars
    BY <1>6, OtherType, Parts DEF TypeInv, TablesOK, vars, managerVars
<1>. QED
    BY <1>1, <1>2, <1>3, <1>4, <1>5, <1>6, RestartType DEF Next, Work

(* Every variable keeps its type, whatever the threads, the hosts and the  *)
(* cloud do: in particular container_count never becomes negative and a    *)
(* thread that updates it has a container row to find the host by.         *)
THEOREM TypeCorrect == Spec => []TypeOK
<1>1. Init => TypeInv
    BY TypeInit
<1>2. TypeInv /\ [Next]_vars => TypeInv'
    BY TypeStep
<1>3. TypeInv => TypeOK
    BY DEF TypeInv
<1>. QED
    BY <1>1, <1>2, <1>3, PTL DEF Spec

----------------------------------------------------------------------------
(* Starts, container rows and watchers, whatever the Alauda flag does.     *)
(*                                                                         *)
(* A start that builds an experiment has it for itself (LaunchersApart),   *)
(* although stops, polls, jobs and rollbacks may work on it as well.  The  *)
(* virtual environments it has still to build have neither a container row *)
(* nor ports (LaunchBlank), and no job and no thread follows the service   *)
(* of one it has not yet created (LaunchUnwatched).  A step of a thread is *)
(* summed up by what it does to the starts, to the rows and to the         *)
(* watchers (StartsMove, RowsMove, WatchMove): the three ...Keeps lemmas   *)
(* show that such a step keeps the invariant, those after them that every  *)
(* action is such a step.                                                  *)

ServiceSteps == {"a_provider", "a_create"}

(* Thread t is a start that builds experiment cur[t]: a job goes through   *)
(* HandlerSteps too, but builds nothing.                                   *)
Launching(t) ==
    \/ pc[t] \in LaunchSteps \cup ServiceSteps
    \/ pc[t] \in HandlerSteps /\ req[t].op # "job"

(* What start t has not written yet: the rows of these virtual             *)
(* environments, and the services of those.                                *)
Ahead(t) ==
    {j \in VEs : \/ pc[t] \in {"count", "starting"}
                 \/ j > ve[t]
                 \/ j = ve[t] /\ pc[t] = "add_ve"}

Claim(t) ==
    {j \in VEs : \/ pc[t] \in {"count", "starting"}
                 \/ j > ve[t]
                 \/ /\ j = ve[t]
                    /\ pc[t] \notin HandlerSteps \cup {"set_running"}}

JobsKnown == \A e \in Exprs, i \in VEs : job[e][i] => status[e] # "NONE"

LaunchersApart ==
    \A s, t \in Threads :
        Launching(s) /\ Launching(t) /\ cur[s] = cur[t] => s = t

Blank(e, j) ==
    container[e][j] = None /\ j \notin bound[e] /\ provider[e][j] = "DOCKER"

UnusedBlank ==
    \A e \in Exprs : status[e] = "NONE" => \A j \in VEs : Blank(e, j)

LaunchBlank ==
    \A t \in Threads : Launching(t) => \A j \in Ahead(t) : Blank(cur[t], j)

(* The flag was read when the row was added: a start on a hosted branch    *)
(* finds DOCKER there, one on the Alauda branch nothing of a host.         *)
CurrentRow(t) ==
    /\ pc[t] \in {"h_host", "h_ports"} => provider[cur[t]][ve[t]] = "DOCKER"
    /\ pc[t] = "a_provider" =>
            container[cur[t]][ve[t]] = None /\ ve[t] \notin bound[cur[t]]

CurrentRows == \A t \in Threads : CurrentRow(t)

Unwatched(e, j) == ~job[e][j] /\ \A s \in Threads : ~Watches(s, e, j)

LaunchUnwatched ==
    \A t \in Threads :
        Launching(t) => \A j \in Claim(t) : Unwatched(cur[t], j)

Decided == {"RUNNING", "FAILED"}

(* A service about to be queried has no outcome yet. *)
UndecidedAt(t) ==
    pc[t] \in ServiceSteps \cup {"a_query"} =>
        veStatus[cur[t]][ve[t]] \notin Decided

StartsInv == KnownExprs /\ JobsKnown /\ LaunchersApart
RowsInv == UnusedBlank /\ LaunchBlank /\ CurrentRows /\ AlaudaHoldsNoHost
WatchInv ==
    /\ LaunchUnwatched
    /\ \A t \in Threads : UndecidedAt(t)
    /\ OneWatcherPerVE
    /\ DecidedNotQueried

(* Thread t takes a step: the others, and the calls they serve, stay.      *)
OthersWait(t) == Alone(t) /\ \A s \in Threads \ {t} : req'[s] = req[s]

(* No row of the experiment table goes away; a start goes on with what it  *)
(* has left, or begins with an unused row.                                 *)
StartsMove(t) ==
    /\ \A e \in Exprs : status'[e] = "NONE" => status[e] = "NONE"
    /\ \A e \in todo' : status'[e] # "NONE"
    /\ cur'[t] \in Exprs => status'[cur'[t]] # "NONE"
    /\ Launching(t)' =>
          /\ cur'[t] \in Exprs
          /\ \/ status[cur'[t]] = "NONE"
             \/ /\ Launching(t) /\ cur'[t] = cur[t]
                /\ Ahead(t)' \subseteq Ahead(t)
                /\ Claim(t)' \subseteq Claim(t)

(* Only a start writes containers, providers and ports, those of the       *)
(* virtual environment it is at; others may release ports.                 *)
RowsMove(t) ==
    /\ \A e \in Exprs, j \in VEs :
          \/ /\ container'[e][j] = container[e][j]
             /\ provider'[e][j] = provider[e][j]
             /\ j \in bound'[e] => j \in bound[e]
          \/ /\ Launching(t) /\ e = cur[t] /\ j \notin Ahead(t)'
             /\ provider'[e][j] = "ALAUDA" =>
                    container'[e][j] = None /\ j \notin bound'[e]
    /\ CurrentRow(t)'

(* A job is left behind by the thread that watched; a thread watches what  *)
(* it has just created, or takes over from a job.                          *)
WatchMove(t) ==
    /\ \A e \in Exprs, j \in VEs :
          job'[e][j] => \/ job[e][j]
                        \/ /\ pc[t] = "a_query"
                           /\ Watches(t, e, j) /\ ~Watches(t, e, j)'
    /\ \A e \in Exprs, j \in VEs :
          Watches(t, e, j)' =>
              \/ Watches(t, e, j)
              \/ job[e][j] /\ ~job'[e][j]
              \/ /\ Launching(t) /\ e = cur[t]
                 /\ j \in Claim(t) /\ j \notin Claim(t)'
    /\ \A e \in Exprs, j \in VEs :
          veStatus'[e][j] \in Decided =>
              \/ veStatus'[e][j] = veStatus[e][j]
              \/ Watches(t, e, j) /\ ~job'[e][j]
              \/ Launching(t) /\ e = cur[t] /\ j \in Claim(t)
    /\ UndecidedAt(t)'

StepMove(t) ==
    OthersWait(t) /\ StartsMove(t) /\ RowsMove(t) /\ WatchMove(t)

StepInv == TypeInv /\ StartsInv /\ RowsInv /\ WatchInv

(* Where a start is, it holds an experiment; likewise a thread that        *)
(* watches, and both hold a virtual environment of it.                     *)
LEMMA HoldsExpr ==
    ASSUME TypeInv, NEW t \in Threads
    PROVE  /\ Launching(t) => cur[t] \in Exprs
           /\ pc[t] \in HandlerSteps \cup ServiceSteps \cup {"h_host", "h_ports"}
                => cur[t] \in Exprs /\ ve[t] \in VEs
    BY DEF TypeInv, Located, LocatedAt, Launching, LaunchSteps, ServiceSteps,
           HandlerSteps, ExprSteps, VESteps, Steps, ManagerSteps,
           HostedSteps, AlaudaSteps

LEMMA SameThread ==
    ASSUME NEW t, NEW s \in Threads \ {t}, OthersWait(t)
    PROVE  /\ pc'[s] = pc[s] /\ cur'[s] = cur[s] /\ ve'[s] = ve[s]
           /\ Launching(s)' <=> Launching(s)
           /\ Ahead(s)' = Ahead(s) /\ Claim(s)' = Claim(s)
           /\ \A e, j : Watches(s, e, j)' <=> Watches(s, e, j)
    BY DEF OthersWait, Alone, Launching, Ahead, Claim, Watches

LEMMA StartsKeeps ==
    ASSUME StepInv, NEW t \in Threads, StepMove(t)
    PROVE  StartsInv'
<1>. USE DEF StepInv, StartsInv, StepMove
<1>1. KnownExprs'
  <2>1. ASSUME NEW s \in Threads, cur'[s] \in Exprs
        PROVE  status'[cur'[s]] # "NONE"
    BY <2>1, SameThread DEF KnownExprs, StartsMove
  <2>. QED
    BY <2>1 DEF KnownExprs, StartsMove
<1>2. JobsKnown'
  <2>. SUFFICES ASSUME NEW e \in Exprs, NEW i \in VEs, job'[e][i]
                PROVE  status[e] # "NONE"
    BY DEF JobsKnown, StartsMove
  <2>. QED
    BY DEF JobsKnown, WatchMove, Watches, KnownExprs
<1>3. LaunchersApart'
  <2>. SUFFICES ASSUME NEW s \in Threads, NEW r \in Threads, s # r,
                       Launching(s)', Launching(r)', cur'[s] = cur'[r]
                PROVE  FALSE
    BY DEF LaunchersApart
  <2>1. s # t /\ r # t => FALSE
    BY SameThread DEF LaunchersApart
  <2>2. ASSUME NEW q \in Threads, q # t, Launching(q)', Launching(t)',
               cur'[q] = cur'[t]
        PROVE  FALSE
    <3>1. Launching(q) /\ cur[q] = cur'[t] /\ status[cur[q]] # "NONE"
      BY <2>2, SameThread, HoldsExpr DEF KnownExprs
    <3>. QED
      BY <2>2, <3>1 DEF StartsMove, LaunchersApart
  <2>. QED
    BY <2>1, <2>2
<1>. QED
    BY <1>1, <1>2, <1>3

LEMMA RowsKeeps ==
    ASSUME StepInv, NEW t \in Threads, StepMove(t)
    PROVE  RowsInv'
<1>. USE DEF StepInv, RowsInv, StepMove
<1>1. ASSUME NEW s \in Threads \ {t}, Launching(s), NEW j \in VEs
      PROVE  /\ container'[cur[s]][j] = container[cur[s]][j]
             /\ provider'[cur[s]][j] = provider[cur[s]][j]
             /\ j \in bound'[cur[s]] => j \in bound[cur[s]]
    BY HoldsExpr, <1>1 DEF RowsMove, StartsInv, LaunchersApart
<1>2. UnusedBlank'
    BY DEF UnusedBlank, Blank, StartsMove, RowsMove, StartsInv, KnownExprs
<1>3. LaunchBlank'
  <2>. SUFFICES ASSUME NEW s \in Threads, Launching(s)', NEW j \in Ahead(s)'
                PROVE  Blank(cur[s], j)'
    BY DEF LaunchBlank
  <2>1. j \in VEs
    BY DEF Ahead
  <2>2. CASE s # t
    <3>1. /\ Launching(s) /\ cur'[s] = cur[s] /\ j \in Ahead(s)
      BY <2>2, SameThread
    <3>. QED
      BY <1>1, <2>1, <2>2, <3>1 DEF LaunchBlank, Blank
  <2>3. CASE s = t
    <3>1. cur'[t] \in Exprs /\ Blank(cur'[t], j)
      BY <2>1, <2>3 DEF StartsMove, LaunchBlank, UnusedBlank
    <3>. QED
      BY <2>1, <2>3, <3>1 DEF Blank, RowsMove
  <2>. QED
    BY <2>2, <2>3
<1>4. CurrentRows'
  <2>. SUFFICES ASSUME NEW s \in Threads, s # t
                PROVE  CurrentRow(s)'
    BY DEF CurrentRows, RowsMove
  <2>1. pc'[s] = pc[s] /\ cur'[s] = cur[s] /\ ve'[s] = ve[s]
    BY SameThread
  <2>2. pc[s] \in {"h_host", "h_ports", "a_provider"}
            => Launching(s) /\ ve[s] \in VEs
    BY HoldsExpr DEF Launching, LaunchSteps, ServiceSteps
  <2>. QED
    BY <1>1, <2>1, <2>2 DEF CurrentRow, CurrentRows
<1>5. AlaudaHoldsNoHost'
    BY DEF AlaudaHoldsNoHost, RowsMove
<1>. QED
    BY <1>2, <1>3, <1>4, <1>5

LEMMA WatchKeeps ==
    ASSUME StepInv, NEW t \in Threads, StepMove(t)
    PROVE  WatchInv'
<1>. USE DEF StepInv, WatchInv, StepMove
(* Of what a start claims, t can neither watch nor leave behind anything.  *)
<1>1. ASSUME NEW e \in Exprs, NEW j \in VEs, Unwatched(e, j),
             ~(Launching(t) /\ e = cur[t])
      PROVE  Unwatched(e, j)'
    BY <1>1, SameThread DEF Unwatched, WatchMove
<1>2. LaunchUnwatched'
  <2>. SUFFICES ASSUME NEW s \in Threads, Launching(s)', NEW j \in Claim(s)'
                PROVE  Unwatched(cur[s], j)'
    BY DEF LaunchUnwatched
  <2>1. j \in VEs
    BY DEF Claim
  <2>2. CASE s # t
    <3>1. /\ Launching(s) /\ cur'[s] = cur[s] /\ j \in Claim(s)
          /\ cur[s] \in Exprs
      BY <2>2, SameThread, HoldsExpr
    <3>2. Unwatched(cur[s], j) /\ ~(Launching(t) /\ cur[s] = cur[t])
      BY <2>2, <3>1 DEF LaunchUnwatched, StartsInv, LaunchersApart
    <3>. QED
      BY <1>1, <2>1, <3>1, <3>2
  <2>3. CASE s = t
    <3>1. cur'[t] \in Exprs /\ Unwatched(cur'[t], j)
      <4>1. CASE status[cur'[t]] = "NONE"
        BY <2>1, <2>3, <4>1 DEF StartsMove, Unwatched, StartsInv, JobsKnown,
           KnownExprs, Watches
      <4>2. CASE Launching(t) /\ cur'[t] = cur[t]
                 /\ Claim(t)' \subseteq Claim(t)
        BY <2>3, <4>2 DEF StartsMove, LaunchUnwatched
      <4>. QED
        BY <2>3, <4>1, <4>2 DEF StartsMove
    <3>2. \A r \in Threads : ~Watches(r, cur[t], j)'
      BY <2>1, <2>3, <3>1, SameThread DEF Unwatched, WatchMove
    <3>3. ~job'[cur'[t]][j]
      BY <2>1, <3>1 DEF Unwatched, WatchMove
    <3>. QED
      BY <2>3, <3>2, <3>3 DEF Unwatched
  <2>. QED
    BY <2>2, <2>3
<1>3. ASSUME NEW s \in Threads, s # t PROVE UndecidedAt(s)'
  <2>. SUFFICES ASSUME pc[s] \in ServiceSteps \cup {"a_query"}
                PROVE  veStatus'[cur[s]][ve[s]] \notin Decided
    BY <1>3, SameThread DEF UndecidedAt
  <2>. DEFINE e == cur[s]
              j == ve[s]
  <2>1. e \in Exprs /\ j \in VEs /\ veStatus[e][j] \notin Decided
    BY HoldsExpr DEF HandlerSteps, UndecidedAt
  <2>2. CASE pc[s] = "a_query"
    <3>1. Watches(s, e, j)
      BY <2>2 DEF Watches, HandlerSteps
    <3>2. ~Watches(t, e, j)
      BY <1>3, <2>1, <3>1 DEF OneWatcherPerVE
    <3>3. ~(Launching(t) /\ e = cur[t] /\ j \in Claim(t))
      BY <3>1 DEF LaunchUnwatched, Unwatched
    <3>. QED
      BY <2>1, <3>2, <3>3 DEF WatchMove
  <2>3. CASE pc[s] \in ServiceSteps
    <3>1. Launching(s) /\ j \in Claim(s)
      BY <2>1, <2>3 DEF Launching, Claim, ServiceSteps, HandlerSteps
    <3>2. ~Watches(t, e, j) /\ ~(Launching(t) /\ e = cur[t])
      BY <1>3, <3>1 DEF LaunchUnwatched, Unwatched, StartsInv,
                        LaunchersApart
    <3>. QED
      BY <2>1, <3>2 DEF WatchMove
  <2>. QED
    BY <2>2, <2>3
<1>4. OneWatcherPerVE'
  <2>1. ASSUME NEW e \in Exprs, NEW i \in VEs, job'[e][i],
               NEW s \in Threads, Watches(s, e, i)'
        PROVE  FALSE
    BY <2>1, SameThread DEF OneWatcherPerVE, WatchMove, LaunchUnwatched,
                            Unwatched
  <2>2. ASSUME NEW e \in Exprs, NEW i \in VEs, NEW s \in Threads, s # t,
               Watches(s, e, i)', Watches(t, e, i)'
        PROVE  FALSE
    BY <2>2, SameThread DEF OneWatcherPerVE, WatchMove, LaunchUnwatched,
                            Unwatched
  <2>3. ASSUME NEW e \in Exprs, NEW i \in VEs, NEW s \in Threads,
               NEW r \in Threads, s # t, r # t,
               Watches(s, e, i)', Watches(r, e, i)'
        PROVE  s = r
    BY <2>3, SameThread DEF OneWatcherPerVE
  <2>. QED
    BY <2>1, <2>2, <2>3 DEF OneWatcherPerVE
<1>5. DecidedNotQueried'
  <2>. SUFFICES ASSUME NEW e \in Exprs, NEW i \in VEs, job'[e][i],
                       veStatus'[e][i] \in Decided
                PROVE  FALSE
    BY DEF DecidedNotQueried, Decided
  <2>1. CASE job[e][i]
    BY <2>1 DEF DecidedNotQueried, Decided, WatchMove, OneWatcherPerVE,
                LaunchUnwatched, Unwatched
  <2>2. CASE ~job[e][i]
    <3>1. pc[t] = "a_query" /\ Watches(t, e, i)
      BY <2>2 DEF WatchMove
    <3>2. veStatus[e][i] \notin Decided
      BY <3>1 DEF UndecidedAt, Watches
    <3>. QED
      BY <3>1, <3>2 DEF WatchMove, LaunchUnwatched, Unwatched
  <2>. QED
    BY <2>1, <2>2
<1>. QED
    BY <1>2, <1>3, <1>4, <1>5 DEF WatchMove

LEMMA StepKeeps ==
    ASSUME StepInv, NEW t \in Threads, StepMove(t), TypeInv'
    PROVE  StepInv'
    BY StartsKeeps, RowsKeeps, WatchKeeps DEF StepInv

(* A step that neither builds nor watches: at most it writes a status or   *)
(* releases ports, and turns to an experiment that is there.               *)
Quiet(t) ==
    /\ OthersWait(t)
    /\ pc'[t] \notin LaunchSteps \cup ServiceSteps \cup HandlerSteps
    /\ UNCHANGED <<container, provider, job>>
    /\ \A e \in Exprs : bound'[e] \subseteq bound[e]
    /\ \A e \in Exprs : status'[e] = "NONE" => status[e] = "NONE"
    /\ \A e \in Exprs, j \in VEs :
          veStatus'[e][j] \in Decided => veStatus'[e][j] = veStatus[e][j]
    /\ cur'[t] \in Exprs => status[cur'[t]] # "NONE"
    /\ todo' \subseteq {e \in Exprs : status[e] # "NONE"}

LEMMA QuietMove ==
    ASSUME StepInv, NEW t \in Threads, Quiet(t)
    PROVE  StepMove(t)
<1>1. ~Launching(t)' /\ \A e, j : ~Watches(t, e, j)'
    BY DEF Quiet, Launching, Watches
<1>2. StartsMove(t)
    BY <1>1 DEF Quiet, StartsMove
<1>3. RowsMove(t)
    BY DEF Quiet, RowsMove, CurrentRow, LaunchSteps, ServiceSteps
<1>4. WatchMove(t)
    BY <1>1 DEF Quiet, WatchMove, UndecidedAt, HandlerSteps
<1>. QED
    BY <1>2, <1>3, <1>4 DEF StepMove, Quiet

(* What the tables and the threads of a state look like, in one place.     *)
LEMMA StateFacts ==
    ASSUME StepInv
    PROVE  /\ ThreadsOK /\ TablesOK
           /\ \A e \in todo : e \in Exprs /\ status[e] # "NONE"
           /\ \A t \in Threads : cur[t] \in Exprs => status[cur[t]] # "NONE"
           /\ NumVE \in Nat /\ None \notin Exprs
    BY Parts, ExprAssumption DEF StepInv, TypeInv, StartsInv, KnownExprs,
                                 ThreadsOK

USE DEF exprVars, veVars, hostedVars, alaudaVars, Goto, Continue, SetStatus,
        SetRemote

LEMMA CallQuiet ==
    ASSUME StepInv, NEW t \in Threads, Call(t)
    PROVE  Quiet(t)
<1>. USE StateFacts DEF Quiet, OthersWait, Alone, ThreadsOK, LaunchSteps,
         ServiceSteps, HandlerSteps
<1>1. CASE \E u \in Users, p \in Templates : StartExpr(t, u, p)
    BY <1>1 DEF Call, StartExpr, LiveOf, Live
<1>2. CASE \E e \in Exprs : PollExpr(t, e)
    BY <1>2 DEF Call, PollExpr
<1>3. CASE \E e \in Exprs, op \in {"stop", "delete"} : StopExpr(t, e, op)
    BY <1>3 DEF Call, StopExpr, EnterStop
<1>4. CASE RecycleTick(t)
    BY <1>4 DEF Call, RecycleTick
<1>. QED
    BY <1>1, <1>2, <1>3, <1>4 DEF Call

LEMMA ManagerQuiet ==
    ASSUME StepInv, NEW t \in Threads, UNCHANGED <<hostedVars, alaudaVars>>,
           \/ FindPooled(t) \/ AssignPooled(t) \/ StartAzure(t)
           \/ SetRunning(t) \/ MarkExpr(t) \/ MarkVE(t) \/ Rollback(t)
           \/ RollbackVEs(t) \/ RecycleNext(t) \/ RecycleAssign(t)
           \/ RecycleDone(t)
    PROVE  Quiet(t)
<1>. USE StateFacts DEF Quiet, OthersWait, Alone, ThreadsOK, LaunchSteps,
         ServiceSteps, HandlerSteps, Decided
<1>1. CASE FindPooled(t)
    BY <1>1 DEF FindPooled, Pooled
<1>2. CASE AssignPooled(t)
    BY <1>2 DEF AssignPooled
<1>3. CASE StartAzure(t)
    BY <1>3 DEF StartAzure, Return
<1>4. CASE SetRunning(t)
    BY <1>4 DEF SetRunning, TablesOK
<1>5. CASE MarkExpr(t)
    BY <1>5 DEF MarkExpr, TablesOK
<1>6. CASE MarkVE(t)
    BY <1>6 DEF MarkVE, Return, TablesOK
<1>7. CASE Rollback(t)
    BY <1>7 DEF Rollback, TablesOK
<1>8. CASE RollbackVEs(t)
    BY <1>8 DEF RollbackVEs, Return, TablesOK
<1>9. CASE RecycleNext(t)
    BY <1>9 DEF RecycleNext, EnterStop
<1>10. CASE RecycleAssign(t)
    BY <1>10 DEF RecycleAssign, Return
<1>11. CASE RecycleDone(t)
    BY <1>11 DEF RecycleDone
<1>. QED
    BY <1>1, <1>2, <1>3, <1>4, <1>5, <1>6, <1>7, <1>8, <1>9, <1>10, <1>11

LEMMA HostedQuiet ==
    ASSUME StepInv, NEW t \in Threads, UNCHANGED alaudaVars,
           \/ StopContainer(t) \/ ReleasePorts(t) \/ LoadCount(t)
           \/ DecrementCount(t) \/ HostedVEStopped(t) \/ CheckContainers(t)
    PROVE  Quiet(t)
<1>. USE StateFacts DEF Quiet, OthersWait, Alone, ThreadsOK, LaunchSteps,
         ServiceSteps, HandlerSteps, Decided
<1>1. CASE StopContainer(t)
    BY <1>1 DEF StopContainer
<1>2. CASE ReleasePorts(t)
    BY <1>2 DEF ReleasePorts, TablesOK, HostedTypeOK
<1>3. CASE LoadCount(t)
    BY <1>3 DEF LoadCount
<1>4. CASE DecrementCount(t)
    BY <1>4 DEF DecrementCount
<1>5. CASE HostedVEStopped(t)
    BY <1>5 DEF HostedVEStopped, Return, StoppedStatus, TablesOK
<1>6. CASE CheckContainers(t)
    BY <1>6 DEF CheckContainers, Return
<1>. QED
    BY <1>1, <1>2, <1>3, <1>4, <1>5, <1>6

LEMMA AlaudaQuiet ==
    ASSUME StepInv, NEW t \in Threads, UNCHANGED hostedVars,
           StopService(t) \/ ServicesStopped(t)
    PROVE  Quiet(t)
<1>. USE StateFacts DEF Quiet, OthersWait, Alone, ThreadsOK, LaunchSteps,
         ServiceSteps, HandlerSteps, Decided
<1>1. CASE StopService(t)
  <2>1. UNCHANGED <<container, provider, job, status, bound, todo>>
        /\ OthersWait(t) /\ cur' = cur
        /\ pc'[t] \in {"a_stop", "a_stopped", "rollback"}
    BY <1>1 DEF StopService
  <2>2. \A e \in Exprs, j \in VEs :
            veStatus'[e][j] \in {veStatus[e][j], StoppedStatus(t)}
    BY <1>1 DEF StopService, TablesOK
  <2>. QED
    BY <2>1, <2>2 DEF StoppedStatus
<1>2. CASE ServicesStopped(t)
    BY <1>2 DEF ServicesStopped, Return, StoppedStatus, TablesOK
<1>. QED
    BY <1>1, <1>2

(* A step of a start, or of a handler, that writes no row of a back end.   *)
Build(t) ==
    /\ OthersWait(t)
    /\ UNCHANGED <<container, bound, provider, job, todo>>
    /\ \A e \in Exprs : status'[e] = "NONE" => status[e] = "NONE"
    /\ cur'[t] \in {cur[t], None}
    /\ pc'[t] \notin {"h_host", "h_ports", "a_query"} \cup ServiceSteps
    /\ pc'[t] \in HandlerSteps =>
          pc[t] \in HandlerSteps /\ cur'[t] = cur[t] /\ ve'[t] = ve[t]
    /\ Launching(t)' => /\ Launching(t) /\ cur'[t] = cur[t]
                        /\ Ahead(t)' \subseteq Ahead(t)
                        /\ Claim(t)' \subseteq Claim(t)
    /\ \A e \in Exprs, j \in VEs :
          veStatus'[e][j] \in Decided =>
              \/ veStatus'[e][j] = veStatus[e][j]
              \/ e = cur[t] /\ j = ve[t] /\ pc[t] \in HandlerSteps \cup {"h_up"}

LEMMA BuildMove ==
    ASSUME StepInv, NEW t \in Threads, Build(t)
    PROVE  StepMove(t)
<1>1. StartsMove(t)
    BY StateFacts, HoldsExpr DEF Build, StartsMove, StepInv
<1>2. RowsMove(t)
    BY DEF Build, RowsMove, CurrentRow, ServiceSteps
<1>3. WatchMove(t)
  <2>1. pc[t] = "h_up" => Launching(t) /\ ve[t] \in Claim(t)
    BY DEF Launching, LaunchSteps, HandlerSteps, Claim, StepInv, TypeInv,
           Located, LocatedAt, VESteps, HostedSteps
  <2>2. \A e \in Exprs, j \in VEs : Watches(t, e, j) => ~job[e][j]
    BY DEF StepInv, WatchInv, OneWatcherPerVE
  <2>. QED
    BY <2>1, <2>2 DEF Build, WatchMove, Watches, UndecidedAt
<1>. QED
    BY <1>1, <1>2, <1>3 DEF StepMove, Build

(* On to the next virtual environment. *)
LEMMA VEStartedAhead ==
    ASSUME StepInv, NEW t \in Threads, VEStarted(t), ve[t] \in VEs,
           pc[t] \in {"h_up"} \cup HandlerSteps
    PROVE  /\ OthersWait(t) /\ cur' = cur /\ req' = req /\ todo' = todo
           /\ pc'[t] \in {"add_ve", "set_running"}
           /\ Ahead(t)' \subseteq Ahead(t) /\ Claim(t)' \subseteq Claim(t)
<1>1. /\ pc'[t] = IF ve[t] < NumVE THEN "add_ve" ELSE "set_running"
      /\ ve'[t] = IF ve[t] < NumVE THEN ve[t] + 1 ELSE ve[t]
      /\ OthersWait(t) /\ cur' = cur /\ req' = req /\ todo' = todo
    BY StateFacts DEF VEStarted, ThreadsOK, OthersWait, Alone
<1>2. NumVE \in Nat /\ ve[t] \in 1..NumVE /\ VEs = 1..NumVE
    BY StateFacts DEF VEs
<1>3. \A j \in VEs : j >= ve[t] + 1 <=> j > ve[t]
    BY <1>2
<1>4. Ahead(t)' \subseteq Ahead(t)
    BY <1>1, <1>2, <1>3 DEF Ahead
<1>5. Claim(t)' \subseteq Claim(t)
    BY <1>1, <1>2, <1>3 DEF Claim, HandlerSteps
<1>. QED
    BY <1>1, <1>4, <1>5

LEMMA HandledMove ==
    ASSUME StepInv, NEW t \in Threads, Handled(t), pc[t] \in HandlerSteps
    PROVE  /\ OthersWait(t) /\ todo' = todo /\ cur'[t] \in {cur[t], None}
           /\ pc'[t] \in {"idle", "recycle", "add_ve", "set_running"}
           /\ Launching(t)' => /\ Launching(t) /\ cur'[t] = cur[t]
                               /\ Ahead(t)' \subseteq Ahead(t)
                               /\ Claim(t)' \subseteq Claim(t)
<1>1. CASE InJob(t)
    BY <1>1, StateFacts DEF Handled, Return, ThreadsOK, OthersWait, Alone,
       Launching, LaunchSteps, ServiceSteps, HandlerSteps
<1>2. CASE ~InJob(t)
  <2>1. ve[t] \in VEs
    BY HoldsExpr DEF StepInv
  <2>. QED
    BY <1>2, <2>1, VEStartedAhead DEF Handled, InJob, Launching
<1>. QED
    BY <1>1, <1>2

LEMMA RaiseMove ==
    ASSUME StepInv, NEW t \in Threads, Raise(t), pc[t] \in HandlerSteps
    PROVE  /\ OthersWait(t) /\ todo' = todo /\ cur'[t] \in {cur[t], None}
           /\ pc'[t] \in {"idle", "recycle", "rollback", "a_failed"}
           /\ pc'[t] = "a_failed" => cur'[t] = cur[t] /\ ve'[t] = ve[t]
           /\ ~Launching(t)'
    BY StateFacts DEF Raise, InJob, Goto, Return, ThreadsOK, OthersWait,
       Alone, Launching, LaunchSteps, ServiceSteps, HandlerSteps

(* A write to one cell of a table leaves the others. *)
LEMMA CellWrite ==
    ASSUME NEW A, NEW B, NEW C, NEW f \in [A -> [B -> C]],
           NEW a \in A, NEW b \in B, NEW c
    PROVE  \A x \in A, y \in B :
               \/ [f EXCEPT ![a][b] = c][x][y] = f[x][y]
               \/ x = a /\ y = b
    OBVIOUS

LEMMA VEStatusWrite ==
    ASSUME StepInv, NEW t \in Threads, NEW s,
           pc[t] \in HandlerSteps \cup {"add_ve", "h_up"},
           veStatus' = [veStatus EXCEPT ![cur[t]][ve[t]] = s]
    PROVE  \A e \in Exprs, j \in VEs :
               veStatus'[e][j] = veStatus[e][j] \/ (e = cur[t] /\ j = ve[t])
<1>1. cur[t] \in Exprs /\ ve[t] \in VEs
    BY DEF StepInv, TypeInv, Located, LocatedAt, HandlerSteps, ExprSteps,
           VESteps, Steps, ManagerSteps, HostedSteps, AlaudaSteps
<1>2. veStatus \in [Exprs -> [VEs -> VEStatus]]
    BY StateFacts DEF TablesOK
<1>. QED
    BY <1>1, <1>2, CellWrite

LEMMA ManagerBuilds ==
    ASSUME StepInv, NEW t \in Threads, UNCHANGED <<hostedVars, alaudaVars>>,
           CountPool(t) \/ SetStarting(t)
    PROVE  Build(t)
<1>. USE StateFacts DEF Build, OthersWait, Alone, ThreadsOK, Launching,
         LaunchSteps, ServiceSteps, HandlerSteps, Ahead, Claim
<1>1. CASE CountPool(t)
    BY <1>1 DEF CountPool, Return
<1>2. CASE SetStarting(t)
    BY <1>2 DEF SetStarting, TablesOK
<1>. QED
    BY <1>1, <1>2

LEMMA HostedBuilds ==
    ASSUME StepInv, NEW t \in Threads, UNCHANGED alaudaVars,
           \/ LoadHost(t) \/ CreateContainer(t) \/ StartContainer(t)
           \/ IncrementCount(t) \/ VerifyContainer(t) \/ HostedVEUp(t)
    PROVE  Build(t)
<1>1. ASSUME LoadHost(t) \/ CreateContainer(t) \/ StartContainer(t)
             \/ IncrementCount(t) \/ VerifyContainer(t)
      PROVE  Build(t)
  <2>1. /\ pc[t] \in {"h_look", "h_create", "h_start", "h_incr", "h_verify"}
        /\ pc'[t] \in {"h_create", "h_start", "h_incr", "h_verify", "h_up",
                       "rollback"}
        /\ OthersWait(t) /\ cur' = cur /\ ve' = ve
        /\ UNCHANGED <<container, bound, provider, job, todo, status, veStatus>>
    BY <1>1, StateFacts DEF LoadHost, CreateContainer, StartContainer,
       IncrementCount, VerifyContainer, ThreadsOK, OthersWait, Alone
  <2>. QED
    BY <2>1 DEF Build, Launching, LaunchSteps, ServiceSteps, HandlerSteps,
                Ahead, Claim
<1>2. CASE HostedVEUp(t)
  <2>1. ve[t] \in VEs /\ pc[t] = "h_up" /\ VEStarted(t)
    BY <1>2 DEF HostedVEUp, StepInv, TypeInv, Located, LocatedAt, VESteps,
                HostedSteps
  <2>2. Launching(t) /\ UNCHANGED <<container, bound, provider, job, status>>
    BY <1>2 DEF HostedVEUp, Launching, LaunchSteps
  <2>3. \A e \in Exprs, j \in VEs :
            veStatus'[e][j] = veStatus[e][j] \/ (e = cur[t] /\ j = ve[t])
    BY <1>2, VEStatusWrite DEF HostedVEUp
  <2>. QED
    BY <2>1, <2>2, <2>3, VEStartedAhead DEF Build, ServiceSteps, HandlerSteps
<1>. QED
    BY <1>1, <1>2

LEMMA AlaudaBuilds ==
    ASSUME StepInv, NEW t \in Threads, UNCHANGED hostedVars,
           \/ ServiceStarted(t) \/ CheckAllRunning(t) \/ PromoteExpr(t)
           \/ ServiceFailed(t)
    PROVE  Build(t)
<1>. USE DEF Build
<1>1. CASE ServiceStarted(t)
  <2>1. /\ UNCHANGED <<container, bound, provider, job, status>>
        /\ pc[t] \in HandlerSteps
        /\ \A e \in Exprs, j \in VEs :
              veStatus'[e][j] = veStatus[e][j] \/ (e = cur[t] /\ j = ve[t])
    <3>1. /\ UNCHANGED <<container, bound, provider, job, status>>
          /\ pc[t] \in HandlerSteps
      BY <1>1 DEF ServiceStarted, HandlerSteps
    <3>. QED
      BY <1>1, <3>1, VEStatusWrite DEF ServiceStarted
  <2>2. CASE Raise(t)
    BY <2>1, <2>2, RaiseMove DEF ServiceSteps, HandlerSteps
  <2>3. CASE Goto(t, "a_promote")
    BY <2>1, <2>3, StateFacts DEF ThreadsOK, OthersWait, Alone, Launching,
       LaunchSteps, ServiceSteps, HandlerSteps, Ahead, Claim
  <2>. QED
    BY <1>1, <2>2, <2>3 DEF ServiceStarted
<1>2. CASE CheckAllRunning(t)
  <2>1. UNCHANGED <<container, bound, provider, job, status, veStatus>>
        /\ pc[t] \in HandlerSteps
    BY <1>2 DEF CheckAllRunning, HandlerSteps
  <2>2. CASE Goto(t, "a_set_running")
    BY <2>1, <2>2, StateFacts DEF ThreadsOK, OthersWait, Alone, Launching,
       LaunchSteps, ServiceSteps, HandlerSteps, Ahead, Claim
  <2>3. CASE Handled(t)
    BY <2>1, <2>3, HandledMove DEF ServiceSteps, HandlerSteps
  <2>. QED
    BY <1>2, <2>2, <2>3 DEF CheckAllRunning
<1>3. CASE PromoteExpr(t)
  <2>1. /\ UNCHANGED <<container, bound, provider, job, veStatus>>
        /\ pc[t] \in HandlerSteps /\ Handled(t)
        /\ \A e \in Exprs : status'[e] = "NONE" => status[e] = "NONE"
    BY <1>3, StateFacts DEF PromoteExpr, TablesOK, HandlerSteps
  <2>. QED
    BY <2>1, HandledMove DEF ServiceSteps, HandlerSteps
<1>4. CASE ServiceFailed(t)
  <2>1. /\ UNCHANGED <<container, bound, provider, job>>
        /\ pc[t] \in HandlerSteps
        /\ \A e \in Exprs, j \in VEs :
              veStatus'[e][j] = veStatus[e][j] \/ (e = cur[t] /\ j = ve[t])
        /\ \A e \in Exprs : status'[e] = "NONE" => status[e] = "NONE"
    <3>1. pc[t] \in HandlerSteps /\ UNCHANGED <<container, bound, provider, job>>
      BY <1>4 DEF ServiceFailed, HandlerSteps
    <3>2. \A e \in Exprs : status'[e] = "NONE" => status[e] = "NONE"
      BY <1>4, StateFacts DEF ServiceFailed, TablesOK
    <3>. QED
      BY <1>4, <3>1, <3>2, VEStatusWrite DEF ServiceFailed
  <2>2. CASE Handled(t)
    BY <2>1, <2>2, HandledMove DEF ServiceSteps, HandlerSteps
  <2>3. CASE Return(t) \/ Goto(t, "rollback")
    BY <2>1, <2>3, StateFacts DEF ThreadsOK, OthersWait, Alone, Return,
       Launching, LaunchSteps, ServiceSteps, HandlerSteps
  <2>. QED
    BY <1>4, <2>2, <2>3 DEF ServiceFailed
<1>. QED
    BY <1>1, <1>2, <1>3, <1>4

(* The steps that write a row, insert an experiment or move a watcher. *)

LEMMA InsertExprMove ==
    ASSUME StepInv, NEW t \in Threads, InsertExpr(t),
           UNCHANGED <<hostedVars, alaudaVars>>
    PROVE  StepMove(t)
<1>1. PICK e \in Exprs : /\ status[e] = "NONE"
                         /\ status' = [status EXCEPT ![e] = "INIT"]
                         /\ cur' = [cur EXCEPT ![t] = e]
    BY DEF InsertExpr
<1>2. /\ OthersWait(t) /\ pc'[t] = "count" /\ cur'[t] = e
      /\ UNCHANGED <<container, bound, provider, job, veStatus, todo>>
    BY <1>1, StateFacts DEF InsertExpr, ThreadsOK, OthersWait, Alone
<1>3. /\ status'[e] = "INIT"
      /\ \A f \in Exprs : f # e => status'[f] = status[f]
    BY <1>1, StateFacts DEF TablesOK
<1>4. StartsMove(t)
    BY <1>1, <1>2, <1>3, StateFacts DEF StartsMove
<1>5. RowsMove(t) /\ WatchMove(t)
    BY <1>2 DEF RowsMove, CurrentRow, WatchMove, Watches, UndecidedAt,
                HandlerSteps, ServiceSteps
<1>. QED
    BY <1>2, <1>4, <1>5 DEF StepMove

LEMMA AddVEMove ==
    ASSUME StepInv, NEW t \in Threads, AddVE(t),
           UNCHANGED <<hostedVars, alaudaVars>>
    PROVE  StepMove(t)
<1>1. /\ pc[t] = "add_ve" /\ cur[t] \in Exprs /\ ve[t] \in VEs
      /\ Launching(t) /\ ve[t] \in Ahead(t) /\ ve[t] \in Claim(t)
    BY DEF AddVE, StepInv, TypeInv, Located, LocatedAt, ExprSteps, VESteps,
           Steps, ManagerSteps, Launching, LaunchSteps, Ahead, Claim,
           HandlerSteps
<1>2. /\ OthersWait(t) /\ pc'[t] \in {"a_provider", "h_host"}
      /\ cur' = cur /\ ve' = ve
      /\ UNCHANGED <<container, bound, job, status, todo>>
    BY StateFacts DEF AddVE, ThreadsOK, OthersWait, Alone
<1>3. /\ Ahead(t)' \subseteq Ahead(t) /\ Claim(t)' \subseteq Claim(t)
      /\ ve[t] \notin Ahead(t)'
    BY <1>1, <1>2, StateFacts DEF Ahead, Claim, HandlerSteps, VEs
<1>4. /\ provider'[cur[t]][ve[t]] = "DOCKER"
      /\ \A e \in Exprs, j \in VEs :
            provider'[e][j] = provider[e][j] \/ (e = cur[t] /\ j = ve[t])
  <2>1. provider \in [Exprs -> [VEs -> {"DOCKER", "ALAUDA"}]]
    BY StateFacts DEF TablesOK
  <2>. QED
    BY <1>1, <2>1, UpdateRow DEF AddVE
<1>5. /\ veStatus'[cur[t]][ve[t]] = "INIT"
      /\ \A e \in Exprs, j \in VEs :
            veStatus'[e][j] = veStatus[e][j] \/ (e = cur[t] /\ j = ve[t])
  <2>1. veStatus \in [Exprs -> [VEs -> VEStatus]] /\ "INIT" \in VEStatus
    BY StateFacts DEF TablesOK, VEStatus
  <2>. QED
    BY <1>1, <2>1, UpdateRow DEF AddVE
<1>6. Blank(cur[t], ve[t])
    BY <1>1 DEF StepInv, RowsInv, LaunchBlank
<1>7. StartsMove(t)
    BY <1>1, <1>2, <1>3, StateFacts DEF StartsMove
<1>8. RowsMove(t)
    BY <1>1, <1>2, <1>3, <1>4, <1>6 DEF RowsMove, CurrentRow, Blank
<1>9. WatchMove(t)
    BY <1>1, <1>2, <1>5 DEF WatchMove, Watches, UndecidedAt, HandlerSteps,
                            Decided
<1>. QED
    BY <1>2, <1>7, <1>8, <1>9 DEF StepMove

(* ReserveHost, AssignPorts and SetProvider write the row of the virtual   *)
(* environment they are at, and go on or roll back.                        *)
LEMMA WriteMove ==
    ASSUME StepInv, NEW t \in Threads, OthersWait(t), cur' = cur, ve' = ve,
           pc[t] \in {"h_host", "h_ports", "a_provider"},
           pc'[t] \in {"h_ports", "h_look", "a_create", "rollback"},
           pc'[t] \in {"a_create"} => pc[t] = "a_provider",
           UNCHANGED <<job, status, veStatus, todo>>,
           \A e \in Exprs, j \in VEs :
               \/ /\ container'[e][j] = container[e][j]
                  /\ provider'[e][j] = provider[e][j]
                  /\ j \in bound'[e] => j \in bound[e]
               \/ e = cur[t] /\ j = ve[t],
           provider'[cur[t]][ve[t]] = "ALAUDA" =>
               container'[cur[t]][ve[t]] = None /\ ve[t] \notin bound'[cur[t]],
           pc'[t] = "h_ports" => provider'[cur[t]][ve[t]] = "DOCKER"
    PROVE  StepMove(t)
<1>1. Launching(t) /\ cur[t] \in Exprs /\ ve[t] \in VEs
    BY HoldsExpr DEF Launching, LaunchSteps, ServiceSteps, StepInv
<1>2. /\ ve[t] \notin Ahead(t)'
      /\ Launching(t)' => /\ Ahead(t)' \subseteq Ahead(t)
                          /\ Claim(t)' \subseteq Claim(t)
    BY <1>1, StateFacts DEF Ahead, Claim, Launching, LaunchSteps,
       ServiceSteps, HandlerSteps, VEs
<1>3. StartsMove(t)
    BY <1>1, <1>2, StateFacts DEF StartsMove
<1>4. RowsMove(t)
    BY <1>1, <1>2 DEF RowsMove, CurrentRow
<1>5. WatchMove(t)
  <2>1. UndecidedAt(t)'
    BY DEF StepInv, WatchInv, UndecidedAt, ServiceSteps
  <2>. QED
    BY <2>1 DEF WatchMove, Watches, HandlerSteps
<1>. QED
    BY <1>3, <1>4, <1>5 DEF StepMove

LEMMA RowWriters ==
    ASSUME StepInv, NEW t \in Threads,
           \/ ReserveHost(t) /\ UNCHANGED alaudaVars
           \/ AssignPorts(t) /\ UNCHANGED alaudaVars
           \/ SetProvider(t) /\ UNCHANGED hostedVars
    PROVE  StepMove(t)
<1>1. /\ container \in [Exprs -> [VEs -> Hosts \cup {None}]]
      /\ bound \in [Exprs -> SUBSET VEs]
      /\ provider \in [Exprs -> [VEs -> {"DOCKER", "ALAUDA"}]]
    BY StateFacts DEF TablesOK, HostedTypeOK
<1>2. pc[t] \in {"h_host", "h_ports", "a_provider"}
    BY DEF ReserveHost, AssignPorts, SetProvider
<1>3. /\ cur[t] \in Exprs /\ ve[t] \in VEs
      /\ CurrentRow(t)
    BY <1>2, HoldsExpr DEF StepInv, RowsInv, CurrentRows, ServiceSteps
<1>4. CASE ReserveHost(t) /\ UNCHANGED alaudaVars
  <2>1. /\ OthersWait(t) /\ cur' = cur /\ ve' = ve
        /\ pc'[t] \in {"h_ports", "rollback"}
        /\ UNCHANGED <<job, status, veStatus, todo, provider, bound>>
    BY <1>4, StateFacts DEF ReserveHost, ThreadsOK, OthersWait, Alone
  <2>2. \A e \in Exprs, j \in VEs :
            container'[e][j] = container[e][j] \/ (e = cur[t] /\ j = ve[t])
    <3>1. PICK h : \/ container' = [container EXCEPT ![cur[t]][ve[t]] = h]
                   \/ container' = container
      BY <1>4 DEF ReserveHost
    <3>. QED
      BY <1>1, <1>3, <3>1, CellWrite
  <2>3. provider[cur[t]][ve[t]] = "DOCKER"
    BY <1>3, <1>4 DEF ReserveHost, CurrentRow
  <2>. QED
    BY <1>2, <2>1, <2>2, <2>3, WriteMove
<1>5. CASE AssignPorts(t) /\ UNCHANGED alaudaVars
  <2>1. /\ OthersWait(t) /\ cur' = cur /\ ve' = ve
        /\ pc'[t] \in {"h_look", "rollback"}
        /\ UNCHANGED <<job, status, veStatus, todo, provider, container>>
    BY <1>5, StateFacts DEF AssignPorts, ThreadsOK, OthersWait, Alone
  <2>2. \A e \in Exprs, j \in VEs :
            j \in bound'[e] => j \in bound[e] \/ (e = cur[t] /\ j = ve[t])
    BY <1>1, <1>3, <1>5 DEF AssignPorts
  <2>3. provider[cur[t]][ve[t]] = "DOCKER"
    BY <1>3, <1>5 DEF AssignPorts, CurrentRow
  <2>. QED
    BY <1>2, <2>1, <2>2, <2>3, WriteMove
<1>6. CASE SetProvider(t) /\ UNCHANGED hostedVars
  <2>1. /\ OthersWait(t) /\ cur' = cur /\ ve' = ve /\ pc[t] = "a_provider"
        /\ pc'[t] = "a_create"
        /\ UNCHANGED <<job, status, veStatus, todo, bound, container>>
    BY <1>6, StateFacts DEF SetProvider, ThreadsOK, OthersWait, Alone
  <2>2. \A e \in Exprs, j \in VEs :
            provider'[e][j] = provider[e][j] \/ (e = cur[t] /\ j = ve[t])
    BY <1>1, <1>3, <1>6, CellWrite DEF SetProvider
  <2>3. container[cur[t]][ve[t]] = None /\ ve[t] \notin bound[cur[t]]
    BY <1>3, <2>1 DEF CurrentRow
  <2>. QED
    BY <1>2, <2>1, <2>2, <2>3, WriteMove
<1>. QED
    BY <1>4, <1>5, <1>6

(* A start that has created a service watches it; nobody else does yet. *)
LEMMA CreateServiceMove ==
    ASSUME StepInv, NEW t \in Threads, CreateService(t), UNCHANGED hostedVars
    PROVE  StepMove(t)
<1>1. /\ pc[t] = "a_create" /\ Launching(t) /\ ve[t] \in Claim(t)
      /\ cur[t] \in Exprs /\ ve[t] \in VEs
    BY HoldsExpr DEF CreateService, Launching, ServiceSteps, Claim,
                     HandlerSteps, StepInv
<1>2. /\ OthersWait(t) /\ cur' = cur /\ ve' = ve /\ req' = req
      /\ pc'[t] \in {"a_query", "rollback"}
      /\ UNCHANGED <<job, status, veStatus, todo, provider, bound, container>>
    BY StateFacts DEF CreateService, ThreadsOK, OthersWait, Alone
<1>3. /\ Ahead(t)' \subseteq Ahead(t)
      /\ Launching(t)' => Claim(t)' \subseteq Claim(t)
      /\ pc'[t] = "a_query" => ve[t] \notin Claim(t)'
    BY <1>1, <1>2, StateFacts DEF Ahead, Claim, HandlerSteps, VEs,
       Launching, LaunchSteps, ServiceSteps
<1>4. StartsMove(t)
    BY <1>1, <1>2, <1>3, StateFacts DEF StartsMove
<1>5. RowsMove(t)
    BY <1>2 DEF RowsMove, CurrentRow
<1>6. WatchMove(t)
  <2>1. UndecidedAt(t)'
    BY <1>1, <1>2 DEF StepInv, WatchInv, UndecidedAt, ServiceSteps
  <2>. QED
    BY <1>1, <1>2, <1>3, <2>1 DEF WatchMove, Watches, HandlerSteps
<1>. QED
    BY <1>2, <1>4, <1>5, <1>6 DEF StepMove

LEMMA QueryServiceMove ==
    ASSUME StepInv, NEW t \in Threads, QueryService(t), UNCHANGED hostedVars
    PROVE  StepMove(t)
<1>1. /\ pc[t] = "a_query" /\ pc[t] \in HandlerSteps
      /\ cur[t] \in Exprs /\ ve[t] \in VEs
    BY HoldsExpr DEF QueryService, HandlerSteps, StepInv
<1>2. CASE Handled(t) /\ job' = [job EXCEPT ![cur[t]][ve[t]] = TRUE]
  <2>1. /\ \A e \in Exprs, j \in VEs :
              job'[e][j] = job[e][j] \/ (e = cur[t] /\ j = ve[t])
        /\ UNCHANGED <<status, veStatus, provider, container, bound>>
    <3>1. job \in [Exprs -> [VEs -> BOOLEAN]]
      BY StateFacts DEF TablesOK, AlaudaTypeOK
    <3>. QED
      BY <1>1, <1>2, <3>1, CellWrite DEF QueryService
  <2>2. StartsMove(t)
    BY <1>1, <1>2, <2>1, HandledMove, StateFacts DEF StartsMove
  <2>3. RowsMove(t)
    BY <1>1, <1>2, <2>1, HandledMove DEF RowsMove, CurrentRow
  <2>4. WatchMove(t)
    BY <1>1, <1>2, <2>1, HandledMove DEF WatchMove, Watches, UndecidedAt,
       HandlerSteps, ServiceSteps
  <2>. QED
    BY <1>1, <1>2, <2>2, <2>3, <2>4, HandledMove DEF StepMove
<1>3. CASE UNCHANGED job /\ (Goto(t, "a_started") \/ Goto(t, "a_failed"))
  <2>1. Build(t)
    BY <1>1, <1>3, StateFacts DEF QueryService, Build, ThreadsOK,
       OthersWait, Alone, Launching, LaunchSteps, ServiceSteps,
       HandlerSteps, Ahead, Claim
  <2>. QED
    BY <2>1, BuildMove
<1>4. CASE UNCHANGED job /\ Raise(t)
  <2>1. Build(t)
    BY <1>1, <1>4, RaiseMove DEF QueryService, Build, ServiceSteps,
       HandlerSteps
  <2>. QED
    BY <2>1, BuildMove
<1>. QED
    BY <1>2, <1>3, <1>4 DEF QueryService

LEMMA RunJobMove ==
    ASSUME StepInv, NEW t \in Threads, NEW e \in Exprs, NEW i \in VEs,
           RunJob(t, e, i), UNCHANGED hostedVars
    PROVE  StepMove(t)
<1>1. /\ OthersWait(t) /\ cur'[t] = e /\ ve'[t] = i /\ job[e][i]
      /\ pc'[t] = "a_query" /\ req'[t].op = "job"
      /\ UNCHANGED <<status, veStatus, todo, provider, bound, container>>
    BY StateFacts DEF RunJob, ThreadsOK, OthersWait, Alone, Requests
<1>2. /\ ~job'[e][i]
      /\ \A f \in Exprs, j \in VEs : job'[f][j] => job[f][j]
  <2>1. job \in [Exprs -> [VEs -> BOOLEAN]]
    BY StateFacts DEF TablesOK, AlaudaTypeOK
  <2>. QED
    BY <2>1, UpdateRow DEF RunJob
<1>3. ~Launching(t)'
    BY <1>1 DEF Launching, LaunchSteps, ServiceSteps
<1>4. StartsMove(t)
    BY <1>1, <1>3, StateFacts DEF StartsMove, StepInv, StartsInv, JobsKnown
<1>5. RowsMove(t)
    BY <1>1 DEF RowsMove, CurrentRow
<1>6. WatchMove(t)
    BY <1>1, <1>2 DEF WatchMove, Watches, UndecidedAt, StepInv, WatchInv,
                      DecidedNotQueried, Decided
<1>. QED
    BY <1>1, <1>4, <1>5, <1>6 DEF StepMove

HIDE DEF exprVars, veVars, hostedVars, alaudaVars, Goto, Continue, SetStatus,
         SetRemote

LEMMA RestartStep ==
    ASSUME StepInv, Restart, TypeInv'
    PROVE  StepInv'
<1>1. /\ \A t \in Threads : pc'[t] = "idle" /\ cur'[t] = None
      /\ UNCHANGED <<status, container, bound, provider, veStatus>>
      /\ todo' = {}
    BY DEF Restart, exprVars, veVars
<1>2. \A e \in Exprs, i \in VEs : job'[e][i] => job[e][i]
    BY DEF Restart
<1>3. \A t \in Threads : ~Launching(t)' /\ \A e, i : ~Watches(t, e, i)'
    BY <1>1 DEF Launching, Watches, LaunchSteps, ServiceSteps, HandlerSteps
<1>4. StartsInv'
    BY <1>1, <1>2, <1>3, ExprAssumption DEF StepInv, StartsInv, KnownExprs,
       JobsKnown, LaunchersApart
<1>5. RowsInv'
    BY <1>1, <1>3 DEF StepInv, RowsInv, UnusedBlank, Blank, LaunchBlank,
       CurrentRows, CurrentRow, AlaudaHoldsNoHost
<1>6. WatchInv'
    BY <1>1, <1>2, <1>3 DEF StepInv, WatchInv, LaunchUnwatched, UndecidedAt,
       ServiceSteps, OneWatcherPerVE, DecidedNotQueried
<1>. QED
    BY <1>4, <1>5, <1>6 DEF StepInv

LEMMA OtherStep ==
    ASSUME StepInv, TypeInv',
           UNCHANGED <<exprVars, veVars, threadVars, hostedVars, alaudaVars>>
    PROVE  StepInv'
<1>. USE DEF exprVars, veVars, threadVars, hostedVars, alaudaVars
<1>1. StartsInv'
    BY DEF StepInv, StartsInv, KnownExprs, JobsKnown, LaunchersApart,
           Launching
<1>2. RowsInv'
    BY DEF StepInv, RowsInv, UnusedBlank, Blank, LaunchBlank, CurrentRows,
           CurrentRow, AlaudaHoldsNoHost, Launching, Ahead
<1>3. WatchInv'
    BY DEF StepInv, WatchInv, LaunchUnwatched, Unwatched, UndecidedAt,
           OneWatcherPerVE, DecidedNotQueried, Watches, Launching, Claim
<1>. QED
    BY <1>1, <1>2, <1>3 DEF StepInv

(* Every action of a thread is a step as summed up above.                  *)
LEMMA ThreadStepMove ==
    ASSUME StepInv, NEW t \in Threads, Call(t) \/ Work(t)
    PROVE  StepMove(t)
<1>1. CASE Call(t)
    BY <1>1, CallQuiet, QuietMove
<1>2. CASE ManagerStep(t)
    BY <1>2, ManagerQuiet, QuietMove, ManagerBuilds, BuildMove,
       InsertExprMove, AddVEMove DEF ManagerStep
<1>3. CASE HostedStep(t)
    BY <1>3, HostedQuiet, QuietMove, HostedBuilds, BuildMove, RowWriters
       DEF HostedStep
<1>4. CASE AlaudaStep(t)
    BY <1>4, AlaudaQuiet, QuietMove, AlaudaBuilds, BuildMove, RowWriters,
       CreateServiceMove, QueryServiceMove, RunJobMove DEF AlaudaStep
<1>. QED
    BY <1>1, <1>2, <1>3, <1>4 DEF Work

LEMMA InitStep ==
    ASSUME Init
    PROVE  StepInv
<1>. USE ExprAssumption DEF Init, ManagerInit, HostedInit, AlaudaInit
<1>1. \A t \in Threads : ~Launching(t) /\ \A e, i : ~Watches(t, e, i)
    BY DEF Launching, Watches, LaunchSteps, ServiceSteps, HandlerSteps
<1>2. StartsInv
    BY <1>1 DEF StartsInv, KnownExprs, JobsKnown, LaunchersApart
<1>3. RowsInv
    BY <1>1 DEF RowsInv, UnusedBlank, Blank, LaunchBlank, CurrentRows,
                CurrentRow, AlaudaHoldsNoHost
<1>4. WatchInv
    BY <1>1 DEF WatchInv, LaunchUnwatched, UndecidedAt, ServiceSteps,
                OneWatcherPerVE, DecidedNotQueried
<1>. QED
    BY <1>2, <1>3, <1>4, TypeInit DEF StepInv

LEMMA NextStep ==
    ASSUME StepInv, [Next]_vars
    PROVE  StepInv'
<1>1. TypeInv'
    BY TypeStep DEF StepInv
<1>2. ASSUME NEW t \in Threads, Call(t) \/ Work(t) PROVE StepInv'
    BY <1>1, <1>2, ThreadStepMove, StepKeeps
<1>3. CASE ToggleAlauda /\ UNCHANGED <<hostedVars, alaudaVars>>
    BY <1>1, <1>3, OtherStep DEF ToggleAlauda
<1>4. CASE UNCHANGED vars
    BY <1>1, <1>4, OtherStep DEF vars, managerVars
<1>. QED
    BY <1>1, <1>2, <1>3, <1>4, RestartStep DEF Next

LEMMA StepAlways == Spec => []StepInv
    BY InitStep, NextStep, PTL DEF Spec

(* Whatever the flag does between its start and its stop, a virtual        *)
(* environment that became an Alauda service has neither a container row   *)
(* nor ports on the hackathon's hosts: __remote_start_container reads the  *)
(* flag once per virtual environment, and nobody else builds its row.      *)
THEOREM AlaudaOffHosts == Spec => []AlaudaHoldsNoHost
<1>1. StepInv => AlaudaHoldsNoHost
    BY DEF StepInv, RowsInv
<1>. QED
    BY <1>1, StepAlways, PTL

(* A service is followed by one job or one thread at a time, with any      *)
(* number of starts, jobs, stops and rollbacks, and through crashes.       *)
THEOREM ServiceWatchedOnce == Spec => []OneWatcherPerVE
<1>1. StepInv => OneWatcherPerVE
    BY DEF StepInv, WatchInv
<1>. QED
    BY <1>1, StepAlways, PTL

(* No job is left to query a service whose outcome is recorded.            *)
THEOREM NoJobOnceDecided == Spec => []DecidedNotQueried
<1>1. StepInv => DecidedNotQueried
    BY DEF StepInv, WatchInv
<1>. QED
    BY <1>1, StepAlways, PTL

----------------------------------------------------------------------------
(* The pool: what the recycle job hands to the default user has started.   *)
(*                                                                         *)
(* An experiment gets INIT with its row and STARTING from the start that   *)
(* inserted it, and that start, until then, has kept it from being RUNNING *)
(* and so from the recycle job's list.                                     *)

NotStarted == {"INIT", "STARTING"}

(* A start that has yet to write STARTING. *)
Early(t) == pc[t] \in {"count", "starting"}

RecycledStarted ==
    /\ \A e \in todo : status[e] \notin NotStarted
    /\ \A t \in Threads :
          pc[t] = "recycle_assign" => status[cur[t]] \notin NotStarted

(* No recycle job holds the experiment of an early start, and it is not    *)
(* the default user's.                                                     *)
EarlyIsOwn ==
    \A t \in Threads : Early(t) =>
        /\ status[cur[t]] # "RUNNING"
        /\ owner[cur[t]] # DefaultUser
        /\ cur[t] \notin todo
        /\ \A s \in Threads : pc[s] = "recycle_assign" => cur[s] # cur[t]

PoolInv == RecycledStarted /\ EarlyIsOwn /\ PoolHoldsNoStarting

(* What a step of thread t may do to statuses, to owners, to the recycle   *)
(* job and to early starts.                                                *)
PoolMove(t) ==
    /\ \A e \in Exprs : status'[e] # status[e] =>
          /\ status'[e] = "INIT" =>
                status[e] = "NONE" /\ owner'[e] # DefaultUser
          /\ status'[e] = "STARTING" => Early(t) /\ e = cur[t]
          /\ status'[e] = "RUNNING" =>
                \/ Launching(t) /\ ~Early(t) /\ e = cur[t]
                \/ \E j \in VEs : Watches(t, e, j)
    /\ \A e \in Exprs :
          owner'[e] = DefaultUser =>
              \/ owner[e] = DefaultUser
              \/ /\ pc[t] = "recycle_assign" /\ e = cur[t]
                 /\ status'[e] = status[e]
    /\ todo' \subseteq todo \cup {e \in Exprs : status[e] = "RUNNING"}
    /\ pc'[t] = "recycle_assign" => cur'[t] \in todo
    /\ Early(t)' =>
          \/ Early(t) /\ cur'[t] = cur[t]
          \/ /\ status[cur'[t]] = "NONE" /\ status'[cur'[t]] = "INIT"
             /\ owner'[cur'[t]] # DefaultUser

LEMMA PoolKeeps ==
    ASSUME StepInv, PoolInv, NEW t \in Threads, OthersWait(t), PoolMove(t),
           StepInv'
    PROVE  PoolInv'
<1>. USE StateFacts DEF PoolInv, NotStarted
<1>1. \A s \in Threads : s # t =>
         /\ pc'[s] = pc[s] /\ cur'[s] = cur[s] /\ Early(s)' = Early(s)
    BY SameThread DEF Early
<1>2. \A s \in Threads : Early(s) => Launching(s) /\ cur[s] \in Exprs
    BY HoldsExpr DEF StepInv, Early, Launching, LaunchSteps
<1>3. \A s \in Threads : pc[s] = "recycle_assign" => cur[s] \in Exprs
    BY DEF StepInv, TypeInv, Located, LocatedAt, ExprSteps, Steps,
           ManagerSteps
(* A row listed or held for the recycle job is not set back. *)
<1>4. ASSUME NEW e \in Exprs, status[e] \notin NotStarted \cup {"NONE"},
             ~(Early(t) /\ e = cur[t])
      PROVE  status'[e] \notin NotStarted
    BY <1>4 DEF PoolMove
<1>5. RecycledStarted'
  <2>1. ASSUME NEW e \in todo' PROVE status'[e] \notin NotStarted
    BY <1>4, <2>1 DEF PoolMove, RecycledStarted, EarlyIsOwn
  <2>2. ASSUME NEW s \in Threads, pc'[s] = "recycle_assign"
        PROVE  status'[cur'[s]] \notin NotStarted
    BY <1>1, <1>3, <1>4, <2>2
       DEF PoolMove, RecycledStarted, EarlyIsOwn
  <2>. QED
    BY <2>1, <2>2 DEF RecycledStarted
<1>6. EarlyIsOwn'
  <2>. SUFFICES ASSUME NEW s \in Threads, Early(s)'
                PROVE  /\ status'[cur'[s]] # "RUNNING"
                       /\ owner'[cur'[s]] # DefaultUser
                       /\ cur'[s] \notin todo'
                       /\ \A r \in Threads :
                            pc'[r] = "recycle_assign" => cur'[r] # cur'[s]
    BY DEF EarlyIsOwn
  <2>1. CASE Early(s) /\ cur'[s] = cur[s]
    <3>1. cur[s] \in Exprs /\ Launching(s)
      BY <1>2, <2>1
    <3>2. \A j \in VEs : ~Watches(t, cur[s], j)
      BY <2>1, <3>1 DEF StepInv, WatchInv, LaunchUnwatched, Unwatched,
                        Claim, Early
    <3>3. status'[cur[s]] # "RUNNING"
      BY <2>1, <3>1, <3>2 DEF PoolMove, EarlyIsOwn, StepInv, StartsInv,
                              LaunchersApart
    <3>. QED
      BY <1>1, <2>1, <3>1, <3>3 DEF PoolMove, EarlyIsOwn
  <2>2. CASE s = t /\ status[cur'[t]] = "NONE" /\ status'[cur'[t]] = "INIT"
             /\ owner'[cur'[t]] # DefaultUser
    BY <1>1, <1>3, <2>2 DEF PoolMove, Early
  <2>. QED
    BY <1>1, <2>1, <2>2 DEF PoolMove
<1>7. PoolHoldsNoStarting'
  <2>. SUFFICES ASSUME NEW e \in Exprs, owner'[e] = DefaultUser
                PROVE  status'[e] \notin NotStarted
    BY DEF PoolHoldsNoStarting
  <2>1. CASE owner[e] = DefaultUser
    BY <2>1 DEF PoolMove, PoolHoldsNoStarting, EarlyIsOwn
  <2>2. CASE pc[t] = "recycle_assign" /\ e = cur[t] /\ status'[e] = status[e]
    BY <2>2 DEF RecycledStarted
  <2>. QED
    BY <2>1, <2>2 DEF PoolMove
<1>. QED
    BY <1>5, <1>6, <1>7

LEMMA PoolInit ==
    ASSUME Init
    PROVE  PoolInv
    BY ExprAssumption DEF Init, ManagerInit, PoolInv, RecycledStarted,
       EarlyIsOwn, Early, PoolHoldsNoStarting

USE DEF exprVars, veVars, hostedVars, alaudaVars, Goto, Continue, SetStatus,
        SetRemote, Early

(* A step that leaves statuses, owners and the recycle job alone. *)
LEMMA PoolStays ==
    ASSUME NEW t, UNCHANGED <<status, owner>>, todo' \subseteq todo,
           \/ pc'[t] \notin {"count", "starting", "recycle_assign"}
           \/ Early(t) /\ Early(t)' /\ cur'[t] = cur[t]
    PROVE  PoolMove(t)
    BY DEF PoolMove

LEMMA CallPool ==
    ASSUME StepInv, PoolInv, NEW t \in Threads, Call(t)
    PROVE  PoolMove(t)
<1>. USE StateFacts DEF ThreadsOK
<1>1. CASE RecycleTick(t)
    BY <1>1 DEF Call, RecycleTick, PoolMove
<1>2. CASE ~RecycleTick(t)
  <2>1. /\ UNCHANGED <<status, owner, todo>>
        /\ pc'[t] \in {"report", "pool", "a_stop", "h_stop"}
    BY <1>2 DEF Call, StartExpr, PollExpr, StopExpr, EnterStop
  <2>. QED
    BY <2>1, PoolStays
<1>. QED
    BY <1>1, <1>2

LEMMA ManagerPool ==
    ASSUME StepInv, PoolInv, NEW t \in Threads, ManagerStep(t)
    PROVE  PoolMove(t)
<1>. USE StateFacts DEF ThreadsOK
<1>1. CASE FindPooled(t) \/ CountPool(t) \/ StartAzure(t) \/ AddVE(t)
           \/ MarkVE(t) \/ RecycleDone(t)
    BY <1>1, PoolStays DEF FindPooled, CountPool, StartAzure, AddVE, MarkVE,
       RecycleDone, Return
<1>2. CASE AssignPooled(t)
  <2>1. req[t].user # DefaultUser
    BY ExprAssumption DEF Requests
  <2>. QED
    BY <1>2, <2>1 DEF AssignPooled, TablesOK, PoolMove
<1>3. CASE InsertExpr(t)
  <2>1. req[t].user # DefaultUser
    BY ExprAssumption DEF Requests
  <2>2. PICK e \in Exprs : /\ status[e] = "NONE"
                           /\ status' = [status EXCEPT ![e] = "INIT"]
                           /\ owner' = [owner EXCEPT ![e] = req[t].user]
                           /\ cur' = [cur EXCEPT ![t] = e]
    BY <1>3 DEF InsertExpr
  <2>3. pc'[t] = "count" /\ todo' = todo /\ cur'[t] = e
    BY <1>3, <2>2 DEF InsertExpr
  <2>. QED
    BY <2>1, <2>2, <2>3 DEF TablesOK, PoolMove
<1>4. CASE SetStarting(t)
    BY <1>4 DEF SetStarting, TablesOK, PoolMove
<1>5. CASE SetRunning(t)
    BY <1>5 DEF SetRunning, TablesOK, PoolMove, Launching, LaunchSteps
<1>6. CASE MarkExpr(t) \/ Rollback(t) \/ RollbackVEs(t)
    BY <1>6 DEF MarkExpr, Rollback, RollbackVEs, Return, TablesOK, PoolMove
<1>7. CASE RecycleNext(t)
    BY <1>7 DEF RecycleNext, EnterStop, PoolMove
<1>8. CASE RecycleAssign(t)
    BY <1>8 DEF RecycleAssign, Return, TablesOK, PoolMove
<1>. QED
    BY <1>1, <1>2, <1>3, <1>4, <1>5, <1>6, <1>7, <1>8 DEF ManagerStep

LEMMA HostedPool ==
    ASSUME StepInv, PoolInv, NEW t \in Threads, HostedStep(t)
    PROVE  PoolMove(t)
<1>. USE StateFacts DEF ThreadsOK
<1>1. CASE HostedVEStopped(t)
    BY <1>1 DEF HostedVEStopped, StoppedStatus, Return, TablesOK, PoolMove
<1>2. CASE HostedVEUp(t) \/ CheckContainers(t)
    BY <1>2, PoolStays DEF HostedVEUp, VEStarted, CheckContainers, Return
<1>3. CASE ~(HostedVEStopped(t) \/ HostedVEUp(t) \/ CheckContainers(t))
    BY <1>3, PoolStays DEF HostedStep, ReserveHost, AssignPorts, LoadHost,
       CreateContainer, StartContainer, IncrementCount, VerifyContainer,
       StopContainer, ReleasePorts, LoadCount, DecrementCount
<1>. QED
    BY <1>1, <1>2, <1>3

LEMMA AlaudaPool ==
    ASSUME StepInv, PoolInv, NEW t \in Threads, AlaudaStep(t)
    PROVE  PoolMove(t)
<1>. USE StateFacts DEF ThreadsOK
<1>1. CASE PromoteExpr(t)
  <2>1. Watches(t, cur[t], ve[t]) /\ ve[t] \in VEs
    BY <1>1, HoldsExpr DEF PromoteExpr, Watches, HandlerSteps, StepInv
  <2>2. todo' = todo /\ pc'[t] \in {"idle", "recycle", "add_ve", "set_running"}
    BY <1>1, <2>1, HandledMove DEF PromoteExpr, Watches
  <2>. QED
    BY <1>1, <2>1, <2>2 DEF PromoteExpr, TablesOK, PoolMove
<1>2. CASE ServiceFailed(t) \/ ServicesStopped(t)
    BY <1>2 DEF ServiceFailed, ServicesStopped, StoppedStatus, Handled,
       VEStarted, Return, TablesOK, PoolMove
<1>3. CASE ~(PromoteExpr(t) \/ ServiceFailed(t) \/ ServicesStopped(t))
    BY <1>3, PoolStays DEF AlaudaStep, SetProvider, CreateService,
       QueryService, ServiceStarted, CheckAllRunning, StopService, RunJob,
       Handled, Raise, VEStarted, Return
<1>. QED
    BY <1>1, <1>2, <1>3

HIDE DEF exprVars, veVars, hostedVars, alaudaVars, Goto, Continue, SetStatus,
         SetRemote, Early

LEMMA PoolNext ==
    ASSUME StepInv, PoolInv, [Next]_vars
    PROVE  PoolInv'
<1>1. ASSUME NEW t \in Threads, Call(t) \/ Work(t) PROVE PoolInv'
  <2>1. PoolMove(t)
    BY <1>1, CallPool, ManagerPool, HostedPool, AlaudaPool DEF Work
  <2>2. OthersWait(t)
    BY <1>1, ThreadStepMove DEF StepMove
  <2>. QED
    BY <2>1, <2>2, NextStep, PoolKeeps
<1>2. CASE UNCHANGED <<status, owner, pc, cur, todo>>
    BY <1>2 DEF PoolInv, RecycledStarted, EarlyIsOwn, Early,
                PoolHoldsNoStarting
<1>3. CASE Restart
    BY <1>3 DEF Restart, exprVars, PoolInv, RecycledStarted, EarlyIsOwn,
                Early, PoolHoldsNoStarting
<1>. QED
    BY <1>1, <1>2, <1>3 DEF Next, ToggleAlauda, vars, managerVars, exprVars,
       threadVars

(* The idle pool never holds an experiment that has yet to start, with any *)
(* number of starts, recycle jobs, polls and stops, and through crashes:   *)
(* scheduler_recycle_expr lists RUNNING experiments only, and none of them *)
(* starts again.                                                           *)
THEOREM PoolHasStarted == Spec => []PoolHoldsNoStarting
<1>1. Init => StepInv /\ PoolInv
    BY InitStep, PoolInit
<1>2. StepInv /\ PoolInv /\ [Next]_vars => (StepInv /\ PoolInv)'
    BY NextStep, PoolNext
<1>3. PoolInv => PoolHoldsNoStarting
    BY DEF PoolInv
<1>. QED
    BY <1>1, <1>2, <1>3, PTL DEF Spec
=============================================================================
