----------------------------- MODULE Experiment -----------------------------
(***************************************************************************)
(* The experiment service: ExprManager with its two container back ends,   *)
(* served by the threads of one server process.                            *)
(***************************************************************************)
EXTENDS HostedDocker, AlaudaDocker

vars == <<managerVars, hostedVars, alaudaVars>>

Steps == ManagerSteps \cup HostedSteps \cup AlaudaSteps

Init == ManagerInit /\ HostedInit /\ AlaudaInit

(* A call that arrives at an idle thread. *)
Call(t) ==
    /\ \/ \E u \in Users, p \in Templates : StartExpr(t, u, p)
       \/ \E e \in Exprs : PollExpr(t, e)
       \/ \E e \in Exprs, op \in {"stop", "delete"} : StopExpr(t, e, op)
       \/ RecycleTick(t)
    /\ UNCHANGED <<hostedVars, alaudaVars>>

ManagerStep(t) ==
    /\ \/ FindPooled(t) \/ AssignPooled(t) \/ InsertExpr(t) \/ CountPool(t)
       \/ SetStarting(t) \/ StartAzure(t) \/ AddVE(t) \/ SetRunning(t)
       \/ MarkExpr(t) \/ MarkVE(t) \/ Rollback(t) \/ RollbackVEs(t)
       \/ RecycleNext(t) \/ RecycleAssign(t) \/ RecycleDone(t)
    /\ UNCHANGED <<hostedVars, alaudaVars>>

HostedStep(t) ==
    /\ \/ ReserveHost(t) \/ AssignPorts(t) \/ LoadHost(t)
       \/ CreateContainer(t) \/ StartContainer(t) \/ IncrementCount(t)
       \/ VerifyContainer(t) \/ HostedVEUp(t) \/ StopContainer(t)
       \/ ReleasePorts(t) \/ LoadCount(t) \/ DecrementCount(t)
       \/ HostedVEStopped(t) \/ CheckContainers(t)
    /\ UNCHANGED alaudaVars

AlaudaStep(t) ==
    /\ \/ SetProvider(t) \/ CreateService(t) \/ QueryService(t)
       \/ ServiceStarted(t) \/ CheckAllRunning(t) \/ PromoteExpr(t)
       \/ ServiceFailed(t) \/ StopService(t) \/ ServicesStopped(t)
       \/ \E e \in Exprs, i \in VEs : RunJob(t, e, i)
    /\ UNCHANGED hostedVars

(* What a thread does once it has accepted a call. *)
Work(t) == ManagerStep(t) \/ HostedStep(t) \/ AlaudaStep(t)

(* The process dies and starts again: its threads are gone, the tables     *)
(* stay.  Jobs survive in a MySQL job store and not in memory.             *)
Restart ==
    /\ CanRestart
    /\ \E t \in Threads : pc[t] # "idle"
    /\ pc' = [t \in Threads |-> "idle"]
    /\ req' = [t \in Threads |-> NoReq]
    /\ cur' = [t \in Threads |-> None]
    /\ ve' = [t \in Threads |-> 0]
    /\ last' = [t \in Threads |-> 0]
    /\ seen' = [t \in Threads |-> 0]
    /\ todo' = {}
    /\ \/ UNCHANGED job
       \/ job' = [e \in Exprs |-> [i \in VEs |-> FALSE]]
    /\ UNCHANGED <<exprVars, veVars, alauda, container, bound, remote, count>>

Next ==
    \/ \E t \in Threads : Call(t) \/ Work(t)
    \/ ToggleAlauda /\ UNCHANGED <<hostedVars, alaudaVars>>
    \/ Restart

Spec == Init /\ [][Next]_vars

(* A thread that serves a call is scheduled until the call is answered.    *)
FairSpec == Spec /\ \A t \in Threads : WF_vars(Work(t))

----------------------------------------------------------------------------

TypeOK ==
    /\ ManagerTypeOK
    /\ HostedTypeOK
    /\ AlaudaTypeOK
    /\ pc \in [Threads -> Steps]

----------------------------------------------------------------------------
(* Hosted docker (AlaudaFlags = {FALSE}). *)

(* An experiment whose stop has been answered holds no rows in             *)
(* port_binding: stop_expr and the release of its ports, whatever other    *)
(* calls ran meanwhile.                                                    *)
StoppedHoldsNoPorts ==
    \A e \in Exprs : status[e] \in {"STOPPED", "DELETED"} => bound[e] = {}

(* stop_expr never meets a virtual environment without a container row     *)
(* (its docker.stop would raise and turn the stop into a failed rollback): *)
(* RUNNING is written only after every container has been inserted.        *)
StopFindsContainer ==
    \A t \in Threads :
        pc[t] = "h_stop" => container[cur[t]][ve[t]] # None

Stopping(t, e) == cur[t] = e /\ req[t].op \in {"stop", "delete", "recycle"}

(* A RUNNING experiment that nobody is stopping has the port bindings of   *)
(* all of its virtual environments, so its public urls can be reported.    *)
RunningHoldsPorts ==
    \A e \in Exprs :
        (status[e] = "RUNNING" /\ \A t \in Threads : ~Stopping(t, e))
            => bound[e] = VEs

(* An experiment that has been stopped, deleted or rolled back never runs  *)
(* again, although stops, polls and rollbacks overwrite one another.       *)
NoResurrection ==
    [][\A e \in Exprs : status[e] \in Ended => status'[e] # "RUNNING"]_vars

(* A user that waits for the answer to a start (OneAtATime) never has two  *)
(* experiments STARTING or RUNNING (an admin, two of one template), with   *)
(* other users, polls, stops, recycling and restarts in between.           *)
OneLivePerUser ==
    \A e, f \in Exprs :
        /\ status[e] \in Live /\ status[f] \in Live
        /\ owner[e] = owner[f] /\ owner[e] \in Users
        /\ owner[e] \in Admins => template[e] = template[f]
        => e = f

(* A start of a docker template does not stay STARTING for ever: it ends   *)
(* RUNNING, or is rolled back.                                             *)
StartSettles ==
    \A e \in Exprs : status[e] = "STARTING" ~> status[e] # "STARTING"

----------------------------------------------------------------------------
(* Alauda. *)

HandlerSteps ==
    {"a_query", "a_started", "a_promote", "a_set_running", "a_failed"}

Watches(t, e, i) == pc[t] \in HandlerSteps /\ cur[t] = e /\ ve[t] = i

(* The state of a service is followed by one job or one thread at a time:  *)
(* the start that created it, or the job it or the last query left behind. *)
OneWatcherPerVE ==
    \A e \in Exprs, i \in VEs :
        /\ job[e][i] => \A t \in Threads : ~Watches(t, e, i)
        /\ \A s, t \in Threads :
              Watches(s, e, i) /\ Watches(t, e, i) => s = t

(* No query is left behind for a service whose outcome has been recorded.  *)
DecidedNotQueried ==
    \A e \in Exprs, i \in VEs :
        job[e][i] => veStatus[e][i] \notin {"RUNNING", "FAILED"}

(* The pool holds nothing that is still starting: the recycle job takes    *)
(* experiments that were RUNNING when it listed them, and those never      *)
(* start again.  (PoolSize counts STARTING rows all the same.)             *)
PoolHoldsNoStarting ==
    \A e \in Exprs :
        owner[e] = DefaultUser => status[e] \notin {"INIT", "STARTING"}

(* A virtual environment that became an Alauda service holds nothing on    *)
(* the hackathon's own hosts, also when the flag changes between its start *)
(* and its stop.                                                           *)
AlaudaHoldsNoHost ==
    \A e \in Exprs, i \in VEs :
        provider[e][i] = "ALAUDA" => container[e][i] = None /\ i \notin bound[e]

----------------------------------------------------------------------------
(* Why the hosted properties hold: the invariant behind StopFindsContainer, *)
(* StoppedHoldsNoPorts and NoResurrection, inductive together with the     *)
(* types.                                                                  *)

(* Steps of a start that still builds its experiment. *)
LaunchSteps ==
    {"count", "starting", "azure", "add_ve", "h_host", "h_ports", "h_look",
     "h_create", "h_start", "h_incr", "h_verify", "h_up", "set_running"}

(* Steps of a stop, and of a rollback. *)
StopSteps == {"h_stop", "h_release", "h_decr_read", "h_decr_write", "h_stopped"}
EndSteps == StopSteps \cup {"rollback", "rollback_ves"}

(* Without the flag nothing of Alauda is ever touched. *)
HostedOnly ==
    /\ alauda = FALSE
    /\ \A e \in Exprs, i \in VEs : provider[e][i] = "DOCKER" /\ ~job[e][i]
    /\ \A t \in Threads : pc[t] \notin AlaudaSteps

(* Whatever a thread holds, or the recycle job has listed, was inserted.   *)
KnownExprs ==
    /\ \A t \in Threads : cur[t] \in Exprs => status[cur[t]] # "NONE"
    /\ \A e \in todo : status[e] # "NONE"

Building == {"INIT", "STARTING", "UNEXPECTED_ERROR"}

(* A start builds an experiment that nobody else builds, stops or rolls    *)
(* back, and that is neither RUNNING nor ended.                            *)
LaunchIsPrivate ==
    \A t \in Threads : pc[t] \in LaunchSteps =>
        /\ status[cur[t]] \in Building
        /\ \A s \in Threads \ {t} :
              pc[s] \in LaunchSteps \cup EndSteps => cur[s] # cur[t]

HasContainers(e, n) == \A j \in VEs : j <= n => container[e][j] # None

(* Containers come one after the other, and once RUNNING all are there.    *)
Progress(t) ==
    /\ pc[t] \in {"add_ve", "h_host"} => HasContainers(cur[t], ve[t] - 1)
    /\ pc[t] \in {"h_ports", "h_look", "h_create", "h_start", "h_incr",
                  "h_verify", "h_up"} => HasContainers(cur[t], ve[t])
    /\ pc[t] \in {"set_running"} \cup StopSteps => HasContainers(cur[t], NumVE)

ContainersFirst ==
    /\ \A t \in Threads : Progress(t)
    /\ \A e \in Exprs : status[e] = "RUNNING" => HasContainers(e, NumVE)

(* From the release of its ports to the end of a stop there are none.      *)
ReleasedSteps == {"h_decr_read", "h_decr_write", "h_stopped"}

ReleasedFirst ==
    \A t \in Threads : pc[t] \in ReleasedSteps => bound[cur[t]] = {}

HostedInv ==
    /\ HostedOnly
    /\ KnownExprs
    /\ LaunchIsPrivate
    /\ ContainersFirst
    /\ ReleasedFirst
    /\ StoppedHoldsNoPorts
=============================================================================
