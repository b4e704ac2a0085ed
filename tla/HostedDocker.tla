---------------------------- MODULE HostedDocker ----------------------------
(***************************************************************************)
(* HostedDockerFormation (hackathon/docker/hosted_docker.py) and           *)
(* DockerHostManager (hackathon/hack/host_server_manager.py): containers   *)
(* on the hackathon's own docker hosts, one action per commit or HTTP      *)
(* call.  Which port numbers are handed out is the subject of HostPorts;   *)
(* here a virtual environment either has its rows in port_binding or not.  *)
(***************************************************************************)
EXTENDS ExprManager, Integers

CONSTANTS
    Hosts,    \* docker host servers of the hackathon
    MaxCount  \* container_max_count of a host

ASSUME HostAssumption == MaxCount \in Nat /\ None \notin Hosts

VARIABLES
    container, \* container[e][i]: host of the row in docker_container, or None
    bound,     \* bound[e]: virtual environments of e with rows in port_binding
    remote,    \* remote[e][i]: the container on the docker host itself
    count,     \* count[h]: column docker_host_server.container_count
    seen       \* seen[t]: container_count as thread t last loaded it

hostedVars == <<container, bound, remote, count, seen>>

HostedSteps ==
    {"h_host", "h_ports", "h_look", "h_create", "h_start", "h_incr",
     "h_verify", "h_up", "h_stop", "h_release", "h_decr_read",
     "h_decr_write", "h_stopped"}

(* A container that was created, or has exited, is "down". *)
RemoteStates == {"absent", "down", "running"}

HostedInit ==
    /\ container = [e \in Exprs |-> [i \in VEs |-> None]]
    /\ bound = [e \in Exprs |-> {}]
    /\ remote = [e \in Exprs |-> [i \in VEs |-> "absent"]]
    /\ count = [h \in Hosts |-> 0]
    /\ seen = [t \in Threads |-> 0]

SetRemote(t, s) == remote' = [remote EXCEPT ![cur[t]][ve[t]] = s]

----------------------------------------------------------------------------
(* start *)

(* get_available_docker_host and the insert of the container row.  No host *)
(* with room, or none that answers the ping, is an exception.              *)
ReserveHost(t) ==
    /\ pc[t] = "h_host"
    /\ \/ \E h \in Hosts :
            /\ count[h] + 1 <= MaxCount
            /\ container' = [container EXCEPT ![cur[t]][ve[t]] = h]
            /\ Continue(t, "h_ports")
       \/ UNCHANGED container /\ Continue(t, "rollback")
    /\ UNCHANGED <<bound, remote, count, seen>>

(* Mutant of AssignPorts: the rows of earlier virtual environments go.     *)
AssignPortsAnew(t) ==
    /\ pc[t] = "h_ports"
    /\ \/ /\ bound' = [bound EXCEPT ![cur[t]] = {ve[t]}]
          /\ Continue(t, "h_look")
       \/ UNCHANGED bound /\ Continue(t, "rollback")
    /\ UNCHANGED <<container, remote, count, seen>>

(* __assign_ports.  The query for the used ports fails with the host, and  *)
(* outside a "local" environment the public ports cannot be had at all.    *)
AssignPorts(t) ==
    /\ pc[t] = "h_ports"
    /\ \/ /\ bound' = [bound EXCEPT ![cur[t]] = @ \cup {ve[t]}]
          /\ Continue(t, "h_look")
       \/ UNCHANGED bound /\ Continue(t, "rollback")
    /\ UNCHANGED <<container, remote, count, seen>>

(* The guacamole settings load the host's row, container_count with it,    *)
(* and no commit expires it before it is incremented.  The new name is     *)
(* random, so the list of containers never shows it yet.                   *)
LoadHost(t) ==
    /\ pc[t] = "h_look"
    /\ \/ /\ seen' = [seen EXCEPT ![t] = count[container[cur[t]][ve[t]]]]
          /\ Continue(t, "h_create")
       \/ UNCHANGED seen /\ Continue(t, "rollback")
    /\ UNCHANGED <<container, bound, remote, count>>

(* A call that fails here or in StartContainer may still have been served. *)
CreateContainer(t) ==
    /\ pc[t] = "h_create"
    /\ \/ SetRemote(t, "down") /\ Continue(t, "h_start")
       \/ SetRemote(t, "down") /\ Continue(t, "rollback")
       \/ UNCHANGED remote /\ Continue(t, "rollback")
    /\ UNCHANGED <<container, bound, count, seen>>

(* The answer's code is not looked at: the container may not run.          *)
StartContainer(t) ==
    /\ pc[t] = "h_start"
    /\ \E s \in {"down", "running"} : SetRemote(t, s)
    /\ \/ Continue(t, "h_incr")
       \/ Continue(t, "rollback")
    /\ UNCHANGED <<container, bound, count, seen>>

IncrementCount(t) ==
    /\ pc[t] = "h_incr"
    /\ count' = [count EXCEPT ![container[cur[t]][ve[t]]] = seen[t] + 1]
    /\ seen' = [seen EXCEPT ![t] = 0]
    /\ Continue(t, "h_verify")
    /\ UNCHANGED <<container, bound, remote>>

(* Mutant of VerifyContainer: a container that has exited ends the start   *)
(* without a rollback.                                                     *)
VerifyOrReturn(t) ==
    /\ pc[t] = "h_verify"
    /\ \/ /\ remote[cur[t]][ve[t]] = "running"
          /\ Continue(t, "h_up")
       \/ Return(t) /\ UNCHANGED <<exprVars, veVars, alauda>>
    /\ UNCHANGED hostedVars

(* The list of running containers must show the new one. *)
VerifyContainer(t) ==
    /\ pc[t] = "h_verify"
    /\ \/ /\ remote[cur[t]][ve[t]] = "running"
          /\ Continue(t, "h_up")
       \/ Continue(t, "rollback")
    /\ UNCHANGED hostedVars

HostedVEUp(t) ==
    /\ pc[t] = "h_up"
    /\ veStatus' = [veStatus EXCEPT ![cur[t]][ve[t]] = "RUNNING"]
    /\ VEStarted(t)
    /\ UNCHANGED <<exprVars, provider, alauda, hostedVars>>

----------------------------------------------------------------------------
(* stop and delete *)

(* A virtual environment without a container row, or a host that does not  *)
(* answer, is an exception.  Any other answer counts as success.           *)
StopContainer(t) ==
    LET e == cur[t]
        i == ve[t]
    IN
    /\ pc[t] = "h_stop"
    /\ \/ UNCHANGED remote
       \/ /\ container[e][i] # None
          /\ IF req[t].op = "delete"
             THEN SetRemote(t, "absent")
             ELSE remote[e][i] = "running" /\ SetRemote(t, "down")
    /\ \/ container[e][i] # None /\ Continue(t, "h_release")
       \/ Continue(t, "rollback")
    /\ UNCHANGED <<container, bound, count, seen>>

(* Mutant of ReleasePorts: a plain stop keeps the rows. *)
ReleaseOnDelete(t) ==
    /\ pc[t] = "h_release"
    /\ IF req[t].op = "delete"
       THEN bound' = [bound EXCEPT ![cur[t]] = {}]
       ELSE UNCHANGED bound
    /\ Continue(t, "h_decr_read")
    /\ UNCHANGED <<container, remote, count, seen>>

(* __release_ports drops the bindings of the whole experiment. *)
ReleasePorts(t) ==
    /\ pc[t] = "h_release"
    /\ bound' = [bound EXCEPT ![cur[t]] = {}]
    /\ Continue(t, "h_decr_read")
    /\ UNCHANGED <<container, remote, count, seen>>

LoadCount(t) ==
    /\ pc[t] = "h_decr_read"
    /\ seen' = [seen EXCEPT ![t] = count[container[cur[t]][ve[t]]]]
    /\ Continue(t, "h_decr_write")
    /\ UNCHANGED <<container, bound, remote, count>>

(* Mutant of DecrementCount: the count is not kept from going below zero.  *)
DecrementBare(t) ==
    /\ pc[t] = "h_decr_write"
    /\ count' = [count EXCEPT ![container[cur[t]][ve[t]]] = 0 - 1 + seen[t]]
    /\ seen' = [seen EXCEPT ![t] = 0]
    /\ Continue(t, "h_stopped")
    /\ UNCHANGED <<container, bound, remote>>

DecrementCount(t) ==
    /\ pc[t] = "h_decr_write"
    /\ count' = [count EXCEPT ![container[cur[t]][ve[t]]] =
                     IF seen[t] = 0 THEN 0 ELSE seen[t] - 1]
    /\ seen' = [seen EXCEPT ![t] = 0]
    /\ Continue(t, "h_stopped")
    /\ UNCHANGED <<container, bound, remote>>

(* stop_expr goes on with the next virtual environment, or ends.  The last *)
(* one and the experiment change in the same commit.                       *)
HostedVEStopped(t) ==
    LET e == cur[t] IN
    /\ pc[t] = "h_stopped"
    /\ veStatus' = [veStatus EXCEPT ![e][ve[t]] = StoppedStatus(t)]
    /\ \/ /\ ve[t] < last[t]
          /\ pc' = [pc EXCEPT ![t] = "h_stop"]
          /\ ve' = [ve EXCEPT ![t] = @ + 1]
          /\ UNCHANGED <<status, req, cur, last, todo>>
       \/ /\ ve[t] >= last[t]
          /\ status' = [status EXCEPT ![e] = StoppedStatus(t)]
          /\ Return(t)
    /\ UNCHANGED <<owner, template, provider, alauda, hostedVars>>

----------------------------------------------------------------------------
(* check_container_status_is_normal, as __report_expr_status calls it for  *)
(* each hosted virtual environment until one is not normal.  Only a        *)
(* container that runs can be found normal; any can be found not normal    *)
(* (its host does not answer).  A row without container is an exception.   *)
CheckContainers(t) ==
    LET e == cur[t]
        rows == {i \in Rows(e) : provider[e][i] = "DOCKER"}
        Normal(i) == container[e][i] # None /\ remote[e][i] = "running"
    IN
    /\ pc[t] = "report"
    /\ \/ (\A i \in rows : Normal(i)) /\ Return(t)
       \/ \E i \in rows :
            /\ \A j \in rows : j < i => Normal(j)
            /\ \/ container[e][i] = None /\ Return(t)
               \/ /\ container[e][i] # None
                  /\ ve' = [ve EXCEPT ![t] = i]
                  /\ pc' = [pc EXCEPT ![t] = "mark_expr"]
                  /\ UNCHANGED <<req, cur, last, todo>>
    /\ UNCHANGED <<exprVars, veVars, alauda, hostedVars>>

HostedTypeOK ==
    /\ container \in [Exprs -> [VEs -> Hosts \cup {None}]]
    /\ bound \in [Exprs -> SUBSET VEs]
    /\ remote \in [Exprs -> [VEs -> RemoteStates]]
    /\ count \in [Hosts -> Nat]
    /\ seen \in [Threads -> Nat]
=============================================================================
