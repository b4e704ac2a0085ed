---------------------------- MODULE AlaudaDocker ----------------------------
(***************************************************************************)
(* AlaudaDockerFormation (hackathon/docker/alauda_docker.py): containers   *)
(* as services of the Alauda cloud.  Creating a service is asynchronous: a *)
(* start that finds it still deploying leaves an APScheduler job behind    *)
(* that asks again ten seconds later, as often as it takes.                *)
(***************************************************************************)
EXTENDS ExprManager

VARIABLE
    job  \* job[e][i]: a query_service_status_async job waits in the scheduler

alaudaVars == <<job>>

AlaudaSteps ==
    {"a_provider", "a_create", "a_query", "a_started", "a_promote",
     "a_set_running", "a_failed", "a_stop", "a_stopped"}

AlaudaInit == job = [e \in Exprs |-> [i \in VEs |-> FALSE]]

InJob(t) == req[t].op = "job"

(* The handler of a service's state is done: the start goes on with the    *)
(* next virtual environment, the job ends.                                 *)
Handled(t) == IF InJob(t) THEN Return(t) ELSE VEStarted(t)

(* An AlaudaException, or a failed connection.  A start is rolled back; a  *)
(* job marks the service failed, or ends there with any other exception.   *)
Raise(t) ==
    IF InJob(t) THEN Goto(t, "a_failed") \/ Return(t) ELSE Goto(t, "rollback")

----------------------------------------------------------------------------
(* start *)

(* Mutant of SetProvider: every row of the experiment gets the provider.   *)
SetProviderAll(t) ==
    /\ pc[t] = "a_provider"
    /\ provider' = [provider EXCEPT ![cur[t]] =
            [i \in VEs |-> IF i \in Rows(cur[t]) THEN "ALAUDA" ELSE @[i]]]
    /\ Goto(t, "a_create")
    /\ UNCHANGED <<exprVars, veStatus, alauda, alaudaVars>>

SetProvider(t) ==
    /\ pc[t] = "a_provider"
    /\ provider' = [provider EXCEPT ![cur[t]][ve[t]] = "ALAUDA"]
    /\ Goto(t, "a_create")
    /\ UNCHANGED <<exprVars, veStatus, alauda, alaudaVars>>

CreateService(t) ==
    /\ pc[t] = "a_create"
    /\ \/ Goto(t, "a_query")
       \/ Goto(t, "rollback")
    /\ UNCHANGED <<exprVars, veVars, alauda, alaudaVars>>

(* __query_service and __service_result_handler. *)
QueryService(t) ==
    /\ pc[t] = "a_query"
    /\ \/ /\ job' = [job EXCEPT ![cur[t]][ve[t]] = TRUE]
          /\ Handled(t)
       \/ UNCHANGED job /\ Goto(t, "a_started")
       \/ UNCHANGED job /\ Goto(t, "a_failed")
       \/ UNCHANGED job /\ Raise(t)
    /\ UNCHANGED <<exprVars, veVars, alauda>>

(* Both handlers fetch the service's log first, which may raise. *)
ServiceStarted(t) ==
    /\ pc[t] = "a_started"
    /\ \/ /\ veStatus' = [veStatus EXCEPT ![cur[t]][ve[t]] = "RUNNING"]
          /\ Goto(t, "a_promote")
       \/ UNCHANGED veStatus /\ Raise(t)
    /\ UNCHANGED <<exprVars, provider, alauda, alaudaVars>>

(* All virtual environments that have a row are RUNNING: so is the         *)
(* experiment, whatever its status has become meanwhile.                   *)
CheckAllRunning(t) ==
    LET e == cur[t]
        allRunning == \A i \in Rows(e) : veStatus[e][i] = "RUNNING"
    IN
    /\ pc[t] = "a_promote"
    /\ \/ allRunning /\ Goto(t, "a_set_running")
       \/ ~allRunning /\ Handled(t)
    /\ UNCHANGED <<exprVars, veVars, alauda, alaudaVars>>

PromoteExpr(t) ==
    /\ pc[t] = "a_set_running"
    /\ SetStatus(cur[t], "RUNNING")
    /\ Handled(t)
    /\ UNCHANGED <<veVars, alauda, alaudaVars>>

ServiceFailed(t) ==
    /\ pc[t] = "a_failed"
    /\ \/ /\ veStatus' = [veStatus EXCEPT ![cur[t]][ve[t]] = "FAILED"]
          /\ SetStatus(cur[t], "FAILED")
          /\ Handled(t)
       \/ /\ UNCHANGED <<veStatus, exprVars>>
          /\ IF InJob(t) THEN Return(t) ELSE Goto(t, "rollback")
    /\ UNCHANGED <<provider, alauda, alaudaVars>>

(* Mutant of RunJob: the job is not removed from the scheduler. *)
RunJobAgain(t, e, i) ==
    /\ pc[t] = "idle"
    /\ job[e][i]
    /\ req' = [req EXCEPT ![t].op = "job"]
    /\ cur' = [cur EXCEPT ![t] = e]
    /\ ve' = [ve EXCEPT ![t] = i]
    /\ pc' = [pc EXCEPT ![t] = "a_query"]
    /\ UNCHANGED <<exprVars, veVars, alauda, last, todo, job>>

(* The scheduler hands a job that is due to one of its threads. *)
RunJob(t, e, i) ==
    /\ pc[t] = "idle"
    /\ job[e][i]
    /\ job' = [job EXCEPT ![e][i] = FALSE]
    /\ req' = [req EXCEPT ![t].op = "job"]
    /\ cur' = [cur EXCEPT ![t] = e]
    /\ ve' = [ve EXCEPT ![t] = i]
    /\ pc' = [pc EXCEPT ![t] = "a_query"]
    /\ UNCHANGED <<exprVars, veVars, alauda, last, todo>>

----------------------------------------------------------------------------
(* stop and delete: a call to Alauda for each virtual environment, which   *)
(* knows only its own services.  Nothing is committed between the calls: a *)
(* failed one commits the status of those before it with the rollback.     *)

StopService(t) ==
    LET e == cur[t]
        i == ve[t]
    IN
    /\ pc[t] = "a_stop"
    /\ \/ /\ provider[e][i] = "ALAUDA"
          /\ i < last[t]
          /\ ve' = [ve EXCEPT ![t] = i + 1]
          /\ UNCHANGED <<veStatus, pc, req, cur, last, todo>>
       \/ /\ provider[e][i] = "ALAUDA"
          /\ i >= last[t]
          /\ Goto(t, "a_stopped")
          /\ UNCHANGED veStatus
       \/ /\ veStatus' = [veStatus EXCEPT ![e] =
                [j \in VEs |-> IF j < i THEN StoppedStatus(t) ELSE @[j]]]
          /\ Goto(t, "rollback")
    /\ UNCHANGED <<exprVars, provider, alauda, alaudaVars>>

ServicesStopped(t) ==
    LET e == cur[t] IN
    /\ pc[t] = "a_stopped"
    /\ veStatus' = [veStatus EXCEPT ![e] =
            [j \in VEs |-> IF j <= last[t] THEN StoppedStatus(t) ELSE @[j]]]
    /\ SetStatus(e, StoppedStatus(t))
    /\ Return(t)
    /\ UNCHANGED <<provider, alauda, alaudaVars>>

AlaudaTypeOK == job \in [Exprs -> [VEs -> BOOLEAN]]
=============================================================================
