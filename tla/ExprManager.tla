---------------------------- MODULE ExprManager ----------------------------
(***************************************************************************)
(* ExprManager (hackathon/expr/expr_mgr.py): starting, stopping, polling,  *)
(* recycling and rolling back experiments.                                 *)
(*                                                                         *)
(* The rows of the tables `experiment' and `virtual_environment' are       *)
(* shared by every thread of the server (HTTP requests and APScheduler     *)
(* jobs).  Each method of the database adapter commits on its own          *)
(* (database/db_adapters.py), so no transaction spans a handler: a handler *)
(* is a sequence of atomic steps, one per commit or remote call, and pc[t] *)
(* is the step thread t takes next.  HostedDocker and AlaudaDocker extend  *)
(* this module with the steps of the two container back ends; Experiment   *)
(* composes the three.                                                     *)
(***************************************************************************)
EXTENDS Naturals, FiniteSets

CONSTANTS
    Threads,        \* threads of the server process
    Users,          \* users that start experiments
    DefaultUser,    \* ReservedUser.DefaultUserID, owner of the idle pool
    Admins,         \* users with admin privilege on the hackathon
    Templates,      \* templates of the one hackathon modelled
    AzureTemplates, \* those whose provider is VE_PROVIDER.AZURE
    Exprs,          \* ids the experiment table may use (bounds the starts)
    NumVE,          \* virtual environments of a template
    PreAllocate,    \* config "pre_allocate.docker" (and ".azure")
    AlaudaFlags,    \* values the hackathon's alauda flag may take
    OneAtATime,     \* TRUE: a user waits for the answer to a start
    CanRestart,     \* TRUE: the server process may crash and restart
    None

ASSUME ExprAssumption ==
    /\ NumVE \in Nat \ {0}
    /\ PreAllocate \in Nat
    /\ Admins \subseteq Users
    /\ DefaultUser \notin Users
    /\ AzureTemplates \subseteq Templates
    /\ AlaudaFlags \subseteq BOOLEAN
    /\ AlaudaFlags # {}
    /\ OneAtATime \in BOOLEAN
    /\ CanRestart \in BOOLEAN
    /\ None \notin Exprs \cup Users \cup Templates \cup {DefaultUser}

VARIABLES
    status,   \* status[e]: column experiment.status, "NONE" before the insert
    owner,    \* owner[e]: column experiment.user_id
    template, \* template[e]: column experiment.template_id
    veStatus, \* veStatus[e][i]: status of e's i-th virtual environment
    provider, \* provider[e][i]: its provider, DOCKER or ALAUDA
    alauda,   \* Hackathon.is_alauda_enabled()
    pc,       \* pc[t]: the next step of thread t
    req,      \* req[t]: the call thread t serves
    cur,      \* cur[t]: the experiment it works on
    ve,       \* ve[t]: the virtual environment it works on
    last,     \* last[t]: how many virtual environments a stop has read
    todo      \* experiments the running recycle job has still to visit

exprVars == <<status, owner, template>>
veVars == <<veStatus, provider>>
threadVars == <<pc, req, cur, ve, last, todo>>
managerVars == <<exprVars, veVars, alauda, threadVars>>

VEs == 1..NumVE

EStatus == {"NONE", "INIT", "STARTING", "RUNNING", "STOPPED", "DELETED",
            "FAILED", "ROLL_BACKING", "ROLL_BACKED", "UNEXPECTED_ERROR"}

VEStatus == {"NONE", "INIT", "RUNNING", "FAILED", "STOPPED", "DELETED",
             "UNEXPECTED_ERROR"}

Live == {"STARTING", "RUNNING"}
Ended == {"STOPPED", "DELETED", "FAILED", "ROLL_BACKING", "ROLL_BACKED"}

NoReq == [op |-> "none", user |-> None, template |-> None]

Requests ==
    [op: {"none", "start", "stop", "delete", "poll", "recycle", "job"},
     user: Users \cup {None}, template: Templates \cup {None}]

ManagerSteps ==
    {"idle", "pool", "assign", "insert", "count", "starting", "azure",
     "add_ve", "set_running", "report", "mark_expr", "mark_ve", "rollback",
     "rollback_ves", "recycle", "recycle_assign"}

ManagerInit ==
    /\ status = [e \in Exprs |-> "NONE"]
    /\ owner = [e \in Exprs |-> None]
    /\ template = [e \in Exprs |-> None]
    /\ veStatus = [e \in Exprs |-> [i \in VEs |-> "NONE"]]
    /\ provider = [e \in Exprs |-> [i \in VEs |-> "DOCKER"]]
    /\ alauda \in AlaudaFlags
    /\ pc = [t \in Threads |-> "idle"]
    /\ req = [t \in Threads |-> NoReq]
    /\ cur = [t \in Threads |-> None]
    /\ ve = [t \in Threads |-> 0]
    /\ last = [t \in Threads |-> 0]
    /\ todo = {}

----------------------------------------------------------------------------
(* Thread control. *)

Goto(t, step) ==
    /\ pc' = [pc EXCEPT ![t] = step]
    /\ UNCHANGED <<req, cur, ve, last, todo>>

(* The handler of thread t ends.  A stop or an assignment made by the      *)
(* recycle job goes back to the job's loop, every other call is answered.  *)
Return(t) ==
    /\ pc' = [pc EXCEPT ![t] =
                  IF req[t].op = "recycle" THEN "recycle" ELSE "idle"]
    /\ req' = [req EXCEPT ![t] =
                  IF req[t].op = "recycle" THEN req[t] ELSE NoReq]
    /\ cur' = [cur EXCEPT ![t] = None]
    /\ ve' = [ve EXCEPT ![t] = 0]
    /\ last' = [last EXCEPT ![t] = 0]
    /\ UNCHANGED todo

(* Rows of virtual_environment inserted so far for experiment e. *)
Rows(e) == {i \in VEs : veStatus[e][i] # "NONE"}

SetStatus(e, s) ==
    /\ status' = [status EXCEPT ![e] = s]
    /\ UNCHANGED <<owner, template>>

(* The first answer to a rollback, a failed check or a plain step: only    *)
(* thread control moves.                                                   *)
Continue(t, step) ==
    /\ Goto(t, step)
    /\ UNCHANGED <<exprVars, veVars, alauda>>

----------------------------------------------------------------------------
(* start_expr *)

(* Mutant of LiveOf: only a RUNNING experiment is looked for. *)
RunningOf(u, p) ==
    {e \in Exprs : /\ status[e] = "RUNNING"
                   /\ owner[e] = u
                   /\ u \in Admins => template[e] = p}

(* The experiments of user u that start_expr reports instead of starting a *)
(* new one: an admin may have one per template.                            *)
LiveOf(u, p) ==
    {e \in Exprs : /\ status[e] \in Live
                   /\ owner[e] = u
                   /\ u \in Admins => template[e] = p}

(* Bound: a start is accepted only while an unused id is left for it.      *)
IdLeft ==
    Cardinality({t \in Threads : pc[t] \in {"pool", "insert"}})
        < Cardinality({e \in Exprs : status[e] = "NONE"})

StartExpr(t, u, p) ==
    /\ pc[t] = "idle"
    /\ IdLeft
    /\ OneAtATime => \A s \in Threads : req[s].user # u
    /\ req' = [req EXCEPT ![t] = [op |-> "start", user |-> u, template |-> p]]
    /\ \/ \E e \in LiveOf(u, p) :
              /\ cur' = [cur EXCEPT ![t] = e]
              /\ pc' = [pc EXCEPT ![t] = "report"]
       \/ /\ LiveOf(u, p) = {}
          /\ pc' = [pc EXCEPT ![t] = "pool"]
          /\ UNCHANGED cur
    /\ UNCHANGED <<exprVars, veVars, alauda, ve, last, todo>>

(* The idle RUNNING experiments of the default user for template p. *)
Pooled(p) ==
    {e \in Exprs : /\ status[e] = "RUNNING"
                   /\ owner[e] = DefaultUser
                   /\ template[e] = p}

FindPooled(t) ==
    LET found == Pooled(req[t].template) IN
    /\ pc[t] = "pool"
    /\ \/ \E e \in found :
              /\ cur' = [cur EXCEPT ![t] = e]
              /\ pc' = [pc EXCEPT ![t] = "assign"]
       \/ /\ found = {}
          /\ pc' = [pc EXCEPT ![t] = "insert"]
          /\ UNCHANGED cur
    /\ UNCHANGED <<exprVars, veVars, alauda, req, ve, last, todo>>

(* The update names the row read by FindPooled and no condition: whoever   *)
(* else has taken the experiment meanwhile loses it.                       *)
AssignPooled(t) ==
    /\ pc[t] = "assign"
    /\ owner' = [owner EXCEPT ![cur[t]] = req[t].user]
    /\ Goto(t, "report")
    /\ UNCHANGED <<status, template, veVars, alauda>>

InsertExpr(t) ==
    /\ pc[t] = "insert"
    /\ \E e \in Exprs :
        /\ status[e] = "NONE"
        /\ status' = [status EXCEPT ![e] = "INIT"]
        /\ owner' = [owner EXCEPT ![e] = req[t].user]
        /\ template' = [template EXCEPT ![e] = req[t].template]
        /\ cur' = [cur EXCEPT ![t] = e]
    /\ pc' = [pc EXCEPT ![t] = "count"]
    /\ UNCHANGED <<veVars, alauda, req, ve, last, todo>>

(* Experiments of the default user counted against pre_allocate. *)
PoolSize(p) ==
    Cardinality({e \in Exprs : /\ status[e] \in Live
                               /\ owner[e] = DefaultUser
                               /\ template[e] = p})

PoolFull(p) == PoolSize(p) # 0 /\ PoolSize(p) >= PreAllocate

(* A full pool makes start_expr return nothing, with the new row still     *)
(* INIT; a template whose file cannot be loaded rolls it back.             *)
CountPool(t) ==
    LET p == req[t].template IN
    /\ pc[t] = "count"
    /\ \/ /\ p \notin AzureTemplates
          /\ Goto(t, "rollback")
       \/ PoolFull(p) /\ Return(t)
       \/ ~PoolFull(p) /\ Goto(t, "starting")
    /\ UNCHANGED <<exprVars, veVars, alauda>>

SetStarting(t) ==
    /\ pc[t] = "starting"
    /\ SetStatus(cur[t], "STARTING")
    /\ pc' = [pc EXCEPT ![t] =
                  IF req[t].template \in AzureTemplates
                  THEN "azure" ELSE "add_ve"]
    /\ ve' = [ve EXCEPT ![t] = 1]
    /\ UNCHANGED <<veVars, alauda, req, cur, last, todo>>

(* DockerHelper has no load_azure_key_id: the exception is answered and    *)
(* the experiment is left as it is.                                        *)
StartAzure(t) ==
    /\ pc[t] = "azure"
    /\ Return(t)
    /\ UNCHANGED <<exprVars, veVars, alauda>>

(* __remote_start_container, up to docker.start of the back end that the   *)
(* hackathon's flag selects.                                               *)
AddVE(t) ==
    /\ pc[t] = "add_ve"
    /\ veStatus' = [veStatus EXCEPT ![cur[t]][ve[t]] = "INIT"]
    /\ provider' = [provider EXCEPT ![cur[t]][ve[t]] = "DOCKER"]
    /\ Goto(t, IF alauda THEN "a_provider" ELSE "h_host")
    /\ UNCHANGED <<exprVars, alauda>>

(* docker.start has returned: on to the next virtual environment. *)
VEStarted(t) ==
    /\ pc' = [pc EXCEPT ![t] =
                  IF ve[t] < NumVE THEN "add_ve" ELSE "set_running"]
    /\ ve' = [ve EXCEPT ![t] = IF ve[t] < NumVE THEN ve[t] + 1 ELSE ve[t]]
    /\ UNCHANGED <<req, cur, last, todo>>

SetRunning(t) ==
    /\ pc[t] = "set_running"
    /\ SetStatus(cur[t], "RUNNING")
    /\ Goto(t, "report")
    /\ UNCHANGED <<veVars, alauda>>

----------------------------------------------------------------------------
(* __report_expr_status: get_expr_status, and the end of start_expr.       *)

PollExpr(t, e) ==
    /\ pc[t] = "idle"
    /\ status[e] # "NONE"
    /\ req' = [req EXCEPT ![t].op = "poll"]
    /\ cur' = [cur EXCEPT ![t] = e]
    /\ pc' = [pc EXCEPT ![t] = "report"]
    /\ UNCHANGED <<exprVars, veVars, alauda, ve, last, todo>>

(* The container of ve[t] was found not to run: whatever the status of the *)
(* experiment is by now, it is overwritten.                                *)
MarkExpr(t) ==
    /\ pc[t] = "mark_expr"
    /\ SetStatus(cur[t], "UNEXPECTED_ERROR")
    /\ Goto(t, "mark_ve")
    /\ UNCHANGED <<veVars, alauda>>

MarkVE(t) ==
    /\ pc[t] = "mark_ve"
    /\ veStatus' = [veStatus EXCEPT ![cur[t]][ve[t]] = "UNEXPECTED_ERROR"]
    /\ Return(t)
    /\ UNCHANGED <<exprVars, provider, alauda>>

----------------------------------------------------------------------------
(* stop_expr *)

(* Mutant of EnterStop: an experiment that is still starting is accepted.  *)
EnterStopLive(t, e) ==
    /\ status[e] \in Live
    /\ template[e] \notin AzureTemplates
    /\ cur' = [cur EXCEPT ![t] = e]
    /\ ve' = [ve EXCEPT ![t] = 1]
    /\ last' = [last EXCEPT ![t] = Cardinality(Rows(e))]
    /\ pc' = [pc EXCEPT ![t] = IF alauda THEN "a_stop" ELSE "h_stop"]

(* The query for a RUNNING row, the choice of the back end and the list of *)
(* virtual environments.  A call that finds no such row changes nothing.   *)
EnterStop(t, e) ==
    /\ status[e] = "RUNNING"
    /\ template[e] \notin AzureTemplates
    /\ cur' = [cur EXCEPT ![t] = e]
    /\ ve' = [ve EXCEPT ![t] = 1]
    /\ last' = [last EXCEPT ![t] = Cardinality(Rows(e))]
    /\ pc' = [pc EXCEPT ![t] = IF alauda THEN "a_stop" ELSE "h_stop"]

StopExpr(t, e, op) ==
    /\ pc[t] = "idle"
    /\ EnterStop(t, e)
    /\ req' = [req EXCEPT ![t].op = op]
    /\ UNCHANGED <<exprVars, veVars, alauda, todo>>

StoppedStatus(t) == IF req[t].op = "delete" THEN "DELETED" ELSE "STOPPED"

----------------------------------------------------------------------------
(* __roll_back.  DockerHelper has no delete: the first virtual environment *)
(* whose provider is DOCKER ends the rollback with an exception.           *)

Rollback(t) ==
    /\ pc[t] = "rollback"
    /\ SetStatus(cur[t], "ROLL_BACKING")
    /\ Goto(t, "rollback_ves")
    /\ UNCHANGED <<veVars, alauda>>

RollbackVEs(t) ==
    LET e == cur[t] IN
    /\ pc[t] = "rollback_ves"
    /\ SetStatus(e, IF \E i \in Rows(e) : provider[e][i] = "DOCKER"
                    THEN "FAILED" ELSE "ROLL_BACKED")
    /\ Return(t)
    /\ UNCHANGED <<veVars, alauda>>

----------------------------------------------------------------------------
(* Mutant of RecycleTick: the list is not limited to RUNNING rows. *)
RecycleTickAny(t) ==
    /\ pc[t] = "idle"
    /\ \A s \in Threads : req[s].op # "recycle"
    /\ \E old \in SUBSET {e \in Exprs : status[e] # "NONE"} :
        /\ old # {}
        /\ todo' = old
    /\ req' = [req EXCEPT ![t].op = "recycle"]
    /\ pc' = [pc EXCEPT ![t] = "recycle"]
    /\ UNCHANGED <<exprVars, veVars, alauda, cur, ve, last>>

(* scheduler_recycle_expr.  APScheduler runs one instance of the job at a  *)
(* time.  create_time is the import time of the process that inserted the  *)
(* row, so which RUNNING rows are old enough is left open.                 *)

RecycleTick(t) ==
    /\ pc[t] = "idle"
    /\ \A s \in Threads : req[s].op # "recycle"
    /\ \E old \in SUBSET {e \in Exprs : status[e] = "RUNNING"} :
        /\ old # {}
        /\ todo' = old
    /\ req' = [req EXCEPT ![t].op = "recycle"]
    /\ pc' = [pc EXCEPT ![t] = "recycle"]
    /\ UNCHANGED <<exprVars, veVars, alauda, cur, ve, last>>

(* __recycle_expr on the next row of the list: stop_expr if a virtual      *)
(* environment is hosted, the assignment to the default user otherwise.    *)
RecycleNext(t) ==
    /\ pc[t] = "recycle"
    /\ \E e \in todo :
        /\ todo' = todo \ {e}
        /\ LET hosted == \E i \in Rows(e) : provider[e][i] = "DOCKER" IN
           \/ hosted /\ EnterStop(t, e)
           \/ /\ hosted /\ status[e] # "RUNNING"
              /\ UNCHANGED <<pc, cur, ve, last>>
           \/ /\ ~hosted
              /\ cur' = [cur EXCEPT ![t] = e]
              /\ pc' = [pc EXCEPT ![t] = "recycle_assign"]
              /\ UNCHANGED <<ve, last>>
    /\ UNCHANGED <<exprVars, veVars, alauda, req>>

RecycleAssign(t) ==
    /\ pc[t] = "recycle_assign"
    /\ owner' = [owner EXCEPT ![cur[t]] = DefaultUser]
    /\ Return(t)
    /\ UNCHANGED <<status, template, veVars, alauda>>

RecycleDone(t) ==
    /\ pc[t] = "recycle"
    /\ todo = {}
    /\ pc' = [pc EXCEPT ![t] = "idle"]
    /\ req' = [req EXCEPT ![t] = NoReq]
    /\ UNCHANGED <<exprVars, veVars, alauda, cur, ve, last, todo>>

----------------------------------------------------------------------------
(* An organiser changes the hackathon's basic info. *)
ToggleAlauda ==
    /\ alauda' \in AlaudaFlags \ {alauda}
    /\ UNCHANGED <<exprVars, veVars, threadVars>>

ManagerTypeOK ==
    /\ status \in [Exprs -> EStatus]
    /\ owner \in [Exprs -> Users \cup {DefaultUser, None}]
    /\ template \in [Exprs -> Templates \cup {None}]
    /\ veStatus \in [Exprs -> [VEs -> VEStatus]]
    /\ provider \in [Exprs -> [VEs -> {"DOCKER", "ALAUDA"}]]
    /\ alauda \in AlaudaFlags
    /\ req \in [Threads -> Requests]
    /\ cur \in [Threads -> Exprs \cup {None}]
    /\ ve \in [Threads -> 0..NumVE]
    /\ last \in [Threads -> 0..NumVE]
    /\ todo \in SUBSET Exprs
=============================================================================
