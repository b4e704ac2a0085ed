----------------------------- MODULE HostPorts -----------------------------
(***************************************************************************)
(* Which host ports HostedDockerFormation hands out                        *)
(* (hackathon/docker/hosted_docker.py, get_available_host_port): the ports *)
(* in use are read from the docker host, a free one is searched under a    *)
(* lock, and a cache of the ports handed out before stands in for          *)
(* containers that do not run yet.  The other steps of a start and a stop  *)
(* are reduced to what changes the number of STARTING experiments, the     *)
(* rows of port_binding or the ports that containers publish.              *)
(***************************************************************************)
EXTENDS Naturals, FiniteSets

CONSTANTS
    Threads,        \* threads of the server process
    Exprs,          \* ids the experiment table may use
    Hosts,          \* docker host servers
    NumPorts,       \* ports in the template of an experiment
    Wanted,         \* Wanted[i]: private port of the i-th one, plus 10000
    PortLimit,      \* 65535: from here on the host's ports are used up
    HostPortMaxNum, \* host_port_max_num
    Snapshots,      \* TRUE: a transaction reads one snapshot of the tables
                    \* (REPEATABLE READ); FALSE: the last commits
    Polls,          \* TRUE: the status of an experiment may be polled
    CanRestart,     \* TRUE: the server process may crash and restart
    None

ASSUME PortAssumption ==
    /\ NumPorts \in Nat \ {0}
    /\ PortLimit \in Nat
    /\ HostPortMaxNum \in Nat
    /\ Wanted \in [1..NumPorts -> Nat]
    /\ Snapshots \in BOOLEAN
    /\ Polls \in BOOLEAN
    /\ CanRestart \in BOOLEAN
    /\ None \notin Threads \cup Exprs \cup Hosts

VARIABLES
    status,    \* status[e]: column experiment.status
    host,      \* host[e]: the host of its container
    bound,     \* bound[e]: host ports of e in port_binding
    published, \* published[e]: host ports its running container publishes
    cache,     \* HostedDockerFormation.host_ports
    lock,      \* the thread that holds HostedDockerFormation.lock
    pc,        \* pc[t]: the next step of thread t
    cur,       \* cur[t]: the experiment it works on
    seen,      \* seen[t]: the ports the host reported to it last
    view,      \* view[t]: what the open transaction of t shows of the
               \* experiments that are STARTING: "some", or "none"
    next,      \* next[t]: index of the port it is looking for
    found,     \* found[t]: the port it has found under the lock
    got        \* got[t]: the ports its start has been given

rowVars == <<status, host, bound>>
threadVars == <<pc, cur, seen, view, next, found, got>>
vars == <<rowVars, published, cache, lock, threadVars>>

Statuses ==
    {"NONE", "STARTING", "RUNNING", "STOPPED", "FAILED", "UNEXPECTED_ERROR"}

LockedSteps == {"count", "clear", "append"}

Steps == {"idle", "look", "search", "bind", "run", "finish", "fail",
          "release", "stopped"} \cup LockedSteps

Ports == 0..PortLimit

Init ==
    /\ status = [e \in Exprs |-> "NONE"]
    /\ host = [e \in Exprs |-> None]
    /\ bound = [e \in Exprs |-> {}]
    /\ published = [e \in Exprs |-> {}]
    /\ cache = {}
    /\ lock = None
    /\ pc = [t \in Threads |-> "idle"]
    /\ cur = [t \in Threads |-> None]
    /\ seen = [t \in Threads |-> {}]
    /\ view = [t \in Threads |-> "fresh"]
    /\ next = [t \in Threads |-> 1]
    /\ found = [t \in Threads |-> 0]
    /\ got = [t \in Threads |-> {}]

Goto(t, step) == pc' = [pc EXCEPT ![t] = step]

SetStatus(e, s) == status' = [status EXCEPT ![e] = s]

(* What a query of t for STARTING experiments answers. *)
StartingSeen(t) ==
    IF view[t] # "fresh" THEN view[t]
    ELSE IF \E e \in Exprs : status[e] = "STARTING" THEN "some" ELSE "none"

(* Ports that the running containers on host h publish. *)
InUse(h) == UNION {published[e] : e \in {f \in Exprs : host[f] = h}}

----------------------------------------------------------------------------
(* start *)

(* The new experiment becomes STARTING, and its container gets a host. *)
BeginStart(t, e, h) ==
    /\ pc[t] = "idle"
    /\ status[e] = "NONE"
    /\ SetStatus(e, "STARTING")
    /\ host' = [host EXCEPT ![e] = h]
    /\ cur' = [cur EXCEPT ![t] = e]
    /\ next' = [next EXCEPT ![t] = 1]
    /\ got' = [got EXCEPT ![t] = {}]
    /\ view' = [view EXCEPT ![t] = "fresh"]
    /\ Goto(t, "look")
    /\ UNCHANGED <<bound, published, cache, lock, seen, found>>

(* The list of running containers, asked for before the lock is taken.     *)
(* The address of the host is read first, which begins the transaction.    *)
LookAtHost(t) ==
    /\ pc[t] = "look"
    /\ IF Snapshots THEN view' = [view EXCEPT ![t] = StartingSeen(t)]
                    ELSE UNCHANGED view
    /\ \/ /\ seen' = [seen EXCEPT ![t] = InUse(host[cur[t]])]
          /\ Goto(t, "search")
       \/ UNCHANGED seen /\ Goto(t, "fail")
    /\ UNCHANGED <<rowVars, published, cache, lock, cur, next, found, got>>

FirstFree(p, wanted, busy) ==
    /\ p \notin busy
    /\ \A q \in wanted..(p - 1) : q \in busy

(* Mutant of SearchPort: ports handed out before are not avoided.          *)
SearchHostOnly(t) ==
    /\ pc[t] = "search"
    /\ lock = None
    /\ \E p \in Wanted[next[t]]..(PortLimit - 1) :
            /\ FirstFree(p, Wanted[next[t]], seen[t])
            /\ found' = [found EXCEPT ![t] = p]
            /\ lock' = t
            /\ Goto(t, IF Cardinality(cache) >= HostPortMaxNum
                       THEN "count" ELSE "append")
    /\ UNCHANGED <<rowVars, published, cache, cur, seen, view, next, got>>

(* Mutant of SearchPort: the end of the ports is not noticed.              *)
SearchPastLimit(t) ==
    LET wanted == Wanted[next[t]] IN
    /\ pc[t] = "search"
    /\ lock = None
    /\ \E p \in wanted..(PortLimit + 1) :
            /\ FirstFree(p, wanted, seen[t] \cup cache)
            /\ found' = [found EXCEPT ![t] = p]
            /\ lock' = t
            /\ Goto(t, IF Cardinality(cache) >= HostPortMaxNum
                       THEN "count" ELSE "append")
    /\ UNCHANGED <<rowVars, published, cache, cur, seen, view, next, got>>

(* Acquire the lock and search.  The end of the ports is an exception.     *)
SearchPort(t) ==
    LET wanted == Wanted[next[t]]
        busy == seen[t] \cup cache
    IN
    /\ pc[t] = "search"
    /\ lock = None
    /\ \/ \E p \in wanted..(PortLimit - 1) :
            /\ FirstFree(p, wanted, busy)
            /\ found' = [found EXCEPT ![t] = p]
            /\ lock' = t
            /\ Goto(t, IF Cardinality(cache) >= HostPortMaxNum
                       THEN "count" ELSE "append")
       \/ /\ wanted..(PortLimit - 1) \subseteq busy
          /\ Goto(t, "fail")
          /\ UNCHANGED <<lock, found>>
    /\ UNCHANGED <<rowVars, published, cache, cur, seen, view, next, got>>

(* Mutant of CountStarting: the cache is cleared whoever is starting.      *)
CountNothing(t) ==
    /\ pc[t] = "count"
    /\ Goto(t, "clear")
    /\ view' = [view EXCEPT ![t] = "fresh"]
    /\ UNCHANGED <<rowVars, published, cache, lock, cur, seen, next, found,
                   got>>

(* The query is committed, which ends the transaction. *)
CountStarting(t) ==
    /\ pc[t] = "count"
    /\ Goto(t, IF StartingSeen(t) = "some" THEN "append" ELSE "clear")
    /\ view' = [view EXCEPT ![t] = "fresh"]
    /\ UNCHANGED <<rowVars, published, cache, lock, cur, seen, next, found,
                   got>>

ClearCache(t) ==
    /\ pc[t] = "clear"
    /\ cache' = {}
    /\ Goto(t, "append")
    /\ UNCHANGED <<rowVars, published, lock, cur, seen, view, next, found, got>>

(* Append, and release the lock. *)
AppendPort(t) ==
    /\ pc[t] = "append"
    /\ cache' = cache \cup {found[t]}
    /\ got' = [got EXCEPT ![t] = @ \cup {found[t]}]
    /\ lock' = None
    /\ \/ /\ next[t] < NumPorts
          /\ next' = [next EXCEPT ![t] = @ + 1]
          /\ Goto(t, "look")
       \/ /\ next[t] >= NumPorts
          /\ Goto(t, "bind")
          /\ UNCHANGED next
    /\ UNCHANGED <<rowVars, published, cur, seen, view, found>>

BindPorts(t) ==
    /\ pc[t] = "bind"
    /\ bound' = [bound EXCEPT ![cur[t]] = got[t]]
    /\ Goto(t, "run")
    /\ UNCHANGED <<status, host, published, cache, lock, cur, seen, view, next,
                   found, got>>

(* The docker daemon runs a container only if its ports are free.          *)
RunContainer(t) ==
    LET e == cur[t] IN
    /\ pc[t] = "run"
    /\ \/ /\ got[t] \cap InUse(host[e]) = {}
          /\ published' = [published EXCEPT ![e] = got[t]]
          /\ Goto(t, "finish") \/ Goto(t, "fail")
       \/ UNCHANGED published /\ Goto(t, "fail")
    /\ UNCHANGED <<rowVars, cache, lock, cur, seen, view, next, found, got>>

(* A start ends RUNNING, or FAILED with whatever it has made so far.       *)
EndStart(t) ==
    /\ \/ pc[t] = "finish" /\ SetStatus(cur[t], "RUNNING")
       \/ pc[t] = "fail" /\ SetStatus(cur[t], "FAILED")
    /\ Goto(t, "idle")
    /\ UNCHANGED <<host, bound, published, cache, lock, cur, seen, view, next,
                   found, got>>

----------------------------------------------------------------------------
(* stop *)

(* The container's ports are free before its rows are deleted. *)
StopContainer(t, e) ==
    /\ pc[t] = "idle"
    /\ status[e] = "RUNNING"
    /\ published' = [published EXCEPT ![e] = {}]
    /\ cur' = [cur EXCEPT ![t] = e]
    /\ got' = [got EXCEPT ![t] = {}]
    /\ Goto(t, "release")
    /\ UNCHANGED <<rowVars, cache, lock, seen, view, next, found>>

ReleasePorts(t) ==
    /\ pc[t] = "release"
    /\ bound' = [bound EXCEPT ![cur[t]] = {}]
    /\ Goto(t, "stopped")
    /\ UNCHANGED <<status, host, published, cache, lock, cur, seen, view, next,
                   found, got>>

SetStopped(t) ==
    /\ pc[t] = "stopped"
    /\ SetStatus(cur[t], "STOPPED")
    /\ Goto(t, "idle")
    /\ UNCHANGED <<host, bound, published, cache, lock, cur, seen, view, next,
                   found, got>>

----------------------------------------------------------------------------
(* The environment *)

(* __report_expr_status has found a container not to run (or its host not  *)
(* to answer) and marks the experiment, whatever its status.               *)
PollExpr(e) ==
    /\ Polls
    /\ status[e] # "NONE"
    /\ SetStatus(e, "UNEXPECTED_ERROR")
    /\ UNCHANGED <<host, bound, published, cache, lock, threadVars>>

(* A container exits by itself. *)
ContainerExits(e) ==
    /\ published[e] # {}
    /\ published' = [published EXCEPT ![e] = {}]
    /\ UNCHANGED <<rowVars, cache, lock, threadVars>>

(* The cache and the lock live in the process. *)
Restart ==
    /\ CanRestart
    /\ cache' = {}
    /\ lock' = None
    /\ pc' = [t \in Threads |-> "idle"]
    /\ cur' = [t \in Threads |-> None]
    /\ got' = [t \in Threads |-> {}]
    /\ seen' = [t \in Threads |-> {}]
    /\ view' = [t \in Threads |-> "fresh"]
    /\ UNCHANGED <<rowVars, published, next, found>>

----------------------------------------------------------------------------

(* Bound: every id is used up, and nobody works. *)
Exhausted ==
    /\ \A t \in Threads : pc[t] = "idle"
    /\ \A e \in Exprs : status[e] # "NONE"
    /\ UNCHANGED vars

Assign(t) ==
    \/ LookAtHost(t) \/ SearchPort(t) \/ CountStarting(t) \/ ClearCache(t)
    \/ AppendPort(t) \/ BindPorts(t)

Next ==
    \/ \E t \in Threads :
        \/ \E e \in Exprs, h \in Hosts : BeginStart(t, e, h)
        \/ Assign(t) \/ RunContainer(t) \/ EndStart(t)
        \/ \E e \in Exprs : StopContainer(t, e)
        \/ ReleasePorts(t) \/ SetStopped(t)
    \/ \E e \in Exprs : PollExpr(e) \/ ContainerExits(e)
    \/ Restart
    \/ Exhausted

Spec == Init /\ [][Next]_vars

----------------------------------------------------------------------------

TypeOK ==
    /\ status \in [Exprs -> Statuses]
    /\ host \in [Exprs -> Hosts \cup {None}]
    /\ bound \in [Exprs -> SUBSET Ports]
    /\ published \in [Exprs -> SUBSET Ports]
    /\ cache \in SUBSET Ports
    /\ lock \in Threads \cup {None}
    /\ pc \in [Threads -> Steps]
    /\ cur \in [Threads -> Exprs \cup {None}]
    /\ seen \in [Threads -> SUBSET Ports]
    /\ view \in [Threads -> {"fresh", "some", "none"}]
    /\ next \in [Threads -> 1..NumPorts]
    /\ found \in [Threads -> Ports]
    /\ got \in [Threads -> SUBSET Ports]

BuildSteps == {"look", "search", "bind", "run", "finish"} \cup LockedSteps

(* Thread t builds an experiment that is still counted as STARTING. *)
Counted(t) == pc[t] \in BuildSteps /\ status[cur[t]] = "STARTING"

(* If queries see the last commits, two starts whose experiments are       *)
(* STARTING never hold the same host port, also on different hosts and     *)
(* however polls, clearings of the cache, exits and restarts interleave:   *)
(* get_available_host_port, with the host looked at outside the lock.      *)
StartingPortsDistinct ==
    \A s, t \in Threads :
        s # t /\ Counted(s) /\ Counted(t) => got[s] \cap got[t] = {}

(* While nothing polls and the process lives, no host port has two rows of *)
(* port_binding at a time: the bindings of every experiment, from its      *)
(* start to the release by its stop, are its own.                          *)
BindingsDistinct ==
    \A e, f \in Exprs : e # f => bound[e] \cap bound[f] = {}

----------------------------------------------------------------------------
(* Why StartingPortsDistinct holds: an invariant that is inductive         *)
(* together with the types.                                                *)

(* Unless transactions read snapshots, none does. *)
ViewsFresh == \A t \in Threads : view[t] = "fresh"

(* Whatever a thread works on has been inserted. *)
KnownExprs ==
    \A t \in Threads :
        pc[t] # "idle" => cur[t] \in Exprs /\ status[cur[t]] # "NONE"

(* The lock is held by the one thread between its search and its append.   *)
LockHeld == \A t \in Threads : (lock = t) <=> pc[t] \in LockedSteps

(* Two starts build two experiments. *)
BuildsApart ==
    \A s, t \in Threads :
        s # t /\ pc[s] \in BuildSteps /\ pc[t] \in BuildSteps
            => cur[s] # cur[t]

(* The cache has the ports of every start that is counted. *)
CacheCovers == \A t \in Threads : Counted(t) => got[t] \subseteq cache

(* The port found under the lock is new. *)
FoundIsNew == \A t \in Threads : pc[t] \in LockedSteps => found[t] \notin cache

(* The cache is cleared only when no start that is counted holds a port,   *)
(* although starts may begin between the count and the clearing: if we     *)
(* "release ports now, the new ports will be lost" (__clear_ports_cache).  *)
(* Where transactions read snapshots, the code does not keep this.         *)
ClearIsSafe ==
    \A s, t \in Threads : pc[t] = "clear" /\ Counted(s) => got[s] = {}

PortsInv ==
    /\ ViewsFresh
    /\ KnownExprs
    /\ LockHeld
    /\ BuildsApart
    /\ CacheCovers
    /\ FoundIsNew
    /\ ClearIsSafe
    /\ StartingPortsDistinct

----------------------------------------------------------------------------
(* What get_available_host_port documents, and the code does not do. *)

(* "We use double operation to ensure ports not conflicted": two starts    *)
(* never hold the same port.                                               *)
BuildingPortsDistinct ==
    \A s, t \in Threads :
        s # t /\ pc[s] \in BuildSteps /\ pc[t] \in BuildSteps
            => got[s] \cap got[t] = {}
=============================================================================
