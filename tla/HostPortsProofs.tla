-------------------------- MODULE HostPortsProofs --------------------------
(***************************************************************************)
(* HostPorts, for any number of threads, experiments, hosts and ports.     *)
(* The types hold always.  Two starts that are counted as STARTING never   *)
(* hold the same host port, provided that queries see the last commits     *)
(* (PortsInv).  No two experiments have bound the same host port while     *)
(* nothing polls and the process lives, whatever queries see (PeaceInv).   *)
(***************************************************************************)
EXTENDS HostPorts, TLAPS

----------------------------------------------------------------------------
(* Types, and that whatever a thread works on has been inserted: whether   *)
(* transactions read snapshots or not.                                     *)

Typed == TypeOK /\ KnownExprs

LEMMA InitTyped == Init => Typed
  BY PortAssumption DEF Init, Typed, TypeOK, KnownExprs, Steps, Statuses, Ports

(* Used ports are ports. *)
LEMMA InUseType ==
    ASSUME TypeOK, NEW h PROVE InUse(h) \in SUBSET Ports
  BY DEF TypeOK, InUse

(* The port that is found is below the limit. *)
LEMMA SearchTyped ==
    ASSUME Typed, NEW t \in Threads, SearchPort(t) PROVE TypeOK'
  <1>1. next[t] \in 1..NumPorts /\ UNCHANGED <<rowVars, published, cache, cur,
                                               seen, view, next, got>>
    BY DEF Typed, TypeOK, SearchPort
  <1>2. lock' \in Threads \cup {None} /\ found' \in [Threads -> Ports]
    <2>1. \A p \in Wanted[next[t]]..(PortLimit - 1) : p \in Ports
      BY <1>1, PortAssumption DEF Ports
    <2> QED BY <2>1 DEF Typed, TypeOK, SearchPort
  <1>3. pc' \in [Threads -> Steps]
    BY DEF Typed, TypeOK, SearchPort, Goto, Steps, LockedSteps
  <1> QED BY <1>1, <1>2, <1>3 DEF Typed, TypeOK, rowVars

LEMMA AppendTyped ==
    ASSUME Typed, NEW t \in Threads, AppendPort(t) PROVE TypeOK'
  <1>1. found[t] \in Ports /\ next[t] \in 1..NumPorts /\ NumPorts \in Nat
    BY PortAssumption DEF Typed, TypeOK
  <1>2. cache' \in SUBSET Ports /\ got' \in [Threads -> SUBSET Ports]
    BY <1>1 DEF Typed, TypeOK, AppendPort
  <1>3. next' \in [Threads -> 1..NumPorts]
    <2>1. CASE next[t] < NumPorts /\ next' = [next EXCEPT ![t] = @ + 1]
      <3>1. next[t] + 1 \in 1..NumPorts
        BY <1>1, <2>1
      <3> QED BY <2>1, <3>1 DEF Typed, TypeOK
    <2> QED BY <2>1 DEF Typed, TypeOK, AppendPort
  <1>4. pc' \in [Threads -> Steps] /\ lock' = None
    BY DEF Typed, TypeOK, AppendPort, Goto, Steps
  <1> QED BY <1>2, <1>3, <1>4 DEF Typed, TypeOK, AppendPort, rowVars

LEMMA LookTyped ==
    ASSUME Typed, NEW t \in Threads, LookAtHost(t) PROVE TypeOK'
  <1>1. seen' \in [Threads -> SUBSET Ports]
    BY InUseType DEF Typed, TypeOK, LookAtHost
  <1>2. view' \in [Threads -> {"fresh", "some", "none"}]
    BY DEF Typed, TypeOK, LookAtHost, StartingSeen
  <1>3. pc' \in [Threads -> Steps]
    BY DEF Typed, TypeOK, LookAtHost, Goto, Steps
  <1> QED BY <1>1, <1>2, <1>3 DEF Typed, TypeOK, LookAtHost, rowVars

LEMMA NextTyped == ASSUME Typed, [Next]_vars PROVE Typed'
  <1> USE DEF Typed, Goto, SetStatus, rowVars
  <1>1. TypeOK'
    <2>1. ASSUME NEW t \in Threads, NEW e \in Exprs, NEW h \in Hosts,
                 BeginStart(t, e, h)
          PROVE  TypeOK'
      BY <2>1, PortAssumption DEF TypeOK, BeginStart, Statuses, Steps
    <2>2. ASSUME NEW t \in Threads, Assign(t) PROVE TypeOK'
      <3>1. CASE CountStarting(t)
        BY <3>1 DEF TypeOK, CountStarting, Steps, LockedSteps
      <3>2. CASE ClearCache(t)
        BY <3>2 DEF TypeOK, ClearCache, Steps, LockedSteps
      <3>3. CASE BindPorts(t)
        BY <3>3 DEF TypeOK, KnownExprs, BindPorts, Steps
      <3> QED
        BY <2>2, <3>1, <3>2, <3>3, LookTyped, SearchTyped, AppendTyped
           DEF Assign
    <2>3. ASSUME NEW t \in Threads, RunContainer(t) PROVE TypeOK'
      BY <2>3 DEF TypeOK, KnownExprs, RunContainer, Steps
    <2>4. ASSUME NEW t \in Threads, EndStart(t) PROVE TypeOK'
      BY <2>4 DEF TypeOK, KnownExprs, EndStart, Steps, Statuses
    <2>5. ASSUME NEW t \in Threads, NEW e \in Exprs, StopContainer(t, e)
          PROVE  TypeOK'
      BY <2>5 DEF TypeOK, StopContainer, Steps
    <2>6. ASSUME NEW t \in Threads, ReleasePorts(t) PROVE TypeOK'
      BY <2>6 DEF TypeOK, KnownExprs, ReleasePorts, Steps
    <2>7. ASSUME NEW t \in Threads, SetStopped(t) PROVE TypeOK'
      BY <2>7 DEF TypeOK, KnownExprs, SetStopped, Steps, Statuses
    <2>8. ASSUME NEW e \in Exprs, PollExpr(e) \/ ContainerExits(e)
          PROVE  TypeOK'
      BY <2>8 DEF TypeOK, PollExpr, ContainerExits, threadVars, Statuses
    <2>9. CASE Restart
      BY <2>9 DEF TypeOK, Restart, Steps
    <2>10. CASE UNCHANGED vars
      BY <2>10 DEF TypeOK, vars, threadVars
    <2> QED
      BY <2>1, <2>2, <2>3, <2>4, <2>5, <2>6, <2>7, <2>8, <2>9, <2>10
         DEF Next, Exhausted
  <1>2. KnownExprs'
    <2>1. ASSUME NEW t \in Threads, NEW e \in Exprs, NEW h \in Hosts,
                 BeginStart(t, e, h)
          PROVE  KnownExprs'
      BY <2>1 DEF TypeOK, KnownExprs, BeginStart
    <2>2. ASSUME NEW t \in Threads, Assign(t) PROVE KnownExprs'
      BY <2>2 DEF TypeOK, KnownExprs, Assign, LookAtHost, SearchPort,
         CountStarting, ClearCache, AppendPort, BindPorts
    <2>3. ASSUME NEW t \in Threads,
                 RunContainer(t) \/ EndStart(t) \/ ReleasePorts(t)
                     \/ SetStopped(t)
          PROVE  KnownExprs'
      BY <2>3 DEF TypeOK, KnownExprs, RunContainer, EndStart, ReleasePorts,
         SetStopped
    <2>4. ASSUME NEW t \in Threads, NEW e \in Exprs, StopContainer(t, e)
          PROVE  KnownExprs'
      BY <2>4 DEF TypeOK, KnownExprs, StopContainer
    <2>5. ASSUME NEW e \in Exprs, PollExpr(e) \/ ContainerExits(e)
          PROVE  KnownExprs'
      BY <2>5 DEF TypeOK, KnownExprs, PollExpr, ContainerExits, threadVars
    <2>6. CASE Restart
      BY <2>6 DEF KnownExprs, Restart
    <2>7. CASE UNCHANGED vars
      BY <2>7 DEF KnownExprs, vars, threadVars
    <2> QED
      BY <2>1, <2>2, <2>3, <2>4, <2>5, <2>6, <2>7 DEF Next, Exhausted
  <1> QED BY <1>1, <1>2

----------------------------------------------------------------------------
(* Starts that are counted hold different ports, if queries see the last   *)
(* commits: what the initial states and each kind of step do.              *)

Inv == TypeOK /\ PortsInv

LEMMA PortsInit == Init => PortsInv
  BY PortAssumption
     DEF Init, PortsInv, ViewsFresh, KnownExprs, LockHeld, BuildsApart,
     CacheCovers, FoundIsNew, ClearIsSafe, StartingPortsDistinct, Counted,
     BuildSteps, LockedSteps

(* Most steps give nobody a port and make nobody STARTING. *)
Quiet ==
    /\ UNCHANGED <<cache, lock, found>>
    /\ \A t \in Threads :
        /\ view'[t] \in {view[t], "fresh"}
        /\ pc[t] \in LockedSteps \/ pc'[t] \in LockedSteps => pc'[t] = pc[t]
        /\ pc'[t] \in BuildSteps =>
                pc[t] \in BuildSteps /\ cur'[t] = cur[t] /\ got'[t] = got[t]
        /\ pc'[t] # "idle" => cur'[t] \in Exprs /\ status'[cur'[t]] # "NONE"
    /\ \A e \in Exprs : status'[e] = "STARTING" => status[e] = "STARTING"

LEMMA QuietKeeps == ASSUME Inv, Quiet PROVE PortsInv'
  <1>1. \A t \in Threads : Counted(t)' =>
            Counted(t) /\ cur'[t] = cur[t] /\ got'[t] = got[t]
    <2> SUFFICES ASSUME NEW t \in Threads, Counted(t)'
                 PROVE  Counted(t) /\ cur'[t] = cur[t] /\ got'[t] = got[t]
      OBVIOUS
    <2>1. /\ pc'[t] \in BuildSteps /\ pc'[t] # "idle"
          /\ status'[cur'[t]] = "STARTING"
      BY DEF Counted, BuildSteps, LockedSteps
    <2>2. /\ pc[t] \in BuildSteps /\ cur'[t] = cur[t] /\ got'[t] = got[t]
          /\ cur'[t] \in Exprs
      BY <2>1 DEF Quiet
    <2>3. status[cur[t]] = "STARTING"
      BY <2>1, <2>2 DEF Quiet
    <2> QED BY <2>2, <2>3 DEF Counted
  <1>2. (ViewsFresh /\ KnownExprs /\ LockHeld /\ BuildsApart)'
    BY DEF Inv, PortsInv, Quiet, ViewsFresh, KnownExprs, LockHeld, BuildsApart
  <1>3. (CacheCovers /\ FoundIsNew /\ StartingPortsDistinct)'
    BY <1>1 DEF Inv, PortsInv, Quiet, CacheCovers, FoundIsNew,
       StartingPortsDistinct
  <1>4. ClearIsSafe'
    BY <1>1 DEF Inv, PortsInv, Quiet, ClearIsSafe, LockedSteps
  <1> QED BY <1>2, <1>3, <1>4 DEF PortsInv

(* The steps that begin a start, and those under the lock. *)
LEMMA StartKeeps ==
    ASSUME Inv, NEW t \in Threads, NEW e \in Exprs, NEW h \in Hosts,
           BeginStart(t, e, h)
    PROVE  PortsInv'
  BY PortAssumption
     DEF Inv, TypeOK, PortsInv, BeginStart, SetStatus, Goto, KnownExprs,
     LockHeld, ViewsFresh, BuildsApart, CacheCovers, FoundIsNew, ClearIsSafe,
     StartingPortsDistinct, Counted, BuildSteps, LockedSteps, Steps, Statuses

LEMMA SearchKeeps ==
    ASSUME Inv, NEW t \in Threads, SearchPort(t) PROVE PortsInv'
  <1>1. /\ pc[t] = "search" /\ lock = None /\ next[t] \in 1..NumPorts
        /\ UNCHANGED <<status, cache, cur, view, got>>
        /\ \A s \in Threads : pc[s] \notin LockedSteps
    BY PortAssumption DEF Inv, TypeOK, PortsInv, LockHeld, SearchPort, rowVars
  <1>2. CASE \E p \in Wanted[next[t]]..(PortLimit - 1) :
                /\ p \notin cache
                /\ found' = [found EXCEPT ![t] = p]
                /\ lock' = t
                /\ Goto(t, "count") \/ Goto(t, "append")
    <2>1. PICK p \in Wanted[next[t]]..(PortLimit - 1) :
                /\ p \notin cache
                /\ found' = [found EXCEPT ![t] = p]
                /\ lock' = t
                /\ Goto(t, "count") \/ Goto(t, "append")
      BY <1>2
    <2>2. FoundIsNew'
      BY <1>1, <2>1 DEF Inv, TypeOK, FoundIsNew, Goto
    <2>3. (ViewsFresh /\ LockHeld /\ KnownExprs)'
      BY <1>1, <2>1, PortAssumption DEF Inv, TypeOK, PortsInv, ViewsFresh,
         KnownExprs, LockHeld, Goto, LockedSteps
    <2>4. \A s \in Threads : pc'[s] \in BuildSteps <=> pc[s] \in BuildSteps
      BY <1>1, <2>1 DEF Inv, TypeOK, Goto, BuildSteps, LockedSteps
    <2>5. (BuildsApart /\ CacheCovers /\ StartingPortsDistinct)'
      BY <1>1, <2>4 DEF Inv, PortsInv, BuildsApart, CacheCovers,
         StartingPortsDistinct, Counted
    <2>6. ClearIsSafe'
      BY <1>1, <2>1 DEF Inv, TypeOK, ClearIsSafe, Goto, LockedSteps
    <2> QED BY <2>2, <2>3, <2>5, <2>6 DEF PortsInv
  <1>3. CASE Goto(t, "fail") /\ UNCHANGED <<lock, found>>
    <2>1. Quiet
      BY <1>1, <1>3 DEF Inv, TypeOK, PortsInv, KnownExprs, Quiet, Goto,
         BuildSteps, LockedSteps
    <2> QED BY <2>1, QuietKeeps
  <1> QED BY <1>2, <1>3 DEF SearchPort, FirstFree

LEMMA CountKeeps ==
    ASSUME Inv, NEW t \in Threads, CountStarting(t) PROVE PortsInv'
  <1>1. /\ pc[t] = "count" /\ pc'[t] \in {"clear", "append"}
        /\ \A s \in Threads \ {t} : pc'[s] = pc[s]
        /\ UNCHANGED <<status, cache, lock, cur, found, got>>
        /\ \A s \in Threads : view'[s] \in {view[s], "fresh"}
    BY DEF Inv, TypeOK, CountStarting, Goto, rowVars
  <1>2. pc'[t] = "clear" => \A e \in Exprs : status[e] # "STARTING"
    BY DEF Inv, TypeOK, PortsInv, ViewsFresh, CountStarting, Goto, StartingSeen
  <1>3. \A s \in Threads : Counted(s)' <=> Counted(s)
    BY <1>1 DEF Counted, BuildSteps, LockedSteps
  <1>4. (ViewsFresh /\ KnownExprs /\ LockHeld /\ BuildsApart)'
    BY <1>1 DEF Inv, PortsInv, ViewsFresh, KnownExprs, LockHeld, BuildsApart,
       BuildSteps, LockedSteps
  <1>5. (CacheCovers /\ FoundIsNew /\ StartingPortsDistinct)'
    BY <1>1, <1>3 DEF Inv, PortsInv, CacheCovers, FoundIsNew,
       StartingPortsDistinct, LockedSteps
  <1>6. ClearIsSafe'
    BY <1>1, <1>2, <1>3 DEF Inv, PortsInv, ClearIsSafe, KnownExprs, Counted,
       BuildSteps, LockedSteps
  <1> QED BY <1>4, <1>5, <1>6 DEF PortsInv

LEMMA ClearKeeps ==
    ASSUME Inv, NEW t \in Threads, ClearCache(t) PROVE PortsInv'
  BY DEF Inv, TypeOK, PortsInv, ClearCache, Goto, KnownExprs, rowVars,
     LockHeld, ViewsFresh, BuildsApart, CacheCovers, FoundIsNew, ClearIsSafe,
     StartingPortsDistinct, Counted, BuildSteps, LockedSteps, Steps

LEMMA AppendKeeps ==
    ASSUME Inv, NEW t \in Threads, AppendPort(t) PROVE PortsInv'
  <1>1. /\ pc[t] = "append" /\ lock = t /\ found[t] \notin cache
        /\ \A s \in Threads \ {t} : pc[s] \notin LockedSteps
    BY DEF Inv, PortsInv, LockHeld, FoundIsNew, AppendPort, LockedSteps
  <1>2. /\ cache' = cache \cup {found[t]}
        /\ got'[t] = got[t] \cup {found[t]}
        /\ \A s \in Threads \ {t} : got'[s] = got[s]
        /\ UNCHANGED <<status, cur, view>>
    BY DEF Inv, TypeOK, AppendPort, rowVars
  <1>3. /\ pc'[t] \in {"look", "bind"}
        /\ \A s \in Threads \ {t} : pc'[s] = pc[s]
    BY DEF Inv, TypeOK, AppendPort, Goto
  <1>4. (ViewsFresh /\ KnownExprs /\ BuildsApart)'
    BY <1>1, <1>2, <1>3 DEF Inv, PortsInv, ViewsFresh, KnownExprs, BuildsApart,
       BuildSteps, LockedSteps
  <1>5. LockHeld' /\ FoundIsNew' /\ ClearIsSafe'
    BY <1>1, <1>3, PortAssumption DEF AppendPort, LockHeld, FoundIsNew,
       ClearIsSafe, LockedSteps
  <1>6. \A s \in Threads : Counted(s)' => Counted(s)
    BY <1>1, <1>2, <1>3 DEF Counted, BuildSteps, LockedSteps
  <1>7. CacheCovers'
    BY <1>2, <1>6 DEF Inv, PortsInv, CacheCovers
  <1>8. StartingPortsDistinct'
    <2> SUFFICES ASSUME NEW r \in Threads, NEW s \in Threads, r # s,
                        Counted(r), Counted(s)
                 PROVE  got'[r] \cap got'[s] = {}
      BY <1>6 DEF StartingPortsDistinct
    <2>1. /\ got[r] \cap got[s] = {}
          /\ got[r] \subseteq cache /\ got[s] \subseteq cache
      BY DEF Inv, PortsInv, StartingPortsDistinct, CacheCovers
    <2>2. CASE r = t
      <3>1. got'[r] = got[r] \cup {found[t]} /\ got'[s] = got[s]
        BY <1>2, <2>2
      <3> QED BY <1>1, <2>1, <3>1
    <2>3. CASE s = t
      <3>1. got'[s] = got[s] \cup {found[t]} /\ got'[r] = got[r]
        BY <1>2, <2>3
      <3> QED BY <1>1, <2>1, <3>1
    <2>4. CASE r # t /\ s # t
      BY <1>2, <2>1, <2>4
    <2> QED BY <2>2, <2>3, <2>4
  <1> QED BY <1>4, <1>5, <1>7, <1>8 DEF PortsInv

(* The steps of a start outside the lock, of a stop, and of everything else *)
(* but a restart are quiet.                                                *)
LEMMA LookKeeps ==
    ASSUME Inv, Snapshots = FALSE, NEW t \in Threads, LookAtHost(t)
    PROVE  PortsInv'
  <1>1. Quiet
    BY DEF Inv, TypeOK, PortsInv, KnownExprs, Quiet, LookAtHost, Goto, Steps,
       BuildSteps, LockedSteps, rowVars
  <1> QED BY <1>1, QuietKeeps

LEMMA BindKeeps ==
    ASSUME Inv, NEW t \in Threads, BindPorts(t) PROVE PortsInv'
  <1>1. Quiet
    BY DEF Inv, TypeOK, PortsInv, KnownExprs, Quiet, BindPorts, Goto,
       Steps, BuildSteps, LockedSteps, Statuses, rowVars
  <1> QED BY <1>1, QuietKeeps

LEMMA RunKeeps ==
    ASSUME Inv, NEW t \in Threads, RunContainer(t) PROVE PortsInv'
  <1>1. Quiet
    BY DEF Inv, TypeOK, PortsInv, KnownExprs, Quiet, RunContainer, Goto,
       Steps, BuildSteps, LockedSteps, Statuses, rowVars
  <1> QED BY <1>1, QuietKeeps

LEMMA EndKeeps ==
    ASSUME Inv, NEW t \in Threads, EndStart(t) PROVE PortsInv'
  <1>1. Quiet
    BY DEF Inv, TypeOK, PortsInv, KnownExprs, Quiet, EndStart, SetStatus, Goto,
       Steps, BuildSteps, LockedSteps, Statuses, rowVars
  <1> QED BY <1>1, QuietKeeps

LEMMA StopKeeps ==
    ASSUME Inv, NEW t \in Threads, NEW e \in Exprs, StopContainer(t, e)
    PROVE  PortsInv'
  <1>1. Quiet
    BY DEF Inv, TypeOK, PortsInv, KnownExprs, Quiet, StopContainer, Goto,
       Steps, BuildSteps, LockedSteps, Statuses, rowVars
  <1> QED BY <1>1, QuietKeeps

LEMMA ReleaseKeeps ==
    ASSUME Inv, NEW t \in Threads, ReleasePorts(t) PROVE PortsInv'
  <1>1. Quiet
    BY DEF Inv, TypeOK, PortsInv, KnownExprs, Quiet, ReleasePorts, Goto,
       Steps, BuildSteps, LockedSteps, Statuses, rowVars
  <1> QED BY <1>1, QuietKeeps

LEMMA StoppedKeeps ==
    ASSUME Inv, NEW t \in Threads, SetStopped(t) PROVE PortsInv'
  <1>1. Quiet
    BY DEF Inv, TypeOK, PortsInv, KnownExprs, Quiet, SetStopped, SetStatus,
       Goto, Steps, BuildSteps, LockedSteps, Statuses, rowVars
  <1> QED BY <1>1, QuietKeeps

LEMMA PollKeeps ==
    ASSUME Inv, NEW e \in Exprs, PollExpr(e) \/ ContainerExits(e)
    PROVE  PortsInv'
  <1>1. Quiet
    BY DEF Inv, TypeOK, PortsInv, KnownExprs, Quiet, PollExpr,
       ContainerExits, SetStatus, threadVars, Steps, BuildSteps, LockedSteps,
       Statuses, rowVars
  <1> QED BY <1>1, QuietKeeps

LEMMA StutterKeeps ==
    ASSUME Inv, UNCHANGED vars PROVE PortsInv'
  <1>1. Quiet
    BY DEF Inv, TypeOK, PortsInv, KnownExprs, Quiet, vars, threadVars,
       Steps, BuildSteps, LockedSteps, Statuses, rowVars
  <1> QED BY <1>1, QuietKeeps

LEMMA RestartKeeps ==
    ASSUME Inv, Restart PROVE PortsInv'
  BY PortAssumption
     DEF PortsInv, Restart, KnownExprs, LockHeld, ViewsFresh, BuildsApart,
     CacheCovers, FoundIsNew, ClearIsSafe, StartingPortsDistinct, Counted,
     BuildSteps, LockedSteps

----------------------------------------------------------------------------

LEMMA InvAlways == ASSUME Snapshots = FALSE PROVE Spec => []Inv
  <1>1. Init => Inv
    BY InitTyped, PortsInit DEF Inv, Typed
  <1>2. Inv /\ [Next]_vars => Inv'
    <2> SUFFICES ASSUME Inv, [Next]_vars PROVE Inv'
      OBVIOUS
    <2>1. TypeOK'
      BY NextTyped DEF Inv, Typed, PortsInv
    <2>2. PortsInv'
      BY StartKeeps, SearchKeeps, CountKeeps, ClearKeeps, AppendKeeps,
         LookKeeps, BindKeeps, RunKeeps, EndKeeps, StopKeeps, ReleaseKeeps,
         StoppedKeeps, PollKeeps, StutterKeeps, RestartKeeps
         DEF Next, Assign, Exhausted
    <2> QED BY <2>1, <2>2 DEF Inv
  <1> QED BY <1>1, <1>2, PTL DEF Spec

(* The columns, the cache and the local variables of the threads stay      *)
(* within their types; in particular the search never hands out a port at  *)
(* or above the limit.                                                     *)
THEOREM PortsTypeCorrect == Spec => []TypeOK
  <1>1. Typed => TypeOK
    BY DEF Typed
  <1> QED BY InitTyped, NextTyped, <1>1, PTL DEF Spec

(* Two starts whose experiments are STARTING never hold the same host      *)
(* port, although the host is looked at before the lock is taken, the      *)
(* cache is cleared, polls mark experiments and the process restarts,      *)
(* provided that queries see the last commits.                             *)
THEOREM StartsGetDistinctPorts ==
    ASSUME Snapshots = FALSE PROVE Spec => []StartingPortsDistinct
  BY InvAlways, PTL DEF Inv, PortsInv

(* The ports invariant itself, which the runs check: the cache has every   *)
(* port of a start that counts, and what is found under the lock is new.   *)
THEOREM PortsInvariant == ASSUME Snapshots = FALSE PROVE Spec => []PortsInv
  BY InvAlways, PTL DEF Inv

----------------------------------------------------------------------------
(* Bindings are distinct while nothing polls and the process lives.        *)

(* Steps of a start; unlike BuildSteps also its failure. *)
StartSteps == BuildSteps \cup {"fail"}

(* An experiment is STARTING to the end of its start, and whoever builds   *)
(* one sees it: no start finds that nothing is STARTING.                   *)
StartsSeen ==
    \A t \in Threads :
        /\ pc[t] \in StartSteps =>
               status[cur[t]] = "STARTING" /\ view[t] # "none"
        /\ pc[t] \in {"release", "stopped"} => status[cur[t]] # "STARTING"

NeverCleared == \A t \in Threads : pc[t] # "clear"

(* The cache has all ports that are held or bound. *)
CacheHasAll ==
    /\ \A t \in Threads : pc[t] \in StartSteps => got[t] \subseteq cache
    /\ \A e \in Exprs : bound[e] \subseteq cache

(* The ports of a start are nobody else's. *)
StartsApart ==
    \A s, t \in Threads :
        s # t /\ pc[s] \in StartSteps /\ pc[t] \in StartSteps
            => cur[s] # cur[t] /\ got[s] \cap got[t] = {}

GotIsOwn ==
    \A t \in Threads, e \in Exprs :
        pc[t] \in StartSteps /\ e # cur[t] => got[t] \cap bound[e] = {}

PeaceInv ==
    /\ LockHeld
    /\ FoundIsNew
    /\ StartsSeen
    /\ NeverCleared
    /\ CacheHasAll
    /\ StartsApart
    /\ GotIsOwn
    /\ BindingsDistinct

Peaceful == Typed /\ PeaceInv

LEMMA InitPeaceful == Init => Peaceful
  BY InitTyped, PortAssumption
     DEF Init, Peaceful, PeaceInv, LockHeld, FoundIsNew, StartsSeen,
     NeverCleared, CacheHasAll, StartsApart, GotIsOwn, BindingsDistinct,
     StartSteps, BuildSteps, LockedSteps

(* Most steps leave the cache, the lock and the ports of the starts alone, *)
(* bind nothing and make nothing STARTING.                                 *)
Calm ==
    /\ UNCHANGED <<cache, lock, found>>
    /\ \A e \in Exprs : /\ bound'[e] \subseteq bound[e]
                        /\ status'[e] = "STARTING" => status[e] = "STARTING"
    /\ \A t \in Threads :
        /\ pc'[t] # "clear"
        /\ pc'[t] \in LockedSteps <=> pc[t] \in LockedSteps
        /\ pc'[t] \in StartSteps =>
              /\ pc[t] \in StartSteps /\ cur'[t] = cur[t] /\ got'[t] = got[t]
              /\ status'[cur[t]] = "STARTING" /\ view'[t] # "none"
        /\ pc'[t] \in {"release", "stopped"} =>
              /\ cur'[t] \in Exprs
              /\ \/ status[cur'[t]] # "STARTING"
                 \/ pc[t] \in {"release", "stopped"} /\ cur'[t] = cur[t]

LEMMA CalmKeeps == ASSUME Peaceful, Calm PROVE PeaceInv'
  <1> USE DEF Peaceful, PeaceInv
  <1>1. (LockHeld /\ FoundIsNew /\ NeverCleared)'
    BY DEF Calm, LockHeld, FoundIsNew, NeverCleared
  <1>2. StartsSeen'
    BY DEF Calm, StartsSeen
  <1>3. (CacheHasAll /\ StartsApart /\ GotIsOwn /\ BindingsDistinct)'
    BY DEF Calm, CacheHasAll, StartsApart, GotIsOwn, BindingsDistinct
  <1> QED BY <1>1, <1>2, <1>3

(* A new experiment has no other start and no stop. *)
LEMMA StartPeaceful ==
    ASSUME Peaceful, NEW t \in Threads, NEW e \in Exprs, NEW h \in Hosts,
           BeginStart(t, e, h)
    PROVE  PeaceInv'
  <1> USE DEF Peaceful, PeaceInv, Typed, TypeOK
  <1>1. /\ pc[t] = "idle" /\ pc'[t] = "look" /\ cur'[t] = e /\ got'[t] = {}
        /\ view'[t] = "fresh" /\ status'[e] = "STARTING" /\ status[e] = "NONE"
        /\ \A s \in Threads \ {t} :
              /\ pc'[s] = pc[s] /\ cur'[s] = cur[s] /\ got'[s] = got[s]
              /\ view'[s] = view[s]
        /\ \A f \in Exprs \ {e} : status'[f] = status[f]
        /\ UNCHANGED <<bound, cache, lock, found>>
    BY DEF BeginStart, Goto, SetStatus
  <1>2. \A s \in Threads : pc[s] # "idle" => cur[s] \in Exprs \ {e}
    BY <1>1 DEF KnownExprs
  <1>3. /\ "look" \in StartSteps /\ "idle" \notin StartSteps
        /\ {"look", "idle"} \cap LockedSteps = {}
    BY DEF StartSteps, BuildSteps, LockedSteps
  <1>4. (LockHeld /\ FoundIsNew /\ NeverCleared)'
    BY <1>1, <1>3 DEF LockHeld, FoundIsNew, NeverCleared
  <1>5. StartsSeen'
    BY <1>1, <1>2, <1>3 DEF StartsSeen
  <1>6. (CacheHasAll /\ StartsApart /\ GotIsOwn /\ BindingsDistinct)'
    BY <1>1, <1>2, <1>3 DEF CacheHasAll, StartsApart, GotIsOwn,
       BindingsDistinct
  <1> QED BY <1>4, <1>5, <1>6

LEMMA SearchPeaceful ==
    ASSUME Peaceful, NEW t \in Threads, SearchPort(t) PROVE PeaceInv'
  <1> USE DEF Peaceful, PeaceInv, Typed, TypeOK
  <1>1. /\ pc[t] = "search" /\ lock = None /\ UNCHANGED <<rowVars, cache>>
        /\ UNCHANGED <<cur, view, got>>
        /\ \A s \in Threads \ {t} : pc'[s] = pc[s]
        /\ \A s \in Threads : pc[s] \notin LockedSteps
    BY PortAssumption DEF SearchPort, Goto, LockHeld
  <1>2. CASE pc'[t] = "fail" /\ UNCHANGED <<lock, found>>
    <2>1. Calm
      BY <1>1, <1>2 DEF Calm, StartsSeen, NeverCleared, KnownExprs, rowVars,
         StartSteps, BuildSteps, LockedSteps
    <2> QED BY <2>1, CalmKeeps
  <1>3. CASE /\ pc'[t] \in {"count", "append"} /\ lock' = t
             /\ found'[t] \notin cache
    <2>1. (LockHeld /\ FoundIsNew /\ NeverCleared)'
      BY <1>1, <1>3, PortAssumption DEF LockHeld, FoundIsNew, NeverCleared,
         LockedSteps
    <2>2. \A s \in Threads : /\ pc'[s] \in StartSteps <=> pc[s] \in StartSteps
                             /\ pc'[s] \in {"release", "stopped"} <=>
                                    pc[s] \in {"release", "stopped"}
      BY <1>1, <1>3 DEF StartSteps, BuildSteps, LockedSteps
    <2>3. StartsSeen'
      BY <1>1, <2>2 DEF StartsSeen, rowVars
    <2>4. (CacheHasAll /\ StartsApart /\ GotIsOwn /\ BindingsDistinct)'
      BY <1>1, <2>2 DEF CacheHasAll, StartsApart, GotIsOwn, BindingsDistinct,
         rowVars
    <2> QED BY <2>1, <2>3, <2>4
  <1>4. \/ pc'[t] = "fail" /\ UNCHANGED <<lock, found>>
        \/ /\ pc'[t] \in {"count", "append"} /\ lock' = t
           /\ found'[t] \notin cache
    BY DEF SearchPort, Goto, FirstFree
  <1> QED BY <1>2, <1>3, <1>4

(* The start that counts is STARTING itself: it never clears the cache.    *)
LEMMA CountPeaceful ==
    ASSUME Peaceful, NEW t \in Threads, CountStarting(t) PROVE PeaceInv'
  <1> USE DEF Peaceful, PeaceInv, Typed, TypeOK
  <1>1. /\ pc[t] = "count" /\ pc[t] \in StartSteps
        /\ cur[t] \in Exprs /\ status[cur[t]] = "STARTING"
        /\ view[t] \in {"fresh", "some"}
    BY DEF CountStarting, StartsSeen, KnownExprs, StartSteps, BuildSteps,
       LockedSteps
  <1>2. StartingSeen(t) = "some"
    BY <1>1 DEF StartingSeen
  <1>3. Calm
    BY <1>1, <1>2 DEF Calm, CountStarting, Goto, StartsSeen, NeverCleared,
       KnownExprs, rowVars, StartSteps, BuildSteps, LockedSteps
  <1> QED BY <1>3, CalmKeeps

(* The port appended is in no start and in no binding, since it was not    *)
(* in the cache.                                                           *)
LEMMA AppendPeaceful ==
    ASSUME Peaceful, NEW t \in Threads, AppendPort(t) PROVE PeaceInv'
  <1> USE DEF Peaceful, PeaceInv, Typed, TypeOK
  <1>1. /\ pc[t] = "append" /\ lock = t /\ found[t] \notin cache
        /\ \A s \in Threads \ {t} : pc[s] \notin LockedSteps
    BY DEF LockHeld, FoundIsNew, AppendPort, LockedSteps
  <1>2. /\ cache' = cache \cup {found[t]} /\ lock' = None
        /\ got'[t] = got[t] \cup {found[t]}
        /\ pc'[t] \in {"look", "bind"}
        /\ \A s \in Threads \ {t} : got'[s] = got[s] /\ pc'[s] = pc[s]
        /\ UNCHANGED <<status, bound, cur, view, found>>
    BY DEF AppendPort, Goto, rowVars
  <1>3. (LockHeld /\ FoundIsNew /\ NeverCleared)'
    BY <1>1, <1>2, PortAssumption DEF LockHeld, FoundIsNew, NeverCleared,
       LockedSteps
  <1>4. \A s \in Threads : /\ pc'[s] \in StartSteps <=> pc[s] \in StartSteps
                           /\ pc'[s] \in {"release", "stopped"} <=>
                                  pc[s] \in {"release", "stopped"}
    BY <1>1, <1>2 DEF StartSteps, BuildSteps, LockedSteps
  <1>5. StartsSeen'
    BY <1>2, <1>4 DEF StartsSeen
  <1>6. pc[t] \in StartSteps
    BY <1>1 DEF StartSteps, BuildSteps, LockedSteps
  <1>7. CacheHasAll'
    BY <1>2, <1>4 DEF CacheHasAll
  <1>8. StartsApart'
    <2> SUFFICES ASSUME NEW r \in Threads, NEW s \in Threads, r # s,
                        pc[r] \in StartSteps, pc[s] \in StartSteps
                 PROVE  cur'[r] # cur'[s] /\ got'[r] \cap got'[s] = {}
      BY <1>4 DEF StartsApart
    <2>1. /\ cur[r] # cur[s] /\ got[r] \cap got[s] = {}
          /\ got[r] \subseteq cache /\ got[s] \subseteq cache
      BY DEF StartsApart, CacheHasAll
    <2>2. /\ got'[r] \subseteq IF r = t THEN got[r] \cup {found[t]} ELSE got[r]
          /\ got'[s] \subseteq IF s = t THEN got[s] \cup {found[t]} ELSE got[s]
      BY <1>2
    <2>3. got'[r] \cap got'[s] = {}
      BY <1>1, <2>1, <2>2
    <2> QED BY <1>2, <2>1, <2>3
  <1>9. GotIsOwn'
    <2> SUFFICES ASSUME NEW s \in Threads, NEW e \in Exprs,
                        pc[s] \in StartSteps, e # cur[s]
                 PROVE  got'[s] \cap bound[e] = {}
      BY <1>2, <1>4 DEF GotIsOwn
    <2>1. got[s] \cap bound[e] = {} /\ bound[e] \subseteq cache
      BY DEF GotIsOwn, CacheHasAll
    <2>2. got'[s] \subseteq got[s] \cup {found[t]}
      BY <1>2
    <2> QED BY <1>1, <2>1, <2>2
  <1>10. BindingsDistinct'
    BY <1>2 DEF BindingsDistinct
  <1> QED BY <1>3, <1>5, <1>7, <1>8, <1>9, <1>10

LEMMA BindPeaceful ==
    ASSUME Peaceful, NEW t \in Threads, BindPorts(t) PROVE PeaceInv'
  <1> USE DEF Peaceful, PeaceInv, Typed, TypeOK
  <1>1. /\ pc[t] = "bind" /\ pc'[t] = "run"
        /\ \A s \in Threads \ {t} : pc'[s] = pc[s]
        /\ UNCHANGED <<status, cache, lock, cur, view, found, got>>
    BY DEF BindPorts, Goto
  <1>2. /\ pc[t] \in StartSteps /\ cur[t] \in Exprs
        /\ got[t] \subseteq cache
    BY <1>1 DEF StartSteps, BuildSteps, CacheHasAll, KnownExprs
  <1>3. \A e \in Exprs : bound'[e] = IF e = cur[t] THEN got[t] ELSE bound[e]
    BY DEF BindPorts
  <1>4. \A s \in Threads : /\ pc'[s] \in StartSteps <=> pc[s] \in StartSteps
                           /\ pc'[s] \in LockedSteps <=> pc[s] \in LockedSteps
                           /\ pc'[s] = "clear" <=> pc[s] = "clear"
                           /\ pc'[s] \in {"release", "stopped"} <=>
                                  pc[s] \in {"release", "stopped"}
    BY <1>1 DEF StartSteps, BuildSteps, LockedSteps
  <1>5. (LockHeld /\ FoundIsNew /\ NeverCleared /\ StartsSeen)'
    BY <1>1, <1>4 DEF LockHeld, FoundIsNew, NeverCleared, StartsSeen
  <1>6. (CacheHasAll /\ StartsApart)'
    BY <1>1, <1>2, <1>3, <1>4 DEF CacheHasAll, StartsApart
  <1>7. GotIsOwn'
    BY <1>1, <1>2, <1>3, <1>4 DEF GotIsOwn, StartsApart
  <1>8. BindingsDistinct'
    BY <1>2, <1>3 DEF BindingsDistinct, GotIsOwn
  <1> QED BY <1>5, <1>6, <1>7, <1>8

(* The look at the host reads what the start has committed: its own        *)
(* experiment STARTING.                                                    *)
LEMMA LookCalm ==
    ASSUME Peaceful, NEW t \in Threads, LookAtHost(t) PROVE Calm
  <1> USE DEF Peaceful, PeaceInv, Typed, TypeOK
  <1>1. /\ pc[t] = "look" /\ pc[t] \in StartSteps
        /\ cur[t] \in Exprs /\ status[cur[t]] = "STARTING"
        /\ view[t] \in {"fresh", "some"}
    BY DEF LookAtHost, StartsSeen, KnownExprs, StartSteps, BuildSteps
  <1>2. StartingSeen(t) = "some"
    BY <1>1 DEF StartingSeen
  <1>3. view'[t] # "none" /\ \A s \in Threads \ {t} : view'[s] = view[s]
    BY <1>1, <1>2 DEF LookAtHost
  <1> QED
    BY <1>1, <1>3 DEF Calm, LookAtHost, Goto, StartsSeen, NeverCleared,
       KnownExprs, rowVars, StartSteps, BuildSteps, LockedSteps

LEMMA RunCalm ==
    ASSUME Peaceful, NEW t \in Threads, RunContainer(t) PROVE Calm
  BY DEF Peaceful, PeaceInv, Typed, TypeOK, Calm, RunContainer, Goto,
     StartsSeen, NeverCleared, KnownExprs, rowVars, StartSteps, BuildSteps,
     LockedSteps

(* Nobody else builds the experiment whose start ends, ... *)
LEMMA EndCalm ==
    ASSUME Peaceful, NEW t \in Threads, EndStart(t) PROVE Calm
  <1> USE DEF Peaceful, PeaceInv, Typed, TypeOK
  <1>1. /\ pc[t] \in {"finish", "fail"} /\ pc'[t] = "idle"
        /\ pc[t] \in StartSteps /\ cur[t] \in Exprs
        /\ \A s \in Threads \ {t} : pc'[s] = pc[s]
        /\ UNCHANGED <<bound, cache, lock, cur, view, found, got>>
    BY DEF EndStart, Goto, KnownExprs, StartSteps, BuildSteps
  <1>2. \A e \in Exprs : IF e = cur[t] THEN status'[e] # "STARTING"
                                       ELSE status'[e] = status[e]
    BY <1>1 DEF EndStart, SetStatus
  <1> QED
    BY <1>1, <1>2 DEF Calm, StartsSeen, StartsApart, NeverCleared, KnownExprs,
       StartSteps, BuildSteps, LockedSteps

(* ... nor one that somebody stops. *)
LEMMA StopCalm ==
    ASSUME Peaceful, NEW t \in Threads,
           \/ \E e \in Exprs : StopContainer(t, e)
           \/ ReleasePorts(t) \/ SetStopped(t)
    PROVE  Calm
  <1> USE DEF Peaceful, PeaceInv, Typed, TypeOK
  <1>1. CASE \E e \in Exprs : StopContainer(t, e)
    BY <1>1 DEF Calm, StopContainer, Goto, StartsSeen, NeverCleared,
       KnownExprs, rowVars, StartSteps, BuildSteps, LockedSteps
  <1>2. CASE ReleasePorts(t)
    BY <1>2 DEF Calm, ReleasePorts, Goto, StartsSeen, NeverCleared,
       KnownExprs, StartSteps, BuildSteps, LockedSteps
  <1>3. CASE SetStopped(t)
    <2>1. /\ pc[t] = "stopped" /\ pc'[t] = "idle"
          /\ cur[t] \in Exprs /\ status[cur[t]] # "STARTING"
          /\ \A s \in Threads \ {t} : pc'[s] = pc[s]
          /\ UNCHANGED <<bound, cache, lock, cur, view, found, got>>
      BY <1>3 DEF SetStopped, Goto, StartsSeen, KnownExprs
    <2>2. \A e \in Exprs : IF e = cur[t] THEN status'[e] = "STOPPED"
                                         ELSE status'[e] = status[e]
      BY <1>3, <2>1 DEF SetStopped, SetStatus
    <2> QED
      BY <2>1, <2>2 DEF Calm, StartsSeen, NeverCleared, KnownExprs,
         StartSteps, BuildSteps, LockedSteps
  <1> QED BY <1>1, <1>2, <1>3

LEMMA OtherCalm ==
    ASSUME Peaceful, UNCHANGED vars \/ \E e \in Exprs : ContainerExits(e)
    PROVE  Calm
  BY DEF Peaceful, PeaceInv, Typed, TypeOK, Calm, ContainerExits, vars,
     threadVars, rowVars, StartsSeen, NeverCleared, KnownExprs, StartSteps,
     BuildSteps, LockedSteps

LEMMA NextPeaceful ==
    ASSUME Peaceful, Polls = FALSE, CanRestart = FALSE, [Next]_vars
    PROVE  Peaceful'
  <1>1. \A t \in Threads : ~ClearCache(t)
    BY DEF Peaceful, PeaceInv, NeverCleared, ClearCache
  <1>2. ~Restart /\ \A e \in Exprs : ~PollExpr(e)
    BY DEF Restart, PollExpr
  <1>3. PeaceInv'
    BY <1>1, <1>2, StartPeaceful, SearchPeaceful, CountPeaceful,
       AppendPeaceful, BindPeaceful, LookCalm, RunCalm, EndCalm, StopCalm,
       OtherCalm, CalmKeeps DEF Next, Assign, Exhausted
  <1> QED BY <1>3, NextTyped DEF Peaceful

(* While nothing polls and the process lives, no two experiments have the  *)
(* same host port in port_binding, whether transactions read snapshots or  *)
(* not: however starts, failures, exits and stops interleave, a port is    *)
(* bound by the one start that found it.                                   *)
THEOREM BoundPortsAreOwn ==
    ASSUME Polls = FALSE, CanRestart = FALSE
    PROVE  Spec => []BindingsDistinct
  <1>1. Peaceful => BindingsDistinct
    BY DEF Peaceful, PeaceInv
  <1>2. Peaceful /\ [Next]_vars => Peaceful'
    BY NextPeaceful
  <1> QED BY <1>1, <1>2, InitPeaceful, PTL DEF Spec
=============================================================================
