---------------------------- MODULE StateManager ----------------------------
(***************************************************************************)
(* The StateManager plugin in several processes: paths that reach a        *)
(* barrier are suspended (succeedState), and when every process is out of  *)
(* runnable paths, or no new code was found for a while, all paths but one *)
(* that succeeded are killed everywhere, by commands in shared memory that *)
(* each process executes in its scheduler callback.                        *)
(*                                                                         *)
(* A process is named by its slot (getCurrentProcessId).  Its paths are    *)
(* told apart only by being runnable, succeeded or current, so it has      *)
(* numbers of them.  Each critical section of m_shared is one step.        *)
(***************************************************************************)
EXTENDS Naturals, FiniteSets

CONSTANTS MaxProcesses,  \* getMaxProcesses()
          Timeout,       \* m_timeout is not zero
          MaxPaths,      \* bound on the paths of a process
          MaxForks,      \* bound on the forks of a behaviour
          PathsEnd       \* whether paths may also end without reaching a barrier

Slot == 0..(MaxProcesses - 1)
None == MaxProcesses                    \* (unsigned) -1
Everything == MaxProcesses              \* a KILL that spares no node
Empty == MaxProcesses + 1

ASSUME ManagerAssumption ==
    /\ MaxProcesses \in Nat \ {0} /\ MaxPaths \in Nat \ {0} /\ MaxForks \in Nat
    /\ Timeout \in BOOLEAN /\ PathsEnd \in BOOLEAN

VARIABLES successCount, commands, suspendedProcesses, keepOneStateOnNode,
          stale,     \* timeOfLastNewBlock is m_timeout seconds ago, or more
          count,     \* S2EShared::currentProcessCount
          pc,        \* where each process is
          active,    \* size of S2EExecutor::states
          succeeded, \* size of m_succeeded
          current,   \* g_s2e_state is "active", "succeeded" or "gone"
          unborn,    \* children that have no slot yet
          forks      \* number of forks so far

shm == <<successCount, commands, suspendedProcesses, keepOneStateOnNode, stale>>
paths == <<active, succeeded, current>>
vars == <<shm, count, pc, paths, unborn, forks>>

Init == /\ successCount = [p \in Slot |-> 0]
        /\ commands = [p \in Slot |-> Empty]
        /\ suspendedProcesses = [p \in Slot |-> FALSE]
        /\ keepOneStateOnNode = None
        /\ stale = FALSE /\ count = 1
        /\ pc = [p \in Slot |-> IF p = 0 THEN "run" ELSE "free"]
        /\ active = [p \in Slot |-> IF p = 0 THEN 1 ELSE 0]
        /\ succeeded = [p \in Slot |-> 0]
        /\ current = [p \in Slot |-> IF p = 0 THEN "active" ELSE "gone"]
        /\ unborn = {} /\ forks = 0

HasSlot == {p \in Slot : pc[p] # "free"}
-----------------------------------------------------------------------------
(* What a callback of process p works on: "states" still counts the paths  *)
(* it has killed (updateStates comes later), "thrown" says that it killed  *)
(* the current one and left by CpuExitException.                           *)
World(p) == [active |-> active[p], states |-> active[p], succeeded |-> succeeded[p],
             current |-> current[p], count |-> successCount[p], cmd |-> commands,
             keep |-> keepOneStateOnNode, thrown |-> FALSE]

(* killAllExcept of nothing. *)
KillAll(w) == [w EXCEPT !.active = 0, !.thrown = (w.current = "active"),
                        !.current = IF @ = "active" THEN "gone" ELSE @]

(* Mutant: the current path stays suspended. *)
M_ResumeSucceeded(w) ==
    LET stays == IF w.current = "succeeded" THEN 1 ELSE 0
    IN [w EXCEPT !.active = @ + w.succeeded - stays, !.states = @ + w.succeeded - stays,
                 !.succeeded = stays, !.count = stays]

ResumeSucceeded(w) ==
    [w EXCEPT !.active = @ + w.succeeded, !.states = @ + w.succeeded,
              !.succeeded = 0, !.count = 0,
              !.current = IF @ = "succeeded" THEN "active" ELSE @]

(* The path that is kept is the current one, or another. *)
KillAllButOneSuccessfulLocal(w) ==
    LET r == ResumeSucceeded(w)
    IN {[r EXCEPT !.active = 1] : x \in {y \in {"current"} : w.current = "succeeded"}}
       \cup {[KillAll(r) EXCEPT !.active = 1] :
               x \in {y \in {"other"} : w.current # "succeeded" \/ w.succeeded > 1}}

(* Mutant: the sender gets its own command. *)
M_SendKillToAllInstances(p, w, node) ==
    [w EXCEPT !.cmd = [q \in Slot |-> node]]

SendKillToAllInstances(p, w, node) ==
    [w EXCEPT !.cmd = [q \in Slot |-> IF q = p THEN @[q] ELSE node]]

(* Mutant: the command stays in its place. *)
M_ProcessCommands(p, w) ==
    LET cmd == w.cmd[p]
        here == [w EXCEPT !.keep = None]
    IN CASE cmd = Empty -> {w}
         [] cmd = p -> IF w.succeeded > 0 THEN KillAllButOneSuccessfulLocal(here) ELSE {here}
         [] OTHER -> {KillAll(ResumeSucceeded(w))}

ProcessCommands(p, w) ==
    LET cmd == w.cmd[p]
        taken == [w EXCEPT !.cmd[p] = Empty]
        here == [taken EXCEPT !.keep = None]
    IN CASE cmd = Empty -> {w}
         [] cmd = p -> IF w.succeeded > 0 THEN KillAllButOneSuccessfulLocal(here) ELSE {here}
         [] OTHER -> {KillAll(ResumeSucceeded(taken))}

(* The node that keeps a path: the one that an earlier kill chose, if this *)
(* process has succeeded paths itself, or the first with a succeeded path. *)
ChosenNode(p, w) ==
    LET has(q) == (IF q = p THEN w.count ELSE successCount[q]) > 0
        nodes == {q \in HasSlot : has(q)}
    IN IF w.keep # None /\ w.succeeded > 0 THEN w.keep
       ELSE IF nodes = {} THEN None
       ELSE CHOOSE q \in nodes : \A r \in nodes : q <= r

KillAllButOneSuccessful(p, w) ==
    LET node == ChosenNode(p, w)
    IN CASE node = None -> {w}
         [] node = p -> KillAllButOneSuccessfulLocal(SendKillToAllInstances(p, w, Everything))
         [] OTHER -> {KillAll(SendKillToAllInstances(p, [w EXCEPT !.keep = node], node))}
-----------------------------------------------------------------------------
WriteBack(p, w) ==
    /\ active' = [active EXCEPT ![p] = w.active]
    /\ succeeded' = [succeeded EXCEPT ![p] = w.succeeded]
    /\ successCount' = [successCount EXCEPT ![p] = w.count]
    /\ commands' = w.cmd /\ keepOneStateOnNode' = w.keep

(* The rest of selectNextState: exit without paths, or run one of them. *)
Select(p, w) ==
    /\ WriteBack(p, w)
    /\ pc' = [pc EXCEPT ![p] = IF w.active = 0 THEN "exit" ELSE "run"]
    /\ current' = [current EXCEPT ![p] = IF w.active = 0 THEN w.current ELSE "active"]

GoTo(p, where, w) ==
    /\ WriteBack(p, w)
    /\ pc' = [pc EXCEPT ![p] = where]
    /\ current' = [current EXCEPT ![p] = w.current]

(* sm_callback, from selectNextState. *)
SmCallback(p) ==
    /\ pc[p] = "select"
    /\ \E w \in ProcessCommands(p, World(p)) :
          \/ /\ w.thrown \/ w.states > 0 \/ w.succeeded = 0
             /\ Select(p, w) /\ UNCHANGED stale
          \/ /\ ~w.thrown /\ w.states = 0 /\ w.succeeded > 0
             /\ GoTo(p, "suspend", w) /\ UNCHANGED stale
          \/ /\ ~w.thrown /\ w.states > 0 /\ Timeout /\ stale
             /\ stale' = FALSE
             /\ \E v \in KillAllButOneSuccessful(p, w) : Select(p, v)
    /\ UNCHANGED <<suspendedProcesses, count, unborn, forks>>

SuspendCurrentProcess(p) ==
    /\ pc[p] = "suspend"
    /\ suspendedProcesses' = [suspendedProcesses EXCEPT ![p] = TRUE]
    /\ pc' = [pc EXCEPT ![p] = "wait"]
    /\ UNCHANGED <<successCount, commands, keepOneStateOnNode, stale, count, paths, unborn, forks>>

GetSuspendedProcessCount == Cardinality({q \in Slot : suspendedProcesses[q]})

(* The waiting loop: somebody woke this process up, or it is the one to    *)
(* find that all are suspended.                                            *)
WokenUp(p) ==
    /\ pc[p] = "wait" /\ ~suspendedProcesses[p]
    /\ pc' = [pc EXCEPT ![p] = "woken"]
    /\ UNCHANGED <<shm, count, paths, unborn, forks>>

(* Mutant: a process that finds all suspended resumes itself only. *)
M_AllSuspended(p) ==
    /\ pc[p] = "wait" /\ suspendedProcesses[p]
    /\ GetSuspendedProcessCount = count
    /\ suspendedProcesses' = [suspendedProcesses EXCEPT ![p] = FALSE]
    /\ \E w \in KillAllButOneSuccessful(p, World(p)) :
          \/ w.thrown /\ Select(p, w)
          \/ ~w.thrown /\ GoTo(p, "woken", w)
    /\ UNCHANGED <<stale, count, unborn, forks>>

AllSuspended(p) ==
    /\ pc[p] = "wait" /\ suspendedProcesses[p]
    /\ GetSuspendedProcessCount = count
    /\ suspendedProcesses' = [q \in Slot |-> FALSE]
    /\ \E w \in KillAllButOneSuccessful(p, World(p)) :
          \/ w.thrown /\ Select(p, w)
          \/ ~w.thrown /\ GoTo(p, "woken", w)
    /\ UNCHANGED <<stale, count, unborn, forks>>

AfterSuspension(p) ==
    /\ pc[p] = "woken"
    /\ \E w \in ProcessCommands(p, World(p)) : Select(p, w)
    /\ UNCHANGED <<suspendedProcesses, stale, count, unborn, forks>>
-----------------------------------------------------------------------------
(* succeedState of the current path. *)
SucceedState(p) ==
    /\ pc[p] = "run"
    /\ active' = [active EXCEPT ![p] = @ - 1]
    /\ succeeded' = [succeeded EXCEPT ![p] = @ + 1]
    /\ successCount' = [successCount EXCEPT ![p] = succeeded[p] + 1]
    /\ current' = [current EXCEPT ![p] = "succeeded"]
    /\ pc' = [pc EXCEPT ![p] = "select"]
    /\ UNCHANGED <<commands, suspendedProcesses, keepOneStateOnNode, stale, count, unborn, forks>>

EndPath(p) ==
    /\ pc[p] = "run" /\ PathsEnd
    /\ active' = [active EXCEPT ![p] = @ - 1]
    /\ current' = [current EXCEPT ![p] = "gone"]
    /\ pc' = [pc EXCEPT ![p] = "select"]
    /\ UNCHANGED <<shm, count, succeeded, unborn, forks>>

(* The scheduler is entered and the current path has not ended. *)
Preempt(p) ==
    /\ pc[p] = "run"
    /\ pc' = [pc EXCEPT ![p] = "select"]
    /\ UNCHANGED <<shm, count, paths, unborn, forks>>

(* Mutant: the limit is off by one. *)
M_Fork(p) ==
    /\ pc[p] = "run" /\ active[p] + succeeded[p] < MaxPaths /\ forks < MaxForks
    /\ forks' = forks + 1
    /\ active' = [active EXCEPT ![p] = @ + 1]
    /\ IF count > MaxProcesses THEN UNCHANGED <<count, pc>>
       ELSE count' = count + 1 /\ pc' = [pc EXCEPT ![p] = "fork"]
    /\ UNCHANGED <<shm, succeeded, current, unborn>>

(* onNewBlockCovered *)
ResetTimeout(p) ==
    /\ pc[p] = "run" /\ stale
    /\ stale' = FALSE
    /\ UNCHANGED <<successCount, commands, suspendedProcesses, keepOneStateOnNode,
                   count, pc, paths, unborn, forks>>

TimePasses ==
    /\ ~stale /\ Timeout
    /\ stale' = TRUE
    /\ UNCHANGED <<successCount, commands, suspendedProcesses, keepOneStateOnNode,
                   count, pc, paths, unborn, forks>>

(* The current path forks; then S2E::fork reserves a process or does not. *)
Fork(p) ==
    /\ pc[p] = "run" /\ active[p] + succeeded[p] < MaxPaths /\ forks < MaxForks
    /\ forks' = forks + 1
    /\ active' = [active EXCEPT ![p] = @ + 1]
    /\ IF count = MaxProcesses THEN UNCHANGED <<count, pc>>
       ELSE count' = count + 1 /\ pc' = [pc EXCEPT ![p] = "fork"]
    /\ UNCHANGED <<shm, succeeded, current, unborn>>

ForkFails(p) ==
    /\ pc[p] = "fork"
    /\ count' = count - 1
    /\ pc' = [pc EXCEPT ![p] = "run"]
    /\ UNCHANGED <<shm, paths, unborn, forks>>

(* Parent and child each keep one of the two paths of the fork, and all    *)
(* the others; the one that does not keep the current path schedules.      *)
ForkSucceeds(p) ==
    /\ pc[p] = "fork"
    /\ active' = [active EXCEPT ![p] = @ - 1]
    /\ \E stays \in BOOLEAN :
          /\ unborn' = unborn \cup {[id |-> CHOOSE n \in Slot : \A u \in unborn : u.id # n,
                                     active |-> active[p] - 1, succeeded |-> succeeded[p],
                                     current |-> ~stays]}
          /\ current' = [current EXCEPT ![p] = IF stays THEN "active" ELSE "gone"]
          /\ pc' = [pc EXCEPT ![p] = IF stays THEN "run" ELSE "select"]
    /\ UNCHANGED <<shm, count, succeeded, forks>>

TakeSlot(u) ==
    LET p == CHOOSE q \in Slot \ HasSlot : \A r \in Slot \ HasSlot : q <= r
    IN /\ unborn' = unborn \ {u}
       /\ pc' = [pc EXCEPT ![p] = "born"]
       /\ active' = [active EXCEPT ![p] = u.active]
       /\ succeeded' = [succeeded EXCEPT ![p] = u.succeeded]
       /\ current' = [current EXCEPT ![p] = IF u.current THEN "active" ELSE "gone"]
       /\ UNCHANGED <<shm, count, forks>>

(* Mutant: the counter of the slot is not initialised. *)
M_OnProcessFork(p) ==
    /\ pc[p] = "born"
    /\ commands' = [commands EXCEPT ![p] = Empty]
    /\ suspendedProcesses' = [suspendedProcesses EXCEPT ![p] = FALSE]
    /\ pc' = [pc EXCEPT ![p] = IF current[p] = "active" THEN "run" ELSE "select"]
    /\ UNCHANGED <<successCount, keepOneStateOnNode, stale, count, paths, unborn, forks>>

(* onProcessFork in the child. *)
OnProcessFork(p) ==
    /\ pc[p] = "born"
    /\ successCount' = [successCount EXCEPT ![p] = succeeded[p]]
    /\ commands' = [commands EXCEPT ![p] = Empty]
    /\ suspendedProcesses' = [suspendedProcesses EXCEPT ![p] = FALSE]
    /\ pc' = [pc EXCEPT ![p] = IF current[p] = "active" THEN "run" ELSE "select"]
    /\ UNCHANGED <<keepOneStateOnNode, stale, count, paths, unborn, forks>>

(* Mutant: the process stays the one that keeps a path. *)
M_DeleteStateManager(p) ==
    /\ pc[p] = "exit"
    /\ successCount' = [successCount EXCEPT ![p] = @ - succeeded[p]]
    /\ pc' = [pc EXCEPT ![p] = "exiting"]
    /\ UNCHANGED <<commands, suspendedProcesses, keepOneStateOnNode, stale, count, paths, unborn, forks>>

(* ~StateManager, then the rest of ~S2E. *)
DeleteStateManager(p) ==
    /\ pc[p] = "exit"
    /\ successCount' = [successCount EXCEPT ![p] = @ - succeeded[p]]
    /\ keepOneStateOnNode' = IF keepOneStateOnNode = p THEN None ELSE keepOneStateOnNode
    /\ pc' = [pc EXCEPT ![p] = "exiting"]
    /\ UNCHANGED <<commands, suspendedProcesses, stale, count, paths, unborn, forks>>

(* Mutant: an exiting process stays counted. *)
M_ExitProcess(p) ==
    /\ pc[p] = "exiting"
    /\ pc' = [pc EXCEPT ![p] = "free"]
    /\ active' = [active EXCEPT ![p] = 0] /\ succeeded' = [succeeded EXCEPT ![p] = 0]
    /\ current' = [current EXCEPT ![p] = "gone"]
    /\ UNCHANGED <<shm, count, unborn, forks>>

ExitProcess(p) ==
    /\ pc[p] = "exiting"
    /\ pc' = [pc EXCEPT ![p] = "free"]
    /\ count' = count - 1
    /\ active' = [active EXCEPT ![p] = 0] /\ succeeded' = [succeeded EXCEPT ![p] = 0]
    /\ current' = [current EXCEPT ![p] = "gone"]
    /\ UNCHANGED <<shm, unborn, forks>>

Next == \/ \E p \in Slot :
              \/ SmCallback(p) \/ SuspendCurrentProcess(p)
              \/ WokenUp(p) \/ AllSuspended(p) \/ AfterSuspension(p)
              \/ SucceedState(p) \/ EndPath(p) \/ Preempt(p) \/ ResetTimeout(p)
              \/ Fork(p) \/ ForkFails(p) \/ ForkSucceeds(p) \/ OnProcessFork(p)
              \/ DeleteStateManager(p) \/ ExitProcess(p)
        \/ \E u \in unborn : TakeSlot(u)
        \/ TimePasses

Spec == Init /\ [][Next]_vars

(* The operating system runs every process, and a fork in progress         *)
(* returns.  Nothing is assumed of how long a path runs.                   *)
ProcessProgress(p) ==
    \/ SmCallback(p) \/ SuspendCurrentProcess(p) \/ WokenUp(p) \/ AllSuspended(p)
    \/ AfterSuspension(p) \/ SucceedState(p) \/ EndPath(p) \/ Preempt(p)
    \/ ForkFails(p) \/ ForkSucceeds(p) \/ OnProcessFork(p)
    \/ DeleteStateManager(p) \/ ExitProcess(p)

FairSpec == Spec /\ (\A p \in Slot : WF_vars(ProcessProgress(p)))
                 /\ WF_vars(\E u \in unborn : TakeSlot(u))

(* In addition every path gets to a barrier or ends. *)
FinishingSpec == FairSpec /\ \A p \in Slot : SF_vars(SucceedState(p) \/ EndPath(p))
-----------------------------------------------------------------------------
Stage == {"free", "born", "run", "fork", "select", "suspend", "wait", "woken", "exit", "exiting"}

TypeOK == /\ successCount \in [Slot -> Nat] /\ commands \in [Slot -> 0..Empty]
          /\ suspendedProcesses \in [Slot -> BOOLEAN] /\ stale \in BOOLEAN
          /\ keepOneStateOnNode \in 0..None
          /\ count \in 0..MaxProcesses /\ pc \in [Slot -> Stage]
          /\ active \in [Slot -> Nat] /\ succeeded \in [Slot -> Nat]
          /\ current \in [Slot -> {"active", "succeeded", "gone"}]
          /\ unborn \subseteq [id : Slot, active : Nat, succeeded : Nat, current : BOOLEAN]
          /\ forks \in 0..MaxForks

Managed == {p \in Slot : pc[p] \notin {"free", "born", "exiting"}}

(* The assert of checkInvariants: the count that the other processes read  *)
(* is the number of succeeded paths, through forks, kills and exits.       *)
SuccessCountMirrors == \A p \in Managed : successCount[p] = succeeded[p]

(* The assert of processCommands: a process told that it keeps a path is   *)
(* still the one recorded as keeping it, whatever kills overlapped.        *)
KillsAgree == \A p \in Managed : commands[p] = p => keepOneStateOnNode = p

(* StateManager.cpp:195: "Write a command to each instance, which will     *)
(* eventually execute it".  A kill leaves its slot only when the process   *)
(* has killed all its paths, the suspended ones too, or all but the one it *)
(* was told to keep.  The exception is a process between S2E::fork and     *)
(* its onProcessFork handler: the handler erases the kill unexecuted.      *)
KillsAreExecuted ==
    [][\A p \in Slot : (commands[p] # Empty /\ commands'[p] = Empty /\ pc[p] # "born") =>
          LET kept == IF commands[p] = p /\ succeeded[p] > 0 THEN 1 ELSE 0
          IN \/ active'[p] <= kept /\ succeeded'[p] = 0
             \/ commands[p] = p /\ succeeded[p] = 0]_vars

(* The node that keeps a path is a process that can still do so: never an  *)
(* exited one, nor the next owner of its slot before it starts.            *)
KeeperExists == keepOneStateOnNode # None => keepOneStateOnNode \in Managed

Living(p) == IF pc[p] \in {"free", "exit", "exiting"} THEN 0 ELSE active[p] + succeeded[p]

(* StateManager.cpp:494: "All concurrent kills will have to chose the same *)
(* node to avoid killing everything by accident": where paths do not end   *)
(* by themselves, some path is always left.                                *)
SomePathSurvives == unborn # {} \/ \E p \in Slot : Living(p) > 0

(* A process that waits at the barrier is released, provided that every    *)
(* path gets to a barrier or ends.                                         *)
SuspensionEnds == \A p \in Slot : pc[p] = "wait" ~> pc[p] # "wait"

AllAtBarrier == /\ unborn = {} /\ HasSlot # {}
                /\ \A p \in HasSlot : pc[p] = "wait" /\ suspendedProcesses[p]

(* "When all paths reached the barrier [...], StateManager kills all paths *)
(* except one that reached the barrier" (StateManager.rst): with no fork   *)
(* left that could add paths, one path in one process is what remains.     *)
OneIsResumed ==
    (AllAtBarrier /\ forks = MaxForks)
        ~> (count = 1 /\ \E p \in Slot : active[p] + succeeded[p] = 1 /\ HasSlot = {p})
=============================================================================
