----------------------------- MODULE StateTree -----------------------------
(***************************************************************************)
(* The sets of execution states of one process (states, addedStates,       *)
(* removedStates, the searcher and the suspended states) and the process   *)
(* tree, whose active flags lead RandomPathSearcher past subtrees that     *)
(* have suspended states only.                                             *)
(*                                                                         *)
(* A tree is [parent, active]: the parent of every allocated PTreeNode and *)
(* the set of nodes with the active flag.  Nodes without children carry a  *)
(* state (data).  Left and right are not told apart.                       *)
(***************************************************************************)
EXTENDS Naturals, FiniteSets, FiniteSetsExt

CONSTANT MaxStates      \* bound: execution states are 1..MaxStates

State == 1..MaxStates
Node == 1..(2 * MaxStates - 1)
Nil == 0

ASSUME TreeAssumption == MaxStates \in Nat \ {0}

VARIABLES phase,       \* "run", "leave" (the CPU loop is left), "select", "exit"
          cur,         \* g_s2e_state
          states, addedStates, removedStates,
          searcher,    \* states the searcher knows
          succeeded,   \* StateManager::m_succeeded, the suspended states
          nextId,      \* next state to be created
          tree, node,  \* processTree; ptreeNode of each state that is in it
          nextNode

vars == <<phase, cur, states, addedStates, removedStates, searcher, succeeded,
          nextId, tree, node, nextNode>>

Init == /\ phase = "run" /\ cur = 1
        /\ states = {1} /\ addedStates = {} /\ removedStates = {}
        /\ searcher = {1} /\ succeeded = {} /\ nextId = 2
        /\ tree = [parent |-> [n \in {1} |-> Nil], active |-> {1}]
        /\ node = [s \in {1} |-> 1] /\ nextNode = 2
-----------------------------------------------------------------------------
(* PTree *)

Children(t, p) == {n \in DOMAIN t.parent : t.parent[n] = p}

(* n and the nodes above it, up to the first one that is in stop. *)
Climb(t, n, stop) ==
    LET up[c \in DOMAIN t.parent] == {c} \cup (IF c \in stop THEN {} ELSE up[t.parent[c]])
    IN up[n]

Roots(t) == {c \in DOMAIN t.parent : t.parent[c] = Nil}

(* n and the ancestors of n. *)
Upwards(t, n) == Climb(t, n, Roots(t))

Split(t, n, l, r) ==
    [parent |-> [c \in DOMAIN t.parent \cup {l, r} |-> IF c \in {l, r} THEN n ELSE t.parent[c]],
     active |-> t.active \cup {l, r}]

(* deactivate: n, and its ancestors as long as nothing else under them is  *)
(* active.                                                                 *)
Deactivate(t, n) ==
    LET others(c) == (Children(t, t.parent[c]) \ {c}) \cap t.active
        stop == Roots(t) \cup {c \in DOMAIN t.parent : others(c) # {}}
    IN [t EXCEPT !.active = @ \ Climb(t, n, stop)]

(* Mutant: the parents keep the flag they have. *)
M_Activate(t, N) == [t EXCEPT !.active = @ \cup N]

(* activate: the nodes in N and their ancestors. *)
Activate(t, N) == [t EXCEPT !.active = @ \cup UNION {Upwards(t, n) : n \in N}]

(* Mutant: a node is deleted with its flag set. *)
M_Remove(t, n) == [t EXCEPT !.parent = [c \in DOMAIN t.parent \ {n} |-> t.parent[c]]]

(* remove: n, and its ancestors as long as they have no other child. *)
Remove(t, n) ==
    LET stop == Roots(t) \cup {c \in DOMAIN t.parent : Children(t, t.parent[c]) # {c}}
        gone == Climb(t, n, stop)
    IN [parent |-> [c \in DOMAIN t.parent \ gone |-> t.parent[c]],
        active |-> Deactivate(t, n).active \ gone]

(* Mutant: the walk takes either child. *)
M_RandomPath(t) == {n \in DOMAIN t.parent : Children(t, n) = {}}

(* RandomPathSearcher::selectState: the nodes where a walk from the root   *)
(* can end.  It avoids an inactive child only when there are two.          *)
RandomPath(t) ==
    LET ends[n \in DOMAIN t.parent] ==
            LET kids == Children(t, n)
                open == IF Cardinality(kids) = 2 /\ kids \cap t.active # {}
                        THEN kids \cap t.active ELSE kids
            IN IF kids = {} THEN {n} ELSE UNION {ends[k] : k \in open}
    IN ends[1]
-----------------------------------------------------------------------------
(* Executor::fork and branch: es is the current state or, in a branch, one *)
(* of the states it has made so far, which are all in addedStates.         *)
Fork(es) ==
    /\ phase = "run" /\ es \in {cur} \cup addedStates
    /\ nextId \in State
    /\ nextId' = nextId + 1 /\ nextNode' = nextNode + 2
    /\ addedStates' = addedStates \cup {nextId}
    /\ tree' = Split(tree, node[es], nextNode, nextNode + 1)
    /\ node' = [s \in DOMAIN node \cup {nextId} |->
                   IF s = nextId THEN nextNode ELSE IF s = es THEN nextNode + 1 ELSE node[s]]
    /\ UNCHANGED <<phase, cur, states, removedStates, searcher, succeeded>>

(* StateManager::succeedState on the current state, and suspendState; the  *)
(* callers that stop the state then leave the CPU loop.                    *)
SuspendState ==
    /\ phase = "run" /\ cur \notin succeeded
    /\ succeeded' = succeeded \cup {cur}
    /\ searcher' = searcher \ {cur}
    /\ states' = states \ {cur}
    /\ tree' = Deactivate(tree, node[cur])
    /\ phase' = "leave"
    /\ UNCHANGED <<cur, addedStates, removedStates, nextId, node, nextNode>>

(* resumeState of the states in R. *)
Resumed(t, R) == Activate(t, {node[s] : s \in R})

(* Mutant: a suspended state is not resumed before it is killed. *)
M_ToResume(s) == {}

(* terminateStateAtFork: a suspended state is resumed first. *)
ToResume(s) == {s} \cap succeeded

(* terminateState: a state that no updateStates has seen is deleted at     *)
(* once; killing the current state leaves the CPU loop.                    *)
TerminateState(s) ==
    /\ phase = "run"
    /\ succeeded' = succeeded \ ToResume(s)
    /\ states' = states \cup ToResume(s) /\ searcher' = searcher \cup ToResume(s)
    /\ phase' = IF s = cur THEN "leave" ELSE phase
    /\ \/ /\ s \notin addedStates
          /\ removedStates' = removedStates \cup {s}
          /\ tree' = Resumed(tree, ToResume(s))
          /\ UNCHANGED <<addedStates, node>>
       \/ /\ s \in addedStates
          /\ addedStates' = addedStates \ {s}
          /\ tree' = Remove(tree, node[s])
          /\ node' = [r \in DOMAIN node \ {s} |-> node[r]]
          /\ UNCHANGED removedStates
    /\ UNCHANGED <<cur, nextId, nextNode>>

(* Mutant: the added states are forgotten. *)
M_Updated(known, added, gone) == known \ gone

(* updateStates on the set of states, and what the searcher does with it. *)
Updated(known, added, gone) == (known \cup added) \ gone

(* Deletion of the states in gone from the tree. *)
Deleted(t, gone) == FoldSet(LAMBDA s, u : Remove(u, node[s]), t, gone)

(* updateStates after an LLVM instruction, or when a CpuExitException is   *)
(* caught.                                                                 *)
UpdateStates ==
    /\ phase \in {"run", "leave"} /\ addedStates \cup removedStates # {}
    /\ states' = Updated(states, addedStates, removedStates)
    /\ searcher' = Updated(searcher, addedStates, removedStates)
    /\ addedStates' = {} /\ removedStates' = {}
    /\ tree' = Deleted(tree, removedStates)
    /\ node' = [s \in DOMAIN node \ removedStates |-> node[s]]
    /\ UNCHANGED <<phase, cur, succeeded, nextId, nextNode>>

(* Entry of selectNextState: updateStates; the state manager resumes some  *)
(* suspended states and kills some states; updateStates again.             *)
EnterSelect(R, K) ==
    LET known == Updated(states, addedStates, removedStates) \cup R
        gone == removedStates \cup K
    IN /\ phase \in {"run", "leave"}
       /\ R \subseteq succeeded /\ K \subseteq known
       /\ states' = known \ K
       /\ searcher' = (Updated(searcher, addedStates, removedStates) \cup R) \ K
       /\ addedStates' = {} /\ removedStates' = {}
       /\ succeeded' = succeeded \ R
       /\ tree' = Deleted(Resumed(Deleted(tree, removedStates), R), K)
       /\ node' = [s \in DOMAIN node \ gone |-> node[s]]
       /\ phase' = IF states' = {} THEN "exit" ELSE "select"
       /\ UNCHANGED <<cur, nextId, nextNode>>

(* The searcher chooses: RandomPathSearcher by a walk, the others one of   *)
(* the states they know.                                                   *)
SelectNextState(t) ==
    /\ phase = "select"
    /\ t \in DOMAIN node /\ (node[t] \in RandomPath(tree) \/ t \in searcher)
    /\ phase' = "run" /\ cur' = t
    /\ UNCHANGED <<states, addedStates, removedStates, searcher, succeeded,
                   nextId, tree, node, nextNode>>

Next == \/ \E s \in DOMAIN node : Fork(s) \/ TerminateState(s) \/ SelectNextState(s)
        \/ SuspendState \/ UpdateStates
        \/ \E R \in SUBSET succeeded :
              \E K \in SUBSET (states \cup addedStates \cup R) : EnterSelect(R, K)

Spec == Init /\ [][Next]_vars
-----------------------------------------------------------------------------
TypeOK == /\ phase \in {"run", "leave", "select", "exit"}
          /\ states \subseteq State /\ addedStates \subseteq State
          /\ nextId \in 2..(MaxStates + 1) /\ nextNode = 2 * nextId - 2
          /\ tree.parent \in [DOMAIN tree.parent -> Node \cup {Nil}]
          /\ tree.active \subseteq DOMAIN tree.parent /\ DOMAIN tree.parent \subseteq Node
          /\ phase = "run" => cur \in states

(* No state is forgotten or counted twice: the states in the process tree  *)
(* are those that run, those that updateStates has yet to see and those    *)
(* that are suspended.                                                     *)
EveryStateIsSomewhere ==
    /\ DOMAIN node = states \cup addedStates \cup succeeded
    /\ states \cap addedStates = {} /\ states \cap succeeded = {} /\ addedStates \cap succeeded = {}
    /\ {node[s] : s \in DOMAIN node} = {n \in DOMAIN tree.parent : Children(tree, n) = {}}

(* The asserts of updateStates and of the searchers ("invalid state        *)
(* removed"): a state to be removed is one they know, also when it was     *)
(* suspended while it was killed.                                          *)
RemovedAreKnown == removedStates \subseteq states \cap searcher

(* The asserts of PTree::split and of RandomPathSearcher: a node is active *)
(* exactly when a state under it is not suspended.                         *)
ActiveIsExact ==
    tree.active = UNION {Upwards(tree, node[s]) : s \in DOMAIN node \ succeeded}

(* The assert of selectNextState on the state it is given: a random walk   *)
(* ends in a state that may run, and can end in each of them; the other    *)
(* searchers know the same states.                                         *)
SelectableAreStates ==
    phase = "select" => /\ {s \in DOMAIN node : node[s] \in RandomPath(tree)} = states
                        /\ searcher = states
=============================================================================
