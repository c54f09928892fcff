---------------------------- MODULE ProcessFork ----------------------------
(***************************************************************************)
(* Exploration by several S2E processes: S2E::fork (the process count and  *)
(* the instance map in shared memory), the loop of S2EExecutor             *)
(* ::doProcessFork that divides the states of a fork among the processes,  *)
(* and ~S2E.  A process is named by its m_currentProcessIndex.  Each       *)
(* critical section of the S2EShared semaphore is one step.                *)
(***************************************************************************)
EXTENDS Integers, FiniteSets, Sequences

CONSTANTS MaxProcesses,  \* m_maxProcesses
          MaxIndex,      \* bound on S2EShared::lastFileId
          MaxStateId,    \* bound on S2EShared::lastStateId
          MaxWays        \* bound on the number of states of one fork

Index == 0..MaxIndex
StateId == 0..MaxStateId
Slot == 0..(MaxProcesses - 1)
NoIndex == MaxIndex + 1                 \* the -1 of processIds

ASSUME ProcessAssumption ==
    /\ MaxProcesses \in Nat \ {0} /\ MaxIndex \in Nat
    /\ MaxStateId \in Nat /\ MaxWays \in Nat

VARIABLES count, lastFileId, lastStateId, processIds,   \* S2EShared
          pc,       \* where each process is
          slot,     \* m_currentProcessId
          held,     \* states of the process, runnable or suspended
          ended,    \* states that ran to their end, or were lost with
                    \* the process that held them (history)
          newStates, low, high, splitIndex,   \* doProcessFork
          child     \* newProcessIndex of a fork in progress

shared == <<count, lastFileId, lastStateId, processIds>>
loop == <<newStates, low, high, splitIndex>>
vars == <<shared, pc, slot, held, ended, loop, child>>

(* Mutant: the upper end is not terminated. *)
M_Part(i, from, to) == {newStates[i][k + 1] : k \in from..(IF to = from THEN to ELSE to - 1)}

Part(i, from, to) == {newStates[i][k + 1] : k \in from..to}

Init == /\ count = 1 /\ lastFileId = 1 /\ lastStateId = 1
        /\ processIds = [n \in Slot |-> IF n = 0 THEN 0 ELSE NoIndex]
        /\ pc = [i \in Index |-> IF i = 0 THEN "run" ELSE "none"]
        /\ slot = [i \in Index |-> 0]
        /\ held = [i \in Index |-> IF i = 0 THEN {0} ELSE {}]
        /\ ended = {}
        /\ newStates = [i \in Index |-> <<>>]
        /\ low = [i \in Index |-> 0] /\ high = [i \in Index |-> 0]
        /\ splitIndex = [i \in Index |-> 0]
        /\ child = [i \in Index |-> NoIndex]

(* fork or branch of state x into n states; fetchAndIncrementStateId       *)
(* numbers the new ones (consecutively here: only their being new matters).*)
(* x is the first result, except that a two-way fork may swap its sides.   *)
DoStateFork(i, x, n, pos) ==
    LET fresh == [k \in 1..(n - 1) |-> lastStateId + k - 1]
    IN /\ pc[i] = "run" /\ x \in held[i]
       /\ n >= 2 /\ (pos = 0 \/ n = 2) /\ lastStateId + n - 2 \in StateId
       /\ lastStateId' = lastStateId + n - 1
       /\ held' = [held EXCEPT ![i] = @ \cup {fresh[k] : k \in 1..(n - 1)}]
       /\ newStates' = [newStates EXCEPT ![i] =
              [k \in 1..n |-> IF k - 1 = pos THEN x
                              ELSE IF k - 1 < pos THEN fresh[k] ELSE fresh[k - 1]]]
       /\ low' = [low EXCEPT ![i] = 0]
       /\ high' = [high EXCEPT ![i] = n - 1]
       /\ splitIndex' = [splitIndex EXCEPT ![i] = n \div 2]
       /\ pc' = [pc EXCEPT ![i] = "split"]
       /\ UNCHANGED <<count, lastFileId, processIds, slot, ended, child>>

(* Mutant: the limit is compared after the new process was counted. *)
M_ReserveProcess(i) ==
    /\ pc[i] = "split"
    /\ IF count = MaxProcesses + 1
       THEN /\ pc' = [pc EXCEPT ![i] = "run"]
            /\ UNCHANGED <<count, lastFileId, child>>
       ELSE /\ lastFileId \in Index
            /\ child' = [child EXCEPT ![i] = lastFileId]
            /\ lastFileId' = lastFileId + 1
            /\ count' = count + 1
            /\ pc' = [pc EXCEPT ![i] = "fork"]
    /\ UNCHANGED <<lastStateId, processIds, slot, held, ended, loop>>

(* Mutant: the index of the child is the number of processes. *)
M_ChildIndex == count

(* The child gets the next index that was never used. *)
ChildIndex == lastFileId

(* S2E::fork, first critical section: a place among the processes. *)
ReserveProcess(i) ==
    /\ pc[i] = "split"
    /\ IF count = MaxProcesses
       THEN /\ pc' = [pc EXCEPT ![i] = "run"]
            /\ UNCHANGED <<count, lastFileId, child>>
       ELSE /\ lastFileId \in Index
            /\ child' = [child EXCEPT ![i] = ChildIndex]
            /\ lastFileId' = lastFileId + 1
            /\ count' = count + 1
            /\ pc' = [pc EXCEPT ![i] = "fork"]
    /\ UNCHANGED <<lastStateId, processIds, slot, held, ended, loop>>

(* ::fork() < 0; lastFileId stays as it is. *)
ForkFails(i) ==
    /\ pc[i] = "fork"
    /\ count' = count - 1
    /\ pc' = [pc EXCEPT ![i] = "run"]
    /\ UNCHANGED <<lastFileId, lastStateId, processIds, slot, held, ended, loop, child>>

(* Mutant: the parent's new upper end is off by one. *)
M_ParentRange(i) ==
    LET h == splitIndex[i] - 2
    IN [high |-> h, split |-> (h - low[i]) \div 2 + low[i]]

(* Mutant: the middle is taken as a distance from the lower end.  It is    *)
(* the middle itself while low is zero: only a later round, of a process   *)
(* that was the child of an earlier one, goes wrong.                       *)
M_ParentSplit(i) ==
    LET h == splitIndex[i] - 1
    IN [high |-> h, split |-> (h - low[i]) \div 2]

(* The parent's half of the loop body: it keeps low..splitIndex-1. *)
ParentRange(i) ==
    LET h == splitIndex[i] - 1
    IN [high |-> h, split |-> (h - low[i]) \div 2 + low[i]]

(* ::fork() succeeds.  The child is a copy of the parent; the parent       *)
(* terminates the states from splitIndex on and continues its loop.        *)
ForkSucceeds(i) ==
    LET c == child[i]
        r == ParentRange(i)
    IN /\ pc[i] = "fork"
       /\ pc' = [pc EXCEPT ![c] = "slot",
                           ![i] = IF r.split = low[i] THEN "run" ELSE "split"]
       /\ held' = [held EXCEPT ![c] = held[i], ![i] = @ \ Part(i, splitIndex[i], high[i])]
       /\ newStates' = [newStates EXCEPT ![c] = newStates[i]]
       /\ low' = [low EXCEPT ![c] = low[i]]
       /\ high' = [high EXCEPT ![c] = high[i], ![i] = r.high]
       /\ splitIndex' = [splitIndex EXCEPT ![c] = splitIndex[i], ![i] = r.split]
       /\ UNCHANGED <<shared, slot, ended, child>>

(* The child's half of the loop body: it keeps splitIndex..high. *)
ChildSplit(c) ==
    LET diff == high[c] - splitIndex[c]
    IN (IF diff = 1 THEN 2 ELSE diff) \div 2 + splitIndex[c]

(* Mutant: the instance map is scanned for any slot but the first. *)
M_FreeSlots == {n \in Slot : n # 0 \/ processIds[n] = NoIndex}

FreeSlots == {n \in Slot : processIds[n] = NoIndex}

(* The child takes the first free slot of the instance map. *)
ClaimSlot(c) ==
    /\ pc[c] = "slot"
    /\ \E n \in FreeSlots :
          /\ \A m \in FreeSlots : n <= m
          /\ processIds' = [processIds EXCEPT ![n] = c]
          /\ slot' = [slot EXCEPT ![c] = n]
    /\ UNCHANGED <<count, lastFileId, lastStateId, newStates, high, child>>

(* Mutant: the child also terminates the state at splitIndex. *)
M_TakeSlot(c) ==
    /\ ClaimSlot(c)
    /\ held' = [held EXCEPT ![c] = @ \ Part(c, low[c], splitIndex[c])]
    /\ low' = [low EXCEPT ![c] = splitIndex[c]]
    /\ splitIndex' = [splitIndex EXCEPT ![c] = ChildSplit(c)]
    /\ pc' = [pc EXCEPT ![c] = IF ChildSplit(c) = high[c] THEN "run" ELSE "split"]
    /\ UNCHANGED ended

(* It then terminates the states before splitIndex and continues its loop. *)
TakeSlot(c) ==
    /\ ClaimSlot(c)
    /\ held' = [held EXCEPT ![c] = @ \ Part(c, low[c], splitIndex[c] - 1)]
    /\ low' = [low EXCEPT ![c] = splitIndex[c]]
    /\ splitIndex' = [splitIndex EXCEPT ![c] = ChildSplit(c)]
    /\ pc' = [pc EXCEPT ![c] = IF ChildSplit(c) = high[c] THEN "run" ELSE "split"]
    /\ UNCHANGED ended

(* Or init_timer_alarm fails and the child exits with all that it holds. *)
TimersFail(c) ==
    /\ ClaimSlot(c)
    /\ ended' = ended \cup (held[c] \ Part(c, low[c], splitIndex[c] - 1))
    /\ held' = [held EXCEPT ![c] = {}]
    /\ pc' = [pc EXCEPT ![c] = "exit"]
    /\ UNCHANGED <<low, splitIndex>>

(* A path of the process ends; without states selectNextState exits. *)
EndState(i, x) ==
    /\ pc[i] = "run" /\ x \in held[i]
    /\ held' = [held EXCEPT ![i] = @ \ {x}]
    /\ ended' = ended \cup {x}
    /\ pc' = [pc EXCEPT ![i] = IF held[i] = {x} THEN "exit" ELSE @]
    /\ UNCHANGED <<shared, slot, loop, child>>

(* Mutant: the slot stays taken. *)
M_ExitProcess(i) ==
    /\ pc[i] = "exit"
    /\ count' = count - 1
    /\ pc' = [pc EXCEPT ![i] = "done"]
    /\ UNCHANGED <<lastFileId, lastStateId, processIds, slot, held, ended, loop, child>>

(* ~S2E, from atexit. *)
ExitProcess(i) ==
    /\ pc[i] = "exit"
    /\ processIds' = [processIds EXCEPT ![slot[i]] = NoIndex]
    /\ count' = count - 1
    /\ pc' = [pc EXCEPT ![i] = "done"]
    /\ UNCHANGED <<lastFileId, lastStateId, slot, held, ended, loop, child>>

(* States of process i that it will not drop as part of the fork under way. *)
Mine(i) == held[i] \ (IF pc[i] = "slot" THEN Part(i, low[i], splitIndex[i] - 1) ELSE {})

(* The process is killed by a signal or an assert outside of its critical  *)
(* sections: ~S2E does not run, so the slot and the place in the count are *)
(* lost (checkDeadProcesses, which would free them, has no caller).        *)
Crash(i) ==
    /\ pc[i] \in {"run", "split", "fork", "slot", "exit"}
    /\ ended' = ended \cup Mine(i)
    /\ held' = [held EXCEPT ![i] = {}]
    /\ pc' = [pc EXCEPT ![i] = "crashed"]
    /\ UNCHANGED <<shared, slot, loop, child>>

Next == \E i \in Index :
          \/ \E x \in held[i], n \in 2..MaxWays, pos \in 0..1 : DoStateFork(i, x, n, pos)
          \/ ReserveProcess(i) \/ ForkFails(i) \/ ForkSucceeds(i) \/ TakeSlot(i) \/ TimersFail(i)
          \/ \E x \in held[i] : EndState(i, x)
          \/ ExitProcess(i) \/ Crash(i)

Spec == Init /\ [][Next]_vars

(* What the future depends on.  Locals of loops that have ended do not     *)
(* matter, nor how a process ended, and state ids are interchangeable: for *)
(* each kind of state (has it ended, who holds it, where is it in the part *)
(* of newStates still to be divided) what matters is how many there are.   *)
InLoop(i) == pc[i] \in {"split", "fork", "slot"}
Places(x) == [i \in Index |-> {k \in 1..MaxWays : /\ InLoop(i) /\ low[i] < k /\ k <= high[i] + 1
                                                 /\ newStates[i][k] = x}]
Kinds == [x \in 0..(lastStateId - 1) |->
             <<x \in ended, {i \in Index : x \in held[i]}, Places(x)>>]
HowMany(f) == [a \in {f[x] : x \in DOMAIN f} |-> Cardinality({x \in DOMAIN f : f[x] = a})]
View == <<shared,
          [i \in Index |-> CASE InLoop(i) -> <<pc[i], slot[i], child[i], Len(newStates[i]),
                                                 low[i], high[i], splitIndex[i]>>
                             [] pc[i] \in {"run", "exit"} -> <<pc[i], slot[i]>>
                             [] OTHER -> <<pc[i] = "none">>],
          HowMany(Kinds)>>
-----------------------------------------------------------------------------
TypeOK == /\ count \in Nat /\ lastFileId \in 1..(MaxIndex + 1)
          /\ lastStateId \in 1..(MaxStateId + 1)
          /\ processIds \in [Slot -> Index \cup {NoIndex}]
          /\ pc \in [Index -> {"none", "run", "split", "fork", "slot", "exit", "done", "crashed"}]
          /\ slot \in [Index -> Slot]
          /\ held \in [Index -> SUBSET StateId] /\ ended \subseteq StateId
          /\ newStates \in [Index -> Seq(StateId)]
          /\ low \in [Index -> Nat] /\ high \in [Index -> Nat] /\ splitIndex \in [Index -> Nat]
          /\ child \in [Index -> Index \cup {NoIndex}]

Alive == {i \in Index : pc[i] \in {"run", "split", "fork", "slot", "exit"}}

(* Parallel.rst: "XX is the maximum number of S2E instances you would like *)
(* to have": never more processes than that are alive, although the count  *)
(* that S2E::fork compares is corrected only after a failed ::fork and in  *)
(* ~S2E, which a process that crashes does not run.                        *)
ProcessesWithinLimit == Cardinality(Alive) <= MaxProcesses

(* assert (i < m_maxProcesses) in S2E::fork: the count lets a child in     *)
(* only when the instance map has room for it, whatever forks, failures    *)
(* and exits happen between the two critical sections.                     *)
ChildFindsSlot == \A c \in Index : pc[c] = "slot" => FreeSlots # {}

(* The assert of ~S2E: a process still owns the slot it took. *)
OwnsSlot == \A i \in Index :
    pc[i] \in {"run", "split", "fork", "exit"} => processIds[slot[i]] = i

(* The index reserved for a child, which names its output directory, is    *)
(* not the index of any other process, started or about to be: "Do not     *)
(* decrement lastFileId, as other fork may have succeeded" (S2E.cpp:683).  *)
IndexIsFresh == \A i \in Index : pc[i] = "fork" =>
    /\ child[i] \in Index /\ pc[child[i]] = "none"
    /\ \A j \in Index \ {i} : pc[j] = "fork" => child[j] # child[i]

(* The asserts at the head of the doProcessFork loop. *)
SplitInRange == \A i \in Index :
    pc[i] \in {"split", "fork"} => /\ low[i] <= splitIndex[i] /\ splitIndex[i] <= high[i]
                                   /\ splitIndex[i] < Len(newStates[i])

(* No path is lost by dividing states among processes: a state that did    *)
(* not run to its end is held by some process.                             *)
NoStateLost == \A x \in 0..(lastStateId - 1) :
    x \in ended \/ \E i \in Index : x \in held[i]

(* A process that divides the states of a fork hands each of them to       *)
(* exactly one side, and no side is left without any.                      *)
SplitIsPartition ==
    [][\A i \in Index : (pc[i] = "fork" /\ pc'[child[i]] = "slot" /\ pc[child[i]] = "none") =>
          LET divided == Part(i, low[i], high[i])
              kept == held'[i] \cap divided
              given == Mine(child[i])' \cap divided
          IN kept \cup given = divided /\ kept \cap given = {} /\ kept # {} /\ given # {}]_vars

(* S2E.h:74: "We must have unique state ids across all processes otherwise *)
(* offline tools will be extremely confused when aggregating different     *)
(* execution trace files."                                                 *)
StateIdsUnique == \A i, j \in Index : i # j => Mine(i) \cap Mine(j) = {}
=============================================================================
