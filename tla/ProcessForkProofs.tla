------------------------- MODULE ProcessForkProofs --------------------------
(***************************************************************************)
(* The instance map never overflows, for any limit on the processes and    *)
(* any number of forks and crashes: the process count is at least the      *)
(* number of occupied slots plus the number of children on their way to    *)
(* one (more when children died on their way).                             *)
(*                                                                         *)
(* The division of the states of a fork by doProcessFork, for forks of any *)
(* number of ways: the bisection stays in its bounds, parts the states and *)
(* loses none of them.                                                     *)
(***************************************************************************)
EXTENDS ProcessFork, FiniteSetTheorems, TLAPS

(* Zenon is the prover of a step unless it names another: SMT has those    *)
(* that need arithmetic or the extensionality of sets and records.         *)
USE Zenon

Occupied == {n \in Slot : processIds[n] # NoIndex}
OnTheirWay == {i \in Index : pc[i] \in {"fork", "slot"}}
Placed == {"run", "split", "fork", "exit"}

SlotTypes == /\ count \in Nat /\ lastFileId \in Nat
             /\ processIds \in [Slot -> Index \cup {NoIndex}]
             /\ pc \in [Index -> {"none", "run", "split", "fork", "slot", "exit", "done", "crashed"}]
             /\ slot \in [Index -> Slot]
             /\ child \in [Index -> Index \cup {NoIndex}]

(* A reserved index is below lastFileId and unused; indices from           *)
(* lastFileId on are unused.                                               *)
Fresh == /\ \A i \in Index : i >= lastFileId => pc[i] = "none"
         /\ \A i \in Index : pc[i] = "fork" => child[i] < lastFileId
         /\ IndexIsFresh

Counted == /\ count <= MaxProcesses
           /\ count >= Cardinality(Occupied) + Cardinality(OnTheirWay)

SlotInv == SlotTypes /\ Fresh /\ OwnsSlot /\ Counted

(* There are MaxProcesses slots, and finitely many process indices. *)
LEMMA FiniteSets1 ==
    /\ IsFiniteSet(Slot) /\ Cardinality(Slot) = MaxProcesses
    /\ IsFiniteSet(Index)
<1>1. 0 \in Int /\ MaxProcesses - 1 \in Int /\ MaxIndex \in Int
    BY ProcessAssumption, SMT
<1>2. IsFiniteSet(Slot)
    BY <1>1, FS_Interval DEF Slot
<1>3. Cardinality(Slot) = MaxProcesses
    BY <1>1, FS_Interval, ProcessAssumption, SMT DEF Slot
<1>4. IsFiniteSet(Index)
    BY <1>1, FS_Interval DEF Index
<1> QED BY <1>2, <1>3, <1>4

(* So the slots in use and the children on their way can be counted. *)
LEMMA FiniteParts ==
    /\ IsFiniteSet(Occupied) /\ IsFiniteSet(OnTheirWay)
    /\ Cardinality(Occupied) \in Nat /\ Cardinality(OnTheirWay) \in Nat
<1>1. Occupied \subseteq Slot /\ OnTheirWay \subseteq Index
    BY DEF Occupied, OnTheirWay
<1>2. IsFiniteSet(Occupied) /\ IsFiniteSet(OnTheirWay)
    BY <1>1, FiniteSets1, FS_Subset
<1> QED BY <1>2, FS_CardinalityType

(* Every process index is a number other than NoIndex. *)
LEMMA IndexFacts == Index \subseteq Nat /\ NoIndex \notin Index /\ NoIndex \in Nat
BY ProcessAssumption, SMT DEF Index, NoIndex

(* What the asserts of S2E::fork rest on: with the count right, a child on *)
(* its way leaves at least one slot free.                                  *)
LEMMA RoomForChild ==
    ASSUME SlotInv, NEW c \in Index, pc[c] \in {"slot", "fork"}
    PROVE  FreeSlots # {}
<1>1. c \in OnTheirWay
    BY DEF OnTheirWay
<1>2. Cardinality(OnTheirWay) # 0
    BY <1>1, FiniteParts, FS_EmptySet
<1>3. Cardinality(Occupied) < MaxProcesses
    BY <1>2, FiniteParts, ProcessAssumption, SMT DEF SlotInv, Counted, SlotTypes
<1>4. Occupied # Slot
    BY <1>3, FiniteSets1, ProcessAssumption, SMT
<1> QED BY <1>4 DEF Occupied, FreeSlots

(* The constructor of S2E registers the first process. *)
LEMMA InitSlots == Init => SlotInv
<1> SUFFICES ASSUME Init PROVE SlotInv
    OBVIOUS
<1>1. SlotTypes
    BY ProcessAssumption, IndexFacts, SMT DEF Init, SlotTypes, Slot, Index
<1>2. Fresh
    BY ProcessAssumption, IndexFacts, SMT DEF Init, Fresh, IndexIsFresh, Index
<1>3. OwnsSlot
    BY ProcessAssumption, SMT DEF Init, OwnsSlot, Slot, Index
<1>4. Occupied = {0}
    BY ProcessAssumption, IndexFacts, SMT DEF Init, Occupied, Slot, Index
<1>5. OnTheirWay = {}
    BY DEF Init, OnTheirWay
<1>6. Cardinality(Occupied) = 1 /\ Cardinality(OnTheirWay) = 0
    BY <1>4, <1>5, FS_Singleton, FS_EmptySet
<1>7. Counted
    BY <1>6, ProcessAssumption, SMT DEF Counted, Init
<1> QED BY <1>1, <1>2, <1>3, <1>7 DEF SlotInv

(* A step of process i that touches neither the instance map nor the       *)
(* counts, and neither starts nor ends i's being on its way.               *)
LEMMA QuietStep ==
    ASSUME SlotInv, NEW i \in Index, NEW to \in {"run", "split", "exit"},
           pc[i] \in {"run", "split"}, pc' = [pc EXCEPT ![i] = to],
           UNCHANGED <<count, lastFileId, processIds, slot, child>>
    PROVE  SlotInv'
<1>1. SlotTypes'
    BY DEF SlotInv, SlotTypes
<1>2. Fresh'
    BY IndexFacts DEF SlotInv, SlotTypes, Fresh, IndexIsFresh
<1>3. OwnsSlot'
    BY DEF SlotInv, SlotTypes, OwnsSlot
<1>4. OnTheirWay' = OnTheirWay /\ Occupied' = Occupied
    BY DEF SlotInv, SlotTypes, OnTheirWay, Occupied
<1>5. Counted'
    BY <1>4 DEF SlotInv, Counted
<1> QED BY <1>1, <1>2, <1>3, <1>5 DEF SlotInv

(* The first critical section of S2E::fork counts the child. *)
LEMMA ReserveStep ==
    ASSUME SlotInv, NEW i \in Index, ReserveProcess(i)
    PROVE  SlotInv'
<1>1. CASE count = MaxProcesses
  <2>1. pc[i] = "split" /\ pc' = [pc EXCEPT ![i] = "run"]
        /\ UNCHANGED <<count, lastFileId, processIds, slot, child>>
    BY <1>1 DEF ReserveProcess, ChildIndex
  <2> QED BY <2>1, QuietStep
<1>2. CASE count # MaxProcesses
  <2>1. /\ pc[i] = "split" /\ lastFileId \in Index
        /\ child' = [child EXCEPT ![i] = lastFileId]
        /\ lastFileId' = lastFileId + 1 /\ count' = count + 1
        /\ pc' = [pc EXCEPT ![i] = "fork"]
        /\ UNCHANGED <<processIds, slot>>
    BY <1>2 DEF ReserveProcess, ChildIndex
  <2>2. SlotTypes'
    BY <2>1, SMT DEF SlotInv, SlotTypes
  <2>3. Fresh'
    <3>1. pc[lastFileId] = "none" /\ lastFileId # i /\ lastFileId \in Nat
      BY <2>1, IndexFacts, SMT DEF SlotInv, Fresh
    <3>2. \A j \in Index : j # i => pc'[j] = pc[j] /\ child'[j] = child[j]
      BY <2>1 DEF SlotInv, SlotTypes
    <3>3. child'[i] = lastFileId /\ pc'[lastFileId] = "none" /\ pc[i] # "none"
      BY <2>1, <3>1, <3>2 DEF SlotInv, SlotTypes
    <3>4. \A j \in Index : j # i /\ pc[j] = "fork" =>
            /\ child[j] \in Index /\ child[j] < lastFileId /\ child[j] # lastFileId
            /\ child[j] # i /\ pc[child[j]] = "none"
      BY <3>1, <3>3, IndexFacts, SMT DEF SlotInv, Fresh, IndexIsFresh
    <3>5. \A j \in Index : j >= lastFileId' => pc'[j] = "none"
      BY <2>1, <3>2, <3>3, IndexFacts, SMT DEF SlotInv, Fresh
    <3>6. \A j \in Index : pc'[j] = "fork" => child'[j] < lastFileId'
      <4>1. \A n \in Nat : n <= lastFileId => n < lastFileId + 1
        BY <3>1, SMT
      <4>2. \A j \in Index : pc'[j] = "fork" =>
              child'[j] \in Nat /\ child'[j] <= lastFileId
        <5>1. ASSUME NEW j \in Index, pc'[j] = "fork", j # i
              PROVE  child'[j] \in Nat /\ child'[j] <= lastFileId
          <6>1. child'[j] = child[j] /\ child[j] \in Nat /\ child[j] < lastFileId
            BY <3>2, <3>4, <5>1, IndexFacts
          <6> QED BY <3>1, <6>1, SMT
        <5>2. child'[i] \in Nat /\ child'[i] <= lastFileId
          BY <3>1, <3>3, SMT
        <5> QED BY <5>1, <5>2
      <4> QED BY <2>1, <4>1, <4>2
    <3>7. IndexIsFresh'
      <4>1. ASSUME NEW j \in Index, pc'[j] = "fork"
            PROVE  child'[j] \in Index /\ pc'[child'[j]] = "none"
        BY <2>1, <3>2, <3>3, <3>4, <4>1, SMT
      <4>2. ASSUME NEW j \in Index, NEW k \in Index \ {j}, pc'[j] = "fork", pc'[k] = "fork"
            PROVE  child'[k] # child'[j]
        <5>1. j # i /\ k # i => pc[j] = "fork" /\ pc[k] = "fork"
          BY <3>2, <4>2
        <5>2. j # i /\ k # i => child[k] # child[j]
          BY <5>1 DEF SlotInv, Fresh, IndexIsFresh
        <5> QED BY <3>2, <3>3, <3>4, <4>2, <5>2, SMT
      <4> QED BY <4>1, <4>2 DEF IndexIsFresh
    <3> QED BY <3>5, <3>6, <3>7 DEF Fresh
  <2>4. OwnsSlot'
    BY <2>1 DEF SlotInv, SlotTypes, OwnsSlot
  <2>5. Occupied' = Occupied /\ OnTheirWay' = OnTheirWay \cup {i} /\ i \notin OnTheirWay
    BY <2>1 DEF SlotInv, SlotTypes, Occupied, OnTheirWay
  <2>6. Cardinality(OnTheirWay') = Cardinality(OnTheirWay) + 1
    BY <2>5, FiniteParts, FS_AddElement
  <2>7. Counted'
    BY <1>2, <2>1, <2>5, <2>6, FiniteParts, ProcessAssumption, SMT DEF SlotInv, SlotTypes, Counted
  <2> QED BY <2>2, <2>3, <2>4, <2>7 DEF SlotInv
<1> QED BY <1>1, <1>2

(* A failed ::fork() takes the reservation back. *)
LEMMA FailStep ==
    ASSUME SlotInv, NEW i \in Index, ForkFails(i)
    PROVE  SlotInv'
<1>1. /\ pc[i] = "fork" /\ count' = count - 1 /\ pc' = [pc EXCEPT ![i] = "run"]
      /\ UNCHANGED <<lastFileId, processIds, slot, child>>
    BY DEF ForkFails
<1>2. Occupied' = Occupied /\ OnTheirWay' = OnTheirWay \ {i} /\ i \in OnTheirWay
    BY <1>1 DEF SlotInv, SlotTypes, Occupied, OnTheirWay
<1>3. /\ Cardinality(OnTheirWay') = Cardinality(OnTheirWay) - 1
      /\ Cardinality(OnTheirWay) # 0
    BY <1>2, FiniteParts, FS_RemoveElement, FS_EmptySet
<1>4. Counted' /\ count' \in Nat
    BY <1>1, <1>2, <1>3, FiniteParts, ProcessAssumption, SMT DEF SlotInv, SlotTypes, Counted
<1>5. SlotTypes'
    BY <1>1, <1>4 DEF SlotInv, SlotTypes
<1>6. Fresh'
    BY <1>1, IndexFacts DEF SlotInv, SlotTypes, Fresh, IndexIsFresh
<1>7. OwnsSlot'
    BY <1>1 DEF SlotInv, SlotTypes, OwnsSlot
<1> QED BY <1>4, <1>5, <1>6, <1>7 DEF SlotInv

(* The parent stops being on its way, the child starts. *)
LEMMA SucceedStep ==
    ASSUME SlotInv, NEW i \in Index, ForkSucceeds(i)
    PROVE  SlotInv'
<1> DEFINE c == child[i]
<1>1. PICK to \in {"run", "split"} :
        /\ pc[i] = "fork" /\ pc' = [pc EXCEPT ![c] = "slot", ![i] = to]
        /\ UNCHANGED <<count, lastFileId, processIds, slot, child>>
    BY DEF ForkSucceeds, shared
<1>2. c \in Index /\ pc[c] = "none" /\ c # i /\ c < lastFileId
    BY <1>1 DEF SlotInv, Fresh, IndexIsFresh
<1> HIDE DEF c
<1>3. SlotTypes'
    BY <1>1, <1>2 DEF SlotInv, SlotTypes
<1>4. Fresh'
  <2>1. \A j \in Index : pc'[j] = "fork" => j # i /\ j # c /\ pc[j] = "fork" /\ child[j] # c
    BY <1>1, <1>2 DEF SlotInv, SlotTypes, Fresh, IndexIsFresh, c
  <2>2. \A j \in Index : pc[j] = "none" /\ j # c => pc'[j] = "none"
    BY <1>1, <1>2 DEF SlotInv, SlotTypes
  <2>3. \A j \in Index : j >= lastFileId => pc'[j] = "none"
    BY <1>1, <1>2, <2>2, IndexFacts, SMT DEF SlotInv, SlotTypes, Fresh
  <2>4. IndexIsFresh'
    BY <1>1, <2>1, <2>2 DEF SlotInv, Fresh, IndexIsFresh
  <2> QED BY <1>1, <2>1, <2>3, <2>4 DEF SlotInv, Fresh
<1>5. OwnsSlot'
    BY <1>1, <1>2 DEF SlotInv, SlotTypes, OwnsSlot
<1>6. /\ Occupied' = Occupied /\ OnTheirWay' = (OnTheirWay \ {i}) \cup {c}
      /\ i \in OnTheirWay /\ c \notin OnTheirWay \ {i}
    BY <1>1, <1>2 DEF SlotInv, SlotTypes, Occupied, OnTheirWay
<1>7. IsFiniteSet(OnTheirWay \ {i}) /\ Cardinality(OnTheirWay \ {i}) = Cardinality(OnTheirWay) - 1
    BY <1>6, FiniteParts, FS_RemoveElement
<1>8. Cardinality(OnTheirWay') = Cardinality(OnTheirWay)
  <2>1. Cardinality((OnTheirWay \ {i}) \cup {c}) = Cardinality(OnTheirWay \ {i}) + 1
    BY <1>6, <1>7, FS_AddElement
  <2> QED BY <1>6, <1>7, <2>1, FiniteParts, SMT
<1>9. Counted'
    BY <1>1, <1>6, <1>8 DEF SlotInv, Counted
<1> QED BY <1>3, <1>4, <1>5, <1>9 DEF SlotInv

(* The child moves from being on its way to a slot of its own. *)
LEMMA ClaimStep ==
    ASSUME SlotInv, NEW c \in Index, ClaimSlot(c),
           NEW to \in {"run", "split", "exit"}, pc' = [pc EXCEPT ![c] = to]
    PROVE  SlotInv'
<1>1. PICK n \in FreeSlots :
        /\ pc[c] = "slot" /\ processIds' = [processIds EXCEPT ![n] = c]
        /\ slot' = [slot EXCEPT ![c] = n]
        /\ UNCHANGED <<count, lastFileId, child>>
    BY DEF ClaimSlot
<1>2. n \in Slot /\ processIds[n] = NoIndex
    BY DEF FreeSlots
<1>3. SlotTypes'
    BY <1>1, <1>2 DEF SlotInv, SlotTypes
<1>4. Fresh'
  <2>1. \A j \in Index : j # c => pc'[j] = pc[j]
    BY DEF SlotInv, SlotTypes
  <2>2. pc'[c] = to /\ pc[c] = "slot"
    BY <1>1 DEF SlotInv, SlotTypes
  <2>3. \A j \in Index : j >= lastFileId => pc'[j] = "none"
    BY <2>1, <2>2 DEF SlotInv, Fresh
  <2>4. \A j \in Index : pc'[j] = "fork" => pc[j] = "fork"
    BY <2>1, <2>2
  <2>5. IndexIsFresh'
    BY <1>1, <2>1, <2>2, <2>4, SMT DEF SlotInv, Fresh, IndexIsFresh
  <2> QED BY <1>1, <2>3, <2>4, <2>5 DEF SlotInv, Fresh
<1>5. OwnsSlot'
    BY <1>1, <1>2, IndexFacts DEF SlotInv, SlotTypes, OwnsSlot
<1>6. /\ Occupied' = Occupied \cup {n} /\ n \notin Occupied
      /\ OnTheirWay' = OnTheirWay \ {c} /\ c \in OnTheirWay
    BY <1>1, <1>2, IndexFacts, SMT DEF SlotInv, SlotTypes, Occupied, OnTheirWay
<1>7. Cardinality(Occupied') = Cardinality(Occupied) + 1
    BY <1>6, FiniteParts, FS_AddElement
<1>8. Cardinality(OnTheirWay') = Cardinality(OnTheirWay) - 1
    BY <1>6, FiniteParts, FS_RemoveElement
<1>9. Counted'
    BY <1>1, <1>7, <1>8, FiniteParts, SMT DEF SlotInv, Counted
<1> QED BY <1>3, <1>4, <1>5, <1>9 DEF SlotInv

(* ~S2E frees the slot and the place of the process. *)
LEMMA ExitStep ==
    ASSUME SlotInv, NEW i \in Index, ExitProcess(i)
    PROVE  SlotInv'
<1> DEFINE n == slot[i]
<1>1. /\ pc[i] = "exit" /\ processIds' = [processIds EXCEPT ![n] = NoIndex]
      /\ count' = count - 1 /\ pc' = [pc EXCEPT ![i] = "done"]
      /\ UNCHANGED <<lastFileId, slot, child>>
    BY DEF ExitProcess
<1>2. n \in Slot /\ processIds[n] = i
    BY <1>1 DEF SlotInv, SlotTypes, OwnsSlot
<1>3. \A j \in Index \ {i} : pc[j] \in Placed => slot[j] # n
    BY <1>2 DEF SlotInv, OwnsSlot, Placed
<1> HIDE DEF n
<1>4. /\ Occupied' = Occupied \ {n} /\ n \in Occupied /\ OnTheirWay' = OnTheirWay
    BY <1>1, <1>2, IndexFacts DEF SlotInv, SlotTypes, Occupied, OnTheirWay
<1>5. /\ Cardinality(Occupied') = Cardinality(Occupied) - 1
      /\ Cardinality(Occupied) # 0
    BY <1>4, FiniteParts, FS_RemoveElement, FS_EmptySet
<1>6. Counted' /\ count' \in Nat
    BY <1>1, <1>4, <1>5, FiniteParts, ProcessAssumption, SMT DEF SlotInv, SlotTypes, Counted
<1>7. SlotTypes'
    BY <1>1, <1>2, <1>6 DEF SlotInv, SlotTypes
<1>8. Fresh'
    BY <1>1, IndexFacts DEF SlotInv, SlotTypes, Fresh, IndexIsFresh
<1>9. OwnsSlot'
    BY <1>1, <1>2, <1>3 DEF SlotInv, SlotTypes, OwnsSlot, Placed
<1> QED BY <1>6, <1>7, <1>8, <1>9 DEF SlotInv

(* A process that crashes keeps its slot and its place in the count. *)
LEMMA CrashStep ==
    ASSUME SlotInv, NEW i \in Index, Crash(i)
    PROVE  SlotInv'
<1>1. /\ pc[i] \in {"run", "split", "fork", "slot", "exit"}
      /\ pc' = [pc EXCEPT ![i] = "crashed"]
      /\ UNCHANGED <<count, lastFileId, processIds, slot, child>>
    BY DEF Crash, shared
<1>2. SlotTypes'
    BY <1>1 DEF SlotInv, SlotTypes
<1>3. Fresh'
    BY <1>1, IndexFacts DEF SlotInv, SlotTypes, Fresh, IndexIsFresh
<1>4. OwnsSlot'
    BY <1>1 DEF SlotInv, SlotTypes, OwnsSlot
<1>5. Occupied' = Occupied /\ OnTheirWay' \subseteq OnTheirWay
    BY <1>1 DEF SlotInv, SlotTypes, Occupied, OnTheirWay
<1>6. Cardinality(OnTheirWay') <= Cardinality(OnTheirWay) /\ Cardinality(OnTheirWay') \in Nat
  <2>1. IsFiniteSet(OnTheirWay')
    BY <1>5, FiniteParts, FS_Subset
  <2> QED BY <1>5, <2>1, FiniteParts, FS_Subset, FS_CardinalityType
<1>7. Counted'
    BY <1>1, <1>5, <1>6, FiniteParts, ProcessAssumption, SMTT(30) DEF SlotInv, SlotTypes, Counted
<1> QED BY <1>2, <1>3, <1>4, <1>7 DEF SlotInv

(* Every step keeps the bookkeeping invariant. *)
LEMMA SlotInvInductive == SlotInv /\ [Next]_vars => SlotInv'
<1> SUFFICES ASSUME SlotInv, [Next]_vars PROVE SlotInv'
    OBVIOUS
<1>1. ASSUME NEW i \in Index, NEW x \in held[i], NEW n \in 2..MaxWays, NEW pos \in 0..1,
             DoStateFork(i, x, n, pos)
      PROVE  SlotInv'
  <2>1. pc[i] = "run" /\ pc' = [pc EXCEPT ![i] = "split"]
        /\ UNCHANGED <<count, lastFileId, processIds, slot, child>>
    BY <1>1 DEF DoStateFork
  <2> QED BY <2>1, QuietStep
<1>2. ASSUME NEW i \in Index, ReserveProcess(i) PROVE SlotInv'
    BY <1>2, ReserveStep
<1>3. ASSUME NEW i \in Index, ForkFails(i) PROVE SlotInv'
    BY <1>3, FailStep
<1>4. ASSUME NEW i \in Index, ForkSucceeds(i) PROVE SlotInv'
    BY <1>4, SucceedStep
<1>5. ASSUME NEW i \in Index, TakeSlot(i) PROVE SlotInv'
  <2>1. ClaimSlot(i) /\ \E to \in {"run", "split", "exit"} : pc' = [pc EXCEPT ![i] = to]
    BY <1>5 DEF TakeSlot
  <2> QED BY <2>1, ClaimStep
<1>6. ASSUME NEW i \in Index, TimersFail(i) PROVE SlotInv'
  <2>1. ClaimSlot(i) /\ \E to \in {"run", "split", "exit"} : pc' = [pc EXCEPT ![i] = to]
    BY <1>6 DEF TimersFail
  <2> QED BY <2>1, ClaimStep
<1>7. ASSUME NEW i \in Index, NEW x \in held[i], EndState(i, x) PROVE SlotInv'
  <2>1. /\ pc[i] = "run" /\ \E to \in {"run", "split", "exit"} : pc' = [pc EXCEPT ![i] = to]
        /\ UNCHANGED <<count, lastFileId, processIds, slot, child>>
    BY <1>7 DEF EndState, shared
  <2> QED BY <2>1, QuietStep
<1>8. ASSUME NEW i \in Index, ExitProcess(i) PROVE SlotInv'
    BY <1>8, ExitStep
<1>c. ASSUME NEW i \in Index, Crash(i) PROVE SlotInv'
    BY <1>c, CrashStep
<1>9. CASE UNCHANGED vars
  <2>1. UNCHANGED <<count, lastFileId, processIds, pc, slot, child>>
    BY <1>9 DEF vars, shared
  <2>2. SlotTypes' /\ Fresh' /\ OwnsSlot'
    BY <2>1 DEF SlotInv, SlotTypes, Fresh, IndexIsFresh, OwnsSlot
  <2>3. Occupied' = Occupied /\ OnTheirWay' = OnTheirWay
    BY <2>1 DEF Occupied, OnTheirWay
  <2>4. Counted'
    BY <2>1, <2>3 DEF SlotInv, Counted
  <2> QED BY <2>2, <2>4 DEF SlotInv
<1> QED BY <1>1, <1>2, <1>3, <1>4, <1>5, <1>6, <1>7, <1>8, <1>9, <1>c DEF Next

(* So it always holds. *)
LEMMA SlotInvAlways == Spec => []SlotInv
BY InitSlots, SlotInvInductive, PTL DEF Spec

(* S2E::fork's assert (i < m_maxProcesses): a child that the process count *)
(* let in finds a free slot, whatever the others do meanwhile.             *)
THEOREM InstanceMapHasRoom == Spec => []ChildFindsSlot
<1>1. SlotInv => ChildFindsSlot
    BY RoomForChild DEF ChildFindsSlot
<1> QED BY <1>1, SlotInvAlways, PTL

(* The assert of ~S2E: the slot a process gives back is its own. *)
THEOREM SlotsStayOwned == Spec => []OwnsSlot
<1>1. SlotInv => OwnsSlot
    BY DEF SlotInv
<1> QED BY <1>1, SlotInvAlways, PTL

(* The index given to a child is unused, also after forks that failed. *)
THEOREM IndicesAreFresh == Spec => []IndexIsFresh
<1>1. SlotInv => IndexIsFresh
    BY DEF SlotInv, Fresh
<1> QED BY <1>1, SlotInvAlways, PTL
(***************************************************************************)
(* The limit on the number of processes.                                   *)
(***************************************************************************)

Reserved == {i \in Index : pc[i] = "fork"}

(* The count covers every living process and every reservation. *)
LimitInv == /\ SlotInv
            /\ count >= Cardinality(Alive) + Cardinality(Reserved)

(* The two sets can be counted. *)
LEMMA FiniteAlive ==
    /\ IsFiniteSet(Alive) /\ IsFiniteSet(Reserved)
    /\ Cardinality(Alive) \in Nat /\ Cardinality(Reserved) \in Nat
<1>1. Alive \subseteq Index /\ Reserved \subseteq Index
    BY DEF Alive, Reserved
<1>2. IsFiniteSet(Alive) /\ IsFiniteSet(Reserved)
    BY <1>1, FiniteSets1, FS_Subset
<1> QED BY <1>2, FS_CardinalityType

(* The first process is the only one. *)
LEMMA InitLimit == Init => LimitInv
<1> SUFFICES ASSUME Init PROVE LimitInv
    OBVIOUS
<1>1. Alive = {0} /\ Reserved = {}
    BY ProcessAssumption, SMT DEF Init, Alive, Reserved, Index
<1>2. Cardinality(Alive) = 1 /\ Cardinality(Reserved) = 0
    BY <1>1, FS_Singleton, FS_EmptySet
<1> QED BY <1>2, InitSlots, SMT DEF LimitInv, Init

(* A step of one process that leaves the count alone and reserves nothing: *)
(* it goes on, or it is dead.                                              *)
LEMMA LimitQuiet ==
    ASSUME LimitInv, NEW i \in Index,
           pc[i] \in {"run", "split", "fork", "slot", "exit"},
           NEW to \in {"run", "split", "exit", "crashed"}, pc' = [pc EXCEPT ![i] = to],
           count' = count
    PROVE  count' >= Cardinality(Alive') + Cardinality(Reserved')
<1>1. Alive' \subseteq Alive /\ Reserved' \subseteq Reserved
    BY DEF LimitInv, SlotInv, SlotTypes, Alive, Reserved
<1>2. /\ Cardinality(Alive') <= Cardinality(Alive)
      /\ Cardinality(Reserved') <= Cardinality(Reserved)
      /\ Cardinality(Alive') \in Nat /\ Cardinality(Reserved') \in Nat
  <2>1. IsFiniteSet(Alive') /\ IsFiniteSet(Reserved')
    BY <1>1, FiniteAlive, FS_Subset
  <2> QED BY <1>1, <2>1, FiniteAlive, FS_Subset, FS_CardinalityType
<1>3. count \in Nat /\ count >= Cardinality(Alive) + Cardinality(Reserved)
    BY DEF LimitInv, SlotInv, SlotTypes
<1> QED BY <1>2, <1>3, FiniteAlive, SMT

(* Every step keeps the count high enough. *)
LEMMA LimitInductive == LimitInv /\ [Next]_vars => LimitInv'
<1> SUFFICES ASSUME LimitInv, [Next]_vars
             PROVE  count' >= Cardinality(Alive') + Cardinality(Reserved')
    BY SlotInvInductive DEF LimitInv
<1> DEFINE Goal == count' >= Cardinality(Alive') + Cardinality(Reserved')
           Quiet(i) == /\ pc[i] \in {"run", "split", "fork", "slot", "exit"} /\ count' = count
                       /\ \E to \in {"run", "split", "exit", "crashed"} : pc' = [pc EXCEPT ![i] = to]
<1>0. ASSUME NEW i \in Index, Quiet(i) PROVE Goal
    BY <1>0, LimitQuiet
<1> HIDE DEF Goal
<1>c. /\ count \in Nat /\ count >= Cardinality(Alive) + Cardinality(Reserved)
      /\ pc \in [Index -> {"none", "run", "split", "fork", "slot", "exit", "done", "crashed"}]
    BY DEF LimitInv, SlotInv, SlotTypes
<1>1. ASSUME NEW i \in Index, NEW x \in held[i], NEW n \in 2..MaxWays, NEW pos \in 0..1,
             DoStateFork(i, x, n, pos)
      PROVE  Goal
  <2>1. Quiet(i)
    BY <1>1 DEF DoStateFork
  <2> QED BY <2>1, <1>0
<1>2. ASSUME NEW i \in Index, ReserveProcess(i) PROVE Goal
  <2>1. CASE count = MaxProcesses
    <3>1. Quiet(i)
      BY <1>2, <2>1 DEF ReserveProcess
    <3> QED BY <3>1, <1>0
  <2>2. CASE count # MaxProcesses
    <3>1. pc[i] = "split" /\ count' = count + 1 /\ pc' = [pc EXCEPT ![i] = "fork"]
      BY <1>2, <2>2 DEF ReserveProcess
    <3>2. Alive' = Alive /\ Reserved' = Reserved \cup {i} /\ i \notin Reserved
      BY <1>c, <3>1 DEF Alive, Reserved
    <3>3. Cardinality(Reserved') = Cardinality(Reserved) + 1
      BY <3>2, FiniteAlive, FS_AddElement
    <3> QED BY <1>c, <3>1, <3>2, <3>3, FiniteAlive, SMT DEF Goal
  <2> QED BY <2>1, <2>2
<1>3. ASSUME NEW i \in Index, ForkFails(i) PROVE Goal
  <2>1. pc[i] = "fork" /\ count' = count - 1 /\ pc' = [pc EXCEPT ![i] = "run"]
    BY <1>3 DEF ForkFails
  <2>2. Alive' = Alive /\ Reserved' = Reserved \ {i} /\ i \in Reserved
    BY <1>c, <2>1 DEF Alive, Reserved
  <2>3. Cardinality(Reserved') = Cardinality(Reserved) - 1
    BY <2>2, FiniteAlive, FS_RemoveElement
  <2> QED BY <1>c, <2>1, <2>2, <2>3, FiniteAlive, SMT DEF Goal
<1>4. ASSUME NEW i \in Index, ForkSucceeds(i) PROVE Goal
  <2> DEFINE c == child[i]
  <2>1. PICK to \in {"run", "split"} :
          pc[i] = "fork" /\ pc' = [pc EXCEPT ![c] = "slot", ![i] = to] /\ count' = count
    BY <1>4 DEF ForkSucceeds, shared
  <2>2. c \in Index /\ pc[c] = "none" /\ c # i
    BY <2>1 DEF LimitInv, SlotInv, Fresh, IndexIsFresh
  <2> HIDE DEF c
  <2>3. /\ Alive' = Alive \cup {c} /\ c \notin Alive
        /\ Reserved' = Reserved \ {i} /\ i \in Reserved
    BY <1>c, <2>1, <2>2 DEF Alive, Reserved
  <2>4. /\ Cardinality(Alive') = Cardinality(Alive) + 1
        /\ Cardinality(Reserved') = Cardinality(Reserved) - 1
    BY <2>3, FiniteAlive, FS_AddElement, FS_RemoveElement
  <2> QED BY <1>c, <2>1, <2>4, FiniteAlive, SMT DEF Goal
<1>5. ASSUME NEW i \in Index, TakeSlot(i) \/ TimersFail(i) PROVE Goal
  <2>1. Quiet(i)
    BY <1>5 DEF TakeSlot, TimersFail, ClaimSlot
  <2> QED BY <2>1, <1>0
<1>6. ASSUME NEW i \in Index, NEW x \in held[i], EndState(i, x) PROVE Goal
  <2>1. Quiet(i)
    BY <1>6 DEF EndState, shared
  <2> QED BY <2>1, <1>0
<1>7. ASSUME NEW i \in Index, ExitProcess(i) PROVE Goal
  <2>1. pc[i] = "exit" /\ count' = count - 1 /\ pc' = [pc EXCEPT ![i] = "done"]
    BY <1>7 DEF ExitProcess
  <2>2. Alive' = Alive \ {i} /\ Reserved' = Reserved /\ i \in Alive
    BY <1>c, <2>1 DEF Alive, Reserved
  <2>3. Cardinality(Alive') = Cardinality(Alive) - 1
    BY <2>2, FiniteAlive, FS_RemoveElement
  <2> QED BY <1>c, <2>1, <2>2, <2>3, FiniteAlive, SMT DEF Goal
<1>8. ASSUME NEW i \in Index, Crash(i) PROVE Goal
  <2>1. Quiet(i)
    BY <1>8 DEF Crash, shared
  <2> QED BY <2>1, <1>0
<1>9. ASSUME UNCHANGED vars PROVE Goal
  <2>1. UNCHANGED <<count, pc>>
    BY <1>9 DEF vars, shared
  <2>2. Alive' = Alive /\ Reserved' = Reserved
    BY <2>1 DEF Alive, Reserved
  <2> QED BY <1>c, <2>1, <2>2 DEF Goal
<1>10. ASSUME Next PROVE Goal
  <2>1. PICK i \in Index :
          \/ \E x \in held[i], n \in 2..MaxWays, pos \in 0..1 : DoStateFork(i, x, n, pos)
          \/ ReserveProcess(i) \/ ForkFails(i) \/ ForkSucceeds(i) \/ TakeSlot(i) \/ TimersFail(i)
          \/ \E x \in held[i] : EndState(i, x)
          \/ ExitProcess(i) \/ Crash(i)
    BY <1>10 DEF Next
  <2> QED BY <1>1, <1>2, <1>3, <1>4, <1>5, <1>6, <1>7, <1>8, <2>1
<1>11. Goal
    BY <1>9, <1>10
<1> QED BY <1>11 DEF Goal

(* -s2e-max-processes is never exceeded by living processes, also when     *)
(* some of them crash and when ::fork fails.                               *)
THEOREM LimitIsKept == Spec => []ProcessesWithinLimit
<1>1. LimitInv => ProcessesWithinLimit
  <2> SUFFICES ASSUME LimitInv PROVE Cardinality(Alive) <= MaxProcesses
    BY DEF ProcessesWithinLimit
  <2>1. /\ count \in Nat /\ count <= MaxProcesses
        /\ count >= Cardinality(Alive) + Cardinality(Reserved)
    BY DEF LimitInv, SlotInv, Counted, SlotTypes
  <2> QED BY <2>1, FiniteAlive, ProcessAssumption, SMT
<1>2. Spec => []LimitInv
    BY InitLimit, LimitInductive, PTL DEF Spec
<1> QED BY <1>1, <1>2, PTL
-----------------------------------------------------------------------------
Dividing == {"split", "fork", "slot"}
AllStages == {"none", "run", "split", "fork", "slot", "exit", "done", "crashed"}

DivTypes == /\ lastStateId \in Nat
            /\ pc \in [Index -> AllStages]
            /\ held \in [Index -> SUBSET StateId]
            /\ newStates \in [Index -> Seq(StateId)]
            /\ low \in [Index -> Nat] /\ high \in [Index -> Nat]
            /\ splitIndex \in [Index -> Nat]
            /\ \A j \in Index : held[j] \subseteq 0..(lastStateId - 1)

(* Two results of a fork are two states. *)
Injective(f) == \A a, b \in DOMAIN f : f[a] = f[b] => a = b

(* Both parts of the range that process i divides are non-empty and inside *)
(* newStates.                                                              *)
GoodRange(i) == /\ low[i] < splitIndex[i] /\ splitIndex[i] <= high[i]
                /\ high[i] < Len(newStates[i]) /\ Injective(newStates[i])

Ranges == \A i \in Index : pc[i] \in Dividing => GoodRange(i)

(* NoStateLost, without the states that a child has yet to drop. *)
NothingLost == \A x \in 0..(lastStateId - 1) : x \in ended \/ \E i \in Index : x \in Mine(i)

(* A process that has not started holds no state. *)
NoneIsEmpty == \A i \in Index : pc[i] = "none" => held[i] = {}

(* A process holds all the states that it still has to divide. *)
Whole == \A i \in Index : pc[i] \in Dividing => Part(i, low[i], high[i]) \subseteq held[i]

DivInv == DivTypes /\ Ranges /\ NothingLost /\ NoneIsEmpty /\ Whole

(* The invariant holds of the one state of the first process. *)
LEMMA InitDiv == Init => DivInv
<1> SUFFICES ASSUME Init PROVE DivInv
    OBVIOUS
<1>1. DivTypes
    BY ProcessAssumption, SMT DEF Init, DivTypes, AllStages, Index, StateId
<1>2. Ranges
    BY ProcessAssumption DEF Init, Ranges, Dividing
<1>3. 0 \in Mine(0) /\ 0 \in Index /\ lastStateId = 1
    BY ProcessAssumption, SMT DEF Init, Mine, Index
<1>4. NothingLost
    BY <1>3, SMT DEF NothingLost
<1>5. NoneIsEmpty
    BY DEF Init, NoneIsEmpty
<1>6. Whole
    BY DEF Init, Whole, Dividing
<1> QED BY <1>1, <1>2, <1>4, <1>5, <1>6 DEF DivInv

(* The states kept by the two sides of a process fork do not overlap. *)
LEMMA PartsDisjoint ==
    ASSUME DivInv, NEW i \in Index, pc[i] \in Dividing
    PROVE  Part(i, low[i], splitIndex[i] - 1) \cap Part(i, splitIndex[i], high[i]) = {}
<1> SUFFICES ASSUME NEW a \in low[i]..(splitIndex[i] - 1), NEW b \in splitIndex[i]..high[i],
                    newStates[i][a + 1] = newStates[i][b + 1]
             PROVE  FALSE
    BY DEF Part
<1>1. GoodRange(i) /\ low[i] \in Nat /\ splitIndex[i] \in Nat /\ high[i] \in Nat
      /\ newStates[i] \in Seq(StateId)
    BY DEF DivInv, DivTypes, Ranges
<1>2. a + 1 \in 1..Len(newStates[i]) /\ b + 1 \in 1..Len(newStates[i]) /\ a # b
  <2>1. Len(newStates[i]) \in Nat
    BY <1>1, SMT
  <2> QED BY <1>1, <2>1, SMTT(30) DEF GoodRange
<1>3. a + 1 \in DOMAIN newStates[i] /\ b + 1 \in DOMAIN newStates[i]
    BY <1>1, <1>2, SMT
<1>4. a + 1 = b + 1
  <2>1. Injective(newStates[i])
    BY <1>1 DEF GoodRange
  <2>2. \A x, y \in DOMAIN newStates[i] : newStates[i][x] = newStates[i][y] => x = y
    BY <2>1 DEF Injective
  <2> QED BY <1>3, <2>2
<1> QED BY <1>2, <1>4, SMT

(* A step that leaves the range of each process that divides alone. *)
LEMMA RangesKept ==
    ASSUME DivInv, NEW i \in Index, NEW to \in AllStages \ {"slot"},
           pc' = [pc EXCEPT ![i] = to], to \in Dividing => pc[i] \in Dividing,
           UNCHANGED loop
    PROVE  Ranges'
<1>1. \A j \in Index : pc'[j] \in Dividing => pc[j] \in Dividing
    BY DEF DivInv, DivTypes
<1>2. \A j \in Index : GoodRange(j) => GoodRange(j)'
    BY DEF loop, GoodRange, Injective
<1> QED BY <1>1, <1>2 DEF DivInv, Ranges

(* What nobody drops is not lost. *)
LEMMA NothingLostKept ==
    ASSUME DivInv, lastStateId' = lastStateId, ended \subseteq ended',
           \A j \in Index : \A x \in Mine(j) : x \in ended' \/ \E k \in Index : x \in Mine(k)'
    PROVE  NothingLost'
BY DEF DivInv, NothingLost

(* A state fork numbers its new states from lastStateId on and divides     *)
(* them at n \div 2.                                                       *)
LEMMA ForkDiv ==
    ASSUME DivInv, NEW i \in Index, NEW x \in held[i], NEW n \in 2..MaxWays, NEW pos \in 0..1,
           DoStateFork(i, x, n, pos)
    PROVE  DivInv'
<1> DEFINE fresh == [k \in 1..(n - 1) |-> lastStateId + k - 1]
           ns == [k \in 1..n |-> IF k - 1 = pos THEN x
                                 ELSE IF k - 1 < pos THEN fresh[k] ELSE fresh[k - 1]]
<1>1. /\ pc[i] = "run" /\ n >= 2 /\ (pos = 0 \/ n = 2) /\ lastStateId + n - 2 \in StateId
      /\ lastStateId' = lastStateId + n - 1
      /\ held' = [held EXCEPT ![i] = @ \cup {fresh[k] : k \in 1..(n - 1)}]
      /\ newStates' = [newStates EXCEPT ![i] = ns]
      /\ low' = [low EXCEPT ![i] = 0] /\ high' = [high EXCEPT ![i] = n - 1]
      /\ splitIndex' = [splitIndex EXCEPT ![i] = n \div 2]
      /\ pc' = [pc EXCEPT ![i] = "split"] /\ ended' = ended
    BY DEF DoStateFork
<1>2. n \in Nat /\ n >= 2 /\ lastStateId \in Nat /\ x \in StateId /\ x < lastStateId /\ x \in Nat
    BY ProcessAssumption, SMT DEF DivInv, DivTypes, StateId
<1>3. \A k \in 1..(n - 1) : fresh[k] = lastStateId + k - 1 /\ fresh[k] \in StateId
    BY <1>1, <1>2, ProcessAssumption, SMTT(30) DEF StateId
<1>4. \A k \in 1..n : /\ k - 1 = pos => ns[k] = x
                      /\ k - 1 < pos => ns[k] = lastStateId + k - 1 /\ k \in 1..(n - 1)
                      /\ k - 1 > pos => ns[k] = lastStateId + k - 2 /\ k - 1 \in 1..(n - 1)
  <2> SUFFICES ASSUME NEW k \in 1..n
               PROVE  /\ k - 1 = pos => ns[k] = x
                      /\ k - 1 < pos => ns[k] = lastStateId + k - 1 /\ k \in 1..(n - 1)
                      /\ k - 1 > pos => ns[k] = lastStateId + k - 2 /\ k - 1 \in 1..(n - 1)
    OBVIOUS
  <2>1. /\ k - 1 < pos => k \in 1..(n - 1)
        /\ k - 1 > pos => k - 1 \in 1..(n - 1) /\ ~(k - 1 = pos) /\ ~(k - 1 < pos)
        /\ k - 1 < pos => ~(k - 1 = pos)
    BY <1>1, <1>2, SMTT(30)
  <2>2. ns[k] = IF k - 1 = pos THEN x ELSE IF k - 1 < pos THEN fresh[k] ELSE fresh[k - 1]
    OBVIOUS
  <2>3. k - 1 \in 1..(n - 1) => fresh[k - 1] = lastStateId + k - 2
    BY <1>2, <1>3, SMT
  <2> HIDE DEF ns, fresh
  <2> QED BY <1>3, <2>1, <2>2, <2>3
<1>5. ns \in [1..n -> StateId]
  <2>1. \A k \in 1..n : k - 1 = pos \/ k - 1 < pos \/ k - 1 > pos
    BY <1>2, SMT
  <2>2. \A k \in 1..(n - 1) : lastStateId + k - 1 \in StateId
    BY <1>3
  <2>3. \A k \in 1..n : ns[k] \in StateId
    <3> HIDE DEF ns, fresh
    <3>1. ASSUME NEW k \in 1..n, k - 1 > pos PROVE ns[k] \in StateId
      <4>1. lastStateId + (k - 1) - 1 \in StateId
        BY <1>4, <2>2, <3>1
      <4>2. lastStateId + (k - 1) - 1 = lastStateId + k - 2
        BY <1>2, SMT
      <4> QED BY <1>4, <3>1, <4>1, <4>2
    <3> QED BY <1>2, <1>4, <2>1, <2>2, <3>1
  <2> QED BY <2>3
<1>6. ns \in Seq(StateId) /\ Len(ns) = n /\ DOMAIN ns = 1..n
  <2> HIDE DEF ns
  <2>1. DOMAIN ns = 1..n
    BY <1>5
  <2>2. ns \in Seq(StateId)
    BY <1>2, <1>5, SMT
  <2> QED BY <1>2, <2>1, <2>2, SMT
<1>7. Injective(ns)
  <2> SUFFICES ASSUME NEW a \in 1..n, NEW b \in 1..n, ns[a] = ns[b] PROVE a = b
    BY <1>6 DEF Injective
  <2> HIDE DEF ns
  <2> QED BY <1>2, <1>4, SMT
<1> HIDE DEF ns
<1>8. DivTypes'
  <2>1. {fresh[k] : k \in 1..(n - 1)} \subseteq StateId
    BY <1>3
  <2> HIDE DEF fresh
  <2>2. held' \in [Index -> SUBSET StateId]
    BY <1>1, <2>1, SMTT(30) DEF DivInv, DivTypes
  <2>3. lastStateId' \in Nat /\ n - 1 \in Nat /\ n \div 2 \in Nat
    BY <1>1, <1>2, SMT
  <2>4. ASSUME NEW j \in Index, NEW y \in held'[j] PROVE y \in 0..(lastStateId' - 1)
    <3>1. ASSUME y \in held[j] PROVE y \in 0..(lastStateId' - 1)
      <4>1. y \in 0..(lastStateId - 1)
        BY <3>1 DEF DivInv, DivTypes
      <4> QED BY <1>1, <1>2, <4>1, SMT
    <3>2. ASSUME NEW k \in 1..(n - 1), y = fresh[k] PROVE y \in 0..(lastStateId' - 1)
      <4>1. y = lastStateId + k - 1
        BY <1>3, <3>2
      <4> QED BY <1>1, <1>2, <4>1, SMT
    <3>3. y \in held[j] \/ \E k \in 1..(n - 1) : y = fresh[k]
      BY <1>1, <2>4 DEF DivInv, DivTypes
    <3> QED BY <3>1, <3>2, <3>3
  <2> QED BY <1>1, <1>6, <2>2, <2>3, <2>4 DEF DivInv, DivTypes, AllStages
<1>9. Ranges'
  <2>1. GoodRange(i)'
    <3>1. low'[i] = 0 /\ high'[i] = n - 1 /\ splitIndex'[i] = n \div 2 /\ newStates'[i] = ns
      BY <1>1 DEF DivInv, DivTypes
    <3>2. 0 < n \div 2 /\ n \div 2 <= n - 1 /\ n - 1 < n
      BY <1>2, SMT
    <3> QED BY <1>6, <1>7, <3>1, <3>2 DEF GoodRange
  <2>2. \A j \in Index \ {i} : /\ pc'[j] = pc[j] /\ low'[j] = low[j] /\ high'[j] = high[j]
                               /\ splitIndex'[j] = splitIndex[j] /\ newStates'[j] = newStates[j]
    BY <1>1 DEF DivInv, DivTypes
  <2>3. \A j \in Index \ {i} : GoodRange(j) => GoodRange(j)'
    BY <2>2 DEF GoodRange
  <2> QED BY <2>1, <2>2, <2>3 DEF DivInv, Ranges
<1>10. NothingLost'
  <2>1. \A j \in Index : Mine(j) \subseteq Mine(j)'
    <3>1. ASSUME NEW j \in Index \ {i} PROVE Mine(j)' = Mine(j)
      BY <1>1, <3>1 DEF DivInv, DivTypes, Mine, Part
    <3>2. Mine(i) \subseteq Mine(i)'
      BY <1>1 DEF DivInv, DivTypes, Mine
    <3> QED BY <3>1, <3>2
  <2>2. ASSUME NEW y \in 0..(lastStateId' - 1), y >= lastStateId PROVE y \in Mine(i)'
    <3>1. y - lastStateId + 1 \in 1..(n - 1)
      BY <1>1, <1>2, <2>2, SMT
    <3>2. fresh[y - lastStateId + 1] = y
      BY <1>2, <1>3, <3>1, SMT
    <3>3. y \in held'[i] /\ pc'[i] = "split"
      BY <1>1, <3>1, <3>2 DEF DivInv, DivTypes
    <3> QED BY <3>3 DEF Mine
  <2>3. ASSUME NEW y \in 0..(lastStateId' - 1), y < lastStateId
        PROVE  y \in ended \/ \E j \in Index : y \in Mine(j)
    <3>1. y \in 0..(lastStateId - 1)
      BY <1>2, <2>3, SMT
    <3> QED BY <3>1 DEF DivInv, NothingLost
  <2>4. \A y \in 0..(lastStateId' - 1) : y < lastStateId \/ y >= lastStateId
    BY <1>1, <1>2, SMTT(30)
  <2> QED BY <1>1, <2>1, <2>2, <2>3, <2>4 DEF NothingLost
<1>11. NoneIsEmpty'
    BY <1>1 DEF DivInv, DivTypes, NoneIsEmpty
<1>12. Whole'
  <2>1. \A k \in 1..n : ns[k] \in held'[i]
    <3>1. ASSUME NEW k \in 1..(n - 1) PROVE lastStateId + k - 1 \in held'[i]
      <4>1. held'[i] = held[i] \cup {fresh[a] : a \in 1..(n - 1)}
        BY <1>1 DEF DivInv, DivTypes
      <4>2. fresh[k] \in held'[i] /\ fresh[k] = lastStateId + k - 1
        BY <1>3, <4>1
      <4> QED BY <4>2
    <3>2. x \in held'[i]
      BY <1>1 DEF DivInv, DivTypes
    <3>3. \A k \in 1..n : k - 1 = pos \/ k - 1 < pos \/ k - 1 > pos
      BY <1>2, SMT
    <3>4. ASSUME NEW k \in 1..n, k - 1 > pos PROVE ns[k] \in held'[i]
      <4>1. lastStateId + (k - 1) - 1 \in held'[i]
        BY <1>4, <3>1, <3>4
      <4>2. lastStateId + (k - 1) - 1 = lastStateId + k - 2
        BY <1>2, SMT
      <4> QED BY <1>4, <3>4, <4>1, <4>2
    <3> QED BY <1>4, <3>1, <3>2, <3>3, <3>4
  <2>2. Part(i, low[i], high[i])' \subseteq held'[i]
    <3>1. low'[i] = 0 /\ high'[i] = n - 1 /\ newStates'[i] = ns
      BY <1>1 DEF DivInv, DivTypes
    <3>2. \A k \in 0..(n - 1) : k + 1 \in 1..n
      BY <1>2, SMTT(30)
    <3> QED BY <2>1, <3>1, <3>2 DEF Part
  <2>3. \A j \in Index \ {i} : /\ pc'[j] = pc[j] /\ held'[j] = held[j]
                               /\ Part(j, low[j], high[j])' = Part(j, low[j], high[j])
    BY <1>1 DEF DivInv, DivTypes, Part
  <2> QED BY <2>2, <2>3 DEF DivInv, Whole
<1> QED BY <1>8, <1>9, <1>10, <1>11, <1>12 DEF DivInv

(* A step of process i outside of the division: what it stops holding has  *)
(* ended.                                                                  *)
LEMMA QuietDiv ==
    ASSUME DivInv, NEW i \in Index, NEW to \in AllStages \ {"slot", "none"},
           pc' = [pc EXCEPT ![i] = to], to \in Dividing => pc[i] \in Dividing,
           NEW left \in SUBSET held[i], to \in Dividing => left = held[i],
           held' = [held EXCEPT ![i] = left],
           ended \subseteq ended', Mine(i) \subseteq left \cup ended',
           UNCHANGED <<lastStateId, loop>>
    PROVE  DivInv'
<1>1. DivTypes'
    BY DEF DivInv, DivTypes, loop
<1>2. Ranges'
    BY RangesKept
<1>3. \A j \in Index \ {i} : Mine(j)' = Mine(j)
    BY DEF DivInv, DivTypes, Mine, Part, loop
<1>4. Mine(i)' = left
    BY DEF DivInv, DivTypes, Mine
<1>5. NothingLost'
    BY <1>3, <1>4, NothingLostKept
<1>6. NoneIsEmpty'
    BY DEF DivInv, DivTypes, NoneIsEmpty
<1>7. Whole'
  <2>1. \A j \in Index : Part(j, low[j], high[j])' = Part(j, low[j], high[j])
    BY DEF Part, loop
  <2>2. \A j \in Index : pc'[j] \in Dividing => pc[j] \in Dividing /\ held'[j] = held[j]
    BY DEF DivInv, DivTypes
  <2> QED BY <2>1, <2>2 DEF DivInv, Whole
<1> QED BY <1>1, <1>2, <1>5, <1>6, <1>7 DEF DivInv

(* ::fork() succeeds: the parent keeps the lower part, the child will keep *)
(* the upper one, and both keep what is not divided.                       *)
LEMMA SucceedDiv ==
    ASSUME SlotInv, DivInv, NEW i \in Index, ForkSucceeds(i)
    PROVE  DivInv'
<1> DEFINE h == splitIndex[i] - 1
           sp == (h - low[i]) \div 2 + low[i]
<1>0. PICK c \in Index : c = child[i] /\ pc[c] = "none" /\ c # i
    BY DEF ForkSucceeds, SlotInv, Fresh, IndexIsFresh
<1>1. /\ pc[i] = "fork"
      /\ pc' = [pc EXCEPT ![c] = "slot", ![i] = IF sp = low[i] THEN "run" ELSE "split"]
      /\ held' = [held EXCEPT ![c] = held[i], ![i] = @ \ Part(i, splitIndex[i], high[i])]
      /\ newStates' = [newStates EXCEPT ![c] = newStates[i]]
      /\ low' = [low EXCEPT ![c] = low[i]]
      /\ high' = [high EXCEPT ![c] = high[i], ![i] = h]
      /\ splitIndex' = [splitIndex EXCEPT ![c] = splitIndex[i], ![i] = sp]
      /\ lastStateId' = lastStateId /\ ended' = ended
    BY <1>0 DEF ForkSucceeds, ParentRange, shared
<1>2. c \in Index /\ pc[c] = "none" /\ c # i
    BY <1>0
<1>3. GoodRange(i) /\ low[i] \in Nat /\ splitIndex[i] \in Nat /\ high[i] \in Nat
    BY <1>1 DEF DivInv, DivTypes, Ranges, Dividing
<1>4. h \in Nat /\ sp \in Nat /\ low[i] <= sp /\ sp <= h /\ h < high[i]
  <2>1. h \in Nat /\ low[i] <= h /\ h < high[i]
    BY <1>3, SMT DEF GoodRange
  <2>2. \A n \in Nat : n \div 2 \in Nat /\ n \div 2 <= n
    BY SMT
  <2>3. h - low[i] \in Nat
    BY <1>3, <2>1, SMTT(30)
  <2>4. PICK m \in Nat : m = (h - low[i]) \div 2 /\ m <= h - low[i]
    BY <2>2, <2>3
  <2>5. sp = m + low[i]
    BY <2>4
  <2> HIDE DEF h, sp
  <2> QED BY <1>3, <2>1, <2>4, <2>5, SMT
<1> HIDE DEF h, sp
<1>5. /\ pc'[i] = (IF sp = low[i] THEN "run" ELSE "split") /\ pc'[c] = "slot"
      /\ held'[c] = held[i] /\ held'[i] = held[i] \ Part(i, splitIndex[i], high[i])
      /\ newStates'[c] = newStates[i] /\ newStates'[i] = newStates[i]
      /\ low'[c] = low[i] /\ low'[i] = low[i] /\ high'[c] = high[i] /\ high'[i] = h
      /\ splitIndex'[c] = splitIndex[i] /\ splitIndex'[i] = sp
    BY <1>1, <1>2 DEF DivInv, DivTypes
<1>6. \A j \in Index \ {i, c} : /\ pc'[j] = pc[j] /\ held'[j] = held[j]
                                /\ newStates'[j] = newStates[j] /\ low'[j] = low[j]
                                /\ high'[j] = high[j] /\ splitIndex'[j] = splitIndex[j]
    BY <1>1, <1>2 DEF DivInv, DivTypes
<1>7. DivTypes'
  <2>1. held' \in [Index -> SUBSET StateId]
    BY <1>1, <1>2 DEF DivInv, DivTypes
  <2>2. \A j \in Index : held'[j] \subseteq held[j] \/ held'[j] \subseteq held[i]
    BY <1>5, <1>6
  <2>3. pc' \in [Index -> AllStages]
    BY <1>1, <1>2 DEF DivInv, DivTypes, AllStages
  <2> QED BY <1>1, <1>2, <1>4, <2>1, <2>2, <2>3 DEF DivInv, DivTypes
<1>8. Ranges'
  <2>1. GoodRange(c)'
    BY <1>3, <1>5 DEF GoodRange
  <2>2. pc'[i] \in Dividing => GoodRange(i)'
    <3>1. newStates[i] \in Seq(StateId)
      BY DEF DivInv, DivTypes
    <3>2. Len(newStates[i]) \in Nat
      BY <3>1, SMT
    <3>3. sp # low[i] => low[i] < sp /\ sp <= h /\ h < Len(newStates[i])
      BY <1>3, <1>4, <3>2, SMTT(30) DEF GoodRange
    <3> QED BY <1>3, <1>5, <3>3 DEF GoodRange, Dividing
  <2>3. \A j \in Index \ {i, c} : GoodRange(j) => GoodRange(j)'
    BY <1>6 DEF GoodRange
  <2> QED BY <1>6, <2>1, <2>2, <2>3 DEF DivInv, Ranges
<1>9. \A j \in Index \ {i, c} : Mine(j)' = Mine(j)
    BY <1>6, SMT DEF Mine, Part
<1>10. Mine(c)' = held[i] \ Part(i, low[i], splitIndex[i] - 1)
    BY <1>5 DEF Mine, Part
<1>11. Mine(i)' = held[i] \ Part(i, splitIndex[i], high[i])
    BY <1>5 DEF Mine
<1>12. Part(i, low[i], splitIndex[i] - 1) \cap Part(i, splitIndex[i], high[i]) = {}
    BY <1>1, PartsDisjoint, SMTT(30) DEF Dividing
<1>13. ASSUME NEW j \in Index, NEW x \in Mine(j)
       PROVE  x \in ended' \/ \E k \in Index : x \in Mine(k)'
  <2>1. CASE j = i
    <3>1. x \in held[i]
      BY <1>13, <2>1 DEF Mine
    <3> QED BY <1>2, <1>10, <1>11, <1>12, <3>1
  <2>2. CASE j = c
    <3>1. x \in held[c]
      BY <1>13, <2>2 DEF Mine
    <3> QED BY <1>2, <3>1 DEF DivInv, NoneIsEmpty
  <2>3. CASE j \in Index \ {i, c}
    BY <1>9, <1>13, <2>3
  <2> QED BY <2>1, <2>2, <2>3
<1>14. NothingLost'
    BY <1>1, <1>13, NothingLostKept
<1>15. NoneIsEmpty'
  <2>1. pc'[i] # "none" /\ pc'[c] # "none"
    BY <1>5
  <2> QED BY <1>6, <2>1, SMTT(30) DEF DivInv, NoneIsEmpty
<1>16. Whole'
  <2>1. \A j \in Index \ {i, c} : Part(j, low[j], high[j])' = Part(j, low[j], high[j])
    BY <1>6, SMTT(30) DEF Part
  <2>2. Part(i, low[i], high[i]) \subseteq held[i]
    BY <1>1 DEF DivInv, Whole, Dividing
  <2>3. Part(c, low[c], high[c])' \subseteq held'[c]
    BY <1>5, <2>2, SMTT(30) DEF Part
  <2>4. Part(i, low[i], high[i])' = Part(i, low[i], splitIndex[i] - 1)
    BY <1>5 DEF Part, h
  <2>5. Part(i, low[i], splitIndex[i] - 1) \subseteq Part(i, low[i], high[i])
    <3>1. low[i]..(splitIndex[i] - 1) \subseteq low[i]..high[i]
      BY <1>3, SMTT(30) DEF GoodRange
    <3> QED BY <3>1 DEF Part
  <2>6. Part(i, low[i], high[i])' \subseteq held'[i]
    BY <1>5, <1>12, <2>2, <2>4, <2>5
  <2> QED BY <1>6, <2>1, <2>3, <2>6, SMTT(30) DEF DivInv, Whole
<1> QED BY <1>7, <1>8, <1>14, <1>15, <1>16 DEF DivInv

(* The child drops the lower part and goes on with the upper one. *)
LEMMA TakeDiv ==
    ASSUME DivInv, NEW c \in Index, TakeSlot(c)
    PROVE  DivInv'
<1> DEFINE drop == Part(c, low[c], splitIndex[c] - 1)
           sp == ChildSplit(c)
<1>1. /\ pc[c] = "slot" /\ pc' = [pc EXCEPT ![c] = IF sp = high[c] THEN "run" ELSE "split"]
      /\ held' = [held EXCEPT ![c] = @ \ drop]
      /\ low' = [low EXCEPT ![c] = splitIndex[c]]
      /\ splitIndex' = [splitIndex EXCEPT ![c] = sp]
      /\ UNCHANGED <<lastStateId, newStates, high, ended>>
    BY DEF TakeSlot, ClaimSlot
<1>2. GoodRange(c) /\ low[c] \in Nat /\ splitIndex[c] \in Nat /\ high[c] \in Nat
    BY <1>1, SMTT(30) DEF DivInv, DivTypes, Ranges, Dividing
<1>3. /\ sp \in Nat /\ sp <= high[c] /\ splitIndex[c] <= high[c]
      /\ sp # high[c] => splitIndex[c] < sp
  <2> DEFINE diff == high[c] - splitIndex[c]
  <2>1. diff \in Nat /\ sp = (IF diff = 1 THEN 2 ELSE diff) \div 2 + splitIndex[c]
    BY <1>2, SMT DEF ChildSplit, GoodRange
  <2>2. diff = 0 => sp = high[c]
    BY <1>2, <2>1, SMT
  <2>3. diff = 1 => sp = high[c]
    BY <1>2, <2>1, SMT
  <2>4. diff >= 2 => sp = diff \div 2 + splitIndex[c] /\ diff \div 2 >= 1 /\ diff \div 2 < diff
    BY <1>2, <2>1, SMT
  <2>5. diff >= 2 => sp \in Nat /\ splitIndex[c] < sp /\ sp < high[c]
    <3> HIDE DEF sp
    <3> QED BY <1>2, <2>1, <2>4, SMTT(30)
  <2> HIDE DEF sp
  <2> QED BY <1>2, <2>1, <2>2, <2>3, <2>5, SMTT(30) DEF GoodRange
<1> HIDE DEF sp
<1>4. /\ pc'[c] = (IF sp = high[c] THEN "run" ELSE "split") /\ held'[c] = held[c] \ drop
      /\ low'[c] = splitIndex[c] /\ splitIndex'[c] = sp
    BY <1>1 DEF DivInv, DivTypes
<1>5. \A j \in Index \ {c} : /\ pc'[j] = pc[j] /\ held'[j] = held[j] /\ low'[j] = low[j]
                             /\ splitIndex'[j] = splitIndex[j]
    BY <1>1, SMTT(30) DEF DivInv, DivTypes
<1>6. DivTypes'
  <2>1. held' \in [Index -> SUBSET StateId]
    BY <1>1 DEF DivInv, DivTypes
  <2>2. \A j \in Index : held'[j] \subseteq held[j]
    BY <1>4, <1>5
  <2>3. pc' \in [Index -> AllStages]
    BY <1>1 DEF DivInv, DivTypes, AllStages
  <2> QED BY <1>1, <1>2, <1>3, <2>1, <2>2, <2>3, SMTT(30) DEF DivInv, DivTypes
<1>7. Ranges'
  <2>1. pc'[c] \in Dividing => GoodRange(c)'
    BY <1>1, <1>2, <1>3, <1>4, SMT DEF GoodRange, Dividing
  <2>2. \A j \in Index \ {c} : GoodRange(j) => GoodRange(j)'
    BY <1>1, <1>5 DEF GoodRange
  <2> QED BY <1>5, <2>1, <2>2 DEF DivInv, Ranges
<1>8. NothingLost'
  <2>1. \A j \in Index \ {c} : Mine(j)' = Mine(j)
    BY <1>1, <1>5, SMT DEF Mine, Part
  <2>2. Mine(c)' = Mine(c)
    BY <1>1, <1>4, SMTT(30) DEF Mine
  <2> QED BY <1>1, <2>1, <2>2, NothingLostKept, SMTT(30)
<1>9. NoneIsEmpty'
    BY <1>4, <1>5 DEF DivInv, NoneIsEmpty
<1>10. Whole'
  <2>1. \A j \in Index \ {c} : Part(j, low[j], high[j])' = Part(j, low[j], high[j])
    BY <1>1, <1>5 DEF Part
  <2>2. Part(c, low[c], high[c])' = Part(c, splitIndex[c], high[c])
    BY <1>1, <1>4 DEF Part
  <2>3. splitIndex[c]..high[c] \subseteq low[c]..high[c]
    BY <1>2, SMTT(30) DEF GoodRange
  <2>4. Part(c, splitIndex[c], high[c]) \subseteq Part(c, low[c], high[c])
    BY <2>3 DEF Part
  <2>5. Part(c, low[c], high[c]) \subseteq held[c]
    BY <1>1 DEF DivInv, Whole, Dividing
  <2>6. drop \cap Part(c, splitIndex[c], high[c]) = {}
    BY <1>1, PartsDisjoint DEF Dividing
  <2>7. Part(c, low[c], high[c])' \subseteq held'[c]
    BY <1>4, <2>2, <2>4, <2>5, <2>6, SMTT(30)
  <2> QED BY <1>5, <2>1, <2>7, SMTT(30) DEF DivInv, Whole
<1> QED BY <1>6, <1>7, <1>8, <1>9, <1>10, SMTT(30) DEF DivInv


(* Every step keeps the invariant of the division. *)
LEMMA DivInductive == SlotInv /\ DivInv /\ [Next]_vars => DivInv'
<1> SUFFICES ASSUME SlotInv, DivInv, [Next]_vars PROVE DivInv'
    OBVIOUS
<1> DEFINE Quiet(i) ==
      /\ \E to \in AllStages \ {"slot", "none"}, left \in SUBSET held[i] :
           /\ pc' = [pc EXCEPT ![i] = to] /\ held' = [held EXCEPT ![i] = left]
           /\ to \in Dividing => pc[i] \in Dividing /\ left = held[i]
           /\ ended \subseteq ended' /\ Mine(i) \subseteq left \cup ended'
      /\ UNCHANGED <<lastStateId, loop>>
<1>0. ASSUME NEW i \in Index, Quiet(i) PROVE DivInv'
    BY <1>0, QuietDiv
<1>a. \A i \in Index : /\ Mine(i) \subseteq held[i] /\ held = [held EXCEPT ![i] = held[i]]
                      /\ pc = [pc EXCEPT ![i] = pc[i]]
    BY DEF Mine, DivInv, DivTypes
<1>1. ASSUME NEW i \in Index, NEW x \in held[i], NEW n \in 2..MaxWays, NEW pos \in 0..1,
             DoStateFork(i, x, n, pos)
      PROVE  DivInv'
    BY <1>1, ForkDiv
<1>2. ASSUME NEW i \in Index, ReserveProcess(i) PROVE DivInv'
  <2>1. /\ pc[i] = "split" /\ \E to \in {"run", "fork"} : pc' = [pc EXCEPT ![i] = to]
        /\ UNCHANGED <<lastStateId, held, ended, loop>>
    BY <1>2 DEF ReserveProcess
  <2>2. Quiet(i)
    BY <1>a, <2>1 DEF AllStages, Dividing
  <2> QED BY <1>0, <2>2
<1>3. ASSUME NEW i \in Index, ForkFails(i) PROVE DivInv'
  <2>1. pc' = [pc EXCEPT ![i] = "run"] /\ UNCHANGED <<lastStateId, held, ended, loop>>
    BY <1>3 DEF ForkFails
  <2>2. Quiet(i)
    BY <1>a, <2>1 DEF AllStages, Dividing
  <2> QED BY <1>0, <2>2
<1>4. ASSUME NEW i \in Index, ForkSucceeds(i) PROVE DivInv'
    BY <1>4, SucceedDiv
<1>5. ASSUME NEW i \in Index, TakeSlot(i) PROVE DivInv'
    BY <1>5, TakeDiv
<1>6. ASSUME NEW i \in Index, TimersFail(i) PROVE DivInv'
  <2>1. /\ pc[i] = "slot" /\ pc' = [pc EXCEPT ![i] = "exit"]
        /\ held' = [held EXCEPT ![i] = {}] /\ ended' = ended \cup Mine(i)
        /\ UNCHANGED <<lastStateId, loop>>
    BY <1>6 DEF TimersFail, ClaimSlot, loop, Mine
  <2>2. Quiet(i)
    BY <2>1 DEF AllStages, Dividing
  <2> QED BY <1>0, <2>2
<1>7. ASSUME NEW i \in Index, NEW x \in held[i], EndState(i, x) PROVE DivInv'
  <2>1. /\ \E to \in {"run", "exit"} : pc' = [pc EXCEPT ![i] = to]
        /\ held' = [held EXCEPT ![i] = held[i] \ {x}] /\ ended' = ended \cup {x}
        /\ UNCHANGED <<lastStateId, loop>>
    BY <1>7 DEF EndState, shared
  <2>2. Mine(i) \subseteq (held[i] \ {x}) \cup ended'
    BY <1>a, <2>1
  <2>3. Quiet(i)
    BY <2>1, <2>2 DEF AllStages, Dividing
  <2> QED BY <1>0, <2>3
<1>8. ASSUME NEW i \in Index, ExitProcess(i) \/ Crash(i) PROVE DivInv'
  <2>1. CASE ExitProcess(i)
    <3>1. pc' = [pc EXCEPT ![i] = "done"] /\ UNCHANGED <<lastStateId, held, ended, loop>>
      BY <2>1 DEF ExitProcess
    <3>2. Quiet(i)
      BY <1>a, <3>1 DEF AllStages, Dividing
    <3> QED BY <1>0, <3>2
  <2>2. CASE Crash(i)
    <3>1. /\ pc' = [pc EXCEPT ![i] = "crashed"] /\ held' = [held EXCEPT ![i] = {}]
          /\ ended' = ended \cup Mine(i) /\ UNCHANGED <<lastStateId, loop>>
      BY <2>2 DEF Crash, shared
    <3>2. Quiet(i)
      BY <3>1, ZenonT(30) DEF AllStages, Dividing
    <3> QED BY <1>0, <3>2
  <2> QED BY <1>8, <2>1, <2>2
<1>9. ASSUME UNCHANGED vars PROVE DivInv'
  <2>1. UNCHANGED <<lastStateId, pc, held, ended, newStates, low, high, splitIndex>>
    BY <1>9 DEF vars, shared, loop
  <2>2. \A j \in Index : Mine(j)' = Mine(j) /\ (GoodRange(j) => GoodRange(j)')
                        /\ Part(j, low[j], high[j])' = Part(j, low[j], high[j])
    BY <2>1 DEF Mine, Part, GoodRange
  <2>3. NothingLost'
    BY <2>1, <2>2, NothingLostKept
  <2> QED BY <2>1, <2>2, <2>3 DEF DivInv, DivTypes, Ranges, NoneIsEmpty, Whole
<1> QED BY <1>1, <1>2, <1>3, <1>4, <1>5, <1>6, <1>7, <1>8, <1>9 DEF Next

(* So it always holds, along with the bookkeeping. *)
LEMMA DivInvAlways == Spec => [](SlotInv /\ DivInv)
<1>1. Init => DivInv
    BY InitDiv
<1> QED BY <1>1, InitSlots, SlotInvInductive, DivInductive, PTL DEF Spec

(* Whatever forks, refusals, failures, exits and crashes happen, each      *)
(* state of the exploration is held by a process unless it has ended or    *)
(* was lost with the process that had it.                                  *)
THEOREM DivisionLosesNothing == Spec => []NoStateLost
<1>1. NothingLost => NoStateLost
    BY DEF NothingLost, NoStateLost, Mine
<1> QED BY <1>1, DivInvAlways, PTL DEF DivInv

(* The asserts at the head of the loop of doProcessFork, for forks of any  *)
(* number of ways.                                                         *)
THEOREM BisectionInRange == Spec => []SplitInRange
<1>1. DivInv => SplitInRange
  <2> SUFFICES ASSUME DivInv, NEW i \in Index, pc[i] \in {"split", "fork"}
               PROVE  /\ low[i] <= splitIndex[i] /\ splitIndex[i] <= high[i]
                      /\ splitIndex[i] < Len(newStates[i])
    BY DEF SplitInRange
  <2>1. GoodRange(i) /\ low[i] \in Nat /\ splitIndex[i] \in Nat /\ high[i] \in Nat
        /\ newStates[i] \in Seq(StateId)
    BY DEF DivInv, DivTypes, Ranges, Dividing
  <2>2. Len(newStates[i]) \in Nat
    BY <2>1, SMTT(30)
  <2> QED BY <2>1, <2>2, SMTT(30) DEF GoodRange
<1> QED BY <1>1, DivInvAlways, PTL

(* Only a successful ::fork() of its parent makes a process appear. *)
LEMMA Appears ==
    ASSUME SlotInv, DivInv, [Next]_vars, NEW i \in Index, pc[i] = "fork",
           pc[child[i]] = "none", pc'[child[i]] = "slot"
    PROVE  ForkSucceeds(i)
<1>0. PICK c \in Index : c = child[i] /\ c # i
    BY DEF SlotInv, Fresh, IndexIsFresh
<1>1. ASSUME NEW k \in Index, NEW to \in AllStages \ {"slot"}, pc' = [pc EXCEPT ![k] = to]
      PROVE  FALSE
    BY <1>0, <1>1, SMTT(30) DEF DivInv, DivTypes
<1>2. ASSUME NEW k \in Index, ForkSucceeds(k) PROVE ForkSucceeds(i)
  <2>1. PICK d \in Index : d = child[k] /\ pc[k] = "fork"
    BY <1>2 DEF ForkSucceeds, SlotInv, Fresh, IndexIsFresh
  <2>2. PICK to \in {"run", "split"} : pc' = [pc EXCEPT ![d] = "slot", ![k] = to]
    BY <1>2, <2>1 DEF ForkSucceeds
  <2>3. d = c
    BY <1>0, <2>2, SMTT(30) DEF DivInv, DivTypes
  <2>4. k = i
    BY <1>0, <2>1, <2>3 DEF SlotInv, Fresh, IndexIsFresh
  <2> QED BY <1>2, <2>4
<1>3. ASSUME NEW k \in Index, NEW x \in held[k], NEW n \in 2..MaxWays, NEW pos \in 0..1,
             DoStateFork(k, x, n, pos)
      PROVE  FALSE
  <2>1. pc' = [pc EXCEPT ![k] = "split"]
    BY <1>3 DEF DoStateFork
  <2> QED BY <1>1, <2>1 DEF AllStages
<1>4. ASSUME NEW k \in Index,
             \/ ReserveProcess(k) \/ ForkFails(k) \/ TakeSlot(k) \/ TimersFail(k)
             \/ (\E x \in held[k] : EndState(k, x)) \/ ExitProcess(k) \/ Crash(k)
      PROVE  FALSE
  <2>1. \E to \in AllStages \ {"slot"} : pc' = [pc EXCEPT ![k] = to]
    <3>1. CASE ReserveProcess(k)
      BY <3>1, SMTT(30) DEF ReserveProcess, AllStages
    <3>2. CASE ForkFails(k) \/ TakeSlot(k) \/ TimersFail(k)
      BY <3>2, SMTT(30) DEF ForkFails, TakeSlot, TimersFail, AllStages
    <3>3. ASSUME NEW x \in held[k], EndState(k, x)
          PROVE  \E to \in AllStages \ {"slot"} : pc' = [pc EXCEPT ![k] = to]
      BY <3>3 DEF EndState, AllStages
    <3>4. CASE ExitProcess(k) \/ Crash(k)
      BY <3>4 DEF ExitProcess, Crash, AllStages
    <3> QED BY <1>4, <3>1, <3>2, <3>3, <3>4
  <2> QED BY <1>1, <2>1
<1>5. UNCHANGED vars => FALSE
    BY <1>0 DEF vars
<1> QED BY <1>2, <1>3, <1>4, <1>5 DEF Next

(* Each process fork hands each state that is being divided to exactly one *)
(* of the two processes, and neither is left without any.                  *)
THEOREM DivisionIsPartition == Spec => SplitIsPartition
<1> DEFINE Divided(i) == (pc[i] = "fork" /\ pc'[child[i]] = "slot" /\ pc[child[i]] = "none") =>
          LET divided == Part(i, low[i], high[i])
              kept == held'[i] \cap divided
              given == Mine(child[i])' \cap divided
          IN kept \cup given = divided /\ kept \cap given = {} /\ kept # {} /\ given # {}
<1>1. ASSUME SlotInv, DivInv, [Next]_vars, NEW i \in Index,
             pc[i] = "fork", pc'[child[i]] = "slot", pc[child[i]] = "none"
      PROVE  LET divided == Part(i, low[i], high[i])
                 kept == held'[i] \cap divided
                 given == Mine(child[i])' \cap divided
             IN kept \cup given = divided /\ kept \cap given = {} /\ kept # {} /\ given # {}
  <2>1. ForkSucceeds(i)
    BY <1>1, Appears
  <2>2. PICK c \in Index : c = child[i] /\ c # i
    BY <1>1, SMTT(30) DEF SlotInv, Fresh, IndexIsFresh
  <2>3. /\ held' = [held EXCEPT ![c] = held[i], ![i] = @ \ Part(i, splitIndex[i], high[i])]
        /\ newStates' = [newStates EXCEPT ![c] = newStates[i]]
        /\ low' = [low EXCEPT ![c] = low[i]] /\ child' = child
        /\ splitIndex' = [splitIndex EXCEPT ![c] = splitIndex[i], ![i] = ParentRange(i).split]
        /\ pc'[c] = "slot"
    BY <1>1, <2>1, <2>2, SMTT(30) DEF ForkSucceeds
  <2>4. /\ held'[i] = held[i] \ Part(i, splitIndex[i], high[i]) /\ held'[c] = held[i]
        /\ newStates'[c] = newStates[i] /\ low'[c] = low[i] /\ splitIndex'[c] = splitIndex[i]
    BY <1>1, <2>2, <2>3, SMTT(30) DEF DivInv, DivTypes
  <2>5. Mine(child[i])' = held[i] \ Part(i, low[i], splitIndex[i] - 1)
    BY <2>2, <2>3, <2>4, SMTT(30) DEF Mine, Part
  <2>6. GoodRange(i) /\ low[i] \in Nat /\ splitIndex[i] \in Nat /\ high[i] \in Nat
    BY <1>1, SMTT(30) DEF DivInv, DivTypes, Ranges, Dividing
  <2>7. Part(i, low[i], splitIndex[i] - 1) \cap Part(i, splitIndex[i], high[i]) = {}
    BY <1>1, PartsDisjoint DEF Dividing
  <2>8. /\ low[i]..high[i] = (low[i]..(splitIndex[i] - 1)) \cup (splitIndex[i]..high[i])
        /\ low[i] \in low[i]..(splitIndex[i] - 1) /\ high[i] \in splitIndex[i]..high[i]
    BY <2>6, SMTT(30) DEF GoodRange
  <2>9. /\ Part(i, low[i], high[i]) = Part(i, low[i], splitIndex[i] - 1)
                                       \cup Part(i, splitIndex[i], high[i])
        /\ Part(i, low[i], splitIndex[i] - 1) # {} /\ Part(i, splitIndex[i], high[i]) # {}
    BY <2>8 DEF Part
  <2>10. Part(i, low[i], high[i]) \subseteq held[i]
    BY <1>1, SMTT(30) DEF DivInv, Whole, Dividing
  <2> QED BY <2>4, <2>5, <2>7, <2>9, <2>10
<1>2. SlotInv /\ DivInv /\ [Next]_vars => [\A i \in Index : Divided(i)]_vars
    BY <1>1
<1> QED BY <1>2, DivInvAlways, PTL DEF Spec, SplitIsPartition
-----------------------------------------------------------------------------
(* The counters of S2EShared stay within their bounds. *)
InBounds == /\ lastFileId \in 1..(MaxIndex + 1) /\ lastStateId \in 1..(MaxStateId + 1)
            /\ ended \subseteq StateId

LEMMA InitInBounds == Init => InBounds
BY ProcessAssumption, SMT DEF Init, InBounds

LEMMA BoundsInductive == ASSUME SlotInv, DivInv, InBounds, [Next]_vars PROVE InBounds'
<1>0. \A i \in Index : held[i] \subseteq StateId /\ Mine(i) \subseteq StateId
  BY DEF DivInv, DivTypes, Mine
<1>1. ASSUME lastFileId \in Index, lastFileId' = lastFileId + 1
      PROVE  lastFileId' \in 1..(MaxIndex + 1)
  BY <1>1, ProcessAssumption, SMT DEF InBounds, Index
<1>2. ASSUME NEW i \in Index, NEW x \in held[i], NEW n \in 2..MaxWays, NEW pos \in 0..1,
             DoStateFork(i, x, n, pos)
      PROVE  InBounds'
  <2>1. /\ lastStateId + n - 2 \in StateId /\ lastStateId' = lastStateId + n - 1
        /\ UNCHANGED <<lastFileId, ended>>
    BY <1>2 DEF DoStateFork
  <2>2. lastStateId' \in 1..(MaxStateId + 1)
    BY <2>1, ProcessAssumption, SMT DEF InBounds, StateId
  <2> QED BY <2>1, <2>2 DEF InBounds
<1>3. ASSUME NEW i \in Index, ReserveProcess(i) PROVE InBounds'
  <2>1. /\ lastFileId' = lastFileId \/ (lastFileId \in Index /\ lastFileId' = lastFileId + 1)
        /\ UNCHANGED <<lastStateId, ended>>
    BY <1>3 DEF ReserveProcess
  <2> QED BY <1>1, <2>1 DEF InBounds
<1>4. ASSUME NEW i \in Index, ForkFails(i) \/ ForkSucceeds(i) \/ TakeSlot(i) \/ ExitProcess(i)
      PROVE  InBounds'
  <2>1. UNCHANGED <<lastFileId, lastStateId, ended>>
    BY <1>4 DEF ForkFails, ForkSucceeds, TakeSlot, ClaimSlot, ExitProcess, shared
  <2> QED BY <2>1 DEF InBounds
<1>5. ASSUME NEW i \in Index, TimersFail(i) \/ Crash(i) PROVE InBounds'
  <2>1. /\ ended' = ended \cup Mine(i) /\ UNCHANGED <<lastFileId, lastStateId>>
    BY <1>5 DEF TimersFail, ClaimSlot, Crash, Mine, shared
  <2> QED BY <1>0, <2>1 DEF InBounds
<1>6. ASSUME NEW i \in Index, NEW x \in held[i], EndState(i, x) PROVE InBounds'
  <2>1. ended' = ended \cup {x} /\ UNCHANGED <<lastFileId, lastStateId>>
    BY <1>6 DEF EndState, shared
  <2> QED BY <1>0, <2>1 DEF InBounds
<1>7. CASE UNCHANGED vars
  BY <1>7 DEF vars, shared, InBounds
<1> QED BY <1>2, <1>3, <1>4, <1>5, <1>6, <1>7 DEF Next

(* Types, for any limit on the processes and any number of forks. *)
THEOREM TypesHold == Spec => []TypeOK
<1>1. SlotInv /\ DivInv /\ InBounds => TypeOK
  BY DEF SlotInv, SlotTypes, DivInv, DivTypes, InBounds, TypeOK
<1>2. Spec => []InBounds
  BY InitInBounds, BoundsInductive, DivInvAlways, PTL DEF Spec
<1> QED BY <1>1, <1>2, DivInvAlways, PTL
=============================================================================
