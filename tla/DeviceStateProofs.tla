------------------------- MODULE DeviceStateProofs -------------------------
(***************************************************************************)
(* For any number of states, sectors and values: the device state that a   *)
(* path writes to is its own, one that has been cloned never changes, a    *)
(* state that is not active has a snapshot, and every path sees a disk and *)
(* devices of its own.                                                     *)
(***************************************************************************)
EXTENDS DeviceState, TLAPS, WellFoundedInduction

(* Zenon is the prover of a step unless it names another: SMT has those    *)
(* that need arithmetic or the extensionality of sets and records.         *)
USE Zenon

(* States and device states are numbered in the order of their creation,   *)
(* and a parent is older than nextDev; clones are pending only in a fork.  *)
Numbered ==
    /\ nextId \in Nat /\ nextDev \in Nat \ {0}
    /\ cur \in live /\ pending \subseteq live /\ (phase # "fork" => pending = {})
    /\ \A s \in live : s \in Nat /\ s < nextId
    /\ \A s \in live : devState[s] \in Nat \ {0} /\ devState[s] < nextDev
    /\ \A d \in Device : parent[d] \in Nat /\ parent[d] < nextDev

Leaves == Numbered /\ LeavesAreOwn

(* The first state owns the only device state. *)
LEMMA InitLeaves == Init => Leaves
<1> SUFFICES ASSUME Init PROVE Leaves
    OBVIOUS
<1>1. /\ live = {1} /\ cur = 1 /\ pending = {} /\ nextId = 2 /\ nextDev = 2
      /\ devState[1] = 1
      /\ \A d \in Device : parent[d] = 0
    BY DEF Init, NoDevice
<1>2. Numbered
    BY <1>1, SMT DEF Numbered
<1>3. LeavesAreOwn
    BY <1>1, SMT DEF LeavesAreOwn
<1> QED BY <1>2, <1>3 DEF Leaves

(* clone makes the old device state of e an ancestor and leaves e and its  *)
(* clone with two new ones.                                                *)
LEMMA CloneKeepsLeaves ==
    ASSUME Leaves, NEW e \in live, Clone(e)
    PROVE  Leaves'
<1>1. /\ nextId' = nextId + 1 /\ nextDev' = nextDev + 2
      /\ live' = live \cup {nextId} /\ pending' = pending \cup {nextId} /\ cur' = cur
      /\ phase' = "fork"
      /\ nextId \notin live
      /\ \A d \in Device : parent'[d] = IF d \in {nextDev, nextDev + 1}
                                         THEN devState[e] ELSE parent[d]
    BY SMT DEF Clone, Leaves, Numbered
<1>2. /\ devState'[e] = nextDev /\ devState'[nextId] = nextDev + 1
      /\ \A s \in live \ {e} : devState'[s] = devState[s]
  <2>1. devState' = [s \in live' |-> IF s = e THEN Copies(e)[1]
                                     ELSE IF s = nextId THEN Copies(e)[2] ELSE devState[s]]
    BY DEF Clone
  <2>2. Copies(e)[1] = nextDev /\ Copies(e)[2] = nextDev + 1
    BY DEF Copies
  <2>3. e # nextId /\ e \in live' /\ nextId \in live' /\ live \subseteq live'
    BY <1>1
  <2> QED BY <1>1, <2>1, <2>2, <2>3
<1>3. Numbered'
  <2>1. nextId' \in Nat /\ nextDev' \in Nat \ {0} /\ cur' \in live' /\ pending' \subseteq live'
        /\ (phase' # "fork" => pending' = {})
    BY <1>1, SMT DEF Leaves, Numbered
  <2>2. \A s \in live' : s \in Nat /\ s < nextId'
    BY <1>1, SMT DEF Leaves, Numbered
  <2>3. \A s \in live' : devState'[s] \in Nat \ {0} /\ devState'[s] < nextDev'
    BY <1>1, <1>2, SMT DEF Leaves, Numbered
  <2>4. \A d \in Device : parent'[d] \in Nat /\ parent'[d] < nextDev'
    BY <1>1, SMT DEF Leaves, Numbered
  <2> QED BY <2>1, <2>2, <2>3, <2>4 DEF Numbered
<1>4. \A s, t \in live' : s # t => devState'[s] # devState'[t]
    BY <1>1, <1>2, SMT DEF Leaves, Numbered, LeavesAreOwn
<1>5. \A s \in live', d \in Device : parent'[d] # devState'[s]
    BY <1>1, <1>2, SMT DEF Leaves, Numbered, LeavesAreOwn
<1> QED BY <1>3, <1>4, <1>5 DEF Leaves, LeavesAreOwn

(* Deleting states, and running another one, leaves the rest as it is. *)
LEMMA SelectKeepsLeaves ==
    ASSUME Leaves, NEW t \in live, NEW gone, SelectNextState(t, gone)
    PROVE  Leaves'
<1>1. /\ live' = live \ gone /\ t \in live' /\ cur' = t
      /\ \A s \in live' : devState'[s] = devState[s]
      /\ UNCHANGED <<nextId, nextDev, parent>>
      /\ pending' = {}
    BY DEF SelectNextState, Leaves, Numbered
<1> QED BY <1>1, SMT DEF Leaves, Numbered, LeavesAreOwn

(* A step that clones or deletes no state keeps the tree of device states. *)
LEMMA QuietKeepsLeaves ==
    ASSUME Leaves, UNCHANGED <<live, cur, nextId, tree>>,
           pending' \subseteq pending, phase' # "fork" => pending' = {}
    PROVE  Leaves'
<1>1. Numbered'
    BY DEF Leaves, Numbered, tree
<1>2. LeavesAreOwn'
    BY DEF Leaves, LeavesAreOwn, tree
<1> QED BY <1>1, <1>2 DEF Leaves

(* Every step keeps the invariant. *)
LEMMA LeavesInductive == Leaves /\ [Next]_vars => Leaves'
<1> SUFFICES ASSUME Leaves, [Next]_vars PROVE Leaves'
    OBVIOUS
<1>0. phase # "fork" => pending = {}
    BY DEF Leaves, Numbered
<1>1. ASSUME NEW first \in Sector, NEW data, WriteSector(first, data) PROVE Leaves'
    BY <1>0, <1>1, QuietKeepsLeaves DEF WriteSector, control, tree
<1>2. ASSUME NEW v \in Value, DeviceStep(v) PROVE Leaves'
    BY <1>0, <1>2, QuietKeepsLeaves DEF DeviceStep, control, tree
<1>3. ASSUME NEW e \in live, Clone(e) PROVE Leaves'
    BY <1>3, CloneKeepsLeaves
<1>4. CASE DoStateFork
    BY <1>4, QuietKeepsLeaves DEF DoStateFork, tree
<1>5. CASE EnterSelect
    BY <1>0, <1>5, QuietKeepsLeaves DEF EnterSelect, tree
<1>6. CASE Merge
    BY <1>0, <1>6, QuietKeepsLeaves DEF Merge, tree
<1>7. ASSUME NEW t \in live, NEW gone, SelectNextState(t, gone) PROVE Leaves'
    BY <1>7, SelectKeepsLeaves
<1>8. CASE UNCHANGED vars
    BY <1>0, <1>8, QuietKeepsLeaves DEF vars, control, tree
<1> QED BY <1>1, <1>2, <1>3, <1>4, <1>5, <1>6, <1>7, <1>8 DEF Next

(* So it always holds. *)
LEMMA LeavesAlways == Spec => []Leaves
<1> QED BY InitLeaves, LeavesInductive, PTL DEF Spec

(* The device state a path writes to is its own and nobody's ancestor, for *)
(* every tree of forks, branches, switches and deaths.                     *)
THEOREM DeviceStatesAreOwn == Spec => []LeavesAreOwn
<1>1. Leaves => LeavesAreOwn
    BY DEF Leaves
<1> QED BY <1>1, LeavesAlways, PTL

(* Saving states only touches the device states they own. *)
LEMMA SaveTouchesLeaves ==
    ASSUME Leaves, NEW S, S \subseteq live, NEW d \in Device, NEW e \in Device, parent[e] = d
    PROVE  SaveDeviceState(S)[d] = snapshot[d]
BY DEF SaveDeviceState, Leaves, LeavesAreOwn

(* No step changes a device state that is a parent. *)
LEMMA ParentsStay ==
    ASSUME Leaves, Next, NEW d \in Device, NEW e \in Device, parent[e] = d
    PROVE  written'[d] = written[d] /\ snapshot'[d] = snapshot[d]
<1>0. cur \in live /\ pending \subseteq live
    BY DEF Leaves, Numbered
<1>1. ASSUME NEW first \in Sector, NEW data, WriteSector(first, data)
      PROVE  written'[d] = written[d] /\ snapshot'[d] = snapshot[d]
  <2>1. devState[cur] # d
    BY <1>0 DEF Leaves, LeavesAreOwn
  <2> QED BY <1>1, <2>1, SMT DEF WriteSector
<1>2. ASSUME NEW v \in Value, DeviceStep(v)
      PROVE  written'[d] = written[d] /\ snapshot'[d] = snapshot[d]
    BY <1>2 DEF DeviceStep
<1>3. ASSUME NEW x \in live, Clone(x)
      PROVE  written'[d] = written[d] /\ snapshot'[d] = snapshot[d]
    BY <1>3 DEF Clone
<1>4. CASE DoStateFork
    BY <1>0, <1>4, SaveTouchesLeaves DEF DoStateFork
<1>5. CASE EnterSelect
    BY <1>5 DEF EnterSelect
<1>6. CASE Merge
    BY <1>0, <1>6, SaveTouchesLeaves DEF Merge
<1>7. ASSUME NEW t \in live, NEW gone, SelectNextState(t, gone)
      PROVE  written'[d] = written[d] /\ snapshot'[d] = snapshot[d]
    BY <1>0, <1>7, SaveTouchesLeaves DEF SelectNextState
<1> QED BY <1>1, <1>2, <1>3, <1>4, <1>5, <1>6, <1>7 DEF Next

(* What a path had written before a fork stays as it was for both sides:   *)
(* no later step changes a device state that has been cloned.              *)
THEOREM ClonedDevicesAreFrozen == Spec => FrozenAfterClone
<1>1. Leaves /\ [Next]_vars =>
        [\A d, e \in Device : parent[e] = d =>
            written'[d] = written[d] /\ snapshot'[d] = snapshot[d]]_vars
    BY ParentsStay
<1> QED BY <1>1, LeavesAlways, PTL DEF Spec, FrozenAfterClone
-----------------------------------------------------------------------------
(* A device state is younger than its parent, and nothing was written to  *)
(* one that is not allocated yet.                                          *)
Descent ==
    /\ written = [d \in Device |-> written[d]]
    /\ snapshot = [d \in Device |-> snapshot[d]]
    /\ \A d \in Device : /\ parent[d] < d
                         /\ d >= nextDev => DOMAIN written[d] = {}

(* The states that run or were cloned in the fork in progress are active. *)
Activity == /\ pending \subseteq active /\ cur \notin pending
            /\ phase # "select" => cur \in active

(* The inductive invariant. *)
DevInv == Leaves /\ TypeOK /\ Descent /\ Activity /\ SnapshotPresent

(* A snapshot that is saved is what the devices hold. *)
LEMMA SaveResult ==
    ASSUME DevInv, NEW S, S \subseteq live
    PROVE  /\ SaveDeviceState(S) = [d \in Device |-> SaveDeviceState(S)[d]]
           /\ \A d \in Device : SaveDeviceState(S)[d] \in Value \cup {None}
           /\ \A s \in S : SaveDeviceState(S)[devState[s]] = devices
           /\ \A s \in live \ S : SaveDeviceState(S)[devState[s]] = snapshot[devState[s]]
<1> USE DEF DevInv, TypeOK
<1>1. SaveDeviceState(S) = [d \in Device |-> SaveDeviceState(S)[d]]
  BY DEF SaveDeviceState
<1>2. \A d \in Device : SaveDeviceState(S)[d] \in Value \cup {None}
  BY DEF SaveDeviceState
<1>3. \A s \in live : devState[s] \in Device
  OBVIOUS
<1>4. \A s \in S : SaveDeviceState(S)[devState[s]] = devices
  BY <1>3 DEF SaveDeviceState
<1>5. \A s \in live \ S : SaveDeviceState(S)[devState[s]] = snapshot[devState[s]]
  BY <1>3 DEF SaveDeviceState, Leaves, LeavesAreOwn
<1> QED BY <1>1, <1>2, <1>4, <1>5

(* It holds for the first state. *)
LEMMA InitDevInv == Init => DevInv
<1> SUFFICES ASSUME Init PROVE DevInv
  OBVIOUS
<1>1. Leaves
  BY InitLeaves
<1>2. 1 \in State /\ 1 \in Device /\ MaxStates \in Nat \ {0} /\ Blank \in Value
  BY DeviceAssumption, SMT DEF State, Device
<1>3. TypeOK
  <2>1. \A d \in Device : DOMAIN written[d] = {}
    BY DEF Init
  <2> QED BY <1>2, <2>1, SMT DEF Init, TypeOK
<1>4. Descent
  BY DeviceAssumption, SMT DEF Init, Descent, Device, NoDevice
<1>5. Activity /\ SnapshotPresent
  BY DEF Init, Activity, SnapshotPresent
<1> QED BY <1>1, <1>3, <1>4, <1>5 DEF DevInv

(* Writing a sector changes one device state. *)
LEMMA WriteKeeps ==
    ASSUME DevInv, Leaves', NEW first \in Sector, NEW n \in 1..(LastSector - first + 1),
           NEW data \in [1..n -> Value], WriteSector(first, data)
    PROVE  DevInv'
<1> DEFINE d == devState[cur]
<1>0. d \in Device /\ d < nextDev
  BY DEF DevInv, TypeOK, Leaves, Numbered
<1>1. /\ written' = [written EXCEPT ![d] = Overwrite(written[d], first, data)]
      /\ UNCHANGED <<control, tree, snapshot, devices>>
  BY DEF WriteSector
<1>2. Len(data) = n
  BY SMT DEF Sector
<1>3. DOMAIN Overwrite(written[d], first, data) = DOMAIN written[d] \cup first..(first + n - 1)
  BY <1>2 DEF Overwrite
<1>4. first..(first + n - 1) \subseteq Sector
  BY DeviceAssumption, SMT DEF Sector
<1>5. written' = [c \in Device |-> written'[c]]
  BY <1>0, <1>1 DEF DevInv, Descent
<1>6. \A c \in Device : written'[c] = IF c = d THEN Overwrite(written[d], first, data) ELSE written[c]
  BY <1>0, <1>1 DEF DevInv, Descent
<1>7. TypeOK'
  <2>1. \A c \in Device : DOMAIN written'[c] \subseteq Sector
    BY <1>3, <1>4, <1>6 DEF DevInv, TypeOK
  <2> QED BY <1>1, <2>1 DEF DevInv, TypeOK, control, tree
<1>8. Descent'
  <2>1. \A c \in Device : c >= nextDev => written'[c] = written[c]
    BY <1>0, <1>6, SMT DEF DevInv, Leaves, Numbered, Device
  <2> QED BY <1>1, <1>5, <2>1 DEF DevInv, Descent, tree
<1>9. Activity' /\ SnapshotPresent'
  BY <1>1 DEF DevInv, Activity, SnapshotPresent, control, tree
<1> QED BY <1>7, <1>8, <1>9 DEF DevInv

(* clone takes two device states that were not allocated. *)
LEMMA CloneKeeps ==
    ASSUME DevInv, Leaves', NEW e \in live, Clone(e)
    PROVE  DevInv'
<1>1. /\ nextId' = nextId + 1 /\ nextDev' = nextDev + 2 /\ nextId \in State
      /\ live' = live \cup {nextId} /\ active' = active \cup {nextId}
      /\ pending' = pending \cup {nextId} /\ cur' = cur
      /\ phase' = "fork" /\ phase \in {"run", "fork"} /\ e \in {cur} \cup pending
      /\ nextId \notin live
      /\ UNCHANGED <<written, snapshot, devices>>
    BY SMT DEF Clone, DevInv, Leaves, Numbered
<1>2. nextDev \in Device /\ nextDev + 1 \in Device /\ nextDev \in Nat
  BY <1>1, DeviceAssumption, SMT DEF DevInv, TypeOK, State, Device
<1>3. devState' = [s \in live' |-> IF s = e THEN nextDev
                                   ELSE IF s = nextId THEN nextDev + 1 ELSE devState[s]]
  BY DEF Clone, Copies
<1>4. parent' = [d \in Device |-> IF d \in {nextDev, nextDev + 1} THEN devState[e] ELSE parent[d]]
  BY DEF Clone
<1>5. TypeOK'
  <2>1. devState' \in [live' -> Device]
    BY <1>1, <1>2, <1>3 DEF DevInv, TypeOK
  <2>2. parent' \in [Device -> Device \cup {NoDevice}]
    BY <1>2, <1>4 DEF DevInv, TypeOK
  <2>3. nextId' \in 2..(MaxStates + 1) /\ nextDev' = 2 * nextId' - 2
    BY <1>1, DeviceAssumption, SMT DEF DevInv, TypeOK, State
  <2> QED BY <1>1, <2>1, <2>2, <2>3 DEF DevInv, TypeOK
<1>6. Descent'
  <2>1. devState[e] \in Nat /\ devState[e] < nextDev
    BY DEF DevInv, Leaves, Numbered
  <2>2. \A d \in Device : d \in Nat
    BY DeviceAssumption, SMT DEF Device
  <2>3. \A d \in Device : parent'[d] < d
    BY <1>2, <1>4, <2>1, <2>2, SMT DEF DevInv, Descent
  <2>4. \A d \in Device : d >= nextDev' => d >= nextDev
    BY <1>1, <1>2, <2>2, SMT
  <2> QED BY <1>1, <2>3, <2>4 DEF DevInv, Descent
<1>7. Activity'
  BY <1>1 DEF DevInv, Activity, TypeOK
<1>8. SnapshotPresent'
  BY <1>1, <1>3 DEF DevInv, Activity, SnapshotPresent
<1> QED BY <1>5, <1>6, <1>7, <1>8 DEF DevInv

(* The clones are stopped and saved. *)
LEMMA ForkKeeps ==
    ASSUME DevInv, Leaves', DoStateFork
    PROVE  DevInv'
<1>1. /\ phase' = "run" /\ phase = "fork" /\ pending' = {} /\ active' = active \ pending
      /\ snapshot' = SaveDeviceState(pending)
      /\ UNCHANGED <<cur, live, nextId, tree, written, devices>>
  BY DEF DoStateFork
<1>2. pending \subseteq live
  BY DEF DevInv, TypeOK
<1>3. TypeOK' /\ Descent' /\ Activity'
  BY <1>1, <1>2, SaveResult DEF DevInv, TypeOK, Descent, Activity, tree
<1>4. SnapshotPresent'
  <2> SUFFICES ASSUME NEW s \in live, s \notin active \ pending
               PROVE  SaveDeviceState(pending)[devState[s]] # None
    BY <1>1 DEF SnapshotPresent, tree
  <2>1. CASE s \in pending
    BY <1>2, <2>1, SaveResult, DeviceAssumption DEF DevInv, TypeOK
  <2>2. CASE s \notin pending
    BY <1>2, <2>2, SaveResult, SMT DEF DevInv, SnapshotPresent
  <2> QED BY <2>1, <2>2
<1> QED BY <1>3, <1>4 DEF DevInv

(* The current state is stopped and saved. *)
LEMMA MergeKeeps ==
    ASSUME DevInv, Leaves', Merge
    PROVE  DevInv'
<1>1. /\ phase = "select" /\ cur \in active /\ active' = active \ {cur}
      /\ snapshot' = SaveDeviceState({cur})
      /\ UNCHANGED <<phase, cur, live, nextId, pending, tree, written, devices>>
  BY DEF Merge
<1>2. {cur} \subseteq live
  BY DEF DevInv, TypeOK
<1>3. TypeOK' /\ Descent' /\ Activity'
  BY <1>1, <1>2, SaveResult DEF DevInv, TypeOK, Descent, Activity, tree
<1>4. SnapshotPresent'
  <2> SUFFICES ASSUME NEW s \in live, s \notin active \ {cur}
               PROVE  SaveDeviceState({cur})[devState[s]] # None
    BY <1>1 DEF SnapshotPresent, tree
  <2>1. CASE s = cur
    BY <1>2, <2>1, SaveResult, DeviceAssumption DEF DevInv, TypeOK
  <2>2. CASE s # cur
    BY <1>2, <2>2, SaveResult, SMT DEF DevInv, SnapshotPresent
  <2> QED BY <2>1, <2>2
<1> QED BY <1>3, <1>4 DEF DevInv

(* The state that is switched away from is saved, and what is restored is  *)
(* a snapshot.                                                             *)
LEMMA SelectKeeps ==
    ASSUME DevInv, Leaves', NEW t \in live, NEW gone, SelectNextState(t, gone)
    PROVE  DevInv'
<1> DEFINE S == IF t = cur THEN {} ELSE {cur} \cap active
<1>1. /\ phase = "select" /\ t \in live \ gone
      /\ phase' = "run" /\ cur' = t /\ active' = {t}
      /\ live' = live \ gone
      /\ devState' = [s \in live \ gone |-> devState[s]]
      /\ snapshot' = SaveDeviceState(S)
      /\ devices' = IF t \in active THEN devices ELSE snapshot[devState[t]]
      /\ UNCHANGED <<nextId, pending, nextDev, parent, written>>
  BY DEF SelectNextState
<1>2. S \subseteq live /\ pending = {} /\ active \subseteq {cur}
  BY <1>1 DEF DevInv, TypeOK, Leaves, Numbered
<1>3. devices' \in Value
  BY <1>1 DEF DevInv, TypeOK, SnapshotPresent
<1>4. \A s \in live \ S : SaveDeviceState(S)[devState[s]] = snapshot[devState[s]]
  BY <1>2, SaveResult, SMT
<1>5. \A s \in S : SaveDeviceState(S)[devState[s]] = devices
  BY <1>2, SaveResult
<1>6. \A d \in Device : SaveDeviceState(S)[d] \in Value \cup {None}
  BY <1>2, SaveResult
<1>7. SaveDeviceState(S) = [d \in Device |-> SaveDeviceState(S)[d]]
  BY <1>2, SaveResult
<1>8. TypeOK'
  BY <1>1, <1>2, <1>3, <1>6 DEF DevInv, TypeOK
<1>9. Descent' /\ Activity'
  BY <1>1, <1>2, <1>7 DEF DevInv, Descent, Activity
<1>10. SnapshotPresent'
  <2> SUFFICES ASSUME NEW s \in live, s # t
               PROVE  SaveDeviceState(S)[devState[s]] # None
    BY <1>1 DEF SnapshotPresent
  <2>1. CASE s \in S
    BY <1>5, <2>1, DeviceAssumption DEF DevInv, TypeOK
  <2>2. CASE s \notin S
    BY <1>2, <1>4, <2>2 DEF DevInv, SnapshotPresent
  <2> QED BY <2>1, <2>2
<1> QED BY <1>8, <1>9, <1>10 DEF DevInv

(* Every step keeps the invariant. *)
LEMMA DevInvInductive == DevInv /\ [Next]_vars => DevInv'
<1> SUFFICES ASSUME DevInv, [Next]_vars PROVE DevInv'
    OBVIOUS
<1>0. Leaves'
  BY LeavesInductive DEF DevInv
<1>1. ASSUME NEW v \in Value, DeviceStep(v) PROVE DevInv'
  BY <1>0, <1>1 DEF DeviceStep, DevInv, TypeOK, Descent, Activity, SnapshotPresent, control, tree
<1>2. CASE EnterSelect
  BY <1>0, <1>2, SMTT(30) DEF EnterSelect, DevInv, TypeOK, Descent, Activity, SnapshotPresent, tree
<1>3. CASE UNCHANGED vars
  BY <1>0, <1>3 DEF vars, DevInv, TypeOK, Descent, Activity, SnapshotPresent, control, tree
<1> QED BY <1>0, <1>1, <1>2, <1>3, WriteKeeps, CloneKeeps, ForkKeeps, MergeKeeps, SelectKeeps DEF Next

(* So it always holds. *)
LEMMA DevInvAlways == Spec => []DevInv
  BY InitDevInv, DevInvInductive, PTL DEF Spec

(* Types, for every instance. *)
THEOREM TypesHold == Spec => []TypeOK
<1>1. DevInv => TypeOK
  BY DEF DevInv
<1> QED BY <1>1, DevInvAlways, PTL

(* The asserts of restoreDeviceState never fail: a state that is not       *)
(* active was saved after clone left it with an empty device state.        *)
THEOREM SnapshotsPresent == Spec => []SnapshotPresent
<1>1. DevInv => SnapshotPresent
  BY DEF DevInv
<1> QED BY <1>1, DevInvAlways, PTL
-----------------------------------------------------------------------------
(* The search of readSector through the ancestors, which is a recursion    *)
(* that the numbering of device states makes well founded.                 *)

(* A set of numbers that is not empty has a least one. *)
LEMMA LeastExists ==
    ASSUME NEW B \in SUBSET Nat, B # {}
    PROVE  \E k \in B : \A m \in B : k <= m
<1>1. PICK k \in B : \A m \in B : ~(<<m, k>> \in OpToRel(<, Nat))
  BY NatLessThanWellFounded, WFMin
<1>2. \A m \in B : ~(m < k)
  BY <1>1 DEF OpToRel
<1> QED BY <1>2, SMT

(* The way p leads from each number down, until it meets stop. *)
Descends(N, stop, p) == \A n \in 0..N : n \notin stop => p[n] \in 0..N /\ p[n] < n
EndOf(f, N, stop, p) == f = [n \in 0..N |-> IF n \in stop THEN n ELSE f[p[n]]]

(* Going down ends, and so the recursion that finds where is well founded. *)
LEMMA ClimbExists ==
    ASSUME NEW N \in Nat, NEW stop, NEW p, Descends(N, stop, p)
    PROVE  \E f : EndOf(f, N, stop, p)
<1> USE DEF Descends
<1> DEFINE Upto(f, k) == \A m \in 0..k : f[m] = IF m \in stop THEN m ELSE f[p[m]]
           Missing == {k \in 0..N : ~ \E f : Upto(f, k)}
<1>1. ASSUME NEW k \in Missing, \A m \in Missing : k <= m
      PROVE  FALSE
  <2>0. k \in 0..N /\ ~ \E f : Upto(f, k)
    OBVIOUS
  <2>1. CASE k = 0
    <3> DEFINE g == [m \in 0..0 |-> 0]
    <3>1. 0 \in stop
      BY <2>0, <2>1, SMT
    <3>2. Upto(g, 0)
      BY <3>1, SMT
    <3> QED BY <2>0, <2>1, <3>2
  <2>2. CASE k # 0
    <3>1. k - 1 \in 0..N /\ k - 1 \notin Missing
      BY <1>1, <2>0, <2>2, SMTT(30)
    <3>2. PICK f : Upto(f, k - 1)
      BY <3>1
    <3> DEFINE g == [m \in 0..k |-> IF m < k THEN f[m] ELSE IF k \in stop THEN k ELSE f[p[k]]]
    <3>3. Upto(g, k)
      <4> SUFFICES ASSUME NEW m \in 0..k
                   PROVE  g[m] = IF m \in stop THEN m ELSE g[p[m]]
        OBVIOUS
      <4>1. m \notin stop => p[m] \in 0..N /\ p[m] < m /\ p[m] \in 0..k /\ p[m] < k
        BY <2>0, SMT
      <4>2. CASE m < k
        <5>1. m \in 0..(k - 1)
          BY <4>2, <2>0, SMT
        <5>2. f[m] = IF m \in stop THEN m ELSE f[p[m]]
          BY <3>2, <5>1
        <5>3. g[m] = f[m] /\ (m \notin stop => g[p[m]] = f[p[m]])
          BY <4>1, <4>2
        <5> QED BY <5>2, <5>3
      <4>3. CASE m = k
        <5>1. m \notin stop => g[p[m]] = f[p[m]]
          BY <4>1
        <5>2. g[m] = IF k \in stop THEN k ELSE f[p[k]]
          BY <4>3, <2>0, SMT
        <5> QED BY <4>3, <5>1, <5>2
      <4> QED BY <4>2, <4>3, <2>0, SMT
    <3> QED BY <2>0, <3>3
  <2> QED BY <2>1, <2>2
<1>2. Missing = {}
  <2>1. Missing \in SUBSET Nat
    BY SMT
  <2> QED BY <1>1, <2>1, LeastExists
<1>3. PICK f : Upto(f, N)
  BY <1>2, SMT
<1> DEFINE g == [n \in 0..N |-> f[n]]
<1>4. EndOf(g, N, stop, p)
  BY <1>3 DEF EndOf
<1> QED BY <1>4

(* What the search of readSector relies on. *)
Ancestry == parent \in [Device -> Device \cup {NoDevice}] /\ \A d \in Device : parent[d] < d

(* The search of readSector stops at a device state that has the sector,   *)
(* and goes on with the parent otherwise.                                  *)
Climbs ==
    /\ \A i : Holder(NoDevice, i) = NoDevice
    /\ \A i, d, q : (d \in Device /\ i \in DOMAIN written[d]) => Holder(d, i) = d
    /\ \A i, d, q : (d \in Device /\ i \notin DOMAIN written[d] /\ q = parent[d]) =>
                       Holder(d, i) = Holder(q, i)

(* The search is well defined. *)
LEMMA HolderClimbs == Ancestry => Climbs
<1> SUFFICES ASSUME Ancestry, NEW i, NEW d \in Device \cup {NoDevice}
             PROVE  Holder(d, i) = IF d = NoDevice \/ i \in DOMAIN written[d] THEN d
                                   ELSE Holder(parent[d], i)
  <2>1. NoDevice \notin Device
    BY SMT DEF Device, NoDevice
  <2> QED BY <2>1 DEF Climbs
<1> DEFINE D == Device \cup {NoDevice}
           f == CHOOSE find : find = [n \in D |->
                   IF n = NoDevice \/ i \in DOMAIN written[n] THEN n ELSE find[parent[n]]]
           N == 2 * MaxStates - 1
           stop == {n \in D : n = NoDevice \/ i \in DOMAIN written[n]}
<1>0. N \in Nat /\ D = 0..N
  BY DeviceAssumption, SMT DEF Device, NoDevice
<1>1. Descends(N, stop, parent)
  BY <1>0 DEF Ancestry, NoDevice, Descends
<1>2. \A n \in 0..N : n \in stop <=> n = NoDevice \/ i \in DOMAIN written[n]
  BY <1>0
<1> HIDE DEF N, stop
<1>3. PICK g : EndOf(g, N, stop, parent)
  BY <1>0, <1>1, ClimbExists
<1>4. g = [n \in D |-> IF n = NoDevice \/ i \in DOMAIN written[n] THEN n ELSE g[parent[n]]]
  <2> HIDE DEF D
  <2> DEFINE e(n) == IF n = NoDevice \/ i \in DOMAIN written[n] THEN n ELSE g[parent[n]]
  <2>1. \A n \in D : (IF n \in stop THEN n ELSE g[parent[n]]) = e(n)
    BY <1>0, <1>2
  <2>2. g = [n \in D |-> IF n \in stop THEN n ELSE g[parent[n]]]
    BY <1>0, <1>3 DEF EndOf
  <2> HIDE DEF e
  <2>3. g = [n \in D |-> e(n)]
    BY <2>1, <2>2
  <2> QED BY <2>3 DEF e
<1>5. f = [n \in D |-> IF n = NoDevice \/ i \in DOMAIN written[n] THEN n ELSE f[parent[n]]]
  BY <1>4
<1>6. \A n : Holder(n, i) = f[n]
  BY DEF Holder
<1> HIDE DEF f
<1> QED BY <1>5, <1>6

(* And after a step. *)
LEMMA HolderClimbsNext == (Ancestry => Climbs)'
BY HolderClimbs, PTL

(* The search ends where it did before a step, when the step changes       *)
(* device states in X only and the way does not lead there.                *)
LEMMA HolderAgrees ==
    ASSUME Ancestry, Ancestry', NEW i, NEW X,
           \A n \in Device \ X : /\ parent'[n] = parent[n] /\ parent[n] \notin X
                                 /\ i \in DOMAIN written'[n] <=> i \in DOMAIN written[n],
           NoDevice \notin X
    PROVE  \A n \in (Device \cup {NoDevice}) \ X :
              /\ Holder(n, i)' = Holder(n, i)
              /\ Holder(n, i) \in (Device \cup {NoDevice}) \ X
<1> DEFINE D == Device \cup {NoDevice}
           H(n) == Holder(n, i)
           G(n) == Holder(n, i)'
           Bad == {n \in D \ X : ~(G(n) = H(n) /\ H(n) \in D \ X)}
<1>1. /\ H(NoDevice) = NoDevice
      /\ \A n \in Device : i \in DOMAIN written[n] => H(n) = n
      /\ \A n \in Device : \A q : (i \notin DOMAIN written[n] /\ q = parent[n]) => H(n) = H(q)
  BY HolderClimbs, SMT DEF Climbs
<1>2. /\ G(NoDevice) = NoDevice
      /\ \A n \in Device : i \in DOMAIN written'[n] => G(n) = n
      /\ \A n \in Device : \A q : (i \notin DOMAIN written'[n] /\ q = parent'[n]) => G(n) = G(q)
  BY HolderClimbsNext, SMT DEF Climbs
<1>3. \A n \in Device : n \in Nat /\ parent[n] \in D /\ parent[n] < n
  BY DeviceAssumption, SMT DEF Device, Ancestry
<1>4. D \subseteq Nat
  BY <1>3, SMT DEF NoDevice
<1> HIDE DEF G, H
<1>5. ASSUME NEW k \in Bad, \A m \in Bad : k <= m
      PROVE  FALSE
  <2>1. k # NoDevice
    BY <1>1, <1>2, SMT
  <2>2. k \in Device \ X
    BY <2>1
  <2>3. parent[k] \in D \ X /\ parent[k] \notin Bad
    BY <1>3, <1>4, <1>5, <2>2, SMT
  <2>4. G(parent[k]) = H(parent[k]) /\ H(parent[k]) \in D \ X
    BY <2>3
  <2>5. CASE i \in DOMAIN written[k]
    BY <1>1, <1>2, <2>2, <2>5
  <2>6. CASE i \notin DOMAIN written[k]
    BY <1>1, <1>2, <2>2, <2>4, <2>6
  <2> QED BY <2>5, <2>6
<1>6. Bad \in SUBSET Nat
  BY <1>4
<1>7. Bad = {}
  BY <1>5, <1>6, LeastExists
<1> QED BY <1>7 DEF G, H

(* What the nearest device state that has sector i holds. *)
Stored(d, i) == IF Holder(d, i) = NoDevice THEN Blank ELSE written[Holder(d, i)][i]

(* Reading one sector finds it there. *)
LEMMA ReadOne == \A d, i : i \in Nat => ReadSector(d, i, 1)[1] = Stored(d, i)
<1> SUFFICES ASSUME NEW d, NEW i \in Nat PROVE ReadSector(d, i, 1)[1] = Stored(d, i)
  OBVIOUS
<1> DEFINE fill(r, v, found) == [buf |-> [r.buf EXCEPT ![r.at] = v], at |-> r.at + 1, hasRead |-> found]
           Step(r, j) == LET h == Holder(d, j)
                         IN IF h # NoDevice THEN fill(r, written[h][j], TRUE)
                            ELSE IF ~r.hasRead THEN fill(r, Blank, FALSE)
                            ELSE r
           r0 == [buf |-> [j \in 1..1 |-> None], at |-> 1, hasRead |-> FALSE]
           after == CHOOSE after : after = [k \in 0..1 |->
                       IF k = 0 THEN r0 ELSE Step(after[k - 1], i + k - 1)]
           g == [k \in 0..1 |-> IF k = 0 THEN r0 ELSE Step(r0, i)]
<1>1. ReadSector(d, i, 1) = after[1].buf
  BY DEF ReadSector
<1> HIDE DEF Step, r0
<1>2. g = [k \in 0..1 |-> IF k = 0 THEN r0 ELSE Step(g[k - 1], i + k - 1)]
  <2>1. \A k \in 0..1 : k # 0 => g[k - 1] = r0 /\ i + k - 1 = i
    BY SMT
  <2> QED BY <2>1
<1>3. after = [k \in 0..1 |-> IF k = 0 THEN r0 ELSE Step(after[k - 1], i + k - 1)]
  BY <1>2
<1> HIDE DEF after
<1>4. after[1] = Step(r0, i)
  <2>1. after[0] = r0
    BY <1>3, SMT
  <2>2. after[1] = Step(after[1 - 1], i + 1 - 1)
    BY <1>3, SMT
  <2>3. 1 - 1 = 0 /\ i + 1 - 1 = i
    BY SMT
  <2> QED BY <2>1, <2>2, <2>3
<1>5. Step(r0, i).buf[1] = Stored(d, i)
  BY SMT DEF Step, r0, Stored
<1> QED BY <1>1, <1>4, <1>5

(* The invariant provides it. *)
LEMMA DevInvAncestry == (DevInv => Ancestry) /\ (DevInv' => Ancestry')
  BY DEF DevInv, TypeOK, Descent, Ancestry

(* A sector is read from where it was, if nothing changed on the way. *)
LEMMA StoredAgrees ==
    ASSUME Ancestry, Ancestry', NEW X, NoDevice \notin X,
           \A n \in Device \ X : /\ parent'[n] = parent[n] /\ parent[n] \notin X
                                 /\ written'[n] = written[n]
    PROVE  \A n \in (Device \cup {NoDevice}) \ X : \A i : Stored(n, i)' = Stored(n, i)
<1> SUFFICES ASSUME NEW n \in (Device \cup {NoDevice}) \ X, NEW i
             PROVE  Stored(n, i)' = Stored(n, i)
  OBVIOUS
<1>1. \A m \in Device \ X : /\ parent'[m] = parent[m] /\ parent[m] \notin X
                            /\ i \in DOMAIN written'[m] <=> i \in DOMAIN written[m]
  OBVIOUS
<1>2. Holder(n, i)' = Holder(n, i) /\ Holder(n, i) \in (Device \cup {NoDevice}) \ X
  BY <1>1, HolderAgrees
<1> QED BY <1>2 DEF Stored

(* The disk of each path, sector by sector. *)
Viewed ==
    /\ DiskView = [s \in State |-> [i \in Sector |-> DiskView[s][i]]]
    /\ \A s \in State, i \in Sector : \A d :
          s \in live /\ d = devState[s] => DiskView[s][i] = Stored(d, i)
    /\ \A s \in State, i \in Sector : s \notin live => DiskView[s][i] = Blank

(* By the definition of the view, *)
LEMMA ViewedAlways == Viewed
<1>1. DiskView = [s \in State |-> [i \in Sector |-> DiskView[s][i]]]
  BY DEF DiskView
<1>2. ASSUME NEW s \in State, NEW i \in Sector
      PROVE  DiskView[s][i] = IF s \in live THEN Stored(devState[s], i) ELSE Blank
  <2>1. i \in Nat
    BY DeviceAssumption, SMT DEF Sector
  <2>2. DiskView[s][i] = IF s \in live THEN ReadSector(devState[s], i, 1)[1] ELSE Blank
    BY DEF DiskView
  <2> QED BY <2>1, <2>2, ReadOne
<1> QED BY <1>1, <1>2 DEF Viewed

(* also after a step. *)
LEMMA ViewedNext == Viewed'
BY ViewedAlways, PTL

(* A step that leaves the device states alone leaves every disk alone. *)
LEMMA DisksStay ==
    ASSUME DevInv, DevInv', UNCHANGED <<parent, written>>, live' \subseteq live,
           \A s \in live' : devState'[s] = devState[s]
    PROVE  \A s \in State, i \in Sector :
              DiskView'[s][i] = IF s \in live' \/ s \notin live THEN DiskView[s][i] ELSE Blank
<1> SUFFICES ASSUME NEW s \in State, NEW i \in Sector
             PROVE  DiskView'[s][i] = IF s \in live' \/ s \notin live THEN DiskView[s][i] ELSE Blank
  OBVIOUS
<1>1. \A n \in Device \cup {NoDevice} : \A j : Stored(n, j)' = Stored(n, j)
  <2>1. Ancestry /\ Ancestry'
    BY DevInvAncestry
  <2> DEFINE X == {}
  <2>2. \A n \in Device \ X : /\ parent'[n] = parent[n] /\ parent[n] \notin X
                              /\ written'[n] = written[n]
    OBVIOUS
  <2>3. \A n \in (Device \cup {NoDevice}) \ X : \A j : Stored(n, j)' = Stored(n, j)
    BY <2>1, <2>2, StoredAgrees, ZenonT(30)
  <2> QED BY <2>3
<1>2. CASE s \in live'
  <2>1. devState[s] \in Device
    BY <1>2 DEF DevInv, TypeOK
  <2>2. DiskView[s][i] = Stored(devState[s], i)
    BY <1>2, ViewedAlways, SMT DEF Viewed
  <2>3. \A d : d = devState[s] => DiskView'[s][i] = Stored(d, i)'
    BY <1>2, ViewedNext, SMT DEF Viewed
  <2> QED BY <1>1, <1>2, <2>1, <2>2, <2>3
<1>3. CASE s \notin live'
  BY <1>3, ViewedAlways, ViewedNext DEF Viewed
<1> QED BY <1>2, <1>3

(* A write changes the sectors written in the disk of the running path. *)
LEMMA DisksWritten ==
    ASSUME DevInv, DevInv', NEW first \in Sector, NEW n \in 1..(LastSector - first + 1),
           NEW data \in [1..n -> Value], WriteSector(first, data)
    PROVE  \A s \in State, i \in Sector :
              DiskView'[s][i] = IF s = cur /\ i \in first..(first + Len(data) - 1)
                                THEN data[i - first + 1] ELSE DiskView[s][i]
<1> DEFINE d == devState[cur]
<1>0. /\ d \in Device /\ cur \in live /\ parent \in [Device -> Device \cup {NoDevice}]
      /\ Ancestry /\ Ancestry' /\ NoDevice \notin {d}
      /\ \A m \in Device : parent[m] # d
  <2>1. Ancestry /\ Ancestry'
    BY DevInvAncestry
  <2>2. d \in Device /\ cur \in live /\ parent \in [Device -> Device \cup {NoDevice}]
    BY DEF DevInv, TypeOK
  <2>3. \A m \in Device : parent[m] # d
    BY <2>2 DEF DevInv, Leaves, LeavesAreOwn
  <2>4. NoDevice \notin Device
    BY SMTT(30) DEF Device, NoDevice
  <2> QED BY <2>1, <2>2, <2>3, <2>4
<1>1. /\ written' = [written EXCEPT ![d] = Overwrite(written[d], first, data)]
      /\ parent' = parent /\ devState' = devState /\ live' = live
  BY DEF WriteSector, control, tree
<1>2. written'[d] = Overwrite(written[d], first, data) /\ \A m \in Device \ {d} : written'[m] = written[m]
  BY <1>0, <1>1 DEF DevInv, Descent
<1>3. \A m \in (Device \cup {NoDevice}) \ {d} : \A j : Stored(m, j)' = Stored(m, j)
  <2> DEFINE X == {d}
  <2>1. \A m \in Device \ X : /\ parent'[m] = parent[m] /\ parent[m] \notin X
                              /\ written'[m] = written[m]
    BY <1>0, <1>1, <1>2
  <2> HIDE DEF X
  <2>2. NoDevice \notin X
    BY <1>0, SMTT(30) DEF X
  <2>3. \A m \in (Device \cup {NoDevice}) \ X : \A j : Stored(m, j)' = Stored(m, j)
    BY <1>0, <2>1, <2>2, StoredAgrees, SMTT(30)
  <2> QED BY <2>3 DEF X
<1> SUFFICES ASSUME NEW s \in State, NEW i \in Sector
             PROVE  DiskView'[s][i] = IF s = cur /\ i \in first..(first + Len(data) - 1)
                                      THEN data[i - first + 1] ELSE DiskView[s][i]
  OBVIOUS
<1>4. CASE s \notin live
  BY <1>0, <1>1, <1>4, ViewedAlways, ViewedNext, SMTT(30) DEF Viewed
<1>5. CASE s \in live /\ s # cur
  <2>1. devState[s] \in Device \ {d}
    BY <1>0, <1>5 DEF DevInv, TypeOK, Leaves, LeavesAreOwn
  <2>2. DiskView[s][i] = Stored(devState[s], i)
    BY <1>5, ViewedAlways DEF Viewed
  <2>3. \A c : c = devState[s] => DiskView'[s][i] = Stored(c, i)'
    BY <1>1, <1>5, ViewedNext, SMTT(30) DEF Viewed
  <2> QED BY <1>3, <1>5, <2>1, <2>2, <2>3, SMTT(30)
<1>6. CASE s = cur
  <2>1. Climbs /\ Climbs'
    BY <1>0, HolderClimbs, HolderClimbsNext
  <2>2. DiskView[s][i] = Stored(d, i)
    BY <1>0, <1>6, ViewedAlways DEF Viewed
  <2>3. \A c : c = d => DiskView'[s][i] = Stored(c, i)'
    BY <1>0, <1>1, <1>6, ViewedNext, SMTT(30) DEF Viewed
  <2>4. DOMAIN written'[d] = DOMAIN written[d] \cup first..(first + Len(data) - 1)
    BY <1>2 DEF Overwrite
  <2>5. PICK c : c = d
    OBVIOUS
  <2>6. PICK q : q = parent[c]
    BY SMTT(30)
  <2>7. CASE i \in first..(first + Len(data) - 1)
    <3>1. Holder(c, i)' = c
      BY <1>0, <2>1, <2>4, <2>5, <2>7, SMTT(30) DEF Climbs
    <3>2. Stored(c, i)' = written'[c][i]
      BY <1>0, <2>5, <3>1, SMTT(30) DEF Stored
    <3>3. written'[c][i] = data[i - first + 1]
      BY <1>2, <2>5, <2>7, DeviceAssumption, SMTT(30) DEF Overwrite, Sector
    <3> QED BY <1>6, <2>3, <2>5, <2>7, <3>2, <3>3, SMTT(30)
  <2>8. CASE i \in DOMAIN written[d] /\ i \notin first..(first + Len(data) - 1)
    <3>1. Holder(c, i)' = c /\ Holder(c, i) = c
      BY <1>0, <2>1, <2>4, <2>5, <2>8, SMTT(30) DEF Climbs
    <3>2. Stored(c, i)' = written'[c][i] /\ Stored(c, i) = written[c][i]
      BY <1>0, <2>5, <3>1 DEF Stored
    <3>3. Len(data) = n /\ first \in Nat /\ i \in Nat /\ n \in Nat
      BY DeviceAssumption, SMTT(30) DEF Sector
    <3>4. written'[c][i] = written[c][i]
      BY <1>2, <2>5, <2>8, <3>3, SMTT(30) DEF Overwrite
    <3> QED BY <1>6, <2>2, <2>3, <2>5, <2>8, <3>2, <3>4, SMTT(30)
  <2>9. CASE i \notin DOMAIN written'[d]
    <3>1. Holder(c, i)' = Holder(q, i)' /\ Holder(c, i) = Holder(q, i)
      BY <1>0, <1>1, <2>1, <2>4, <2>5, <2>6, <2>9 DEF Climbs
    <3>2. Stored(c, i)' = Stored(q, i)' /\ Stored(c, i) = Stored(q, i)
      BY <3>1 DEF Stored
    <3>3. q \in (Device \cup {NoDevice}) \ {d}
      BY <1>0, <2>5, <2>6, SMTT(30)
    <3> QED BY <1>3, <1>6, <2>2, <2>3, <2>4, <2>5, <2>9, <3>2, <3>3
  <2> QED BY <2>4, <2>7, <2>8, <2>9
<1> QED BY <1>4, <1>5, <1>6

(* A fork gives the clone the disk of the state it was cloned from. *)
LEMMA DisksCloned ==
    ASSUME DevInv, DevInv', NEW e \in live, Clone(e)
    PROVE  \A s \in State, i \in Sector :
              DiskView'[s][i] = IF s = nextId THEN DiskView[e][i] ELSE DiskView[s][i]
<1> DEFINE X == {nextDev, nextDev + 1}
<1>1. /\ live' = live \cup {nextId} /\ nextId \notin live /\ nextId \in State
      /\ written' = written
      /\ e \in State /\ live \subseteq State
  BY SMTT(30) DEF Clone, DevInv, TypeOK, Leaves, Numbered
<1>2. /\ nextDev \in Device /\ nextDev + 1 \in Device /\ nextDev \in Nat /\ NoDevice \notin X
      /\ Device \subseteq Nat
  BY DeviceAssumption, SMT DEF Clone, DevInv, TypeOK, State, Device, NoDevice
<1>3. /\ devState'[e] = nextDev /\ devState'[nextId] = nextDev + 1
      /\ \A s \in live \ {e} : devState'[s] = devState[s]
  BY <1>1 DEF Clone, Copies
<1>4. \A d \in Device : parent'[d] = IF d \in X THEN devState[e] ELSE parent[d]
  BY SMTT(30) DEF Clone
<1>5. /\ Ancestry /\ Ancestry'
      /\ \A s \in live : devState[s] \in Device /\ devState[s] < nextDev
      /\ \A d \in Device : parent[d] \in Nat /\ parent[d] < nextDev
  BY DevInvAncestry DEF DevInv, TypeOK, Leaves, Numbered
<1>6. \A m \in (Device \cup {NoDevice}) \ X : \A j : Stored(m, j)' = Stored(m, j)
  <2>1. \A m \in Device \ X : /\ parent'[m] = parent[m] /\ parent[m] \notin X
                              /\ written'[m] = written[m]
    BY <1>1, <1>2, <1>4, <1>5, SMT
  <2> HIDE DEF X
  <2> QED BY <1>2, <1>5, <2>1, StoredAgrees
<1>7. ASSUME NEW c \in X, NEW i
      PROVE  Stored(c, i)' = Stored(devState[e], i)
  <2>1. Climbs'
    BY <1>5, HolderClimbsNext
  <2>2. PICK q : q = devState[e]
    OBVIOUS
  <2>3. i \notin DOMAIN written'[c] /\ parent'[c] = q /\ c \in Device
    BY <1>1, <1>2, <1>4, <2>2, SMT DEF DevInv, Descent
  <2>4. Holder(c, i)' = Holder(q, i)'
    BY <2>1, <2>3 DEF Climbs
  <2>5. Stored(c, i)' = Stored(q, i)'
    BY <2>4 DEF Stored
  <2>6. q \in Device \ X
    BY <1>2, <1>5, <2>2, SMT
  <2> QED BY <1>6, <2>2, <2>5, <2>6
<1> HIDE DEF X
<1> SUFFICES ASSUME NEW s \in State, NEW i \in Sector
             PROVE  DiskView'[s][i] = IF s = nextId THEN DiskView[e][i] ELSE DiskView[s][i]
  OBVIOUS
<1>8. CASE s \notin live'
  BY <1>1, <1>8, ViewedAlways, ViewedNext, SMTT(30) DEF Viewed
<1>9. CASE s \in live \ {e}
  <2>1. \A c : c = devState[s] => DiskView'[s][i] = Stored(c, i)'
    BY <1>1, <1>3, <1>9, ViewedNext, SMT DEF Viewed
  <2>2. DiskView[s][i] = Stored(devState[s], i)
    BY <1>9, ViewedAlways DEF Viewed
  <2>3. devState[s] \in Device \ X
    BY <1>2, <1>5, <1>9, SMTT(30) DEF X
  <2> QED BY <1>1, <1>6, <1>9, <2>1, <2>2, <2>3
<1>10. CASE s \in {e, nextId}
  <2>1. devState'[s] \in X
    BY <1>3, <1>10 DEF X
  <2>2. \A c : c = devState'[s] => DiskView'[s][i] = Stored(c, i)'
    BY <1>1, <1>10, ViewedNext, SMT DEF Viewed
  <2>3. DiskView[e][i] = Stored(devState[e], i)
    BY <1>1, ViewedAlways DEF Viewed
  <2> QED BY <1>1, <1>7, <1>10, <2>1, <2>2, <2>3
<1> QED BY <1>1, <1>8, <1>9, <1>10, SMTT(30)
-----------------------------------------------------------------------------
(* The refinement. *)

(* Sets and disks of the two modules are the same. *)
LEMMA DisksConstants ==
    /\ Disks!State = State /\ Disks!Sector = Sector /\ Disks!NoState = 0
    /\ Disks!BlankDisk = [i \in Sector |-> Blank]
  BY DEF Disks!State, State, Disks!Sector, Sector, Disks!NoState, Disks!BlankDisk

(* A write is a write to the disk of the running path. *)
LEMMA WriteRefines ==
    ASSUME DevInv, DevInv', NEW first \in Sector, NEW n \in 1..(LastSector - first + 1),
           NEW data \in [1..n -> Value], WriteSector(first, data)
    PROVE  Disks!Write(first, data)
<1>1. cur \in active /\ cur \in live /\ cur \in State
  BY SMTT(30) DEF DevInv, TypeOK, Activity, WriteSector
<1>2. UNCHANGED <<live, Running, DeviceView>>
  BY DEF WriteSector, control, tree, Running, DeviceView
<1> DEFINE E == first..(first + Len(data) - 1)
           new == [i \in Sector |-> IF i \in E THEN data[i - first + 1] ELSE DiskView[cur][i]]
<1>3. DiskView' = [DiskView EXCEPT ![cur] = new]
  <2>1. \A s \in State, i \in Sector :
          DiskView'[s][i] = IF s = cur /\ i \in E THEN data[i - first + 1] ELSE DiskView[s][i]
    BY DisksWritten, SMT
  <2> HIDE DEF E
  <2>2. \A s \in State, i \in Sector : [DiskView EXCEPT ![cur] = new][s][i] = DiskView'[s][i]
    BY <1>1, <2>1, ViewedAlways, SMTT(30) DEF Viewed
  <2>3. [DiskView EXCEPT ![cur] = new] =
          [s \in State |-> [i \in Sector |-> [DiskView EXCEPT ![cur] = new][s][i]]]
    BY <1>1, ViewedAlways DEF Viewed
  <2>4. DiskView' = [s \in State |-> [i \in Sector |-> DiskView'[s][i]]]
    BY ViewedNext DEF Viewed
  <2> QED BY <2>2, <2>3, <2>4, SMT
<1>4. Running = cur
  BY <1>1 DEF Running
<1> QED BY <1>1, <1>2, <1>3, <1>4, DisksConstants, SMTT(30) DEF Disks!Write

(* Device emulation touches the devices of the running path. *)
LEMMA DeviceStepRefines ==
    ASSUME DevInv, DevInv', NEW v \in Value, DeviceStep(v)
    PROVE  Disks!DeviceStep(v)
<1>1. /\ cur \in active /\ cur \in live /\ cur \in State /\ active = {cur} /\ live \subseteq State
      /\ devices' = v /\ UNCHANGED <<control, tree, written, snapshot>>
  BY DEF DevInv, TypeOK, Activity, Leaves, Numbered, DeviceStep
<1>2. UNCHANGED <<live, Running>> /\ Running = cur
  BY <1>1 DEF control, Running
<1>3. DiskView' = DiskView
  <2>1. \A s \in State, i \in Sector : DiskView'[s][i] = DiskView[s][i]
    BY <1>1, DisksStay, SMTT(30) DEF control, tree
  <2> QED BY <2>1, ViewedAlways, ViewedNext DEF Viewed
<1>4. DeviceView' = [DeviceView EXCEPT ![cur] = v]
  BY <1>1, ZenonT(30) DEF DeviceView, control, tree
<1> QED BY <1>1, <1>2, <1>3, <1>4 DEF Disks!DeviceStep

(* A clone is a fork. *)
LEMMA CloneRefines ==
    ASSUME DevInv, DevInv', NEW e \in live, Clone(e)
    PROVE  Disks!Fork(e, nextId)
<1>1. /\ live' = live \cup {nextId} /\ nextId \notin live /\ nextId \in State
      /\ active' = active \cup {nextId} /\ e \in active /\ e \in State /\ live \subseteq State
      /\ UNCHANGED <<cur, snapshot, devices>> /\ cur # nextId
      /\ \A s \in live \ {e} : devState'[s] = devState[s]
  BY SMTT(30) DEF Clone, DevInv, TypeOK, Activity, Leaves, Numbered
<1>2. Running' = Running
  BY <1>1 DEF Running
<1>3. DeviceView' = [DeviceView EXCEPT ![nextId] = DeviceView[e]]
  <2>1. DeviceView[e] = devices
    BY <1>1 DEF DeviceView
  <2>2. \A s \in State : DeviceView'[s] = IF s = nextId THEN devices ELSE DeviceView[s]
    BY <1>1 DEF DeviceView
  <2> QED BY <1>1, <2>1, <2>2 DEF DeviceView
<1>4. DiskView' = [DiskView EXCEPT ![nextId] = DiskView[e]]
  <2> DEFINE F == [DiskView EXCEPT ![nextId] = DiskView[e]]
  <2>1. \A s \in State, i \in Sector :
           DiskView'[s][i] = IF s = nextId THEN DiskView[e][i] ELSE DiskView[s][i]
    BY DisksCloned
  <2>2. \A s \in State, i \in Sector : F[s][i] = DiskView'[s][i]
    BY <1>1, <2>1, ViewedAlways DEF Viewed
  <2>3. F = [s \in State |-> [i \in Sector |-> F[s][i]]]
    BY <1>1, ViewedAlways DEF Viewed
  <2>4. DiskView' = [s \in State |-> [i \in Sector |-> DiskView'[s][i]]]
    BY ViewedNext DEF Viewed
  <2> HIDE DEF F
  <2>5. DiskView' = F
    BY <2>2, <2>3, <2>4
  <2> QED BY <2>5 DEF F
<1> QED BY <1>1, <1>2, <1>3, <1>4, DisksConstants DEF Disks!Fork

(* Stopping the current state for a merge stops the running path. *)
LEMMA MergeRefines == ASSUME DevInv, DevInv', Merge PROVE Disks!Stop
<1>1. /\ cur \in active /\ cur \in live /\ active' = active \ {cur}
      /\ snapshot' = SaveDeviceState({cur})
      /\ UNCHANGED <<cur, live, tree, written, devices>>
      /\ live \subseteq State
  BY DEF Merge, DevInv, TypeOK
<1>2. Running' = 0
  BY <1>1 DEF Running
<1>3. DiskView' = DiskView
  <2>1. \A s \in State, i \in Sector : DiskView'[s][i] = DiskView[s][i]
    BY <1>1, DisksStay, SMTT(30) DEF tree
  <2> QED BY <2>1, ViewedAlways, ViewedNext, SMTT(30) DEF Viewed
<1>4. DeviceView' = DeviceView
  <2>1. \A s \in live \ {cur} : SaveDeviceState({cur})[devState[s]] = snapshot[devState[s]]
    BY <1>1, SaveResult, SMT
  <2>2. SaveDeviceState({cur})[devState[cur]] = devices
    BY <1>1, SaveResult, SMT
  <2> QED BY <1>1, <2>1, <2>2 DEF DeviceView, tree
<1> QED BY <1>1, <1>2, <1>3, <1>4, DisksConstants, SMTT(30) DEF Disks!Stop

(* Stopping the clones at the end of a fork changes nothing a path sees. *)
LEMMA ForkEndRefines == ASSUME DevInv, DevInv', DoStateFork PROVE UNCHANGED Disks!pdVars
<1>1. /\ cur \in active /\ cur \notin pending /\ active' = active \ pending
      /\ pending \subseteq live /\ pending \subseteq active
      /\ snapshot' = SaveDeviceState(pending)
      /\ UNCHANGED <<cur, live, tree, written, devices>>
      /\ live \subseteq State
  BY DEF DoStateFork, DevInv, TypeOK, Activity
<1>2. Running' = Running
  BY <1>1, SMTT(30) DEF Running
<1>3. DiskView' = DiskView
  <2>1. \A s \in State, i \in Sector : DiskView'[s][i] = DiskView[s][i]
    BY <1>1, DisksStay, SMTT(30) DEF tree
  <2> QED BY <2>1, ViewedAlways, ViewedNext, SMT DEF Viewed
<1>4. DeviceView' = DeviceView
  <2>1. \A s \in live \ pending : SaveDeviceState(pending)[devState[s]] = snapshot[devState[s]]
    BY <1>1, SaveResult, SMTT(30)
  <2>2. \A s \in pending : SaveDeviceState(pending)[devState[s]] = devices
    BY <1>1, SaveResult, SMTT(30)
  <2> QED BY <1>1, <2>1, <2>2 DEF DeviceView, tree
<1> QED BY <1>1, <1>2, <1>3, <1>4, SMTT(30) DEF Disks!pdVars

(* A switch gives the path it runs the devices of its snapshot. *)
LEMMA SelectRefines ==
    ASSUME DevInv, DevInv', NEW t \in live, NEW gone \in SUBSET (live \cap Mortal),
           SelectNextState(t, gone)
    PROVE  Disks!Schedule(t, gone)
<1> DEFINE S == IF t = cur THEN {} ELSE {cur} \cap active
<1>1. /\ t \in live \ gone /\ cur' = t /\ active' = {t}
      /\ live' = live \ gone
      /\ devState' = [s \in live \ gone |-> devState[s]]
      /\ snapshot' = SaveDeviceState(S)
      /\ devices' = IF t \in active THEN devices ELSE snapshot[devState[t]]
      /\ UNCHANGED <<parent, written>>
      /\ active \subseteq {cur} /\ live \subseteq State
  BY SMTT(30) DEF SelectNextState, DevInv, TypeOK, Leaves, Numbered
<1>2. Running' = t
  BY <1>1, SMTT(30) DEF Running
<1>3. DiskView' = [s \in State |-> IF s \in gone THEN [i \in Sector |-> Blank] ELSE DiskView[s]]
  <2>1. \A s \in State, i \in Sector :
              DiskView'[s][i] = IF s \in live' \/ s \notin live THEN DiskView[s][i] ELSE Blank
    BY <1>1, DisksStay, SMTT(30)
  <2> DEFINE F == [s \in State |-> IF s \in gone THEN [i \in Sector |-> Blank] ELSE DiskView[s]]
  <2>2. \A s \in State, i \in Sector : F[s][i] = DiskView'[s][i]
    BY <1>1, <2>1
  <2>3. F = [s \in State |-> [i \in Sector |-> F[s][i]]]
    BY ViewedAlways DEF Viewed
  <2>4. DiskView' = [s \in State |-> [i \in Sector |-> DiskView'[s][i]]]
    BY ViewedNext DEF Viewed
  <2> HIDE DEF F
  <2>5. DiskView' = F
    BY <2>2, <2>3, <2>4, SMTT(30)
  <2> QED BY <2>5, SMTT(30) DEF F
<1>4. DeviceView' = [s \in State |-> IF s \in gone THEN Blank ELSE DeviceView[s]]
  <2>1. S \subseteq live
    BY DEF DevInv, TypeOK
  <2>2. \A s \in live \ S : SaveDeviceState(S)[devState[s]] = snapshot[devState[s]]
    BY <2>1, SaveResult, SMTT(30)
  <2>3. \A s \in S : SaveDeviceState(S)[devState[s]] = devices
    BY <2>1, SaveResult, SMTT(30)
  <2>4. ASSUME NEW s \in State
        PROVE  DeviceView'[s] = IF s \in gone THEN Blank ELSE DeviceView[s]
    BY <1>1, <2>2, <2>3 DEF DeviceView
  <2> QED BY <2>4, SMTT(30) DEF DeviceView
<1> QED BY <1>1, <1>2, <1>3, <1>4, DisksConstants, SMTT(30) DEF Disks!Schedule

(* Every step is a step of PrivateDisks or invisible to all paths. *)
LEMMA DisksStep == DevInv /\ DevInv' /\ [Next]_vars => [Disks!PDNext]_Disks!pdVars
<1> SUFFICES ASSUME DevInv, DevInv', [Next]_vars PROVE [Disks!PDNext]_Disks!pdVars
  OBVIOUS
<1> USE DisksConstants
<1>1. ASSUME NEW first \in Sector, NEW n \in 1..(LastSector - first + 1),
             NEW data \in [1..n -> Value], WriteSector(first, data)
      PROVE  Disks!PDNext
  BY <1>1, WriteRefines DEF Disks!PDNext
<1>2. ASSUME NEW v \in Value, DeviceStep(v) PROVE Disks!PDNext
  BY <1>2, DeviceStepRefines DEF Disks!PDNext
<1>3. ASSUME NEW e \in live, Clone(e) PROVE Disks!PDNext
  <2>1. e \in State /\ nextId \in State
    BY <1>3 DEF Clone, DevInv, TypeOK
  <2> QED BY <1>3, <2>1, CloneRefines, SMTT(30) DEF Disks!PDNext
<1>4. CASE Merge
  BY <1>4, MergeRefines DEF Disks!PDNext
<1>5. ASSUME NEW t \in live, NEW gone \in SUBSET (live \cap Mortal), SelectNextState(t, gone)
      PROVE  Disks!PDNext
  <2>1. t \in State /\ gone \in SUBSET State
    BY DEF DevInv, TypeOK
  <2> QED BY <1>5, <2>1, SelectRefines, SMTT(30) DEF Disks!PDNext
<1>6. CASE DoStateFork
  BY <1>6, ForkEndRefines
<1>7. CASE EnterSelect \/ UNCHANGED vars
  <2>1. /\ UNCHANGED <<cur, active, live, devState, parent, written, snapshot, devices>>
        /\ live \subseteq State
    BY <1>7 DEF EnterSelect, vars, control, tree, DevInv, TypeOK
  <2>2. \A s \in State, i \in Sector : DiskView'[s][i] = DiskView[s][i]
    BY <2>1, DisksStay
  <2>3. DiskView' = DiskView
    BY <2>2, ViewedAlways, ViewedNext, SMT DEF Viewed
  <2>4. UNCHANGED <<Running, DeviceView>>
    BY <2>1 DEF Running, DeviceView
  <2> QED BY <2>1, <2>3, <2>4, SMTT(30) DEF Disks!pdVars
<1> QED BY <1>1, <1>2, <1>3, <1>4, <1>5, <1>6, <1>7 DEF Next

(* The first state sees the original disk. *)
LEMMA DisksInit == Init => Disks!PDInit
<1> SUFFICES ASSUME Init PROVE Disks!PDInit
  OBVIOUS
<1>1. live = {1} /\ Running = 1 /\ devState[1] = 1 /\ devices = Blank /\ active = {1}
  BY DEF Init, Running
<1>2. DeviceView = [s \in State |-> Blank]
  BY <1>1 DEF DeviceView
<1>3. \A s \in State, i \in Sector : DiskView[s][i] = Blank
  <2> SUFFICES ASSUME NEW i \in Sector PROVE Stored(1, i) = Blank
    BY <1>1, ViewedAlways, SMT DEF Viewed
  <2>1. Ancestry
    BY InitDevInv, DevInvAncestry
  <2>2. Climbs
    BY <2>1, HolderClimbs
  <2>3. 1 \in Device /\ i \notin DOMAIN written[1] /\ parent[1] = NoDevice
    BY DeviceAssumption, SMT DEF Init, Device
  <2>4. Holder(1, i) = NoDevice
    BY <2>2, <2>3 DEF Climbs
  <2> QED BY <2>4 DEF Stored
<1>4. DiskView = [s \in State |-> [i \in Sector |-> Blank]]
  BY <1>3, ViewedAlways DEF Viewed
<1> QED BY <1>1, <1>2, <1>4, DisksConstants DEF Disks!PDInit

(* S2EDeviceState implements private disks and devices: through any tree   *)
(* of forks, branches, switches, merges and deaths, a path reads what it   *)
(* or the path it was forked from wrote, and nothing else.                 *)
THEOREM DevicesRefineDisks == Spec => DisksArePrivate
<1> QED BY DevInvAlways, DisksInit, DisksStep, PTL DEF Spec, DisksArePrivate, Disks!PDSpec
=============================================================================
