---------------------------- MODULE DeviceState ----------------------------
(***************************************************************************)
(* S2EDeviceState: the disk and the device snapshot of each execution      *)
(* state.  The sectors a path writes are kept in its device state, and a   *)
(* sector it did not write is looked up in the device states of its        *)
(* ancestors and then on the original disk.  Cloning leaves the old device *)
(* state behind as the common parent of two empty ones.                    *)
(*                                                                         *)
(* Sectors hold abstract values.  One block device is modelled, and the    *)
(* virtual devices with their snapshot are one value.                      *)
(***************************************************************************)
EXTENDS Naturals, Sequences

CONSTANTS MaxStates,    \* bound: execution states are 1..MaxStates
          LastSector,   \* the disk has the sectors 0..LastSector
          Value,
          Blank,        \* what the original disk and the devices start with
          Mortal,       \* bound: the states that get terminated
          None          \* no snapshot; a place of a buffer that was not filled

State == 1..MaxStates
Device == 1..(2 * MaxStates - 1)        \* a clone makes two
NoDevice == 0
Sector == 0..LastSector

ASSUME DeviceAssumption ==
    /\ MaxStates \in Nat \ {0} /\ LastSector \in Nat /\ Blank \in Value
    /\ None \notin Value

VARIABLES
    phase,     \* "run"; "fork" inside fork or branch; "select"
    cur,       \* g_s2e_state
    active,    \* states with m_active
    live,      \* allocated S2EExecutionStates
    nextId,    \* next state to be created
    pending,   \* clones made by the fork or branch in progress
    devState,  \* m_deviceState of each live state
    nextDev,   \* next S2EDeviceState to be allocated
    parent,    \* m_Parent of each device state
    written,   \* m_BlockDevices: the sectors written in each device state
    snapshot,  \* m_State of each device state
    devices    \* QEMU's own device state

control == <<phase, cur, active, live, nextId, pending>>
tree == <<devState, nextDev, parent>>
vars == <<control, tree, written, snapshot, devices>>

Init == /\ phase = "run" /\ cur = 1 /\ active = {1}
        /\ live = {1} /\ nextId = 2 /\ pending = {}
        /\ devState = [s \in live |-> 1]
        /\ nextDev = 2
        /\ parent = [d \in Device |-> NoDevice]
        /\ written = [d \in Device |-> [i \in {} |-> Blank]]
        /\ snapshot = [d \in Device |-> None]
        /\ devices = Blank
-----------------------------------------------------------------------------
(* Mutant: the search stops at the parent. *)
M_Holder(d, i) ==
    IF i \in DOMAIN written[d] THEN d
    ELSE IF parent[d] # NoDevice /\ i \in DOMAIN written[parent[d]] THEN parent[d] ELSE NoDevice

(* The inner loop of readSector: the nearest device state that has sector  *)
(* i, from d on through the parents.                                       *)
Holder(d, i) ==
    LET find[n \in Device \cup {NoDevice}] ==
            IF n = NoDevice \/ i \in DOMAIN written[n] THEN n ELSE find[parent[n]]
    IN find[d]

(* readSector: the buffer after a read of n sectors.  at is the place that *)
(* buf points to, and hasRead is never reset once a sector was found.      *)
ReadSector(d, first, n) ==
    LET fill(r, v, found) == [buf |-> [r.buf EXCEPT ![r.at] = v], at |-> r.at + 1, hasRead |-> found]
        after[k \in 0..n] ==
            IF k = 0 THEN [buf |-> [j \in 1..n |-> None], at |-> 1, hasRead |-> FALSE]
            ELSE LET r == after[k - 1]
                     i == first + k - 1
                     h == Holder(d, i)
                 IN IF h # NoDevice THEN fill(r, written[h][i], TRUE)
                    ELSE IF ~r.hasRead THEN fill(r, Blank, FALSE)
                    ELSE r
    IN after[n].buf

(* Mutant: one sector too many is written. *)
M_Overwrite(old, first, data) ==
    [i \in DOMAIN old \cup first..(first + Len(data)) |->
        IF i \in first..(first + Len(data) - 1) THEN data[i - first + 1] ELSE Blank]

(* The loop of writeSector. *)
Overwrite(old, first, data) ==
    [i \in DOMAIN old \cup first..(first + Len(data) - 1) |->
        IF i >= first /\ i < first + Len(data) THEN data[i - first + 1] ELSE old[i]]

(* writeSector of the running state, from s2e_bdrv_write or _aio_write. *)
WriteSector(first, data) ==
    LET d == devState[cur]
    IN /\ phase = "run"
       /\ written' = [written EXCEPT ![d] = Overwrite(@, first, data)]
       /\ UNCHANGED <<control, tree, snapshot, devices>>

DeviceStep(v) == /\ phase = "run"
                 /\ devices' = v
                 /\ UNCHANGED <<control, tree, written, snapshot>>
-----------------------------------------------------------------------------
(* Mutant: both states get the same copy. *)
M_OneCopy(e) == <<nextDev, nextDev>>

(* clone: the new device states of the state e and of its clone. *)
Copies(e) == <<nextDev, nextDev + 1>>

(* S2EExecutionState::clone of e. *)
Clone(e) ==
    /\ phase \in {"run", "fork"} /\ e \in {cur} \cup pending
    /\ nextId \in State
    /\ phase' = "fork"
    /\ nextId' = nextId + 1 /\ nextDev' = nextDev + 2
    /\ live' = live \cup {nextId} /\ active' = active \cup {nextId}
    /\ pending' = pending \cup {nextId}
    /\ parent' = [d \in Device |-> IF d \in {nextDev, nextDev + 1} THEN devState[e] ELSE parent[d]]
    /\ devState' = [s \in live' |-> IF s = e THEN Copies(e)[1]
                                    ELSE IF s = nextId THEN Copies(e)[2] ELSE devState[s]]
    /\ UNCHANGED <<cur, written, snapshot, devices>>

(* Mutant: the snapshot is also stored in the common parent. *)
M_SaveDeviceState(S) ==
    [d \in Device |-> IF \E s \in S : d \in {devState[s], parent[devState[s]]}
                      THEN devices ELSE snapshot[d]]

(* saveDeviceState for the states in S. *)
SaveDeviceState(S) ==
    [d \in Device |-> IF \E s \in S : devState[s] = d THEN devices ELSE snapshot[d]]

(* Mutant: the states made by the fork are stopped but not saved. *)
M_DoStateFork ==
    /\ phase = "fork"
    /\ phase' = "run"
    /\ pending' = {} /\ active' = active \ pending
    /\ UNCHANGED <<cur, live, nextId, tree, written, snapshot, devices>>

DoStateFork ==
    /\ phase = "fork"
    /\ phase' = "run"
    /\ pending' = {} /\ active' = active \ pending
    /\ snapshot' = SaveDeviceState(pending)
    /\ UNCHANGED <<cur, live, nextId, tree, written, devices>>
-----------------------------------------------------------------------------
EnterSelect == /\ phase = "run"
               /\ phase' = "select"
               /\ UNCHANGED <<cur, active, live, nextId, pending, tree, written, snapshot, devices>>

(* S2EExecutor::merge stops the current state when it is one of the two.   *)
(* The disk and the devices take no part in the merge itself.              *)
Merge == /\ phase = "select" /\ cur \in active /\ live # {cur}
         /\ active' = active \ {cur}
         /\ snapshot' = SaveDeviceState({cur})
         /\ UNCHANGED <<phase, cur, live, nextId, pending, tree, written, devices>>

(* selectNextState runs t; gone are the states terminated meanwhile.  Their *)
(* device states are never freed, since others may refer to them.          *)
SelectNextState(t, gone) ==
    LET S == IF t = cur THEN {} ELSE {cur} \cap active
    IN /\ phase = "select" /\ t \in live \ gone
       /\ phase' = "run" /\ cur' = t /\ active' = {t}
       /\ live' = live \ gone
       /\ devState' = [s \in live \ gone |-> devState[s]]
       /\ snapshot' = SaveDeviceState(S)
       /\ devices' = IF t \in active THEN devices ELSE snapshot[devState[t]]
       /\ UNCHANGED <<nextId, pending, nextDev, parent, written>>

Next == \/ \E first \in Sector : \E n \in 1..(LastSector - first + 1) :
              \E data \in [1..n -> Value] : WriteSector(first, data)
        \/ \E v \in Value : DeviceStep(v)
        \/ \E e \in live : Clone(e)
        \/ DoStateFork
        \/ EnterSelect \/ Merge
        \/ \E t \in live : \E gone \in SUBSET (live \cap Mortal) : SelectNextState(t, gone)

Spec == Init /\ [][Next]_vars
-----------------------------------------------------------------------------
TypeOK == /\ phase \in {"run", "fork", "select"}
          /\ live \subseteq State /\ cur \in live /\ pending \subseteq live
          /\ active \subseteq {cur} \cup pending /\ nextId \in 2..(MaxStates + 1)
          /\ devState \in [live -> Device] /\ nextDev = 2 * nextId - 2
          /\ parent \in [Device -> Device \cup {NoDevice}]
          /\ \A d \in Device : DOMAIN written[d] \subseteq Sector
          /\ \A d \in Device : snapshot[d] \in Value \cup {None}
          /\ devices \in Value

(* Device states refer to each other (the reason given in the destructor   *)
(* of S2EExecutionState for never deleting them): the one a state writes   *)
(* to is its alone, and nobody's ancestor.                                 *)
LeavesAreOwn ==
    /\ \A s, t \in live : s # t => devState[s] # devState[t]
    /\ \A s \in live, d \in Device : parent[d] # devState[s]

(* What a path had written when it forked is never changed afterwards: a   *)
(* device state that has been cloned is frozen.                            *)
FrozenAfterClone ==
    [][\A d, e \in Device : parent[e] = d =>
          written'[d] = written[d] /\ snapshot'[d] = snapshot[d]]_vars

(* The asserts of restoreDeviceState: a state that is not active has a     *)
(* snapshot, although clone leaves both states without one.                *)
SnapshotPresent == \A s \in live \ active : snapshot[devState[s]] # None

(* What a path sees: nothing runs while the current state is stopped; a    *)
(* disk sector by sector; the devices of QEMU or those of the snapshot.    *)
Running == IF cur \in active THEN cur ELSE 0
DiskView == [s \in State |-> [i \in Sector |->
                IF s \in live THEN ReadSector(devState[s], i, 1)[1] ELSE Blank]]
DeviceView == [s \in State |-> IF s \notin live THEN Blank
                               ELSE IF s \in active THEN devices ELSE snapshot[devState[s]]]

Disks == INSTANCE PrivateDisks WITH running <- Running, disk <- DiskView, dev <- DeviceView

(* Reading sector by sector, every path sees a disk and devices of its own, *)
(* through forks, branches, switches, merges and deaths of other paths.    *)
DisksArePrivate == Disks!PDSpec

(* "Did not find any written sector, read from the original disk"          *)
(* (S2EDeviceState.cpp, line 365): reading several sectors at once gives   *)
(* what reading them one by one gives.                                     *)
ReadsAgree ==
    \A s \in live, first \in Sector : \A n \in 1..(LastSector - first + 1) :
        ReadSector(devState[s], first, n) =
            [k \in 1..n |-> ReadSector(devState[s], first + k - 1, 1)[1]]
=============================================================================
