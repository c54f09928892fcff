---------------------------- MODULE PrivateDisks ----------------------------
(***************************************************************************)
(* What S2EDeviceState promises: every execution state has a disk and a    *)
(* set of devices of its own.  Only the running state changes them, and a  *)
(* fork duplicates them.                                                   *)
(***************************************************************************)
EXTENDS Naturals, Sequences

CONSTANTS MaxStates, LastSector, Value, Blank

State == 1..MaxStates
Sector == 0..LastSector
NoState == 0
BlankDisk == [i \in Sector |-> Blank]

VARIABLES live, running, disk, dev

pdVars == <<live, running, disk, dev>>

PDInit == /\ live = {1} /\ running = 1
          /\ disk = [s \in State |-> BlankDisk]
          /\ dev = [s \in State |-> Blank]

Write(first, data) ==
    /\ running \in live
    /\ disk' = [disk EXCEPT ![running] = [i \in Sector |->
                   IF i \in first..(first + Len(data) - 1) THEN data[i - first + 1] ELSE @[i]]]
    /\ UNCHANGED <<live, running, dev>>

DeviceStep(v) == /\ running \in live
                 /\ dev' = [dev EXCEPT ![running] = v]
                 /\ UNCHANGED <<live, running, disk>>

(* e is the running state or one that a branch in progress made of it. *)
Fork(e, t) == /\ e \in live /\ t \in State \ live
              /\ live' = live \cup {t}
              /\ disk' = [disk EXCEPT ![t] = disk[e]]
              /\ dev' = [dev EXCEPT ![t] = dev[e]]
              /\ UNCHANGED running

Schedule(t, gone) ==
    /\ t \in live \ gone
    /\ running' = t /\ live' = live \ gone
    /\ disk' = [s \in State |-> IF s \in gone THEN BlankDisk ELSE disk[s]]
    /\ dev' = [s \in State |-> IF s \in gone THEN Blank ELSE dev[s]]

Stop == running' = NoState /\ UNCHANGED <<live, disk, dev>>

PDNext == \/ \E first \in Sector : \E n \in 1..(LastSector - first + 1) :
                \E data \in [1..n -> Value] : Write(first, data)
          \/ \E v \in Value : DeviceStep(v)
          \/ \E e, t \in State : Fork(e, t)
          \/ \E t \in State, gone \in SUBSET State : Schedule(t, gone)
          \/ Stop

PDSpec == PDInit /\ [][PDNext]_pdVars
=============================================================================
