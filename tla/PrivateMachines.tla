-------------------------- MODULE PrivateMachines --------------------------
(***************************************************************************)
(* What S2E promises for every execution path: each S2EExecutionState is a *)
(* complete machine of its own (registers, CPU system state, RAM,          *)
(* devices).  One machine runs at a time, forking duplicates the running   *)
(* machine, and nothing a machine does is visible in another one.          *)
(***************************************************************************)
EXTENDS Naturals

CONSTANTS MaxStates,  \* states are numbered 1..MaxStates in order of creation
          Ram,        \* memory objects private to a state
          Shared,     \* objects kept in host memory while their state runs
          Dirty,      \* the dirty mask, one of Shared
          Value,
          Clean       \* initial contents; also a cleared dirty mask

State == 1..MaxStates
NoState == 0
Loc == Ram \cup Shared \cup {"regs", "sys", "dev"}
Blank == [l \in Loc |-> Clean]

VARIABLES live, running, vm

pmVars == <<live, running, vm>>

PMInit == /\ live = {1}
          /\ running = 1
          /\ vm = [s \in State |-> Blank]

(* The running machine changes one of its own locations. *)
Write(l, v) == /\ running \in live
               /\ vm' = [vm EXCEPT ![running][l] = v]
               /\ UNCHANGED <<live, running>>

(* The CPU system state of a stopped machine can be edited in place. *)
Poke(s, v) == /\ s \in live
              /\ vm' = [vm EXCEPT ![s]["sys"] = v]
              /\ UNCHANGED <<live, running>>

Fork(t) == /\ running \in live
           /\ t \in State \ live
           /\ live' = live \cup {t}
           /\ vm' = [vm EXCEPT ![t] = vm[running]]
           /\ UNCHANGED running

(* Another machine runs; the machines in gone cease to exist. *)
Schedule(t, gone) == /\ t \in live \ gone
                     /\ running' = t
                     /\ live' = live \ gone
                     /\ vm' = [s \in State |-> IF s \in gone THEN Blank ELSE vm[s]]

(* Machine a becomes the union of a and b: whichever of the two paths is   *)
(* the real one, registers and RAM have the contents of that path.         *)
Merge(a, b, path) ==
    /\ a \in live /\ b \in live
    /\ vm[a]["sys"] = vm[b]["sys"]
    /\ running' = IF running \in {a, b} THEN NoState ELSE running
    /\ vm' = [vm EXCEPT ![a] = [l \in Loc |->
                 IF l \in Ram \cup {"regs"} THEN vm[path][l]
                 ELSE IF l = Dirty /\ vm[a][l] # vm[b][l] THEN Clean
                 ELSE vm[a][l]]]
    /\ UNCHANGED live

(* An attempt to merge stops the machine that was running. *)
Stop == running' = NoState /\ UNCHANGED <<live, vm>>

PMNext == \/ \E l \in Loc, v \in Value : Write(l, v)
          \/ \E s \in State, v \in Value : Poke(s, v)
          \/ \E t \in State : Fork(t)
          \/ \E t \in State, gone \in SUBSET State : Schedule(t, gone)
          \/ \E a, b \in State : \E path \in {a, b} : Merge(a, b, path)
          \/ Stop

PMSpec == PMInit /\ [][PMNext]_pmVars
=============================================================================
