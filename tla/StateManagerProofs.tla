------------------------- MODULE StateManagerProofs -------------------------
(***************************************************************************)
(* The asserts of StateManager hold for any number of processes and paths: *)
(* the counts in shared memory are right, overlapping kills agree on the   *)
(* node that keeps a path, that node exists, no process drops a kill, and  *)
(* without timeouts the kills always leave a path.                         *)
(*                                                                         *)
(* First, what the operations do to the world of the process that calls    *)
(* them, and that the callbacks made of them keep the invariant and execute*)
(* the commands they remove.                                               *)
(***************************************************************************)
EXTENDS StateManager, FiniteSetTheorems, WellFoundedInduction, TLAPS

(* Zenon is the prover of a step unless it names another: SMT has those    *)
(* that need arithmetic or the extensionality of sets and records.         *)
USE Zenon

(* A set of numbers has a least one. *)
LEMMA LeastExists ==
    ASSUME NEW B \in SUBSET Nat, B # {}
    PROVE  \E k \in B : \A m \in B : k <= m
<1>1. PICK k \in B : \A m \in B : ~(<<m, k>> \in OpToRel(<, Nat))
  BY NatLessThanWellFounded, WFMin
<1>2. \A m \in B : ~(m < k)
  BY <1>1 DEF OpToRel
<1> QED BY <1>2, SMT

(* Slots, and the marks that are no slot. *)
LEMMA SlotFacts ==
    /\ MaxProcesses \in Nat \ {0}
    /\ \A p \in Slot : p \in Nat /\ p # None /\ p # Everything /\ p # Empty
    /\ Slot \subseteq 0..None /\ 0..None \subseteq 0..Empty /\ Empty \in 0..Empty
    /\ None \in 0..None /\ Everything \in 0..Empty /\ Everything # Empty
BY ManagerAssumption, SMT DEF Slot, None, Everything, Empty
-----------------------------------------------------------------------------
(* A slot without a StateManager has no succeeded paths to offer. *)
NoneOffered == \A p \in Slot \ Managed : successCount[p] = 0

Shape(w) ==
    w = [active |-> w.active, states |-> w.states, succeeded |-> w.succeeded,
         current |-> w.current, count |-> w.count, cmd |-> w.cmd,
         keep |-> w.keep, thrown |-> w.thrown]

(* A world with the right types, whose count is right. *)
WorldOK(w) ==
    /\ Shape(w)
    /\ w.active \in Nat /\ w.succeeded \in Nat /\ w.count = w.succeeded
    /\ w.current \in {"active", "succeeded", "gone"}
    /\ w.cmd \in [Slot -> 0..Empty] /\ w.keep \in 0..None

(* Its commands agree with the node that keeps a path, which exists. *)
Agreed(w) == /\ \A q \in Managed : w.cmd[q] = q => w.keep = q
             /\ w.keep # None => w.keep \in Managed

LEMMA KillAllOK ==
    ASSUME NEW w, WorldOK(w), NEW v, v = KillAll(w)
    PROVE  /\ WorldOK(v) /\ v.active = 0 /\ v.succeeded = w.succeeded
           /\ v.cmd = w.cmd /\ v.keep = w.keep
<1>1. v = [w EXCEPT !.active = 0, !.thrown = (w.current = "active"),
                    !.current = IF w.current = "active" THEN "gone" ELSE w.current]
  BY DEF KillAll, WorldOK, Shape
<1>2. /\ v.active = 0 /\ v.states = w.states /\ v.succeeded = w.succeeded /\ v.count = w.count
      /\ v.cmd = w.cmd /\ v.keep = w.keep
      /\ v.current = IF w.current = "active" THEN "gone" ELSE w.current
  BY <1>1 DEF WorldOK, Shape
<1>3. Shape(v)
  BY <1>1 DEF WorldOK, Shape
<1> QED BY <1>2, <1>3, SMT DEF WorldOK

LEMMA ResumeSucceededOK ==
    ASSUME NEW w, WorldOK(w), NEW v, v = ResumeSucceeded(w)
    PROVE  /\ WorldOK(v) /\ v.succeeded = 0
           /\ v.cmd = w.cmd /\ v.keep = w.keep
<1>1. v = [w EXCEPT !.active = w.active + w.succeeded, !.states = w.states + w.succeeded,
                    !.succeeded = 0, !.count = 0,
                    !.current = IF w.current = "succeeded" THEN "active" ELSE w.current]
  BY DEF ResumeSucceeded, WorldOK, Shape
<1>2. /\ v.active = w.active + w.succeeded /\ v.succeeded = 0 /\ v.count = 0
      /\ v.cmd = w.cmd /\ v.keep = w.keep
      /\ v.current = IF w.current = "succeeded" THEN "active" ELSE w.current
  BY <1>1 DEF WorldOK, Shape
<1>3. Shape(v)
  BY <1>1 DEF WorldOK, Shape
<1> QED BY <1>2, <1>3, SMT DEF WorldOK

LEMMA KeepActive ==
    ASSUME NEW w, WorldOK(w), NEW v, v = [w EXCEPT !.active = 1]
    PROVE  /\ WorldOK(v) /\ v.active = 1 /\ v.succeeded = w.succeeded
           /\ v.cmd = w.cmd /\ v.keep = w.keep
BY DEF WorldOK, Shape

LEMMA KillButOneLocalOK ==
    ASSUME NEW w, WorldOK(w), NEW v \in KillAllButOneSuccessfulLocal(w)
    PROVE  /\ WorldOK(v) /\ v.active = 1 /\ v.succeeded = 0
           /\ v.cmd = w.cmd /\ v.keep = w.keep
<1> PICK r : r = ResumeSucceeded(w)
  OBVIOUS
<1> PICK k : k = KillAll(r)
  OBVIOUS
<1>1. WorldOK(r) /\ r.succeeded = 0 /\ r.cmd = w.cmd /\ r.keep = w.keep
  BY ResumeSucceededOK
<1>2. WorldOK(k) /\ k.succeeded = 0 /\ k.cmd = w.cmd /\ k.keep = w.keep
  BY <1>1, KillAllOK, SMT
<1>3. v = [r EXCEPT !.active = 1] \/ v = [k EXCEPT !.active = 1]
  BY DEF KillAllButOneSuccessfulLocal
<1>4. CASE v = [r EXCEPT !.active = 1]
  BY <1>1, <1>4, KeepActive, SMT
<1>5. CASE v = [k EXCEPT !.active = 1]
  BY <1>2, <1>5, KeepActive, SMT
<1> QED BY <1>3, <1>4, <1>5

Command == 0..Empty

LEMMA SendKillOK ==
    ASSUME NEW p \in Slot, NEW w, WorldOK(w), NEW node \in Command,
           NEW v, v = SendKillToAllInstances(p, w, node)
    PROVE  /\ WorldOK(v) /\ v.succeeded = w.succeeded /\ v.active = w.active /\ v.keep = w.keep
           /\ \A q \in Slot : v.cmd[q] = IF q = p THEN w.cmd[q] ELSE node
<1>1. v = [w EXCEPT !.cmd = [q \in Slot |-> IF q = p THEN w.cmd[q] ELSE node]]
  BY DEF SendKillToAllInstances, WorldOK, Shape
<1> QED BY <1>1, SMT DEF WorldOK, Shape, Command

(* processCommands leaves the commands of others alone. *)
LEMMA ProcessCommandsOK ==
    ASSUME NEW p \in Managed, NEW w, WorldOK(w), Agreed(w), NEW v \in ProcessCommands(p, w)
    PROVE  /\ WorldOK(v) /\ Agreed(v) /\ v.cmd[p] = Empty
           /\ \A q \in Slot \ {p} : v.cmd[q] = w.cmd[q]
           /\ w.cmd[p] = Empty => v = w
           /\ w.cmd[p] = p /\ w.succeeded > 0 => v.active = 1 /\ v.succeeded = 0 /\ v.keep = None
           /\ w.cmd[p] \notin {p, Empty} => v.active = 0 /\ v.succeeded = 0
<1> p \in Slot
  BY DEF Managed
<1> PICK t : t = [w EXCEPT !.cmd = [w.cmd EXCEPT ![p] = Empty]]
  OBVIOUS
<1> PICK h : h = [t EXCEPT !.keep = None]
  OBVIOUS
<1>1. /\ WorldOK(t) /\ t.cmd = [w.cmd EXCEPT ![p] = Empty]
      /\ t.keep = w.keep /\ t.succeeded = w.succeeded
  BY SlotFacts DEF WorldOK, Shape
<1>2. WorldOK(h) /\ h.cmd = t.cmd /\ h.keep = None /\ h.succeeded = w.succeeded
  BY <1>1, SlotFacts DEF WorldOK, Shape
<1>3. /\ w.cmd[p] = Empty => v = w
      /\ w.cmd[p] = p /\ w.succeeded > 0 => v \in KillAllButOneSuccessfulLocal(h)
      /\ w.cmd[p] = p /\ ~(w.succeeded > 0) => v = h
      /\ w.cmd[p] # Empty /\ w.cmd[p] # p => v = KillAll(ResumeSucceeded(t))
  BY SlotFacts DEF ProcessCommands, WorldOK, Shape
<1>4. \A q \in Slot : t.cmd[q] = IF q = p THEN Empty ELSE w.cmd[q]
  BY <1>1, SMT DEF WorldOK
<1>5. Agreed(t)
  BY <1>1, <1>4, SlotFacts, SMT DEF Agreed, Managed
<1>6. w.cmd[p] = p => Agreed(h)
  BY <1>1, <1>2, <1>4, SlotFacts, SMT DEF Agreed, Managed
<1>7. CASE w.cmd[p] = Empty
  BY <1>3, <1>7, SlotFacts
<1>8. CASE w.cmd[p] = p /\ w.succeeded > 0
  <2>1. WorldOK(v) /\ v.active = 1 /\ v.succeeded = 0 /\ v.cmd = h.cmd /\ v.keep = h.keep
    BY <1>2, <1>3, <1>8, KillButOneLocalOK, ZenonT(30)
  <2>2. Agreed(v)
    BY <1>6, <1>8, <2>1 DEF Agreed
  <2> QED BY <1>2, <1>4, <1>8, <2>1, <2>2, SlotFacts, SMT
<1>9. CASE w.cmd[p] = p /\ ~(w.succeeded > 0)
  <2>1. w.succeeded = 0
    BY <1>9, SMT DEF WorldOK
  <2> QED BY <1>2, <1>3, <1>4, <1>6, <1>9, <2>1, SlotFacts, ZenonT(30)
<1>10. CASE w.cmd[p] # Empty /\ w.cmd[p] # p
  <2> PICK r : r = ResumeSucceeded(t)
    OBVIOUS
  <2>1. WorldOK(r) /\ r.succeeded = 0 /\ r.cmd = t.cmd /\ r.keep = t.keep
    BY <1>1, ResumeSucceededOK, ZenonT(30)
  <2>2. v = KillAll(r)
    BY <1>3, <1>10
  <2>3. WorldOK(v) /\ v.active = 0 /\ v.succeeded = 0 /\ v.cmd = t.cmd /\ v.keep = t.keep
    BY <2>1, <2>2, KillAllOK, SMT
  <2>4. Agreed(v)
    BY <1>5, <2>3 DEF Agreed
  <2> QED BY <1>4, <1>10, <2>3, <2>4
<1> QED BY <1>7, <1>8, <1>9, <1>10

(* The node that is chosen is one that is recorded, or one that offers a   *)
(* succeeded path.                                                         *)
LEMMA ChosenNodeOK ==
    ASSUME NoneOffered, TypeOK, NEW p \in Managed, NEW w, WorldOK(w), Agreed(w)
    PROVE  LET node == ChosenNode(p, w)
           IN /\ node # None => node \in Managed
              /\ w.keep # None /\ w.succeeded > 0 => node = w.keep
              /\ node = p => w.succeeded > 0
<1> PICK node : node = ChosenNode(p, w)
  OBVIOUS
<1> DEFINE has(q) == (IF q = p THEN w.count ELSE successCount[q]) > 0
           nodes == {q \in HasSlot : has(q)}
<1>1. CASE w.keep # None /\ w.succeeded > 0
  BY <1>1 DEF ChosenNode, Agreed
<1>2. CASE ~(w.keep # None /\ w.succeeded > 0) /\ nodes = {}
  <2>1. node = None
    BY <1>2 DEF ChosenNode
  <2> QED BY <1>2, <2>1, SlotFacts DEF Managed
<1>3. CASE ~(w.keep # None /\ w.succeeded > 0) /\ nodes # {}
  <2>1. node = CHOOSE q \in nodes : \A r \in nodes : q <= r
    BY <1>3 DEF ChosenNode
  <2>2. nodes \in SUBSET Nat
    BY SlotFacts DEF HasSlot
  <2>3. \E q \in nodes : \A r \in nodes : q <= r
    BY <1>3, <2>2, LeastExists
  <2>4. node \in nodes
    BY <2>1, <2>3
  <2>5. node = p => w.succeeded > 0
    BY <2>4 DEF WorldOK
  <2>6. node # p => successCount[node] > 0 /\ node \in Slot
    BY <2>4 DEF HasSlot
  <2>7. node \in Managed
    BY <2>6, SMT DEF NoneOffered, TypeOK
  <2> QED BY <1>3, <2>5, <2>7
<1> QED BY <1>1, <1>2, <1>3

(* A kill that p sends agrees, provided that p is not told itself to keep  *)
(* a path that it does not have.                                           *)
LEMMA KillAllButOneOK ==
    ASSUME NoneOffered, TypeOK, NEW p \in Managed, NEW w, WorldOK(w), Agreed(w),
           w.cmd[p] = p => w.succeeded > 0,
           NEW v \in KillAllButOneSuccessful(p, w)
    PROVE  /\ WorldOK(v) /\ Agreed(v) /\ v.cmd[p] = w.cmd[p]
           /\ \A q \in Slot : v.cmd[q] = Empty => w.cmd[q] = Empty
           /\ w.succeeded = 0 => v = w \/ v.active = 0
           /\ w.succeeded = 0 => v.succeeded = 0
<1> p \in Slot
  BY DEF Managed
<1> PICK node : node = ChosenNode(p, w)
  OBVIOUS
<1>1. /\ node # None => node \in Managed
      /\ w.keep # None /\ w.succeeded > 0 => node = w.keep
      /\ node = p => w.succeeded > 0
  BY ChosenNodeOK
<1>2. /\ node = None => v = w
      /\ node = p => v \in KillAllButOneSuccessfulLocal(SendKillToAllInstances(p, w, Everything))
      /\ node # None /\ node # p =>
            v = KillAll(SendKillToAllInstances(p, [w EXCEPT !.keep = node], node))
  BY SlotFacts DEF KillAllButOneSuccessful
<1>3. CASE node = None
  BY <1>2, <1>3
<1>4. CASE node = p
  <2> PICK s : s = SendKillToAllInstances(p, w, Everything)
    OBVIOUS
  <2>1. /\ WorldOK(s) /\ s.keep = w.keep
        /\ \A q \in Slot : s.cmd[q] = IF q = p THEN w.cmd[q] ELSE Everything
    <3>1. Everything \in Command
      BY SlotFacts DEF Command
    <3> QED BY <3>1, SendKillOK, SMT
  <2>2. WorldOK(v) /\ v.succeeded = 0 /\ v.cmd = s.cmd /\ v.keep = s.keep
    BY <1>2, <1>4, <2>1, KillButOneLocalOK
  <2>3. Agreed(v)
    BY <2>1, <2>2, SlotFacts, SMT DEF Agreed, Managed
  <2>4. w.succeeded # 0
    BY <1>1, <1>4, SMT
  <2> QED BY <2>1, <2>2, <2>3, <2>4, SlotFacts
<1>5. CASE node # None /\ node # p
  <2>k. PICK k : k = [w EXCEPT !.keep = node]
    OBVIOUS
  <2>s. PICK s : s = SendKillToAllInstances(p, k, node)
    OBVIOUS
  <2>0. node \in Managed /\ node \in 0..None /\ node \in Command
    BY <1>1, <1>5, SlotFacts DEF Managed, Command
  <2>1. WorldOK(k) /\ k.keep = node /\ k.cmd = w.cmd /\ k.succeeded = w.succeeded
    BY <2>0, <2>k DEF WorldOK, Shape
  <2>2. /\ WorldOK(s) /\ s.keep = node /\ s.succeeded = w.succeeded
        /\ \A q \in Slot : s.cmd[q] = IF q = p THEN w.cmd[q] ELSE node
    <3>1. /\ WorldOK(s) /\ s.keep = k.keep /\ s.succeeded = k.succeeded
          /\ \A q \in Slot : s.cmd[q] = IF q = p THEN k.cmd[q] ELSE node
      <4>1. WorldOK(k) /\ node \in Command
        BY <2>0, <2>1
      <4> QED BY <4>1, <2>s, SendKillOK, SMTT(30)
    <3> QED BY <2>1, <3>1
  <2>3. v = KillAll(s)
    BY <1>2, <1>5, <2>k, <2>s
  <2>4. WorldOK(v) /\ v.active = 0 /\ v.succeeded = w.succeeded /\ v.cmd = s.cmd /\ v.keep = node
    BY <2>2, <2>3, KillAllOK, SMT
  <2>5. w.cmd[p] # p
    <3> SUFFICES ASSUME w.cmd[p] = p PROVE FALSE
      OBVIOUS
    <3>1. w.keep = p
      BY DEF Agreed
    <3> QED BY <1>1, <1>5, <3>1, SlotFacts
  <2>6. Agreed(v)
    BY <2>0, <2>2, <2>4, <2>5, SlotFacts, SMTT(30) DEF Agreed, Managed
  <2>7. node # Empty
    BY <2>0, SlotFacts DEF Managed
  <2> QED BY <2>2, <2>4, <2>6, <2>7
<1> QED BY <1>3, <1>4, <1>5
-----------------------------------------------------------------------------
Forking == {p \in Slot : pc[p] = "fork"}

(* Processes and children have been counted, in S2E::fork and ~S2E. *)
Counted == /\ IsFiniteSet(unborn)
           /\ count >= Cardinality(HasSlot) + Cardinality(unborn) + Cardinality(Forking)

(* What is known of a process from where it is. *)
Placed == /\ \A p \in Slot :
                /\ pc[p] = "run" => active[p] >= 1
                /\ pc[p] = "fork" => active[p] >= 2
                /\ pc[p] = "born" /\ current[p] = "active" => active[p] >= 1
                /\ pc[p] \in {"suspend", "wait"} => succeeded[p] > 0
          /\ \A u \in unborn : u.current => u.active >= 1

Inv == /\ TypeOK /\ Counted /\ Placed
       /\ SuccessCountMirrors /\ NoneOffered /\ KillsAgree /\ KeeperExists
-----------------------------------------------------------------------------
LEMMA SlotsFinite ==
    /\ IsFiniteSet(Slot) /\ Cardinality(Slot) = MaxProcesses
    /\ IsFiniteSet(HasSlot) /\ IsFiniteSet(Forking)
    /\ Cardinality(HasSlot) \in Nat /\ Cardinality(Forking) \in Nat
<1>1. 0 \in Int /\ MaxProcesses - 1 \in Int
  BY ManagerAssumption, SMT
<1>2. IsFiniteSet(Slot) /\ Cardinality(Slot) = MaxProcesses
  BY <1>1, FS_Interval, ManagerAssumption, SMT DEF Slot
<1>3. HasSlot \subseteq Slot /\ Forking \subseteq Slot
  BY DEF HasSlot, Forking
<1>4. IsFiniteSet(HasSlot) /\ IsFiniteSet(Forking)
  BY <1>2, <1>3, FS_Subset
<1> QED BY <1>2, <1>4, FS_CardinalityType

(* The world that a process starts from. *)
LEMMA WorldIsOK ==
    ASSUME Inv, NEW p \in Managed, NEW w, w = World(p)
    PROVE  /\ WorldOK(w) /\ Agreed(w)
           /\ w.cmd = commands /\ w.succeeded = succeeded[p] /\ w.active = active[p]
<1>1. /\ w.active = active[p] /\ w.succeeded = succeeded[p] /\ w.count = successCount[p]
      /\ w.current = current[p] /\ w.cmd = commands /\ w.keep = keepOneStateOnNode
  BY DEF World
<1>2. Shape(w)
  BY DEF World, Shape
<1>3. WorldOK(w)
  BY <1>1, <1>2 DEF WorldOK, Inv, TypeOK, SuccessCountMirrors, Managed
<1>4. Agreed(w)
  BY <1>1 DEF Agreed, Inv, KillsAgree, KeeperExists
<1> QED BY <1>1, <1>3, <1>4
-----------------------------------------------------------------------------
(* What a step owes to the commands it removes. *)
Executed(p) ==
    LET kept == IF commands[p] = p /\ succeeded[p] > 0 THEN 1 ELSE 0
    IN \/ active'[p] <= kept /\ succeeded'[p] = 0
       \/ commands[p] = p /\ succeeded[p] = 0

Removed(p) == commands[p] # Empty /\ commands'[p] = Empty /\ pc[p] # "born"

(* A callback of p that executed its command, and then may have sent a     *)
(* kill of its own.                                                        *)
LEMMA CommandExecuted ==
    ASSUME Inv, NEW p \in Managed, NEW w0, w0 = World(p), NEW w \in ProcessCommands(p, w0),
           NEW v, \/ v = w
                  \/ v \in KillAllButOneSuccessful(p, w),
           WriteBack(p, v), NEW q \in Slot, Removed(q)
    PROVE  Executed(q)
<1>0. p \in Slot /\ TypeOK
  BY SMTT(30) DEF Managed, Inv
<1>1. /\ WorldOK(w0) /\ Agreed(w0) /\ w0.cmd = commands
      /\ w0.succeeded = succeeded[p] /\ w0.active = active[p]
  BY WorldIsOK, SMTT(30)
<1>2. /\ WorldOK(w) /\ Agreed(w) /\ w.cmd[p] = Empty
      /\ \A r \in Slot \ {p} : w.cmd[r] = commands[r]
      /\ commands[p] = p /\ succeeded[p] > 0 => w.active = 1 /\ w.succeeded = 0
      /\ commands[p] \notin {p, Empty} => w.active = 0 /\ w.succeeded = 0
  BY <1>1, ProcessCommandsOK, SMTT(30)
<1>3. /\ \A r \in Slot : v.cmd[r] = Empty => w.cmd[r] = Empty
      /\ w.succeeded = 0 => v.succeeded = 0 /\ (v.active = w.active \/ v.active = 0)
  <2>1. CASE v = w
    BY <2>1
  <2>2. CASE v \in KillAllButOneSuccessful(p, w)
    <3>1. w.cmd[p] # p
      BY <1>0, <1>2, SlotFacts, SMTT(30)
    <3>2. /\ \A r \in Slot : v.cmd[r] = Empty => w.cmd[r] = Empty
          /\ w.succeeded = 0 => v = w \/ v.active = 0
          /\ w.succeeded = 0 => v.succeeded = 0
      BY <1>2, <2>2, <3>1, KillAllButOneOK, SMTT(30) DEF Inv
    <3> QED BY <3>2, SMTT(30)
  <2> QED BY <2>1, <2>2
<1>4. commands' = v.cmd /\ active'[p] = v.active /\ succeeded'[p] = v.succeeded
  BY <1>0, SMTT(30) DEF WriteBack, TypeOK
<1>5. q = p
  BY <1>2, <1>3, <1>4, SMTT(30) DEF Removed
<1>6. CASE commands[p] = p /\ succeeded[p] > 0
  BY <1>2, <1>3, <1>4, <1>5, <1>6, SMTT(30) DEF Executed
<1>7. CASE commands[p] = p /\ ~(succeeded[p] > 0)
  <2>1. succeeded[p] = 0
    BY <1>0, <1>7, SMTT(30) DEF TypeOK
  <2> QED BY <1>5, <1>7, <2>1, SMTT(30) DEF Executed
<1>8. CASE commands[p] # p
  <2>1. active'[p] = 0 /\ succeeded'[p] = 0
    BY <1>2, <1>3, <1>4, <1>5, <1>8 DEF Removed
  <2> QED BY <1>5, <1>8, <2>1, SMTT(30) DEF Executed
<1> QED BY <1>6, <1>7, <1>8
-----------------------------------------------------------------------------
(* The counts after a step that moves p between places other than "free"   *)
(* and "fork".                                                             *)
LEMMA CountedStays ==
    ASSUME TypeOK, Counted, NEW p \in Slot, pc[p] \notin {"free", "fork"},
           NEW to \in Stage \ {"free", "fork"}, pc' = [pc EXCEPT ![p] = to],
           UNCHANGED <<count, unborn>>
    PROVE  Counted'
<1>1. HasSlot' = HasSlot /\ Forking' = Forking
  BY DEF HasSlot, Forking, TypeOK
<1> QED BY <1>1 DEF Counted

(* A step of p that ends a callback in the world v. *)
LEMMA CallbackStep ==
    ASSUME Inv, NEW p \in Managed, pc[p] # "fork", NEW v, WorldOK(v), Agreed(v),
           WriteBack(p, v), NEW to \in Stage \ {"free", "fork", "born", "exiting"},
           pc' = [pc EXCEPT ![p] = to],
           NEW c \in {"active", "succeeded", "gone"}, current' = [current EXCEPT ![p] = c],
           to = "run" => v.active >= 1, to \in {"suspend", "wait"} => v.succeeded > 0,
           suspendedProcesses' \in [Slot -> BOOLEAN], stale' \in BOOLEAN,
           UNCHANGED <<count, unborn, forks>>
    PROVE  Inv'
<1>0. p \in Slot /\ pc[p] \notin {"free", "fork", "born", "exiting"}
  BY DEF Managed
<1>1. /\ active' = [active EXCEPT ![p] = v.active]
      /\ succeeded' = [succeeded EXCEPT ![p] = v.succeeded]
      /\ successCount' = [successCount EXCEPT ![p] = v.succeeded]
      /\ commands' = v.cmd /\ keepOneStateOnNode' = v.keep
  BY DEF WriteBack, WorldOK
<1>2. TypeOK'
  BY <1>0, <1>1 DEF Inv, TypeOK, WorldOK
<1>3. Counted'
  BY <1>0, CountedStays DEF Inv
<1>4. Managed' = Managed
  BY <1>0 DEF Managed, Inv, TypeOK
<1>5. Placed'
  BY <1>0, <1>1 DEF Inv, Placed, TypeOK
<1>6. SuccessCountMirrors' /\ NoneOffered'
  BY <1>0, <1>1, <1>4 DEF Inv, TypeOK, SuccessCountMirrors, NoneOffered, Managed
<1>7. KillsAgree' /\ KeeperExists'
  BY <1>1, <1>4 DEF KillsAgree, KeeperExists, Agreed
<1> QED BY <1>2, <1>3, <1>5, <1>6, <1>7 DEF Inv

(* The end of selectNextState. *)
LEMMA SelectInv ==
    ASSUME Inv, NEW p \in Managed, pc[p] # "fork", NEW v, WorldOK(v), Agreed(v), Select(p, v),
           suspendedProcesses' \in [Slot -> BOOLEAN], stale' \in BOOLEAN,
           UNCHANGED <<count, unborn, forks>>
    PROVE  Inv'
<1> PICK to : to = IF v.active = 0 THEN "exit" ELSE "run"
  OBVIOUS
<1> PICK c : c = IF v.active = 0 THEN v.current ELSE "active"
  OBVIOUS
<1>1. /\ WriteBack(p, v) /\ pc' = [pc EXCEPT ![p] = to] /\ current' = [current EXCEPT ![p] = c]
  BY DEF Select
<1>2. /\ to \in Stage \ {"free", "fork", "born", "exiting"} /\ to \notin {"suspend", "wait"}
      /\ to = "run" => v.active >= 1
      /\ c \in {"active", "succeeded", "gone"}
  BY SMT DEF Stage, WorldOK
<1> QED BY <1>1, <1>2, CallbackStep

LEMMA SmCallbackInv == ASSUME Inv, NEW p \in Slot, SmCallback(p) PROVE Inv'
<1>1. p \in Managed /\ pc[p] = "select"
  BY DEF SmCallback, Managed
<1> PICK w0 : w0 = World(p)
  OBVIOUS
<1>2. WorldOK(w0) /\ Agreed(w0)
  BY <1>1, WorldIsOK
<1>3. PICK w \in ProcessCommands(p, w0) :
          \/ /\ w.thrown \/ w.states > 0 \/ w.succeeded = 0
             /\ Select(p, w) /\ UNCHANGED stale
          \/ /\ ~w.thrown /\ w.states = 0 /\ w.succeeded > 0
             /\ GoTo(p, "suspend", w) /\ UNCHANGED stale
          \/ /\ ~w.thrown /\ w.states > 0 /\ Timeout /\ stale
             /\ stale' = FALSE
             /\ \E v \in KillAllButOneSuccessful(p, w) : Select(p, v)
  BY DEF SmCallback
<1>4. WorldOK(w) /\ Agreed(w) /\ w.cmd[p] = Empty
  BY <1>1, <1>2, ProcessCommandsOK
<1>5. UNCHANGED <<suspendedProcesses, count, unborn, forks>> /\ stale' \in BOOLEAN
      /\ suspendedProcesses' \in [Slot -> BOOLEAN]
  BY <1>3 DEF SmCallback, Inv, TypeOK
<1>6. ASSUME NEW v, WorldOK(v), Agreed(v), Select(p, v) PROVE Inv'
  BY <1>1, <1>5, <1>6, SelectInv
<1>7. CASE Select(p, w)
  BY <1>4, <1>6, <1>7
<1>8. CASE w.succeeded > 0 /\ GoTo(p, "suspend", w)
  <2>1. /\ WriteBack(p, w) /\ pc' = [pc EXCEPT ![p] = "suspend"]
        /\ current' = [current EXCEPT ![p] = w.current]
        /\ w.current \in {"active", "succeeded", "gone"}
    BY <1>4, <1>8 DEF GoTo, WorldOK
  <2>2. "suspend" \in Stage \ {"free", "fork", "born", "exiting"}
    BY DEF Stage
  <2> QED BY <1>1, <1>4, <1>5, <1>8, <2>1, <2>2, CallbackStep, ZenonT(30)
<1>9. ASSUME NEW v \in KillAllButOneSuccessful(p, w), Select(p, v) PROVE Inv'
  <2>1. w.cmd[p] # p
    BY <1>4, SlotFacts
  <2>2. WorldOK(v) /\ Agreed(v)
    BY <1>1, <1>4, <2>1, KillAllButOneOK DEF Inv
  <2> QED BY <1>6, <1>9, <2>2
<1> QED BY <1>3, <1>7, <1>8, <1>9

LEMMA AllSuspendedInv == ASSUME Inv, NEW p \in Slot, AllSuspended(p) PROVE Inv'
<1>1. p \in Managed /\ pc[p] = "wait" /\ succeeded[p] > 0
  BY DEF AllSuspended, Managed, Inv, Placed
<1> PICK w0 : w0 = World(p)
  OBVIOUS
<1>2. WorldOK(w0) /\ Agreed(w0) /\ w0.succeeded > 0
  BY <1>1, WorldIsOK
<1>3. PICK w \in KillAllButOneSuccessful(p, w0) :
          Select(p, w) \/ GoTo(p, "woken", w)
  BY DEF AllSuspended
<1>4. WorldOK(w) /\ Agreed(w)
  BY <1>1, <1>2, <1>3, KillAllButOneOK DEF Inv
<1>5. UNCHANGED <<count, unborn, forks>> /\ stale' \in BOOLEAN
      /\ suspendedProcesses' \in [Slot -> BOOLEAN]
  BY DEF AllSuspended, Inv, TypeOK
<1>6. CASE Select(p, w)
  BY <1>1, <1>4, <1>5, <1>6, SelectInv, SMTT(30)
<1>7. CASE GoTo(p, "woken", w)
  <2>1. /\ WriteBack(p, w) /\ pc' = [pc EXCEPT ![p] = "woken"]
        /\ current' = [current EXCEPT ![p] = w.current]
        /\ w.current \in {"active", "succeeded", "gone"}
    BY <1>4, <1>7 DEF GoTo, WorldOK
  <2>2. "woken" \in Stage \ {"free", "fork", "born", "exiting"}
    BY DEF Stage
  <2> QED BY <1>1, <1>4, <1>5, <2>1, <2>2, CallbackStep
<1> QED BY <1>3, <1>6, <1>7

LEMMA AfterSuspensionInv == ASSUME Inv, NEW p \in Slot, AfterSuspension(p) PROVE Inv'
<1>1. p \in Managed /\ pc[p] = "woken"
  BY DEF AfterSuspension, Managed
<1> PICK w0 : w0 = World(p)
  OBVIOUS
<1>2. WorldOK(w0) /\ Agreed(w0)
  BY <1>1, WorldIsOK
<1>3. PICK w \in ProcessCommands(p, w0) : Select(p, w)
  BY DEF AfterSuspension
<1>4. WorldOK(w) /\ Agreed(w)
  BY <1>1, <1>2, ProcessCommandsOK
<1>5. UNCHANGED <<count, unborn, forks>> /\ stale' \in BOOLEAN
      /\ suspendedProcesses' \in [Slot -> BOOLEAN]
  BY DEF AfterSuspension, Inv, TypeOK
<1> QED BY <1>1, <1>3, <1>4, <1>5, SelectInv
-----------------------------------------------------------------------------
(* A step of p in which neither its paths nor shared memory change in any  *)
(* way that matters here.                                                  *)
LEMMA MoveInv ==
    ASSUME Inv, NEW p \in Managed, pc[p] # "fork",
           NEW to \in Stage \ {"free", "fork", "born", "exiting"}, pc' = [pc EXCEPT ![p] = to],
           to = "run" => active[p] >= 1, to \in {"suspend", "wait"} => succeeded[p] > 0,
           suspendedProcesses' \in [Slot -> BOOLEAN], stale' \in BOOLEAN,
           UNCHANGED <<successCount, commands, keepOneStateOnNode, count, paths, unborn, forks>>
    PROVE  Inv'
<1> PICK w : w = World(p)
  OBVIOUS
<1>1. /\ WorldOK(w) /\ Agreed(w) /\ w.succeeded = succeeded[p] /\ w.active = active[p]
  BY WorldIsOK
<1>2. p \in Slot /\ current[p] \in {"active", "succeeded", "gone"}
  BY DEF Inv, TypeOK, Managed
<1>3. WriteBack(p, w)
  BY <1>2 DEF WriteBack, World, paths, Inv, TypeOK
<1>4. current' = [current EXCEPT ![p] = current[p]]
  BY <1>2 DEF paths, Inv, TypeOK
<1> QED BY <1>1, <1>2, <1>3, <1>4, CallbackStep

LEMMA SuspendInv == ASSUME Inv, NEW p \in Slot, SuspendCurrentProcess(p) PROVE Inv'
<1>1. p \in Managed /\ pc[p] # "fork" /\ succeeded[p] > 0
  BY DEF SuspendCurrentProcess, Managed, Inv, Placed
<1>2. "wait" \in Stage \ {"free", "fork", "born", "exiting"}
  BY DEF Stage
<1>3. suspendedProcesses' \in [Slot -> BOOLEAN] /\ stale' \in BOOLEAN
  BY DEF SuspendCurrentProcess, Inv, TypeOK
<1> QED BY <1>1, <1>2, <1>3, MoveInv DEF SuspendCurrentProcess

LEMMA WokenUpInv == ASSUME Inv, NEW p \in Slot, WokenUp(p) PROVE Inv'
<1>1. p \in Managed /\ pc[p] # "fork"
  BY DEF WokenUp, Managed
<1>2. "woken" \in Stage \ {"free", "fork", "born", "exiting"}
  BY DEF Stage
<1>3. suspendedProcesses' \in [Slot -> BOOLEAN] /\ stale' \in BOOLEAN
  BY DEF WokenUp, shm, Inv, TypeOK
<1> QED BY <1>1, <1>2, <1>3, MoveInv DEF WokenUp, shm

LEMMA PreemptInv == ASSUME Inv, NEW p \in Slot, Preempt(p) PROVE Inv'
<1>1. p \in Managed /\ pc[p] # "fork"
  BY DEF Preempt, Managed
<1>2. "select" \in Stage \ {"free", "fork", "born", "exiting"}
  BY DEF Stage
<1>3. suspendedProcesses' \in [Slot -> BOOLEAN] /\ stale' \in BOOLEAN
  BY DEF Preempt, shm, Inv, TypeOK
<1> QED BY <1>1, <1>2, <1>3, MoveInv DEF Preempt, shm

(* Steps that change stale only. *)
LEMMA StaleInv ==
    ASSUME Inv, stale' \in BOOLEAN,
           UNCHANGED <<successCount, commands, suspendedProcesses, keepOneStateOnNode,
                       count, pc, paths, unborn, forks>>
    PROVE  Inv'
BY SMT DEF Inv, TypeOK, Counted, Placed, SuccessCountMirrors, NoneOffered, KillsAgree,
   KeeperExists, Managed, HasSlot, Forking, paths

LEMMA SucceedStateInv == ASSUME Inv, NEW p \in Slot, SucceedState(p) PROVE Inv'
<1>1. p \in Managed /\ pc[p] # "fork" /\ active[p] >= 1
  BY DEF SucceedState, Managed, Inv, Placed
<1>2. PICK v : v = [active |-> active[p] - 1, states |-> 0, succeeded |-> succeeded[p] + 1,
                    current |-> "succeeded", count |-> succeeded[p] + 1, cmd |-> commands,
                    keep |-> keepOneStateOnNode, thrown |-> FALSE]
  OBVIOUS
<1>3. Shape(v)
  BY <1>2 DEF Shape
<1>4. WorldOK(v)
  BY <1>1, <1>2, <1>3, SMT DEF WorldOK, Inv, TypeOK
<1>5. Agreed(v)
  BY <1>2 DEF Agreed, Inv, KillsAgree, KeeperExists
<1>6. WriteBack(p, v)
  BY <1>2 DEF WriteBack, SucceedState, Inv, TypeOK
<1>7. /\ "select" \in Stage \ {"free", "fork", "born", "exiting"}
      /\ suspendedProcesses' \in [Slot -> BOOLEAN] /\ stale' \in BOOLEAN
  BY DEF Stage, SucceedState, Inv, TypeOK
<1> QED BY <1>1, <1>4, <1>5, <1>6, <1>7, CallbackStep DEF SucceedState

LEMMA EndPathInv == ASSUME Inv, NEW p \in Slot, EndPath(p) PROVE Inv'
<1>1. p \in Managed /\ pc[p] # "fork" /\ active[p] >= 1
  BY DEF EndPath, Managed, Inv, Placed
<1>2. PICK v : v = [active |-> active[p] - 1, states |-> 0, succeeded |-> succeeded[p],
                    current |-> "gone", count |-> succeeded[p], cmd |-> commands,
                    keep |-> keepOneStateOnNode, thrown |-> FALSE]
  OBVIOUS
<1>3. Shape(v)
  BY <1>2 DEF Shape
<1>4. WorldOK(v)
  BY <1>1, <1>2, <1>3, SMT DEF WorldOK, Inv, TypeOK
<1>5. Agreed(v)
  BY <1>2 DEF Agreed, Inv, KillsAgree, KeeperExists
<1>6. WriteBack(p, v)
  BY <1>1, <1>2 DEF WriteBack, EndPath, shm, Inv, TypeOK, SuccessCountMirrors
<1>7. /\ "select" \in Stage \ {"free", "fork", "born", "exiting"}
      /\ suspendedProcesses' \in [Slot -> BOOLEAN] /\ stale' \in BOOLEAN
  BY DEF Stage, EndPath, shm, Inv, TypeOK
<1> QED BY <1>1, <1>4, <1>5, <1>6, <1>7, CallbackStep DEF EndPath

(* A fork that is counted is under way. *)
LEMMA ForkInv == ASSUME Inv, NEW p \in Slot, Fork(p) PROVE Inv'
<1>1. /\ pc[p] = "run" /\ active[p] >= 1 /\ forks' = forks + 1 /\ forks < MaxForks
      /\ active' = [active EXCEPT ![p] = active[p] + 1]
      /\ UNCHANGED <<shm, succeeded, current, unborn>>
  BY DEF Fork, Inv, Placed
<1>2. CASE count = MaxProcesses
  <2>1. UNCHANGED <<count, pc>>
    BY <1>2 DEF Fork
  <2>2. TypeOK'
    BY <1>1, <2>1, ManagerAssumption, SMTT(30) DEF Inv, TypeOK, shm
  <2>3. Counted'
    BY <1>1, <2>1 DEF Inv, Counted, HasSlot, Forking
  <2>4. Placed'
    BY <1>1, <2>1, SMTT(30) DEF Inv, Placed, TypeOK
  <2> QED BY <1>1, <2>1, <2>2, <2>3, <2>4
         DEF Inv, shm, SuccessCountMirrors, NoneOffered, KillsAgree, KeeperExists, Managed
<1>3. CASE count # MaxProcesses
  <2>1. count' = count + 1 /\ pc' = [pc EXCEPT ![p] = "fork"]
    BY <1>3 DEF Fork
  <2>2. TypeOK'
    BY <1>1, <1>3, <2>1, ManagerAssumption, SMTT(30) DEF Inv, TypeOK, shm, Stage
  <2>3. HasSlot' = HasSlot /\ Forking' = Forking \cup {p} /\ p \notin Forking
    BY <1>1, <2>1 DEF Inv, TypeOK, HasSlot, Forking
  <2>4. Cardinality(Forking') = Cardinality(Forking) + 1
    BY <2>3, SlotsFinite, FS_AddElement
  <2>5. Cardinality(unborn) \in Nat
    BY FS_CardinalityType DEF Inv, Counted
  <2>6. Counted'
    BY <1>1, <2>1, <2>3, <2>4, <2>5, SlotsFinite, SMT DEF Inv, Counted, TypeOK
  <2>7. Placed'
    BY <1>1, <2>1, SMTT(30) DEF Inv, Placed, TypeOK
  <2>8. Managed' = Managed
    BY <1>1, <2>1 DEF Inv, TypeOK, Managed
  <2> QED BY <1>1, <2>2, <2>6, <2>7, <2>8
         DEF Inv, shm, SuccessCountMirrors, NoneOffered, KillsAgree, KeeperExists
<1> QED BY <1>2, <1>3

LEMMA ForkFailsInv == ASSUME Inv, NEW p \in Slot, ForkFails(p) PROVE Inv'
<1>1. /\ pc[p] = "fork" /\ active[p] >= 2 /\ count' = count - 1
      /\ pc' = [pc EXCEPT ![p] = "run"] /\ UNCHANGED <<shm, paths, unborn, forks>>
  BY DEF ForkFails, Inv, Placed
<1>2. HasSlot' = HasSlot /\ Forking' = Forking \ {p} /\ p \in Forking
  BY <1>1 DEF Inv, TypeOK, HasSlot, Forking
<1>3. Cardinality(Forking') = Cardinality(Forking) - 1
  BY <1>2, SlotsFinite, FS_RemoveElement
<1>4. Cardinality(Forking') \in Nat
  <2>1. IsFiniteSet(Forking')
    BY <1>2, SlotsFinite, FS_RemoveElement
  <2> QED BY <2>1, FS_CardinalityType
<1>5. Cardinality(unborn) \in Nat
  BY FS_CardinalityType DEF Inv, Counted
<1>6. Counted' /\ count' \in 0..MaxProcesses
  BY <1>1, <1>2, <1>3, <1>4, <1>5, SlotsFinite, ManagerAssumption, SMT DEF Inv, Counted, TypeOK
<1>7. TypeOK'
  BY <1>1, <1>6 DEF Inv, TypeOK, shm, paths, Stage
<1>8. Placed'
  BY <1>1, SMT DEF Inv, Placed, TypeOK, paths
<1>9. Managed' = Managed
  BY <1>1 DEF Inv, TypeOK, Managed
<1> QED BY <1>1, <1>6, <1>7, <1>8, <1>9, SMTT(30)
       DEF Inv, shm, paths, SuccessCountMirrors, NoneOffered, KillsAgree, KeeperExists

(* There is a number for a new child as long as there are fewer children   *)
(* than slots, and a child has a slot to take.                             *)
LEMMA Room ==
    ASSUME Inv
    PROVE  /\ unborn # {} => \E q \in Slot \ HasSlot : \A r \in Slot \ HasSlot : q <= r
           /\ Forking # {} => \E n \in Slot : \A u \in unborn : u.id # n
<1>0. /\ IsFiniteSet(unborn) /\ Cardinality(unborn) \in Nat
      /\ Cardinality(HasSlot) + Cardinality(unborn) + Cardinality(Forking) <= MaxProcesses
  <2>1. IsFiniteSet(unborn) /\ Cardinality(unborn) \in Nat
    BY FS_CardinalityType DEF Inv, Counted
  <2> QED BY <2>1, SlotsFinite, ManagerAssumption, SMT DEF Inv, Counted, TypeOK
<1>1. ASSUME unborn # {}
      PROVE  \E q \in Slot \ HasSlot : \A r \in Slot \ HasSlot : q <= r
  <2>1. Cardinality(unborn) # 0
    BY <1>0, <1>1, FS_EmptySet
  <2>2. Cardinality(HasSlot) < Cardinality(Slot)
    BY <1>0, <2>1, SlotsFinite, ManagerAssumption, SMT
  <2>3. HasSlot # Slot /\ HasSlot \subseteq Slot
    BY <2>2, SlotsFinite, SMT DEF HasSlot
  <2>4. Slot \ HasSlot # {} /\ Slot \ HasSlot \in SUBSET Nat
    BY <2>3, SlotFacts
  <2> QED BY <2>4, LeastExists
<1>2. ASSUME Forking # {}
      PROVE  \E n \in Slot : \A u \in unborn : u.id # n
  <2> DEFINE f == [u \in unborn |-> u.id]
             ids == {u.id : u \in unborn}
  <2>1. ids \subseteq Slot
    BY SMT DEF Inv, TypeOK
  <2>2. f \in Surjection(unborn, ids)
    BY DEF Surjection
  <2>3. Cardinality(ids) <= Cardinality(unborn)
    <3> HIDE DEF f, ids
    <3> QED BY <1>0, <2>2, FS_Surjection
  <2>4. Cardinality(Forking) # 0
    BY <1>2, SlotsFinite, FS_EmptySet
  <2>5. Cardinality(ids) \in Nat
    <3>1. IsFiniteSet(ids)
      BY <2>1, SlotsFinite, FS_Subset
    <3> QED BY <3>1, FS_CardinalityType
  <2>6. Cardinality(ids) < Cardinality(Slot)
    <3> HIDE DEF ids
    <3> QED BY <1>0, <2>3, <2>4, <2>5, SlotsFinite, ManagerAssumption, SMT
  <2>7. ids # Slot
    BY <2>6, SlotsFinite, ManagerAssumption, SMTT(30)
  <2> QED BY <2>1, <2>7
<1> QED BY <1>1, <1>2

LEMMA ForkSucceedsInv == ASSUME Inv, NEW p \in Slot, ForkSucceeds(p) PROVE Inv'
<1>0. /\ pc[p] = "fork" /\ active[p] >= 2 /\ active[p] \in Nat
      /\ active' = [active EXCEPT ![p] = active[p] - 1]
      /\ UNCHANGED <<shm, count, succeeded, forks>>
  BY SMTT(30) DEF ForkSucceeds, Inv, Placed, TypeOK
<1>1. PICK stays \in BOOLEAN :
          /\ unborn' = unborn \cup {[id |-> CHOOSE n \in Slot : \A u \in unborn : u.id # n,
                                     active |-> active[p] - 1, succeeded |-> succeeded[p],
                                     current |-> ~stays]}
          /\ current' = [current EXCEPT ![p] = IF stays THEN "active" ELSE "gone"]
          /\ pc' = [pc EXCEPT ![p] = IF stays THEN "run" ELSE "select"]
  BY DEF ForkSucceeds
<1>2. PICK n : n = CHOOSE m \in Slot : \A u \in unborn : u.id # m
  OBVIOUS
<1>3. p \in Forking
  BY <1>0 DEF Forking
<1>4. n \in Slot /\ \A u \in unborn : u.id # n
  BY <1>2, <1>3, Room
<1>5. PICK c : c = [id |-> n, active |-> active[p] - 1, succeeded |-> succeeded[p],
                    current |-> ~stays]
  OBVIOUS
<1>6. unborn' = unborn \cup {c}
  BY <1>1, <1>2, <1>5
<1>7. /\ c \notin unborn
      /\ c \in [id : Slot, active : Nat, succeeded : Nat, current : BOOLEAN]
      /\ c.active >= 1
  BY <1>0, <1>4, <1>5, SMT DEF Inv, TypeOK
<1>8. HasSlot' = HasSlot /\ Forking' = Forking \ {p}
  BY <1>0, <1>1, SMTT(30) DEF Inv, TypeOK, HasSlot, Forking
<1>9. Cardinality(Forking') = Cardinality(Forking) - 1
  BY <1>3, <1>8, SlotsFinite, FS_RemoveElement
<1>10. IsFiniteSet(unborn') /\ Cardinality(unborn') = Cardinality(unborn) + 1
  BY <1>6, <1>7, FS_AddElement DEF Inv, Counted
<1>11. Cardinality(unborn) \in Nat
  BY FS_CardinalityType DEF Inv, Counted
<1>12. Counted'
  BY <1>0, <1>8, <1>9, <1>10, <1>11, SlotsFinite, SMT DEF Inv, Counted, TypeOK
<1>13. TypeOK'
  BY <1>0, <1>1, <1>6, <1>7, SMTT(30) DEF Inv, TypeOK, shm, Stage
<1>14. Placed'
  <2>1. \A u \in unborn' : u.current => u.active >= 1
    BY <1>6, <1>7, SMTT(30) DEF Inv, Placed
  <2> QED BY <1>0, <1>1, <2>1, SMTT(30) DEF Inv, Placed, TypeOK
<1>15. Managed' = Managed
  BY <1>0, <1>1, SMTT(30) DEF Inv, TypeOK, Managed
<1> QED BY <1>0, <1>12, <1>13, <1>14, <1>15, SMTT(30)
       DEF Inv, shm, SuccessCountMirrors, NoneOffered, KillsAgree, KeeperExists

(* A child takes a free slot. *)
LEMMA TakeSlotInv == ASSUME Inv, NEW u \in unborn, TakeSlot(u) PROVE Inv'
<1>1. PICK p : p = CHOOSE q \in Slot \ HasSlot : \A r \in Slot \ HasSlot : q <= r
  OBVIOUS
<1>2. p \in Slot /\ p \notin HasSlot
  BY <1>1, Room
<1>3. /\ unborn' = unborn \ {u} /\ pc' = [pc EXCEPT ![p] = "born"]
      /\ active' = [active EXCEPT ![p] = u.active]
      /\ succeeded' = [succeeded EXCEPT ![p] = u.succeeded]
      /\ current' = [current EXCEPT ![p] = IF u.current THEN "active" ELSE "gone"]
      /\ UNCHANGED <<shm, count, forks>>
  BY <1>1 DEF TakeSlot
<1>4. /\ u.active \in Nat /\ u.succeeded \in Nat /\ u.current => u.active >= 1
  BY DEF Inv, TypeOK, Placed
<1>5. pc[p] = "free"
  BY <1>2 DEF HasSlot
<1>6. HasSlot' = HasSlot \cup {p} /\ Forking' = Forking
  BY <1>2, <1>3, <1>5, SMT DEF Inv, TypeOK, HasSlot, Forking
<1>7. Cardinality(HasSlot') = Cardinality(HasSlot) + 1
  BY <1>2, <1>6, SlotsFinite, FS_AddElement
<1>8. IsFiniteSet(unborn') /\ Cardinality(unborn') = Cardinality(unborn) - 1
  BY <1>3, FS_RemoveElement DEF Inv, Counted
<1>9. Cardinality(unborn) \in Nat
  BY FS_CardinalityType DEF Inv, Counted
<1>10. Counted'
  BY <1>3, <1>6, <1>7, <1>8, <1>9, SlotsFinite, SMT DEF Inv, Counted, TypeOK
<1>11. TypeOK'
  BY <1>2, <1>3, <1>4, SMTT(30) DEF Inv, TypeOK, shm, Stage
<1>12. Placed'
  BY <1>2, <1>3, <1>4, SMTT(30) DEF Inv, Placed, TypeOK
<1>13. Managed' = Managed /\ p \notin Managed
  BY <1>2, <1>3, <1>5, SMTT(30) DEF Inv, TypeOK, Managed
<1>14. SuccessCountMirrors' /\ NoneOffered'
  BY <1>2, <1>3, <1>13 DEF Inv, TypeOK, SuccessCountMirrors, NoneOffered, shm, Managed
<1> QED BY <1>3, <1>10, <1>11, <1>12, <1>13, <1>14, SMT DEF Inv, shm, KillsAgree, KeeperExists

(* A child that gets its StateManager offers what it inherited and has no  *)
(* command.                                                                *)
LEMMA OnProcessForkInv == ASSUME Inv, NEW p \in Slot, OnProcessFork(p) PROVE Inv'
<1>1. PICK to : to = IF current[p] = "active" THEN "run" ELSE "select"
  BY SMTT(30)
<1>2. /\ pc[p] = "born" /\ pc' = [pc EXCEPT ![p] = to]
      /\ successCount' = [successCount EXCEPT ![p] = succeeded[p]]
      /\ commands' = [commands EXCEPT ![p] = Empty]
      /\ suspendedProcesses' = [suspendedProcesses EXCEPT ![p] = FALSE]
      /\ UNCHANGED <<keepOneStateOnNode, stale, count, active, succeeded, current, unborn, forks>>
  BY <1>1 DEF OnProcessFork, paths
<1>3. to \in Stage \ {"free", "fork", "born", "exiting", "suspend", "wait"}
  BY <1>1 DEF Stage
<1>4. TypeOK'
  BY <1>2, <1>3, SlotFacts DEF Inv, TypeOK
<1>5. Counted'
  BY <1>2, <1>3, CountedStays DEF Inv
<1>6. Placed'
  BY <1>1, <1>2, <1>3 DEF Inv, Placed, TypeOK
<1>7. Managed' = Managed \cup {p} /\ p \notin Managed
  BY <1>2, <1>3, SMT DEF Inv, TypeOK, Managed
<1>8. SuccessCountMirrors' /\ NoneOffered'
  BY <1>2, <1>7, SMT DEF Inv, TypeOK, SuccessCountMirrors, NoneOffered, Managed
<1>9. KillsAgree' /\ KeeperExists'
  BY <1>2, <1>7, SlotFacts, SMTT(30) DEF Inv, TypeOK, KillsAgree, KeeperExists, Managed
<1> QED BY <1>4, <1>5, <1>6, <1>8, <1>9, SMTT(30) DEF Inv

(* A StateManager that goes away is not recorded and offers no path. *)
LEMMA DeleteStateManagerInv == ASSUME Inv, NEW p \in Slot, DeleteStateManager(p) PROVE Inv'
<1>0. pc[p] = "exit" /\ p \in Managed
  BY DEF DeleteStateManager, Managed
<1>1. /\ pc' = [pc EXCEPT ![p] = "exiting"]
      /\ successCount' = [successCount EXCEPT ![p] = 0]
      /\ keepOneStateOnNode' = IF keepOneStateOnNode = p THEN None ELSE keepOneStateOnNode
      /\ UNCHANGED <<commands, suspendedProcesses, stale, count, active, succeeded, current,
                     unborn, forks>>
  <2>1. successCount[p] - succeeded[p] = 0
    BY <1>0, SMT DEF Inv, TypeOK, SuccessCountMirrors
  <2>2. successCount' = [successCount EXCEPT ![p] = successCount[p] - succeeded[p]]
    BY DEF DeleteStateManager, Inv, TypeOK
  <2>3. successCount' = [successCount EXCEPT ![p] = 0]
    BY <2>1, <2>2
  <2> QED BY <2>3 DEF DeleteStateManager, paths
<1>2. "exiting" \in Stage \ {"free", "fork"}
  BY DEF Stage
<1>3. TypeOK'
  BY <1>1, <1>2, SlotFacts DEF Inv, TypeOK
<1>4. Counted'
  BY <1>0, <1>1, <1>2, CountedStays, ZenonT(30) DEF Inv
<1>5. Placed'
  BY <1>1 DEF Inv, Placed, TypeOK
<1>6. Managed' = Managed \ {p}
  BY <1>0, <1>1 DEF Inv, TypeOK, Managed
<1>7. SuccessCountMirrors' /\ NoneOffered'
  BY <1>1, <1>6, SMT DEF Inv, TypeOK, SuccessCountMirrors, NoneOffered, Managed
<1>8. KillsAgree' /\ KeeperExists'
  BY <1>1, <1>6, SlotFacts, SMTT(30) DEF Inv, KillsAgree, KeeperExists, Managed
<1> QED BY <1>3, <1>4, <1>5, <1>7, <1>8 DEF Inv

LEMMA ExitProcessInv == ASSUME Inv, NEW p \in Slot, ExitProcess(p) PROVE Inv'
<1>0. pc[p] = "exiting" /\ p \in HasSlot
  BY DEF ExitProcess, HasSlot
<1>1. /\ pc' = [pc EXCEPT ![p] = "free"] /\ count' = count - 1
      /\ active' = [active EXCEPT ![p] = 0] /\ succeeded' = [succeeded EXCEPT ![p] = 0]
      /\ current' = [current EXCEPT ![p] = "gone"]
      /\ UNCHANGED <<successCount, commands, suspendedProcesses, keepOneStateOnNode, stale,
                     unborn, forks>>
  BY DEF ExitProcess, shm
<1>2. HasSlot' = HasSlot \ {p} /\ Forking' = Forking
  BY <1>0, <1>1 DEF Inv, TypeOK, HasSlot, Forking
<1>3. Cardinality(HasSlot') = Cardinality(HasSlot) - 1
  BY <1>0, <1>2, SlotsFinite, FS_RemoveElement, ZenonT(30)
<1>4. Cardinality(HasSlot) # 0
  BY <1>0, SlotsFinite, FS_EmptySet, SMT
<1>5. Cardinality(unborn) \in Nat
  BY FS_CardinalityType DEF Inv, Counted
<1>6. Counted' /\ count' \in 0..MaxProcesses
  BY <1>1, <1>2, <1>3, <1>4, <1>5, SlotsFinite, ManagerAssumption, SMT DEF Inv, Counted, TypeOK
<1>7. TypeOK'
  BY <1>1, <1>6 DEF Inv, TypeOK, Stage
<1>8. Placed'
  BY <1>1 DEF Inv, Placed, TypeOK
<1>9. Managed' = Managed
  BY <1>0, <1>1 DEF Inv, TypeOK, Managed
<1>10. \A q \in Managed : q # p
  BY <1>0 DEF Managed
<1> QED BY <1>1, <1>6, <1>7, <1>8, <1>9, <1>10, SMTT(30)
       DEF Inv, TypeOK, SuccessCountMirrors, NoneOffered, KillsAgree, KeeperExists, Managed
-----------------------------------------------------------------------------
LEMMA InitInv == Init => Inv
<1> SUFFICES ASSUME Init PROVE Inv
  OBVIOUS
<1>0. 0 \in Slot
  BY ManagerAssumption, SMT DEF Slot
<1>1. TypeOK
  <2>1. /\ successCount \in [Slot -> Nat] /\ commands \in [Slot -> 0..Empty]
        /\ suspendedProcesses \in [Slot -> BOOLEAN] /\ stale \in BOOLEAN
        /\ keepOneStateOnNode \in 0..None
    BY SlotFacts DEF Init
  <2>2. count \in 0..MaxProcesses /\ forks \in 0..MaxForks
    BY ManagerAssumption, SMT DEF Init
  <2>3. pc \in [Slot -> Stage] /\ current \in [Slot -> {"active", "succeeded", "gone"}]
    BY DEF Init, Stage
  <2>4. active \in [Slot -> Nat] /\ succeeded \in [Slot -> Nat] /\ unborn = {}
    BY DEF Init
  <2> QED BY <2>1, <2>2, <2>3, <2>4, SMT DEF TypeOK
<1>2. HasSlot = {0} /\ Forking = {}
  BY <1>0 DEF Init, HasSlot, Forking
<1>3. Counted
  <2>1. IsFiniteSet(unborn) /\ Cardinality(unborn) = 0 /\ Cardinality(Forking) = 0
    BY <1>2, FS_EmptySet DEF Init
  <2>2. Cardinality(HasSlot) = 1
    BY <1>2, FS_Singleton
  <2> QED BY <2>1, <2>2, SMT DEF Init, Counted
<1>4. Placed
  BY SMT DEF Init, Placed
<1> QED BY <1>1, <1>3, <1>4, SlotFacts, SMT DEF Init, Inv, SuccessCountMirrors, NoneOffered,
           KillsAgree, KeeperExists, Managed

LEMMA NextInv == Inv /\ [Next]_vars => Inv'
<1> SUFFICES ASSUME Inv, [Next]_vars PROVE Inv'
  OBVIOUS
<1>1. ASSUME NEW p \in Slot, ResetTimeout(p) PROVE Inv'
  BY <1>1, StaleInv DEF ResetTimeout
<1>2. CASE TimePasses
  BY <1>2, StaleInv DEF TimePasses
<1>3. CASE UNCHANGED vars
  BY <1>3, StaleInv DEF vars, shm, Inv, TypeOK
<1> QED BY <1>1, <1>2, <1>3, SmCallbackInv, SuspendInv, WokenUpInv, AllSuspendedInv,
          AfterSuspensionInv, SucceedStateInv, EndPathInv, PreemptInv, ForkInv, ForkFailsInv,
          ForkSucceedsInv, OnProcessForkInv, DeleteStateManagerInv, ExitProcessInv, TakeSlotInv,
          SMTT(30)
       DEF Next

LEMMA InvHolds == Spec => []Inv
BY InitInv, NextInv, PTL DEF Spec

(* checkInvariants: in every process that runs its StateManager, the count *)
(* of succeeded paths in shared memory is the size of m_succeeded.         *)
THEOREM CountsMirror == Spec => []SuccessCountMirrors
<1>1. Inv => SuccessCountMirrors
  BY DEF Inv
<1> QED BY <1>1, InvHolds, PTL

(* The assert of processCommands: a process that is told to keep a path is *)
(* the recorded one, however many kills overlapped.                        *)
THEOREM KillsNameTheKeeper == Spec => []KillsAgree
<1>1. Inv => KillsAgree
  BY DEF Inv
<1> QED BY <1>1, InvHolds, PTL

(* killAllButOneSuccessful and ~StateManager: the node recorded as keeping *)
(* a path is never one that exited or has yet to start.                    *)
THEOREM KeeperIsManaged == Spec => []KeeperExists
<1>1. Inv => KeeperExists
  BY SMTT(30) DEF Inv
<1> QED BY <1>1, InvHolds, PTL
-----------------------------------------------------------------------------
LEMMA StepExecutes ==
    ASSUME Inv, [Next]_vars, NEW q \in Slot, Removed(q)
    PROVE  Executed(q)
<1>1. ASSUME NEW p \in Slot, SmCallback(p) PROVE Executed(q)
  <2>0. p \in Managed
    BY <1>1 DEF SmCallback, Managed
  <2>1. PICK w0 : w0 = World(p)
    OBVIOUS
  <2>2. PICK w \in ProcessCommands(p, w0) :
            \/ Select(p, w)
            \/ GoTo(p, "suspend", w)
            \/ \E v \in KillAllButOneSuccessful(p, w) : Select(p, v)
    BY <1>1, <2>1 DEF SmCallback
  <2>3. PICK v : (v = w \/ v \in KillAllButOneSuccessful(p, w)) /\ WriteBack(p, v)
    BY <2>2 DEF Select, GoTo
  <2> QED BY <2>0, <2>1, <2>3, CommandExecuted, SMTT(30)
<1>2. ASSUME NEW p \in Slot, AfterSuspension(p) PROVE Executed(q)
  <2>0. p \in Managed
    BY <1>2 DEF AfterSuspension, Managed
  <2>1. PICK w0 : w0 = World(p)
    OBVIOUS
  <2>2. PICK w \in ProcessCommands(p, w0) : WriteBack(p, w)
    BY <1>2, <2>1, SMTT(30) DEF AfterSuspension, Select
  <2> QED BY <2>0, <2>1, <2>2, CommandExecuted
<1>3. ASSUME NEW p \in Slot, AllSuspended(p) PROVE FALSE
  <2>0. p \in Managed /\ succeeded[p] > 0
    BY <1>3, SMTT(30) DEF AllSuspended, Managed, Inv, Placed
  <2>1. PICK w0 : w0 = World(p)
    OBVIOUS
  <2>2. PICK w \in KillAllButOneSuccessful(p, w0) : WriteBack(p, w)
    BY <1>3, <2>1, SMTT(30) DEF AllSuspended, Select, GoTo
  <2>3. WorldOK(w0) /\ Agreed(w0) /\ w0.succeeded > 0 /\ w0.cmd = commands
    BY <2>0, <2>1, WorldIsOK, SMTT(30)
  <2>4. \A r \in Slot : w.cmd[r] = Empty => commands[r] = Empty
    BY <2>0, <2>2, <2>3, KillAllButOneOK, SMTT(30) DEF Inv
  <2> QED BY <2>2, <2>4, SMTT(30) DEF WriteBack, Removed
<1>4. ASSUME NEW p \in Slot, OnProcessFork(p) PROVE FALSE
  BY <1>4, SlotFacts DEF OnProcessFork, Removed, Inv, TypeOK
<1>5. ASSUME commands' = commands PROVE FALSE
  BY <1>5, SMTT(30) DEF Removed
<1>6. \/ \E p \in Slot : \/ SmCallback(p) \/ AfterSuspension(p) \/ AllSuspended(p)
                        \/ OnProcessFork(p)
      \/ commands' = commands
  BY SMTT(30) DEF Next, SuspendCurrentProcess, WokenUp, SucceedState, EndPath, Preempt, ResetTimeout,
     Fork, ForkFails, ForkSucceeds, DeleteStateManager, ExitProcess, TakeSlot, TimePasses, vars,
     shm
<1> QED BY <1>1, <1>2, <1>3, <1>4, <1>5, <1>6, SMTT(30)

(* processCommands and sendKillToAllInstances: once a process has its      *)
(* StateManager, a kill written to its slot is gone only when the process  *)
(* has killed what the kill names, whichever kills and forks overlap.      *)
THEOREM NoKillIsDropped == Spec => KillsAreExecuted
<1>1. Inv /\ [Next]_vars => \A p \in Slot : Removed(p) => Executed(p)
  BY StepExecutes
<1>2. Inv /\ [Next]_vars =>
          [\A p \in Slot : (commands[p] # Empty /\ commands'[p] = Empty /\ pc[p] # "born") =>
             LET kept == IF commands[p] = p /\ succeeded[p] > 0 THEN 1 ELSE 0
             IN \/ active'[p] <= kept /\ succeeded'[p] = 0
                \/ commands[p] = p /\ succeeded[p] = 0]_vars
  BY <1>1 DEF Removed, Executed
<1> QED BY <1>2, InvHolds, PTL DEF Spec, KillsAreExecuted
-----------------------------------------------------------------------------
(* A process that keeps a path whatever the others do: no kill is meant    *)
(* for it, or the one that is tells it to keep a path.  A process that     *)
(* leaves the barrier without a command is not one, as it exits.           *)
Safe(p) ==
    /\ pc[p] \notin {"free", "exit", "exiting"}
    /\ \/ /\ pc[p] = "born" \/ commands[p] = Empty
          /\ active[p] > 0 \/ (succeeded[p] > 0 /\ pc[p] # "woken")
       \/ pc[p] # "born" /\ commands[p] = p /\ succeeded[p] > 0

(* Without timeouts, kills are sent at the barrier only: whoever has one   *)
(* has just been let through.                                              *)
LetThrough(p) ==
    /\ p \in Managed /\ commands[p] # Empty
          => pc[p] \in {"wait", "woken"} /\ suspendedProcesses[p] = FALSE
    /\ suspendedProcesses[p] => pc[p] = "wait"
    /\ pc[p] = "wait" /\ ~suspendedProcesses[p] => commands[p] # Empty

Surviving == /\ \A p \in Slot : LetThrough(p)
             /\ \A u \in unborn : u.active >= 1
             /\ unborn # {} \/ \E p \in Slot : Safe(p)

OthersRest(p) ==
    \A q \in Slot \ {p} : /\ pc'[q] = pc[q] /\ active'[q] = active[q]
                          /\ succeeded'[q] = succeeded[q] /\ commands'[q] = commands[q]
                          /\ suspendedProcesses'[q] = suspendedProcesses[q]

LEMMA InvTyped ==
    ASSUME Inv
    PROVE  /\ commands \in [Slot -> 0..Empty] /\ suspendedProcesses \in [Slot -> BOOLEAN]
           /\ pc \in [Slot -> Stage] /\ active \in [Slot -> Nat] /\ succeeded \in [Slot -> Nat]
  BY DEF Inv, TypeOK

(* A step of one process. *)
LEMMA OneStepSurvives ==
    ASSUME Surviving, NEW p \in Slot, OthersRest(p), UNCHANGED unborn,
           LetThrough(p)', Safe(p) => Safe(p)'
    PROVE  Surviving'
<1>1. ASSUME NEW q \in Slot PROVE LetThrough(q)'
  <2>1. CASE q # p
    BY <2>1, SMT DEF Surviving, LetThrough, OthersRest, Managed
  <2> QED BY <2>1
<1>2. ASSUME NEW q \in Slot, Safe(q) PROVE Safe(q)'
  <2>1. CASE q # p
    BY <1>2, <2>1 DEF Safe, OthersRest
  <2> QED BY <1>2, <2>1
<1> QED BY <1>1, <1>2 DEF Surviving

LEMMA SmCallbackSurvives ==
    ASSUME Inv, Surviving, ~Timeout, NEW p \in Slot, SmCallback(p) PROVE Surviving'
<1>0. p \in Managed /\ pc[p] = "select"
  BY DEF SmCallback, Managed
<1>1. commands[p] = Empty /\ ~suspendedProcesses[p]
  BY <1>0 DEF Surviving, LetThrough
<1>2. PICK w0 : w0 = World(p)
  OBVIOUS
<1>3. /\ WorldOK(w0) /\ Agreed(w0) /\ w0.cmd = commands
      /\ w0.succeeded = succeeded[p] /\ w0.active = active[p]
  BY <1>0, <1>2, WorldIsOK
<1>4. w0.states = active[p] /\ w0.thrown = FALSE
  BY <1>2 DEF World
<1>5. PICK w \in ProcessCommands(p, w0) :
          \/ /\ w.thrown \/ w.states > 0 \/ w.succeeded = 0
             /\ Select(p, w)
          \/ /\ ~w.thrown /\ w.states = 0 /\ w.succeeded > 0
             /\ GoTo(p, "suspend", w)
  BY <1>2 DEF SmCallback
<1>6. w = w0
  BY <1>0, <1>1, <1>3, <1>5, ProcessCommandsOK, SMT
<1>7. PICK to \in {"exit", "run", "suspend"} :
          /\ pc' = [pc EXCEPT ![p] = to]
          /\ active[p] > 0 => to = "run"
          /\ succeeded[p] > 0 => to # "exit"
          /\ WriteBack(p, w0)
  BY <1>3, <1>4, <1>5, <1>6, InvTyped, SMTT(30) DEF Select, GoTo
<1>8. /\ active' = active /\ succeeded' = succeeded /\ commands' = commands
  BY <1>3, <1>7, InvTyped DEF WriteBack
<1>9. UNCHANGED <<suspendedProcesses, unborn>>
  BY DEF SmCallback
<1>10. pc'[p] = to /\ \A q \in Slot \ {p} : pc'[q] = pc[q]
  BY <1>7, InvTyped
<1>11. LetThrough(p)'
  BY <1>1, <1>8, <1>9, <1>10, SMT DEF LetThrough
<1>12. Safe(p) => Safe(p)'
  BY <1>0, <1>1, <1>7, <1>8, <1>10, SlotFacts, SMT DEF Safe
<1>13. OthersRest(p)
  BY <1>8, <1>9, <1>10 DEF OthersRest
<1> QED BY <1>9, <1>11, <1>12, <1>13, OneStepSurvives, SMTT(30)

LEMMA AfterSuspensionSurvives ==
    ASSUME Inv, Surviving, NEW p \in Slot, AfterSuspension(p) PROVE Surviving'
<1>0. p \in Managed /\ pc[p] = "woken" /\ ~suspendedProcesses[p]
  BY DEF AfterSuspension, Managed, Surviving, LetThrough
<1>1. PICK w0 : w0 = World(p)
  OBVIOUS
<1>2. /\ WorldOK(w0) /\ Agreed(w0) /\ w0.cmd = commands
      /\ w0.succeeded = succeeded[p] /\ w0.active = active[p]
  BY <1>0, <1>1, WorldIsOK, SMT
<1>3. PICK w \in ProcessCommands(p, w0) : Select(p, w)
  BY <1>1 DEF AfterSuspension
<1>4. /\ WorldOK(w) /\ w.cmd[p] = Empty
      /\ \A q \in Slot \ {p} : w.cmd[q] = commands[q]
      /\ commands[p] = Empty => w = w0
      /\ commands[p] = p /\ succeeded[p] > 0 => w.active = 1
  BY <1>0, <1>2, <1>3, ProcessCommandsOK, SMTT(30)
<1>5. /\ pc'[p] = IF w.active = 0 THEN "exit" ELSE "run"
      /\ active'[p] = w.active /\ commands' = w.cmd
      /\ \A q \in Slot \ {p} : /\ pc'[q] = pc[q] /\ active'[q] = active[q]
                               /\ succeeded'[q] = succeeded[q]
  BY <1>3, InvTyped DEF Select, WriteBack
<1>6. UNCHANGED <<suspendedProcesses, unborn>>
  BY DEF AfterSuspension
<1>7. LetThrough(p)'
  BY <1>0, <1>4, <1>5, <1>6, SMTT(30) DEF LetThrough
<1>8. Safe(p) => Safe(p)'
  <2> SUFFICES ASSUME Safe(p) PROVE Safe(p)'
    OBVIOUS
  <2>1. w.active > 0 /\ w.active # 0
    BY <1>0, <1>2, <1>4, SMTT(30) DEF Safe
  <2>2. pc'[p] = "run" /\ active'[p] > 0 /\ commands'[p] = Empty
    BY <1>4, <1>5, <2>1
  <2> QED BY <2>2 DEF Safe
<1>9. OthersRest(p)
  BY <1>4, <1>5, <1>6 DEF OthersRest
<1> QED BY <1>6, <1>7, <1>8, <1>9, OneStepSurvives, SMT

(* Steps of a process that leave all commands alone. *)
LEMMA MoveSurvives ==
    ASSUME Inv, Surviving, NEW p \in Slot, NEW to, pc' = [pc EXCEPT ![p] = to],
           \A q \in Slot \ {p} : /\ active'[q] = active[q] /\ succeeded'[q] = succeeded[q]
                                 /\ suspendedProcesses'[q] = suspendedProcesses[q],
           UNCHANGED <<commands, unborn>>,
           pc'[p] = to => LetThrough(p)' /\ (Safe(p) => Safe(p)')
    PROVE  Surviving'
<1>1. pc'[p] = to /\ OthersRest(p)
  BY InvTyped DEF OthersRest
<1> QED BY <1>1, OneStepSurvives

LEMMA SuspendSurvives ==
    ASSUME Inv, Surviving, NEW p \in Slot, SuspendCurrentProcess(p) PROVE Surviving'
<1>1. /\ pc[p] = "suspend" /\ p \in Managed /\ commands[p] = Empty /\ succeeded[p] > 0
  BY DEF SuspendCurrentProcess, Managed, Surviving, LetThrough, Inv, Placed
<1>2. suspendedProcesses'[p] = TRUE
      /\ \A q \in Slot \ {p} : suspendedProcesses'[q] = suspendedProcesses[q]
  BY InvTyped DEF SuspendCurrentProcess
<1>3. UNCHANGED <<commands, active, succeeded, unborn>>
  BY DEF SuspendCurrentProcess, paths
<1>4. ASSUME pc'[p] = "wait" PROVE LetThrough(p)' /\ Safe(p)'
  BY <1>1, <1>2, <1>3, <1>4, SMT DEF LetThrough, Safe
<1> QED BY <1>2, <1>3, <1>4, MoveSurvives, ZenonT(30) DEF SuspendCurrentProcess

LEMMA WokenUpSurvives ==
    ASSUME Inv, Surviving, NEW p \in Slot, WokenUp(p) PROVE Surviving'
<1>1. pc[p] = "wait" /\ p \in Managed /\ ~suspendedProcesses[p] /\ commands[p] # Empty
  BY DEF WokenUp, Managed, Surviving, LetThrough
<1>2. UNCHANGED <<suspendedProcesses, commands, active, succeeded, unborn>>
  BY DEF WokenUp, shm, paths
<1>3. suspendedProcesses[p] = FALSE
  BY <1>1, InvTyped
<1>4. ASSUME pc'[p] = "woken" PROVE LetThrough(p)' /\ (Safe(p) => Safe(p)')
  BY <1>1, <1>2, <1>3, <1>4, SMT DEF LetThrough, Safe
<1> QED BY <1>2, <1>4, MoveSurvives, ZenonT(30) DEF WokenUp

(* A process that runs has no command. *)
LEMMA RunsFreely ==
    ASSUME Inv, Surviving, NEW p \in Slot, pc[p] \in {"run", "fork", "select", "exit"}
    PROVE  commands[p] = Empty /\ ~suspendedProcesses[p]
BY DEF Surviving, LetThrough, Managed

LEMMA SucceedStateSurvives ==
    ASSUME Inv, Surviving, NEW p \in Slot, SucceedState(p) PROVE Surviving'
<1>1. pc[p] = "run" /\ commands[p] = Empty /\ ~suspendedProcesses[p]
  BY RunsFreely DEF SucceedState
<1>2. /\ UNCHANGED <<suspendedProcesses, commands, unborn>> /\ succeeded'[p] > 0
      /\ \A q \in Slot \ {p} : active'[q] = active[q] /\ succeeded'[q] = succeeded[q]
  BY InvTyped, SMT DEF SucceedState
<1>3. ASSUME pc'[p] = "select" PROVE LetThrough(p)' /\ Safe(p)'
  BY <1>1, <1>2, <1>3 DEF LetThrough, Safe
<1> QED BY <1>2, <1>3, MoveSurvives, ZenonT(30) DEF SucceedState

(* Preempt, ForkFails and the forks that create no process. *)
LEMMA RunningSurvives ==
    ASSUME Inv, Surviving, NEW p \in Slot, pc[p] \in {"run", "fork"},
           NEW to \in {"run", "fork", "select"}, pc' = [pc EXCEPT ![p] = to],
           \A q \in Slot \ {p} : active'[q] = active[q], active'[p] > 0,
           UNCHANGED <<suspendedProcesses, commands, succeeded, unborn>>
    PROVE  Surviving'
<1>1. commands[p] = Empty /\ ~suspendedProcesses[p]
  BY RunsFreely
<1>2. ASSUME pc'[p] = to PROVE LetThrough(p)' /\ Safe(p)'
  BY <1>1, <1>2 DEF LetThrough, Safe
<1> QED BY <1>2, MoveSurvives

LEMMA ForkSucceedsSurvives ==
    ASSUME Inv, Surviving, NEW p \in Slot, ForkSucceeds(p) PROVE Surviving'
<1>1. pc[p] = "fork" /\ commands[p] = Empty /\ ~suspendedProcesses[p]
  BY RunsFreely DEF ForkSucceeds
<1>2. active[p] \in Nat /\ active[p] - 1 >= 1
  BY <1>1, SMTT(30) DEF Inv, Placed, TypeOK
<1>3. PICK c : unborn' = unborn \cup {c} /\ c.active = active[p] - 1
  <2>1. PICK stays \in BOOLEAN :
            unborn' = unborn \cup {[id |-> CHOOSE n \in Slot : \A u \in unborn : u.id # n,
                                   active |-> active[p] - 1, succeeded |-> succeeded[p],
                                   current |-> ~stays]}
    BY DEF ForkSucceeds
  <2>2. PICK c : c = [id |-> CHOOSE n \in Slot : \A u \in unborn : u.id # n,
                      active |-> active[p] - 1, succeeded |-> succeeded[p],
                      current |-> ~stays]
    OBVIOUS
  <2>3. unborn' = unborn \cup {c}
    BY <2>1, <2>2
  <2>4. c.active = active[p] - 1
    BY <2>2
  <2> QED BY <2>3, <2>4
<1>4. PICK to \in {"run", "select"} : pc' = [pc EXCEPT ![p] = to]
  BY DEF ForkSucceeds
<1>5. UNCHANGED <<suspendedProcesses, commands>>
  BY DEF ForkSucceeds, shm
<1>6. ASSUME NEW q \in Slot PROVE LetThrough(q)'
  BY <1>1, <1>4, <1>5 DEF LetThrough, Surviving, Managed, Inv, TypeOK
<1> QED BY <1>2, <1>3, <1>6 DEF Surviving

LEMMA TakeSlotSurvives ==
    ASSUME Inv, Surviving, NEW u \in unborn, TakeSlot(u) PROVE Surviving'
<1>1. PICK p : p = CHOOSE q \in Slot \ HasSlot : \A r \in Slot \ HasSlot : q <= r
  OBVIOUS
<1>2. p \in Slot /\ pc[p] = "free"
  BY <1>1, Room DEF HasSlot
<1>3. /\ unborn' = unborn \ {u} /\ pc' = [pc EXCEPT ![p] = "born"]
      /\ active' = [active EXCEPT ![p] = u.active]
      /\ UNCHANGED <<suspendedProcesses, commands>>
  BY <1>1 DEF TakeSlot, shm
<1>4. u.active > 0 /\ active'[p] = u.active /\ pc'[p] = "born"
  BY <1>2, <1>3, SMT DEF Surviving, Inv, TypeOK
<1>5. Safe(p)'
  BY <1>4 DEF Safe
<1>6. ASSUME NEW q \in Slot PROVE LetThrough(q)'
  BY <1>2, <1>3 DEF LetThrough, Surviving, Managed, Inv, TypeOK
<1> QED BY <1>2, <1>3, <1>5, <1>6 DEF Surviving

LEMMA OnProcessForkSurvives ==
    ASSUME Inv, Surviving, NEW p \in Slot, OnProcessFork(p) PROVE Surviving'
<1>1. PICK to \in {"run", "select"} : pc' = [pc EXCEPT ![p] = to]
  BY DEF OnProcessFork
<1>2. /\ commands' = [commands EXCEPT ![p] = Empty]
      /\ suspendedProcesses' = [suspendedProcesses EXCEPT ![p] = FALSE]
      /\ UNCHANGED <<active, succeeded, unborn>>
  BY DEF OnProcessFork, paths
<1>3. pc'[p] = to /\ commands'[p] = Empty /\ suspendedProcesses'[p] = FALSE
  BY <1>1, <1>2, InvTyped, SMTT(30)
<1>4. OthersRest(p)
  BY <1>1, <1>2, InvTyped DEF OthersRest
<1>5. LetThrough(p)'
  BY <1>3 DEF LetThrough
<1>6. Safe(p) => Safe(p)'
  BY <1>2, <1>3 DEF Safe, OnProcessFork
<1> QED BY <1>2, <1>4, <1>5, <1>6, OneStepSurvives, SMT

(* A process that exits had nothing left to count on. *)
LEMMA ExitSurvives ==
    ASSUME Inv, Surviving, NEW p \in Slot, DeleteStateManager(p) \/ ExitProcess(p)
    PROVE  Surviving'
<1>1. PICK to \in {"exiting", "free"} : pc' = [pc EXCEPT ![p] = to]
  BY DEF DeleteStateManager, ExitProcess
<1>2. ~Safe(p) /\ ~suspendedProcesses[p]
  BY DEF Safe, DeleteStateManager, ExitProcess, Surviving, LetThrough
<1>3. /\ UNCHANGED <<suspendedProcesses, commands, unborn>>
      /\ \A q \in Slot \ {p} : active'[q] = active[q] /\ succeeded'[q] = succeeded[q]
  BY InvTyped, SMTT(30) DEF DeleteStateManager, ExitProcess, shm, paths
<1>4. ASSUME pc'[p] = to PROVE LetThrough(p)'
  BY <1>2, <1>3, <1>4 DEF LetThrough, Managed
<1> QED BY <1>1, <1>2, <1>3, <1>4, MoveSurvives, ZenonT(30)

(* All are suspended only where every process is at the barrier and no     *)
(* fork is under way.                                                      *)
LEMMA AllAreWaiting ==
    ASSUME Inv, Surviving, GetSuspendedProcessCount = count
    PROVE  unborn = {} /\ \A q \in HasSlot : pc[q] = "wait" /\ suspendedProcesses[q]
<1> DEFINE S == {q \in Slot : suspendedProcesses[q]}
<1>1. S \subseteq HasSlot
  BY DEF HasSlot, Surviving, LetThrough
<1>2. /\ IsFiniteSet(S) /\ Cardinality(S) \in Nat /\ Cardinality(S) <= Cardinality(HasSlot)
  <2>1. IsFiniteSet(S) /\ Cardinality(S) <= Cardinality(HasSlot)
    <3> HIDE DEF S
    <3> QED BY <1>1, SlotsFinite, FS_Subset
  <2> QED BY <2>1, FS_CardinalityType
<1>3. IsFiniteSet(unborn) /\ Cardinality(unborn) \in Nat
  BY FS_CardinalityType DEF Inv, Counted
<1>4. Cardinality(S) = count /\ count \in Nat
  BY ManagerAssumption, SMT DEF GetSuspendedProcessCount, Inv, TypeOK
<1>5. Cardinality(unborn) = 0 /\ Cardinality(S) = Cardinality(HasSlot)
  <2> HIDE DEF S
  <2> QED BY <1>2, <1>3, <1>4, SlotsFinite, SMTT(30) DEF Inv, Counted
<1>6. unborn = {}
  BY <1>3, <1>5, FS_EmptySet
<1>7. S = HasSlot
  <2> HIDE DEF S
  <2> QED BY <1>1, <1>5, SlotsFinite, FS_Subset
<1> QED BY <1>6, <1>7 DEF Surviving, LetThrough

(* suspendCurrentProcess in the process that finds all suspended: the node *)
(* that it chooses keeps a path, and everyone else is told which it is.    *)
LEMMA AllSuspendedSurvives ==
    ASSUME Inv, Surviving, NEW p \in Slot, AllSuspended(p) PROVE Surviving'
<1>0. /\ pc[p] = "wait" /\ suspendedProcesses[p] /\ p \in Managed /\ succeeded[p] > 0
      /\ unborn = {} /\ unborn' = unborn
      /\ \A q \in HasSlot : pc[q] = "wait" /\ suspendedProcesses[q]
  <2>1. /\ pc[p] = "wait" /\ suspendedProcesses[p] /\ unborn' = unborn
        /\ GetSuspendedProcessCount = count
    BY DEF AllSuspended
  <2>2. p \in Managed /\ succeeded[p] > 0
    BY <2>1 DEF Managed, Inv, Placed
  <2> QED BY <2>1, <2>2, AllAreWaiting
<1>1. \A q \in HasSlot : q \in Managed /\ commands[q] = Empty /\ succeeded[q] > 0
  BY <1>0 DEF HasSlot, Managed, Surviving, LetThrough, Inv, Placed
<1>2. \A q \in Slot : suspendedProcesses'[q] = FALSE
  BY DEF AllSuspended
<1>3. PICK w : w = World(p)
  OBVIOUS
<1>4. /\ WorldOK(w) /\ Agreed(w) /\ w.cmd = commands
      /\ w.succeeded = succeeded[p] /\ w.active = active[p]
  BY <1>0, <1>3, WorldIsOK, SMTT(30)
<1>5. PICK v \in KillAllButOneSuccessful(p, w) :
          \/ v.thrown /\ Select(p, v)
          \/ ~v.thrown /\ GoTo(p, "woken", v)
  BY <1>3 DEF AllSuspended
<1>6. PICK node : node = ChosenNode(p, w)
  OBVIOUS
<1>7. node # None
  <2>1. w.count = succeeded[p] /\ w.keep = keepOneStateOnNode
    BY <1>0, <1>3 DEF World, Inv, SuccessCountMirrors
  <2>2. p \in HasSlot
    BY <1>0 DEF HasSlot
  <2> DEFINE nodes == {q \in HasSlot : (IF q = p THEN w.count ELSE successCount[q]) > 0}
  <2>3. p \in nodes /\ nodes # {}
    BY <1>0, <2>1, <2>2, SMTT(30)
  <2>4. nodes \in SUBSET Nat
    BY SlotFacts DEF HasSlot
  <2>5. PICK k \in nodes : \A m \in nodes : k <= m
    <3> HIDE DEF nodes
    <3> QED BY <2>3, <2>4, LeastExists
  <2>6. (CHOOSE q \in nodes : \A r \in nodes : q <= r) \in nodes
    <3> HIDE DEF nodes
    <3> QED BY <2>5
  <2>7. node = IF w.keep # None /\ w.succeeded > 0 THEN w.keep
               ELSE IF nodes = {} THEN None
               ELSE CHOOSE q \in nodes : \A r \in nodes : q <= r
    BY <1>6 DEF ChosenNode
  <2>8. \A q \in nodes : q # None
    BY SlotFacts DEF HasSlot
  <2> HIDE DEF nodes
  <2> QED BY <2>3, <2>6, <2>7, <2>8, ZenonT(30)
<1>8. node \in Managed
  BY <1>0, <1>4, <1>6, <1>7, ChosenNodeOK, SMTT(30) DEF Inv
<1>9. node \in HasSlot /\ node \in Slot
  BY <1>8 DEF Managed, HasSlot
<1>10. CASE node = p
  <2>1. PICK s : s = SendKillToAllInstances(p, w, Everything)
    OBVIOUS
  <2>2. v \in KillAllButOneSuccessfulLocal(s)
    BY <1>6, <1>7, <1>10, <2>1, SMTT(30) DEF KillAllButOneSuccessful
  <2>3. Everything \in Command /\ Everything # Empty
    BY SlotFacts DEF Command
  <2>4. WorldOK(s) /\ \A q \in Slot : s.cmd[q] = IF q = p THEN commands[q] ELSE Everything
    <3>1. WorldOK(s) /\ \A q \in Slot : s.cmd[q] = IF q = p THEN w.cmd[q] ELSE Everything
      BY <1>4, <2>1, <2>3, SendKillOK, SMTT(30)
    <3> QED BY <1>4, <3>1
  <2>5. WorldOK(v) /\ v.active = 1 /\ v.cmd = s.cmd
    BY <2>2, <2>4, KillButOneLocalOK
  <2>6. PICK to \in {"run", "woken"} : pc' = [pc EXCEPT ![p] = to] /\ WriteBack(p, v)
    <3>1. CASE Select(p, v)
      BY <2>5, <3>1, SMTT(30) DEF Select
    <3>2. CASE GoTo(p, "woken", v)
      BY <3>2 DEF GoTo
    <3> QED BY <1>5, <3>1, <3>2, SMT
  <2>7. /\ pc'[p] = to /\ active'[p] = 1 /\ commands'[p] = Empty
        /\ \A q \in Slot \ {p} : pc'[q] = pc[q] /\ commands'[q] = Everything
    <3>1. /\ pc \in [Slot -> Stage] /\ active \in [Slot -> Nat]
          /\ commands[p] = Empty /\ commands' = v.cmd
      BY <1>1, <1>9, <1>10, <2>6, InvTyped, SMTT(30) DEF WriteBack
    <3> QED BY <2>4, <2>5, <2>6, <3>1, SMTT(30) DEF WriteBack
  <2>8. Safe(p)'
    BY <2>7, SMTT(30) DEF Safe
  <2>9. ASSUME NEW q \in Slot PROVE LetThrough(q)'
    BY <1>0, <1>2, <2>3, <2>7, SMTT(30) DEF LetThrough, Managed, HasSlot
  <2> QED BY <1>0, <2>8, <2>9, SMT DEF Surviving
<1>11. CASE node # p
  <2>1. PICK k : k = [w EXCEPT !.keep = node]
    BY ZenonT(30)
  <2>2. PICK s : s = SendKillToAllInstances(p, k, node)
    OBVIOUS
  <2>3. v = KillAll(s)
    BY <1>6, <1>7, <1>11, <2>1, <2>2, SMT DEF KillAllButOneSuccessful
  <2>4. WorldOK(k) /\ k.cmd = commands /\ k.succeeded = succeeded[p]
    BY <1>4, <1>9, <2>1, SlotFacts, SMT DEF WorldOK, Shape
  <2>5. node \in Command /\ node # Empty
    BY <1>9, SlotFacts, SMT DEF Command
  <2>6. WorldOK(s) /\ \A q \in Slot : s.cmd[q] = IF q = p THEN commands[q] ELSE node
    <3>1. WorldOK(s) /\ \A q \in Slot : s.cmd[q] = IF q = p THEN k.cmd[q] ELSE node
      BY <2>2, <2>4, <2>5, SendKillOK, SMTT(30)
    <3> QED BY <2>4, <3>1, SMT
  <2>7. WorldOK(v) /\ v.cmd = s.cmd
    BY <2>3, <2>6, KillAllOK
  <2>8. PICK to \in {"exit", "run", "woken"} : pc' = [pc EXCEPT ![p] = to] /\ WriteBack(p, v)
    <3>1. CASE Select(p, v)
      BY <3>1, ZenonT(30) DEF Select
    <3>2. CASE GoTo(p, "woken", v)
      BY <3>2 DEF GoTo
    <3> QED BY <1>5, <3>1, <3>2, SMTT(30)
  <2>9. /\ pc'[p] = to /\ commands'[p] = Empty
        /\ \A q \in Slot \ {p} : /\ pc'[q] = pc[q] /\ commands'[q] = node
                                 /\ succeeded'[q] = succeeded[q]
    <3>1. /\ pc \in [Slot -> Stage] /\ succeeded \in [Slot -> Nat]
          /\ p \in HasSlot /\ commands[p] = Empty /\ commands' = v.cmd
      BY <1>0, <1>1, <2>8, InvTyped, SMTT(30) DEF WriteBack, HasSlot
    <3> QED BY <2>6, <2>7, <2>8, <3>1, SMTT(30) DEF WriteBack
  <2>10. Safe(node)'
    BY <1>0, <1>1, <1>9, <1>11, <2>9, ZenonT(30) DEF Safe
  <2>11. ASSUME NEW q \in Slot PROVE LetThrough(q)'
    BY <1>0, <1>2, <2>5, <2>9, SMTT(30) DEF LetThrough, Managed, HasSlot
  <2> QED BY <1>0, <1>9, <2>10, <2>11, SMT DEF Surviving
<1> QED BY <1>10, <1>11

LEMMA InitSurviving == Init => Surviving
<1> SUFFICES ASSUME Init PROVE Surviving
  OBVIOUS
<1>1. 0 \in Slot
  BY ManagerAssumption, SMT DEF Slot
<1>2. Safe(0)
  BY <1>1, SMTT(30) DEF Init, Safe
<1>3. ASSUME NEW p \in Slot PROVE LetThrough(p)
  BY DEF Init, LetThrough
<1> QED BY <1>1, <1>2, <1>3 DEF Init, Surviving

LEMMA NextSurviving ==
    ASSUME ~Timeout, ~PathsEnd
    PROVE  Inv /\ Surviving /\ [Next]_vars => Surviving'
<1> SUFFICES ASSUME Inv, Surviving, [Next]_vars PROVE Surviving'
  OBVIOUS
<1>1. ASSUME NEW p \in Slot, Preempt(p) PROVE Surviving'
  <2>1. pc[p] = "run" /\ active[p] > 0
    BY <1>1, SMT DEF Preempt, Inv, Placed, TypeOK
  <2> QED BY <1>1, <2>1, RunningSurvives, ZenonT(30) DEF Preempt, shm, paths
<1>2. ASSUME NEW p \in Slot, ForkFails(p) PROVE Surviving'
  <2>1. pc[p] = "fork" /\ active[p] > 0
    BY <1>2, SMT DEF ForkFails, Inv, Placed, TypeOK
  <2> QED BY <1>2, <2>1, RunningSurvives, ZenonT(30) DEF ForkFails, shm, paths
<1>3. ASSUME NEW p \in Slot, Fork(p) PROVE Surviving'
  <2>1. /\ pc[p] = "run" /\ active'[p] > 0
        /\ \A q \in Slot \ {p} : active'[q] = active[q]
        /\ UNCHANGED <<suspendedProcesses, commands, succeeded, unborn>>
    BY <1>3, SMT DEF Fork, shm, Inv, Placed, TypeOK
  <2>2. PICK to \in {"run", "fork"} : pc' = [pc EXCEPT ![p] = to]
    <3>1. pc' = pc \/ pc' = [pc EXCEPT ![p] = "fork"]
      BY <1>3 DEF Fork
    <3>2. pc \in [Slot -> Stage]
      BY InvTyped
    <3>3. pc = [pc EXCEPT ![p] = "run"]
      BY <2>1, <3>2
    <3> QED BY <3>1, <3>3
  <2> QED BY <2>1, <2>2, RunningSurvives, ZenonT(30)
<1>4. ASSUME UNCHANGED <<commands, suspendedProcesses, pc, active, succeeded, unborn>>
      PROVE  Surviving'
  BY <1>4 DEF Surviving, Safe, LetThrough, Managed
<1>5. ASSUME NEW p \in Slot, ResetTimeout(p) PROVE Surviving'
  BY <1>4, <1>5 DEF ResetTimeout, paths
<1>6. ~TimePasses /\ \A p \in Slot : ~EndPath(p)
  BY DEF TimePasses, EndPath
<1>7. CASE UNCHANGED vars
  BY <1>4, <1>7 DEF vars, shm, paths
<1> QED BY <1>1, <1>2, <1>3, <1>5, <1>6, <1>7, SmCallbackSurvives, SuspendSurvives,
           WokenUpSurvives, AllSuspendedSurvives, AfterSuspensionSurvives, SucceedStateSurvives,
           ForkSucceedsSurvives, TakeSlotSurvives, OnProcessForkSurvives, ExitSurvives, SMTT(30) DEF
           Next

(* killAllButOneSuccessful (StateManager.cpp:494): where paths end at      *)
(* barriers only and no timeout is set, the kills of any number of         *)
(* processes, forking as they like, always leave a path.                   *)
THEOREM KillsLeaveAPath ==
    ASSUME ~Timeout, ~PathsEnd
    PROVE  Spec => []SomePathSurvives
<1>1. Init => Inv /\ Surviving
  BY InitInv, InitSurviving, SMTT(30)
<1>2. Inv /\ Surviving /\ [Next]_vars => (Inv /\ Surviving)'
  BY NextInv, NextSurviving
<1>3. Inv /\ Surviving => SomePathSurvives
  <2> SUFFICES ASSUME Inv, NEW p \in Slot, Safe(p) PROVE Living(p) > 0
    BY DEF Surviving, SomePathSurvives
  <2> QED BY InvTyped, SMT DEF Safe, Living
<1> QED BY <1>1, <1>2, <1>3, PTL DEF Spec

(* The shared counters, commands and keeper stay in their ranges, and so   *)
(* does the process count, as S2E::fork stops at getMaxProcesses.          *)
THEOREM TypesHold == Spec => []TypeOK
<1>1. Inv => TypeOK
  BY DEF Inv
<1> QED BY <1>1, InvHolds, PTL
=============================================================================
