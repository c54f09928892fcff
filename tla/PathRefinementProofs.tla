------------------------ MODULE PathRefinementProofs ------------------------
(***************************************************************************)
(* ExecutionStates implements PrivateMachines: step by step, what the      *)
(* engine does to its stores, caches and host state is what independent    *)
(* machines would do.                                                      *)
(***************************************************************************)
EXTENDS PathInvariantProofs

(* Zenon is the prover of a step unless it names another: SMT has those    *)
(* that need arithmetic or the extensionality of sets and records.         *)
USE Zenon

(* What the machine of each state holds, location by location. *)
Viewed ==
    /\ MachineView = [s \in State |-> [l \in Loc |-> MachineView[s][l]]]
    /\ \A s \in State \ live : \A l \in Loc : MachineView[s][l] = Clean
    /\ \A s \in live :
          /\ s \in conc => MachineView[s]["regs"] = hostRegs
          /\ s \notin conc => MachineView[s]["regs"] = Holds(s, "regs")
          /\ s \in active => /\ MachineView[s]["sys"] = hostSys
                             /\ MachineView[s]["dev"] = hostDev
                             /\ \A l \in Shared : MachineView[s][l] = hostMem[l]
          /\ s \notin active => /\ MachineView[s]["sys"] = Holds(s, "sys").val
                                /\ MachineView[s]["dev"] = dev[s]
                                /\ \A l \in Shared : MachineView[s][l] = Holds(s, l)
          /\ \A l \in Ram : MachineView[s][l] = Holds(s, l)

(* The locations of a machine are its pages, the registers, the CPU state  *)
(* and the devices.                                                        *)
LEMMA LocIs ==
    /\ \A l \in Loc : l \in Ram \/ l \in Shared \/ l = "regs" \/ l = "sys" \/ l = "dev"
    /\ "regs" \in Loc /\ "sys" \in Loc /\ "dev" \in Loc /\ Ram \subseteq Loc /\ Shared \subseteq Loc
    /\ "regs" # "sys" /\ "regs" # "dev" /\ "sys" # "dev"
BY DEF Loc

(* The invariant gives the view its shape. *)
LEMMA PathInvViewed == PathInv => Viewed
<1> SUFFICES ASSUME PathInv PROVE Viewed
    OBVIOUS
<1>0. live \subseteq State /\ conc \subseteq active
    BY DEF PathInv, Staged, Ownership, HeapType
<1>1. \A s \in State : MachineView[s] = IF s \in live THEN View(s) ELSE [l \in Loc |-> Clean]
    BY DEF MachineView
<1>2. ASSUME NEW s \in live
      PROVE  /\ View(s) = [l \in Loc |-> View(s)[l]]
             /\ View(s)["regs"] = IF s \in conc THEN hostRegs ELSE Holds(s, "regs")
             /\ View(s)["sys"] = IF s \in active THEN hostSys ELSE Holds(s, "sys").val
             /\ View(s)["dev"] = IF s \in active THEN hostDev ELSE dev[s]
             /\ \A l \in Ram : View(s)[l] = Holds(s, l)
             /\ \A l \in Shared : View(s)[l] = IF s \in active THEN hostMem[l] ELSE Holds(s, l)
  <2>1. ptr[s]["regs"] = obj[s]["regs"] /\ ptr[s]["sys"] = obj[s]["sys"]
    BY Objects, GetWriteableOwn DEF PathInv
  <2>2. View(s) = [l \in Loc |-> View(s)[l]]
    <3> DEFINE Seen(l) ==
            CASE l = "regs"   -> IF s \in active \cap conc THEN hostRegs
                                                         ELSE mem["regs"][ptr[s]["regs"]]
              [] l = "sys"    -> IF s \in active THEN hostSys ELSE mem["sys"][ptr[s]["sys"]].val
              [] l = "dev"    -> IF s \in active THEN hostDev ELSE dev[s]
              [] l \in Ram    -> mem[l][obj[s][l]]
              [] l \in Shared -> IF s \in active THEN hostMem[l] ELSE mem[l][obj[s][l]]
    <3>1. View(s) = [l \in Loc |-> Seen(l)]
      BY DEF View
    <3> HIDE DEF Seen
    <3> QED BY <3>1
  <2>3. View(s)["regs"] = IF s \in conc THEN hostRegs ELSE Holds(s, "regs")
    <3>1. View(s)["regs"] = IF s \in active \cap conc THEN hostRegs
                                                     ELSE mem["regs"][ptr[s]["regs"]]
      BY LocIs, Objects DEF View
    <3>2. s \in active \cap conc <=> s \in conc
      BY <1>0
    <3> QED BY <2>1, <3>1, <3>2 DEF Holds
  <2>4. View(s)["sys"] = IF s \in active THEN hostSys ELSE Holds(s, "sys").val
    BY <2>1, LocIs, Objects DEF View, Holds
  <2>5. View(s)["dev"] = IF s \in active THEN hostDev ELSE dev[s]
    BY LocIs, Objects DEF View
  <2>6. ASSUME NEW l \in Ram PROVE View(s)[l] = Holds(s, l)
    <3>1. l \in Loc /\ l # "regs" /\ l # "sys" /\ l # "dev" /\ l \notin Shared
      BY LocIs, Objects
    <3> QED BY <3>1 DEF View, Holds
  <2>7. ASSUME NEW l \in Shared
        PROVE  View(s)[l] = IF s \in active THEN hostMem[l] ELSE Holds(s, l)
    <3>1. l \in Loc /\ l # "regs" /\ l # "sys" /\ l # "dev" /\ l \notin Ram
      BY LocIs, Objects
    <3> QED BY <3>1 DEF View, Holds
  <2> QED BY <2>2, <2>3, <2>4, <2>5, <2>6, <2>7
<1>3. MachineView = [s \in State |-> [l \in Loc |-> MachineView[s][l]]]
  <2>1. MachineView = [s \in State |-> MachineView[s]]
    BY DEF MachineView
  <2>2. \A s \in State : MachineView[s] = [l \in Loc |-> MachineView[s][l]]
    BY <1>1, <1>2
  <2> QED BY <2>1, <2>2
<1>4. \A s \in live : MachineView[s] = View(s)
    BY <1>0, <1>1
<1>5. \A s \in State \ live : \A l \in Loc : MachineView[s][l] = Clean
    BY <1>1
<1>6. ASSUME NEW s \in live
      PROVE  /\ s \in conc => MachineView[s]["regs"] = hostRegs
             /\ s \notin conc => MachineView[s]["regs"] = Holds(s, "regs")
             /\ s \in active => /\ MachineView[s]["sys"] = hostSys
                                /\ MachineView[s]["dev"] = hostDev
                                /\ \A l \in Shared : MachineView[s][l] = hostMem[l]
             /\ s \notin active => /\ MachineView[s]["sys"] = Holds(s, "sys").val
                                   /\ MachineView[s]["dev"] = dev[s]
                                   /\ \A l \in Shared : MachineView[s][l] = Holds(s, l)
             /\ \A l \in Ram : MachineView[s][l] = Holds(s, l)
  <2>1. MachineView[s] = View(s)
    BY <1>4
  <2> QED BY <1>2, <2>1, SMTT(30)
<1> QED BY <1>3, <1>5, <1>6 DEF Viewed

(* The same after a step. *)
LEMMA PathInvViewedNext == (PathInv => Viewed)'
    BY PathInvViewed, PTL

(* Two tables of machines that agree everywhere are equal. *)
LEMMA SameMachines ==
    ASSUME NEW f, f = [s \in State |-> [l \in Loc |-> f[s][l]]],
           NEW g, g = [s \in State |-> [l \in Loc |-> g[s][l]]],
           \A s \in State, l \in Loc : f[s][l] = g[s][l]
    PROVE  f = g
<1>1. \A s \in State : f[s] = g[s]
  <2> SUFFICES ASSUME NEW s \in State PROVE f[s] = g[s]
    OBVIOUS
  <2>1. f[s] = [l \in Loc |-> f[s][l]] /\ g[s] = [l \in Loc |-> g[s][l]]
    OBVIOUS
  <2> QED BY <2>1
<1>2. f = [s \in State |-> f[s]] /\ g = [s \in State |-> g[s]]
    OBVIOUS
<1> QED BY <1>1, <1>2

(* Changing one location of one machine. *)
LEMMA OneLocation ==
    ASSUME NEW f, f = [s \in State |-> [l \in Loc |-> f[s][l]]],
           NEW g, g = [s \in State |-> [l \in Loc |-> g[s][l]]],
           NEW r \in State, NEW k \in Loc, NEW v, g[r][k] = v,
           \A s \in State, l \in Loc : s # r \/ l # k => g[s][l] = f[s][l]
    PROVE  g = [f EXCEPT ![r][k] = v]
<1> DEFINE h == [f EXCEPT ![r] = [f[r] EXCEPT ![k] = v]]
<1>1. f[r] = [l \in Loc |-> f[r][l]] /\ f = [s \in State |-> f[s]]
    OBVIOUS
<1>2. \A s \in State : s # r => h[s] = f[s]
    BY <1>1
<1>3. h[r] = [f[r] EXCEPT ![k] = v]
    BY <1>1
<1>4. h[r] = [l \in Loc |-> IF l = k THEN v ELSE f[r][l]]
    BY <1>1, <1>3
<1>5. h = [s \in State |-> h[s]]
    BY <1>1
<1> HIDE DEF h
<1>6. \A s \in State : h[s] = g[s]
  <2> SUFFICES ASSUME NEW s \in State PROVE h[s] = g[s]
    OBVIOUS
  <2>1. g[s] = [l \in Loc |-> g[s][l]] /\ f[s] = [l \in Loc |-> f[s][l]]
    OBVIOUS
  <2>2. CASE s = r
    BY <1>4, <2>1, <2>2
  <2>3. CASE s # r
    BY <1>2, <2>1, <2>3
  <2> QED BY <2>2, <2>3
<1>7. g = [s \in State |-> g[s]]
    OBVIOUS
<1>8. g = h
    BY <1>5, <1>6, <1>7
<1> QED BY <1>8 DEF h

(* The abstract machines have the same states and locations. *)
LEMMA MachinesConstants ==
    /\ Machines!State = State /\ Machines!Loc = Loc /\ Machines!NoState = 0
    /\ Machines!Blank = [l \in Loc |-> Clean]
BY DEF Machines!State, State, Machines!Loc, Loc, Machines!NoState, Machines!Blank

(* A step of the running state that changes location k of the machine of   *)
(* state r, in its store or in the host, shows nowhere else.               *)
LEMMA OthersStay ==
    ASSUME PathInv, PathInv', Ongoing, NEW r \in live, NEW k \in Loc,
           \A s \in live, mo \in MO : s # r \/ mo # k => Holds(s, mo)' = Holds(s, mo),
           r # cur => UNCHANGED <<host, conc>>,
           k # "regs" => UNCHANGED <<hostRegs, conc>>,
           k # "sys" => UNCHANGED hostSys,
           k # "dev" => UNCHANGED hostDev,
           \A m \in Shared : m # k => hostMem'[m] = hostMem[m]
    PROVE  \A s \in State, l \in Loc : s # r \/ l # k => MachineView'[s][l] = MachineView[s][l]
<1>1. active = {cur} /\ cur \in live /\ active' = {cur} /\ live' = live /\ dev' = dev
      /\ conc \subseteq {cur} /\ conc' \subseteq {cur}
    BY OngoingStage DEF Ongoing, PathInv, Staged
<1>2. Viewed /\ Viewed'
    BY PathInvViewed, PathInvViewedNext
<1> SUFFICES ASSUME NEW s \in State, NEW l \in Loc, s # r \/ l # k
             PROVE  MachineView'[s][l] = MachineView[s][l]
    OBVIOUS
<1>3. CASE s \notin live
    BY <1>1, <1>2, <1>3, SMTT(30) DEF Viewed
<1>4. CASE s \in live /\ s # cur
  <2>1. ASSUME NEW mo \in MO, mo = l PROVE Holds(s, mo)' = Holds(s, mo)
    BY <1>4, <2>1
  <2>2. s \notin conc /\ s \notin conc' /\ s \notin active /\ s \notin active' /\ s \in live'
    BY <1>1, <1>4
  <2>3. /\ MachineView[s]["regs"] = Holds(s, "regs") /\ MachineView[s]["sys"] = Holds(s, "sys").val
        /\ MachineView[s]["dev"] = dev[s]
        /\ \A m \in Shared \cup Ram : MachineView[s][m] = Holds(s, m)
    BY <1>2, <1>4, <2>2, ZenonT(30) DEF Viewed
  <2>4. /\ MachineView'[s]["regs"] = Holds(s, "regs")'
        /\ MachineView'[s]["sys"] = Holds(s, "sys")'.val /\ MachineView'[s]["dev"] = dev'[s]
        /\ \A m \in Shared \cup Ram : MachineView'[s][m] = Holds(s, m)'
    BY <1>2, <1>4, <2>2, SMT DEF Viewed
  <2>5. CASE l \in {"regs", "sys", "dev"}
    BY <1>1, <2>1, <2>3, <2>4, <2>5, Objects
  <2>6. CASE l \in Shared \cup Ram
    BY <2>1, <2>3, <2>4, <2>6, Objects
  <2> QED BY <2>5, <2>6, LocIs
<1>5. CASE s \in live /\ s = cur
  <2>1. s \in active /\ s \in active' /\ s \in live'
    BY <1>1, <1>5
  <2>2. /\ s \in conc => MachineView[s]["regs"] = hostRegs
        /\ s \notin conc => MachineView[s]["regs"] = Holds(s, "regs")
        /\ MachineView[s]["sys"] = hostSys /\ MachineView[s]["dev"] = hostDev
        /\ \A m \in Shared : MachineView[s][m] = hostMem[m]
        /\ \A m \in Ram : MachineView[s][m] = Holds(s, m)
    BY <1>2, <1>5, <2>1 DEF Viewed
  <2>3. /\ s \in conc' => MachineView'[s]["regs"] = hostRegs'
        /\ s \notin conc' => MachineView'[s]["regs"] = Holds(s, "regs")'
        /\ MachineView'[s]["sys"] = hostSys' /\ MachineView'[s]["dev"] = hostDev'
        /\ \A m \in Shared : MachineView'[s][m] = hostMem'[m]
        /\ \A m \in Ram : MachineView'[s][m] = Holds(s, m)'
    BY <1>2, <1>5, <2>1 DEF Viewed
  <2>4. CASE l = "regs"
    <3>1. Holds(s, "regs")' = Holds(s, "regs")
      BY <1>5, <2>4, Objects
    <3>2. hostRegs' = hostRegs /\ conc' = conc
      BY <1>5, <2>4 DEF host
    <3> QED BY <2>2, <2>3, <2>4, <3>1, <3>2
  <2>5. CASE l \in {"sys", "dev"}
    BY <1>5, <2>2, <2>3, <2>5 DEF host
  <2>6. CASE l \in Ram
    <3>1. Holds(s, l)' = Holds(s, l)
      BY <1>5, <2>6, Objects
    <3> QED BY <2>2, <2>3, <2>6, <3>1
  <2>7. CASE l \in Shared
    BY <1>5, <2>2, <2>3, <2>7, SMTT(30) DEF host
  <2> QED BY <2>4, <2>5, <2>6, <2>7, LocIs
<1> QED BY <1>3, <1>4, <1>5

(* One changed location is a write by the running machine, or a change of  *)
(* a stopped one from outside.                                             *)
LEMMA OneChange ==
    ASSUME PathInv, PathInv', Ongoing, NEW r \in live, NEW k \in Loc, NEW v,
           MachineView'[r][k] = v,
           \A s \in State, l \in Loc : s # r \/ l # k => MachineView'[s][l] = MachineView[s][l]
    PROVE  /\ r = cur => Machines!Write(k, v)
           /\ k = "sys" => Machines!Poke(r, v)
           /\ v = MachineView[r][k] => UNCHANGED Machines!pmVars
<1>1. /\ live' = live /\ Runner' = Runner /\ Runner = cur /\ cur \in live /\ r \in State
    BY OngoingStage DEF Ongoing, Runner, PathInv, Ownership, HeapType
<1>2. Viewed /\ Viewed'
    BY PathInvViewed, PathInvViewedNext
<1>3. /\ MachineView = [s \in State |-> [l \in Loc |-> MachineView[s][l]]]
      /\ MachineView' = [s \in State |-> [l \in Loc |-> MachineView'[s][l]]]
    BY <1>2 DEF Viewed
<1>4. MachineView' = [MachineView EXCEPT ![r][k] = v]
    BY <1>1, <1>3, OneLocation, SMTT(30)
<1>5. r = cur => Machines!Write(k, v)
    BY <1>1, <1>4 DEF Machines!Write
<1>6. k = "sys" => Machines!Poke(r, v)
    BY <1>1, <1>4 DEF Machines!Poke
<1>7. ASSUME v = MachineView[r][k] PROVE UNCHANGED Machines!pmVars
  <2>1. \A s \in State, l \in Loc : MachineView'[s][l] = MachineView[s][l]
    BY <1>7
  <2>2. MachineView' = MachineView
    BY <1>3, <2>1, SameMachines
  <2> QED BY <1>1, <2>2 DEF Machines!pmVars
<1> QED BY <1>5, <1>6, <1>7

(* What the running machine shows. *)
LEMMA CurrentShows ==
    ASSUME PathInv, PathInv', Ongoing
    PROVE  /\ cur \in conc => MachineView[cur]["regs"] = hostRegs
           /\ cur \notin conc => MachineView[cur]["regs"] = Holds(cur, "regs")
           /\ \A m \in Ram : MachineView[cur][m] = Holds(cur, m)
           /\ \A m \in Shared : MachineView[cur][m] = hostMem[m]
           /\ cur \in conc' => MachineView'[cur]["regs"] = hostRegs'
           /\ cur \notin conc' => MachineView'[cur]["regs"] = mem'["regs"][obj'[cur]["regs"]]
           /\ MachineView'[cur]["sys"] = hostSys' /\ MachineView'[cur]["dev"] = hostDev'
           /\ \A m \in Shared : MachineView'[cur][m] = hostMem'[m]
           /\ \A m \in Ram : MachineView'[cur][m] = mem'[m][obj'[cur][m]]
<1>1. active = {cur} /\ cur \in live /\ active' = {cur} /\ live' = live
    BY OngoingStage DEF Ongoing
<1>2. Viewed /\ Viewed'
    BY PathInvViewed, PathInvViewedNext
<1>3. /\ cur \in conc => MachineView[cur]["regs"] = hostRegs
      /\ cur \notin conc => MachineView[cur]["regs"] = Holds(cur, "regs")
      /\ \A m \in Ram : MachineView[cur][m] = Holds(cur, m)
      /\ \A m \in Shared : MachineView[cur][m] = hostMem[m]
    BY <1>1, <1>2 DEF Viewed
<1>4. ASSUME NEW s, s = cur
      PROVE  /\ s \in conc' => MachineView'[s]["regs"] = hostRegs'
             /\ s \notin conc' => MachineView'[s]["regs"] = Holds(s, "regs")'
             /\ MachineView'[s]["sys"] = hostSys' /\ MachineView'[s]["dev"] = hostDev'
             /\ \A m \in Shared : MachineView'[s][m] = hostMem'[m]
             /\ \A m \in Ram : MachineView'[s][m] = Holds(s, m)'
  <2>1. s \in active' /\ s \in live'
    BY <1>1, <1>4
  <2> QED BY <1>2, <2>1 DEF Viewed
<1> QED BY <1>3, <1>4 DEF Holds

(* A store through the address space or by DMA is a write of the running   *)
(* machine.                                                                *)
LEMMA StoreRefines ==
    ASSUME PathInv, PathInv', NEW mo \in Page, NEW v \in Value,
           WriteMemory(mo, v) \/ DmaWrite(mo, v)
    PROVE  Machines!Write(mo, v)
<1> DEFINE c == IF mo \in Ram THEN v ELSE Holds(cur, mo)
<1>1. /\ Ongoing /\ conc' = conc
      /\ Rebinds(cur, mo, Own(cur), c)
      /\ hostMem' = [m \in Shared |-> IF m = mo THEN v ELSE hostMem[m]]
      /\ UNCHANGED <<ptr, hostRegs, hostSys, hostDev>>
    BY StoreIs
<1>2. PICK a \in live : a = cur
    BY DEF PathInv, Ownership, HeapType
<1>3. mo \in MO /\ mo \in Loc /\ live' = live /\ (mo \in Ram \/ mo \in Shared)
      /\ mo # "regs" /\ mo # "sys" /\ mo # "dev"
    BY <1>1, Objects, LocIs DEF Ongoing
<1>4. /\ mem'[mo][obj'[cur][mo]] = c
      /\ \A s \in live, m \in MO : s # cur \/ m # mo =>
            Holds(s, m)' = Holds(s, m) /\ obj'[s][m] = obj[s][m]
  <2> HIDE DEF c
  <2> QED BY <1>1, <1>3, AccessHolds
<1>5. \A s \in State, l \in Loc : s # a \/ l # mo => MachineView'[s][l] = MachineView[s][l]
    BY <1>1, <1>2, <1>3, <1>4, OthersStay, SMTT(30)
<1>6. MachineView'[cur][mo] = v
  <2>1. CASE mo \in Ram
    <3>1. MachineView'[cur][mo] = mem'[mo][obj'[cur][mo]]
      BY <1>1, <2>1, CurrentShows
    <3>2. mem'[mo][obj'[cur][mo]] = v
      BY <1>4, <2>1
    <3> QED BY <3>1, <3>2
  <2>2. CASE mo \in Shared
    BY <1>1, <2>2, CurrentShows
  <2> QED BY <1>3, <2>1, <2>2
<1> QED BY <1>1, <1>2, <1>3, <1>5, <1>6, OneChange

(* Filling a TLB entry shows nothing. *)
LEMMA UpdateTlbRefines ==
    ASSUME PathInv, PathInv', NEW mo \in Page, UpdateTlbEntry(mo)
    PROVE  UNCHANGED Machines!pmVars
<1>1. Ongoing /\ conc' = conc /\ UNCHANGED <<ptr, hostRegs, hostSys, hostMem, hostDev>>
    BY UpdateTlbIs
<1>2. PICK a \in live : a = cur
    BY DEF PathInv, Ownership, HeapType
<1>3. PICK new \in {obj[cur][mo], Own(cur)} :
          Rebinds(cur, mo, new, Holds(cur, mo))
    BY UpdateTlbIs
<1>4. mo \in MO /\ mo \in Loc /\ live' = live /\ (mo \in Ram \/ mo \in Shared)
      /\ mo # "regs" /\ mo # "sys" /\ mo # "dev"
    BY <1>1, Objects, LocIs DEF Ongoing
<1>5. /\ mem'[mo][obj'[cur][mo]] = Holds(cur, mo)
      /\ \A s \in live, m \in MO : s # cur \/ m # mo =>
            Holds(s, m)' = Holds(s, m) /\ obj'[s][m] = obj[s][m]
    BY <1>1, <1>3, <1>4, AccessHolds
<1>6. \A s \in State, l \in Loc : s # a \/ l # mo => MachineView'[s][l] = MachineView[s][l]
    BY <1>1, <1>2, <1>4, <1>5, OthersStay, SMTT(30)
<1>7. MachineView'[cur][mo] = MachineView[cur][mo]
  <2>1. CASE mo \in Ram
    <3>1. /\ MachineView'[cur][mo] = mem'[mo][obj'[cur][mo]]
          /\ MachineView[cur][mo] = Holds(cur, mo)
      BY <1>1, <2>1, CurrentShows
    <3>2. mem'[mo][obj'[cur][mo]] = Holds(cur, mo)
      BY <1>5
    <3> QED BY <3>1, <3>2
  <2>2. CASE mo \in Shared
    BY <1>1, <2>2, CurrentShows
  <2> QED BY <1>4, <2>1, <2>2
<1> QED BY <1>1, <1>2, <1>4, <1>6, <1>7, OneChange

(* A native store that hits the TLB is a write of the running machine. *)
LEMMA FastStoreRefines ==
    ASSUME PathInv, PathInv', NEW mo \in Page, NEW v \in Value, FastStore(mo, v)
    PROVE  Machines!Write(mo, v)
<1>1. Ongoing /\ conc' = conc
    BY FastStoreIs
<1>2. cur \in live /\ live' = live /\ mo \in MO /\ mo \in Loc
      /\ mo # "regs" /\ mo # "sys" /\ mo # "dev"
    BY <1>1, OngoingStage, Objects, LocIs DEF Ongoing
<1>3. CASE mo \in Ram /\ obj[cur][mo] = Own(cur)
           /\ mem' = [mem EXCEPT ![mo] = [mem[mo] EXCEPT ![obj[cur][mo]] = v]]
           /\ UNCHANGED <<obj, cache, host>>
  <2>1. PICK a \in live : a = cur
    BY <1>2
  <2>2. /\ Holds(a, mo)' = v
        /\ \A s \in live, m \in MO : s # a \/ m # mo => Holds(s, m)' = Holds(s, m)
    BY <1>2, <1>3, <2>1, StoreInPlace DEF PathInv
  <2>3. UNCHANGED <<hostRegs, hostSys, hostMem, hostDev>>
    BY <1>3 DEF host
  <2>4. \A s \in State, l \in Loc : s # cur \/ l # mo => MachineView'[s][l] = MachineView[s][l]
    BY <1>1, <1>2, <2>1, <2>2, <2>3, OthersStay, SMTT(30)
  <2>5. MachineView'[cur][mo] = v
    BY <1>1, <1>3, <2>1, <2>2, CurrentShows, SMTT(30) DEF Holds
  <2> QED BY <1>1, <1>2, <2>4, <2>5, OneChange
<1>4. CASE mo \in Shared /\ hostMem' = [hostMem EXCEPT ![mo] = v]
           /\ UNCHANGED <<heap, hostRegs, hostSys, hostTlb, hostDev>>
  <2>1. \A s \in live, m \in MO : Holds(s, m)' = Holds(s, m)
    BY <1>4 DEF Holds, heap
  <2>2. hostMem'[mo] = v /\ \A m \in Shared : m # mo => hostMem'[m] = hostMem[m]
    BY <1>4 DEF PathInv, HostType
  <2>4. \A s \in State, l \in Loc : s # cur \/ l # mo => MachineView'[s][l] = MachineView[s][l]
    BY <1>1, <1>2, <1>4, <2>1, <2>2, OthersStay
  <2>5. MachineView'[cur][mo] = v
    BY <1>1, <1>4, <2>2, CurrentShows
  <2> QED BY <1>1, <1>2, <2>4, <2>5, OneChange
<1> QED BY <1>3, <1>4, FastStoreIs

(* Steps that leave the stores alone and change one location of the host.  *)
LEMMA HostStepRefines ==
    ASSUME PathInv, PathInv', Ongoing, UNCHANGED <<mem, obj>>, NEW k \in Loc, NEW v,
           k # "regs" => UNCHANGED <<hostRegs, conc>>,
           k # "sys" => UNCHANGED hostSys,
           k # "dev" => UNCHANGED hostDev,
           \A m \in Shared : m # k => hostMem'[m] = hostMem[m],
           MachineView'[cur][k] = v
    PROVE  /\ Machines!Write(k, v)
           /\ v = MachineView[cur][k] => UNCHANGED Machines!pmVars
<1>1. \A s \in live, m \in MO : Holds(s, m)' = Holds(s, m)
    BY DEF Holds
<1>2. cur \in live
    BY OngoingStage
<1>3. \A s \in State, l \in Loc : s # cur \/ l # k => MachineView'[s][l] = MachineView[s][l]
    BY <1>1, <1>2, OthersStay
<1> QED BY <1>2, <1>3, OneChange

(* A DMA read shows nothing. *)
LEMMA DmaReadRefines ==
    ASSUME PathInv, PathInv', NEW mo \in Page, DmaRead(mo)
    PROVE  UNCHANGED Machines!pmVars
<1>1. Ongoing /\ conc' = conc /\ UNCHANGED <<mem, obj, hostRegs, hostSys, hostDev, hostMem>>
    BY DEF DmaRead, Ongoing, control, host
<1>2. MachineView'[cur]["dev"] = MachineView[cur]["dev"]
    BY <1>1, OngoingStage, PathInvViewed, CurrentShows DEF Viewed
<1> QED BY <1>1, <1>2, LocIs, HostStepRefines

(* Steps that change the host only. *)
LEMMA HostWriteRefines ==
    ASSUME PathInv, PathInv', NEW v \in Value
    PROVE  /\ TlbFlush => UNCHANGED Machines!pmVars
           /\ WriteDirtyMask(v) => Machines!Write(Dirty, v)
           /\ DeviceStep(v) => Machines!Write("dev", v)
<1>1. ASSUME TlbFlush PROVE UNCHANGED Machines!pmVars
  <2>1. Ongoing /\ conc' = conc /\ UNCHANGED <<mem, obj, hostRegs, hostSys, hostDev, hostMem>>
    BY <1>1 DEF TlbFlush, Ongoing, control, heap
  <2>2. MachineView'[cur]["dev"] = MachineView[cur]["dev"]
    BY <2>1, OngoingStage, PathInvViewed, CurrentShows DEF Viewed
  <2> QED BY <2>1, <2>2, LocIs, HostStepRefines
<1>2. ASSUME WriteDirtyMask(v) PROVE Machines!Write(Dirty, v)
  <2>1. /\ Ongoing /\ conc' = conc /\ UNCHANGED <<mem, obj, hostRegs, hostSys, hostDev>>
        /\ hostMem' = [hostMem EXCEPT ![Dirty] = v]
    BY <1>2 DEF WriteDirtyMask, Ongoing, control, heap
  <2>2. Dirty \in Shared /\ Dirty \in Loc
    BY Objects, LocIs
  <2>3. hostMem'[Dirty] = v /\ \A m \in Shared : m # Dirty => hostMem'[m] = hostMem[m]
    BY <2>1, <2>2 DEF PathInv, HostType
  <2>4. MachineView'[cur][Dirty] = v
    BY <2>1, <2>2, <2>3, CurrentShows
  <2> QED BY <2>1, <2>2, <2>3, <2>4, HostStepRefines
<1>3. ASSUME DeviceStep(v) PROVE Machines!Write("dev", v)
  <2>1. /\ Ongoing /\ conc' = conc /\ UNCHANGED <<mem, obj, hostRegs, hostSys, hostMem>>
        /\ hostDev' = v
    BY <1>3 DEF DeviceStep, Ongoing, control, heap
  <2>2. MachineView'[cur]["dev"] = v
    BY <2>1, CurrentShows
  <2> QED BY <2>1, <2>2, LocIs, HostStepRefines
<1> QED BY <1>1, <1>2, <1>3

(* A store of the running state into its pinned register object. *)
LEMMA RegsStoreRefines ==
    ASSUME PathInv, PathInv', Ongoing, NEW v, cur \notin conc',
           obj[cur]["regs"] = Own(cur),
           mem' = [mem EXCEPT !["regs"] = [mem["regs"] EXCEPT ![obj[cur]["regs"]] = v]],
           UNCHANGED <<obj, host>>
    PROVE  /\ Machines!Write("regs", v)
           /\ v = MachineView[cur]["regs"] => UNCHANGED Machines!pmVars
<1>1. cur \in live /\ live' = live /\ "regs" \in MO
    BY OngoingStage, Objects DEF Ongoing
<1>2. PICK a \in live : a = cur
    BY <1>1
<1>3. /\ Holds(a, "regs")' = v
      /\ \A s \in live, m \in MO : s # a \/ m # "regs" => Holds(s, m)' = Holds(s, m)
    BY <1>1, <1>2, StoreInPlace, ZenonT(30) DEF PathInv
<1>4. UNCHANGED <<hostRegs, hostSys, hostMem, hostDev>>
    BY DEF host
<1>5. \A s \in State, l \in Loc : s # cur \/ l # "regs" => MachineView'[s][l] = MachineView[s][l]
    BY <1>1, <1>2, <1>3, <1>4, LocIs, OthersStay, SMT
<1>6. MachineView'[cur]["regs"] = v
    BY <1>2, <1>3, CurrentShows DEF Holds
<1> QED BY <1>1, <1>5, <1>6, LocIs, OneChange

(* A register write is a write of the running machine, in either mode. *)
LEMMA WriteCpuRegisterRefines ==
    ASSUME PathInv, PathInv', NEW v \in Value, WriteCpuRegister(v)
    PROVE  Machines!Write("regs", v)
<1>1. Ongoing /\ conc' = conc
    BY WriteCpuRegisterIs
<1>2. CASE cur \in conc /\ hostRegs' = v
           /\ UNCHANGED <<heap, hostSys, hostTlb, hostMem, hostDev>>
  <2>1. UNCHANGED <<mem, obj>>
    BY <1>2 DEF heap
  <2>2. MachineView'[cur]["regs"] = v
    BY <1>1, <1>2, CurrentShows
  <2> QED BY <1>1, <1>2, <2>1, <2>2, LocIs, HostStepRefines
<1>3. CASE cur \notin conc /\ obj[cur]["regs"] = Own(cur)
           /\ mem' = [mem EXCEPT !["regs"] = [mem["regs"] EXCEPT ![obj[cur]["regs"]] = v]]
           /\ UNCHANGED <<obj, cache, host>>
    BY <1>1, <1>3, RegsStoreRefines
<1> QED BY <1>2, <1>3, WriteCpuRegisterIs

(* Switching between concrete and symbolic mode copies the registers and   *)
(* shows nothing.                                                          *)
LEMMA SwitchRefines ==
    ASSUME PathInv, PathInv', SwitchToConcrete \/ SwitchToSymbolic
    PROVE  UNCHANGED Machines!pmVars
<1>1. cur \in live /\ "regs" \in MO
    BY Objects DEF PathInv, Ownership, HeapType
<1>2. ptr[cur]["regs"] = obj[cur]["regs"] /\ obj[cur]["regs"] = Own(cur)
    BY <1>1, Objects, GetWriteableOwn, SMT DEF PathInv
<1>3. CASE SwitchToConcrete
  <2>1. /\ Ongoing /\ cur \notin conc /\ cur \in conc'
        /\ UNCHANGED <<mem, obj, hostSys, hostMem, hostDev>>
    BY <1>3 DEF SwitchToConcrete, Ongoing, heap
  <2>2. hostRegs' = Holds(cur, "regs")
    BY <1>2, <1>3 DEF SwitchToConcrete, Holds
  <2>3. MachineView'[cur]["regs"] = MachineView[cur]["regs"]
    BY <2>1, <2>2, CurrentShows
  <2> QED BY <2>1, <2>3, LocIs, HostStepRefines
<1>4. CASE SwitchToSymbolic
  <2>1. /\ Ongoing /\ cur \in conc /\ cur \notin conc' /\ UNCHANGED <<obj, host>>
        /\ mem' = [mem EXCEPT !["regs"][obj[cur]["regs"]] = hostRegs]
    BY <1>2, <1>4 DEF SwitchToSymbolic, Ongoing
  <2>2. mem' = [mem EXCEPT !["regs"] = [mem["regs"] EXCEPT ![obj[cur]["regs"]] = hostRegs]]
    BY <2>1
  <2>3. MachineView[cur]["regs"] = hostRegs
    BY <2>1, CurrentShows
  <2> QED BY <1>2, <2>1, <2>2, <2>3, RegsStoreRefines
<1> QED BY <1>3, <1>4

(* writeCpuState writes the running machine or pokes a stopped one. *)
LEMMA WriteCpuStateRefines ==
    ASSUME PathInv, PathInv', NEW s \in live, NEW v \in Value, WriteCpuState(s, v)
    PROVE  Machines!Write("sys", v) \/ Machines!Poke(s, v)
<1>1. Ongoing /\ conc' = conc
    BY WriteCpuStateIs
<1>2. CASE s = cur /\ hostSys' = v /\ UNCHANGED <<heap, hostRegs, hostTlb, hostMem, hostDev>>
  <2>1. UNCHANGED <<mem, obj>>
    BY <1>2 DEF heap
  <2>2. MachineView'[cur]["sys"] = v
    BY <1>1, <1>2, CurrentShows
  <2>3. Machines!Write("sys", v)
    BY <1>1, <1>2, <2>1, <2>2, LocIs, HostStepRefines
  <2> QED BY <2>3
<1>3. CASE s \notin active /\ obj[s]["sys"] = Own(s)
           /\ mem' = [mem EXCEPT !["sys"] = [mem["sys"] EXCEPT ![obj[s]["sys"]] =
                          [val |-> v, tlb |-> Holds(s, "sys").tlb]]]
           /\ UNCHANGED <<obj, cache, host>>
  <2> DEFINE c == [val |-> v, tlb |-> Holds(s, "sys").tlb]
  <2>1. active = {cur} /\ live' = live /\ active' = active /\ "sys" \in MO
    BY <1>1, OngoingStage, Objects DEF Ongoing
  <2>2. mem' = [mem EXCEPT !["sys"] = [mem["sys"] EXCEPT ![obj[s]["sys"]] = c]]
    BY <1>3
  <2>3. c.val = v
    OBVIOUS
  <2> HIDE DEF c
  <2>4. /\ Holds(s, "sys")' = c
        /\ \A r \in live, m \in MO : r # s \/ m # "sys" => Holds(r, m)' = Holds(r, m)
    BY <1>3, <2>1, <2>2, StoreInPlace, ZenonT(30) DEF PathInv
  <2>5. UNCHANGED <<host, hostRegs, hostSys, hostMem, hostDev>>
    BY <1>3 DEF host
  <2>6. \A r \in State, l \in Loc : r # s \/ l # "sys" => MachineView'[r][l] = MachineView[r][l]
    BY <1>1, <2>1, <2>4, <2>5, LocIs, OthersStay
  <2>7. MachineView'[s]["sys"] = v
    <3>1. Viewed'
      BY PathInvViewedNext
    <3>2. s \in live' /\ s \notin active'
      BY <1>3, <2>1
    <3> QED BY <2>3, <2>4, <3>1, <3>2 DEF Viewed
  <2>8. Machines!Poke(s, v)
    BY <1>1, <2>6, <2>7, LocIs, OneChange
  <2> QED BY <2>8
<1> QED BY <1>2, <1>3, WriteCpuStateIs

(* What is saved for a state that stops is what its machine showed. *)
LEMMA SavesShow ==
    ASSUME PathInv, NEW S, S \subseteq active, NEW s \in live, s \in S \/ s \notin active
    PROVE  /\ Saves(S, s, "regs") = MachineView[s]["regs"]
           /\ Saves(S, s, "sys").val = MachineView[s]["sys"]
           /\ SavedDevs(S)[s] = MachineView[s]["dev"]
           /\ \A m \in Shared \cup Ram : Saves(S, s, m) = MachineView[s][m]
<1>1. /\ s \in conc => MachineView[s]["regs"] = hostRegs
      /\ s \notin conc => MachineView[s]["regs"] = Holds(s, "regs")
      /\ s \in active => /\ MachineView[s]["sys"] = hostSys
                         /\ MachineView[s]["dev"] = hostDev
                         /\ \A l \in Shared : MachineView[s][l] = hostMem[l]
      /\ s \notin active => /\ MachineView[s]["sys"] = Holds(s, "sys").val
                            /\ MachineView[s]["dev"] = dev[s]
                            /\ \A l \in Shared : MachineView[s][l] = Holds(s, l)
      /\ \A l \in Ram : MachineView[s][l] = Holds(s, l)
    BY PathInvViewed DEF Viewed
<1>2. conc \subseteq active
    BY DEF PathInv, Staged
<1>3. SavedDevs(S)[s] = IF s \in S THEN hostDev ELSE dev[s]
    BY DEF SavedDevs
<1>4. \A m \in Ram : Saves(S, s, m) = Holds(s, m)
    BY DEF Saves
<1>5. CASE s \notin S
  <2>1. \A m : Saves(S, s, m) = Holds(s, m)
    BY <1>5 DEF Saves
  <2> QED BY <1>1, <1>2, <1>3, <1>4, <1>5, <2>1
<1>6. CASE s \in S
  <2>1. \A m \in MO \ Ram : Saves(S, s, m) = HostContents(s, m)
    BY <1>6 DEF Saves
  <2>2. ptr[s]["regs"] = obj[s]["regs"]
    BY Objects, GetWriteableOwn DEF PathInv
  <2>3. HostContents(s, "regs") = IF s \in conc THEN hostRegs ELSE Holds(s, "regs")
    BY <2>2 DEF HostContents, Holds
  <2>4. HostContents(s, "sys").val = hostSys
    BY Objects DEF HostContents
  <2>5. \A m \in Shared : HostContents(s, m) = hostMem[m]
    BY Objects DEF HostContents
  <2>6. "regs" \in MO \ Ram /\ "sys" \in MO \ Ram /\ Shared \subseteq MO \ Ram
    BY Objects, ConstantsAssumption DEF MO
  <2> QED BY <1>1, <1>3, <1>4, <1>6, <2>1, <2>3, <2>4, <2>5, <2>6
<1> QED BY <1>5, <1>6

(* A state that is stopped after the step shows what its objects hold. *)
LEMMA StoppedShows ==
    ASSUME PathInv', NEW s \in live', s \notin active'
    PROVE  /\ MachineView'[s]["regs"] = Holds(s, "regs")'
           /\ MachineView'[s]["sys"] = Holds(s, "sys")'.val
           /\ MachineView'[s]["dev"] = dev'[s]
           /\ \A m \in Shared \cup Ram : MachineView'[s][m] = Holds(s, m)'
<1>1. Viewed' /\ s \notin conc'
    BY PathInvViewedNext DEF PathInv, Staged
<1> QED BY <1>1 DEF Viewed

(* Saving shows nothing: what was in the host is now in the store, and     *)
(* what is loaded was in the store.                                        *)
LEMMA SaveShows ==
    ASSUME PathInv, PathInv', NEW S, SaveStep(S), NEW s \in live',
           s \notin active' => s \in S \/ s \notin active,
           s \in active' => s \notin S /\ hostRegs' = hostRegs,
           s \in active' /\ s \in active => /\ s \in conc' <=> s \in conc
                                            /\ UNCHANGED <<hostSys, hostMem, hostDev>>,
           s \in active' /\ s \notin active => /\ s \notin conc' /\ hostDev' = dev[s]
                                               /\ hostSys' = Holds(s, "sys").val
                                               /\ \A m \in Shared : hostMem'[m] = Holds(s, m)
    PROVE  \A l \in Loc : MachineView'[s][l] = MachineView[s][l]
<1>1. S \subseteq active /\ live' \subseteq live /\ S \subseteq live /\ s \in live
    BY DEF SaveStep, PathInv, Staged, Ownership, HeapType
<1>2. \A mo \in MO : Holds(s, mo)' = Saves(S, s, mo)
  <2>1. Ownership /\ Allocated
    BY DEF PathInv
  <2>2. obj' = [r \in live' |-> SavedObjs(S)[r]] /\ mem' = Release(SavedMem(S), obj', live')
    BY DEF SaveStep
  <2> QED BY <1>1, <2>1, <2>2, SaveHolds
<1>3. dev'[s] = SavedDevs(S)[s]
    BY DEF SaveStep
<1>4. "regs" \in MO /\ "sys" \in MO /\ Shared \cup Ram \subseteq MO
    BY Objects DEF MO
<1>5. CASE s \notin active'
  <2>1. /\ MachineView'[s]["regs"] = Holds(s, "regs")'
        /\ MachineView'[s]["sys"] = Holds(s, "sys")'.val
        /\ MachineView'[s]["dev"] = dev'[s]
        /\ \A m \in Shared \cup Ram : MachineView'[s][m] = Holds(s, m)'
    BY <1>5, StoppedShows
  <2>2. /\ Saves(S, s, "regs") = MachineView[s]["regs"]
        /\ Saves(S, s, "sys").val = MachineView[s]["sys"]
        /\ SavedDevs(S)[s] = MachineView[s]["dev"]
        /\ \A m \in Shared \cup Ram : Saves(S, s, m) = MachineView[s][m]
    BY <1>1, <1>5, SavesShow, SMTT(30)
  <2> QED BY <1>2, <1>3, <1>4, <2>1, <2>2, LocIs, SMT
<1>6. CASE s \in active'
  <2>1. \A mo \in MO : Holds(s, mo)' = Holds(s, mo)
    BY <1>2, <1>6 DEF Saves
  <2>2. Viewed /\ Viewed' /\ conc \subseteq active
    BY PathInvViewed, PathInvViewedNext DEF PathInv, Staged
  <2>3. /\ MachineView'[s]["sys"] = hostSys' /\ MachineView'[s]["dev"] = hostDev'
        /\ \A m \in Shared : MachineView'[s][m] = hostMem'[m]
        /\ \A m \in Ram : MachineView'[s][m] = Holds(s, m)'
        /\ s \in conc' => MachineView'[s]["regs"] = hostRegs'
        /\ s \notin conc' => MachineView'[s]["regs"] = Holds(s, "regs")'
    BY <1>6, <2>2 DEF Viewed
  <2>4. /\ s \in conc => MachineView[s]["regs"] = hostRegs
        /\ s \notin conc => MachineView[s]["regs"] = Holds(s, "regs")
        /\ \A m \in Ram : MachineView[s][m] = Holds(s, m)
    BY <1>1, <2>2 DEF Viewed
  <2>5. MachineView'[s]["regs"] = MachineView[s]["regs"]
        /\ \A m \in Ram : MachineView'[s][m] = MachineView[s][m]
    BY <1>4, <1>6, <2>1, <2>2, <2>3, <2>4
  <2>6. CASE s \in active
    <3>1. /\ MachineView[s]["sys"] = hostSys /\ MachineView[s]["dev"] = hostDev
          /\ \A m \in Shared : MachineView[s][m] = hostMem[m]
      BY <1>1, <2>2, <2>6 DEF Viewed
    <3> QED BY <1>6, <2>3, <2>5, <2>6, <3>1, LocIs
  <2>7. CASE s \notin active
    <3>1. /\ MachineView[s]["sys"] = Holds(s, "sys").val /\ MachineView[s]["dev"] = dev[s]
          /\ \A m \in Shared : MachineView[s][m] = Holds(s, m)
      BY <1>1, <2>2, <2>7 DEF Viewed
    <3> QED BY <1>6, <2>3, <2>5, <2>7, <3>1, LocIs
  <2> QED BY <2>6, <2>7
<1> QED BY <1>5, <1>6

(* A step that shows nothing in any live machine. *)
LEMMA NothingShows ==
    ASSUME PathInv, PathInv', live' = live,
           \A s \in live, l \in Loc : MachineView'[s][l] = MachineView[s][l]
    PROVE  MachineView' = MachineView
<1>1. Viewed /\ Viewed'
    BY PathInvViewed, PathInvViewedNext
<1>2. /\ MachineView = [s \in State |-> [l \in Loc |-> MachineView[s][l]]]
      /\ MachineView' = [s \in State |-> [l \in Loc |-> MachineView'[s][l]]]
    BY <1>1 DEF Viewed
<1>3. ASSUME NEW s \in State, NEW l \in Loc PROVE MachineView'[s][l] = MachineView[s][l]
  <2>1. CASE s \in live
    BY <2>1
  <2>2. CASE s \notin live
    BY <1>1, <2>2, SMT DEF Viewed
  <2> QED BY <2>1, <2>2
<1> QED BY <1>2, <1>3, SameMachines

(* Marking states for removal shows nothing. *)
LEMMA MarkRefines ==
    ASSUME UNCHANGED <<cur, live, active, conc, heap, host>>
    PROVE  UNCHANGED Machines!pmVars
<1>1. Runner' = Runner
    BY DEF Runner
<1>2. \A s : View(s)' = View(s)
    BY SMTT(30) DEF View, heap, host
<1>3. MachineView' = MachineView
    BY <1>2 DEF MachineView
<1> QED BY <1>1, <1>3 DEF Machines!pmVars

(* doStateFork shows nothing. *)
LEMMA DoStateForkRefines ==
    ASSUME PathInv, PathInv', DoStateFork
    PROVE  UNCHANGED Machines!pmVars
<1>1. /\ SaveStep(pending) /\ live' = live /\ active' = active \ pending
      /\ cur \in active /\ cur \notin pending /\ conc = {}
      /\ UNCHANGED <<cur, conc, host>>
    BY DoStateForkIs
<1>2. UNCHANGED <<hostRegs, hostSys, hostMem, hostDev>>
    BY <1>1 DEF host
<1>3. ASSUME NEW s \in live PROVE \A l \in Loc : MachineView'[s][l] = MachineView[s][l]
    BY <1>1, <1>2, SaveShows
<1>4. MachineView' = MachineView
    BY <1>1, <1>3, NothingShows
<1>5. Runner' = Runner
    BY <1>1 DEF Runner
<1> QED BY <1>1, <1>4, <1>5 DEF Machines!pmVars

(* selectNextState schedules the chosen machine and drops the deleted      *)
(* ones.                                                                   *)
LEMMA SelectRefines ==
    ASSUME PathInv, PathInv', NEW t \in live, SelectNextState(t)
    PROVE  Machines!Schedule(t, deleted)
<1> DEFINE S == IF t = cur THEN {} ELSE {cur} \cap active
<1>1. /\ SaveStep(S) /\ live' = live \ deleted /\ t \in live' /\ t \notin S
      /\ cur' = t /\ active' = {t} /\ active \subseteq {cur}
      /\ \A s \in live' : s \notin active' => s \in S \/ s \notin active
      /\ UNCHANGED hostRegs
      /\ \/ t \in active /\ t = cur /\ conc' = conc
            /\ UNCHANGED <<hostSys, hostTlb, hostMem, hostDev>>
         \/ t \notin active /\ conc' = {} /\ hostDev' = dev[t]
            /\ hostSys' = Holds(t, "sys").val /\ hostTlb' = Holds(t, "sys").tlb
            /\ hostMem' = [mo \in Shared |-> Holds(t, mo)]
    BY SelectIs
<1> HIDE DEF S
<1>2. ASSUME NEW s \in live' PROVE \A l \in Loc : MachineView'[s][l] = MachineView[s][l]
  <2>1. CASE s = t
    BY <1>1, <2>1, SaveShows, SMTT(30)
  <2>2. CASE s # t
    BY <1>1, <2>2, SaveShows
  <2> QED BY <2>1, <2>2
<1>3. Viewed /\ Viewed'
    BY PathInvViewed, PathInvViewedNext
<1>4. live \subseteq State /\ deleted \subseteq live
    BY DEF PathInv, Ownership, HeapType, Staged
<1> DEFINE g == [s \in State |-> IF s \in deleted THEN [l \in Loc |-> Clean] ELSE MachineView[s]]
<1>5. /\ MachineView = [s \in State |-> [l \in Loc |-> MachineView[s][l]]]
      /\ MachineView' = [s \in State |-> [l \in Loc |-> MachineView'[s][l]]]
    BY <1>3 DEF Viewed
<1>6. g = [s \in State |-> [l \in Loc |-> g[s][l]]]
  <2>1. \A s \in State : g[s] = [l \in Loc |-> g[s][l]]
    BY <1>5
  <2> QED BY <2>1
<1>7. ASSUME NEW s \in State, NEW l \in Loc PROVE MachineView'[s][l] = g[s][l]
  <2>1. CASE s \in deleted
    BY <1>1, <1>3, <1>4, <2>1, SMTT(30) DEF Viewed
  <2>2. CASE s \in live \ deleted
    BY <1>1, <1>2, <2>2
  <2>3. CASE s \notin live
    BY <1>1, <1>3, <1>4, <2>3, SMT DEF Viewed
  <2> QED BY <2>1, <2>2, <2>3
<1>8. MachineView' = g
  <2> HIDE DEF g
  <2> QED BY <1>5, <1>6, <1>7, SameMachines, SMTT(30)
<1>9. Runner' = t
    BY <1>1 DEF Runner
<1> QED BY <1>1, <1>4, <1>8, <1>9, MachinesConstants DEF Machines!Schedule

(* clone forks the running machine, from whichever pending twin it copies. *)
LEMMA CloneRefines ==
    ASSUME PathInv, PathInv', NEW e \in live, Clone(e)
    PROVE  Machines!Fork(nextId)
<1>1. PICK t : t = nextId
    OBVIOUS
<1>2. /\ e \in {cur} \cup pending /\ e \in active /\ cur \in active
      /\ conc = {} /\ t \in State /\ t \notin live
      /\ live' = live \cup {t} /\ active' = active \cup {t}
      /\ dev' = [s \in live' |-> IF s = t THEN dev[e] ELSE dev[s]]
      /\ UNCHANGED <<cur, conc, hostRegs, hostSys, hostMem, hostDev>>
    BY <1>1, CloneIs
<1>3. /\ \A s \in {e, t}, mo \in MO : Holds(s, mo)' = Holds(e, mo)
      /\ \A s \in live \ {e}, mo \in MO : Holds(s, mo)' = Holds(s, mo)
    BY <1>1, CloneHolds DEF PathInv
<1>4. Viewed /\ Viewed' /\ cur \in live /\ live \subseteq State
    BY PathInvViewed, PathInvViewedNext DEF PathInv, Ownership, HeapType
<1>5. "regs" \in MO /\ "sys" \in MO /\ Shared \cup Ram \subseteq MO
    BY Objects DEF MO
<1>6. ASSUME NEW s \in live, NEW l \in Loc PROVE MachineView'[s][l] = MachineView[s][l]
  <2>1. s \in live' /\ (s \in active' <=> s \in active) /\ dev'[s] = dev[s]
        /\ s \notin conc /\ s \notin conc'
    BY <1>2
  <2>2. \A mo \in MO : Holds(s, mo)' = Holds(s, mo)
    BY <1>3
  <2>3. /\ MachineView'[s]["regs"] = Holds(s, "regs")'
        /\ s \in active' => /\ MachineView'[s]["sys"] = hostSys'
                            /\ MachineView'[s]["dev"] = hostDev'
                            /\ \A m \in Shared : MachineView'[s][m] = hostMem'[m]
        /\ s \notin active' => /\ MachineView'[s]["sys"] = Holds(s, "sys")'.val
                               /\ MachineView'[s]["dev"] = dev'[s]
                               /\ \A m \in Shared : MachineView'[s][m] = Holds(s, m)'
        /\ \A m \in Ram : MachineView'[s][m] = Holds(s, m)'
    BY <1>4, <2>1 DEF Viewed
  <2>4. /\ MachineView[s]["regs"] = Holds(s, "regs")
        /\ s \in active => /\ MachineView[s]["sys"] = hostSys
                           /\ MachineView[s]["dev"] = hostDev
                           /\ \A m \in Shared : MachineView[s][m] = hostMem[m]
        /\ s \notin active => /\ MachineView[s]["sys"] = Holds(s, "sys").val
                              /\ MachineView[s]["dev"] = dev[s]
                              /\ \A m \in Shared : MachineView[s][m] = Holds(s, m)
        /\ \A m \in Ram : MachineView[s][m] = Holds(s, m)
    BY <1>4, <2>1 DEF Viewed
  <2> QED BY <1>2, <1>5, <2>1, <2>2, <2>3, <2>4, LocIs, SMTT(30)
<1>7. ASSUME NEW l \in Loc PROVE MachineView'[t][l] = MachineView[cur][l]
  <2>1. \A mo \in Ram \cup {"regs"} : Holds(t, mo)' = Holds(cur, mo)
    <3>1. \A mo \in Ram \cup {"regs"} : Holds(e, mo) = Holds(cur, mo)
      BY <1>2 DEF PathInv, Twins
    <3>2. \A mo \in Ram \cup {"regs"} : mo \in MO
      BY <1>5
    <3> QED BY <1>3, <3>1, <3>2
  <2>2. /\ MachineView'[t]["regs"] = Holds(t, "regs")'
        /\ MachineView'[t]["sys"] = hostSys' /\ MachineView'[t]["dev"] = hostDev'
        /\ \A m \in Shared : MachineView'[t][m] = hostMem'[m]
        /\ \A m \in Ram : MachineView'[t][m] = Holds(t, m)'
    BY <1>2, <1>4 DEF Viewed
  <2>3. /\ MachineView[cur]["regs"] = Holds(cur, "regs")
        /\ MachineView[cur]["sys"] = hostSys /\ MachineView[cur]["dev"] = hostDev
        /\ \A m \in Shared : MachineView[cur][m] = hostMem[m]
        /\ \A m \in Ram : MachineView[cur][m] = Holds(cur, m)
    BY <1>2, <1>4, ZenonT(30) DEF Viewed
  <2> QED BY <1>2, <2>1, <2>2, <2>3, LocIs, SMTT(30)
<1> DEFINE g == [MachineView EXCEPT ![t] = MachineView[cur]]
<1>8. /\ MachineView = [s \in State |-> [l \in Loc |-> MachineView[s][l]]]
      /\ MachineView' = [s \in State |-> [l \in Loc |-> MachineView'[s][l]]]
    BY <1>4 DEF Viewed
<1>9. g = [s \in State |-> IF s = t THEN MachineView[cur] ELSE MachineView[s]]
    BY <1>8
<1> HIDE DEF g
<1>10. MachineView' = g
  <2>1. \A s \in State : MachineView[s] = [l \in Loc |-> MachineView[s][l]]
    BY <1>8
  <2>2. \A s \in State : g[s] = [l \in Loc |-> g[s][l]]
    BY <1>4, <1>9, <2>1
  <2>3. g = [s \in State |-> [l \in Loc |-> g[s][l]]]
    BY <1>9, <2>2
  <2>4. ASSUME NEW s \in State, NEW l \in Loc PROVE MachineView'[s][l] = g[s][l]
    <3>1. CASE s = t
      BY <1>7, <1>9, <3>1
    <3>2. CASE s \in live
      BY <1>2, <1>6, <1>9, <3>2
    <3>3. CASE s # t /\ s \notin live
      BY <1>2, <1>4, <1>9, <3>3, SMTT(30) DEF Viewed
    <3> QED BY <3>1, <3>2, <3>3
  <2> QED BY <1>8, <2>3, <2>4, SameMachines, SMT
<1>11. Runner = cur /\ Runner' = Runner
    BY <1>2 DEF Runner
<1> QED BY <1>1, <1>2, <1>4, <1>10, <1>11, MachinesConstants DEF Machines!Fork, g

(* merge that fails at most stops the running machine. *)
LEMMA PartsRefines ==
    ASSUME PathInv, PathInv', NEW a \in live, NEW b \in live, NEW path,
           Merge(a, b, path), Parts(a, b)
    PROVE  Machines!Stop \/ UNCHANGED Machines!pmVars
<1> DEFINE S == active \cap {a, b}
<1>1. /\ live' = live /\ active' = active \ {a, b} /\ conc' = conc \ S
      /\ UNCHANGED <<cur, host>>
    BY MergeOutcomes
<1>2. SaveStep(S)
    BY PartsKeeps DEF PathInv
<1>3. UNCHANGED <<hostRegs, hostSys, hostMem, hostDev>>
    BY <1>1 DEF host
<1>4. ASSUME NEW s \in live
      PROVE  /\ s \notin active' => s \in S \/ s \notin active
             /\ s \in active' => s \notin S /\ s \in active /\ (s \in conc' <=> s \in conc)
    BY <1>1
<1> HIDE DEF S
<1>5. ASSUME NEW s \in live PROVE \A l \in Loc : MachineView'[s][l] = MachineView[s][l]
    BY <1>1, <1>2, <1>3, <1>4, SaveShows
<1>6. MachineView' = MachineView
    BY <1>1, <1>5, NothingShows
<1>7. Runner' \in {Runner, 0}
    BY <1>1 DEF Runner
<1> QED BY <1>1, <1>6, <1>7, MachinesConstants DEF Machines!pmVars, Machines!Stop

(* merge that succeeds merges the machines. *)
LEMMA JoinsRefines ==
    ASSUME PathInv, PathInv', NEW a \in live, NEW b \in live, NEW path \in {0, a, b},
           Merge(a, b, path), Joins(a, b, path)
    PROVE  path \in {a, b} /\ Machines!Merge(a, b, path)
<1> DEFINE S == active \cap {a, b}
<1>1. /\ a # b /\ live' = live /\ active' = active \ {a, b} /\ conc' = conc \ S
      /\ dev' = SavedDevs(S) /\ UNCHANGED <<cur, host>>
    BY MergeOutcomes
<1>2. path \in {a, b} /\ path \in live
  <2>1. path # 0
    BY DEF Joins
  <2> QED BY <2>1
<1>3. /\ Saves(S, a, "sys").val = Saves(S, b, "sys").val
      /\ \A mo \in MO : Holds(a, mo)' = Joined(a, b, path, S, mo)
      /\ \A mo \in MO, s \in live \ {a} : Holds(s, mo)' = Saves(S, s, mo)
  <2>1. Ownership /\ Allocated
    BY DEF PathInv
  <2> HIDE DEF S
  <2> QED BY <1>1, <1>2, <2>1, JoinHolds, SMTT(30) DEF S
<1>4. UNCHANGED <<hostRegs, hostSys, hostMem, hostDev>>
    BY <1>1 DEF host
<1>5. S \subseteq active /\ (a \in S \/ a \notin active) /\ (b \in S \/ b \notin active)
      /\ (path \in S \/ path \notin active)
    BY <1>2
<1>6. \A s \in live : /\ s \notin active' => s \in S \/ s \notin active
                      /\ s \in active' => s \notin S /\ s \in active /\ (s \in conc' <=> s \in conc)
    BY <1>1
<1>7. a \notin active' /\ live \subseteq State
    BY <1>1 DEF PathInv, Ownership, HeapType
<1> HIDE DEF S
<1>8. "regs" \in MO /\ "sys" \in MO /\ Shared \cup Ram \subseteq MO /\ Dirty \in Shared
      /\ "regs" # Dirty /\ "regs" # "sys" /\ "regs" \notin Shared /\ "sys" \notin Shared
      /\ Ram \cap Shared = {} /\ "sys" \notin Ram
    BY Objects, ConstantsAssumption DEF MO
<1>9. ASSUME NEW s \in live \ {a}, NEW l \in Loc PROVE MachineView'[s][l] = MachineView[s][l]
  <2>1. dev'[s] = SavedDevs(S)[s]
    BY <1>1
  <2>2. CASE s \notin active'
    <3>1. /\ MachineView'[s]["regs"] = Holds(s, "regs")'
          /\ MachineView'[s]["sys"] = Holds(s, "sys")'.val
          /\ MachineView'[s]["dev"] = dev'[s]
          /\ \A m \in Shared \cup Ram : MachineView'[s][m] = Holds(s, m)'
      BY <1>1, <2>2, StoppedShows
    <3>2. /\ Saves(S, s, "regs") = MachineView[s]["regs"]
          /\ Saves(S, s, "sys").val = MachineView[s]["sys"]
          /\ SavedDevs(S)[s] = MachineView[s]["dev"]
          /\ \A m \in Shared \cup Ram : Saves(S, s, m) = MachineView[s][m]
      BY <1>5, <1>6, <2>2, SavesShow, SMTT(30)
    <3> QED BY <1>3, <1>8, <2>1, <3>1, <3>2, LocIs, SMTT(30)
  <2>3. CASE s \in active'
    <3>1. s \notin S /\ s \in active /\ (s \in conc' <=> s \in conc) /\ s \in live'
      BY <1>1, <1>6, <2>3
    <3>2. \A mo \in MO : Holds(s, mo)' = Holds(s, mo)
      BY <1>3, <3>1 DEF Saves
    <3>3. Viewed /\ Viewed'
      BY PathInvViewed, PathInvViewedNext
    <3>4. /\ MachineView'[s]["sys"] = hostSys' /\ MachineView'[s]["dev"] = hostDev'
          /\ \A m \in Shared : MachineView'[s][m] = hostMem'[m]
          /\ \A m \in Ram : MachineView'[s][m] = Holds(s, m)'
          /\ s \in conc' => MachineView'[s]["regs"] = hostRegs'
          /\ s \notin conc' => MachineView'[s]["regs"] = Holds(s, "regs")'
      BY <2>3, <3>1, <3>3, SMTT(30) DEF Viewed
    <3>5. /\ MachineView[s]["sys"] = hostSys /\ MachineView[s]["dev"] = hostDev
          /\ \A m \in Shared : MachineView[s][m] = hostMem[m]
          /\ \A m \in Ram : MachineView[s][m] = Holds(s, m)
          /\ s \in conc => MachineView[s]["regs"] = hostRegs
          /\ s \notin conc => MachineView[s]["regs"] = Holds(s, "regs")
      BY <3>1, <3>3 DEF Viewed
    <3> QED BY <1>4, <1>8, <3>1, <3>2, <3>4, <3>5, LocIs, SMTT(30)
  <2> QED BY <2>2, <2>3
<1>10. ASSUME NEW s \in {a, b, path}
       PROVE  /\ Saves(S, s, "regs") = MachineView[s]["regs"]
              /\ Saves(S, s, "sys").val = MachineView[s]["sys"]
              /\ SavedDevs(S)[s] = MachineView[s]["dev"]
              /\ \A m \in Shared \cup Ram : Saves(S, s, m) = MachineView[s][m]
    BY <1>2, <1>5, SavesShow, SMTT(30)
<1> DEFINE New(l) == IF l \in Ram \cup {"regs"} THEN MachineView[path][l]
                     ELSE IF l = Dirty /\ MachineView[a][l] # MachineView[b][l] THEN Clean
                     ELSE MachineView[a][l]
<1>11. ASSUME NEW l \in Loc PROVE MachineView'[a][l] = New(l)
  <2>1. /\ MachineView'[a]["regs"] = Holds(a, "regs")'
        /\ MachineView'[a]["sys"] = Holds(a, "sys")'.val
        /\ MachineView'[a]["dev"] = dev'[a]
        /\ \A m \in Shared \cup Ram : MachineView'[a][m] = Holds(a, m)'
    BY <1>1, <1>7, StoppedShows
  <2>2. /\ Joined(a, b, path, S, "regs") = Saves(S, path, "regs")
        /\ Joined(a, b, path, S, "sys").val = Saves(S, a, "sys").val
        /\ Joined(a, b, path, S, Dirty) =
              IF Saves(S, a, Dirty) = Saves(S, b, Dirty) THEN Saves(S, a, Dirty) ELSE Clean
        /\ \A m \in Shared \ {Dirty} : Joined(a, b, path, S, m) = Saves(S, a, m)
        /\ \A m \in Ram : Joined(a, b, path, S, m) = Saves(S, path, m)
    BY <1>8 DEF Joined
  <2>3. CASE l = "regs"
    <3>1. MachineView'[a]["regs"] = Saves(S, path, "regs")
      BY <1>3, <1>8, <2>1, <2>2
    <3> QED BY <1>10, <2>3, <3>1
  <2>4. CASE l \in Ram
    <3>1. MachineView'[a][l] = Saves(S, path, l)
      BY <1>3, <1>8, <2>1, <2>2, <2>4, SMTT(30)
    <3>2. Saves(S, path, l) = MachineView[path][l]
      BY <1>10, <2>4
    <3> QED BY <2>4, <3>1, <3>2
  <2>5. CASE l = "sys"
    <3>1. MachineView'[a]["sys"] = Saves(S, a, "sys").val
      BY <1>3, <1>8, <2>1, <2>2
    <3>2. l \notin Ram \cup {"regs"} /\ l # Dirty
      BY <1>8, <2>5
    <3> QED BY <1>10, <2>5, <3>1, <3>2, SMTT(30)
  <2>6. CASE l = "dev"
    <3>1. l \notin Ram \cup {"regs"} /\ l # Dirty
      BY <2>6, LocIs, Objects, ConstantsAssumption, SMTT(30)
    <3> QED BY <1>1, <1>10, <2>1, <2>6, <3>1, SMTT(30)
  <2>7. CASE l = Dirty
    <3>1. MachineView'[a][Dirty] = Joined(a, b, path, S, Dirty)
      BY <1>3, <1>8, <2>1
    <3>2. \A s \in {a, b} : Saves(S, s, Dirty) = MachineView[s][Dirty]
      BY <1>8, <1>10
    <3>3. l \notin Ram \cup {"regs"}
      BY <1>8, <2>7
    <3> QED BY <2>2, <2>7, <3>1, <3>2, <3>3, SMTT(30)
  <2>8. CASE l \in Shared \ {Dirty}
    <3>1. MachineView'[a][l] = Saves(S, a, l)
      BY <1>3, <1>8, <2>1, <2>2, <2>8, SMTT(30)
    <3>2. Saves(S, a, l) = MachineView[a][l]
      BY <1>10, <2>8
    <3>3. l \notin Ram \cup {"regs"} /\ l # Dirty
      BY <1>8, <2>8
    <3> QED BY <3>1, <3>2, <3>3
  <2> QED BY <2>3, <2>4, <2>5, <2>6, <2>7, <2>8, LocIs
<1> DEFINE g == [MachineView EXCEPT ![a] = [l \in Loc |-> New(l)]]
<1>12. Viewed /\ Viewed'
    BY PathInvViewed, PathInvViewedNext
<1>13. /\ MachineView = [s \in State |-> [l \in Loc |-> MachineView[s][l]]]
       /\ MachineView' = [s \in State |-> [l \in Loc |-> MachineView'[s][l]]]
    BY <1>12 DEF Viewed
<1>14. MachineView' = g
  <2> HIDE DEF New
  <2>1. g = [s \in State |-> IF s = a THEN [l \in Loc |-> New(l)] ELSE MachineView[s]]
    BY <1>13
  <2> HIDE DEF g
  <2>2. \A s \in State : MachineView[s] = [l \in Loc |-> MachineView[s][l]]
    BY <1>13
  <2>3. \A s \in State : g[s] = [l \in Loc |-> g[s][l]]
    BY <2>1, <2>2
  <2>4. g = [s \in State |-> [l \in Loc |-> g[s][l]]]
    BY <2>1, <2>3
  <2>5. ASSUME NEW s \in State, NEW l \in Loc PROVE MachineView'[s][l] = g[s][l]
    <3>1. CASE s = a
      BY <1>11, <2>1, <3>1
    <3>2. CASE s \in live \ {a}
      BY <1>9, <2>1, <3>2
    <3>3. CASE s # a /\ s \notin live
      BY <1>1, <1>12, <2>1, <3>3, SMTT(30) DEF Viewed
    <3> QED BY <3>1, <3>2, <3>3
  <2> QED BY <1>13, <2>4, <2>5, SameMachines, SMTT(30)
<1>15. MachineView[a]["sys"] = MachineView[b]["sys"]
    BY <1>3, <1>10
<1>16. Runner' = IF Runner \in {a, b} THEN 0 ELSE Runner
  <2>1. 0 \notin live
    BY <1>7, SMTT(30) DEF State
  <2> QED BY <1>1, <2>1 DEF Runner
<1>17. Machines!Merge(a, b, path)
    BY <1>1, <1>14, <1>15, <1>16, MachinesConstants DEF Machines!Merge
<1> QED BY <1>2, <1>17

(* The initial state shows one blank machine. *)
LEMMA MachinesInit == Init => Machines!PMInit
<1> SUFFICES ASSUME Init PROVE Machines!PMInit
    OBVIOUS
<1>1. live = {1} /\ cur = 1 /\ active = {1} /\ 1 \in State
    BY ConstantsAssumption, SMTT(30) DEF Init, State
<1>2. Viewed
    BY InitPathInv, PathInvViewed
<1>3. ASSUME NEW mo \in MO
      PROVE  Holds(1, mo) = IF mo = "sys" THEN [val |-> Clean, tlb |-> NoTlb] ELSE Clean
    BY DEF Init, Holds
<1>4. /\ MachineView[1]["sys"] = hostSys /\ MachineView[1]["dev"] = hostDev
      /\ \A m \in Shared : MachineView[1][m] = hostMem[m]
      /\ \A m \in Ram : MachineView[1][m] = Holds(1, m)
      /\ MachineView[1]["regs"] \in {hostRegs, Holds(1, "regs")}
    BY <1>1, <1>2 DEF Viewed
<1>5. ASSUME NEW l \in Loc PROVE MachineView[1][l] = Clean
  <2>1. hostRegs = Clean /\ hostSys = Clean /\ hostDev = Clean /\ \A m \in Shared : hostMem[m] = Clean
    BY DEF Init
  <2>2. "regs" \in MO /\ Ram \subseteq MO /\ "sys" \notin Ram /\ "regs" # "sys"
    BY Objects, ConstantsAssumption DEF MO
  <2> QED BY <1>3, <1>4, <2>1, <2>2, LocIs
<1>6. MachineView = [s \in State |-> [l \in Loc |-> MachineView[s][l]]]
    BY <1>2 DEF Viewed
<1> DEFINE g == [s \in State |-> [l \in Loc |-> Clean]]
<1>7. ASSUME NEW s \in State, NEW l \in Loc PROVE MachineView[s][l] = g[s][l]
    BY <1>1, <1>2, <1>5, SMT DEF Viewed
<1>8. g = [s \in State |-> [l \in Loc |-> g[s][l]]]
    OBVIOUS
<1>9. MachineView = g
  <2> HIDE DEF g
  <2> QED BY <1>6, <1>7, <1>8, SameMachines, SMTT(30)
<1>10. Runner = 1
    BY <1>1 DEF Runner
<1> QED BY <1>1, <1>9, <1>10, MachinesConstants DEF Machines!PMInit

(* Every step of the engine is a step of the private machines, or shows    *)
(* nothing.                                                                *)
LEMMA MachinesStep == PathInv /\ [Next]_vars => [Machines!PMNext]_Machines!pmVars
<1> SUFFICES ASSUME PathInv, PathInv', [Next]_vars PROVE [Machines!PMNext]_Machines!pmVars
    BY PathInvInductive, SMTT(30)
<1> USE MachinesConstants
<1>1. live \subseteq State /\ deleted \subseteq State /\ Page \subseteq Loc /\ Dirty \in Loc
    BY Objects, LocIs DEF PathInv, Ownership, HeapType, Staged, Page
<1>2. ASSUME NEW mo \in Page, NEW v \in Value,
             WriteMemory(mo, v) \/ DmaWrite(mo, v) \/ FastStore(mo, v)
      PROVE  Machines!PMNext
  <2>1. Machines!Write(mo, v)
    BY <1>2, StoreRefines, FastStoreRefines
  <2> QED BY <1>1, <2>1 DEF Machines!PMNext
<1>3. ASSUME NEW mo \in Page, DmaRead(mo) \/ UpdateTlbEntry(mo) PROVE UNCHANGED Machines!pmVars
    BY <1>3, DmaReadRefines, UpdateTlbRefines
<1>4. ASSUME TlbFlush \/ SwitchToConcrete \/ SwitchToSymbolic PROVE UNCHANGED Machines!pmVars
  <2>1. Clean \in Value
    BY ConstantsAssumption
  <2> QED BY <1>4, <2>1, HostWriteRefines, SwitchRefines
<1>5. ASSUME NEW v \in Value, WriteDirtyMask(v) \/ WriteCpuRegister(v) \/ DeviceStep(v)
      PROVE  Machines!PMNext
  <2>1. Machines!Write(Dirty, v) \/ Machines!Write("regs", v) \/ Machines!Write("dev", v)
    BY <1>5, HostWriteRefines, WriteCpuRegisterRefines
  <2> QED BY <1>1, <2>1, LocIs DEF Machines!PMNext
<1>6. ASSUME NEW s \in live, NEW v \in Value, WriteCpuState(s, v) PROVE Machines!PMNext
  <2>1. Machines!Write("sys", v) \/ Machines!Poke(s, v)
    BY <1>6, WriteCpuStateRefines
  <2> QED BY <1>1, <2>1, LocIs DEF Machines!PMNext
<1>7. ASSUME NEW e \in live, Clone(e) PROVE Machines!PMNext
  <2>1. Machines!Fork(nextId) /\ nextId \in State
    BY <1>7, CloneRefines, CloneIs
  <2> QED BY <2>1 DEF Machines!PMNext
<1>8. ASSUME DoStateFork PROVE UNCHANGED Machines!pmVars
    BY <1>8, DoStateForkRefines
<1>9. ASSUME NEW s \in live, SelectNextState(s) PROVE Machines!PMNext
  <2>1. Machines!Schedule(s, deleted)
    BY <1>9, SelectRefines
  <2> QED BY <1>1, <2>1 DEF Machines!PMNext
<1>10. ASSUME NEW s, NEW killed, TerminateState(s) \/ EnterSelect(killed)
       PROVE  UNCHANGED Machines!pmVars
  <2>1. UNCHANGED <<cur, live, active, conc, heap, host>>
    BY <1>10 DEF TerminateState, EnterSelect
  <2> QED BY <2>1, MarkRefines
<1>11. ASSUME NEW a \in live, NEW b \in live, NEW path \in {0, a, b}, Merge(a, b, path)
       PROVE  [Machines!PMNext]_Machines!pmVars
  <2>1. CASE Joins(a, b, path)
    <3>1. path \in {a, b} /\ Machines!Merge(a, b, path)
      BY <1>11, <2>1, JoinsRefines
    <3>2. Machines!PMNext
      BY <1>1, <3>1 DEF Machines!PMNext
    <3> QED BY <3>2
  <2>2. CASE Parts(a, b)
    <3>1. Machines!Stop \/ UNCHANGED Machines!pmVars
      BY <1>11, <2>2, PartsRefines, SMTT(30)
    <3> QED BY <3>1 DEF Machines!PMNext
  <2> QED BY <1>11, <2>1, <2>2, MergeOutcomes
<1>12. ASSUME UNCHANGED vars PROVE UNCHANGED Machines!pmVars
  <2>1. UNCHANGED <<cur, live, active, conc, heap, host>>
    BY <1>12 DEF vars, control
  <2> QED BY <2>1, MarkRefines
<1> QED
  BY <1>2, <1>3, <1>4, <1>5, <1>6, <1>7, <1>8, <1>9, <1>10, <1>11, <1>12, SMTT(30) DEF Next, NextUsing

(* Every execution of the engine is one of independent machines: whatever  *)
(* the paths do, and however they are forked, saved, switched, merged or   *)
(* killed, no path changes what another one sees.                          *)
THEOREM PathsRefineMachines == Spec => PathsArePrivate
  BY PathInvAlways, MachinesInit, MachinesStep, PTL DEF Spec, PathsArePrivate, Machines!PMSpec
=============================================================================
