-------------------------- MODULE ExecutionStates --------------------------
(***************************************************************************)
(* The execution states of one S2E process: KLEE's copy-on-write address   *)
(* space, the pointers S2E caches into it (S2E TLB, memory cache, CPU      *)
(* objects), and the save and restore of host memory, CPU and devices when *)
(* a state forks, is selected, merges or dies.                             *)
(*                                                                         *)
(* An ObjectState is named <<s, k>>: the state whose getWriteable created  *)
(* it and the cowKey it was created under (its copyOnWriteOwner).  Its     *)
(* contents are one abstract Value; the CPU system object also holds the   *)
(* S2E TLB, which is part of CPUX86State.                                  *)
(***************************************************************************)
EXTENDS Naturals, FiniteSets

CONSTANTS MaxStates,  \* bound: states are 1..MaxStates
          MaxKey,     \* bound on AddressSpace::cowKey
          Ram,        \* RAM pages private to a state (isSharedConcrete false)
          Shared,     \* shared-concrete objects in m_saveOnContextSwitch
          Dirty,      \* the dirty mask, in Shared
          Value, Clean,
          Uses,       \* bound: the locations the guest reads and writes
          Mortal      \* bound: the states that get terminated

State == 1..MaxStates
Key == 1..MaxKey
Id == State \X Key
NoObj == <<0, 0>>
Page == Ram \cup (Shared \ {Dirty})        \* objects of S2E_RAM_OBJECT_SIZE
Pinned == {"regs", "sys", Dirty}           \* objects with a cached ObjectState*
MO == Ram \cup Shared \cup {"regs", "sys"}
Loc == Ram \cup Shared \cup {"regs", "sys", "dev"}

NoEntry == [obj |-> NoObj, own |-> FALSE]
Entry == [obj : Id \cup {NoObj}, own : BOOLEAN]
Tlb == [Page -> Entry]
NoTlb == [p \in Page |-> NoEntry]

ASSUME ConstantsAssumption ==
    /\ MaxStates \in Nat \ {0} /\ MaxKey \in Nat \ {0}
    /\ Clean \in Value /\ Dirty \in Shared
    /\ Ram \cap Shared = {}
    /\ {"regs", "sys", "dev"} \cap (Ram \cup Shared) = {}
    /\ Uses \subseteq Loc

VARIABLES
    phase,     \* "run"; "fork" inside fork or branch; "leave" and "select" on
               \* the way to the next state; "exit"; "escaped"
    cur,       \* g_s2e_state
    nextId,    \* next state to be created
    live,      \* allocated S2EExecutionStates
    removed,   \* Executor::removedStates
    deleted,   \* S2EExecutor::m_deletedStates
    pending,   \* clones made by the fork or branch in progress
    active,    \* states with m_active
    conc,      \* states with m_runningConcrete
    cowKey,    \* AddressSpace::cowKey of each state
    obj,       \* AddressSpace::objects of each state
    ptr,       \* m_cpuRegistersObject, m_cpuSystemObject, m_dirtyMaskObject
    cache,     \* m_memcache of each state
    mem,       \* contents of the allocated ObjectStates
    dev,       \* device snapshot, timers and icount of each state
    hostRegs, hostSys, hostTlb, hostMem, hostDev   \* the same in QEMU's own memory

control == <<phase, cur, nextId, live, removed, deleted, pending, active, conc>>
heap == <<cowKey, obj, ptr, cache, mem, dev>>
host == <<hostRegs, hostSys, hostTlb, hostMem, hostDev>>
vars == <<control, heap, host>>
-----------------------------------------------------------------------------
(* AddressSpace::getWriteable: the object itself when its owner is the     *)
(* state's key, else a private copy made under that key.                   *)
GetWriteable(s, k, o) == IF o[2] = k THEN o ELSE <<s, k>>

(* S2EExecutionState::addressSpaceChange on the TLB: an entry for the old  *)
(* object follows to the new one, which the state owns.                    *)
ChangeTlb(tlb, mo, old, new) ==
    IF mo \in Page /\ old # new /\ tlb[mo].obj = old
    THEN [tlb EXCEPT ![mo] = [obj |-> new, own |-> mo \in Ram \/ @.own]]
    ELSE tlb

(* addressSpaceChange on the memory cache: only an existing entry changes. *)
ChangeCache(entry, old, new) ==
    IF old # new /\ entry # NoObj THEN new ELSE entry

Store(f, i, v) == [j \in DOMAIN f \cup {i} |-> IF j = i THEN v ELSE f[j]]

(* Mutant of Release: nothing is ever freed. *)
M_Release(m, bindings, states) == m

(* ObjectHolder reference counts: an ObjectState lives while a state in    *)
(* states binds it.                                                        *)
Release(m, bindings, states) ==
    [mo \in MO |-> [i \in DOMAIN m[mo] \cap {bindings[s][mo] : s \in states} |-> m[mo][i]]]

Init == /\ phase = "run" /\ cur = 1 /\ nextId = 2
        /\ live = {1} /\ removed = {} /\ deleted = {} /\ pending = {}
        /\ active = {1} /\ conc = {1}
        /\ cowKey = [s \in live |-> 1]
        /\ obj = [s \in live |-> [mo \in MO |-> <<1, 1>>]]
        /\ ptr = [s \in live |-> [mo \in Pinned |-> <<1, 1>>]]
        /\ cache = [s \in live |-> [p \in Page |-> NoObj]]
        /\ mem = [mo \in MO |-> [i \in {<<1, 1>>} |->
                     IF mo = "sys" THEN [val |-> Clean, tlb |-> NoTlb] ELSE Clean]]
        /\ dev = [s \in live |-> Clean]
        /\ hostRegs = Clean /\ hostDev = Clean
        /\ hostSys = Clean /\ hostTlb = NoTlb
        /\ hostMem = [mo \in Shared |-> Clean]

Running == phase = "run"
-----------------------------------------------------------------------------
(* Guest execution in the current state. *)

(* getWriteable on page mo starting from the object src, storing v in it;  *)
(* for a shared-concrete page the bytes live in host memory.               *)
StoreThrough(mo, src, v, cached) ==
    LET new == GetWriteable(cur, cowKey[cur], src)
    IN /\ obj' = [obj EXCEPT ![cur][mo] = IF new = src THEN @ ELSE new]
       /\ cache' = [cache EXCEPT ![cur][mo] = cached]
       /\ mem' = Release([mem EXCEPT ![mo] =
                     Store(@, new, IF mo \in Ram THEN v ELSE @[src])], obj', live)
       /\ hostTlb' = ChangeTlb(hostTlb, mo, src, new)
       /\ hostMem' = [m \in Shared |-> IF m = mo THEN v ELSE hostMem[m]]
       /\ UNCHANGED <<control, cowKey, ptr, dev, hostRegs, hostSys, hostDev>>

(* writeMemory, writeMemory8, writeRamConcrete, KLEE's store instruction. *)
WriteMemory(mo, v) ==
    LET src == obj[cur][mo]
        new == GetWriteable(cur, cowKey[cur], src)
    IN /\ Running
       /\ StoreThrough(mo, src, v, ChangeCache(cache[cur][mo], src, new))

(* The object a path through the memory cache starts from. *)
Cached(mo) == IF cache[cur][mo] # NoObj THEN cache[cur][mo] ELSE obj[cur][mo]

DmaWrite(mo, v) ==
    /\ Running /\ mo \in Ram
    /\ StoreThrough(mo, Cached(mo), v, GetWriteable(cur, cowKey[cur], Cached(mo)))

DmaRead(mo) ==
    /\ Running /\ cache[cur][mo] = NoObj
    /\ cache' = [cache EXCEPT ![cur][mo] = obj[cur][mo]]
    /\ UNCHANGED <<control, cowKey, obj, ptr, mem, dev, host>>

(* updateTlbEntry, after a miss in native code. *)
UpdateTlbEntry(mo) ==
    LET src == Cached(mo)
        new == IF mo \in Shared THEN src ELSE GetWriteable(cur, cowKey[cur], src)
    IN /\ Running /\ cur \in conc
       /\ obj' = [obj EXCEPT ![cur][mo] = IF new = src THEN @ ELSE new]
       /\ cache' = [cache EXCEPT ![cur][mo] = new]
       /\ mem' = Release([mem EXCEPT ![mo] = Store(@, new, @[src])], obj', live)
       /\ hostTlb' = [ChangeTlb(hostTlb, mo, src, new) EXCEPT ![mo] = [obj |-> new, own |-> TRUE]]
       /\ UNCHANGED <<control, cowKey, ptr, dev, hostRegs, hostSys, hostMem, hostDev>>

(* Native store that hits the S2E TLB: straight into the object's store,   *)
(* without asking the address space.                                       *)
FastStore(mo, v) ==
    LET e == hostTlb[mo]
    IN /\ Running /\ cur \in conc /\ e.obj # NoObj /\ e.own
       /\ \/ /\ mo \in Ram
             /\ mem' = [mem EXCEPT ![mo][e.obj] = v]
             /\ UNCHANGED hostMem
          \/ /\ mo \in Shared
             /\ hostMem' = [hostMem EXCEPT ![mo] = v]
             /\ UNCHANGED mem
       /\ UNCHANGED <<control, cowKey, obj, ptr, cache, dev, hostRegs, hostSys, hostTlb, hostDev>>

TlbFlush == /\ Running /\ hostTlb # NoTlb
            /\ hostTlb' = NoTlb
            /\ UNCHANGED <<control, heap, hostRegs, hostSys, hostMem, hostDev>>

WriteDirtyMask(v) ==
    /\ Running
    /\ hostMem' = [hostMem EXCEPT ![Dirty] = v]
    /\ UNCHANGED <<control, heap, hostRegs, hostSys, hostTlb, hostDev>>

(* Native code and writeCpuRegister use the host registers in concrete     *)
(* mode and m_cpuRegistersObject in symbolic mode.                         *)
WriteCpuRegister(v) ==
    /\ Running
    /\ \/ /\ cur \in conc
          /\ hostRegs' = v
          /\ UNCHANGED mem
       \/ /\ cur \notin conc
          /\ mem' = [mem EXCEPT !["regs"][ptr[cur]["regs"]] = v]
          /\ UNCHANGED hostRegs
    /\ UNCHANGED <<control, cowKey, obj, ptr, cache, dev, hostSys, hostTlb, hostMem, hostDev>>

(* writeCpuState, on the running state or on a stopped one. *)
WriteCpuState(s, v) ==
    /\ Running /\ s \in live
    /\ \/ /\ s \in active
          /\ hostSys' = v
          /\ UNCHANGED mem
       \/ /\ s \notin active
          /\ mem' = [mem EXCEPT !["sys"][ptr[s]["sys"]] = [val |-> v, tlb |-> @.tlb]]
          /\ UNCHANGED hostSys
    /\ UNCHANGED <<control, cowKey, obj, ptr, cache, dev, hostRegs, hostTlb, hostMem, hostDev>>

(* A device model, a timer or the instruction counter changes. *)
DeviceStep(v) == /\ Running
                 /\ hostDev' = v
                 /\ UNCHANGED <<control, heap, hostRegs, hostSys, hostTlb, hostMem>>

SwitchToConcrete ==
    /\ Running /\ cur \notin conc
    /\ hostRegs' = mem["regs"][ptr[cur]["regs"]]
    /\ conc' = conc \cup {cur}
    /\ UNCHANGED <<phase, cur, nextId, live, removed, deleted, pending, active,
                   heap, hostSys, hostTlb, hostMem, hostDev>>

SwitchToSymbolic ==
    /\ Running /\ cur \in conc
    /\ mem' = [mem EXCEPT !["regs"][ptr[cur]["regs"]] = hostRegs]
    /\ conc' = conc \ {cur}
    /\ UNCHANGED <<phase, cur, nextId, live, removed, deleted, pending, active,
                   cowKey, obj, ptr, cache, dev, host>>
-----------------------------------------------------------------------------
(* Forking. *)

(* Mutant of ForkKey: the copy keeps the key. *)
M_ForkKey(e) == cowKey[e]

(* The copy constructor of AddressSpace: parent and child get a new key. *)
ForkKey(e) == cowKey[e] + 1

(* Mutant of DropOwned: the owned bits stay set. *)
M_DropOwned(tlb) == tlb

(* clone: the owned bits of private pages leave the TLB. *)
DropOwned(tlb) ==
    [p \in Page |-> IF p \in Ram THEN [obj |-> tlb[p].obj, own |-> FALSE] ELSE tlb[p]]

(* Mutant of Repin: m_cpuRegistersObject is not refreshed in the parent. *)
M_Repin(s, e, k) ==
    [mo \in Pinned |-> IF s = e /\ mo = "regs" THEN ptr[e][mo] ELSE GetWriteable(s, k, ptr[e][mo])]

(* clone: the cached pointers of s, one of the two states a clone of e     *)
(* leaves behind.                                                          *)
Repin(s, e, k) == [mo \in Pinned |-> GetWriteable(s, k, ptr[e][mo])]

(* S2EExecutionState::clone of e, called by Executor::fork on the current  *)
(* state and by Executor::branch on any of the states made so far.  Both   *)
(* states get private copies of the pinned objects.                        *)
Clone(e) ==
    LET t == nextId
        k == ForkKey(e)
        Bound(s) == [mo \in MO |-> IF mo \in Pinned THEN GetWriteable(s, k, ptr[e][mo])
                                                    ELSE obj[e][mo]]
        copied == [mo \in MO |->
                     IF mo \in Pinned
                     THEN LET c == mem[mo][ptr[e][mo]]
                          IN Store(Store(mem[mo], Bound(t)[mo], c), Bound(e)[mo], c)
                     ELSE mem[mo]]
        Add(f, new) == [s \in live \cup {t} |-> IF s = t THEN new ELSE f[s]]
    IN /\ phase \in {"run", "fork"} /\ e \in {cur} \cup pending /\ cur \notin conc
       /\ nextId \in State /\ k \in Key
       /\ phase' = "fork"
       /\ nextId' = nextId + 1
       /\ live' = live \cup {t} /\ pending' = pending \cup {t} /\ active' = active \cup {t}
       /\ cowKey' = [Add(cowKey, k) EXCEPT ![e] = k]
       /\ obj' = [Add(obj, Bound(t)) EXCEPT ![e] = Bound(e)]
       /\ ptr' = [Add(ptr, Repin(t, e, k)) EXCEPT ![e] = Repin(e, e, k)]
       /\ cache' = Add(cache, [p \in Page |-> NoObj])
       /\ dev' = Add(dev, dev[e])
       /\ mem' = Release(copied, obj', live')
       /\ hostTlb' = DropOwned(hostTlb)
       /\ UNCHANGED <<cur, removed, deleted, conc, hostRegs, hostSys, hostMem, hostDev>>

(* Mutant of SaveTarget: the snapshot goes into the bound object without   *)
(* getWriteable.                                                           *)
M_SaveTarget(s, mo) == IF mo \in Shared THEN obj[s][mo] ELSE ptr[s][mo]

(* Saving the host into the stores of state s, when it stops being active: *)
(* the object each saved memory object goes to, the bindings and TLB after *)
(* the getWriteable calls, and the resulting contents.                     *)
SaveTarget(s, mo) ==
    IF mo \in Shared THEN GetWriteable(s, cowKey[s], obj[s][mo]) ELSE ptr[s][mo]
SavedObj(s) == [mo \in MO |-> IF mo \in Shared THEN SaveTarget(s, mo) ELSE obj[s][mo]]
SavedTlb(s) == [p \in Page |->
                   ChangeTlb(hostTlb, p, obj[s][p], SavedObj(s)[p])[p]]
SavedCache(s) == [p \in Page |-> ChangeCache(cache[s][p], obj[s][p], SavedObj(s)[p])]
HostContents(s, mo) ==
    CASE mo = "regs" -> IF s \in conc THEN hostRegs ELSE mem["regs"][ptr[s]["regs"]]
      [] mo = "sys"  -> [val |-> hostSys, tlb |-> SavedTlb(s)]
      [] OTHER       -> hostMem[mo]
SavedMem(S) ==
    [mo \in MO |->
        IF mo \in Ram THEN mem[mo]
        ELSE [i \in DOMAIN mem[mo] \cup {SaveTarget(s, mo) : s \in S} |->
                 IF \E s \in S : SaveTarget(s, mo) = i
                 THEN HostContents(CHOOSE s \in S : SaveTarget(s, mo) = i, mo)
                 ELSE mem[mo][i]]]
SavedObjs(S) == [s \in live |-> IF s \in S THEN SavedObj(s) ELSE obj[s]]
SavedCaches(S) == [s \in live |-> IF s \in S THEN SavedCache(s) ELSE cache[s]]
SavedDevs(S) == [s \in live |-> IF s \in S THEN hostDev ELSE dev[s]]

(* doStateFork: every state made by the fork is saved and becomes inactive. *)
DoStateFork ==
    /\ phase = "fork"
    /\ phase' = "run"
    /\ pending' = {}
    /\ active' = active \ pending
    /\ obj' = SavedObjs(pending)
    /\ cache' = SavedCaches(pending)
    /\ dev' = SavedDevs(pending)
    /\ mem' = Release(SavedMem(pending), obj', live)
    /\ UNCHANGED <<cur, nextId, live, removed, deleted, conc, cowKey, ptr, host>>
-----------------------------------------------------------------------------
(* Termination and selection. *)

Terminated == removed \cup deleted

(* terminateState; for the current state it leaves the CPU loop. *)
TerminateState(s) ==
    /\ Running /\ s \in (live \ Terminated) \cap Mortal
    /\ removed' = removed \cup {s}
    /\ phase' = IF s = cur THEN "leave" ELSE phase
    /\ UNCHANGED <<cur, nextId, live, deleted, pending, active, conc, heap, host>>

(* Entry of selectNextState: updateStates, the kills of the state manager, *)
(* updateStates again; exit(0) when no state is left.                      *)
EnterSelect(killed) ==
    /\ phase \in {"run", "leave"}
    /\ deleted' = deleted \cup removed \cup killed
    /\ removed' = {}
    /\ phase' = IF live \subseteq deleted' THEN "exit" ELSE "select"
    /\ UNCHANGED <<cur, nextId, live, pending, active, conc, heap, host>>

(* The rest of selectNextState once the searcher chose t: doStateSwitch    *)
(* from the current state (unless merge already stopped it) and the        *)
(* deletion of m_deletedStates.                                            *)
SelectNextState(t) ==
    LET S == IF t = cur THEN {} ELSE {cur} \cap active
        m == SavedMem(S)
        switch == t \notin active
        Kept(f) == [s \in live \ deleted |-> f[s]]
    IN /\ phase = "select" /\ t \in live \ Terminated
       /\ phase' = "run"
       /\ cur' = t
       /\ live' = live \ deleted /\ deleted' = {}
       /\ active' = {t}
       /\ conc' = IF switch THEN {} ELSE conc
       /\ obj' = Kept(SavedObjs(S))
       /\ cache' = Kept(SavedCaches(S))
       /\ dev' = Kept(SavedDevs(S))
       /\ cowKey' = Kept(cowKey) /\ ptr' = Kept(ptr)
       /\ mem' = Release(m, obj', live')
       /\ IF switch
          THEN /\ hostSys' = m["sys"][ptr[t]["sys"]].val
               /\ hostTlb' = m["sys"][ptr[t]["sys"]].tlb
               /\ hostMem' = [mo \in Shared |-> m[mo][obj[t][mo]]]
               /\ hostDev' = dev[t]
          ELSE UNCHANGED <<hostSys, hostTlb, hostMem, hostDev>>
       /\ UNCHANGED <<nextId, removed, pending, hostRegs>>

(* S2EExecutionState::merge: which objects of a differ from b's, and when  *)
(* the merge is possible, given bindings o and contents m.                 *)
Mutated(a, b, o) == {mo \in Ram \cup {"regs"} : o[a][mo] # o[b][mo]}
Mergeable(a, b, o, m) ==
    /\ m["sys"][ptr[a]["sys"]].val = m["sys"][ptr[b]["sys"]].val
    /\ \A mo \in Shared \ {Dirty} : o[a][mo] = o[b][mo]

(* Contents of a's objects after the merge.  A select expression on inA is *)
(* the contents of whichever path is the real one.                         *)
MergedContents(a, b, path, o, m, mo) ==
    CASE mo = "sys" -> [val |-> m["sys"][ptr[a]["sys"]].val, tlb |-> NoTlb]
      [] mo = Dirty -> IF m[mo][o[a][mo]] = m[mo][o[b][mo]] THEN m[mo][o[a][mo]] ELSE Clean
      [] OTHER      -> m[mo][o[path][mo]]

(* S2EExecutor::merge(a, b) called by MergingSearcher::selectState, and    *)
(* terminateState(b) when it succeeds.  path is the real path of the       *)
(* merged state; 0 when pc, symbolics, call stacks or address maps differ. *)
Merge(a, b, path) ==
    LET S == active \cap {a, b}
        o == SavedObjs(S)
        c == SavedCaches(S)
        m == SavedMem(S)
        touched == Mutated(a, b, o) \cup {Dirty}
        New(mo) == IF mo \in touched THEN GetWriteable(a, cowKey[a], o[a][mo]) ELSE o[a][mo]
        Target(mo) == IF mo = "sys" THEN ptr[a][mo] ELSE New(mo)
        merged == [mo \in MO |->
                     IF mo \in touched \cup {"sys"}
                     THEN Store(m[mo], Target(mo), MergedContents(a, b, path, o, m, mo))
                     ELSE m[mo]]
    IN /\ phase = "select" /\ a # b /\ {a, b} \subseteq live \ Terminated
       /\ active' = active \ S /\ conc' = conc \ S
       /\ dev' = SavedDevs(S)
       /\ \/ /\ path # 0 /\ Mergeable(a, b, o, m)
             /\ obj' = [o EXCEPT ![a] = [mo \in MO |-> New(mo)]]
             /\ cache' = [c EXCEPT ![a] = [p \in Page |-> ChangeCache(c[a][p], o[a][p], New(p))]]
             /\ mem' = Release(merged, obj', live)
             /\ removed' = removed \cup {b}
             /\ phase' = IF b = cur THEN "escaped" ELSE phase
          \/ /\ path = 0 \/ ~Mergeable(a, b, o, m)
             /\ obj' = o /\ cache' = c
             /\ mem' = Release(m, obj', live)
             /\ UNCHANGED <<removed, phase>>
       /\ UNCHANGED <<cur, nextId, live, deleted, pending, cowKey, ptr, host>>

(* A step of a guest that uses the locations in uses only. *)
NextUsing(uses) ==
    \/ \E mo \in Page \cap uses, v \in Value :
           WriteMemory(mo, v) \/ DmaWrite(mo, v) \/ FastStore(mo, v)
    \/ \E mo \in Page \cap uses : DmaRead(mo) \/ UpdateTlbEntry(mo)
    \/ TlbFlush
    \/ \E v \in Value : \/ Dirty \in uses /\ WriteDirtyMask(v)
                        \/ "regs" \in uses /\ WriteCpuRegister(v)
                        \/ "dev" \in uses /\ DeviceStep(v)
                        \/ "sys" \in uses /\ \E s \in live : WriteCpuState(s, v)
    \/ SwitchToConcrete \/ SwitchToSymbolic
    \/ \E e \in live : Clone(e)
    \/ DoStateFork
    \/ \E s \in live : TerminateState(s) \/ SelectNextState(s)
    \/ \E killed \in SUBSET ((live \ Terminated) \cap Mortal) : EnterSelect(killed)
    \/ \E a, b \in live : \E path \in {0, a, b} : Merge(a, b, path)

Next == NextUsing(Uses)

Spec == Init /\ [][Next]_vars
-----------------------------------------------------------------------------
(* The machine that state s stands for. *)
View(s) ==
    [l \in Loc |->
        CASE l = "regs"   -> IF s \in active \cap conc THEN hostRegs ELSE mem["regs"][ptr[s]["regs"]]
          [] l = "sys"    -> IF s \in active THEN hostSys ELSE mem["sys"][ptr[s]["sys"]].val
          [] l = "dev"    -> IF s \in active THEN hostDev ELSE dev[s]
          [] l \in Ram    -> mem[l][obj[s][l]]
          [] l \in Shared -> IF s \in active THEN hostMem[l] ELSE mem[l][obj[s][l]]]

(* The refinement mapping: which machine runs, and what the machines hold. *)
Runner == IF cur \in active THEN cur ELSE 0
MachineView == [s \in State |-> IF s \in live THEN View(s) ELSE [l \in Loc |-> Clean]]

Machines == INSTANCE PrivateMachines WITH running <- Runner, vm <- MachineView

(* Every execution path has a machine of its own: whatever fork, branch,   *)
(* doStateSwitch, merge, the S2E TLB, the memory cache and DMA do, the     *)
(* program behaves as PrivateMachines.                                     *)
PathsArePrivate == Machines!PMSpec

(* Types, and the control flags the asserts of doStateSwitch, doStateFork, *)
(* clone and selectNextState rely on.                                      *)
TypeOK ==
    /\ phase \in {"run", "fork", "leave", "select", "exit", "escaped"}
    /\ live \subseteq State /\ nextId \in 2..(MaxStates + 1) /\ live \subseteq 1..(nextId - 1)
    /\ cur \in live /\ removed \subseteq live /\ deleted \subseteq live
    /\ pending \subseteq live \ {cur}
    /\ conc \subseteq active /\ active \subseteq {cur} \cup pending
    /\ cowKey \in [live -> Key]
    /\ obj \in [live -> [MO -> Id]]
    /\ ptr \in [live -> [Pinned -> Id]]
    /\ cache \in [live -> [Page -> Id \cup {NoObj}]]
    /\ dev \in [live -> Value]
    /\ {hostRegs, hostSys, hostDev} \subseteq Value
    /\ hostTlb \in Tlb
    /\ hostMem \in [Shared -> Value]
    /\ DOMAIN mem = MO
    /\ \A mo \in MO : DOMAIN mem[mo] = {obj[s][mo] : s \in live}

(* AddressSpace: an object the state would write in place (owner equal to  *)
(* its key) is bound by no other state, although parent and child of a     *)
(* fork carry the same key.                                                *)
OwnedIsExclusive ==
    \A s, t \in live : \A mo \in MO :
        (s # t /\ obj[s][mo] = obj[t][mo]) => obj[s][mo][2] # cowKey[s]

(* The invariant documented in AddressSpace.h:                             *)
(* forall o in objects, o->copyOnWriteOwner <= cowKey.                     *)
OwnerAtMostKey == \A s \in live, mo \in MO : obj[s][mo][2] <= cowKey[s]

(* m_cpuRegistersObject, m_cpuSystemObject and m_dirtyMaskObject always    *)
(* point at the object the address space binds, and it is writable.        *)
PinnedCoherent ==
    \A s \in live, mo \in Pinned :
        ptr[s][mo] = obj[s][mo] /\ ptr[s][mo][2] = cowKey[s]

TlbOf(s) == IF s \in active THEN hostTlb ELSE mem["sys"][ptr[s]["sys"]].tlb

(* An S2E TLB entry and a memory cache entry of a state name the object    *)
(* the state binds, and an entry marked owned can be written in place.     *)
CachesCoherent ==
    \A s \in live, p \in Page :
        /\ cache[s][p] \in {NoObj, obj[s][p]}
        /\ LET e == TlbOf(s)[p] IN
              /\ e.obj \in {NoObj, obj[s][p]}
              /\ (e.obj # NoObj /\ e.own /\ p \in Ram) => e.obj[2] = cowKey[s]

(* selectNextState goes on after a merge that consumed the current state:  *)
(* "Current state might be switched off by merge method" (S2EExecutor.cpp, *)
(* line 1216).  So no merge leaves selectNextState through an exception.   *)
KillNeverEscapes == phase # "escaped"
=============================================================================
