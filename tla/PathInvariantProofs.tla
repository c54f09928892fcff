------------------------ MODULE PathInvariantProofs -------------------------
(***************************************************************************)
(* Every step of the engine keeps PathInv, so that the type invariant and  *)
(* the coherence of TLBs and memory caches always hold.                    *)
(***************************************************************************)
EXTENDS ExecutionStatesProofs

(* Zenon is the prover of a step unless it names another: SMT has those    *)
(* that need arithmetic or the extensionality of sets and records.         *)
USE Zenon

(* A path through the memory cache starts from the object that is bound. *)
LEMMA CachedIsBound ==
    ASSUME PathInv, NEW mo \in Page
    PROVE  Cached(mo) = obj[cur][mo]
<1>1. CacheFits(cache[cur], obj[cur])
    BY DEF PathInv, Coherent, Ownership, HeapType
<1> QED BY <1>1 DEF CacheFits, Cached

(* Stores through the address space and by DMA: page mo of the running     *)
(* state moves to the object of its own, with the new contents.            *)
LEMMA StoreIs ==
    ASSUME PathInv, NEW mo \in Page, NEW v \in Value, WriteMemory(mo, v) \/ DmaWrite(mo, v)
    PROVE  /\ Ongoing /\ conc' = conc
           /\ Rebinds(cur, mo, Own(cur), IF mo \in Ram THEN v ELSE Holds(cur, mo))
           /\ \E entry \in {NoObj, Own(cur)} :
                 cache' = [cache EXCEPT ![cur] = [cache[cur] EXCEPT ![mo] = entry]]
           /\ hostTlb' = ChangeTlb(hostTlb, mo, obj[cur][mo], Own(cur))
           /\ hostMem' = [m \in Shared |-> IF m = mo THEN v ELSE hostMem[m]]
           /\ UNCHANGED <<ptr, hostRegs, hostSys, hostDev>>
<1> DEFINE src == obj[cur][mo]
<1>1. /\ cur \in live /\ mo \in MO /\ Cached(mo) = src
      /\ GetWriteable(cur, cowKey[cur], src) = Own(cur)
      /\ cache[cur][mo] \in {NoObj, src}
    BY Objects, GetWriteableOwn, CachedIsBound
       DEF PathInv, Coherent, CacheFits, Ownership, HeapType
<1>2. ChangeCache(cache[cur][mo], src, Own(cur)) \in {NoObj, Own(cur)}
    BY <1>1 DEF ChangeCache
<1>3. \E entry \in {NoObj, Own(cur)} : Running /\ StoreThrough(mo, src, v, entry)
  <2>1. CASE WriteMemory(mo, v)
    BY <1>1, <1>2, <2>1 DEF WriteMemory
  <2>2. CASE DmaWrite(mo, v)
    BY <1>1, <2>2 DEF DmaWrite
  <2> QED BY <2>1, <2>2
<1>4. PICK entry \in {NoObj, Own(cur)} : Running /\ StoreThrough(mo, src, v, entry)
    BY <1>3
<1>5. /\ obj' = [obj EXCEPT ![cur][mo] = IF Own(cur) = src THEN @ ELSE Own(cur)]
      /\ cache' = [cache EXCEPT ![cur][mo] = entry]
      /\ mem' = Release([mem EXCEPT ![mo] = Store(@, Own(cur),
                   IF mo \in Ram THEN v ELSE @[src])], obj', live)
      /\ hostTlb' = ChangeTlb(hostTlb, mo, src, Own(cur))
      /\ hostMem' = [m \in Shared |-> IF m = mo THEN v ELSE hostMem[m]]
      /\ UNCHANGED <<control, cowKey, ptr, dev, hostRegs, hostSys, hostDev>>
    BY <1>1, <1>4 DEF StoreThrough
<1>6. obj' = [obj EXCEPT ![cur] = [obj[cur] EXCEPT ![mo] = Own(cur)]]
    BY <1>5
<1>7. mem' = Release([mem EXCEPT ![mo] = Store(mem[mo], Own(cur),
                        IF mo \in Ram THEN v ELSE Holds(cur, mo))], obj', live)
    BY <1>5 DEF Holds
<1>8. Ongoing /\ conc' = conc
    BY <1>4, <1>5 DEF Ongoing, control
<1> QED BY <1>5, <1>6, <1>7, <1>8 DEF Rebinds

(* A store through the address space or by DMA keeps the invariant. *)
LEMMA StoreKeeps ==
    ASSUME PathInv, Ownership', NEW mo \in Page, NEW v \in Value,
           WriteMemory(mo, v) \/ DmaWrite(mo, v)
    PROVE  PathInv'
<1> DEFINE c == IF mo \in Ram THEN v ELSE Holds(cur, mo)
<1>1. PICK entry \in {NoObj, Own(cur)} :
          cache' = [cache EXCEPT ![cur] = [cache[cur] EXCEPT ![mo] = entry]]
    BY StoreIs
<1>2. /\ Ongoing
      /\ Rebinds(cur, mo, Own(cur), c)
      /\ hostTlb' = ChangeTlb(hostTlb, mo, obj[cur][mo], Own(cur))
      /\ hostMem' = [m \in Shared |-> IF m = mo THEN v ELSE hostMem[m]]
      /\ UNCHANGED <<ptr, hostRegs, hostSys, hostDev>>
    BY StoreIs
<1>3. cur \in live /\ mo \in MO /\ mo # "sys" /\ Own(cur) \in Id /\ Own(cur)[2] = cowKey[cur]
    BY Objects, GetWriteableOwn DEF PathInv, Ownership, HeapType
<1>4. c \in Value
    BY <1>3 DEF PathInv, Filled, Contents
<1>5. /\ hostTlb \in Tlb
      /\ hostTlb[mo].obj \in {NoObj, obj[cur][mo]}
      /\ hostTlb[mo].obj # NoObj /\ hostTlb[mo].own /\ mo \in Ram
            => hostTlb[mo].obj[2] = cowKey[cur]
  <2>1. TlbOf(cur) = hostTlb
    BY <1>2, <1>3, OngoingStage, TlbIs DEF TlbSaved, PathInv
  <2>2. TlbFits(hostTlb, obj[cur], cowKey[cur])
    BY <1>3, <2>1 DEF PathInv, Coherent
  <2> QED BY <2>2 DEF TlbFits, PathInv, HostType
<1>6. /\ hostTlb' \in Tlb
      /\ \A p \in Page \ {mo} : hostTlb'[p] = hostTlb[p]
      /\ hostTlb'[mo].obj \in {NoObj, Own(cur)}
  <2>1. CASE obj[cur][mo] # Own(cur) /\ hostTlb[mo].obj = obj[cur][mo]
    <3>1. hostTlb' = [hostTlb EXCEPT ![mo] = [obj |-> Own(cur), own |-> mo \in Ram \/ @.own]]
      BY <1>2, <2>1 DEF ChangeTlb
    <3>2. [obj |-> Own(cur), own |-> mo \in Ram \/ hostTlb[mo].own] \in Entry
      BY <1>3, <1>5 DEF Entry, Tlb
    <3> QED BY <1>5, <3>1, <3>2 DEF Tlb
  <2>2. CASE ~(obj[cur][mo] # Own(cur) /\ hostTlb[mo].obj = obj[cur][mo])
    <3>1. hostTlb' = hostTlb
      BY <1>2, <2>2 DEF ChangeTlb
    <3> QED BY <1>5, <2>2, <3>1
  <2> QED BY <2>1, <2>2
<1>7. HostType'
    BY <1>2, <1>6 DEF PathInv, HostType
<1> HIDE DEF c
<1> QED BY <1>1, <1>2, <1>3, <1>4, <1>6, <1>7, AccessKeeps

(* updateTlbEntry: the page moves to the object of the state's own, unless *)
(* it is shared, and its contents stay.                                    *)
LEMMA UpdateTlbIs ==
    ASSUME PathInv, NEW mo \in Page, UpdateTlbEntry(mo)
    PROVE  /\ Ongoing /\ conc' = conc /\ UNCHANGED <<ptr, hostRegs, hostSys, hostMem, hostDev>>
           /\ \E new \in {obj[cur][mo], Own(cur)} :
                 /\ mo \in Ram => new = Own(cur)
                 /\ Rebinds(cur, mo, new, Holds(cur, mo))
                 /\ cache' = [cache EXCEPT ![cur] = [cache[cur] EXCEPT ![mo] = new]]
                 /\ hostTlb' = [hostTlb EXCEPT ![mo] = [obj |-> new, own |-> TRUE]]
<1> DEFINE src == obj[cur][mo]
           new == IF mo \in Shared THEN src ELSE Own(cur)
<1>1. /\ cur \in live /\ mo \in MO /\ Cached(mo) = src
      /\ GetWriteable(cur, cowKey[cur], src) = Own(cur)
      /\ mo \in Ram => mo \notin Shared
    BY Objects, GetWriteableOwn, CachedIsBound DEF PathInv, Ownership, HeapType
<1>2. /\ obj' = [obj EXCEPT ![cur][mo] = IF new = src THEN @ ELSE new]
      /\ cache' = [cache EXCEPT ![cur][mo] = new]
      /\ mem' = Release([mem EXCEPT ![mo] = Store(@, new, @[src])], obj', live)
      /\ hostTlb' = [ChangeTlb(hostTlb, mo, src, new) EXCEPT ![mo] = [obj |-> new, own |-> TRUE]]
      /\ Running
      /\ UNCHANGED <<control, cowKey, ptr, dev, hostRegs, hostSys, hostMem, hostDev>>
    BY <1>1 DEF UpdateTlbEntry
<1>3. new \in {src, Own(cur)} /\ (mo \in Ram => new = Own(cur))
    BY <1>1
<1> HIDE DEF new
<1>4. obj' = [obj EXCEPT ![cur] = [obj[cur] EXCEPT ![mo] = new]]
    BY <1>2
<1>5. mem' = Release([mem EXCEPT ![mo] = Store(mem[mo], new, Holds(cur, mo))], obj', live)
    BY <1>2 DEF Holds
<1>6. hostTlb' = [hostTlb EXCEPT ![mo] = [obj |-> new, own |-> TRUE]]
  <2>1. hostTlb \in Tlb
    BY DEF PathInv, HostType
  <2> QED BY <1>2, <2>1 DEF ChangeTlb, Tlb
<1>7. Ongoing /\ conc' = conc
    BY <1>2 DEF Ongoing, control
<1>8. Rebinds(cur, mo, new, Holds(cur, mo))
    BY <1>3, <1>4, <1>5 DEF Rebinds
<1> QED BY <1>2, <1>3, <1>6, <1>7, <1>8

(* Filling a TLB entry keeps the invariant. *)
LEMMA UpdateTlbKeeps ==
    ASSUME PathInv, Ownership', NEW mo \in Page, UpdateTlbEntry(mo)
    PROVE  PathInv'
<1>1. Ongoing /\ conc' = conc /\ UNCHANGED <<ptr, hostRegs, hostSys, hostMem, hostDev>>
    BY UpdateTlbIs
<1>2. PICK new \in {obj[cur][mo], Own(cur)} :
          /\ mo \in Ram => new = Own(cur)
          /\ Rebinds(cur, mo, new, Holds(cur, mo))
          /\ cache' = [cache EXCEPT ![cur] = [cache[cur] EXCEPT ![mo] = new]]
          /\ hostTlb' = [hostTlb EXCEPT ![mo] = [obj |-> new, own |-> TRUE]]
    BY UpdateTlbIs
<1>3. cur \in live /\ mo \in MO /\ mo # "sys" /\ Own(cur) \in Id /\ Own(cur)[2] = cowKey[cur]
    BY Objects, GetWriteableOwn DEF PathInv, Ownership, HeapType
<1>4. Holds(cur, mo) \in Value /\ new \in Id
    BY <1>3, SMT DEF PathInv, Filled, Contents, Ownership, HeapType
<1>5. hostTlb \in Tlb /\ [obj |-> new, own |-> TRUE] \in Entry
    BY <1>4 DEF PathInv, HostType, Entry
<1>6. /\ hostTlb' \in Tlb
      /\ \A p \in Page \ {mo} : hostTlb'[p] = hostTlb[p]
      /\ hostTlb'[mo].obj = new
    BY <1>2, <1>5 DEF Tlb
<1>7. HostType'
    BY <1>1, <1>6 DEF PathInv, HostType
<1>8. mo \in Ram => new[2] = cowKey[cur]
    BY <1>2, <1>3
<1> QED BY <1>1, <1>2, <1>4, <1>6, <1>7, <1>8, AccessKeeps

(* DmaRead caches the bound object. *)
LEMMA DmaReadKeeps ==
    ASSUME PathInv, Ownership', NEW mo \in Page, DmaRead(mo)
    PROVE  PathInv'
<1>1. /\ Ongoing /\ UNCHANGED <<obj, mem, host>>
      /\ cache' = [cache EXCEPT ![cur][mo] = obj[cur][mo]]
    BY DEF DmaRead, Ongoing, control
<1>2. pending = {} /\ active = {cur} /\ cur \in live /\ mo \in MO /\ obj[cur][mo] \in Id
    BY <1>1, OngoingStage, Objects, SMTT(30) DEF PathInv, Ownership, HeapType
<1>3. Allocated' /\ Filled' /\ HostType' /\ UNCHANGED <<live, cur, active, cowKey, hostTlb>>
    BY <1>1 DEF PathInv, Allocated, Filled, Holds, HostType, Ongoing, host
<1>4. CacheFits(cache[cur], obj[cur]) /\ TlbFits(hostTlb, obj[cur], cowKey[cur])
  <2>1. TlbOf(cur) = hostTlb
    BY <1>2, TlbIs DEF TlbSaved, PathInv
  <2> QED BY <1>2, <2>1 DEF PathInv, Coherent
<1>5. /\ cache'[cur][mo] = obj[cur][mo] /\ \A p \in Page \ {mo} : cache'[cur][p] = cache[cur][p]
      /\ \A s \in live \ {cur} : cache'[s] = cache[s]
      /\ cache' \in [live -> [Page -> Id \cup {NoObj}]]
    BY <1>1, <1>2 DEF PathInv, LocalType
<1>6. Coherent'
  <2>1. \A s \in live \ {cur} : /\ \A p \in Page : obj'[s][p] = obj[s][p]
                                /\ cache'[s] = cache[s]
                                /\ Holds(s, "sys")'.tlb = Holds(s, "sys").tlb
    BY <1>1, <1>5 DEF Holds
  <2>2. CacheFits(cache'[cur], obj'[cur])
    BY <1>1, <1>4, <1>5 DEF CacheFits
  <2>3. TlbFits(hostTlb', obj'[cur], cowKey[cur])
    BY <1>1, <1>3, <1>4
  <2> QED BY <1>2, <1>3, <2>1, <2>2, <2>3, RunKeepsCoherent
<1> QED BY <1>1, <1>3, <1>5, <1>6, OngoingKeeps

(* A native store that hits the TLB writes the state's own object: an      *)
(* entry marked owned can be written in place.                             *)
LEMMA FastStoreIs ==
    ASSUME PathInv, NEW mo \in Page, NEW v \in Value, FastStore(mo, v)
    PROVE  /\ Ongoing /\ conc' = conc
           /\ \/ /\ mo \in Ram /\ obj[cur][mo] = Own(cur)
                 /\ mem' = [mem EXCEPT ![mo] = [mem[mo] EXCEPT ![obj[cur][mo]] = v]]
                 /\ UNCHANGED <<obj, cache, host>>
              \/ /\ mo \in Shared /\ hostMem' = [hostMem EXCEPT ![mo] = v]
                 /\ UNCHANGED <<heap, hostRegs, hostSys, hostTlb, hostDev>>
<1>1. Ongoing /\ conc' = conc
    BY DEF FastStore, Ongoing, control
<1>2. cur \in live /\ mo \in MO
    BY Objects DEF PathInv, Ownership, HeapType
<1>3. TlbFits(hostTlb, obj[cur], cowKey[cur])
  <2>1. TlbOf(cur) = hostTlb
    BY <1>1, <1>2, OngoingStage, TlbIs DEF TlbSaved, PathInv
  <2> QED BY <1>2, <2>1 DEF PathInv, Coherent
<1>4. CASE mo \in Ram
  <2>1. hostTlb[mo].obj = obj[cur][mo] /\ obj[cur][mo][2] = cowKey[cur]
    BY <1>3, <1>4 DEF FastStore, TlbFits
  <2>2. obj[cur][mo] = Own(cur)
    BY <1>2, <2>1, GetWriteableOwn DEF PathInv
  <2>3. mem' = [mem EXCEPT ![mo][obj[cur][mo]] = v] /\ UNCHANGED <<obj, cache, host>>
    BY <1>4, <2>1, Objects DEF FastStore, host
  <2> QED BY <1>1, <1>4, <2>2, <2>3
<1>5. CASE mo \in Shared
  <2>1. mo \notin Ram
    BY <1>5, Objects
  <2> QED BY <1>1, <1>5, <2>1 DEF FastStore, heap
<1> QED BY <1>4, <1>5, Objects

(* Writes to the registers and to CPU system state go to the host or to    *)
(* the pinned object, which is the state's own.                            *)
LEMMA WriteCpuRegisterIs ==
    ASSUME PathInv, NEW v \in Value, WriteCpuRegister(v)
    PROVE  /\ Ongoing /\ conc' = conc
           /\ \/ /\ cur \in conc /\ hostRegs' = v
                 /\ UNCHANGED <<heap, hostSys, hostTlb, hostMem, hostDev>>
              \/ /\ cur \notin conc /\ obj[cur]["regs"] = Own(cur)
                 /\ mem' = [mem EXCEPT !["regs"] = [mem["regs"] EXCEPT ![obj[cur]["regs"]] = v]]
                 /\ UNCHANGED <<obj, cache, host>>
<1>1. Ongoing /\ conc' = conc
    BY DEF WriteCpuRegister, Ongoing, control
<1>2. ptr[cur]["regs"] = obj[cur]["regs"] /\ obj[cur]["regs"] = Own(cur)
    BY Objects, GetWriteableOwn DEF PathInv, Ownership, HeapType
<1>3. CASE cur \in conc
    BY <1>1, <1>3 DEF WriteCpuRegister, heap
<1>4. CASE cur \notin conc
  <2>1. /\ mem' = [mem EXCEPT !["regs"][ptr[cur]["regs"]] = v]
        /\ UNCHANGED <<obj, cache, host>>
    BY <1>4 DEF WriteCpuRegister, host
  <2> QED BY <1>1, <1>2, <1>4, <2>1
<1> QED BY <1>3, <1>4

(* writeCpuState edits the host for the running state, the pinned object   *)
(* otherwise.                                                              *)
LEMMA WriteCpuStateIs ==
    ASSUME PathInv, NEW s \in live, NEW v \in Value, WriteCpuState(s, v)
    PROVE  /\ Ongoing /\ conc' = conc
           /\ \/ /\ s = cur /\ hostSys' = v
                 /\ UNCHANGED <<heap, hostRegs, hostTlb, hostMem, hostDev>>
              \/ /\ s \notin active /\ obj[s]["sys"] = Own(s)
                 /\ mem' = [mem EXCEPT !["sys"] = [mem["sys"] EXCEPT ![obj[s]["sys"]] =
                                [val |-> v, tlb |-> Holds(s, "sys").tlb]]]
                 /\ UNCHANGED <<obj, cache, host>>
<1>1. Ongoing /\ conc' = conc
    BY DEF WriteCpuState, Ongoing, control
<1>2. ptr[s]["sys"] = obj[s]["sys"] /\ obj[s]["sys"] = Own(s)
    BY Objects, GetWriteableOwn DEF PathInv
<1>3. CASE s \in active
  <2>1. s = cur
    BY <1>1, <1>3, OngoingStage
  <2> QED BY <1>1, <1>3, <2>1 DEF WriteCpuState, heap
<1>4. CASE s \notin active
  <2>1. /\ mem' = [mem EXCEPT !["sys"][ptr[s]["sys"]] = [val |-> v, tlb |-> @.tlb]]
        /\ UNCHANGED <<obj, cache, host>>
    BY <1>4 DEF WriteCpuState, host
  <2>2. mem' = [mem EXCEPT !["sys"] = [mem["sys"] EXCEPT ![ptr[s]["sys"]] =
                     [val |-> v, tlb |-> mem["sys"][ptr[s]["sys"]].tlb]]]
    BY <2>1
  <2> QED BY <1>1, <1>2, <1>4, <2>1, <2>2 DEF Holds
<1> QED BY <1>3, <1>4

(* A native store that hits the TLB keeps the invariant. *)
LEMMA FastStoreKeeps ==
    ASSUME PathInv, Ownership', NEW mo \in Page, NEW v \in Value, FastStore(mo, v)
    PROVE  PathInv'
<1>1. cur \in live /\ HostType /\ mo \in MO /\ mo # "sys"
    BY Objects DEF PathInv, Ownership, HeapType
<1>2. CASE mo \in Ram /\ obj[cur][mo] = Own(cur)
           /\ mem' = [mem EXCEPT ![mo] = [mem[mo] EXCEPT ![obj[cur][mo]] = v]]
           /\ UNCHANGED <<obj, cache, host>>
  <2>1. v \in Contents(mo)
    BY <1>1 DEF Contents
  <2> QED BY <1>1, <1>2, <2>1, FastStoreIs, InPlaceKeeps
<1>3. CASE mo \in Shared /\ hostMem' = [hostMem EXCEPT ![mo] = v]
           /\ UNCHANGED <<heap, hostRegs, hostSys, hostTlb, hostDev>>
  <2>1. HostType'
    BY <1>1, <1>3 DEF HostType
  <2> QED BY <1>3, <2>1, FastStoreIs, HostStepKeeps
<1> QED BY <1>2, <1>3, FastStoreIs

(* So do the other steps of the running state. *)
LEMMA RunStepKeeps ==
    ASSUME PathInv, Ownership', NEW s \in live, NEW v \in Value,
           \/ TlbFlush \/ WriteDirtyMask(v) \/ WriteCpuRegister(v) \/ WriteCpuState(s, v)
           \/ DeviceStep(v) \/ SwitchToConcrete \/ SwitchToSymbolic
    PROVE  PathInv'
<1>0. /\ cur \in live /\ HostType /\ "regs" \in MO /\ "sys" \in MO /\ "regs" # "sys"
      /\ Dirty \in Shared
    BY Objects DEF PathInv, Ownership, HeapType
<1>2. CASE TlbFlush
  <2>1. Ongoing /\ UNCHANGED heap /\ hostTlb' = NoTlb
    BY <1>2 DEF TlbFlush, Ongoing, control, heap
  <2>2. NoTlb \in Tlb
    BY DEF NoTlb, Tlb, NoEntry, Entry
  <2>3. HostType'
    BY <1>0, <1>2, <2>2 DEF TlbFlush, HostType
  <2> QED BY <2>1, <2>3, HostStepKeeps
<1>3. CASE WriteDirtyMask(v)
  <2>1. Ongoing /\ UNCHANGED heap /\ hostTlb' = hostTlb
    BY <1>3 DEF WriteDirtyMask, Ongoing, control, heap
  <2>2. HostType'
    BY <1>0, <1>3 DEF WriteDirtyMask, HostType
  <2> QED BY <2>1, <2>2, HostStepKeeps
<1>4. CASE WriteCpuRegister(v)
  <2>1. CASE hostRegs' = v /\ UNCHANGED <<heap, hostSys, hostTlb, hostMem, hostDev>>
    <3>1. HostType'
      BY <1>0, <2>1 DEF HostType
    <3> QED BY <1>4, <2>1, <3>1, WriteCpuRegisterIs, HostStepKeeps
  <2>2. CASE obj[cur]["regs"] = Own(cur)
             /\ mem' = [mem EXCEPT !["regs"] = [mem["regs"] EXCEPT ![obj[cur]["regs"]] = v]]
             /\ UNCHANGED <<obj, cache, host>>
    <3>1. v \in Contents("regs")
      BY DEF Contents
    <3> QED BY <1>0, <1>4, <2>2, <3>1, WriteCpuRegisterIs, InPlaceKeeps
  <2> QED BY <1>4, <2>1, <2>2, WriteCpuRegisterIs
<1>5. CASE WriteCpuState(s, v)
  <2> DEFINE c == [val |-> v, tlb |-> Holds(s, "sys").tlb]
  <2>1. CASE hostSys' = v /\ UNCHANGED <<heap, hostRegs, hostTlb, hostMem, hostDev>>
    <3>1. HostType'
      BY <1>0, <2>1 DEF HostType
    <3> QED BY <1>5, <2>1, <3>1, WriteCpuStateIs, HostStepKeeps
  <2>2. CASE obj[s]["sys"] = Own(s)
             /\ mem' = [mem EXCEPT !["sys"] = [mem["sys"] EXCEPT ![obj[s]["sys"]] = c]]
             /\ UNCHANGED <<obj, cache, host>>
    <3>1. Holds(s, "sys") \in [val : Value, tlb : Tlb]
      BY <1>0 DEF PathInv, Filled, Contents
    <3>2. c \in Contents("sys") /\ c.tlb = Holds(s, "sys").tlb
      BY <3>1 DEF Contents
    <3> HIDE DEF c
    <3> QED BY <1>0, <1>5, <2>2, <3>2, WriteCpuStateIs, InPlaceKeeps
  <2> QED BY <1>5, <2>1, <2>2, WriteCpuStateIs
<1>6. CASE DeviceStep(v)
  <2>1. Ongoing /\ UNCHANGED heap /\ hostTlb' = hostTlb
    BY <1>6 DEF DeviceStep, Ongoing, control, heap
  <2>2. HostType'
    BY <1>0, <1>6 DEF DeviceStep, HostType
  <2> QED BY <2>1, <2>2, HostStepKeeps
<1>7. ptr[cur]["regs"] = obj[cur]["regs"] /\ obj[cur]["regs"] = Own(cur)
    BY Objects, GetWriteableOwn DEF PathInv, Ownership, HeapType
<1>8. CASE SwitchToConcrete
  <2>1. Ongoing /\ UNCHANGED heap /\ hostTlb' = hostTlb
    BY <1>8 DEF SwitchToConcrete, Ongoing, heap
  <2>2. hostRegs' = Holds(cur, "regs")
    BY <1>7, <1>8 DEF SwitchToConcrete, Holds
  <2>3. Holds(cur, "regs") \in Value
    BY <1>0 DEF PathInv, Filled, Contents
  <2>4. HostType'
    BY <1>0, <1>8, <2>2, <2>3 DEF SwitchToConcrete, HostType
  <2> QED BY <2>1, <2>4, HostStepKeeps
<1>9. CASE SwitchToSymbolic
  <2>1. /\ Ongoing /\ UNCHANGED <<obj, cache, host>>
        /\ mem' = [mem EXCEPT !["regs"][obj[cur]["regs"]] = hostRegs]
    BY <1>7, <1>9 DEF SwitchToSymbolic, Ongoing
  <2>2. hostRegs \in Contents("regs")
    BY <1>0 DEF HostType, Contents
  <2> QED BY <1>0, <1>7, <2>1, <2>2, InPlaceKeeps
<1> QED BY <1>2, <1>3, <1>4, <1>5, <1>6, <1>8, <1>9

(* The caches and the host TLB of the active states fit their bindings. *)
LEMMA ActiveFits ==
    ASSUME PathInv, NEW s \in live
    PROVE  /\ active \subseteq live
           /\ CacheFits(cache[s], obj[s])
           /\ s \in active => TlbFits(hostTlb, obj[s], cowKey[s])
           /\ s \notin active => TlbFits(Holds(s, "sys").tlb, obj[s], cowKey[s])
<1>1. active \subseteq live
    BY DEF PathInv, Staged, Ownership, HeapType
<1>2. CacheFits(cache[s], obj[s]) /\ TlbFits(TlbOf(s), obj[s], cowKey[s])
    BY DEF PathInv, Coherent
<1>3. TlbOf(s) = IF s \in active THEN hostTlb ELSE Holds(s, "sys").tlb
    BY TlbIs DEF PathInv, TlbSaved
<1> QED BY <1>1, <1>2, <1>3

(* The TLB and the memory cache that are saved with a state follow its     *)
(* shared pages to their new objects.                                      *)
LEMMA SavedStateFits ==
    ASSUME PathInv, NEW s \in active
    PROVE  /\ SavedCache(s) \in [Page -> Id \cup {NoObj}] /\ SavedTlb(s) \in Tlb
           /\ CacheFits(SavedCache(s), SavedObj(s))
           /\ TlbFits(SavedTlb(s), SavedObj(s), cowKey[s])
<1>1. s \in live
    BY DEF PathInv, Staged, Ownership, HeapType
<1>2. CacheFits(cache[s], obj[s]) /\ TlbFits(hostTlb, obj[s], cowKey[s])
    BY <1>1, ActiveFits
<1>3. /\ hostTlb \in Tlb /\ cache[s] \in [Page -> Id \cup {NoObj}]
      /\ SavedObj(s) \in [MO -> Id] /\ obj[s] \in [MO -> Id]
    BY <1>1, SavedObjBinds DEF PathInv, HostType, LocalType, Ownership, HeapType
<1>4. ASSUME NEW p \in Page
      PROVE  /\ SavedCache(s)[p] \in Id \cup {NoObj}
             /\ SavedCache(s)[p] \in {NoObj, SavedObj(s)[p]}
  <2>1. SavedCache(s)[p] = ChangeCache(cache[s][p], obj[s][p], SavedObj(s)[p])
    BY DEF SavedCache
  <2>2. p \in MO /\ cache[s][p] \in {NoObj, obj[s][p]}
    BY <1>2, Objects DEF CacheFits
  <2> QED BY <1>3, <2>1, <2>2 DEF ChangeCache
<1>5. ASSUME NEW p \in Page
      PROVE  /\ SavedTlb(s)[p] \in Entry
             /\ SavedTlb(s)[p].obj \in {NoObj, SavedObj(s)[p]}
             /\ SavedTlb(s)[p].obj # NoObj /\ SavedTlb(s)[p].own /\ p \in Ram
                   => SavedTlb(s)[p].obj[2] = cowKey[s]
  <2>0. SavedTlb(s)[p] = ChangeTlb(hostTlb, p, obj[s][p], SavedObj(s)[p])[p]
    BY DEF SavedTlb
  <2>1. /\ p \in MO /\ hostTlb[p] \in Entry /\ hostTlb[p].obj \in {NoObj, obj[s][p]}
        /\ hostTlb[p].obj # NoObj /\ hostTlb[p].own /\ p \in Ram => hostTlb[p].obj[2] = cowKey[s]
    BY <1>2, <1>3, Objects DEF TlbFits, Tlb
  <2>2. CASE obj[s][p] # SavedObj(s)[p] /\ hostTlb[p].obj = obj[s][p]
    <3>1. SavedTlb(s)[p] = [obj |-> SavedObj(s)[p], own |-> p \in Ram \/ hostTlb[p].own]
      BY <1>3, <2>0, <2>2 DEF ChangeTlb, Tlb
    <3>2. p \notin Ram
      BY <2>2, Objects DEF SavedObj
    <3>3. SavedObj(s)[p] \in Id
      BY <1>3, <2>1
    <3> QED BY <2>1, <3>1, <3>2, <3>3, SMTT(30) DEF Entry
  <2>3. CASE obj[s][p] = SavedObj(s)[p] \/ hostTlb[p].obj # obj[s][p]
    <3>1. SavedTlb(s)[p] = hostTlb[p]
      BY <2>0, <2>3 DEF ChangeTlb
    <3> QED BY <2>1, <2>3, <3>1
  <2> QED BY <2>2, <2>3
<1>6. SavedCache(s) \in [Page -> Id \cup {NoObj}]
    BY <1>4 DEF SavedCache
<1>7. SavedTlb(s) \in Tlb
    BY <1>5 DEF SavedTlb, Tlb
<1> QED BY <1>4, <1>5, <1>6, <1>7 DEF CacheFits, TlbFits

(* What a save of the states of S leaves in the store of any state s. *)
LEMMA SavesFit ==
    ASSUME PathInv, NEW S, S \subseteq active, NEW s \in live
    PROVE  /\ CacheFits(SavedCaches(S)[s], SavedObjs(S)[s])
           /\ SavedCaches(S)[s] \in [Page -> Id \cup {NoObj}] /\ SavedDevs(S)[s] \in Value
           /\ s \in S \/ s \notin active =>
                 TlbFits(Saves(S, s, "sys").tlb, SavedObjs(S)[s], cowKey[s])
           /\ s \notin S /\ s \in active => TlbFits(hostTlb, SavedObjs(S)[s], cowKey[s])
           /\ \A mo \in MO : Saves(S, s, mo) \in Contents(mo)
<1>1. CASE s \in S
  <2>1. /\ SavedCaches(S)[s] = SavedCache(s) /\ SavedObjs(S)[s] = SavedObj(s)
        /\ SavedDevs(S)[s] = hostDev
    BY <1>1 DEF SavedCaches, SavedObjs, SavedDevs
  <2>2. Saves(S, s, "sys") = [val |-> hostSys, tlb |-> SavedTlb(s)]
    BY <1>1, Objects DEF Saves, HostContents
  <2>3. s \in active /\ HostType
    BY <1>1 DEF PathInv
  <2>4. ASSUME NEW mo \in MO PROVE Saves(S, s, mo) \in Contents(mo)
    <3>1. CASE mo \in Ram
      BY <3>1 DEF Saves, PathInv, Filled
    <3>2. CASE mo = "sys"
      BY <2>2, <2>3, <3>2, SavedStateFits, SMTT(30) DEF Contents, HostType
    <3>3. CASE mo = "regs"
      <4>1. ptr[s]["regs"] = obj[s]["regs"]
        BY Objects, GetWriteableOwn DEF PathInv
      <4>2. Holds(s, "regs") \in Value
        BY Objects DEF PathInv, Filled, Contents
      <4> QED BY <1>1, <2>3, <3>3, <4>1, <4>2, Objects
              DEF Saves, HostContents, Contents, HostType, Holds
    <3>4. CASE mo \in Shared
      BY <1>1, <2>3, <3>4, Objects DEF Saves, HostContents, Contents, HostType
    <3> QED BY <3>1, <3>2, <3>3, <3>4 DEF MO
  <2> QED BY <1>1, <2>1, <2>2, <2>3, <2>4, SavedStateFits, SMT DEF HostType
<1>2. CASE s \notin S
  <2>1. /\ SavedCaches(S)[s] = cache[s] /\ SavedObjs(S)[s] = obj[s]
        /\ SavedDevs(S)[s] = dev[s]
    BY <1>2 DEF SavedCaches, SavedObjs, SavedDevs
  <2>2. \A mo \in MO : Saves(S, s, mo) = Holds(s, mo)
    BY <1>2 DEF Saves
  <2>3. \A mo \in MO : Holds(s, mo) \in Contents(mo)
    BY DEF PathInv, Filled
  <2>4. cache[s] \in [Page -> Id \cup {NoObj}] /\ dev[s] \in Value
    BY DEF PathInv, LocalType
  <2> QED BY <1>2, <2>1, <2>2, <2>3, <2>4, ActiveFits, Objects
<1> QED BY <1>1, <1>2

(* A step that saves the states of S and may delete others. *)
SaveStep(S) ==
    /\ S \subseteq active /\ live' \subseteq live
    /\ obj' = [s \in live' |-> SavedObjs(S)[s]]
    /\ cache' = [s \in live' |-> SavedCaches(S)[s]]
    /\ dev' = [s \in live' |-> SavedDevs(S)[s]]
    /\ cowKey' = [s \in live' |-> cowKey[s]]
    /\ mem' = Release(SavedMem(S), obj', live')

(* The saved states stop; a state that runs afterwards ran before or is    *)
(* the one whose TLB is loaded.                                            *)
StopsAll(S) ==
    \A s \in live' :
        /\ s \in active' => s \notin S
        /\ s \in active' /\ s \in active => hostTlb' = hostTlb
        /\ s \in active' /\ s \notin active => hostTlb' = Holds(s, "sys").tlb
        /\ s \notin active' => s \in S \/ s \notin active

(* A step that saves and stops states, and loads at most one, keeps the    *)
(* invariant.                                                              *)
LEMMA SaveKeeps ==
    ASSUME PathInv, Ownership', NEW S, SaveStep(S), StopsAll(S), HostType', Staged', pending' = {}
    PROVE  PathInv'
<1>1. S \subseteq live /\ S \subseteq active /\ live' \subseteq live
    BY DEF SaveStep, PathInv, Staged, Ownership, HeapType
<1>2. Allocated' /\ \A mo \in MO, s \in live' : Holds(s, mo)' = Saves(S, s, mo)
  <2>1. Ownership /\ Allocated
    BY DEF PathInv
  <2>2. obj' = [s \in live' |-> SavedObjs(S)[s]] /\ mem' = Release(SavedMem(S), obj', live')
    BY DEF SaveStep
  <2> QED BY <1>1, <2>1, <2>2, SaveHolds
<1>3. Filled'
    BY <1>1, <1>2, SavesFit DEF Filled
<1>4. LocalType'
  <2>1. \A s \in live' : SavedCaches(S)[s] \in [Page -> Id \cup {NoObj}] /\ SavedDevs(S)[s] \in Value
    BY <1>1, SavesFit
  <2> QED BY <2>1 DEF LocalType, SaveStep
<1>5. Coherent'
  <2> SUFFICES ASSUME NEW s \in live'
               PROVE  CacheFits(cache'[s], obj'[s]) /\ TlbFits(TlbOf(s)', obj'[s], cowKey'[s])
    BY DEF Coherent
  <2>1. s \in live /\ obj'[s] = SavedObjs(S)[s] /\ cache'[s] = SavedCaches(S)[s]
        /\ cowKey'[s] = cowKey[s]
    BY <1>1 DEF SaveStep
  <2>2. CacheFits(cache'[s], obj'[s])
    BY <1>1, <2>1, SavesFit
  <2>3. CASE s \in active'
    <3>1. TlbOf(s)' = hostTlb' /\ s \notin S
      BY <2>3, TlbIsNext DEF TlbSaved, StopsAll
    <3>2. CASE s \in active
      <4>1. hostTlb' = hostTlb
        BY <2>3, <3>2 DEF StopsAll
      <4>2. TlbFits(hostTlb, SavedObjs(S)[s], cowKey[s])
        BY <1>1, <2>1, <3>1, <3>2, SavesFit
      <4> QED BY <2>1, <2>2, <3>1, <4>1, <4>2
    <3>3. CASE s \notin active
      <4>1. hostTlb' = Holds(s, "sys").tlb /\ Saves(S, s, "sys") = Holds(s, "sys")
        BY <2>3, <3>1, <3>3 DEF StopsAll, Saves
      <4>2. TlbFits(Saves(S, s, "sys").tlb, SavedObjs(S)[s], cowKey[s])
        BY <1>1, <2>1, <3>3, SavesFit
      <4> QED BY <2>1, <2>2, <3>1, <4>1, <4>2
    <3> QED BY <3>2, <3>3
  <2>4. CASE s \notin active'
    <3>1. TlbOf(s)' = Holds(s, "sys")'.tlb /\ (s \in S \/ s \notin active)
      BY <2>4, TlbIsNext DEF TlbSaved, StopsAll
    <3>2. Holds(s, "sys")' = Saves(S, s, "sys")
      BY <1>2, Objects
    <3>3. TlbFits(Saves(S, s, "sys").tlb, SavedObjs(S)[s], cowKey[s])
      BY <1>1, <2>1, <3>1, SavesFit
    <3> QED BY <2>1, <2>2, <3>1, <3>2, <3>3
  <2> QED BY <2>3, <2>4
<1>6. Twins'
    BY DEF Twins
<1> QED BY <1>2, <1>3, <1>4, <1>5, <1>6 DEF PathInv

(* doStateFork. *)
LEMMA DoStateForkIs ==
    ASSUME PathInv, DoStateFork
    PROVE  /\ SaveStep(pending) /\ live' = live /\ active' = active \ pending /\ pending' = {}
           /\ phase = "fork" /\ cur \in active /\ cur \notin pending /\ cur \notin conc /\ conc = {}
           /\ UNCHANGED <<cur, conc, host>>
<1>1. pending \subseteq active /\ cur \in active /\ cur \notin pending /\ cur \notin conc /\ conc = {}
    BY DEF DoStateFork, PathInv, Staged
<1>2. /\ live' = live /\ active' = active \ pending /\ pending' = {} /\ phase = "fork"
      /\ UNCHANGED <<cur, conc, host>>
    BY DEF DoStateFork
<1>3. cowKey' = [s \in live' |-> cowKey[s]]
    BY <1>2 DEF DoStateFork, PathInv, Ownership, HeapType
<1>4. obj' = [s \in live' |-> SavedObjs(pending)[s]]
    BY <1>2 DEF DoStateFork, SavedObjs
<1>5. cache' = [s \in live' |-> SavedCaches(pending)[s]]
    BY <1>2 DEF DoStateFork, SavedCaches
<1>6. dev' = [s \in live' |-> SavedDevs(pending)[s]]
    BY <1>2 DEF DoStateFork, SavedDevs
<1>7. mem' = Release(SavedMem(pending), obj', live')
    BY <1>2 DEF DoStateFork
<1> QED BY <1>1, <1>2, <1>3, <1>4, <1>5, <1>6, <1>7 DEF SaveStep

(* doStateFork keeps the invariant. *)
LEMMA DoStateForkKeeps ==
    ASSUME PathInv, Ownership', DoStateFork
    PROVE  PathInv'
<1>1. /\ SaveStep(pending) /\ live' = live /\ active' = active \ pending /\ pending' = {}
      /\ phase = "fork" /\ cur \in active /\ cur \notin pending /\ conc = {}
      /\ UNCHANGED <<cur, conc, host>>
    BY DoStateForkIs
<1>2. StopsAll(pending)
    BY <1>1 DEF StopsAll, host
<1>3. HostType'
    BY <1>1 DEF HostType, host, PathInv
<1>4. Staged'
    BY <1>1 DEF DoStateFork, PathInv, Staged
<1> QED BY <1>1, <1>2, <1>3, <1>4, SaveKeeps

(* selectNextState: the state that stops is saved, the one that is chosen  *)
(* is loaded unless it is still active.                                    *)
LEMMA SelectIs ==
    ASSUME PathInv, NEW t \in live, SelectNextState(t), NEW S,
           S = IF t = cur THEN {} ELSE {cur} \cap active
    PROVE  /\ SaveStep(S) /\ live' = live \ deleted /\ t \in live' /\ t \notin S
           /\ cur' = t /\ active' = {t} /\ active \subseteq {cur} /\ pending = {} /\ pending' = {}
           /\ \A s \in live' : s \notin active' => s \in S \/ s \notin active
           /\ UNCHANGED hostRegs
           /\ \/ t \in active /\ t = cur /\ conc' = conc
                 /\ UNCHANGED <<hostSys, hostTlb, hostMem, hostDev>>
              \/ t \notin active /\ conc' = {} /\ hostDev' = dev[t]
                 /\ hostSys' = Holds(t, "sys").val /\ hostTlb' = Holds(t, "sys").tlb
                 /\ hostMem' = [mo \in Shared |-> Holds(t, mo)]
<1>1. active \subseteq {cur} /\ pending = {} /\ S \subseteq active /\ S \subseteq live
    BY DEF SelectNextState, PathInv, Staged, Ownership, HeapType
<1>2. /\ live' = live \ deleted /\ cur' = t /\ active' = {t} /\ pending' = pending
      /\ hostRegs' = hostRegs /\ t \in live'
    BY DEF SelectNextState, Terminated
<1>3. /\ obj' = [s \in live' |-> SavedObjs(S)[s]]
      /\ cache' = [s \in live' |-> SavedCaches(S)[s]]
      /\ dev' = [s \in live' |-> SavedDevs(S)[s]]
      /\ cowKey' = [s \in live' |-> cowKey[s]]
      /\ mem' = Release(SavedMem(S), obj', live')
    BY <1>2 DEF SelectNextState
<1>4. SaveStep(S)
    BY <1>1, <1>2, <1>3 DEF SaveStep
<1>5. t \notin S
    BY <1>1
<1>6. \A s \in live' : s \notin active' => s \in S \/ s \notin active
    BY <1>1, <1>2
<1>7. CASE t \in active
  <2>1. t = cur /\ conc' = conc /\ UNCHANGED <<hostSys, hostTlb, hostMem, hostDev>>
    BY <1>1, <1>7 DEF SelectNextState
  <2> QED BY <1>1, <1>2, <1>4, <1>5, <1>6, <1>7, <2>1
<1>8. CASE t \notin active
  <2>1. /\ conc' = {} /\ hostDev' = dev[t]
        /\ hostSys' = SavedMem(S)["sys"][ptr[t]["sys"]].val
        /\ hostTlb' = SavedMem(S)["sys"][ptr[t]["sys"]].tlb
        /\ hostMem' = [mo \in Shared |-> SavedMem(S)[mo][obj[t][mo]]]
    BY <1>8 DEF SelectNextState
  <2>2. \A mo \in MO : SavedMem(S)[mo][obj[t][mo]] = Holds(t, mo)
    BY <1>1, <1>5, SavedContents DEF PathInv
  <2>3. ptr[t]["sys"] = obj[t]["sys"] /\ "sys" \in MO /\ Shared \subseteq MO
    BY Objects, GetWriteableOwn DEF PathInv
  <2>4. hostMem' = [mo \in Shared |-> Holds(t, mo)]
    BY <2>1, <2>2, <2>3
  <2>5. hostSys' = Holds(t, "sys").val /\ hostTlb' = Holds(t, "sys").tlb
    BY <2>1, <2>2, <2>3
  <2> QED BY <1>1, <1>2, <1>4, <1>5, <1>6, <1>8, <2>1, <2>4, <2>5
<1> QED BY <1>7, <1>8

(* selectNextState keeps the invariant. *)
LEMMA SelectKeeps ==
    ASSUME PathInv, Ownership', NEW t \in live, SelectNextState(t)
    PROVE  PathInv'
<1> DEFINE S == IF t = cur THEN {} ELSE {cur} \cap active
<1>1. /\ SaveStep(S) /\ live' = live \ deleted /\ t \in live' /\ t \notin S
      /\ cur' = t /\ active' = {t} /\ active \subseteq {cur} /\ pending = {} /\ pending' = {}
      /\ \A s \in live' : s \notin active' => s \in S \/ s \notin active
      /\ UNCHANGED hostRegs
      /\ \/ t \in active /\ t = cur /\ conc' = conc
            /\ UNCHANGED <<hostSys, hostTlb, hostMem, hostDev>>
         \/ t \notin active /\ conc' = {} /\ hostDev' = dev[t]
            /\ hostSys' = Holds(t, "sys").val /\ hostTlb' = Holds(t, "sys").tlb
            /\ hostMem' = [mo \in Shared |-> Holds(t, mo)]
    BY SelectIs
<1> HIDE DEF S
<1>2. StopsAll(S)
    BY <1>1 DEF StopsAll
<1>3. HostType'
  <2>1. HostType /\ dev[t] \in Value
    BY DEF PathInv, LocalType
  <2>2. /\ Holds(t, "sys") \in [val : Value, tlb : Tlb]
        /\ \A mo \in Shared : Holds(t, mo) \in Value
    BY Objects DEF PathInv, Filled, Contents
  <2> QED BY <1>1, <2>1, <2>2 DEF HostType
<1>4. Staged'
    BY <1>1 DEF SelectNextState, PathInv, Staged
<1> QED BY <1>1, <1>2, <1>3, <1>4, SaveKeeps

(* merge stops the states it was given. *)
LEMMA MergeStops ==
    ASSUME PathInv, NEW a \in live, NEW b \in live, NEW path, Merge(a, b, path)
    PROVE  Staged' /\ HostType' /\ pending = {} /\ pending' = {} /\ active \subseteq {cur}
<1>1. /\ phase = "select" /\ b \notin deleted
      /\ active' = active \ {a, b} /\ conc' = conc \ (active \cap {a, b})
      /\ UNCHANGED <<cur, nextId, live, deleted, pending, host>>
      /\ removed' \in {removed, removed \cup {b}}
      /\ phase' \in {phase, "escaped"}
    BY MergeOutcomes DEF Joins, Parts, Terminated
<1>2. Staged
    BY DEF PathInv
<1>3. Staged'
    BY <1>1, <1>2 DEF Staged
<1>4. HostType'
    BY <1>1 DEF PathInv, HostType, host
<1> QED BY <1>1, <1>2, <1>3, <1>4 DEF Staged

(* merge that fails keeps the invariant: it is a save. *)
LEMMA PartsKeeps ==
    ASSUME PathInv, Ownership', NEW a \in live, NEW b \in live, NEW path,
           Merge(a, b, path), Parts(a, b)
    PROVE  PathInv' /\ SaveStep(active \cap {a, b})
<1> DEFINE S == active \cap {a, b}
<1>1. /\ live' = live /\ active' = active \ {a, b} /\ dev' = SavedDevs(S)
      /\ UNCHANGED <<cowKey, host>>
    BY MergeOutcomes
<1>2. obj' = SavedObjs(S) /\ cache' = SavedCaches(S) /\ mem' = Release(SavedMem(S), obj', live)
    BY DEF Parts
<1>3. cowKey' = [s \in live' |-> cowKey[s]]
    BY <1>1 DEF PathInv, Ownership, HeapType
<1>4. SaveStep(S)
    BY <1>1, <1>2, <1>3 DEF SaveStep, SavedObjs, SavedCaches, SavedDevs
<1>5. StopsAll(S)
    BY <1>1 DEF StopsAll, host
<1> HIDE DEF S
<1>6. PathInv'
    BY <1>4, <1>5, MergeStops, SaveKeeps
<1> QED BY <1>4, <1>6 DEF S

(* merge that succeeds keeps the invariant. *)
LEMMA JoinsKeeps ==
    ASSUME PathInv, Ownership', NEW a \in live, NEW b \in live, NEW path \in {0, a, b},
           Merge(a, b, path), Joins(a, b, path)
    PROVE  PathInv'
<1> DEFINE S == active \cap {a, b}
           o == SavedObjs(S)
           c == SavedCaches(S)
           New(mo) == IF mo \in Mutated(a, b, o) \cup {Dirty}
                      THEN GetWriteable(a, cowKey[a], o[a][mo]) ELSE o[a][mo]
<1>0. /\ path \in {a, b} /\ S \subseteq active /\ live' = live /\ a # b
      /\ active' = active \ {a, b} /\ dev' = SavedDevs(S) /\ UNCHANGED <<cowKey, host>>
  <2>1. path # 0
    BY DEF Joins
  <2>2. /\ live' = live /\ a # b /\ active' = active \ {a, b}
        /\ dev' = SavedDevs(S) /\ UNCHANGED <<cowKey, host>>
    BY MergeOutcomes
  <2> QED BY <2>1, <2>2
<1>1. /\ obj' = [o EXCEPT ![a] = [mo \in MO |-> New(mo)]]
      /\ cache' = [c EXCEPT ![a] = [p \in Page |-> ChangeCache(c[a][p], o[a][p], New(p))]]
    BY DEF Joins
<1>2. /\ Allocated'
      /\ \A mo \in MO : Holds(a, mo)' = Joined(a, b, path, S, mo)
      /\ \A mo \in MO, s \in live \ {a} : Holds(s, mo)' = Saves(S, s, mo)
    BY <1>0, JoinHolds, SMTT(30) DEF PathInv
<1>3. \A s \in live : /\ CacheFits(c[s], o[s]) /\ c[s] \in [Page -> Id \cup {NoObj}]
                      /\ SavedDevs(S)[s] \in Value
                      /\ \A mo \in MO : Saves(S, s, mo) \in Contents(mo)
    BY <1>0, SavesFit
<1>4. /\ \A mo \in MO : obj'[a][mo] = New(mo) /\ obj'[a][mo] \in Id
      /\ \A s \in live \ {a} : obj'[s] = o[s] /\ cache'[s] = c[s]
      /\ cache'[a] = [p \in Page |-> ChangeCache(c[a][p], o[a][p], New(p))]
  <2>1. DOMAIN o = live /\ DOMAIN c = live
    BY DEF SavedObjs, SavedCaches
  <2>2. \A mo \in MO : obj'[a][mo] \in Id
    BY <1>0 DEF Ownership, HeapType
  <2> HIDE DEF o, c, New
  <2> QED BY <1>1, <2>1, <2>2
<1> HIDE DEF o, c, New
<1>5. Filled'
  <2>1. ASSUME NEW mo \in MO PROVE Joined(a, b, path, S, mo) \in Contents(mo)
    <3>1. /\ Saves(S, a, mo) \in Contents(mo) /\ Saves(S, b, mo) \in Contents(mo)
          /\ Saves(S, path, mo) \in Contents(mo)
      BY <1>0, <1>3
    <3>2. CASE mo = "sys"
      <4>1. NoTlb \in Tlb
        BY DEF NoTlb, Tlb, NoEntry, Entry
      <4>2. Saves(S, a, "sys") \in [val : Value, tlb : Tlb]
        BY <3>1, <3>2 DEF Contents
      <4>3. Joined(a, b, path, S, "sys") = [val |-> Saves(S, a, "sys").val, tlb |-> NoTlb]
        BY Objects DEF Joined
      <4> QED BY <3>2, <4>1, <4>2, <4>3, SMT DEF Contents
    <3>3. CASE mo # "sys"
      BY <3>1, <3>3, ConstantsAssumption DEF Joined, Contents
    <3> QED BY <3>2, <3>3
  <2> QED BY <1>0, <1>2, <1>3, <2>1 DEF Filled
<1>6. ASSUME NEW p \in Page
      PROVE  /\ cache'[a][p] \in {NoObj, obj'[a][p]}
             /\ cache'[a][p] \in Id \cup {NoObj}
  <2>1. p \in MO /\ c[a][p] \in {NoObj, o[a][p]}
    BY <1>3, Objects DEF CacheFits
  <2>2. cache'[a][p] = ChangeCache(c[a][p], o[a][p], obj'[a][p])
    BY <1>4, <2>1
  <2>3. cache'[a][p] \in {NoObj, obj'[a][p]}
    BY <2>1, <2>2 DEF ChangeCache
  <2> QED BY <1>4, <2>1, <2>3
<1>7. cache'[a] \in [Page -> Id \cup {NoObj}] /\ CacheFits(cache'[a], obj'[a])
    BY <1>4, <1>6 DEF CacheFits
<1>8. LocalType'
  <2>1. DOMAIN cache' = live /\ cache' = [s \in live |-> cache'[s]]
    BY <1>1 DEF c, SavedCaches
  <2>2. \A s \in live : cache'[s] \in [Page -> Id \cup {NoObj}]
    BY <1>3, <1>4, <1>7
  <2>3. dev' \in [live -> Value]
    BY <1>0, <1>3 DEF SavedDevs
  <2> QED BY <1>0, <2>1, <2>2, <2>3 DEF LocalType
<1>9. Coherent'
  <2> SUFFICES ASSUME NEW s \in live
               PROVE  CacheFits(cache'[s], obj'[s]) /\ TlbFits(TlbOf(s)', obj'[s], cowKey'[s])
    BY <1>0 DEF Coherent
  <2>1. CASE s = a
    <3>1. s \in live' /\ s \notin active'
      BY <1>0, <2>1
    <3>2. TlbOf(s)' = Holds(s, "sys")'.tlb
      BY <3>1, TlbIsNext DEF TlbSaved
    <3>3. Joined(a, b, path, S, "sys").tlb = NoTlb
      BY Objects DEF Joined
    <3>4. TlbOf(s)' = NoTlb
      BY <1>2, <2>1, <3>2, <3>3, Objects
    <3>5. TlbFits(NoTlb, obj'[s], cowKey'[s])
      BY DEF TlbFits, NoTlb, NoEntry
    <3> QED BY <1>7, <2>1, <3>4, <3>5
  <2>2. CASE s # a /\ s \in active'
    <3>1. TlbOf(s)' = hostTlb
      BY <1>0, <2>2, TlbIsNext DEF TlbSaved, host
    <3>2. s \in active /\ s \notin S /\ cowKey'[s] = cowKey[s]
      BY <1>0, <2>2
    <3>3. TlbFits(hostTlb, o[s], cowKey[s])
      BY <1>0, <3>2, SavesFit DEF o
    <3>4. CacheFits(c[s], o[s]) /\ obj'[s] = o[s] /\ cache'[s] = c[s]
      BY <1>3, <1>4, <2>2
    <3> QED BY <3>1, <3>2, <3>3, <3>4
  <2>3. CASE s # a /\ s \notin active'
    <3>1. TlbOf(s)' = Holds(s, "sys")'.tlb
      BY <1>0, <2>3, TlbIsNext DEF TlbSaved
    <3>2. (s \in S \/ s \notin active) /\ cowKey'[s] = cowKey[s]
      BY <1>0, <2>3
    <3>3. TlbFits(Saves(S, s, "sys").tlb, o[s], cowKey[s])
      BY <1>0, <3>2, SavesFit DEF o
    <3>4. Holds(s, "sys")' = Saves(S, s, "sys")
      BY <1>2, <2>3, Objects
    <3>5. CacheFits(c[s], o[s]) /\ obj'[s] = o[s] /\ cache'[s] = c[s]
      BY <1>3, <1>4, <2>3
    <3> QED BY <3>1, <3>2, <3>3, <3>4, <3>5
  <2> QED BY <2>1, <2>2, <2>3
<1>10. Staged' /\ HostType' /\ Twins'
    BY MergeStops DEF Twins
<1> QED BY <1>2, <1>5, <1>8, <1>9, <1>10 DEF PathInv

(* Without its owned bits a TLB fits under any key. *)
LEMMA DropOwnedFits ==
    ASSUME NEW tlb \in Tlb, NEW bound, NEW k, NEW key, TlbFits(tlb, bound, k)
    PROVE  DropOwned(tlb) \in Tlb /\ TlbFits(DropOwned(tlb), bound, key)
<1>1. ASSUME NEW p \in Page
      PROVE  /\ DropOwned(tlb)[p] \in Entry /\ DropOwned(tlb)[p].obj = tlb[p].obj
             /\ p \in Ram => DropOwned(tlb)[p].own = FALSE
  <2>1. tlb[p] \in Entry
    BY DEF Tlb
  <2>2. [obj |-> tlb[p].obj, own |-> FALSE] \in Entry
    BY <2>1 DEF Entry
  <2> QED BY <2>1, <2>2 DEF DropOwned
<1>2. DropOwned(tlb) \in Tlb
    BY <1>1 DEF DropOwned, Tlb
<1> QED BY <1>1, <1>2 DEF TlbFits

(* clone: how the stages and the tables of the states change. *)
LEMMA CloneIs ==
    ASSUME PathInv, NEW e \in live, Clone(e)
    PROVE  /\ e \in {cur} \cup pending /\ e \in active /\ cur \in active /\ cur \notin conc
           /\ conc = {} /\ nextId \in State /\ nextId \notin live
           /\ live' = live \cup {nextId} /\ pending' = pending \cup {nextId}
           /\ active' = active \cup {nextId}
           /\ cache' = [s \in live' |-> IF s = nextId THEN [p \in Page |-> NoObj] ELSE cache[s]]
           /\ dev' = [s \in live' |-> IF s = nextId THEN dev[e] ELSE dev[s]]
           /\ phase' = "fork" /\ nextId' = nextId + 1
           /\ hostTlb' = DropOwned(hostTlb)
           /\ UNCHANGED <<cur, removed, deleted, conc, hostRegs, hostSys, hostMem, hostDev>>
<1>1. /\ phase \in {"run", "fork"} /\ e \in {cur} \cup pending /\ cur \notin conc
      /\ phase' = "fork" /\ nextId' = nextId + 1
      /\ live' = live \cup {nextId} /\ pending' = pending \cup {nextId}
      /\ active' = active \cup {nextId}
      /\ hostTlb' = DropOwned(hostTlb)
      /\ UNCHANGED <<cur, removed, deleted, conc, hostRegs, hostSys, hostMem, hostDev>>
    BY DEF Clone
<1>2. /\ cache' = [s \in live' |-> IF s = nextId THEN [p \in Page |-> NoObj] ELSE cache[s]]
      /\ dev' = [s \in live' |-> IF s = nextId THEN dev[e] ELSE dev[s]]
    BY <1>1 DEF Clone
<1>3. e \in active /\ cur \in active /\ conc = {}
    BY <1>1 DEF PathInv, Staged
<1>4. nextId \in State /\ nextId \notin live
    BY CloneBinds DEF PathInv
<1> QED BY <1>1, <1>2, <1>3, <1>4

(* clone keeps the invariant. *)
LEMMA CloneKeeps ==
    ASSUME PathInv, Ownership', NEW e \in live, Clone(e)
    PROVE  PathInv'
<1> DEFINE t == nextId
<1>1. /\ e \in {cur} \cup pending /\ e \in active /\ cur \in active /\ cur \notin conc
      /\ conc = {} /\ t \in State /\ t \notin live /\ cur \in live
      /\ live' = live \cup {t} /\ pending' = pending \cup {t}
      /\ active' = active \cup {t}
      /\ phase' = "fork" /\ nextId' = t + 1
      /\ hostTlb' = DropOwned(hostTlb)
      /\ UNCHANGED <<cur, removed, deleted, conc, hostRegs, hostSys, hostMem, hostDev>>
    BY CloneIs DEF PathInv, Ownership, HeapType
<1>2. /\ cache' = [s \in live' |-> IF s = t THEN [p \in Page |-> NoObj] ELSE cache[s]]
      /\ dev' = [s \in live' |-> IF s = t THEN dev[e] ELSE dev[s]]
    BY CloneIs
<1>3. /\ Allocated'
      /\ \A s \in {e, t}, mo \in MO : Holds(s, mo)' = Holds(e, mo)
      /\ \A s \in live \ {e}, mo \in MO : Holds(s, mo)' = Holds(s, mo)
    BY CloneHolds DEF PathInv
<1>4. /\ \A s \in {e, t}, p \in Page : obj'[s][p] = obj[e][p]
      /\ \A s \in live \ {e} : obj'[s] = obj[s] /\ cowKey'[s] = cowKey[s]
    BY CloneBinds, PageNotPinned, SMT DEF PathInv
<1>5. Staged'
  <2>1. Staged /\ t \in Nat /\ t + 1 \in 2..(MaxStates + 1)
    BY <1>1, ConstantsAssumption, SMTT(30) DEF PathInv, State, Staged
  <2> QED BY <1>1, <2>1 DEF Staged
<1>6. LocalType'
  <2>1. LocalType
    BY DEF PathInv
  <2> QED BY <1>1, <1>2, <2>1 DEF LocalType
<1>7. hostTlb \in Tlb /\ \A s \in active : s \in live /\ TlbFits(hostTlb, obj[s], cowKey[s])
    BY ActiveFits DEF PathInv, HostType, Staged, Ownership, HeapType
<1>8. HostType'
  <2>1. HostType
    BY DEF PathInv
  <2> QED BY <1>1, <1>7, <2>1, DropOwnedFits DEF HostType
<1>9. Filled'
  <2>1. ASSUME NEW s \in live', NEW mo \in MO PROVE Holds(s, mo)' \in Contents(mo)
    <3>1. \A u \in live : Holds(u, mo) \in Contents(mo)
      BY DEF PathInv, Filled
    <3> QED BY <1>1, <1>3, <3>1
  <2> QED BY <2>1 DEF Filled
<1>10. Twins'
  <2> SUFFICES ASSUME NEW s \in pending', NEW mo \in Ram \cup {"regs"}, NEW c, c = cur
               PROVE  Holds(s, mo)' = Holds(c, mo)'
    BY <1>1, SMTT(30) DEF Twins, Holds
  <2>1. mo \in MO
    BY Objects
  <2>2. \A u \in pending \cup {c} : u \in live /\ Holds(u, mo) = Holds(c, mo)
    BY <1>1 DEF PathInv, Twins, Staged
  <2>3. \A u \in live : Holds(u, mo)' = Holds(u, mo)
    BY <1>3, <2>1
  <2> QED BY <1>1, <1>3, <2>1, <2>2, <2>3
<1>11. Coherent'
  <2> SUFFICES ASSUME NEW s \in live'
               PROVE  CacheFits(cache'[s], obj'[s]) /\ TlbFits(TlbOf(s)', obj'[s], cowKey'[s])
    BY DEF Coherent
  <2>1. CacheFits(cache'[s], obj'[s])
    <3>1. CASE s = t
      BY <1>1, <1>2, <3>1 DEF CacheFits
    <3>2. CASE s # t
      <4>1. s \in live /\ cache'[s] = cache[s] /\ CacheFits(cache[s], obj[s])
        BY <1>1, <1>2, <3>2, ActiveFits
      <4>2. \A p \in Page : obj'[s][p] = obj[s][p]
        BY <1>4, <4>1
      <4> QED BY <4>1, <4>2, FitsStay
    <3> QED BY <3>1, <3>2
  <2>2. CASE s \in active'
    <3>1. TlbOf(s)' = DropOwned(hostTlb)
      BY <1>1, <2>2, TlbIsNext DEF TlbSaved
    <3>2. PICK u \in active : \A p \in Page : obj'[s][p] = obj[u][p]
      <4>1. CASE s \in {e, t}
        BY <1>1, <1>4, <4>1
      <4>2. CASE s \notin {e, t}
        BY <1>1, <1>4, <2>2, <4>2
      <4> QED BY <4>1, <4>2
    <3>3. TlbFits(DropOwned(hostTlb), obj[u], cowKey'[s])
      BY <1>7, DropOwnedFits
    <3>4. TlbFits(DropOwned(hostTlb), obj'[s], cowKey'[s])
      BY <3>2, <3>3, FitsStay
    <3> QED BY <2>1, <3>1, <3>4
  <2>3. CASE s \notin active'
    <3>1. s \in live \ {e} /\ s \notin active
      BY <1>1, <2>3
    <3>2. TlbOf(s)' = Holds(s, "sys")'.tlb
      BY <2>3, TlbIsNext DEF TlbSaved
    <3>3. TlbOf(s)' = Holds(s, "sys").tlb
      BY <1>3, <3>1, <3>2, Objects
    <3> QED BY <1>4, <2>1, <3>1, <3>3, ActiveFits
  <2> QED BY <2>2, <2>3
<1> QED BY <1>3, <1>5, <1>6, <1>8, <1>9, <1>10, <1>11 DEF PathInv

(* Steps that only mark states. *)
LEMMA MarkKeeps ==
    ASSUME PathInv, Ownership', UNCHANGED <<live, cur, pending, active, heap, host>>, Staged'
    PROVE  PathInv'
<1>1. Allocated' /\ LocalType' /\ HostType' /\ Filled' /\ Twins'
    BY DEF PathInv, Allocated, LocalType, HostType, Filled, Twins, Holds, heap, host
<1>2. Coherent'
    BY DEF PathInv, Coherent, TlbOf, heap, host
<1> QED BY <1>1, <1>2 DEF PathInv

(* terminateState keeps the invariant. *)
LEMMA TerminateKeeps ==
    ASSUME PathInv, Ownership', NEW s \in live, TerminateState(s)
    PROVE  PathInv'
<1>1. Staged'
    BY DEF TerminateState, Running, Terminated, PathInv, Staged
<1> QED BY <1>1, MarkKeeps DEF TerminateState

(* Entering selectNextState keeps the invariant. *)
LEMMA EnterSelectKeeps ==
    ASSUME PathInv, Ownership', NEW killed, killed \subseteq live, EnterSelect(killed)
    PROVE  PathInv'
<1>1. Staged'
    BY DEF EnterSelect, PathInv, Staged
<1> QED BY <1>1, MarkKeeps DEF EnterSelect

(* The invariant holds initially. *)
LEMMA InitPathInv == Init => PathInv
<1> SUFFICES ASSUME Init PROVE PathInv
    OBVIOUS
<1>1. Ownership
    BY OwnershipInductive
<1>2. NoTlb \in Tlb /\ Clean \in Value /\ 1 \in State
    BY ConstantsAssumption, SMT DEF NoTlb, Tlb, NoEntry, Entry, State
<1>3. Staged
    BY ConstantsAssumption, SMT DEF Init, Staged
<1>4. LocalType /\ HostType
    BY <1>2 DEF Init, LocalType, HostType
<1>5. Allocated
    BY DEF Init, Allocated
<1>6. ASSUME NEW mo \in MO
      PROVE  Holds(1, mo) = IF mo = "sys" THEN [val |-> Clean, tlb |-> NoTlb] ELSE Clean
    BY DEF Init, Holds
<1>7. Filled
    BY <1>2, <1>6, SMTT(30) DEF Init, Filled, Contents
<1>8. Twins
    BY DEF Init, Twins
<1>9. Coherent
  <2>1. TlbOf(1) = NoTlb /\ live = {1} /\ cache[1] = [p \in Page |-> NoObj]
    BY DEF Init, TlbOf
  <2>2. CacheFits(cache[1], obj[1]) /\ TlbFits(NoTlb, obj[1], cowKey[1])
    BY <2>1 DEF CacheFits, TlbFits, NoTlb, NoEntry
  <2> QED BY <2>1, <2>2 DEF Coherent
<1> QED BY <1>1, <1>3, <1>4, <1>5, <1>7, <1>8, <1>9 DEF PathInv

(* Every step keeps the invariant. *)
LEMMA PathInvInductive == PathInv /\ [Next]_vars => PathInv'
<1> SUFFICES ASSUME PathInv, [Next]_vars PROVE PathInv'
    OBVIOUS
<1>1. Ownership'
    BY OwnershipInductive DEF PathInv
<1>2. ASSUME NEW mo \in Page, NEW v \in Value,
             WriteMemory(mo, v) \/ DmaWrite(mo, v) \/ FastStore(mo, v)
      PROVE  PathInv'
    BY <1>1, <1>2, StoreKeeps, FastStoreKeeps
<1>3. ASSUME NEW mo \in Page, DmaRead(mo) \/ UpdateTlbEntry(mo) PROVE PathInv'
    BY <1>1, <1>3, DmaReadKeeps, UpdateTlbKeeps
<1>4. ASSUME TlbFlush \/ SwitchToConcrete \/ SwitchToSymbolic PROVE PathInv'
  <2>1. cur \in live /\ Clean \in Value
    BY ConstantsAssumption DEF PathInv, Ownership, HeapType
  <2> QED BY <1>1, <1>4, <2>1, RunStepKeeps
<1>5. ASSUME NEW v \in Value, WriteDirtyMask(v) \/ WriteCpuRegister(v) \/ DeviceStep(v)
      PROVE  PathInv'
  <2>1. cur \in live
    BY DEF PathInv, Ownership, HeapType
  <2> QED BY <1>1, <1>5, <2>1, RunStepKeeps
<1>6. ASSUME NEW s \in live, NEW v \in Value, WriteCpuState(s, v) PROVE PathInv'
    BY <1>1, <1>6, RunStepKeeps
<1>7. ASSUME NEW e \in live, Clone(e) PROVE PathInv'
    BY <1>1, <1>7, CloneKeeps
<1>8. CASE DoStateFork
    BY <1>1, <1>8, DoStateForkKeeps
<1>9. ASSUME NEW s \in live, TerminateState(s) \/ SelectNextState(s) PROVE PathInv'
    BY <1>1, <1>9, TerminateKeeps, SelectKeeps
<1>10. ASSUME NEW killed \in SUBSET ((live \ Terminated) \cap Mortal), EnterSelect(killed)
       PROVE  PathInv'
    BY <1>1, <1>10, EnterSelectKeeps
<1>11. ASSUME NEW a \in live, NEW b \in live, NEW path \in {0, a, b}, Merge(a, b, path)
       PROVE  PathInv'
  <2>1. CASE Joins(a, b, path)
    BY <1>1, <1>11, <2>1, JoinsKeeps
  <2>2. CASE Parts(a, b)
    BY <1>1, <1>11, <2>2, PartsKeeps
  <2> QED BY <1>11, <2>1, <2>2, MergeOutcomes
<1>12. CASE UNCHANGED vars
  <2>1. Staged' /\ UNCHANGED <<live, cur, pending, active, heap, host>>
    BY <1>12 DEF vars, control, heap, host, PathInv, Staged
  <2> QED BY <1>1, <2>1, MarkKeeps
<1> QED
  BY <1>2, <1>3, <1>4, <1>5, <1>6, <1>7, <1>8, <1>9, <1>10, <1>11, <1>12 DEF Next, NextUsing

(* The invariant always holds. *)
LEMMA PathInvAlways == Spec => []PathInv
  BY InitPathInv, PathInvInductive, PTL DEF Spec

(* Types, and the flags the asserts of doStateSwitch, doStateFork, clone   *)
(* and selectNextState rely on, hold for every guest.                      *)
THEOREM TypesHold == Spec => []TypeOK
  BY PathInvAlways, PathInvImplies, PTL

(* No entry of an S2E TLB or of a memory cache is ever stale, and native   *)
(* code only writes in place what its state owns.                          *)
THEOREM CachesStayCoherent == Spec => []CachesCoherent
  BY PathInvAlways, PathInvImplies, PTL
=============================================================================
