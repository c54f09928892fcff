----------------------- MODULE ExecutionStatesProofs -----------------------
(***************************************************************************)
(* Proofs about ExecutionStates, for every number of states, pages, keys   *)
(* and values: who owns which object, what a step changes in the stores,   *)
(* and the invariant that path isolation rests on.                         *)
(***************************************************************************)
EXTENDS ExecutionStates, TLAPS

(* Zenon is the prover of a step unless it names another: SMT has those    *)
(* that need arithmetic or the extensionality of sets and records.         *)
USE Zenon

(* The part of the type invariant the ownership argument needs. *)
HeapType == /\ live \subseteq State /\ nextId \in Nat
            /\ cur \in live
            /\ cowKey \in [live -> Key]
            /\ obj \in [live -> [MO -> Id]]
            /\ ptr \in [live -> [Pinned -> Id]]
            /\ \A s \in live : s < nextId

(* Where a bound object came from: the state that created it, under a key  *)
(* that state has outgrown unless it is the only one that binds it.        *)
Provenance ==
    \A s \in live, mo \in MO :
        LET o == obj[s][mo] IN
        /\ o[1] < nextId
        /\ o[2] <= cowKey[s]
        /\ o[1] # s => o[2] < cowKey[s]
        /\ (o[1] # s /\ o[1] \in live) => o[2] < cowKey[o[1]]

(* The inductive invariant of the ownership argument. *)
Ownership == HeapType /\ Provenance /\ PinnedCoherent

(* What every step except clone does to the bindings: states may vanish,   *)
(* and a binding stays or moves to the state's own object of its current   *)
(* key.                                                                    *)
Rebind ==
    /\ live' \subseteq live /\ nextId' = nextId
    /\ cur' \in live'
    /\ cowKey' = [s \in live' |-> cowKey[s]]
    /\ ptr' = [s \in live' |-> ptr[s]]
    /\ obj' \in [live' -> [MO -> Id]]
    /\ \A s \in live', mo \in MO :
          /\ obj'[s][mo] \in {obj[s][mo], <<s, cowKey[s]>>}
          /\ mo \in Pinned => obj'[s][mo] = obj[s][mo]

(* The pinned objects are memory objects of their own: no page is pinned. *)
LEMMA PageNotPinned == Page \cap Pinned = {} /\ Page \subseteq MO /\ Pinned \subseteq MO
  BY ConstantsAssumption DEF Page, Pinned, MO

(* A step that only rebinds keeps the ownership invariant. *)
LEMMA RebindKeepsOwnership == Ownership /\ Rebind => Ownership'
<1> SUFFICES ASSUME Ownership, Rebind PROVE Ownership'
  OBVIOUS
<1> USE DEF Ownership, Rebind
<1>1. HeapType'
  <2>1. cowKey' \in [live' -> Key] /\ ptr' \in [live' -> [Pinned -> Id]]
    BY DEF HeapType
  <2>2. QED
    BY <2>1 DEF HeapType
<1>2. PinnedCoherent'
  BY PageNotPinned, SMT DEF PinnedCoherent, HeapType
<1>3. Provenance'
  <2> SUFFICES ASSUME NEW s \in live', NEW mo \in MO
               PROVE LET o == obj'[s][mo] IN
                     /\ o[1] < nextId'
                     /\ o[2] <= cowKey'[s]
                     /\ o[1] # s => o[2] < cowKey'[s]
                     /\ (o[1] # s /\ o[1] \in live') => o[2] < cowKey'[o[1]]
    BY DEF Provenance
  <2>1. s \in live /\ s < nextId /\ s \in State /\ cowKey[s] \in Key /\ cowKey'[s] = cowKey[s]
    BY DEF HeapType
  <2>2. CASE obj'[s][mo] = obj[s][mo]
    <3>1. \A u \in live' : u \in live /\ cowKey'[u] = cowKey[u]
      BY DEF HeapType
    <3>2. QED BY <2>1, <2>2, <3>1 DEF Provenance, HeapType
  <2>3. CASE obj'[s][mo] = <<s, cowKey[s]>>
    BY <2>1, <2>3, SMT DEF HeapType, Key, State
  <2>4. QED BY <2>2, <2>3
<1>4. QED BY <1>1, <1>2, <1>3

(* getWriteable returns the object it was given or the state's own. *)
LEMMA GetWriteableResult ==
    ASSUME NEW s, NEW k, NEW o
    PROVE  /\ GetWriteable(s, k, o) \in {o, <<s, k>>}
           /\ o[2] = k => GetWriteable(s, k, o) = o
  BY DEF GetWriteable

(* Saving a state (doStateFork, doStateSwitch) only rebinds its shared     *)
(* objects.                                                                *)
LEMMA SavedObjBinds ==
    ASSUME Ownership, NEW s \in live
    PROVE  /\ SavedObj(s) \in [MO -> Id]
           /\ \A mo \in MO : /\ SavedObj(s)[mo] \in {obj[s][mo], <<s, cowKey[s]>>}
                             /\ mo \in Pinned => SavedObj(s)[mo] = obj[s][mo]
<1>1. <<s, cowKey[s]>> \in Id /\ obj[s] \in [MO -> Id]
  BY DEF Ownership, HeapType, Id
<1>2. ASSUME NEW mo \in MO
      PROVE /\ SavedObj(s)[mo] \in {obj[s][mo], <<s, cowKey[s]>>}
            /\ mo \in Pinned => SavedObj(s)[mo] = obj[s][mo]
  BY GetWriteableResult, SMT DEF SavedObj, SaveTarget, Ownership, PinnedCoherent
<1>3. SavedObj(s) \in [MO -> Id]
  BY <1>1, <1>2 DEF SavedObj
<1>4. QED BY <1>2, <1>3

(* Guest accesses to a page only rebind that page in the current state. *)
LEMMA AccessRebinds ==
    ASSUME Ownership, NEW mo \in Page, NEW src,
           NEW new, new \in {src, <<cur, cowKey[cur]>>},
           obj' = [obj EXCEPT ![cur][mo] = IF new = src THEN @ ELSE new],
           UNCHANGED <<control, cowKey, ptr>>
    PROVE  Rebind
<1>1. <<cur, cowKey[cur]>> \in Id
  BY DEF Ownership, HeapType, Id
<1>2. mo \in MO /\ mo \notin Pinned
  BY PageNotPinned
<1>3. obj' \in [live -> [MO -> Id]]
  BY <1>1, <1>2 DEF Ownership, HeapType
<1>4. \A s \in live, m \in MO : /\ obj'[s][m] \in {obj[s][m], <<s, cowKey[s]>>}
                                /\ m \in Pinned => obj'[s][m] = obj[s][m]
  BY <1>2 DEF Ownership, HeapType
<1>5. cowKey' = [s \in live' |-> cowKey[s]] /\ ptr' = [s \in live' |-> ptr[s]]
  BY DEF Ownership, HeapType, control
<1>6. QED BY <1>3, <1>4, <1>5 DEF Rebind, Ownership, HeapType, control

(* A step that leaves the bindings alone is a rebinding step. *)
LEMMA QuietRebinds ==
    ASSUME Ownership, UNCHANGED <<live, nextId, cur, cowKey, obj, ptr>>
    PROVE  Rebind
<1>1. cowKey' = [s \in live' |-> cowKey[s]] /\ ptr' = [s \in live' |-> ptr[s]]
  BY DEF Ownership, HeapType
<1>2. QED BY <1>1 DEF Rebind, Ownership, HeapType

(* doStateFork rebinds. *)
LEMMA DoStateForkRebinds == Ownership /\ DoStateFork => Rebind
<1> SUFFICES ASSUME Ownership, DoStateFork PROVE Rebind
  OBVIOUS
<1>1. obj' = [s \in live |-> IF s \in pending THEN SavedObj(s) ELSE obj[s]]
  BY DEF DoStateFork, SavedObjs
<1>2. obj' \in [live -> [MO -> Id]]
  BY <1>1, SavedObjBinds DEF Ownership, HeapType
<1>3. \A s \in live, mo \in MO : /\ obj'[s][mo] \in {obj[s][mo], <<s, cowKey[s]>>}
                                 /\ mo \in Pinned => obj'[s][mo] = obj[s][mo]
  BY <1>1, SavedObjBinds
<1>4. cowKey' = [s \in live' |-> cowKey[s]] /\ ptr' = [s \in live' |-> ptr[s]]
  BY DEF Ownership, HeapType, DoStateFork
<1>5. QED BY <1>2, <1>3, <1>4 DEF Rebind, DoStateFork, Ownership, HeapType

(* selectNextState rebinds, for the states it does not delete. *)
LEMMA SelectRebinds == ASSUME Ownership, NEW t \in live, SelectNextState(t)
                       PROVE  Rebind
<1> DEFINE S == IF t = cur THEN {} ELSE {cur} \cap active
<1>1. obj' = [s \in live' |-> IF s \in S THEN SavedObj(s) ELSE obj[s]]
  BY DEF SelectNextState, SavedObjs
<1>2. live' \subseteq live /\ cur' \in live' /\ nextId' = nextId
  BY DEF SelectNextState, Terminated
<1>3. obj' \in [live' -> [MO -> Id]]
  BY <1>1, <1>2, SavedObjBinds DEF Ownership, HeapType
<1>4. \A s \in live', mo \in MO : /\ obj'[s][mo] \in {obj[s][mo], <<s, cowKey[s]>>}
                                  /\ mo \in Pinned => obj'[s][mo] = obj[s][mo]
  BY <1>1, <1>2, SavedObjBinds
<1>5. cowKey' = [s \in live' |-> cowKey[s]] /\ ptr' = [s \in live' |-> ptr[s]]
  BY DEF SelectNextState
<1>6. QED BY <1>2, <1>3, <1>4, <1>5 DEF Rebind

(* merge rebinds. *)
LEMMA MergeRebinds ==
    ASSUME Ownership, NEW a \in live, NEW b \in live, NEW path, Merge(a, b, path)
    PROVE  Rebind
<1> DEFINE S == active \cap {a, b}
           o == SavedObjs(S)
           New(mo) == IF mo \in Mutated(a, b, o) \cup {Dirty}
                      THEN GetWriteable(a, cowKey[a], o[a][mo]) ELSE o[a][mo]
<1>1. \/ obj' = [o EXCEPT ![a] = [mo \in MO |-> New(mo)]]
      \/ obj' = o
  BY DEF Merge
<1>2. /\ live' = live /\ nextId' = nextId /\ cur' = cur
      /\ cowKey' = cowKey /\ ptr' = ptr
  BY DEF Merge
<1>3. /\ o \in [live -> [MO -> Id]]
      /\ \A s \in live, mo \in MO : /\ o[s][mo] \in {obj[s][mo], <<s, cowKey[s]>>}
                                    /\ mo \in Pinned => o[s][mo] = obj[s][mo]
  BY SavedObjBinds DEF SavedObjs, Ownership, HeapType
<1>4. <<a, cowKey[a]>> \in Id
  BY DEF Ownership, HeapType, Id
<1>5. ASSUME NEW mo \in MO
      PROVE /\ New(mo) \in Id
            /\ New(mo) \in {obj[a][mo], <<a, cowKey[a]>>}
            /\ mo \in Pinned => New(mo) = obj[a][mo]
  <2>1. New(mo) \in {o[a][mo], <<a, cowKey[a]>>}
    BY GetWriteableResult
  <2>2. mo \in Pinned => New(mo) = o[a][mo]
    <3> SUFFICES ASSUME mo \in Pinned PROVE New(mo) = o[a][mo]
      OBVIOUS
    <3>0. PinnedCoherent
      BY DEF Ownership
    <3>1. o[a][mo] = obj[a][mo] /\ obj[a][mo][2] = cowKey[a]
      <4> HIDE DEF o, New
      <4>1. o[a][mo] = obj[a][mo]
        BY <1>3
      <4>2. QED BY <4>1, <3>0, SMT DEF PinnedCoherent
    <3>2. GetWriteable(a, cowKey[a], o[a][mo]) = o[a][mo]
      BY <3>1 DEF GetWriteable
    <3>3. QED BY <3>2
  <2> HIDE DEF New, o
  <2>3. o[a][mo] \in Id
    BY <1>3
  <2>4. QED BY <2>1, <2>2, <2>3, <1>3, <1>4, SMTT(30)
<1> HIDE DEF New, o
<1>6. /\ obj' \in [live -> [MO -> Id]]
      /\ \A s \in live, mo \in MO : /\ obj'[s][mo] \in {obj[s][mo], <<s, cowKey[s]>>}
                                    /\ mo \in Pinned => obj'[s][mo] = obj[s][mo]
  <2>1. CASE obj' = o
    BY <1>3, <2>1
  <2>2. CASE obj' = [o EXCEPT ![a] = [mo \in MO |-> New(mo)]]
    BY <1>3, <1>5, <2>2
  <2>3. QED BY <1>1, <2>1, <2>2
<1>7. cowKey' = [s \in live' |-> cowKey[s]] /\ ptr' = [s \in live' |-> ptr[s]]
  BY <1>2 DEF Ownership, HeapType
<1>8. QED BY <1>2, <1>6, <1>7 DEF Rebind, Ownership, HeapType

(* clone: both states move to the next key and to pinned objects of their  *)
(* own under it.                                                           *)
LEMMA CloneBinds ==
    ASSUME Ownership, NEW e \in live, Clone(e), NEW t, t = nextId, NEW k, k = cowKey[e] + 1
    PROVE  /\ t \in State /\ t \notin live /\ e # t /\ e \in State
           /\ k \in Key /\ cowKey[e] \in Key /\ cowKey[e] \in Nat
           /\ live' = live \cup {t} /\ nextId' = t + 1 /\ cur' = cur
           /\ cowKey' = [s \in live' |-> IF s \in {e, t} THEN k ELSE cowKey[s]]
           /\ obj' = [s \in live' |-> IF s \in {e, t}
                         THEN [mo \in MO |-> IF mo \in Pinned THEN <<s, k>> ELSE obj[e][mo]]
                         ELSE obj[s]]
           /\ ptr' = [s \in live' |-> IF s \in {e, t} THEN [mo \in Pinned |-> <<s, k>>] ELSE ptr[s]]
<1> DEFINE New(s) == [mo \in MO |-> IF mo \in Pinned THEN <<s, k>> ELSE obj[e][mo]]
<1>1. /\ t \in State /\ t \notin live /\ e # t /\ k \in Key
      /\ cowKey[e] \in Key /\ cowKey[e] \in Nat /\ e \in State
  <2>1. t \in State /\ k \in Key
    BY DEF Clone, ForkKey
  <2>2. HeapType
    BY DEF Ownership
  <2>3. QED BY <2>1, <2>2, SMTT(30) DEF HeapType, State, Key
<1>2. ASSUME NEW s, NEW mo \in Pinned
      PROVE  GetWriteable(s, k, ptr[e][mo]) = <<s, k>>
  BY <1>1, SMTT(30) DEF GetWriteable, Ownership, PinnedCoherent
<1>3. /\ live' = live \cup {t} /\ nextId' = t + 1 /\ cur' = cur
      /\ cowKey' = [s \in live' |-> IF s \in {e, t} THEN k ELSE cowKey[s]]
  BY <1>1 DEF Clone, ForkKey
<1>4. obj' = [s \in live' |-> IF s \in {e, t} THEN New(s) ELSE obj[s]]
  <2>1. \A s : [mo \in MO |-> IF mo \in Pinned THEN GetWriteable(s, k, ptr[e][mo])
                                               ELSE obj[e][mo]] = New(s)
    BY <1>2
  <2> HIDE DEF New
  <2>2. QED BY <1>1, <2>1 DEF Clone, ForkKey
<1>5. ptr' = [s \in live' |-> IF s \in {e, t} THEN [mo \in Pinned |-> <<s, k>>] ELSE ptr[s]]
  <2>1. \A s : Repin(s, e, k) = [mo \in Pinned |-> <<s, k>>]
    BY <1>2 DEF Repin
  <2>2. ptr' = [[s \in live \cup {t} |-> IF s = t THEN Repin(t, e, k) ELSE ptr[s]]
                   EXCEPT ![e] = Repin(e, e, k)]
    BY DEF Clone, ForkKey
  <2>3. QED BY ONLY <1>1, <1>3, <2>1, <2>2, ZenonT(30)
<1>6. QED BY <1>1, <1>3, <1>4, <1>5

(* clone: both states move to the new key, which no bound object has yet,  *)
(* and take their pinned objects with them.                                *)
LEMMA CloneKeepsOwnership ==
    ASSUME Ownership, NEW e \in live, Clone(e)
    PROVE  Ownership'
<1> DEFINE t == nextId
           k == cowKey[e] + 1
           New(s) == [mo \in MO |-> IF mo \in Pinned THEN <<s, k>> ELSE obj[e][mo]]
<1>1. /\ t \in State /\ t \notin live /\ e # t /\ k \in Key
      /\ cowKey[e] \in Key /\ cowKey[e] \in Nat /\ e \in State
    BY CloneBinds
<1>3. /\ live' = live \cup {t} /\ nextId' = t + 1 /\ cur' = cur
      /\ cowKey' = [s \in live' |-> IF s \in {e, t} THEN k ELSE cowKey[s]]
    BY CloneBinds, SMT
<1>4. obj' = [s \in live' |-> IF s \in {e, t} THEN New(s) ELSE obj[s]]
    BY CloneBinds, SMT
<1>5. ptr' = [s \in live' |-> IF s \in {e, t} THEN [mo \in Pinned |-> <<s, k>>] ELSE ptr[s]]
    BY CloneBinds, SMT
<1>6. HeapType'
  BY <1>1, <1>3, <1>4, <1>5, SMT DEF Ownership, HeapType, Id, State
<1>7. PinnedCoherent'
  BY <1>1, <1>3, <1>4, <1>5, PageNotPinned, SMT DEF Ownership, PinnedCoherent
<1>8. Provenance'
  <2> SUFFICES ASSUME NEW s \in live', NEW mo \in MO
               PROVE LET o == obj'[s][mo] IN
                     /\ o[1] < nextId'
                     /\ o[2] <= cowKey'[s]
                     /\ o[1] # s => o[2] < cowKey'[s]
                     /\ (o[1] # s /\ o[1] \in live') => o[2] < cowKey'[o[1]]
    BY DEF Provenance
  <2>1. \A u \in live : /\ u \in Nat /\ cowKey[u] \in Nat
                        /\ cowKey'[u] \in Nat /\ cowKey[u] <= cowKey'[u]
    BY <1>1, <1>3, SMT DEF Ownership, HeapType, State, Key
  <2>2. \A u \in live : obj[u][mo][1] \in Nat /\ obj[u][mo][2] \in Nat /\ obj[u][mo][1] < t
    BY SMT DEF Ownership, HeapType, Provenance, Id, State, Key
  <2>3. CASE s \in {e, t} /\ mo \notin Pinned
    <3>1. obj'[s][mo] = obj[e][mo] /\ cowKey'[s] = k
      BY <1>3, <1>4, <2>3
    <3>2. obj[e][mo][2] <= cowKey[e] /\ obj[e][mo][1] < t
      BY DEF Ownership, Provenance
    <3>3. ASSUME obj[e][mo][1] # s, obj[e][mo][1] \in live'
          PROVE  obj[e][mo][2] < cowKey'[obj[e][mo][1]]
      <4>1. obj[e][mo][1] \in live
        BY <1>3, <3>2, <3>3, <2>2, SMT
      <4>2. CASE obj[e][mo][1] = e
        BY <4>2, <1>3, <1>1, <3>2, <2>2, SMT
      <4>3. CASE obj[e][mo][1] # e
        BY <4>1, <4>3, <2>1, <2>2, SMT DEF Ownership, Provenance
      <4>4. QED BY <4>2, <4>3
    <3>4. QED BY <3>1, <3>2, <3>3, <2>2, <1>1, <1>3, SMT DEF Ownership, HeapType
  <2>4. CASE s \in {e, t} /\ mo \in Pinned
    BY <2>4, <1>1, <1>3, <1>4, SMTT(30) DEF Ownership, HeapType, State
  <2>5. CASE s \notin {e, t}
    <3>1. s \in live /\ obj'[s][mo] = obj[s][mo] /\ cowKey'[s] = cowKey[s]
      BY <1>3, <1>4, <2>5
    <3>2. obj[s][mo][1] \in live' => obj[s][mo][1] \in live
      BY <1>3, <2>2, <3>1, SMTT(30)
    <3>3. LET o == obj[s][mo] IN
             /\ o[2] <= cowKey[s]
             /\ o[1] # s => o[2] < cowKey[s]
             /\ (o[1] # s /\ o[1] \in live) => o[2] < cowKey[o[1]]
      BY <3>1, SMTT(30) DEF Ownership, Provenance
    <3>4. ASSUME obj[s][mo][1] \in live, obj[s][mo][1] # s
          PROVE  obj[s][mo][2] < cowKey'[obj[s][mo][1]]
      <4>1. obj[s][mo][2] \in Nat /\ obj[s][mo][2] < cowKey[obj[s][mo][1]]
        BY <3>1, <3>3, <3>4, <2>2, SMTT(30)
      <4>2. LET c == obj[s][mo][1] IN
               cowKey[c] \in Nat /\ cowKey'[c] \in Nat /\ cowKey[c] <= cowKey'[c]
        BY <3>4, <2>1
      <4>3. QED BY <4>1, <4>2, SMTT(30)
    <3>5. obj[s][mo][1] < nextId'
      BY <3>1, <2>2, <1>1, <1>3, SMT DEF Ownership, HeapType
    <3>6. QED BY <3>1, <3>2, <3>3, <3>4, <3>5
  <2>6. QED BY <2>3, <2>4, <2>5
<1>9. QED BY <1>6, <1>7, <1>8 DEF Ownership

(* The ownership invariant holds initially and every step keeps it. *)
LEMMA OwnershipInductive == /\ Init => Ownership
                            /\ Ownership /\ [Next]_vars => Ownership'
<1>1. Init => Ownership
  <2> SUFFICES ASSUME Init PROVE Ownership
    OBVIOUS
  <2> USE ConstantsAssumption DEF Init
  <2>1. 1 \in State /\ 1 \in Key /\ <<1, 1>> \in Id
    BY SMT DEF State, Key, Id
  <2>2. HeapType
    BY <2>1, SMT DEF HeapType
  <2>3. PinnedCoherent
    BY PageNotPinned DEF PinnedCoherent
  <2>4. Provenance
    BY SMT DEF Provenance
  <2>5. QED BY <2>2, <2>3, <2>4 DEF Ownership
<1>2. ASSUME Ownership, [Next]_vars PROVE Ownership'
  <2> USE <1>2
  <2>1. ASSUME NEW mo \in Page, NEW v, WriteMemory(mo, v) \/ DmaWrite(mo, v)
        PROVE  Rebind
    <3>1. PICK src, c : StoreThrough(mo, src, v, c)
      BY <2>1 DEF WriteMemory, DmaWrite
    <3> DEFINE new == GetWriteable(cur, cowKey[cur], src)
    <3>2. new \in {src, <<cur, cowKey[cur]>>}
      BY GetWriteableResult
    <3>3. /\ obj' = [obj EXCEPT ![cur][mo] = IF new = src THEN @ ELSE new]
          /\ UNCHANGED <<control, cowKey, ptr>>
      BY <3>1 DEF StoreThrough
    <3> HIDE DEF new
    <3>4. QED BY <3>2, <3>3, AccessRebinds
  <2>2. ASSUME NEW mo \in Page, UpdateTlbEntry(mo) PROVE Rebind
    <3> DEFINE src == Cached(mo)
               new == IF mo \in Shared THEN src ELSE GetWriteable(cur, cowKey[cur], src)
    <3>2. new \in {src, <<cur, cowKey[cur]>>}
      BY GetWriteableResult
    <3>3. /\ obj' = [obj EXCEPT ![cur][mo] = IF new = src THEN @ ELSE new]
          /\ UNCHANGED <<control, cowKey, ptr>>
      BY <2>2 DEF UpdateTlbEntry
    <3> HIDE DEF new, src
    <3>4. QED BY <3>2, <3>3, AccessRebinds
  <2>3. ASSUME UNCHANGED vars PROVE Rebind
    BY <2>3, QuietRebinds DEF vars, control, heap
  <2>4. ASSUME NEW mo, NEW v, FastStore(mo, v) \/ DmaRead(mo) PROVE Rebind
    BY <2>4, QuietRebinds DEF FastStore, DmaRead, control
  <2>5. ASSUME TlbFlush \/ SwitchToConcrete \/ SwitchToSymbolic
        PROVE Rebind
    BY <2>5, QuietRebinds DEF TlbFlush, SwitchToConcrete, SwitchToSymbolic, control, heap
  <2>6. ASSUME NEW s, NEW v,
               WriteDirtyMask(v) \/ WriteCpuRegister(v) \/ DeviceStep(v) \/ WriteCpuState(s, v)
        PROVE Rebind
    BY <2>6, QuietRebinds DEF WriteDirtyMask, WriteCpuRegister, DeviceStep, WriteCpuState,
                              control, heap
  <2>7. ASSUME NEW s, NEW killed, TerminateState(s) \/ EnterSelect(killed) PROVE Rebind
    BY <2>7, QuietRebinds DEF TerminateState, EnterSelect, heap
  <2>8. QED
    BY <2>1, <2>2, <2>3, <2>4, <2>5, <2>6, <2>7, RebindKeepsOwnership, CloneKeepsOwnership,
       DoStateForkRebinds, SelectRebinds, MergeRebinds DEF Next, NextUsing
<1>3. QED BY <1>1, <1>2

(* Ownership of an object is exclusive: the inductive invariant says who   *)
(* created it.                                                             *)
LEMMA OwnershipExcludes == Ownership => OwnedIsExclusive /\ OwnerAtMostKey
<1> SUFFICES ASSUME Ownership PROVE OwnedIsExclusive /\ OwnerAtMostKey
  OBVIOUS
<1>1. OwnerAtMostKey
  BY DEF Ownership, Provenance, OwnerAtMostKey
<1>2. OwnedIsExclusive
  <2> SUFFICES ASSUME NEW s \in live, NEW t \in live, NEW mo \in MO,
                      s # t, obj[s][mo] = obj[t][mo], obj[s][mo][2] = cowKey[s]
               PROVE  FALSE
    BY DEF OwnedIsExclusive
  <2>1. cowKey[s] \in Nat
    BY SMT DEF Ownership, HeapType, Key
  <2>2. obj[s][mo][1] = s
    BY <2>1, SMT DEF Ownership, Provenance
  <2>3. QED BY <2>1, <2>2, SMT DEF Ownership, Provenance
<1>3. QED BY <1>1, <1>2

(* Copy on write keeps paths apart: whatever sequence of forks, branches,  *)
(* switches, merges and deletions happens, an object that getWriteable     *)
(* would hand out for writing in place is bound by one state only.         *)
THEOREM ExclusiveOwnership == Spec => []OwnedIsExclusive
  BY OwnershipInductive, OwnershipExcludes, PTL DEF Spec

(* The invariant AddressSpace.h documents for cowKey. *)
THEOREM OwnerBoundedByKey == Spec => []OwnerAtMostKey
  BY OwnershipInductive, OwnershipExcludes, PTL DEF Spec

(* m_cpuRegistersObject, m_cpuSystemObject and m_dirtyMaskObject are never *)
(* stale, and the stores S2E makes through them without getWriteable are   *)
(* stores into objects of that state alone.                                *)
THEOREM PinnedPointersValid == Spec => []PinnedCoherent
<1>1. Ownership => PinnedCoherent
  BY DEF Ownership
<1>2. QED BY <1>1, OwnershipInductive, PTL DEF Spec

-----------------------------------------------------------------------------
(* The contents of memory object mo in state s, as its address space has   *)
(* them, and the object s owns under its present key.                      *)
Holds(s, mo) == mem[mo][obj[s][mo]]
Own(s) == <<s, cowKey[s]>>

(* The allocated objects are the bound ones. *)
Allocated == DOMAIN mem = MO /\ \A mo \in MO : DOMAIN mem[mo] = {obj[s][mo] : s \in live}

(* getWriteable on an object the state binds always ends at the state's    *)
(* own object.                                                             *)
LEMMA GetWriteableOwn ==
    ASSUME Ownership, NEW s \in live, NEW mo \in MO
    PROVE  /\ Own(s) \in Id /\ Own(s)[2] = cowKey[s]
           /\ GetWriteable(s, cowKey[s], obj[s][mo]) = Own(s)
           /\ GetWriteable(s, cowKey[s], Own(s)) = Own(s)
           /\ obj[s][mo][2] = cowKey[s] => obj[s][mo] = Own(s)
           /\ mo \in Pinned => obj[s][mo] = Own(s) /\ ptr[s][mo] = Own(s)
<1>1. obj[s][mo] \in Id /\ Own(s) \in Id /\ cowKey[s] \in Nat
    BY SMT DEF Ownership, HeapType, Id, Own, Key
<1>2. ASSUME obj[s][mo][2] = cowKey[s] PROVE obj[s][mo] = Own(s)
  <2>1. obj[s][mo][1] = s
    BY <1>1, <1>2, SMT DEF Ownership, Provenance
  <2> QED BY <1>1, <1>2, <2>1, SMT DEF Own, Id
<1>3. mo \in Pinned => obj[s][mo][2] = cowKey[s] /\ ptr[s][mo] = obj[s][mo]
    BY SMT DEF Ownership, PinnedCoherent
<1>4. Own(s)[2] = cowKey[s]
    BY DEF Own
<1> QED BY <1>1, <1>2, <1>3, <1>4 DEF GetWriteable, Own

(* No other state binds it, and no other state's own object is the same. *)
LEMMA OwnIsPrivate ==
    ASSUME Ownership, NEW s \in live, NEW t \in live, s # t, NEW mo \in MO
    PROVE  obj[t][mo] # Own(s) /\ Own(t) # Own(s)
<1>1. Own(t) # Own(s)
    BY DEF Own
<1>2. ASSUME obj[t][mo] = Own(s) PROVE FALSE
  <2>1. obj[t][mo][1] = s /\ obj[t][mo][2] = cowKey[s] /\ cowKey[s] \in Nat
    BY <1>2, SMT DEF Own, Ownership, HeapType, Key
  <2> QED BY <2>1, SMT DEF Ownership, Provenance
<1> QED BY <1>1, <1>2

(* Release keeps the contents of what is still bound, and nothing else. *)
LEMMA ReleaseKeeps ==
    ASSUME NEW m, mem' = Release(m, obj', live'),
           \A mo \in MO, s \in live' : obj'[s][mo] \in DOMAIN m[mo]
    PROVE  /\ Allocated'
           /\ \A mo \in MO, s \in live' : Holds(s, mo)' = m[mo][obj'[s][mo]]
<1>1. DOMAIN mem' = MO
    BY DEF Release
<1>2. ASSUME NEW mo \in MO
      PROVE  mem'[mo] = [i \in DOMAIN m[mo] \cap {obj'[s][mo] : s \in live'} |-> m[mo][i]]
    BY DEF Release
<1>3. ASSUME NEW mo \in MO
      PROVE  DOMAIN m[mo] \cap {obj'[s][mo] : s \in live'} = {obj'[s][mo] : s \in live'}
    OBVIOUS
<1>4. ASSUME NEW mo \in MO
      PROVE  mem'[mo] = [i \in {obj'[s][mo] : s \in live'} |-> m[mo][i]]
    BY <1>2, <1>3
<1>5. ASSUME NEW mo \in MO
      PROVE  DOMAIN mem'[mo] = {obj'[s][mo] : s \in live'}
    BY <1>4
<1>6. ASSUME NEW mo \in MO, NEW s \in live'
      PROVE  Holds(s, mo)' = m[mo][obj'[s][mo]]
  <2>1. obj'[s][mo] \in {obj'[u][mo] : u \in live'}
    OBVIOUS
  <2> QED BY <1>4, <2>1, ZenonT(30) DEF Holds
<1> QED BY <1>1, <1>5, <1>6 DEF Allocated

(* An assignment to the object of a state's own changes what that state    *)
(* holds and nothing else.                                                 *)
LEMMA StoreInPlace ==
    ASSUME Ownership, Allocated, NEW a \in live, NEW mo \in MO, NEW c,
           obj[a][mo] = Own(a),
           mem' = [mem EXCEPT ![mo] = [mem[mo] EXCEPT ![obj[a][mo]] = c]],
           UNCHANGED <<live, obj>>
    PROVE  /\ Allocated'
           /\ Holds(a, mo)' = c
           /\ \A s \in live, m \in MO : s # a \/ m # mo => Holds(s, m)' = Holds(s, m)
<1>1. mo \in DOMAIN mem /\ obj[a][mo] \in DOMAIN mem[mo]
    BY DEF Allocated
<1>2. Allocated'
    BY <1>1 DEF Allocated
<1>3. Holds(a, mo)' = c
    BY <1>1 DEF Holds
<1>4. ASSUME NEW s \in live, NEW m \in MO, s # a \/ m # mo
      PROVE  Holds(s, m)' = Holds(s, m)
  <2>1. CASE m # mo
    BY <1>1, <2>1 DEF Holds, Allocated
  <2>2. CASE s # a /\ m = mo
    <3>1. obj[s][mo] # obj[a][mo]
      BY <2>2, OwnIsPrivate
    <3> QED BY <1>1, <2>2, <3>1 DEF Holds, Allocated
  <2> QED BY <1>4, <2>1, <2>2
<1> QED BY <1>2, <1>3, <1>4

(* A guest access to a page through the address space: it ends in the      *)
(* object of the state's own, or stores what is already there.             *)
Rebinds(a, mo, new, c) ==
    /\ new = Own(a) \/ (new = obj[a][mo] /\ c = Holds(a, mo))
    /\ obj' = [obj EXCEPT ![a] = [obj[a] EXCEPT ![mo] = new]]
    /\ mem' = Release([mem EXCEPT ![mo] = Store(mem[mo], new, c)], obj', live)

(* Such an access changes what its state holds of that object, and nothing *)
(* else of any state.                                                      *)
LEMMA StoreRebound ==
    ASSUME Ownership, Allocated, NEW a \in live, NEW mo \in MO, NEW c, NEW new,
           Rebinds(a, mo, new, c), live' = live
    PROVE  /\ Allocated'
           /\ obj'[a][mo] = new /\ Holds(a, mo)' = c
           /\ \A s \in live, m \in MO : s # a \/ m # mo =>
                 Holds(s, m)' = Holds(s, m) /\ obj'[s][m] = obj[s][m]
<1> DEFINE X == [mem EXCEPT ![mo] = Store(mem[mo], new, c)]
<1>1. /\ obj'[a][mo] = new
      /\ \A s \in live, m \in MO : s # a \/ m # mo => obj'[s][m] = obj[s][m]
    BY DEF Ownership, HeapType, Rebinds
<1>2. X[mo] = Store(mem[mo], new, c) /\ \A m \in MO : m # mo => X[m] = mem[m]
    BY DEF Allocated
<1>3. /\ DOMAIN X[mo] = DOMAIN mem[mo] \cup {new}
      /\ X[mo][new] = c
      /\ \A i \in DOMAIN mem[mo] : i # new => X[mo][i] = mem[mo][i]
    BY <1>2 DEF Store
<1> HIDE DEF X
<1>4. \A m \in MO, s \in live' : obj'[s][m] \in DOMAIN X[m]
    BY <1>1, <1>2, <1>3, SMT DEF Allocated
<1>5. Allocated' /\ \A m \in MO, s \in live' : Holds(s, m)' = X[m][obj'[s][m]]
  <2>1. mem' = Release(X, obj', live')
    BY DEF X, Rebinds
  <2> QED BY ONLY <1>4, <2>1, ReleaseKeeps
<1>7. Holds(a, mo)' = c
    BY <1>1, <1>3, <1>5
<1>8. ASSUME NEW s \in live, NEW m \in MO, s # a \/ m # mo
      PROVE  Holds(s, m)' = Holds(s, m)
  <2>1. Holds(s, m)' = X[m][obj[s][m]]
    BY <1>1, <1>5, <1>8
  <2>2. CASE m # mo
    BY <1>2, <2>1, <2>2 DEF Holds
  <2>3. CASE m = mo /\ obj[s][m] # new
    BY <1>3, <2>1, <2>3 DEF Holds, Allocated
  <2>4. CASE m = mo /\ obj[s][m] = new
    <3>1. s # a
      BY <1>8, <2>4
    <3>2. c = Holds(a, mo) /\ new = obj[a][mo]
      BY <3>1, <2>4, OwnIsPrivate DEF Rebinds
    <3> QED BY <2>1, <2>4, <1>3, <3>2 DEF Holds
  <2> QED BY <2>2, <2>3, <2>4
<1> QED BY <1>1, <1>5, <1>7, <1>8

(* Every object that is saved with the host's contents is the state's own. *)
LEMMA SaveTargetOwn ==
    ASSUME Ownership, NEW s \in live, NEW mo \in MO \ Ram
    PROVE  SaveTarget(s, mo) = Own(s)
<1>1. mo \in Shared \/ mo \in Pinned
    BY ConstantsAssumption DEF MO, Pinned
<1> QED BY <1>1, GetWriteableOwn DEF SaveTarget

(* Saving the states of S: what they, and the other states, bind and hold  *)
(* afterwards.                                                             *)
LEMMA SavedBindings ==
    ASSUME Ownership, NEW S, S \subseteq live
    PROVE  /\ SavedObjs(S) \in [live -> [MO -> Id]]
           /\ \A s \in S, mo \in MO \ Ram : SavedObjs(S)[s][mo] = Own(s)
           /\ \A s \in live, mo \in MO : s \notin S \/ mo \in Ram =>
                 SavedObjs(S)[s][mo] = obj[s][mo]
<1>1. SavedObjs(S) \in [live -> [MO -> Id]]
    BY SavedObjBinds DEF SavedObjs, Ownership, HeapType
<1>2. ASSUME NEW s \in S, NEW mo \in MO \ Ram PROVE SavedObjs(S)[s][mo] = Own(s)
  <2>1. SavedObjs(S)[s][mo] = IF mo \in Shared THEN SaveTarget(s, mo) ELSE obj[s][mo]
    BY DEF SavedObjs, SavedObj
  <2>2. mo \in Shared \/ mo \in Pinned
    BY ConstantsAssumption DEF MO, Pinned
  <2> QED BY <2>1, <2>2, SaveTargetOwn, GetWriteableOwn
<1>3. ASSUME NEW s \in live, NEW mo \in MO, s \notin S \/ mo \in Ram
      PROVE  SavedObjs(S)[s][mo] = obj[s][mo]
    BY <1>3, ConstantsAssumption DEF SavedObjs, SavedObj
<1> QED BY <1>1, <1>2, <1>3

(* What the stores contain at those bindings. *)
LEMMA SavedContents ==
    ASSUME Ownership, Allocated, NEW S, S \subseteq live
    PROVE  /\ \A mo \in MO, s \in live : SavedObjs(S)[s][mo] \in DOMAIN SavedMem(S)[mo]
           /\ \A s \in S, mo \in MO \ Ram : SavedMem(S)[mo][Own(s)] = HostContents(s, mo)
           /\ \A s \in live, mo \in MO : s \notin S \/ mo \in Ram =>
                 SavedMem(S)[mo][obj[s][mo]] = Holds(s, mo)
<1> DEFINE Saver(i) == CHOOSE s \in S : Own(s) = i
<1>1. \A mo \in Ram : SavedMem(S)[mo] = mem[mo]
    BY DEF SavedMem, MO
<1>2. ASSUME NEW mo \in MO \ Ram
      PROVE  SavedMem(S)[mo] = [i \in DOMAIN mem[mo] \cup {Own(s) : s \in S} |->
                 IF \E s \in S : Own(s) = i THEN HostContents(Saver(i), mo) ELSE mem[mo][i]]
  <2>1. SavedMem(S)[mo] = [i \in DOMAIN mem[mo] \cup {SaveTarget(s, mo) : s \in S} |->
                 IF \E s \in S : SaveTarget(s, mo) = i
                 THEN HostContents(CHOOSE s \in S : SaveTarget(s, mo) = i, mo) ELSE mem[mo][i]]
    BY DEF SavedMem
  <2>2. \A s \in S : SaveTarget(s, mo) = Own(s)
    BY SaveTargetOwn
  <2>3. /\ {SaveTarget(s, mo) : s \in S} = {Own(s) : s \in S}
        /\ \A i : (\E s \in S : SaveTarget(s, mo) = i) <=> (\E s \in S : Own(s) = i)
    BY <2>2
  <2>4. \A i : (CHOOSE s \in S : SaveTarget(s, mo) = i) = Saver(i)
    BY <2>2
  <2> HIDE DEF Saver
  <2> QED BY <2>1, <2>3, <2>4, ZenonT(30)
<1>3. \A s \in S : Saver(Own(s)) = s
    BY DEF Own
<1> HIDE DEF Saver
<1>4. ASSUME NEW s \in S, NEW mo \in MO \ Ram
      PROVE  /\ Own(s) \in DOMAIN SavedMem(S)[mo]
             /\ SavedMem(S)[mo][Own(s)] = HostContents(s, mo)
  <2>1. Own(s) \in DOMAIN mem[mo] \cup {Own(u) : u \in S} /\ \E u \in S : Own(u) = Own(s)
    OBVIOUS
  <2>2. /\ Own(s) \in DOMAIN SavedMem(S)[mo]
        /\ SavedMem(S)[mo][Own(s)] = HostContents(Saver(Own(s)), mo)
    BY <1>2, <2>1
  <2>3. Saver(Own(s)) = s
    BY <1>3
  <2> QED BY <2>2, <2>3
<1>5. ASSUME NEW s \in live, NEW mo \in MO, s \notin S \/ mo \in Ram
      PROVE  /\ obj[s][mo] \in DOMAIN SavedMem(S)[mo]
             /\ SavedMem(S)[mo][obj[s][mo]] = Holds(s, mo)
  <2>1. obj[s][mo] \in DOMAIN mem[mo]
    BY DEF Allocated
  <2>2. CASE mo \in Ram
    BY <1>1, <2>1, <2>2 DEF Holds
  <2>3. CASE mo \notin Ram
    <3>1. \A u \in S : Own(u) # obj[s][mo]
      BY <1>5, <2>3, OwnIsPrivate
    <3>2. /\ obj[s][mo] \in DOMAIN mem[mo] \cup {Own(u) : u \in S}
          /\ ~\E u \in S : Own(u) = obj[s][mo]
      BY <2>1, <3>1
    <3> QED BY <1>2, <2>3, <3>2, ZenonT(30) DEF Holds
  <2> QED BY <2>2, <2>3
<1>6. ASSUME NEW mo \in MO, NEW s \in live
      PROVE  SavedObjs(S)[s][mo] \in DOMAIN SavedMem(S)[mo]
  <2>1. CASE s \in S /\ mo \notin Ram
    BY <1>4, <2>1, SavedBindings, SMT
  <2>2. CASE ~(s \in S /\ mo \notin Ram)
    BY <1>5, <2>2, SavedBindings, SMT
  <2> QED BY <2>1, <2>2
<1> QED BY <1>4, <1>5, <1>6

(* clone: the copies hold what the cloned state held. *)
LEMMA CloneHolds ==
    ASSUME Ownership, Allocated, NEW e \in live, Clone(e)
    PROVE  /\ Allocated'
           /\ \A s \in {e, nextId}, mo \in MO : Holds(s, mo)' = Holds(e, mo)
           /\ \A s \in live \ {e}, mo \in MO : Holds(s, mo)' = Holds(s, mo)
<1> DEFINE t == nextId
           k == cowKey[e] + 1
           Copies(mo) == Store(Store(mem[mo], <<t, k>>, Holds(e, mo)), <<e, k>>, Holds(e, mo))
           copied == [mo \in MO |-> IF mo \in Pinned THEN Copies(mo) ELSE mem[mo]]
<1>1. /\ t \notin live /\ e # t /\ k \in Nat /\ cowKey[e] \in Nat /\ cowKey[e] < k
      /\ live' = live \cup {t}
    BY CloneBinds, SMT
<1>2. /\ \A s \in {e, t}, mo \in Pinned : obj'[s][mo] = <<s, k>>
      /\ \A s \in {e, t}, mo \in MO : mo \notin Pinned => obj'[s][mo] = obj[e][mo]
      /\ \A s \in live \ {e}, mo \in MO : obj'[s][mo] = obj[s][mo]
    BY CloneBinds, PageNotPinned, SMT
<1>3. mem' = Release(copied, obj', live')
  <2>1. ASSUME NEW mo \in Pinned
        PROVE  /\ \A s : GetWriteable(s, k, ptr[e][mo]) = <<s, k>>
               /\ mem[mo][ptr[e][mo]] = Holds(e, mo)
    BY <1>1, SMTT(30) DEF GetWriteable, Ownership, PinnedCoherent, Holds
  <2> QED BY <2>1, PageNotPinned DEF Clone, ForkKey
<1>4. ASSUME NEW mo \in Pinned
      PROVE  /\ DOMAIN Copies(mo) = DOMAIN mem[mo] \cup {<<t, k>>, <<e, k>>}
             /\ Copies(mo)[<<t, k>>] = Holds(e, mo) /\ Copies(mo)[<<e, k>>] = Holds(e, mo)
             /\ \A i \in DOMAIN mem[mo] : i # <<t, k>> /\ i # <<e, k>> => Copies(mo)[i] = mem[mo][i]
    BY DEF Store
<1> HIDE DEF Copies
<1>5. /\ \A mo \in Pinned : copied[mo] = Copies(mo)
      /\ \A mo \in MO \ Pinned : copied[mo] = mem[mo]
    BY PageNotPinned
<1> HIDE DEF copied
<1>6. \A s \in live, mo \in MO : obj[s][mo] \in DOMAIN mem[mo]
    BY DEF Allocated
<1>7. ASSUME NEW s \in live, NEW mo \in MO
      PROVE  obj[s][mo] # <<t, k>> /\ obj[s][mo] # <<e, k>>
  <2>1. obj[s][mo][1] < t /\ obj[s][mo][1] \in Nat /\ t \in Nat
    BY SMT DEF Ownership, HeapType, Provenance, Id, State
  <2>2. obj[s][mo][1] = e => obj[s][mo][2] <= cowKey[e] /\ obj[s][mo][2] \in Nat
    BY <1>1, SMT DEF Ownership, HeapType, Provenance, Id, Key
  <2> QED BY <1>1, <2>1, <2>2, SMT
<1>8. \A mo \in MO, s \in live' : obj'[s][mo] \in DOMAIN copied[mo]
  <2>1. ASSUME NEW mo \in MO, NEW s \in {e, t} PROVE obj'[s][mo] \in DOMAIN copied[mo]
    <3>1. CASE mo \in Pinned
      <4>1. obj'[s][mo] = <<s, k>> /\ copied[mo] = Copies(mo)
        BY <1>2, <1>5, <3>1
      <4> QED BY <1>4, <3>1, <4>1
    <3>2. CASE mo \notin Pinned
      BY <1>2, <1>5, <1>6, <3>2
    <3> QED BY <3>1, <3>2
  <2>2. ASSUME NEW mo \in MO, NEW s \in live \ {e} PROVE obj'[s][mo] \in DOMAIN copied[mo]
    <3>1. obj'[s][mo] = obj[s][mo] /\ obj[s][mo] \in DOMAIN mem[mo]
      BY <1>2, <1>6
    <3>2. CASE mo \in Pinned
      BY <1>4, <1>5, <3>1, <3>2
    <3>3. CASE mo \notin Pinned
      BY <1>5, <3>1, <3>3
    <3> QED BY <3>2, <3>3
  <2> QED BY <1>1, <2>1, <2>2
<1>9. Allocated' /\ \A mo \in MO, s \in live' : Holds(s, mo)' = copied[mo][obj'[s][mo]]
    BY ONLY <1>3, <1>8, ReleaseKeeps
<1>10. ASSUME NEW s \in {e, t}, NEW mo \in MO PROVE Holds(s, mo)' = Holds(e, mo)
  <2>1. Holds(s, mo)' = copied[mo][obj'[s][mo]]
    BY <1>1, <1>9
  <2>2. CASE mo \in Pinned
    <3>1. obj'[s][mo] = <<s, k>> /\ copied[mo] = Copies(mo)
      BY <1>2, <1>5, <2>2
    <3> QED BY <1>4, <2>1, <2>2, <3>1
  <2>3. CASE mo \notin Pinned
    BY <1>2, <1>5, <2>1, <2>3 DEF Holds
  <2> QED BY <2>2, <2>3
<1>11. ASSUME NEW s \in live \ {e}, NEW mo \in MO PROVE Holds(s, mo)' = Holds(s, mo)
  <2>1. Holds(s, mo)' = copied[mo][obj[s][mo]]
    BY <1>1, <1>2, <1>9, SMT
  <2>2. CASE mo \in Pinned
    <3>1. copied[mo] = Copies(mo) /\ obj[s][mo] \in DOMAIN mem[mo]
      BY <1>5, <1>6, <2>2
    <3> QED BY <1>4, <1>7, <2>1, <2>2, <3>1, ZenonT(30) DEF Holds
  <2>3. CASE mo \notin Pinned
    BY <1>5, <2>1, <2>3 DEF Holds
  <2> QED BY <2>2, <2>3
<1> QED BY <1>9, <1>10, <1>11

(* What s holds once the states of S are saved. *)
Saves(S, s, mo) == IF s \in S /\ mo \notin Ram THEN HostContents(s, mo) ELSE Holds(s, mo)

(* The bindings and the stores after a save give what Saves says. *)
LEMMA SavesHold ==
    ASSUME Ownership, Allocated, NEW S, S \subseteq live
    PROVE  \A mo \in MO, s \in live : SavedMem(S)[mo][SavedObjs(S)[s][mo]] = Saves(S, s, mo)
BY SavedBindings, SavedContents, SMT DEF Saves

(* A step that saves the states of S and may delete others. *)
LEMMA SaveHolds ==
    ASSUME Ownership, Allocated, NEW S, S \subseteq live, live' \subseteq live,
           obj' = [s \in live' |-> SavedObjs(S)[s]],
           mem' = Release(SavedMem(S), obj', live')
    PROVE  Allocated' /\ \A mo \in MO, s \in live' : Holds(s, mo)' = Saves(S, s, mo)
<1>1. \A s \in live' : s \in live /\ obj'[s] = SavedObjs(S)[s]
    OBVIOUS
<1>2. \A mo \in MO, s \in live' : obj'[s][mo] \in DOMAIN SavedMem(S)[mo]
    BY <1>1, SavedContents
<1>3. Allocated' /\ \A mo \in MO, s \in live' : Holds(s, mo)' = SavedMem(S)[mo][obj'[s][mo]]
    BY ONLY <1>2, mem' = Release(SavedMem(S), obj', live'), ReleaseKeeps
<1> QED BY <1>1, <1>3, SavesHold, SMT

(* merge that succeeds: what a holds afterwards. *)
Joined(a, b, path, S, mo) ==
    CASE mo = "sys" -> [val |-> Saves(S, a, "sys").val, tlb |-> NoTlb]
      [] mo = Dirty -> IF Saves(S, a, mo) = Saves(S, b, mo) THEN Saves(S, a, mo) ELSE Clean
      [] mo \in Shared \ {Dirty} -> Saves(S, a, mo)
      [] OTHER -> Saves(S, path, mo)

(* The two outcomes of merge. *)
Joins(a, b, path) ==
    LET S == active \cap {a, b}
        o == SavedObjs(S)
        m == SavedMem(S)
        touched == Mutated(a, b, o) \cup {Dirty}
        New(mo) == IF mo \in touched THEN GetWriteable(a, cowKey[a], o[a][mo]) ELSE o[a][mo]
        Target(mo) == IF mo = "sys" THEN ptr[a][mo] ELSE New(mo)
    IN /\ path # 0 /\ Mergeable(a, b, o, m)
       /\ obj' = [o EXCEPT ![a] = [mo \in MO |-> New(mo)]]
       /\ cache' = [SavedCaches(S) EXCEPT ![a] =
                       [p \in Page |-> ChangeCache(SavedCaches(S)[a][p], o[a][p], New(p))]]
       /\ mem' = Release([mo \in MO |->
                     IF mo \in touched \cup {"sys"}
                     THEN Store(m[mo], Target(mo), MergedContents(a, b, path, o, m, mo))
                     ELSE m[mo]], obj', live)
       /\ removed' = removed \cup {b}
       /\ phase' = IF b = cur THEN "escaped" ELSE phase

Parts(a, b) ==
    LET S == active \cap {a, b}
    IN /\ obj' = SavedObjs(S) /\ cache' = SavedCaches(S)
       /\ mem' = Release(SavedMem(S), obj', live)
       /\ UNCHANGED <<removed, phase>>

(* Every call of merge joins the two states or leaves both, and stops them *)
(* in either case.                                                         *)
LEMMA MergeOutcomes ==
    ASSUME NEW a, NEW b, NEW path, Merge(a, b, path)
    PROVE  /\ Joins(a, b, path) \/ Parts(a, b)
           /\ phase = "select" /\ a # b /\ {a, b} \subseteq live \ Terminated
           /\ active' = active \ {a, b} /\ conc' = conc \ (active \cap {a, b})
           /\ dev' = SavedDevs(active \cap {a, b})
           /\ UNCHANGED <<cur, nextId, live, deleted, pending, cowKey, ptr, host>>
<1>1. Joins(a, b, path) \/ Parts(a, b)
    BY DEF Merge, Joins, Parts
<1>2. active' = active \ (active \cap {a, b})
    BY DEF Merge
<1>3. /\ phase = "select" /\ a # b /\ {a, b} \subseteq live \ Terminated
      /\ conc' = conc \ (active \cap {a, b})
      /\ dev' = SavedDevs(active \cap {a, b})
      /\ UNCHANGED <<cur, nextId, live, deleted, pending, cowKey, ptr, host>>
    BY DEF Merge
<1> QED BY <1>1, <1>2, <1>3

(* merge that succeeds: a holds the joined contents, the other states what *)
(* was saved.                                                              *)
LEMMA JoinHolds ==
    ASSUME Ownership, Allocated, NEW a \in live, NEW b \in live, a # b,
           NEW path \in {a, b}, NEW S, S = active \cap {a, b}, Joins(a, b, path), live' = live
    PROVE  /\ Allocated'
           /\ Saves(S, a, "sys").val = Saves(S, b, "sys").val
           /\ \A mo \in MO : Holds(a, mo)' = Joined(a, b, path, S, mo)
           /\ \A mo \in MO, s \in live \ {a} : Holds(s, mo)' = Saves(S, s, mo)
<1> DEFINE o == SavedObjs(S)
           m == SavedMem(S)
           touched == Mutated(a, b, o) \cup {Dirty}
           New(mo) == IF mo \in touched THEN GetWriteable(a, cowKey[a], o[a][mo]) ELSE o[a][mo]
           Target(mo) == IF mo = "sys" THEN ptr[a][mo] ELSE New(mo)
           Made(mo) == MergedContents(a, b, path, o, m, mo)
           merged == [mo \in MO |-> IF mo \in touched \cup {"sys"}
                                    THEN Store(m[mo], Target(mo), Made(mo)) ELSE m[mo]]
<1>0. S \subseteq live
    OBVIOUS
<1>1. /\ Mergeable(a, b, o, m)
      /\ obj' = [o EXCEPT ![a] = [mo \in MO |-> New(mo)]]
      /\ mem' = Release(merged, obj', live)
    BY DEF Joins
<1>2. /\ "sys" \in MO /\ "sys" \in Pinned /\ "sys" \notin Ram /\ "sys" \notin Shared
      /\ "regs" \in MO /\ "regs" \in Pinned /\ "regs" \notin Ram /\ "regs" \notin Shared
      /\ Dirty \in Shared /\ Dirty \in MO /\ Dirty \notin Ram
      /\ Mutated(a, b, o) \subseteq Ram \cup {"regs"} /\ Ram \cup {"regs"} \subseteq MO
    BY ConstantsAssumption DEF MO, Pinned, Mutated
<1>3. /\ o \in [live -> [MO -> Id]]
      /\ \A s \in live, mo \in MO : o[s][mo] \in {obj[s][mo], Own(s)}
      /\ \A s \in live, mo \in MO : m[mo][o[s][mo]] = Saves(S, s, mo)
      /\ \A s \in live, mo \in MO : o[s][mo] \in DOMAIN m[mo]
      /\ \A s \in live : o[s]["sys"] = Own(s)
  <2>1. \A s \in live, mo \in MO : o[s][mo] \in {obj[s][mo], Own(s)}
    BY <1>0, SavedBindings, SMTT(30)
  <2>2. \A s \in live : o[s]["sys"] = Own(s)
    BY <1>0, <1>2, <2>1, GetWriteableOwn
  <2> QED BY <1>0, <2>1, <2>2, SavedBindings, SavesHold, SavedContents
<1> HIDE DEF o, m
<1>4. ASSUME NEW mo \in touched \cup {"sys"} PROVE Target(mo) = Own(a) /\ mo \in MO
  <2>1. mo \in MO
    BY <1>2
  <2>2. GetWriteable(a, cowKey[a], o[a][mo]) = Own(a)
    BY <1>3, <2>1, GetWriteableOwn
  <2>3. mo = "sys" => ptr[a][mo] = Own(a)
    BY <1>2, GetWriteableOwn
  <2> QED BY <2>1, <2>2, <2>3
<1>5. \A mo \in MO : obj'[a][mo] = New(mo)
    BY <1>1, <1>3
<1>6. \A mo \in MO, s \in live \ {a} : obj'[s][mo] = o[s][mo]
    BY <1>1, <1>3
<1>7. ASSUME NEW mo \in touched \cup {"sys"} PROVE obj'[a][mo] = Own(a)
    BY <1>2, <1>3, <1>4, <1>5
<1>8. ASSUME NEW mo \in MO, mo \notin touched \cup {"sys"} PROVE obj'[a][mo] = o[a][mo]
    BY <1>5, <1>8
<1>9. ASSUME NEW mo \in touched \cup {"sys"}
      PROVE  /\ DOMAIN merged[mo] = DOMAIN m[mo] \cup {Own(a)}
             /\ merged[mo][Own(a)] = Made(mo)
             /\ \A i \in DOMAIN m[mo] : i # Own(a) => merged[mo][i] = m[mo][i]
  <2>1. merged[mo] = Store(m[mo], Own(a), Made(mo))
    BY <1>4
  <2> QED BY <2>1, ZenonT(30) DEF Store
<1>10. ASSUME NEW mo \in MO, mo \notin touched \cup {"sys"} PROVE merged[mo] = m[mo]
    BY <1>10
<1> HIDE DEF merged, touched, Target, New, Made
<1>11. \A mo \in MO, s \in live' : obj'[s][mo] \in DOMAIN merged[mo]
  <2> SUFFICES ASSUME NEW mo \in MO, NEW s \in live PROVE obj'[s][mo] \in DOMAIN merged[mo]
    OBVIOUS
  <2>1. CASE mo \in touched \cup {"sys"} /\ s = a
    BY <1>7, <1>9, <2>1
  <2>2. CASE mo \in touched \cup {"sys"} /\ s # a
    BY <1>6, <1>9, <1>3, <2>2, SMT
  <2>3. CASE mo \notin touched \cup {"sys"}
    BY <1>6, <1>8, <1>10, <1>3, <2>3
  <2> QED BY <2>1, <2>2, <2>3
<1>12. Allocated' /\ \A mo \in MO, s \in live' : Holds(s, mo)' = merged[mo][obj'[s][mo]]
  <2>1. mem' = Release(merged, obj', live')
    BY <1>1
  <2> QED BY ONLY <1>11, <2>1, ReleaseKeeps
<1>13. ASSUME NEW mo \in MO, NEW s \in live \ {a} PROVE Holds(s, mo)' = Saves(S, s, mo)
  <2>1. Holds(s, mo)' = merged[mo][o[s][mo]]
    BY <1>6, <1>12
  <2>2. o[s][mo] # Own(a)
    BY <1>3, OwnIsPrivate, SMT
  <2>3. merged[mo][o[s][mo]] = m[mo][o[s][mo]]
    BY <1>3, <1>9, <1>10, <2>2
  <2> QED BY <1>3, <2>1, <2>3
<1>14. ASSUME NEW mo \in touched \cup {"sys"} PROVE Holds(a, mo)' = Made(mo)
    BY <1>4, <1>7, <1>9, <1>12, SMT
<1>15. ASSUME NEW mo \in MO, mo \notin touched \cup {"sys"} PROVE Holds(a, mo)' = Saves(S, a, mo)
  <2>1. Holds(a, mo)' = merged[mo][obj'[a][mo]]
    BY <1>12
  <2>2. merged[mo] = m[mo] /\ obj'[a][mo] = o[a][mo]
    BY <1>8, <1>10, <1>15
  <2> QED BY <1>3, <2>1, <2>2
<1>16. Saves(S, a, "sys").val = Saves(S, b, "sys").val
  <2>1. \A s \in {a, b} : ptr[s]["sys"] = o[s]["sys"]
    BY <1>2, <1>3, GetWriteableOwn, SMT
  <2>2. m["sys"][ptr[a]["sys"]].val = m["sys"][ptr[b]["sys"]].val
    BY <1>1 DEF Mergeable
  <2> QED BY <1>2, <1>3, <2>1, <2>2, ZenonT(30)
<1>17. ASSUME NEW mo \in MO PROVE Holds(a, mo)' = Joined(a, b, path, S, mo)
  <2>1. CASE mo = "sys"
    <3>1. m["sys"][ptr[a]["sys"]] = Saves(S, a, "sys")
      <4>1. ptr[a]["sys"] = o[a]["sys"]
        BY <1>2, <1>3, GetWriteableOwn
      <4> QED BY <1>2, <1>3, <4>1
    <3>2. Made("sys") = [val |-> Saves(S, a, "sys").val, tlb |-> NoTlb]
      BY <1>2, <3>1 DEF Made, MergedContents
    <3>3. Joined(a, b, path, S, "sys") = [val |-> Saves(S, a, "sys").val, tlb |-> NoTlb]
      BY <1>2, <3>1 DEF Joined
    <3> QED BY <1>14, <2>1, <3>2, <3>3
  <2>2. CASE mo = Dirty
    <3>1. mo \in touched /\ mo # "sys"
      BY <1>2, <2>2 DEF touched
    <3>2. m[mo][o[a][mo]] = Saves(S, a, mo) /\ m[mo][o[b][mo]] = Saves(S, b, mo)
      BY <1>3
    <3>3. Made(mo) = IF Saves(S, a, mo) = Saves(S, b, mo) THEN Saves(S, a, mo) ELSE Clean
      BY <2>2, <3>1, <3>2 DEF Made, MergedContents
    <3>4. Joined(a, b, path, S, mo)
             = IF Saves(S, a, mo) = Saves(S, b, mo) THEN Saves(S, a, mo) ELSE Clean
      BY <2>2, <3>1 DEF Joined
    <3> QED BY <1>14, <3>1, <3>3, <3>4
  <2>3. CASE mo \in Shared \ {Dirty}
    <3>1. mo \notin touched \cup {"sys"}
      BY <1>2, <2>3, ConstantsAssumption DEF touched
    <3> QED BY <1>2, <1>15, <2>3, <3>1 DEF Joined
  <2>4. CASE mo \in Ram \cup {"regs"}
    <3>1. mo # "sys" /\ mo # Dirty /\ mo \notin Shared
      BY <1>2, <2>4, ConstantsAssumption
    <3>2. Joined(a, b, path, S, mo) = Saves(S, path, mo)
      BY <3>1 DEF Joined
    <3>3. CASE mo \in touched
      <4>1. Made(mo) = m[mo][o[path][mo]]
        BY <3>1 DEF Made, MergedContents
      <4> QED BY <1>3, <1>14, <3>2, <3>3, <4>1
    <3>4. CASE mo \notin touched
      <4>1. o[a][mo] = o[b][mo]
        BY <2>4, <3>4 DEF touched, Mutated
      <4>2. Saves(S, a, mo) = Saves(S, path, mo)
        BY <1>3, <4>1, ZenonT(30)
      <4> QED BY <1>15, <3>1, <3>2, <3>4, <4>2
    <3> QED BY <3>3, <3>4
  <2> QED BY <2>1, <2>2, <2>3, <2>4 DEF MO
<1> QED BY <1>12, <1>13, <1>16, <1>17

(* The values an object can hold. *)
Contents(mo) == IF mo = "sys" THEN [val : Value, tlb : Tlb] ELSE Value

(* Where the states are in each phase: clones are pending, and active like *)
(* the state they come from, until doStateFork; only the current state     *)
(* runs concretely.                                                        *)
Staged ==
    /\ phase \in {"run", "fork", "leave", "select", "exit", "escaped"}
    /\ nextId \in 2..(MaxStates + 1)
    /\ removed \subseteq live /\ deleted \subseteq live /\ removed \cap deleted = {}
    /\ pending \subseteq live \ {cur} /\ pending \subseteq active
    /\ active \subseteq {cur} \cup pending /\ conc \subseteq active \cap {cur}
    /\ phase # "fork" => pending = {}
    /\ phase \in {"run", "fork", "leave"} => cur \in active
    /\ phase = "fork" => cur \notin conc

LocalType == /\ cache \in [live -> [Page -> Id \cup {NoObj}]]
             /\ dev \in [live -> Value]

HostType == /\ hostRegs \in Value /\ hostSys \in Value /\ hostDev \in Value
            /\ hostTlb \in Tlb
            /\ hostMem \in [Shared -> Value]

Filled == \A s \in live, mo \in MO : Holds(s, mo) \in Contents(mo)

(* Until doStateFork, a clone and the state it comes from are the same. *)
Twins == \A s \in pending, mo \in Ram \cup {"regs"} : Holds(s, mo) = Holds(cur, mo)

(* A memory cache and a TLB that fit the bindings of their state. *)
CacheFits(c, bound) == \A p \in Page : c[p] \in {NoObj, bound[p]}
TlbFits(tlb, bound, key) ==
    \A p \in Page : /\ tlb[p].obj \in {NoObj, bound[p]}
                    /\ tlb[p].obj # NoObj /\ tlb[p].own /\ p \in Ram => tlb[p].obj[2] = key

Coherent == \A s \in live : /\ CacheFits(cache[s], obj[s])
                            /\ TlbFits(TlbOf(s), obj[s], cowKey[s])

(* The inductive invariant of path isolation. *)
PathInv == /\ Ownership /\ Allocated /\ Staged /\ LocalType /\ HostType
           /\ Filled /\ Twins /\ Coherent

(* The invariant has the properties that the runs check. *)
LEMMA PathInvImplies == PathInv => TypeOK /\ CachesCoherent
<1> SUFFICES ASSUME PathInv PROVE TypeOK /\ CachesCoherent
    OBVIOUS
<1>1. TypeOK
  <2>1. live \subseteq 1..(nextId - 1)
    BY SMT DEF PathInv, Ownership, HeapType, State
  <2>2. live \subseteq State /\ cur \in live /\ cowKey \in [live -> Key]
        /\ obj \in [live -> [MO -> Id]] /\ ptr \in [live -> [Pinned -> Id]]
    BY DEF PathInv, Ownership, HeapType
  <2>3. DOMAIN mem = MO /\ \A mo \in MO : DOMAIN mem[mo] = {obj[s][mo] : s \in live}
    BY DEF PathInv, Allocated
  <2>4. Staged /\ LocalType /\ HostType
    BY DEF PathInv
  <2>5. /\ phase \in {"run", "fork", "leave", "select", "exit", "escaped"}
        /\ nextId \in 2..(MaxStates + 1) /\ removed \subseteq live /\ deleted \subseteq live
        /\ pending \subseteq live \ {cur}
        /\ conc \subseteq active /\ active \subseteq {cur} \cup pending
    BY <2>4 DEF Staged
  <2>6. {hostRegs, hostSys, hostDev} \subseteq Value
    BY <2>4 DEF HostType
  <2> QED BY <2>1, <2>2, <2>3, <2>4, <2>5, <2>6 DEF TypeOK, LocalType, HostType
<1>2. CachesCoherent
    BY DEF PathInv, Coherent, CacheFits, TlbFits, CachesCoherent
<1> QED BY <1>1, <1>2

(* What the proofs below use of the names of the memory objects. *)
LEMMA Objects ==
    /\ "sys" \in MO /\ "sys" \in Pinned /\ "sys" \notin Ram /\ "sys" \notin Shared
    /\ "regs" \in MO /\ "regs" \in Pinned /\ "regs" \notin Ram /\ "regs" \notin Shared
    /\ "dev" \notin Ram /\ "dev" \notin Shared /\ "sys" # "regs" /\ "sys" \notin Page
    /\ Dirty \in Shared /\ Dirty # "sys"
    /\ Ram \subseteq MO /\ Shared \subseteq MO /\ Page \subseteq MO
    /\ Ram \cap Shared = {} /\ Ram \subseteq Page /\ Page \subseteq Ram \cup Shared
BY ConstantsAssumption DEF MO, Pinned, Page

(* The TLB of a stopped state is in its CPU system object. *)
TlbSaved == \A s \in live : /\ s \in active => TlbOf(s) = hostTlb
                            /\ s \notin active => TlbOf(s) = Holds(s, "sys").tlb

(* The TLB of a state, when its pinned pointer is its bound object. *)
LEMMA TlbIs == Ownership => TlbSaved
<1> SUFFICES ASSUME Ownership, NEW s \in live PROVE TlbOf(s) = IF s \in active THEN hostTlb
                                                             ELSE Holds(s, "sys").tlb
    BY DEF TlbSaved
<1>1. ptr[s]["sys"] = obj[s]["sys"]
    BY Objects DEF Ownership, PinnedCoherent
<1> QED BY <1>1 DEF TlbOf, Holds

(* The same after a step. *)
LEMMA TlbIsNext == (Ownership => TlbSaved)'
    BY TlbIs, PTL

(* Fitting depends on the bindings of pages only. *)
LEMMA FitsStay ==
    ASSUME NEW c, NEW tlb, NEW b1, NEW b2, NEW k, \A p \in Page : b2[p] = b1[p]
    PROVE  /\ CacheFits(c, b1) => CacheFits(c, b2)
           /\ TlbFits(tlb, b1, k) => TlbFits(tlb, b2, k)
BY DEF CacheFits, TlbFits

(* A step of the running state leaves the caches of the others alone. *)
LEMMA RunKeepsCoherent ==
    ASSUME PathInv, Ownership', pending = {}, cur \in active,
           UNCHANGED <<live, cur, active, cowKey>>,
           \A s \in live \ {cur} : /\ \A p \in Page : obj'[s][p] = obj[s][p]
                                   /\ cache'[s] = cache[s]
                                   /\ Holds(s, "sys")'.tlb = Holds(s, "sys").tlb,
           CacheFits(cache'[cur], obj'[cur]),
           TlbFits(hostTlb', obj'[cur], cowKey[cur])
    PROVE  Coherent'
<1>1. active = {cur}
    BY DEF PathInv, Staged
<1>2. ASSUME NEW s \in live \ {cur}
      PROVE  CacheFits(cache'[s], obj'[s]) /\ TlbFits(TlbOf(s)', obj'[s], cowKey'[s])
  <2>1. CacheFits(cache[s], obj[s]) /\ TlbFits(TlbOf(s), obj[s], cowKey[s])
    BY DEF PathInv, Coherent
  <2>2. TlbOf(s) = Holds(s, "sys").tlb
    BY <1>1, TlbIs DEF PathInv, TlbSaved
  <2>3. TlbOf(s)' = Holds(s, "sys")'.tlb
    BY <1>1, TlbIsNext DEF TlbSaved
  <2>4. \A p \in Page : obj'[s][p] = obj[s][p]
    OBVIOUS
  <2>5. cache'[s] = cache[s] /\ TlbOf(s)' = TlbOf(s) /\ cowKey'[s] = cowKey[s]
    BY <2>2, <2>3
  <2> HIDE DEF CacheFits, TlbFits
  <2> QED BY <2>1, <2>4, <2>5, FitsStay, SMT
<1>3. ASSUME NEW s \in live, s = cur
      PROVE  CacheFits(cache'[s], obj'[s]) /\ TlbFits(TlbOf(s)', obj'[s], cowKey'[s])
  <2>0. s \in live' /\ s \in active'
    BY <1>3
  <2>1. TlbOf(s)' = hostTlb'
    BY <2>0, TlbIsNext DEF TlbSaved
  <2> QED BY <1>3, <2>1
<1> QED BY <1>2, <1>3 DEF Coherent

(* The steps of the running state change no stage. *)
Ongoing ==
    /\ Running
    /\ UNCHANGED <<phase, cur, nextId, live, removed, deleted, pending, active, cowKey, dev>>
    /\ conc' \in {conc, conc \cup {cur}, conc \ {cur}}

(* For such a step the stages are as before; the rest has to be shown. *)
LEMMA OngoingKeeps ==
    ASSUME PathInv, Ownership', Ongoing,
           cache' \in [live -> [Page -> Id \cup {NoObj}]],
           Allocated', HostType', Filled', Coherent'
    PROVE  PathInv'
<1>1. Staged' /\ pending' = {}
    BY DEF PathInv, Staged, Ongoing, Running
<1>2. LocalType'
    BY DEF PathInv, LocalType, Ongoing
<1>3. Twins'
    BY <1>1 DEF Twins
<1> QED BY <1>1, <1>2, <1>3 DEF PathInv

(* While a state runs, it is the one active state and no fork is pending. *)
LEMMA OngoingStage ==
    ASSUME PathInv, Ongoing
    PROVE  pending = {} /\ active = {cur} /\ cur \in live
BY DEF PathInv, Staged, Ongoing, Running, Ownership, HeapType

(* Steps that change only the host. *)
LEMMA HostStepKeeps ==
    ASSUME PathInv, Ownership', Ongoing, UNCHANGED heap, HostType', hostTlb' \in {hostTlb, NoTlb}
    PROVE  PathInv'
<1>1. pending = {} /\ active = {cur} /\ cur \in live
    BY OngoingStage
<1>2. UNCHANGED <<live, cur, active, cowKey, obj, cache, mem>>
    BY DEF Ongoing, heap
<1>3. Allocated' /\ Filled'
    BY <1>2 DEF PathInv, Allocated, Filled, Holds
<1>4. CacheFits(cache[cur], obj[cur]) /\ TlbFits(hostTlb, obj[cur], cowKey[cur])
  <2>1. TlbOf(cur) = hostTlb
    BY <1>1, TlbIs DEF TlbSaved, PathInv
  <2> QED BY <1>1, <2>1 DEF PathInv, Coherent
<1>5. TlbFits(NoTlb, obj[cur], cowKey[cur])
    BY DEF TlbFits, NoTlb, NoEntry
<1>6. Coherent'
  <2>1. \A s \in live \ {cur} : /\ \A p \in Page : obj'[s][p] = obj[s][p]
                                /\ cache'[s] = cache[s]
                                /\ Holds(s, "sys")'.tlb = Holds(s, "sys").tlb
    BY <1>2 DEF Holds
  <2>2. CacheFits(cache'[cur], obj'[cur]) /\ TlbFits(hostTlb', obj'[cur], cowKey[cur])
    BY <1>2, <1>4, <1>5
  <2> QED BY <1>1, <1>2, <2>1, <2>2, RunKeepsCoherent
<1>7. cache' \in [live -> [Page -> Id \cup {NoObj}]]
    BY <1>2 DEF PathInv, LocalType
<1> QED BY <1>3, <1>6, <1>7, OngoingKeeps

(* A store into the object of a state's own, without getWriteable. *)
LEMMA InPlaceKeeps ==
    ASSUME PathInv, Ownership', Ongoing, NEW a \in live, NEW mo \in MO, NEW c \in Contents(mo),
           obj[a][mo] = Own(a),
           mo = "sys" => c.tlb = Holds(a, mo).tlb,
           mem' = [mem EXCEPT ![mo] = [mem[mo] EXCEPT ![obj[a][mo]] = c]],
           UNCHANGED <<obj, cache, host>>
    PROVE  PathInv'
<1>1. pending = {} /\ active = {cur} /\ cur \in live
    BY OngoingStage
<1>2. UNCHANGED <<live, cur, active, cowKey, obj, cache, hostTlb>>
    BY DEF Ongoing, host
<1>3. /\ Allocated'
      /\ Holds(a, mo)' = c
      /\ \A s \in live, m \in MO : s # a \/ m # mo => Holds(s, m)' = Holds(s, m)
    BY <1>2, StoreInPlace DEF PathInv
<1>4. Filled'
    BY <1>2, <1>3 DEF PathInv, Filled
<1>5. CacheFits(cache[cur], obj[cur]) /\ TlbFits(hostTlb, obj[cur], cowKey[cur])
  <2>1. TlbOf(cur) = hostTlb
    BY <1>1, TlbIs DEF TlbSaved, PathInv
  <2> QED BY <1>1, <2>1 DEF PathInv, Coherent
<1>6. Coherent'
  <2>1. \A s \in live : Holds(s, "sys")'.tlb = Holds(s, "sys").tlb
    BY <1>3, Objects
  <2>2. \A s \in live \ {cur} : /\ \A p \in Page : obj'[s][p] = obj[s][p]
                                /\ cache'[s] = cache[s]
                                /\ Holds(s, "sys")'.tlb = Holds(s, "sys").tlb
    BY <1>2, <2>1
  <2>3. CacheFits(cache'[cur], obj'[cur]) /\ TlbFits(hostTlb', obj'[cur], cowKey[cur])
    BY <1>2, <1>5
  <2> QED BY <1>1, <1>2, <2>2, <2>3, RunKeepsCoherent
<1>7. cache' \in [live -> [Page -> Id \cup {NoObj}]] /\ HostType'
    BY <1>2 DEF PathInv, LocalType, HostType, host
<1> QED BY <1>3, <1>4, <1>6, <1>7, OngoingKeeps

(* What an access of the running state through the address space changes. *)
LEMMA AccessHolds ==
    ASSUME PathInv, Ongoing, NEW mo \in MO, NEW c, NEW new, Rebinds(cur, mo, new, c)
    PROVE  /\ Allocated'
           /\ obj'[cur][mo] = new /\ mem'[mo][obj'[cur][mo]] = c
           /\ \A s \in live, m \in MO : s # cur \/ m # mo =>
                 Holds(s, m)' = Holds(s, m) /\ obj'[s][m] = obj[s][m]
<1>1. PICK a \in live : a = cur
    BY OngoingStage
<1>2. live' = live /\ Ownership /\ Allocated /\ Rebinds(a, mo, new, c)
    BY <1>1 DEF Ongoing, PathInv
<1>3. /\ Allocated'
      /\ obj'[a][mo] = new /\ Holds(a, mo)' = c
      /\ \A s \in live, m \in MO : s # a \/ m # mo =>
            Holds(s, m)' = Holds(s, m) /\ obj'[s][m] = obj[s][m]
    BY <1>2, StoreRebound
<1> QED BY <1>1, <1>3 DEF Holds

(* An access of the running state to a page through the address space. *)
LEMMA AccessKeeps ==
    ASSUME PathInv, Ownership', Ongoing, NEW mo \in Page, NEW c \in Value, NEW new, NEW entry,
           Rebinds(cur, mo, new, c),
           cache' = [cache EXCEPT ![cur] = [cache[cur] EXCEPT ![mo] = entry]],
           entry \in {NoObj, new},
           HostType', \A p \in Page \ {mo} : hostTlb'[p] = hostTlb[p],
           hostTlb'[mo].obj \in {NoObj, new},
           hostTlb'[mo].obj # NoObj /\ hostTlb'[mo].own /\ mo \in Ram => new[2] = cowKey[cur]
    PROVE  PathInv'
<1>1. pending = {} /\ active = {cur} /\ cur \in live /\ mo \in MO /\ mo # "sys"
    BY OngoingStage, Objects
<1>2. UNCHANGED <<live, cur, active, cowKey>>
    BY DEF Ongoing
<1>3. /\ Allocated'
      /\ obj'[cur][mo] = new /\ mem'[mo][obj'[cur][mo]] = c
      /\ \A s \in live, m \in MO : s # cur \/ m # mo =>
            Holds(s, m)' = Holds(s, m) /\ obj'[s][m] = obj[s][m]
    BY <1>1, AccessHolds
<1>4. Filled'
  <2>1. ASSUME NEW s \in live, NEW m \in MO, s # cur \/ m # mo
        PROVE  Holds(s, m)' \in Contents(m)
    BY <1>3, <2>1 DEF PathInv, Filled
  <2>2. ASSUME NEW s \in live, s = cur PROVE Holds(s, mo)' \in Contents(mo)
    <3>1. Contents(mo) = Value
      BY <1>1 DEF Contents
    <3>2. mem'[mo][obj'[s][mo]] = c
      BY <1>3, <2>2
    <3> QED BY <3>1, <3>2 DEF Holds
  <2> QED BY <1>2, <2>1, <2>2 DEF Filled
<1>5. CacheFits(cache[cur], obj[cur]) /\ TlbFits(hostTlb, obj[cur], cowKey[cur])
  <2>1. TlbOf(cur) = hostTlb
    BY <1>1, TlbIs DEF TlbSaved, PathInv
  <2> QED BY <1>1, <2>1 DEF PathInv, Coherent
<1>6. /\ cache'[cur][mo] = entry /\ \A p \in Page \ {mo} : cache'[cur][p] = cache[cur][p]
      /\ \A s \in live \ {cur} : cache'[s] = cache[s]
    BY <1>1 DEF PathInv, LocalType
<1>7. Coherent'
  <2>1. \A s \in live \ {cur} : /\ \A p \in Page : obj'[s][p] = obj[s][p]
                                /\ cache'[s] = cache[s]
                                /\ Holds(s, "sys")'.tlb = Holds(s, "sys").tlb
    BY <1>3, <1>6, Objects, SMT
  <2>2. \A p \in Page \ {mo} : obj'[cur][p] = obj[cur][p]
    BY <1>1, <1>3, Objects
  <2>3. CacheFits(cache'[cur], obj'[cur])
    BY <1>3, <1>5, <1>6, <2>2 DEF CacheFits
  <2>4. TlbFits(hostTlb', obj'[cur], cowKey[cur])
    BY <1>3, <1>5, <2>2, SMT DEF TlbFits
  <2> QED BY <1>1, <1>2, <2>1, <2>3, <2>4, RunKeepsCoherent
<1>8. cache' \in [live -> [Page -> Id \cup {NoObj}]]
  <2>1. new \in Id
    BY <1>1, GetWriteableOwn, SMT DEF PathInv, Ownership, HeapType, Rebinds
  <2> QED BY <1>1, <2>1 DEF PathInv, LocalType
<1> QED BY <1>3, <1>4, <1>7, <1>8, OngoingKeeps
=============================================================================
