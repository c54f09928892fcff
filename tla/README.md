# TLA+ models of S2E

S2E explores many execution paths of a virtual machine. One QEMU process runs
one path at a time and keeps the others as KLEE execution states; several such
processes can share the work. This directory holds models of the parts in which
state is shared between paths or between processes, the TLC runs that check
them on small instances, and TLAPS proofs of the properties that matter most.

`PROJECT.json` lists components, runs, hazards and theorems, and maps every
definition to the source lines it models.

## The system

| part | state | operations | what is hard about it |
|---|---|---|---|
| Execution states (`S2EExecutor.cpp`, `S2EExecutionState.cpp`) | one active state; CPU, devices and shared-concrete memory live once, in QEMU's own memory, and are copied to and from the states | clone, fork, branch, doStateFork, doStateSwitch, switchToConcrete/Symbolic, merge, terminateState, selectNextState | a path must not see another's writes; the current state can be killed inside the code that schedules it |
| Copy-on-write address space (`AddressSpace.cpp`) | `objects`, `cowKey`, `copyOnWriteOwner` | bindObject, getWriteable, copy constructor | two states with equal keys; an object written in place must not be shared |
| Cached pointers (S2E TLB, `m_memcache`, pinned CPU objects) | pointers to ObjectStates, owned bits | fill, flush, `addressSpaceChange` | pointers that outlive a copy or a clone |
| Device state (`S2EDeviceState.cpp`) | written sectors, snapshot, `m_Parent` | clone, save, restore, readSector, writeSector | a path's disk is spread over a chain of shared objects |
| State sets and process tree (`Executor.cpp`, `PTree.cpp`, `Searcher.cpp`) | `states`, `addedStates`, `removedStates`, the searcher, tree nodes with an active flag | split, remove, activate, deactivate, updateStates, suspendState, resumeState, terminateState | kills of states that are suspended or not yet known; flags of inner nodes |
| Process forking (`S2E.cpp`, `doProcessFork`) | process count, instance map, file and state ids in shared memory | fork, failed fork, division of the states, exit | several critical sections per fork |
| StateManager plugin | shared success counts, command slots, suspension flags, the node that keeps a path | succeedState, scheduler callback, kill commands, timeout, barrier, process fork | kills that overlap; a barrier over processes that come and go |
| Driver testing plugins (`ModuleExecutionDetector`, `FunctionMonitor`, `MemoryChecker`, `WindowsApi/`) | per path: module descriptors, return descriptors, granted regions; shared by all paths: connections and sets of modules | module loads, transitions, call and return handlers, grants, access checks | handlers that fork, suspend or kill the path they run on; per-path events that change shared state |
| KLEE interpreter, expressions, solvers, QEMU, the other plugins | | | not modelled, or only as the environment (see below) |

Processes interact through shared memory only. Within a process everything is
sequential, but a step can be interrupted by an exception (`CpuExitException`),
and the order of forks, switches, suspensions and kills is arbitrary.

## Modules

| module | models | notes |
|---|---|---|
| `PrivateMachines` | what execution states promise | every path has a machine of its own; fork copies it, a switch changes nothing |
| `ExecutionStates` | states, address space, caches, host copies | implements `PrivateMachines` through `Runner` and `MachineView` |
| `MCExecutionStates` | instance for TLC: guests that use different locations | |
| `ExecutionStatesProofs` | theorems on ownership and pinned pointers; what a store, a save, a clone and a merge leave in the objects | |
| `PathInvariantProofs` | theorems on types and caches: every step keeps `PathInv` | extends `ExecutionStatesProofs` |
| `PathRefinementProofs` | `ExecutionStates` implements `PrivateMachines` | extends `PathInvariantProofs` |
| `PrivateDisks` | what device states promise | every path has a disk and devices of its own |
| `DeviceState` | `S2EDeviceState` | implements `PrivateDisks` through `Running`, `DiskView` and `DeviceView` |
| `DeviceStateProofs` | theorems on the chain of device states and on snapshots; `DeviceState` implements `PrivateDisks` | |
| `StateTree` | state sets, process tree, random path searcher | |
| `StateTreeProofs` | theorems on the state sets, the flags of the tree and the walk | |
| `ProcessFork` | `S2E::fork`, `doProcessFork`, `~S2E` | |
| `ProcessForkProofs` | theorems on the limit, the instance map and the division of states | |
| `StateManager` | the plugin in several processes | |
| `StateManagerProofs` | theorems on counts, kills, the node that keeps a path, and the path that survives | |
| `DriverTest` | the plugins that test a Windows driver, on paths that fork | |
| `DriverTestProofs` | theorems on descriptors, return handlers, memory grants, reported modules, arguments, call handlers and the checker's connection | |

Operators whose name starts with `M_` are variants of the definition that
follows them with a plausible mistake in it. Each property of a passing run is
violated when the definition is replaced by its variant.

### ExecutionStates

An ObjectState is named by the state and the key it was created under. The key
is its `copyOnWriteOwner`, so `GetWriteable` is a comparison. Contents are one
abstract value per object; the CPU's system part also holds the S2E TLB, as
`CPUX86State` does. `host...` variables are QEMU's own memory. `phase` follows
control: `run`, inside a `fork` (a branch makes several clones before
`doStateFork` saves them), `leave` after a `CpuExitException`, `select` inside
`selectNextState`, `exit`, and `escaped` for an exception that leaves
`selectNextState`.

Left out: symbolic registers, symbolic contents, DMA into shared-concrete pages, resolution of
symbolic addresses, and call stacks. The device snapshot, timers and instruction
count are one value `dev`. `Merge` does not look at devices and timers, as in
the code. The set of states a searcher can merge is larger than any one searcher
would offer.

### DeviceState

A device state is a number; `written` is `m_BlockDevices`, `snapshot` is
`m_State`. `ReadSector` follows the loop of `readSector` with its `hasRead`
flag. `Holder` is the inner loop over the parents. Left out: a second block
device, errors of the raw read, and the `m_canTransferSector` flag that guards
against reentrance.

### StateTree

A tree has the parent of every node and the set of active nodes. Operations that
climb (`Deactivate`, `Remove`, `Activate`) are all a `Climb` from a node to the first
node of a set at which the loop in the code ends.
`EnterSelect` is `selectNextState` up to the choice: `updateStates`, the state
manager's resumptions `R` and kills `K` (any sets, more than the plugin would
choose), `updateStates` again. Merging searchers are left out, and so is the one
caller of `succeedState` that does not leave the CPU loop (see the hazard at
`WindowsDriverExerciser.cpp:152`).

### ProcessFork and StateManager

Each critical section of a shared object is one step, and so is each step
between two of them that others can observe. `ProcessFork` has the bisection of
`doProcessFork` with its bounds; new state ids of one fork are consecutive.
`StateManager` counts the paths of a process instead of naming them. Its kill
commands, suspension loop (`SuspendCurrentProcess`, `WokenUp`, `AllSuspended`)
and callback are separate steps.

In `ProcessFork` a process can also crash outside of its critical sections. Its
destructor does not run, so it keeps its slot and its place in the count, as in
the code, where nothing calls `checkDeadProcesses`. A crash inside a critical
section would leave the semaphore taken and block the others; it is not
modelled. `StateManager` has no crashes.

### DriverTest

`st[i]` holds what the plugins keep in the `PluginState`s of path `i`, and the
call stack of its guest; `slots`, `handle`, `loadedModules` and `callers` are
members of the plugins and shared by all paths. A frame of the stack is the
function that runs in it, and the stack pointer is the depth. Every call, return
and interrupt is one step that includes the transition `ModuleExecutionDetector`
reports (`Went`), the handler that `FunctionMonitor` calls, and what
`MemoryChecker` does on the transition.

The annotations are represented by one function of each shape: entry point and
initialisation (grant at the call, revoke and suspend at the return), halt (kill
at the return), an allocation that forks at the call, one that forks in the
return handler, a free, and the registration of further handlers (with a return handler of its
own unless consistency is STRICT). The
consistency model is configured for each function, so both outcomes are steps.
`NdisFreeMemory` goes on with uninitialised values when it cannot read its
parameters, hence with any address.

Assumed: the stack pointer is concrete; the guest has one stack and returns
through `ret`; loads and unloads are seen while the kernel runs; loaded modules
do not overlap; a driver registers its miniport once; `terminateOnErrors` and
`terminateOnLeaks` are set; plugins are initialised in the order
of the driver tutorial (`ModuleExecutionDetector` before `FunctionMonitor`). A
call whose parameters cannot be read is a call without a handler (`Call`).
`DriverDispatch` is never hooked: the test of `readMemoryConcrete` in
`DriverEntryPointRet` registers it only if the read fails. Permissions of
regions are not told apart. The two arguments of `DriverEntry` are one region. A
call that a handler bypasses is a frame `os` that still has to return.
An exit request between taking an interrupt and `s2e_on_exception` loses the
announcement; that is the frame `quiet`.

## Runs

| run | instance | result |
|---|---|---|
| `es_paths` | 2 states with pairs of locations the guest uses, 3 states with none; 3 keys, 2 values | implements `PrivateMachines`; ownership is exclusive; pinned pointers, TLB and memory cache are coherent |
| `es_escape` | 2 states | violated: a merge that absorbs the current state throws out of `selectNextState` |
| `ds_disk` | 3 states, 1 sector, 2 values | implements `PrivateDisks`; cloned device states are frozen; every stopped state has a snapshot |
| `ds_read` | 2 states, 2 sectors | violated: after a written sector, `readSector` does not read an unwritten one |
| `st_tree` | 5 states, 9 nodes | sets, tree and searchers agree; the asserts hold |
| `pf_fork` | 3 places, 4 processes over time, 6 state ids, forks of up to 6 ways, crashes | the limit, slots, indices and the division of states are right; only what a crashed process held is lost |
| `pf_unique` | 2 places | violated: a state can be in two processes under one id |
| `sm_kill` | 3 processes, 3 paths, timeouts | counts mirror; overlapping kills agree; a kill is executed before it leaves its slot; the node that keeps a path exists |
| `sm_barrier` | 2 processes, no timeout | some path survives; one is resumed; every suspension ends |
| `sm_accident` | 2 processes, timeout | violated: overlapping kills can kill every path |
| `dt_driver` | 2 paths, calls of depth 3, 6 events of the guests | descriptors are valid; the reported module is the real one; calls and returns are paired; arguments and hooks do not outlive the call and the driver |
| `dt_return` | the same, with the fork of `HaltHandler` | violated: both return handlers end up on one path |

The five violations are described, with the line of the repository they
contradict, under "findings" in `PROJECT.json`.

Bounds. Two states are enough for a writer and a path that must not notice; the
third state of `es_paths` and `ds_disk` gives forks of forks and branches. Five
states in `st_tree` give trees in which an inner node at depth two has suspended
states on both sides. `pf_fork` has one process more than places, so that slots
are reused and forks are refused. A six-way fork is the smallest one after which
both sides of the first division divide their part again (the child does so from
five ways on): later rounds start from bounds that an earlier one computed, and
reach both roundings of the bisection. `View` identifies states of the model that
differ only in the names of states: ids are given out in order and never compared
otherwise, so it keeps, for each kind of state, how many there are. `Uses` limits the locations a guest reads and writes and `Mortal` the
states that are killed; `es_paths` chooses one of six guests in the initial
state, because a path that is not private shows it in one or two locations.
`MaxForks`, `MaxPaths` and `PathsEnd` do the same in `StateManager`. In
`dt_driver`, six events are enough to load the driver, enter it, register the
miniport, call an annotated function from it, fork and take an interrupt; returns,
switches and resumptions are not counted. `CheckerFollowsOnlyPath` is about
behaviours with one path: the connection it is about is shared by all paths.
`pf_fork` uses a VIEW that drops locals of loops that have ended.
Deadlock is not checked because the bounds stop every behaviour, and the program
itself exits when all states are gone.

Fairness. Only `sm_barrier` checks liveness. `FairSpec` has weak fairness of the
steps of each process, which the operating system's scheduler gives, and of
forks that are under way. `FinishingSpec` adds that every path reaches a barrier
or ends (strong fairness, because forks of the path interrupt it). The code does
not guarantee that: it is the condition under which a barrier can be left at
all without a timeout.

## Proofs

The constants are arbitrary; assumptions are the named ASSUMEs of the modules.

* `ExecutionStatesProofs`. `OwnedIsExclusive` is not inductive: a fork gives
  parent and child the same key, and what keeps them apart is that every object
  bound by both is older. The invariant `Ownership` adds where objects come from
  (`Provenance`: an object named `<<s, k>>` that another state binds has an owner
  below the keys of both) and `PinnedCoherent`. All actions but `Clone` only rebind
  objects of one state to objects it made under its own key (`Rebind`), so one
  lemma covers them. Proved: `ExclusiveOwnership`, `OwnerBoundedByKey`,
  `PinnedPointersValid`. From ownership follow the lemmas on contents that the
  next two modules use: `StoreInPlace` and `StoreRebound` (a store changes what
  one state holds and nothing else, in place or in a copy), `SaveHolds`,
  `CloneHolds` and `JoinHolds`, for every set of states saved at once.
* `PathInvariantProofs`. `PathInv` joins `Ownership` with types and with four facts
  about where a path's contents are: which states are active, pending and
  concrete in each phase (`Staged`); what every bound object holds (`Filled`); that
  until `doStateFork` a clone and the state it comes from hold the same RAM and
  registers (`Twins`); and that TLB and memory cache of a state fit its bindings,
  the TLB being in host memory while the state is active and in its CPU object
  otherwise (`Coherent`). One lemma for each action. Proved: `CachesStayCoherent`
  and `TypesHold`.
* `PathRefinementProofs`. `Viewed` says, location by location, where the machine of a
  state is to be read: registers in host memory in concrete mode, CPU, devices
  and shared-concrete pages in host memory while active, the rest in objects.
  Each action is then shown to be the step of `PrivateMachines` it should be, or
  to change nothing that can be seen. The save of the running state in
  `doStateFork`, `doStateSwitch` and `merge` is invisible because what moves to
  the objects is what was in host memory. Proved: `PathsRefineMachines`, that is
  `Spec => PathsArePrivate`.
* `ProcessForkProofs`. `SlotInv` counts: occupied slots plus processes between
  the two critical sections make up the process count, which is at most the
  limit; indices from `lastFileId` on are unused; living processes are among
  those counted. A second invariant, `DivInv`, follows the bisection: the bounds of
  the loop are in order, and parent and child hold complementary parts of what is
  divided. Proved: `InstanceMapHasRoom`, `SlotsStayOwned`, `IndicesAreFresh`,
  `LimitIsKept`, `BisectionInRange`, `DivisionIsPartition` and
  `DivisionLosesNothing`, with crashes and failed forks at any point, and
  `TypesHold`.
* `DeviceStateProofs`. `Leaves` adds to `LeavesAreOwn` that device states are
  numbered in the order of allocation. Proved: `DeviceStatesAreOwn`, and from it
  the action property `ClonedDevicesAreFrozen`. `DevInv` adds that parents are older
  (`Descent`), which states are active (`Activity`), and the snapshots; it gives
  `SnapshotsPresent` and `TypesHold`. The refinement needs what the walk over the
  parents (`Holder`, a recursive function) finds. As parents are older, such a
  function exists (`HolderClimbs`), and a step that leaves the way alone does not
  change where it ends (`HolderAgrees`); both proofs look at the least device state
  at which the claim would fail. So a write to a leaf changes the disk of no other
  path, and a clone sees the disk of its parent. Proved: `DevicesRefineDisks`, that
  is `Spec => DisksArePrivate`.
* `StateManagerProofs`. A callback works on a `World`
  of its process, and there is one lemma for each operation on it: counts stay
  right (`WorldOK`), and commands in the world agree with the recorded node, which
  exists (`Agreed`). The invariant `Inv` joins this for all processes with three
  facts it rests on: slots without a StateManager offer no succeeded path
  (`NoneOffered`), so none of them is chosen to keep one; a process that waits has
  a succeeded path (`Placed`), so its kill follows an earlier choice; and forks in
  progress, children and processes are counted (`Counted`), so a child finds a
  slot. Proved for any number of processes, paths and forks, with and without
  timeouts: `CountsMirror`, `KillsNameTheKeeper`, `KeeperIsManaged`, `TypesHold`, and
  the action property `NoKillIsDropped`. `KillsLeaveAPath` assumes that there is no
  timeout and that paths do not end by themselves (`sm_accident` shows that it
  fails with a timeout). Its invariant `Surviving` says that some process is
  `Safe`: it has a path and no kill pending, or the kill tells it to keep one; and
  that a kill is pending only for processes the barrier has just let through
  (`LetThrough`), so that two kills never overlap. The counting of `Inv` shows that
  whoever finds all suspended has really found all of them.
* `DriverTestProofs`. `Inv` says of the plugin states of each path that they
  have the fields and types of `Fresh`, that descriptors are the path's own
  (`Owned`), and that return descriptors match the stack (`Paired`). It is
  inductive because every handler is a composition of operations on one path
  (`Jump`, `GrantMemory`, `RegisterReturn`, `EraseSp`, `Clone`...), and there is
  one lemma for each. Proved: `DescriptorsAreOwn` and `CallsAreReturned`. Of
  `MemoryChecker`: over disjoint regions the check of one neighbour is exact
  (`AccessCheckIsExact`). `grantMemory` does not keep regions disjoint, and
  `GrantComparesFirstByte` says exactly what it does: it refuses a region whose first
  byte is granted already and adds any other, even over regions that start inside it.
  `OverlapHidesGrant` says what follows: which bytes of the new region
  `checkMemoryAccess` then refuses although they were granted. Both hold for any
  disjoint regions and any new one.

  The second half of the module is about reports. `Whole` adds to `Inv` what each
  path was told and may use (`Kept`) and the state of the shared connection
  (`Connected`). `ToldWhere` is not inductive: nothing is reported in an interrupt that was not announced, and the
  report must be right again after it; `Told` says that the module reported last
  is the one below such interrupts, or none. `Args` ties granted arguments to a
  frame on the stack, and `Paired` ties that frame to its return handler. Each
  step ends in one of four ways (`Outcome`): the path goes on, forks, ends, or
  changes without a transition. Proved: `PathsAreToldWhere`, `ArgumentsAreRevoked`,
  `HooksGoWithDriver`, `CheckerFollowsDriver` and `TypesHold`.
* `StateTreeProofs`. `ActiveIsExact` speaks of all descendants of a node, while each
  operation of `PTree` changes the flags on one path to the root. `Flagged` is its
  local form: a leaf is active if its state may run, another node if one of its
  children is. `Tree` adds the shape (parents are older, at most two children), and
  there is one lemma for each operation (`SplitTree`, `DeactivateTree`, `ActivateTree`,
  `RemoveTree`, and `DeletedTree` for the loop over the removed states). `ClimbStep`
  shows that the recursive function in `Climb` exists (it is the least set that is
  closed under the loop), `ClimbIsPath` what a climb visits. As parents are older,
  the latter looks at the least node that would be an exception, and the walk down
  (`WalkEnds`) at the largest. `Inv` joins `SetInv`,
  which says on which list a state can be, with `TreeInv`, and neither is inductive
  alone: without the tree the walk could choose a state that may not run. Proved
  for any number of states: `FlagsAreExact`, `SearchersChooseStates`,
  `StatesAreSomewhere`, `RemovedStatesAreKnown` and `TypesHold`.

Only model-checked: liveness (`SuspensionEnds` and `OneIsResumed`), which the prover
does not handle. The five violations are counterexamples, which TLC gives.

## Not modelled

The repository contains QEMU, KLEE, STP, SQLite and the guest and offline tools
whole; the code of S2E itself is a small part of its lines, and the models
cover the part of that in which several paths or processes meet. The rest is
left out for these reasons:

* The KLEE interpreter, the expression library and the solvers are sequential
  computations on data that an abstraction would have to repeat.
* QEMU is the environment that writes memory, registers, disk and devices. Third
  party libraries (STP, SQLite, Lua) are used through their interfaces.
* The remaining annotations of Windows functions (some hundred handlers in
  `NdisHandlers.cpp` and `NtoskrnlHandlers.cpp`) have the control of the ones in
  `DriverTest` and differ in the parameters they read and the values they make
  symbolic.
* Monitors that find modules decode the guest's data structures; tracers, the
  cache simulator and the statistics only observe; guest and offline tools are
  separate programs.
* Candidates for further modules, in this order: byte masks of `ObjectState`;
  symbolic CPU registers and `copyInConcretes`; `MergingSearcher` with the rest of
  `merge`; batching searchers and the searcher plugins; translation blocks and
  their reference counts across forks; the cache of plugin states; crashes in
  `StateManager`.

The list of components in `PROJECT.json` gives the reason for each.
