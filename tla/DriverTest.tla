----------------------------- MODULE DriverTest -----------------------------
(***************************************************************************)
(* The plugins that test a Windows driver, over the paths that fork while  *)
(* it runs: ModuleExecutionDetector tells plugins which module a path is   *)
(* in, FunctionMonitor calls handlers at calls and returns, the Windows    *)
(* annotations grant and revoke memory there and fork, suspend or kill the *)
(* path, and MemoryChecker checks accesses made in the driver.             *)
(*                                                                         *)
(* What a plugin keeps in its PluginState belongs to one path and is       *)
(* cloned with it: st[i].  What it keeps in itself is shared by all paths: *)
(* slots, handle, loadedModules and callers.                               *)
(*                                                                         *)
(* The guest is a call stack.  A frame is the function that runs in it;    *)
(* the stack pointer is the depth.  A frame that awaits no return handler  *)
(* has the name of an ordinary function: "os" in the kernel, "work" in the *)
(* driver.  All of this is kernel code of one address space, except "app". *)
(***************************************************************************)
EXTENDS Naturals, Sequences, FiniteSets

CONSTANTS MaxPaths,     \* bound: paths are 1..MaxPaths
          MaxDepth,     \* bound on the guest's call stack
          MaxSlots,     \* bound on the handlers connected to onDataMemoryAccess
          MaxEvents,    \* bound on what the guests do besides returning
          Libraries,    \* modules that are not configured (trackAllModules)
          UnloadAction  \* "kill" or "succeed"

Path == 1..MaxPaths
Depth == 1..MaxDepth
Nil == 0                                \* no path

Driver == "driver"                      \* the module under test
App == "app"                            \* another module of interest, in a process
Configured == {Driver, App}
Module == Configured \cup Libraries
Kernel == "kernel"
None == <<>>                            \* no ModuleDescriptor

ASSUME DriverAssumption ==
    /\ MaxPaths \in Nat \ {0} /\ MaxDepth \in Nat \ {0} /\ MaxSlots \in Nat
    /\ MaxEvents \in Nat
    /\ Libraries \cap (Configured \cup {Kernel}) = {}
    /\ UnloadAction \in {"kill", "succeed"}

Watched == {"entry", "init", "halt", "alloc", "shared", "register"}  \* have a return handler
Frame == Watched \cup {"os", "work", "app", "isr", "quiet"}

Home(f) == IF f \in {"entry", "init", "halt", "work"} THEN Driver
           ELSE IF f = "app" THEN App ELSE Kernel

(* Regions of memory by their type; the addresses are those of one guest.  *)
Region == [start : Nat, size : Nat, permanent : BOOLEAN,
           type : {"entry", "init", "alloc", "shared", "ticks"}]
Granted(start, size, type, permanent) ==
    [start |-> start, size |-> size, type |-> type, permanent |-> permanent]
EntryArgs == Granted(0, 2, "entry", FALSE)
MediumArray(n) == Granted(2, n, "init", FALSE)
PoolBlock == Granted(4, 2, "alloc", FALSE)
DmaBlock == Granted(6, 1, "shared", FALSE)
TickCount == Granted(8, 1, "ticks", TRUE)
Address == 0..9

VARIABLES events, live, suspended, cur, nextPath,
          st,             \* plugin states of each path, and its guest
          slots,          \* handlers connected to onDataMemoryAccess
          handle,         \* m_dataMemoryAccessConnection is connected
          loadedModules,  \* the driver is in WindowsDriverExerciser::m_loadedModules
          callers         \* the driver is in m_callingModules of the annotations

paths == <<live, suspended, cur, nextPath>>
globals == <<slots, handle, loadedModules, callers>>
vars == <<events, paths, st, globals>>

NoReturns == [d \in Depth |-> <<>>]

Fresh == [stack |-> <<"os">>,
          descs |-> {}, previous |-> None, cached |-> None,   \* ModuleTransitionState
          hooks |-> {}, rets |-> NoReturns,                 \* FunctionMonitorState
          base |-> FALSE, regions |-> {}]                   \* MemoryCheckerState

Init == /\ events = 0 /\ live = {1} /\ suspended = {} /\ cur = 1 /\ nextPath = 2
        /\ st = [i \in Path |-> Fresh]
        /\ slots = 0 /\ handle = FALSE /\ loadedModules = FALSE /\ callers = FALSE

Esp(p) == Len(p.stack)
Top(p) == p.stack[Esp(p)]
InModule(p, m) == \E d \in 1..Esp(p) : Home(p.stack[d]) = m
-----------------------------------------------------------------------------
(* ModuleExecutionDetector.  A ModuleDescriptor object is <<i, m>>: the    *)
(* path whose plugin state allocated it and the module it describes.  descs*)
(* holds m_Descriptors and, for modules that are not configured,           *)
(* m_NotTrackedDescriptors.                                                *)

Loaded(p, m) == \E d \in p.descs : d[2] = m

GetDescriptor(p, m) ==
    IF m \in Configured /\ Loaded(p, m) THEN CHOOSE d \in p.descs : d[2] = m ELSE None

(* Mutant: m_PreviousModule is left alone. *)
M_UnloadDescriptors(p, ms) ==
    [p EXCEPT !.descs = {d \in @ : d[2] \notin ms},
              !.cached = IF @ # None /\ @[2] \in ms THEN None ELSE @]

UnloadDescriptors(p, ms) ==
    [p EXCEPT !.descs = {d \in @ : d[2] \notin ms},
              !.cached = IF @ # None /\ @[2] \in ms THEN None ELSE @,
              !.previous = IF @ # None /\ @[2] \in ms THEN None ELSE @]

(* The plugin states of a new path.  The descriptors are copied, and the   *)
(* two pointers are looked up in the copy.                                 *)
Clone(p, i) ==
    LET own(d) == IF d = None THEN None ELSE <<i, d[2]>>
    IN [p EXCEPT !.descs = {own(d) : d \in @}, !.previous = own(@), !.cached = own(@)]

(* Mutant: the block that leaves a module is not instrumented. *)
M_Announced(p, target) == GetDescriptor(p, target) # None

(* Whether onExecution runs when p jumps: at the end of a block of a       *)
(* module of interest and at the start of one.                             *)
Announced(p, target) ==
    GetDescriptor(p, Home(Top(p))) # None \/ GetDescriptor(p, target) # None

(* p after it went on with the stack s; told says that onExecution runs.   *)
Went(p, s, told) ==
    LET q == [p EXCEPT !.stack = s]
        now == GetDescriptor(p, Home(Top(q)))
    IN IF told THEN [q EXCEPT !.previous = now, !.cached = now] ELSE q

Jump(p, s) == Went(p, s, Announced(p, Home(s[Len(s)])))

Push(p, f) == Append(p.stack, f)
Pop(p) == SubSeq(p.stack, 1, Esp(p) - 1)
Instead(p, f) == [p EXCEPT !.stack = Append(Pop(p), f)]
-----------------------------------------------------------------------------
(* FunctionMonitorState *)

(* m_returnDescriptors: the handlers to run at a return with that esp. *)
RegisterReturn(p, h) == [p EXCEPT !.rets[Esp(p)] = Append(@, h)]

(* slotRet with emitSignal false: all return descriptors at this esp. *)
EraseSp(p) == [p EXCEPT !.rets[Esp(p)] = <<>>]

Pending(p) == p.rets[Esp(p)]
-----------------------------------------------------------------------------
(* MemoryChecker *)

(* lookup_previous: the region with the largest start that is not above a. *)
LookupPrevious(R, a) ==
    {r \in R : r.start <= a /\ \A q \in R : q.start <= a => q.start <= r.start}

GrantMemory(p, r) ==
    IF r.size = 0 \/ \E q \in LookupPrevious(p.regions, r.start) : q.start + q.size > r.start
    THEN p ELSE [p EXCEPT !.regions = @ \cup {r}]

(* Revocation by type. *)
RevokeType(p, type) == [p EXCEPT !.regions = {r \in @ : r.type # type}]

(* Revocation by address. *)
RevokeAt(p, a) == [p EXCEPT !.regions = {r \in @ : r.start # a}]

(* An access to n bytes at a. *)
CheckMemoryAccess(R, a, n) ==
    \E r \in LookupPrevious(R, a) : a + n <= r.start + r.size

Leaks(p) == \E r \in p.regions : ~r.permanent
-----------------------------------------------------------------------------
(* Mutant: any module of interest is taken for the driver. *)
M_OnModuleTransition(p, q) ==
    IF q.previous = p.previous THEN UNCHANGED <<slots, handle>>
    ELSE IF q.previous # None
    THEN /\ slots < MaxSlots /\ slots' = slots + 1 /\ handle' = TRUE
    ELSE /\ slots' = IF handle THEN slots - 1 ELSE slots
         /\ handle' = FALSE

(* onModuleTransition of MemoryChecker, when the running path p became q.  *)
(* Assigning the connection forgets the one it held, without closing it.   *)
OnModuleTransition(p, q) ==
    IF q.previous = p.previous THEN UNCHANGED <<slots, handle>>
    ELSE IF q.previous # None /\ q.previous[2] = Driver /\ q.base
    THEN /\ slots < MaxSlots /\ slots' = slots + 1 /\ handle' = TRUE
    ELSE /\ slots' = IF handle THEN slots - 1 ELSE slots
         /\ handle' = FALSE

(* The running path goes on as q. *)
GoOn(q) == /\ st' = [st EXCEPT ![cur] = q]
           /\ OnModuleTransition(st[cur], q)
           /\ UNCHANGED <<paths, loadedModules, callers>>

(* The running path goes on as q and a new one starts as r. *)
ForkInto(q, r) ==
    /\ nextPath \in Path /\ nextPath' = nextPath + 1
    /\ live' = live \cup {nextPath}
    /\ st' = [st EXCEPT ![cur] = q, ![nextPath] = r]
    /\ OnModuleTransition(st[cur], q)
    /\ UNCHANGED <<suspended, cur, loadedModules, callers>>

(* Mutant: a path that is killed while it is suspended stays suspended. *)
M_TerminateAs(q) == /\ live' = live \ {cur} /\ suspended' = suspended /\ cur' = Nil
                    /\ st' = [st EXCEPT ![cur] = Fresh]
                    /\ OnModuleTransition(st[cur], q)
                    /\ UNCHANGED nextPath

(* terminateStateEarly of the running path, which became q: its plugin     *)
(* states are deleted.                                                     *)
TerminateAs(q) == /\ live' = live \ {cur} /\ suspended' = suspended \ {cur} /\ cur' = Nil
                  /\ st' = [st EXCEPT ![cur] = Fresh]
                  /\ OnModuleTransition(st[cur], q)
                  /\ UNCHANGED nextPath

Terminate == TerminateAs(st[cur])

(* succeedState, and CpuExitException. *)
SucceedAs(q) == /\ suspended' = suspended \cup {cur} /\ cur' = Nil
                /\ st' = [st EXCEPT ![cur] = q]
                /\ UNCHANGED <<live, nextPath, globals>>
-----------------------------------------------------------------------------
(* OSMonitor sees the kernel load m, which it unloads when nothing runs in *)
(* it.                                                                     *)
InKernel(p) == Home(Top(p)) = Kernel

OnModuleLoad(m) ==
    /\ cur # Nil /\ InKernel(st[cur]) /\ ~Loaded(st[cur], m)
    /\ LET p == st[cur]
           hook == m = Driver /\ ~loadedModules
       IN /\ st' = [st EXCEPT ![cur] =
                       [p EXCEPT !.descs = @ \cup {<<cur, m>>},
                                 !.base = @ \/ m = Driver,
                                 !.hooks = IF hook THEN @ \cup {"entry", "imports"} ELSE @]]
          /\ loadedModules' = (loadedModules \/ hook)
          /\ callers' = (callers \/ hook)
    /\ UNCHANGED <<paths, slots, handle>>

(* Mutant: the handlers of the driver stay. *)
M_Disconnect(p) == p

(* disconnect: call handlers at addresses of the driver.  The imports are  *)
(* addresses of the kernel.                                                *)
Disconnect(p) == [p EXCEPT !.hooks = @ \ {"entry", "miniport"}]

OnModuleUnload(m) ==
    /\ cur # Nil /\ InKernel(st[cur]) /\ Loaded(st[cur], m) /\ ~InModule(st[cur], m)
    /\ m # Driver
    /\ st' = [st EXCEPT ![cur] = UnloadDescriptors(@, {m})]
    /\ UNCHANGED <<paths, globals>>

(* The driver: the annotations forget that it is a caller, unless the      *)
(* exception of terminateStateEarly keeps the signal from reaching them.   *)
OnDriverUnload ==
    /\ cur # Nil /\ InKernel(st[cur]) /\ Loaded(st[cur], Driver) /\ ~InModule(st[cur], Driver)
    /\ LET q == Disconnect([UnloadDescriptors(st[cur], {Driver}) EXCEPT !.base = FALSE])
       IN \/ /\ Leaks(q) \/ UnloadAction = "kill"
             /\ Terminate
             /\ callers' \in {callers, FALSE}
          \/ /\ ~Leaks(q) /\ UnloadAction = "succeed"
             /\ suspended' = suspended \cup {cur}
             /\ st' = [st EXCEPT ![cur] = q]
             /\ callers' = FALSE
             /\ UNCHANGED <<live, cur, nextPath, slots, handle>>
    /\ UNCHANGED loadedModules

(* The process of App ends, perhaps while it is interrupted. *)
OnProcessUnload ==
    /\ cur # Nil /\ InKernel(st[cur])
    /\ ~(InModule(st[cur], App) /\ InModule(st[cur], Driver))
    /\ LET p == UnloadDescriptors(st[cur], {App})
       IN st' = [st EXCEPT ![cur] = IF InModule(p, App) THEN [p EXCEPT !.stack = <<"os">>] ELSE p]
    /\ UNCHANGED <<paths, globals>>

(* getModule for an address in m, as plugins and the translator do. *)
GetModule(m) ==
    /\ cur # Nil
    /\ st' = [st EXCEPT ![cur].cached = GetDescriptor(st[cur], m)]
    /\ UNCHANGED <<paths, globals>>
-----------------------------------------------------------------------------
(* Calls of the running path. *)

Room == cur # Nil /\ Esp(st[cur]) < MaxDepth

(* A function that has no handler. *)
Call(f) ==
    /\ Room
    /\ LET p == st[cur]
       IN /\ \/ f = "work" /\ Loaded(p, Driver) /\ Top(p) \notin {"app"}
             \/ f = "app" /\ Loaded(p, App) /\ p.stack = <<"os">>
             \/ f = "os" /\ Home(Top(p)) = Driver
          /\ GoOn(Jump(p, Push(p, f)))

(* slotCall finds a handler at the entry point of the driver. *)
Hooked(hook) == Room /\ hook \in st[cur].hooks /\ Top(st[cur]) = "os" /\ Loaded(st[cur], Driver)

(* Mutant: the return handler is forgotten. *)
M_DriverEntryPoint ==
    /\ Hooked("entry")
    /\ LET p == Jump(st[cur], Push(st[cur], "entry"))
       IN GoOn(GrantMemory(GrantMemory(p, EntryArgs), TickCount))

DriverEntryPoint ==
    /\ Hooked("entry")
    /\ LET p == Jump(st[cur], Push(st[cur], "entry"))
       IN GoOn(RegisterReturn(GrantMemory(GrantMemory(p, EntryArgs), TickCount), "entry"))

InitializeHandler ==
    /\ Hooked("miniport")
    /\ \E n \in 0..1 :
          LET p == RegisterReturn(Jump(st[cur], Push(st[cur], "init")), "init")
          IN GoOn(GrantMemory(p, MediumArray(n)))

(* Without a shutdown handler, or without over-approximation. *)
HaltHandler ==
    /\ Hooked("miniport")
    /\ GoOn(RegisterReturn(Jump(st[cur], Push(st[cur], "halt")), "halt"))

(* calledFromModule, and a handler on the imports. *)
Imported == /\ Room /\ callers /\ "imports" \in st[cur].hooks
            /\ Home(Top(st[cur])) = Driver /\ Loaded(st[cur], Driver)

(* The consistency of an annotation is configured for each function, and   *)
(* each kind is a step.                                                    *)

(* A driver registers its miniport once.  Unless consistency is STRICT the *)
(* return is watched; no entry point is hooked when the structure that     *)
(* holds them, or its address, cannot be read.                             *)
NdisMRegisterMiniport ==
    /\ Imported /\ "miniport" \notin st[cur].hooks
    /\ LET called(f) == Jump(st[cur], Push(st[cur], f))
       IN \E p \in {called("os"), RegisterReturn(called("register"), "register")},
             points \in {{}, {"miniport"}} : GoOn([p EXCEPT !.hooks = @ \cup points])

(* Below LOCAL the function runs; otherwise the running path skips it, as  *)
(* if it failed, and the new one runs it.                                  *)
NdisAllocateMemory ==
    /\ Imported
    /\ LET p == Jump(st[cur], Push(st[cur], "alloc"))
       IN \/ GoOn(RegisterReturn(p, "alloc"))
          \/ ForkInto(Instead(p, "os"), RegisterReturn(Clone(p, nextPath), "alloc"))

NdisMAllocateSharedMemory ==
    /\ Imported
    /\ GoOn(RegisterReturn(Jump(st[cur], Push(st[cur], "shared")), "shared"))

(* For any address and length, as the handler goes on when it cannot read  *)
(* them: a region that is granted as it is freed is revoked, and the path  *)
(* is killed otherwise.                                                    *)
NdisFreeMemory ==
    /\ Imported
    /\ LET p == Jump(st[cur], Push(st[cur], "os"))
       IN \/ TerminateAs(p) /\ UNCHANGED <<loadedModules, callers>>
          \/ \E r \in p.regions : GoOn(RevokeAt(p, r.start))
-----------------------------------------------------------------------------
(* Returns of the running path: slotRet, and then the ret instruction,     *)
(* unless a handler ends or suspends the path.  A suspended path runs the  *)
(* instruction again when it is resumed.                                   *)

Returning(h) == cur # Nil /\ Pending(st[cur]) # <<>> /\ Head(Pending(st[cur])) = h
Failed == Terminate /\ UNCHANGED <<loadedModules, callers>>

Return ==
    /\ cur # Nil /\ Esp(st[cur]) > 1 /\ Top(st[cur]) \notin {"isr", "quiet"}
    /\ Pending(st[cur]) = <<>>
    /\ GoOn(Jump(st[cur], Pop(st[cur])))

Succeeded(p, type) == SucceedAs(Instead(EraseSp(RevokeType(p, type)), "work"))

DriverEntryPointRet ==
    /\ Returning("entry")
    /\ Failed \/ Succeeded(st[cur], "entry")

InitializeHandlerRet ==
    /\ Returning("init")
    /\ Failed \/ Succeeded(st[cur], "init")

HaltHandlerRet == Returning("halt") /\ Failed

(* The status becomes symbolic, or stays. *)
NdisMRegisterMiniportRet ==
    /\ Returning("register")
    /\ GoOn(Jump(EraseSp(st[cur]), Pop(st[cur])))

NdisAllocateMemoryRet ==
    /\ Returning("alloc")
    /\ \E p \in {st[cur], GrantMemory(st[cur], PoolBlock)} : GoOn(Jump(EraseSp(p), Pop(p)))

(* Mutant: the other path keeps the return descriptors. *)
M_OtherAfterRet(p, i) == Instead(Clone(p, i), "os")

(* The path forked in a return handler, after eraseSp. *)
OtherAfterRet(p, i) == Instead(EraseSp(Clone(p, i)), "os")

(* The call failed, or consistency is STRICT; or the path forks and one of *)
(* the two is granted the memory.                                          *)
NdisMAllocateSharedMemoryRet ==
    /\ Returning("shared")
    /\ LET p == EraseSp(st[cur])
           q == OtherAfterRet(st[cur], nextPath)
       IN \/ GoOn(Jump(p, Pop(p)))
          \/ ForkInto(Jump(GrantMemory(p, DmaBlock), Pop(p)), q)
          \/ ForkInto(Jump(p, Pop(p)), GrantMemory(q, DmaBlock))
-----------------------------------------------------------------------------
(* An interrupt or exception.  s2e_on_exception comes after the processor  *)
(* has taken it, and is skipped when an exit of the CPU loop was requested *)
(* in the meantime.                                                        *)
Interrupt(frame) ==
    /\ Room
    /\ GoOn(Went(st[cur], Push(st[cur], frame), frame = "isr"))

Iret == /\ cur # Nil /\ Top(st[cur]) \in {"isr", "quiet"}
        /\ GoOn(Jump(st[cur], Pop(st[cur])))

(* onDataMemoryAccess for an access that is not granted. *)
BadAccess == /\ cur # Nil /\ slots > 0
             /\ \E a \in Address : ~CheckMemoryAccess(st[cur].regions, a, 1)
             /\ Failed

(* A branch of the guest on a symbolic condition. *)
Fork == cur # Nil /\ ForkInto(st[cur], Clone(st[cur], nextPath))

(* The searcher picks another path. *)
Switch(i) == /\ i \in live \ suspended /\ i # cur
             /\ cur' = i
             /\ UNCHANGED <<live, suspended, nextPath, st, globals>>

(* StateManager resumes the paths it keeps. *)
ResumeSucceeded == /\ suspended # {} /\ suspended' = {}
                   /\ UNCHANGED <<live, cur, nextPath, st, globals>>

Loading == \/ \E m \in Module : OnModuleLoad(m) \/ OnModuleUnload(m) \/ GetModule(m)
           \/ OnDriverUnload \/ OnProcessUnload

Calling == \/ \E f \in {"work", "app", "os"} : Call(f)
           \/ DriverEntryPoint \/ InitializeHandler \/ HaltHandler
           \/ NdisMRegisterMiniport \/ NdisAllocateMemory
           \/ NdisMAllocateSharedMemory \/ NdisFreeMemory

Returned == \/ Return \/ DriverEntryPointRet \/ InitializeHandlerRet \/ HaltHandlerRet
            \/ NdisMRegisterMiniportRet \/ NdisAllocateMemoryRet
            \/ NdisMAllocateSharedMemoryRet \/ Iret

Event == events < MaxEvents /\ events' = events + 1

Next == \/ Event /\ (Loading \/ Calling \/ Fork \/ \E f \in {"isr", "quiet"} : Interrupt(f))
        \/ /\ UNCHANGED events
           /\ Returned \/ BadAccess \/ ResumeSucceeded \/ \E i \in Path : Switch(i)

Spec == Init /\ [][Next]_vars

(* HaltHandler under over-approximation, when the driver has a shutdown    *)
(* handler: both paths are meant to get a return handler, and both are     *)
(* registered in fns, the FunctionMonitorState of the running path.        *)
HaltHandlerForks ==
    /\ Hooked("miniport")
    /\ LET p == Jump(st[cur], Push(st[cur], "halt"))
       IN ForkInto(RegisterReturn(RegisterReturn(p, "halt"), "halt"), Clone(p, nextPath))

OverapproximateSpec == Init /\ [][Next \/ (Event /\ HaltHandlerForks)]_vars
-----------------------------------------------------------------------------
(* Types. *)
TypeOK ==
    /\ events \in 0..MaxEvents
    /\ live \subseteq Path /\ suspended \subseteq live /\ cur \in live \cup {Nil}
    /\ nextPath \in 1..(MaxPaths + 1)
    /\ slots \in 0..MaxSlots /\ handle \in BOOLEAN
    /\ loadedModules \in BOOLEAN /\ callers \in BOOLEAN
    /\ \A i \in Path :
          /\ Esp(st[i]) \in Depth /\ \A d \in 1..Esp(st[i]) : st[i].stack[d] \in Frame
          /\ st[i].descs \subseteq Path \X Module
          /\ \A r \in st[i].regions : r \in Region

(* m_CachedModule and m_PreviousModule of a path point at a descriptor     *)
(* that this path owns and still tracks, never at one that was deleted or  *)
(* that belongs to the path it was forked from: what the assertions of     *)
(* clone, getDescriptor and unloadDescriptor rely on, over loads, unloads  *)
(* and the end of a process whose interrupt was not announced.             *)
DescriptorsOwn ==
    \A i \in Path :
       /\ \A d \in st[i].descs : d[1] = i
       /\ {st[i].previous, st[i].cached} \subseteq
             {d \in st[i].descs : d[2] \in Configured} \cup {None}

(* ModuleExecutionDetector: the module that a path was last reported to    *)
(* enter is the module it is in, through calls, returns, interrupts,       *)
(* forks inside handlers, suspension and unloads.  The exception is code   *)
(* that runs in an interrupt which was not announced.                      *)
ToldWhere ==
    \A i \in live : Top(st[i]) # "quiet" =>
       st[i].previous = GetDescriptor(st[i], Home(Top(st[i])))

(* FunctionMonitor pairs calls with returns: a path has exactly one return *)
(* descriptor for each annotated call on its stack and none for a frame    *)
(* that is gone, even if the path was forked, bypassed, suspended or       *)
(* resumed inside the handler.  A missing one is a return that is not      *)
(* seen; one left over runs the handler at the return of another function. *)
ReturnsPaired ==
    \A i \in Path : \A d \in Depth :
       st[i].rets[d] = IF d <= Esp(st[i]) /\ st[i].stack[d] \in Watched
                       THEN <<st[i].stack[d]>> ELSE <<>>

(* The arguments of DriverEntry and of MiniportInitialize are accessible   *)
(* only while a return handler that revokes them is pending: otherwise     *)
(* they stay granted, and are reported as a leak of the driver.            *)
ArgsHaveReturn ==
    \A i \in Path : \A r \in st[i].regions : r.type \in {"entry", "init"} =>
       \E d \in 1..Esp(st[i]) : st[i].rets[d] # <<>> /\ Head(st[i].rets[d]) = r.type

(* No path has call handlers at addresses of a driver it does not have: a  *)
(* module loaded there later would be annotated as the driver.             *)
HooksFollowLoad ==
    \A i \in Path : st[i].hooks \cap {"entry", "miniport"} # {} => Loaded(st[i], Driver)

(* While there is only one path, accesses are checked exactly when it was  *)
(* last reported to be in the driver.                                      *)
CheckerFollowsOnlyPath ==
    (nextPath = 2 /\ live = {1}) =>
       (slots > 0 <=> st[1].previous # None /\ st[1].previous[2] = Driver)
====
