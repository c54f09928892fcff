-------------------------- MODULE DriverTestProofs --------------------------
(***************************************************************************)
(* The handlers of DriverTest are compositions of operations on one path,  *)
(* so every path stays as it should be.  Owned(p, i) is what DescriptorsOwn*)
(* says of the plugin states p of path i, with the shape of the record;    *)
(* Paired relates its stack and return descriptors.                        *)
(*                                                                         *)
(* The second half is about where a path was told it is, which memory and  *)
(* call handlers it has, and when its accesses are checked.                *)
(*                                                                         *)
(* ToldWhere is not inductive.  Code in a quiet interrupt is told nothing, *)
(* and what was reported last must be right again when it returns; so Told *)
(* says of such a path that the module reported last is the one below the  *)
(* interrupts, or none.  ArgsHaveReturn needs that arguments are granted   *)
(* only while the frame they were granted for is on the stack (Args), and  *)
(* CheckerFollowsOnlyPath that the base address is known wherever the      *)
(* driver is loaded and that the connection is open at most once.  Kept is *)
(* all of this for one path.  Every step has one of four outcomes          *)
(* (Outcome): the running path goes on, forks, ends, or changes in a way   *)
(* that no transition reports; each keeps Whole.                           *)
(***************************************************************************)
EXTENDS DriverTest, WellFoundedInduction, TLAPS

(* Zenon is the prover of a step unless it names another: SMT has those    *)
(* that need arithmetic or the extensionality of sets and records.         *)
USE Zenon

Shape(p) == p = [stack |-> p.stack, descs |-> p.descs, previous |-> p.previous,
                 cached |-> p.cached, hooks |-> p.hooks, rets |-> p.rets,
                 base |-> p.base, regions |-> p.regions]

Tracked(p) == {d \in p.descs : d[2] \in Configured}

Owned(p, i) == /\ Shape(p)
               /\ p.descs \subseteq {i} \X Module
               /\ p.previous \in Tracked(p) \cup {None}
               /\ p.cached \in Tracked(p) \cup {None}

(* Operations that leave ModuleTransitionState alone. *)
SameModules(p, q) == /\ Shape(q) /\ q.descs = p.descs
                     /\ q.previous = p.previous /\ q.cached = p.cached

LEMMA SameIsOwned == ASSUME NEW p, NEW q, NEW i, Owned(p, i), SameModules(p, q)
                     PROVE  Owned(q, i)
BY DEF Owned, SameModules, Tracked

LEMMA WithStack == ASSUME NEW p, NEW s, Shape(p)
                   PROVE  SameModules(p, [p EXCEPT !.stack = s])
BY SMT DEF SameModules, Shape

LEMMA GetDescriptorOwned == ASSUME NEW p, NEW m
                            PROVE  GetDescriptor(p, m) \in Tracked(p) \cup {None}
BY DEF GetDescriptor, Tracked, Loaded

LEMMA OwnedFromParts ==
    ASSUME NEW q, NEW i, NEW D, NEW v, NEW w, Shape(q),
           q.descs = D, q.previous = v, q.cached = w, D \subseteq {i} \X Module,
           v \in {d \in D : d[2] \in Configured} \cup {None},
           w \in {d \in D : d[2] \in Configured} \cup {None}
    PROVE  Owned(q, i)
BY DEF Owned, Tracked

LEMMA OwnedWent == ASSUME NEW p, NEW i, NEW s, NEW told, Owned(p, i)
                   PROVE  Owned(Went(p, s, told), i)
<1> PICK q : q = [p EXCEPT !.stack = s]
  OBVIOUS
<1> PICK now : now = GetDescriptor(p, Home(Top(q)))
  OBVIOUS
<1> PICK r : r = [q EXCEPT !.previous = now, !.cached = now]
  OBVIOUS
<1>1. SameModules(p, q)
  BY DEF Owned, SameModules, Shape
<1>2. Owned(q, i)
  BY <1>1, SameIsOwned
<1>3. now \in Tracked(p) \cup {None}
  BY GetDescriptorOwned
<1>4. Shape(r) /\ r.descs = q.descs /\ r.previous = now /\ r.cached = now
  BY <1>2 DEF Owned, Shape
<1>5. Owned(r, i)
  BY <1>1, <1>3, <1>4 DEF Owned, SameModules, Tracked
<1> QED BY <1>2, <1>5 DEF Went

LEMMA OwnedJump == ASSUME NEW p, NEW i, NEW s, Owned(p, i)
                   PROVE  Owned(Jump(p, s), i)
BY OwnedWent DEF Jump

LEMMA OwnedInstead == ASSUME NEW p, NEW i, NEW f, Owned(p, i)
                      PROVE  Owned(Instead(p, f), i)
<1>1. SameModules(p, Instead(p, f))
  BY WithStack DEF Instead, Owned
<1> QED BY <1>1, SameIsOwned

LEMMA OwnedRegisterReturn == ASSUME NEW p, NEW i, NEW h, Owned(p, i)
                             PROVE  Owned(RegisterReturn(p, h), i)
<1>1. SameModules(p, RegisterReturn(p, h))
  BY SMT DEF Owned, SameModules, Shape, RegisterReturn
<1> QED BY <1>1, SameIsOwned

LEMMA OwnedEraseSp == ASSUME NEW p, NEW i, Owned(p, i)
                      PROVE  Owned(EraseSp(p), i)
<1>1. SameModules(p, EraseSp(p))
  BY SMT DEF Owned, SameModules, Shape, EraseSp
<1> QED BY <1>1, SameIsOwned

LEMMA WithRegions == ASSUME NEW p, NEW i, NEW R, Owned(p, i)
                     PROVE  Owned([p EXCEPT !.regions = R], i)
<1>1. SameModules(p, [p EXCEPT !.regions = R])
  BY SMT DEF Owned, SameModules, Shape
<1> QED BY <1>1, SameIsOwned

LEMMA OwnedGrantMemory == ASSUME NEW p, NEW i, NEW r, Owned(p, i)
                          PROVE  Owned(GrantMemory(p, r), i)
BY WithRegions DEF GrantMemory

LEMMA OwnedRevokeType == ASSUME NEW p, NEW i, NEW type, Owned(p, i)
                         PROVE  Owned(RevokeType(p, type), i)
BY WithRegions DEF RevokeType

LEMMA OwnedRevokeAt == ASSUME NEW p, NEW i, NEW a, Owned(p, i)
                       PROVE  Owned(RevokeAt(p, a), i)
BY WithRegions DEF RevokeAt

(* unloadDescriptor, unloadDescriptorsWithPid. *)
LEMMA OwnedUnloadDescriptors == ASSUME NEW p, NEW i, NEW ms, Owned(p, i)
                                PROVE  Owned(UnloadDescriptors(p, ms), i)
<1> DEFINE kept(d) == IF d # None /\ d[2] \in ms THEN None ELSE d
           D == {d \in p.descs : d[2] \notin ms}
           q == UnloadDescriptors(p, ms)
<1>1. Shape(q) /\ q.descs = D /\ q.previous = kept(p.previous) /\ q.cached = kept(p.cached)
  <2> PICK r : r = q
    OBVIOUS
  <2>1. r = [p EXCEPT !.descs = D, !.cached = kept(p.cached), !.previous = kept(p.previous)]
    BY DEF UnloadDescriptors
  <2> HIDE DEF q, D, kept
  <2> QED BY <2>1, ZenonT(20) DEF Owned, Shape
<1>2. \A d \in Tracked(p) \cup {None} : kept(d) \in {e \in D : e[2] \in Configured} \cup {None}
  BY DEF Tracked
<1> QED
  <2> HIDE DEF kept
  <2>1. kept(p.previous) \in {e \in D : e[2] \in Configured} \cup {None}
    BY <1>2 DEF Owned
  <2>2. kept(p.cached) \in {e \in D : e[2] \in Configured} \cup {None}
    BY <1>2 DEF Owned
  <2>3. D \subseteq {i} \X Module
    BY DEF Owned
  <2> HIDE DEF q, D
  <2>4. Owned(q, i)
    BY <1>1, <2>1, <2>2, <2>3, OwnedFromParts
  <2> QED BY <2>4 DEF q

(* ModuleTransitionState::clone. *)
LEMMA OwnedClone == ASSUME NEW p, NEW i, NEW j, Owned(p, i)
                    PROVE  Owned(Clone(p, j), j)
<1> DEFINE own(d) == IF d = None THEN None ELSE <<j, d[2]>>
           D == {own(d) : d \in p.descs}
           q == Clone(p, j)
<1>1. Shape(q) /\ q.descs = D /\ q.previous = own(p.previous) /\ q.cached = own(p.cached)
  <2> PICK r : r = q
    OBVIOUS
  <2>1. r = [p EXCEPT !.descs = D, !.previous = own(p.previous), !.cached = own(p.cached)]
    BY DEF Clone
  <2> HIDE DEF q, D, own
  <2> QED BY <2>1 DEF Owned, Shape
<1>2. \A d \in p.descs : d = <<i, d[2]>> /\ d # None /\ d[2] \in Module
  BY SMT DEF Owned, None
<1>3. D \subseteq {j} \X Module
  BY <1>2, SMT
<1>4. \A d \in Tracked(p) \cup {None} : own(d) \in {e \in D : e[2] \in Configured} \cup {None}
  BY <1>2 DEF Tracked
<1> QED
  <2> HIDE DEF own
  <2>1. own(p.previous) \in {e \in D : e[2] \in Configured} \cup {None}
    BY <1>4 DEF Owned
  <2>2. own(p.cached) \in {e \in D : e[2] \in Configured} \cup {None}
    BY <1>4 DEF Owned
  <2> HIDE DEF q, D
  <2>3. Owned(q, j)
    BY <1>1, <1>3, <2>1, <2>2, OwnedFromParts
  <2> QED BY <2>3 DEF q
-----------------------------------------------------------------------------
(* Return descriptors.  The stack s and the return descriptors R of a path *)
(* are paired, the outermost frame is the kernel's, and an annotated       *)
(* function of the kernel was called by the driver.                        *)

Paired(s, R) ==
    /\ s \in Seq(Frame) /\ Len(s) \in Depth /\ s[1] = "os"
    /\ R = [d \in Depth |-> R[d]]
    /\ \A d \in Depth : R[d] = IF d <= Len(s) /\ s[d] \in Watched THEN <<s[d]>> ELSE <<>>
    /\ \A d \in 1..Len(s) : s[d] \in {"alloc", "shared", "register"} =>
          \E e \in 1..Len(s) : e < d /\ Home(s[e]) = Driver

(* A call that is not annotated, or whose frame awaits no handler. *)
LEMMA PairedPush ==
    ASSUME NEW s, NEW R, Paired(s, R), NEW f \in Frame \ Watched, Len(s) < MaxDepth
    PROVE  Paired(Append(s, f), R)
<1> PICK t : t = Append(s, f)
  OBVIOUS
<1>1. /\ t \in Seq(Frame) /\ Len(t) = Len(s) + 1 /\ t[Len(t)] = f
      /\ \A d \in 1..Len(s) : t[d] = s[d]
  BY SMT DEF Paired
<1>2. Len(s) \in Nat /\ Len(s) >= 1 /\ Len(t) \in Depth
  BY <1>1, DriverAssumption, SMT DEF Paired, Depth
<1>3. \A d \in Depth : R[d] = IF d <= Len(t) /\ t[d] \in Watched THEN <<t[d]>> ELSE <<>>
  <2> TAKE d \in Depth
  <2>1. CASE d <= Len(s)
    BY <2>1, <1>1, <1>2, SMT DEF Paired, Depth
  <2>2. CASE d = Len(s) + 1
    BY <2>2, <1>1, <1>2, SMT DEF Paired, Depth
  <2>3. CASE d > Len(s) + 1
    BY <2>3, <1>1, <1>2, SMT DEF Paired, Depth
  <2> QED BY <2>1, <2>2, <2>3, <1>2, SMT DEF Depth
<1>4. ASSUME NEW d \in 1..Len(t), t[d] \in {"alloc", "shared", "register"}
      PROVE  \E e \in 1..Len(t) : e < d /\ Home(t[e]) = Driver
  <2>1. d \in 1..Len(s)
    BY <1>1, <1>2, <1>4, SMT DEF Watched
  <2>2. PICK e \in 1..Len(s) : e < d /\ Home(s[e]) = Driver
    BY <2>1, <1>1, <1>4 DEF Paired
  <2> QED BY <2>2, <1>1, <1>2, SMT
<1>5. t[1] = "os"
  BY <1>1, <1>2, SMT DEF Paired
<1> QED BY <1>1, <1>2, <1>3, <1>4, <1>5 DEF Paired

(* A call whose handler registers a return handler. *)
LEMMA PairedCall ==
    ASSUME NEW s, NEW R, Paired(s, R), NEW h \in Watched, Len(s) < MaxDepth,
           h \in {"alloc", "shared", "register"} => Home(s[Len(s)]) = Driver
    PROVE  Paired(Append(s, h), [R EXCEPT ![Len(s) + 1] = Append(@, h)])
<1> PICK t : t = Append(s, h)
  OBVIOUS
<1> PICK Q : Q = [R EXCEPT ![Len(s) + 1] = Append(@, h)]
  OBVIOUS
<1>1. /\ t \in Seq(Frame) /\ Len(t) = Len(s) + 1 /\ t[Len(t)] = h
      /\ \A d \in 1..Len(s) : t[d] = s[d]
  BY SMT DEF Paired, Frame
<1>2. Len(s) \in Nat /\ Len(s) >= 1 /\ Len(t) \in Depth
  BY <1>1, DriverAssumption, SMT DEF Paired, Depth
<1>3. R[Len(s) + 1] = <<>>
  BY <1>1, <1>2, SMT DEF Paired
<1>4. /\ Q = [d \in Depth |-> Q[d]] /\ Q[Len(s) + 1] = <<h>>
      /\ \A d \in Depth : d # Len(s) + 1 => Q[d] = R[d]
  <2>1. Append(<<>>, h) = <<h>>
    BY SMT
  <2>2. Q = [R EXCEPT ![Len(s) + 1] = <<h>>]
    BY <1>3, <2>1
  <2>3. R = [d \in Depth |-> R[d]] /\ Len(s) + 1 \in Depth
    BY <1>1, <1>2 DEF Paired
  <2> QED BY <2>2, <2>3
<1>5. \A d \in Depth : Q[d] = IF d <= Len(t) /\ t[d] \in Watched THEN <<t[d]>> ELSE <<>>
  <2> TAKE d \in Depth
  <2>1. CASE d <= Len(s)
    BY <2>1, <1>1, <1>2, <1>4, SMT DEF Paired, Depth
  <2>2. CASE d = Len(s) + 1
    BY <2>2, <1>1, <1>2, <1>4, SMT DEF Paired, Depth
  <2>3. CASE d > Len(s) + 1
    BY <2>3, <1>1, <1>2, <1>4, SMT DEF Paired, Depth
  <2> QED BY <2>1, <2>2, <2>3, <1>2, SMT DEF Depth
<1>6. ASSUME NEW d \in 1..Len(t), t[d] \in {"alloc", "shared", "register"}
      PROVE  \E e \in 1..Len(t) : e < d /\ Home(t[e]) = Driver
  <2>1. CASE d \in 1..Len(s)
    <3>1. PICK e \in 1..Len(s) : e < d /\ Home(s[e]) = Driver
      BY <2>1, <1>1, <1>6 DEF Paired
    <3> QED BY <3>1, <1>1, <1>2, SMT
  <2>2. CASE d = Len(s) + 1
    BY <2>2, <1>1, <1>2, <1>6, SMT
  <2> QED BY <2>1, <2>2, <1>1, <1>2, SMT
<1>7. t[1] = "os"
  BY <1>1, <1>2, SMT DEF Paired
<1> QED BY <1>1, <1>2, <1>4, <1>5, <1>6, <1>7 DEF Paired

(* A return, after the return descriptors at this esp are gone. *)
LEMMA PairedErasePop ==
    ASSUME NEW s, NEW R, Paired(s, R), Len(s) > 1
    PROVE  Paired(SubSeq(s, 1, Len(s) - 1), [R EXCEPT ![Len(s)] = <<>>])
<1> PICK t : t = SubSeq(s, 1, Len(s) - 1)
  OBVIOUS
<1> PICK Q : Q = [R EXCEPT ![Len(s)] = <<>>]
  OBVIOUS
<1>0. s \in Seq(Frame) /\ Len(s) \in Nat /\ Len(s) \in Depth
  BY DriverAssumption, SMT DEF Paired, Depth
<1>1. /\ t \in Seq(Frame) /\ Len(t) = Len(s) - 1
      /\ \A d \in 1..Len(t) : t[d] = s[d]
  BY <1>0, SMT
<1>2. Len(t) \in Nat /\ Len(t) >= 1 /\ Len(t) \in Depth
  BY <1>0, <1>1, DriverAssumption, SMT DEF Depth
<1>4. Q = [d \in Depth |-> Q[d]] /\ Q[Len(s)] = <<>> /\ \A d \in Depth : d # Len(s) => Q[d] = R[d]
  BY <1>0 DEF Paired
<1>5. \A d \in Depth : Q[d] = IF d <= Len(t) /\ t[d] \in Watched THEN <<t[d]>> ELSE <<>>
  <2> TAKE d \in Depth
  <2>1. CASE d <= Len(t)
    BY <2>1, <1>0, <1>1, <1>2, <1>4, SMT DEF Paired, Depth
  <2>2. CASE d = Len(s)
    BY <2>2, <1>0, <1>1, <1>2, <1>4, SMT DEF Paired, Depth
  <2>3. CASE d > Len(s)
    BY <2>3, <1>0, <1>1, <1>2, <1>4, SMT DEF Paired, Depth
  <2> QED BY <2>1, <2>2, <2>3, <1>0, <1>1, <1>2, SMT DEF Depth
<1>6. ASSUME NEW d \in 1..Len(t), t[d] \in {"alloc", "shared", "register"}
      PROVE  \E e \in 1..Len(t) : e < d /\ Home(t[e]) = Driver
  <2>1. PICK e \in 1..Len(s) : e < d /\ Home(s[e]) = Driver
    BY <1>0, <1>1, <1>6, SMT DEF Paired
  <2> QED BY <2>1, <1>0, <1>1, <1>2, SMT
<1>7. t[1] = "os"
  BY <1>1, <1>2, SMT DEF Paired
<1> QED BY <1>1, <1>2, <1>4, <1>5, <1>6, <1>7 DEF Paired

LEMMA PairedPop ==
    ASSUME NEW s, NEW R, Paired(s, R), Len(s) > 1, R[Len(s)] = <<>>
    PROVE  Paired(SubSeq(s, 1, Len(s) - 1), R)
<1>1. [R EXCEPT ![Len(s)] = <<>>] = R
  BY DEF Paired
<1> QED BY <1>1, PairedErasePop
-----------------------------------------------------------------------------
(* A path in order: what DescriptorsOwn and ReturnsPaired say of it. *)

PathOK(p, i) == Owned(p, i) /\ Paired(p.stack, p.rets)

(* q differs from p in neither its stack nor its return descriptors. *)
SameStack(p, q) == q.stack = p.stack /\ q.rets = p.rets

LEMMA SameIsOK == ASSUME NEW p, NEW q, NEW i, NEW j, PathOK(p, i), Owned(q, j), SameStack(p, q)
                  PROVE  PathOK(q, j)
BY DEF PathOK, SameStack

LEMMA WentFields == ASSUME NEW p, NEW s, NEW told, Shape(p)
                    PROVE  Went(p, s, told).stack = s /\ Went(p, s, told).rets = p.rets
<1> PICK q : q = [p EXCEPT !.stack = s]
  OBVIOUS
<1> PICK now : now = GetDescriptor(p, Home(Top(q)))
  OBVIOUS
<1> PICK r : r = [q EXCEPT !.previous = now, !.cached = now]
  OBVIOUS
<1>1. Shape(q) /\ q.stack = s /\ q.rets = p.rets
  BY DEF Shape
<1>2. r.stack = q.stack /\ r.rets = q.rets
  BY <1>1 DEF Shape
<1> QED BY <1>1, <1>2 DEF Went

LEMMA JumpFields == ASSUME NEW p, NEW s, Shape(p)
                    PROVE  Jump(p, s).stack = s /\ Jump(p, s).rets = p.rets
BY WentFields, SMT DEF Jump

LEMMA OkGrantMemory == ASSUME NEW p, NEW i, NEW r, PathOK(p, i)
                       PROVE  PathOK(GrantMemory(p, r), i) /\ SameStack(p, GrantMemory(p, r))
<1>1. SameStack(p, GrantMemory(p, r))
  BY DEF PathOK, Owned, Shape, SameStack, GrantMemory
<1>2. Owned(GrantMemory(p, r), i)
  BY OwnedGrantMemory DEF PathOK
<1> QED BY <1>1, <1>2, SameIsOK

LEMMA OkRevokeType == ASSUME NEW p, NEW i, NEW type, PathOK(p, i)
                      PROVE  PathOK(RevokeType(p, type), i)
<1>1. SameStack(p, RevokeType(p, type))
  BY DEF PathOK, Owned, Shape, SameStack, RevokeType
<1> QED BY <1>1, OwnedRevokeType, SameIsOK DEF PathOK

LEMMA OkRevokeAt == ASSUME NEW p, NEW i, NEW a, PathOK(p, i)
                    PROVE  PathOK(RevokeAt(p, a), i)
<1>1. SameStack(p, RevokeAt(p, a))
  BY DEF PathOK, Owned, Shape, SameStack, RevokeAt
<1> QED BY <1>1, OwnedRevokeAt, SameIsOK DEF PathOK

LEMMA OkUnload == ASSUME NEW p, NEW i, NEW ms, PathOK(p, i)
                  PROVE  /\ PathOK(UnloadDescriptors(p, ms), i)
                         /\ SameStack(p, UnloadDescriptors(p, ms))
<1>1. SameStack(p, UnloadDescriptors(p, ms))
  BY DEF PathOK, Owned, Shape, SameStack, UnloadDescriptors
<1> QED BY <1>1, OwnedUnloadDescriptors, SameIsOK DEF PathOK

LEMMA OkClone == ASSUME NEW p, NEW i, NEW j, PathOK(p, i)
                 PROVE  PathOK(Clone(p, j), j) /\ SameStack(p, Clone(p, j))
<1>1. SameStack(p, Clone(p, j))
  BY DEF PathOK, Owned, Shape, SameStack, Clone
<1>2. Owned(Clone(p, j), j)
  BY OwnedClone DEF PathOK
<1> QED BY <1>1, <1>2, SameIsOK

LEMMA OkHooks == ASSUME NEW p, NEW i, NEW H, PathOK(p, i)
                 PROVE  PathOK([p EXCEPT !.hooks = H], i)
<1> PICK q : q = [p EXCEPT !.hooks = H]
  OBVIOUS
<1>1. SameModules(p, q) /\ SameStack(p, q)
  BY DEF PathOK, Owned, Shape, SameModules, SameStack
<1> QED BY <1>1, SameIsOwned, SameIsOK DEF PathOK

LEMMA OkPushed ==
    ASSUME NEW p, NEW i, NEW f \in Frame \ Watched, NEW told, PathOK(p, i), Esp(p) < MaxDepth
    PROVE  PathOK(Went(p, Push(p, f), told), i)
<1>1. Owned(Went(p, Push(p, f), told), i)
  BY OwnedWent DEF PathOK
<1>2. Paired(Push(p, f), p.rets)
  BY PairedPush DEF PathOK, Push, Esp
<1> QED BY <1>1, <1>2, WentFields, SMT DEF PathOK, Owned

(* r is p after the call of h, up to what the handler granted or cloned. *)
LEMMA OkCalled ==
    ASSUME NEW p, NEW i, NEW h \in Watched, NEW j, NEW r, PathOK(p, i), Esp(p) < MaxDepth,
           h \in {"alloc", "shared", "register"} => Home(Top(p)) = Driver,
           Owned(r, j), r.stack = Push(p, h), r.rets = p.rets
    PROVE  PathOK(RegisterReturn(r, h), j)
<1> PICK q : q = RegisterReturn(r, h)
  OBVIOUS
<1>1. Owned(q, j)
  BY OwnedRegisterReturn
<1>2. Esp(r) = Esp(p) + 1
  BY SMT DEF Esp, Push, PathOK, Paired
<1>3. q.stack = r.stack /\ q.rets = [r.rets EXCEPT ![Esp(r)] = Append(@, h)]
  BY DEF RegisterReturn, Owned, Shape
<1>4. Paired(Append(p.stack, h), [p.rets EXCEPT ![Esp(p) + 1] = Append(@, h)])
  BY PairedCall DEF PathOK, Esp, Top
<1> QED BY <1>1, <1>2, <1>3, <1>4 DEF PathOK, Push

LEMMA OkReturned ==
    ASSUME NEW p, NEW i, PathOK(p, i), Esp(p) > 1, Pending(p) = <<>>
    PROVE  PathOK(Jump(p, Pop(p)), i)
<1>1. Paired(Pop(p), p.rets)
  BY PairedPop DEF PathOK, Pop, Esp, Pending
<1>2. Owned(Jump(p, Pop(p)), i)
  BY OwnedJump DEF PathOK
<1> QED BY <1>1, <1>2, JumpFields, SMT DEF PathOK, Owned

(* EraseSp, and a return from it. *)
LEMMA Erased ==
    ASSUME NEW p, NEW i, PathOK(p, i), Esp(p) > 1
    PROVE  /\ Owned(EraseSp(p), i) /\ EraseSp(p).stack = p.stack
           /\ Paired(Pop(p), EraseSp(p).rets) /\ Pop(EraseSp(p)) = Pop(p)
<1> PICK q : q = EraseSp(p)
  OBVIOUS
<1>1. Owned(q, i)
  BY OwnedEraseSp DEF PathOK
<1>2. q.stack = p.stack /\ q.rets = [p.rets EXCEPT ![Esp(p)] = <<>>]
  BY DEF EraseSp, PathOK, Owned, Shape
<1>3. Paired(Pop(p), q.rets)
  <2>1. Paired(SubSeq(p.stack, 1, Len(p.stack) - 1), [p.rets EXCEPT ![Len(p.stack)] = <<>>])
    BY PairedErasePop DEF PathOK, Esp
  <2> QED BY <1>2, <2>1 DEF Pop, Esp
<1> QED BY <1>1, <1>2, <1>3 DEF Pop, Esp

LEMMA OkErasedReturned ==
    ASSUME NEW p, NEW i, NEW q, PathOK(p, i), Esp(p) > 1,
           Owned(q, i), SameStack(EraseSp(p), q)
    PROVE  PathOK(Jump(q, Pop(p)), i)
<1>1. Owned(Jump(q, Pop(p)), i)
  BY OwnedJump
<1> QED BY <1>1, Erased, JumpFields, SMT DEF PathOK, Owned, SameStack

LEMMA OkErasedInstead ==
    ASSUME NEW p, NEW i, NEW f \in Frame \ Watched, PathOK(p, i), Esp(p) > 1
    PROVE  PathOK(Instead(EraseSp(p), f), i)
<1> PICK e : e = EraseSp(p)
  OBVIOUS
<1> PICK q : q = Instead(e, f)
  OBVIOUS
<1>1. Owned(e, i) /\ e.stack = p.stack /\ Paired(Pop(p), e.rets) /\ Pop(e) = Pop(p)
  BY Erased
<1>2. Owned(q, i)
  BY <1>1, OwnedInstead
<1>3. q.stack = Append(Pop(p), f) /\ q.rets = e.rets
  BY <1>1 DEF Instead, Owned, Shape
<1>4. Len(Pop(p)) < MaxDepth
  BY DriverAssumption, SMT DEF PathOK, Paired, Pop, Esp, Depth
<1>5. Paired(Append(Pop(p), f), e.rets)
  BY <1>1, <1>4, PairedPush
<1> QED BY <1>2, <1>3, <1>5 DEF PathOK

(* bypassFunction: the frame that was just pushed is replaced. *)
LEMMA OkBypassed ==
    ASSUME NEW p, NEW i, NEW h \in Watched, NEW f \in Frame \ Watched, PathOK(p, i),
           Esp(p) < MaxDepth
    PROVE  PathOK(Instead(Jump(p, Push(p, h)), f), i)
<1> PICK r : r = Jump(p, Push(p, h))
  OBVIOUS
<1> PICK q : q = Instead(r, f)
  OBVIOUS
<1>1. Owned(r, i) /\ r.stack = Push(p, h) /\ r.rets = p.rets
  BY OwnedJump, JumpFields DEF PathOK, Owned
<1>2. Owned(q, i)
  BY <1>1, OwnedInstead
<1>3. q.stack = Append(Pop(r), f) /\ q.rets = r.rets
  BY <1>1 DEF Instead, Owned, Shape
<1>4. Pop(r) = p.stack
  <2>1. p.stack \in Seq(Frame) /\ h \in Frame
    BY DEF PathOK, Paired, Frame
  <2>2. SubSeq(Append(p.stack, h), 1, Len(Append(p.stack, h)) - 1) = p.stack
    BY <2>1, SMT
  <2> QED BY <1>1, <2>2 DEF Pop, Esp, Push
<1>5. Paired(Append(p.stack, f), p.rets)
  BY PairedPush DEF PathOK, Esp
<1> QED BY <1>1, <1>2, <1>3, <1>4, <1>5 DEF PathOK
-----------------------------------------------------------------------------
Inv == /\ st = [i \in Path |-> st[i]]
       /\ cur \in Path \cup {Nil}
       /\ \A i \in Path : PathOK(st[i], i)

LEMMA FreshOK == ASSUME NEW i PROVE PathOK(Fresh, i)
<1> PICK p : p = Fresh
  OBVIOUS
<1>1. Owned(p, i) /\ p.stack = <<"os">> /\ p.rets = NoReturns
  BY DEF Fresh, Owned, Shape, Tracked
<1>2. <<"os">> \in Seq(Frame) /\ Len(<<"os">>) = 1 /\ <<"os">>[1] = "os" /\ 1 \in Depth
  BY DriverAssumption, SMT DEF Frame, Depth
<1>3. Paired(<<"os">>, NoReturns)
  BY <1>2, SMT DEF Paired, NoReturns, Watched, Depth
<1> QED BY <1>1, <1>3 DEF PathOK

LEMMA InitInv == Init => Inv
BY FreshOK, DriverAssumption, SMT DEF Init, Inv, Path, Nil

LEMMA GoOnInv == ASSUME Inv, cur \in Path, NEW q, PathOK(q, cur), GoOn(q)
                 PROVE  Inv'
BY DEF Inv, GoOn, paths

LEMMA ForkIntoInv == ASSUME Inv, cur \in Path, NEW q, NEW r, PathOK(q, cur),
                            PathOK(r, nextPath), ForkInto(q, r)
                     PROVE  Inv'
BY DEF Inv, ForkInto

LEMMA TerminateInv == ASSUME Inv, cur \in Path, NEW q, TerminateAs(q)
                      PROVE  Inv'
BY FreshOK DEF Inv, TerminateAs

LEMMA SucceedInv == ASSUME Inv, cur \in Path, NEW q, PathOK(q, cur), SucceedAs(q)
                    PROVE  Inv'
BY DEF Inv, SucceedAs

LEMMA StepInv == ASSUME Inv, cur \in Path, NEW q, PathOK(q, cur),
                        st' = [st EXCEPT ![cur] = q], cur' = cur
                 PROVE  Inv'
BY DEF Inv

(* Loads and unloads. *)
LEMMA LoadingInv == ASSUME Inv, Loading PROVE Inv'
<1>0. cur \in Path /\ PathOK(st[cur], cur)
  BY DEF Inv, Loading, OnModuleLoad, OnModuleUnload, GetModule, OnDriverUnload, OnProcessUnload
<1>1. ASSUME NEW m \in Module, OnModuleLoad(m) PROVE Inv'
  <2> PICK p : p = st[cur]
    OBVIOUS
  <2> PICK H : H = IF m = Driver /\ ~loadedModules THEN p.hooks \cup {"entry", "imports"} ELSE p.hooks
    OBVIOUS
  <2> PICK q : q = [p EXCEPT !.descs = @ \cup {<<cur, m>>}, !.base = @ \/ m = Driver, !.hooks = H]
    OBVIOUS
  <2>1. st' = [st EXCEPT ![cur] = q] /\ cur' = cur
    BY <1>1 DEF OnModuleLoad, paths
  <2>2. /\ Shape(q) /\ q.descs = p.descs \cup {<<cur, m>>}
        /\ q.previous = p.previous /\ q.cached = p.cached /\ SameStack(p, q)
    BY <1>0 DEF PathOK, Owned, Shape, SameStack
  <2>3. Owned(q, cur)
    BY <1>0, <2>2, SMT DEF PathOK, Owned, Tracked
  <2>4. PathOK(q, cur)
    BY <1>0, <2>2, <2>3, SameIsOK
  <2> QED BY <1>0, <2>1, <2>4, StepInv
<1>2. ASSUME NEW m \in Module, OnModuleUnload(m) PROVE Inv'
  <2> PICK q : q = UnloadDescriptors(st[cur], {m})
    OBVIOUS
  <2>1. st' = [st EXCEPT ![cur] = q] /\ cur' = cur
    BY <1>2 DEF OnModuleUnload, paths
  <2>2. PathOK(q, cur)
    BY <1>0, OkUnload
  <2> QED BY <1>0, <2>1, <2>2, StepInv
<1>3. ASSUME NEW m \in Module, GetModule(m) PROVE Inv'
  <2> PICK p : p = st[cur]
    OBVIOUS
  <2> PICK d : d = GetDescriptor(p, m)
    OBVIOUS
  <2> PICK q : q = [p EXCEPT !.cached = d]
    OBVIOUS
  <2>1. st' = [st EXCEPT ![cur] = q] /\ cur' = cur
    BY <1>3 DEF GetModule, paths
  <2>2. Shape(q) /\ q.descs = p.descs /\ q.previous = p.previous /\ q.cached = d /\ SameStack(p, q)
    BY <1>0 DEF PathOK, Owned, Shape, SameStack
  <2>3. Owned(q, cur)
    BY <1>0, <2>2, GetDescriptorOwned, SMTT(30) DEF PathOK, Owned, Tracked
  <2>4. PathOK(q, cur)
    BY <1>0, <2>2, <2>3, SameIsOK
  <2> QED BY <1>0, <2>1, <2>4, StepInv
<1>4. ASSUME OnDriverUnload PROVE Inv'
  <2> PICK u : u = UnloadDescriptors(st[cur], {Driver})
    OBVIOUS
  <2> PICK v : v = [u EXCEPT !.base = FALSE]
    OBVIOUS
  <2> PICK q : q = Disconnect(v)
    OBVIOUS
  <2>1. PathOK(u, cur)
    BY <1>0, OkUnload
  <2>2. SameModules(u, v) /\ SameStack(u, v)
    BY <2>1 DEF PathOK, Owned, Shape, SameModules, SameStack
  <2>3. PathOK(v, cur)
    BY <2>1, <2>2, SameIsOwned, SameIsOK DEF PathOK
  <2>4. PathOK(q, cur)
    BY <2>3, OkHooks DEF Disconnect
  <2>5. Terminate \/ (st' = [st EXCEPT ![cur] = q] /\ cur' = cur)
    BY <1>4 DEF OnDriverUnload
  <2> QED BY <1>0, <2>4, <2>5, StepInv, TerminateInv DEF Terminate
<1>5. ASSUME OnProcessUnload PROVE Inv'
  <2> PICK p : p = UnloadDescriptors(st[cur], {App})
    OBVIOUS
  <2> PICK q : q = [p EXCEPT !.stack = <<"os">>]
    OBVIOUS
  <2>1. PathOK(p, cur) /\ SameStack(st[cur], p)
    BY <1>0, OkUnload
  <2>2. CASE InModule(p, App)
    <3>1. SameModules(p, q) /\ q.rets = p.rets /\ q.stack = <<"os">>
      BY <2>1, SMTT(30) DEF PathOK, Owned, Shape, SameModules
    <3>2. Owned(q, cur)
      BY <2>1, <3>1, SameIsOwned DEF PathOK
    <3>3. ~InModule(p, Driver) /\ Paired(p.stack, p.rets)
      <4>1. \A m : InModule(st[cur], m) <=> InModule(p, m)
        BY <2>1 DEF SameStack, InModule, Esp
      <4>2. ~(InModule(st[cur], App) /\ InModule(st[cur], Driver))
        BY <1>5 DEF OnProcessUnload
      <4> QED BY <2>1, <2>2, <4>1, <4>2 DEF PathOK
    <3>4. \A d \in 1..Len(p.stack) : p.stack[d] \notin Watched
      <4> SUFFICES ASSUME NEW d \in 1..Len(p.stack), p.stack[d] \in Watched PROVE FALSE
        OBVIOUS
      <4>1. CASE p.stack[d] \in {"alloc", "shared", "register"}
        BY <3>3, <4>1 DEF Paired, InModule, Esp
      <4>2. CASE p.stack[d] \in {"entry", "init", "halt"}
        BY <3>3, <4>2 DEF InModule, Esp, Home
      <4> QED BY <4>1, <4>2 DEF Watched
    <3>5. \A d \in Depth : p.rets[d] = <<>>
      <4> TAKE d \in Depth
      <4>1. Len(p.stack) \in Nat /\ d \in Nat /\ d >= 1
        BY <3>3, DriverAssumption, SMT DEF Paired, Depth
      <4>2. d <= Len(p.stack) => d \in 1..Len(p.stack)
        BY <4>1, SMTT(30)
      <4>3. ~(d <= Len(p.stack) /\ p.stack[d] \in Watched)
        BY <3>4, <4>2
      <4> QED BY <3>3, <4>3 DEF Paired
    <3>6. p.rets = NoReturns
      BY <3>3, <3>5 DEF Paired, NoReturns
    <3>7. Paired(q.stack, q.rets)
      BY <3>1, <3>6, FreshOK DEF PathOK, Fresh
    <3>8. st' = [st EXCEPT ![cur] = q] /\ cur' = cur
      BY <1>5, <2>2 DEF OnProcessUnload, paths
    <3>9. PathOK(q, cur)
      BY <3>2, <3>7 DEF PathOK
    <3> QED BY <1>0, <3>8, <3>9, StepInv
  <2>3. CASE ~InModule(p, App)
    <3>1. st' = [st EXCEPT ![cur] = p] /\ cur' = cur
      BY <1>5, <2>3 DEF OnProcessUnload, paths
    <3> QED BY <1>0, <2>1, <3>1, StepInv
  <2> QED BY <2>2, <2>3
<1> QED BY <1>1, <1>2, <1>3, <1>4, <1>5 DEF Loading

(* The call of f from the running path, as far as the handler found it. *)
LEMMA Pushed == ASSUME NEW p, NEW i, NEW f, PathOK(p, i)
                PROVE  /\ Owned(Jump(p, Push(p, f)), i)
                       /\ Jump(p, Push(p, f)).stack = Push(p, f)
                       /\ Jump(p, Push(p, f)).rets = p.rets
BY OwnedJump, JumpFields DEF PathOK, Owned

LEMMA OkPlainCall ==
    ASSUME NEW p, NEW i, NEW f \in Frame \ Watched, PathOK(p, i), Esp(p) < MaxDepth
    PROVE  PathOK(Jump(p, Push(p, f)), i)
BY OkPushed DEF Jump

(* GrantMemory on the way from the call to RegisterReturn. *)
LEMMA OwnedGranted ==
    ASSUME NEW p, NEW i, NEW r, Owned(p, i)
    PROVE  Owned(GrantMemory(p, r), i) /\ SameStack(p, GrantMemory(p, r))
<1>1. SameStack(p, GrantMemory(p, r))
  BY DEF Owned, Shape, SameStack, GrantMemory
<1> QED BY <1>1, OwnedGrantMemory

LEMMA OwnedCloned ==
    ASSUME NEW p, NEW i, NEW j, Owned(p, i)
    PROVE  Owned(Clone(p, j), j) /\ SameStack(p, Clone(p, j))
<1>1. SameStack(p, Clone(p, j))
  BY DEF Owned, Shape, SameStack, Clone
<1> QED BY <1>1, OwnedClone

LEMMA Frames == /\ {"os", "work", "app", "isr", "quiet"} = Frame \ Watched
                /\ {"entry", "init", "halt", "alloc", "shared", "register"} = Watched
BY DEF Frame, Watched

(* A call of a handler that only registers its return. *)
LEMMA OkHandlerCall ==
    ASSUME NEW p, NEW i, NEW h \in {"init", "halt"}, PathOK(p, i), Esp(p) < MaxDepth
    PROVE  PathOK(RegisterReturn(Jump(p, Push(p, h)), h), i)
<1>1. PICK r : r = Jump(p, Push(p, h))
  OBVIOUS
<1>2. Owned(r, i) /\ r.stack = Push(p, h) /\ r.rets = p.rets
  BY <1>1, Pushed
<1>3. h \in Watched /\ h \notin {"alloc", "shared", "register"}
  BY Frames
<1>4. PathOK(RegisterReturn(r, h), i)
  BY <1>2, <1>3, OkCalled
<1> QED BY <1>1, <1>4

LEMMA CallingInv == ASSUME Inv, Calling PROVE Inv'
<1>0. cur \in Path /\ PathOK(st[cur], cur) /\ Esp(st[cur]) < MaxDepth
  BY DEF Inv, Calling, Call, DriverEntryPoint, InitializeHandler, HaltHandler, NdisFreeMemory,
         NdisMRegisterMiniport, NdisAllocateMemory, NdisMAllocateSharedMemory,
         Hooked, Imported, Room
<1> PICK p : p = st[cur]
  OBVIOUS
<1>a. ASSUME Imported PROVE Home(Top(p)) = Driver
  BY <1>a DEF Imported
<1>1. ASSUME NEW f \in {"work", "app", "os"}, Call(f) PROVE Inv'
  <2> PICK q : q = Jump(p, Push(p, f))
    OBVIOUS
  <2>1. PathOK(q, cur)
    BY <1>0, Frames, OkPlainCall
  <2>2. GoOn(q)
    BY <1>1 DEF Call
  <2> QED BY <1>0, <2>1, <2>2, GoOnInv
<1>2. ASSUME DriverEntryPoint PROVE Inv'
  <2> PICK a : a = Jump(p, Push(p, "entry"))
    OBVIOUS
  <2> PICK b : b = GrantMemory(GrantMemory(a, EntryArgs), TickCount)
    OBVIOUS
  <2> PICK q : q = RegisterReturn(b, "entry")
    OBVIOUS
  <2>1. Owned(b, cur) /\ SameStack(a, b)
    BY <1>0, Pushed, OwnedGranted, SMT DEF SameStack
  <2>2. PathOK(q, cur)
    <3>1. b.stack = Push(p, "entry") /\ b.rets = p.rets
      BY <1>0, <2>1, Pushed, SMTT(30) DEF SameStack
    <3>2. "entry" \in Watched
      BY DEF Watched
    <3> QED BY <1>0, <2>1, <3>1, <3>2, OkCalled
  <2>3. GoOn(q)
    BY <1>2 DEF DriverEntryPoint
  <2> QED BY <1>0, <2>2, <2>3, GoOnInv
<1>3. ASSUME InitializeHandler PROVE Inv'
  <2> PICK a : a = RegisterReturn(Jump(p, Push(p, "init")), "init")
    OBVIOUS
  <2>1. PICK n \in 0..1 : GoOn(GrantMemory(a, MediumArray(n)))
    BY <1>3 DEF InitializeHandler
  <2> PICK q : q = GrantMemory(a, MediumArray(n))
    OBVIOUS
  <2>2. PathOK(a, cur)
    BY <1>0, OkHandlerCall
  <2>3. PathOK(q, cur)
    BY <2>2, OkGrantMemory
  <2> QED BY <1>0, <2>1, <2>3, GoOnInv
<1>4. ASSUME HaltHandler PROVE Inv'
  <2> PICK q : q = RegisterReturn(Jump(p, Push(p, "halt")), "halt")
    OBVIOUS
  <2>1. PathOK(q, cur)
    BY <1>0, OkHandlerCall
  <2>2. GoOn(q)
    BY <1>4 DEF HaltHandler
  <2> QED BY <1>0, <2>1, <2>2, GoOnInv
<1>5. ASSUME NdisMRegisterMiniport PROVE Inv'
  <2> PICK a : a = Jump(p, Push(p, "os"))
    OBVIOUS
  <2> PICK b : b = Jump(p, Push(p, "register"))
    OBVIOUS
  <2> PICK c : c = RegisterReturn(b, "register")
    OBVIOUS
  <2>1. Imported /\ \E r \in {a, c}, points \in {{}, {"miniport"}} :
                       GoOn([r EXCEPT !.hooks = @ \cup points])
    BY <1>5 DEF NdisMRegisterMiniport
  <2>2. PICK r \in {a, c}, points \in {{}, {"miniport"}} :
             GoOn([r EXCEPT !.hooks = @ \cup points])
    BY <2>1
  <2> PICK q : q = [r EXCEPT !.hooks = @ \cup points]
    OBVIOUS
  <2>3. PathOK(a, cur)
    BY <1>0, Frames, OkPlainCall
  <2>4. /\ Owned(b, cur) /\ b.stack = Push(p, "register") /\ b.rets = p.rets
        /\ "register" \in Watched
    BY <1>0, Pushed, SMT DEF Watched
  <2>5. PathOK(c, cur)
    BY <1>0, <1>a, <2>1, <2>4, OkCalled
  <2>6. PathOK(q, cur)
    BY <2>2, <2>3, <2>5, OkHooks
  <2> QED BY <1>0, <2>2, <2>6, GoOnInv
<1>6. ASSUME NdisAllocateMemory PROVE Inv'
  <2> PICK a : a = Jump(p, Push(p, "alloc"))
    OBVIOUS
  <2> PICK q : q = RegisterReturn(a, "alloc")
    OBVIOUS
  <2> PICK s : s = Instead(a, "os")
    OBVIOUS
  <2> PICK c : c = Clone(a, nextPath)
    OBVIOUS
  <2> PICK r : r = RegisterReturn(c, "alloc")
    OBVIOUS
  <2>1. Home(Top(p)) = Driver /\ (GoOn(q) \/ ForkInto(s, r))
    BY <1>6, <1>a DEF NdisAllocateMemory
  <2>0. Owned(a, cur) /\ a.stack = Push(p, "alloc") /\ a.rets = p.rets /\ "alloc" \in Watched
    BY <1>0, Pushed, SMTT(30) DEF Watched
  <2>2. PathOK(q, cur)
    BY <1>0, <2>0, <2>1, OkCalled
  <2>3. PathOK(s, cur)
    BY <1>0, Frames, OkBypassed
  <2>4. Owned(c, nextPath) /\ SameStack(a, c)
    BY <1>0, Pushed, OwnedCloned
  <2>5. PathOK(r, nextPath)
    <3>1. c.stack = Push(p, "alloc") /\ c.rets = p.rets
      BY <2>0, <2>4 DEF SameStack
    <3> QED BY <1>0, <2>0, <2>1, <2>4, <3>1, OkCalled
  <2> QED BY <1>0, <2>1, <2>2, <2>3, <2>5, GoOnInv, ForkIntoInv
<1>7. ASSUME NdisMAllocateSharedMemory PROVE Inv'
  <2> PICK a : a = Jump(p, Push(p, "shared"))
    OBVIOUS
  <2> PICK q : q = RegisterReturn(a, "shared")
    OBVIOUS
  <2>1. Home(Top(p)) = Driver /\ GoOn(q)
    BY <1>7, <1>a DEF NdisMAllocateSharedMemory
  <2>2. Owned(a, cur) /\ a.stack = Push(p, "shared") /\ a.rets = p.rets /\ "shared" \in Watched
    BY <1>0, Pushed, SMT DEF Watched
  <2>3. PathOK(q, cur)
    BY <1>0, <2>1, <2>2, OkCalled
  <2> QED BY <1>0, <2>1, <2>3, GoOnInv
<1>8. ASSUME NdisFreeMemory PROVE Inv'
  <2> PICK a : a = Jump(p, Push(p, "os"))
    OBVIOUS
  <2>1. PathOK(a, cur)
    BY <1>0, Frames, OkPlainCall
  <2>2. ASSUME NEW g \in a.regions, GoOn(RevokeAt(a, g.start)) PROVE Inv'
    <3> PICK q : q = RevokeAt(a, g.start)
      OBVIOUS
    <3>1. PathOK(q, cur)
      BY <2>1, OkRevokeAt
    <3> QED BY <1>0, <2>2, <3>1, GoOnInv
  <2>3. ASSUME TerminateAs(a) PROVE Inv'
    BY <1>0, <2>3, TerminateInv
  <2> QED BY <1>8, <2>2, <2>3, SMTT(30) DEF NdisFreeMemory
<1> QED BY <1>1, <1>2, <1>3, <1>4, <1>5, <1>6, <1>7, <1>8, SMTT(30) DEF Calling

(* A frame that awaits a return handler is not the outermost one. *)
LEMMA PendingIsInner == ASSUME NEW p, NEW i, PathOK(p, i), Pending(p) # <<>>
                        PROVE  Esp(p) > 1
<1>1. Len(p.stack) \in Depth /\ Len(p.stack) \in Nat /\ Len(p.stack) >= 1
  BY DriverAssumption, SMTT(30) DEF PathOK, Paired, Depth
<1>2. p.stack[Len(p.stack)] \in Watched
  BY <1>1 DEF PathOK, Paired, Pending, Esp
<1>3. p.stack[1] \notin Watched
  BY DEF PathOK, Paired, Watched
<1> QED BY <1>1, <1>2, <1>3, SMT DEF Esp

LEMMA ReturnedInv == ASSUME Inv, Returned PROVE Inv'
<1>0. cur \in Path /\ PathOK(st[cur], cur)
  BY DEF Inv, Returned, Return, DriverEntryPointRet, InitializeHandlerRet, HaltHandlerRet,
         NdisMRegisterMiniportRet, NdisAllocateMemoryRet, NdisMAllocateSharedMemoryRet,
         Iret, Returning
<1> PICK p : p = st[cur]
  OBVIOUS
<1>a. ASSUME NEW h, Returning(h) PROVE Esp(p) > 1
  BY <1>a, <1>0, PendingIsInner DEF Returning
<1>b. ASSUME Failed PROVE Inv'
  BY <1>b, <1>0, TerminateInv DEF Failed, Terminate
<1>c. ASSUME NEW type, Esp(p) > 1, Succeeded(p, type) PROVE Inv'
  <2> PICK a : a = RevokeType(p, type)
    OBVIOUS
  <2> PICK q : q = Instead(EraseSp(a), "work")
    OBVIOUS
  <2>1. PathOK(a, cur)
    BY <1>0, OkRevokeType
  <2>2. Esp(a) = Esp(p)
    BY <1>0 DEF RevokeType, Esp, PathOK, Owned, Shape
  <2>3. PathOK(q, cur)
    BY <1>c, <2>1, <2>2, Frames, OkErasedInstead
  <2>4. SucceedAs(q)
    BY <1>c DEF Succeeded
  <2> QED BY <1>0, <2>3, <2>4, SucceedInv
<1>1. ASSUME Return PROVE Inv'
  <2> PICK q : q = Jump(p, Pop(p))
    OBVIOUS
  <2>1. GoOn(q) /\ Esp(p) > 1 /\ Pending(p) = <<>>
    BY <1>1 DEF Return
  <2>2. PathOK(q, cur)
    BY <1>0, <2>1, OkReturned
  <2> QED BY <1>0, <2>1, <2>2, GoOnInv
<1>2. ASSUME DriverEntryPointRet PROVE Inv'
  BY <1>2, <1>a, <1>b, <1>c DEF DriverEntryPointRet
<1>3. ASSUME InitializeHandlerRet PROVE Inv'
  BY <1>3, <1>a, <1>b, <1>c DEF InitializeHandlerRet
<1>4. ASSUME HaltHandlerRet PROVE Inv'
  BY <1>4, <1>b DEF HaltHandlerRet
<1>5. ASSUME NdisAllocateMemoryRet PROVE Inv'
  <2>1. PICK g \in {p, GrantMemory(p, PoolBlock)} : GoOn(Jump(EraseSp(g), Pop(g)))
    BY <1>5 DEF NdisAllocateMemoryRet
  <2> PICK q : q = Jump(EraseSp(g), Pop(g))
    OBVIOUS
  <2>2. PathOK(g, cur) /\ SameStack(p, g)
    BY <1>0, OkGrantMemory, SMTT(30) DEF SameStack
  <2>3. Esp(g) > 1
    BY <1>5, <1>a, <2>2 DEF NdisAllocateMemoryRet, SameStack, Esp
  <2>4. Owned(EraseSp(g), cur) /\ SameStack(EraseSp(g), EraseSp(g))
    BY <2>2, <2>3, Erased DEF SameStack
  <2>5. PathOK(q, cur)
    BY <2>2, <2>3, <2>4, OkErasedReturned
  <2> QED BY <1>0, <2>1, <2>5, GoOnInv
<1>6. ASSUME NdisMAllocateSharedMemoryRet PROVE Inv'
  <2> PICK e : e = EraseSp(p)
    OBVIOUS
  <2> PICK g : g = GrantMemory(e, DmaBlock)
    OBVIOUS
  <2> PICK a : a = Jump(e, Pop(e))
    OBVIOUS
  <2> PICK b : b = Jump(g, Pop(e))
    OBVIOUS
  <2> PICK o : o = OtherAfterRet(p, nextPath)
    OBVIOUS
  <2> PICK og : og = GrantMemory(o, DmaBlock)
    OBVIOUS
  <2>1. GoOn(a) \/ ForkInto(b, o) \/ ForkInto(a, og)
    BY <1>6 DEF NdisMAllocateSharedMemoryRet
  <2>2. Esp(p) > 1
    BY <1>6, <1>a DEF NdisMAllocateSharedMemoryRet
  <2>3. Owned(e, cur) /\ Pop(e) = Pop(p)
    BY <1>0, <2>2, Erased
  <2>4. PathOK(a, cur)
    BY <1>0, <2>2, <2>3, OkErasedReturned DEF SameStack
  <2>5. Owned(g, cur) /\ SameStack(e, g)
    BY <2>3, OwnedGranted
  <2>6. PathOK(b, cur)
    BY <1>0, <2>2, <2>3, <2>5, OkErasedReturned
  <2>7. PathOK(o, nextPath)
    <3> PICK c : c = Clone(p, nextPath)
      OBVIOUS
    <3>1. PathOK(c, nextPath) /\ Esp(c) = Esp(p)
      BY <1>0, OkClone, SMT DEF SameStack, Esp
    <3> QED BY <2>2, <3>1, Frames, OkErasedInstead DEF OtherAfterRet
  <2>8. PathOK(og, nextPath)
    BY <2>7, OkGrantMemory
  <2> QED BY <1>0, <2>1, <2>4, <2>6, <2>7, <2>8, GoOnInv, ForkIntoInv
<1>7. ASSUME Iret PROVE Inv'
  <2> PICK q : q = Jump(p, Pop(p))
    OBVIOUS
  <2>1. GoOn(q) /\ Top(p) \in {"isr", "quiet"}
    BY <1>7 DEF Iret
  <2>2. Len(p.stack) \in Depth /\ Len(p.stack) \in Nat /\ Len(p.stack) >= 1
    BY <1>0, DriverAssumption, SMTT(30) DEF PathOK, Paired, Depth
  <2>3. Esp(p) > 1
    BY <1>0, <2>1, <2>2, SMTT(30) DEF PathOK, Paired, Top, Esp
  <2>4. Pending(p) = <<>>
    BY <1>0, <2>1, <2>2 DEF PathOK, Paired, Top, Esp, Pending, Watched
  <2>5. PathOK(q, cur)
    BY <1>0, <2>3, <2>4, OkReturned
  <2> QED BY <1>0, <2>1, <2>5, GoOnInv
<1>8. ASSUME NdisMRegisterMiniportRet PROVE Inv'
  <2> PICK e : e = EraseSp(p)
    OBVIOUS
  <2> PICK q : q = Jump(e, Pop(p))
    OBVIOUS
  <2>1. GoOn(q) /\ Esp(p) > 1
    BY <1>8, <1>a DEF NdisMRegisterMiniportRet
  <2>2. Owned(e, cur)
    BY <1>0, <2>1, Erased
  <2>3. PathOK(q, cur)
    BY <1>0, <2>1, <2>2, OkErasedReturned DEF SameStack
  <2> QED BY <1>0, <2>1, <2>3, GoOnInv
<1> QED BY <1>1, <1>2, <1>3, <1>4, <1>5, <1>6, <1>7, <1>8 DEF Returned

LEMMA NextInv == ASSUME Inv, [Next]_vars PROVE Inv'
<1>1. CASE Loading
  BY <1>1, LoadingInv
<1>2. CASE Calling
  BY <1>2, CallingInv
<1>3. CASE Returned
  BY <1>3, ReturnedInv
<1>4. CASE Fork
  <2> PICK q : q = st[cur]
    OBVIOUS
  <2> PICK r : r = Clone(q, nextPath)
    OBVIOUS
  <2>1. cur \in Path /\ PathOK(q, cur) /\ ForkInto(q, r)
    BY <1>4 DEF Fork, Inv
  <2>2. PathOK(r, nextPath)
    BY <2>1, OkClone
  <2> QED BY <2>1, <2>2, ForkIntoInv
<1>5. ASSUME NEW f \in {"isr", "quiet"}, Interrupt(f) PROVE Inv'
  <2> PICK p : p = st[cur]
    OBVIOUS
  <2> PICK told : told = (f = "isr")
    OBVIOUS
  <2> PICK q : q = Went(p, Push(p, f), told)
    OBVIOUS
  <2>1. cur \in Path /\ PathOK(p, cur) /\ Esp(p) < MaxDepth /\ GoOn(q)
    BY <1>5 DEF Interrupt, Room, Inv
  <2>2. PathOK(q, cur)
    BY <2>1, Frames, OkPushed
  <2> QED BY <2>1, <2>2, GoOnInv
<1>6. CASE BadAccess
  BY <1>6, TerminateInv DEF BadAccess, Failed, Terminate, Inv
<1>7. CASE ResumeSucceeded
  BY <1>7 DEF ResumeSucceeded, Inv
<1>8. ASSUME NEW i \in Path, Switch(i) PROVE Inv'
  BY <1>8 DEF Switch, Inv
<1>9. CASE UNCHANGED vars
  BY <1>9 DEF vars, paths, Inv
<1> QED BY <1>1, <1>2, <1>3, <1>4, <1>5, <1>6, <1>7, <1>8, <1>9 DEF Next

LEMMA InvImplies == Inv => DescriptorsOwn /\ ReturnsPaired
<1> SUFFICES ASSUME Inv, NEW i \in Path, PathOK(st[i], i)
             PROVE  /\ \A d \in st[i].descs : d[1] = i
                    /\ {st[i].previous, st[i].cached} \subseteq
                          {d \in st[i].descs : d[2] \in Configured} \cup {None}
                    /\ \A d \in Depth :
                          st[i].rets[d] = IF d <= Esp(st[i]) /\ st[i].stack[d] \in Watched
                                          THEN <<st[i].stack[d]>> ELSE <<>>
  BY DEF Inv, DescriptorsOwn, ReturnsPaired
<1>1. Owned(st[i], i) /\ Paired(st[i].stack, st[i].rets)
  BY DEF PathOK
<1>2. \A d \in Depth : st[i].rets[d] = IF d <= Esp(st[i]) /\ st[i].stack[d] \in Watched
                                       THEN <<st[i].stack[d]>> ELSE <<>>
  BY <1>1 DEF Paired, Esp
<1> QED BY <1>1, <1>2 DEF Owned, Tracked

(* For any number of paths, modules and nested calls: the module that a    *)
(* path caches or was last reported in is one of its own descriptors.      *)
THEOREM DescriptorsAreOwn == Spec => []DescriptorsOwn
<1>1. Spec => []Inv
  BY InitInv, NextInv, PTL DEF Spec
<1> QED BY <1>1, InvImplies, PTL

(* For any number of paths, modules and nested calls: calls and return     *)
(* handlers are paired on every path, whatever is forked, bypassed,        *)
(* suspended or unloaded in between, as long as a handler registers its    *)
(* return on the path it was called for.                                   *)
THEOREM CallsAreReturned == Spec => []ReturnsPaired
<1>1. Spec => []Inv
  BY InitInv, NextInv, PTL DEF Spec
<1> QED BY <1>1, InvImplies, PTL
-----------------------------------------------------------------------------
(* MemoryChecker *)

Apart(q, r) == q.start + q.size <= r.start \/ r.start + r.size <= q.start

Disjoint(R) == /\ \A q, r \in R : q # r => Apart(q, r)
               /\ \A r \in R : r.size > 0

(* If the granted regions are disjoint, checkMemoryAccess, which looks only *)
(* at the region with the largest start below the access, decides exactly  *)
(* whether one region contains all of it.                                  *)
THEOREM AccessCheckIsExact ==
    ASSUME NEW R \in SUBSET Region, Disjoint(R), NEW a \in Nat, NEW n \in Nat \ {0}
    PROVE  CheckMemoryAccess(R, a, n) <=>
              \E r \in R : r.start <= a /\ a + n <= r.start + r.size
<1>1. ASSUME NEW r \in R, r.start <= a, a + n <= r.start + r.size
      PROVE  r \in LookupPrevious(R, a)
  <2> SUFFICES ASSUME NEW q \in R, q.start <= a, q # r PROVE q.start <= r.start
    BY <1>1, SMT DEF LookupPrevious, Region
  <2>1. /\ q.start \in Nat /\ q.size \in Nat /\ r.start \in Nat /\ r.size \in Nat
    BY DEF Region
  <2>2. Apart(q, r)
    BY DEF Disjoint
  <2> QED BY <1>1, <2>1, <2>2, SMT DEF Apart
<1> QED BY <1>1 DEF CheckMemoryAccess, LookupPrevious

(* The region that lookup_previous finds exists if any starts at or below. *)
LEMMA LookupPreviousFinds ==
    ASSUME NEW R \in SUBSET Region, NEW a \in Nat, NEW q \in R, q.start <= a
    PROVE  \E r \in LookupPrevious(R, a) : q.start <= r.start
<1> DEFINE B == {a - r.start : r \in {r \in R : r.start <= a}}
<1>1. \A r \in R : r.start \in Nat
  BY DEF Region
<1>2. B \subseteq Nat /\ B # {}
  <2>1. \A r \in R : r.start <= a => a - r.start \in Nat
    BY <1>1, SMT
  <2> QED BY <2>1
<1>3. PICK k \in B : \A m \in B : k <= m
  <2> HIDE DEF B
  <2>1. PICK k \in B : \A m \in B : ~(<<m, k>> \in OpToRel(<, Nat))
    BY <1>2, NatLessThanWellFounded, WFMin
  <2>2. \A m \in B : ~(m < k)
    BY <1>2, <2>1 DEF OpToRel
  <2> QED BY <1>2, <2>2, SMT
<1>4. PICK r \in R : r.start <= a /\ k = a - r.start
  BY <1>3
<1>5. \A s \in R : s.start <= a => s.start <= r.start
  <2> TAKE s \in R
  <2> HAVE s.start <= a
  <2>1. a - s.start \in B
    OBVIOUS
  <2>2. a - r.start <= a - s.start
    BY <1>3, <1>4, <2>1, SMTT(30)
  <2> QED BY <1>1, <2>2, SMT
<1> QED BY <1>4, <1>5 DEF LookupPrevious

Contains(r, a) == r.start <= a /\ a < r.start + r.size

(* What grantMemory compares.  It looks up the region at or below the      *)
(* start of the new one, and so refuses a region exactly if its first byte *)
(* is granted already.  The granted regions stay disjoint exactly if that  *)
(* happens or if no region starts inside the new one: a region that begins *)
(* in a gap and runs into the next region is added over it.                *)
THEOREM GrantComparesFirstByte ==
    ASSUME NEW p, NEW i, Owned(p, i), p.regions \in SUBSET Region, Disjoint(p.regions),
           NEW g \in Region, g.size > 0
    PROVE  LET taken == \E q \in p.regions : Contains(q, g.start)
               R == GrantMemory(p, g).regions
           IN /\ R = IF taken THEN p.regions ELSE p.regions \cup {g}
              /\ Disjoint(R) <=> taken \/ \A q \in p.regions : ~Contains(g, q.start)
<1> PICK R : R = p.regions
  OBVIOUS
<1> PICK Q : Q = GrantMemory(p, g).regions
  OBVIOUS
<1> DEFINE taken == \E q \in R : Contains(q, g.start)
<1>0. \A q \in R : q.start \in Nat /\ q.size \in Nat
  BY DEF Region
<1>g. g.start \in Nat /\ g.size \in Nat
  BY DEF Region
<1>d. /\ \A q \in R : q.size > 0
      /\ \A q, r \in R : q # r => Apart(q, r)
  BY DEF Disjoint
<1>1. (\E q \in LookupPrevious(R, g.start) : q.start + q.size > g.start) <=> taken
  <2>1. ASSUME NEW q \in LookupPrevious(R, g.start), q.start + q.size > g.start PROVE taken
    <3>1. q \in R /\ q.start <= g.start
      BY DEF LookupPrevious
    <3>2. Contains(q, g.start)
      BY <1>0, <1>g, <2>1, <3>1, SMT DEF Contains
    <3> QED BY <3>1, <3>2
  <2>2. ASSUME NEW q \in R, Contains(q, g.start)
        PROVE  \E r \in LookupPrevious(R, g.start) : r.start + r.size > g.start
    <3>1. PICK r \in LookupPrevious(R, g.start) : q.start <= r.start
      BY <1>g, <2>2, LookupPreviousFinds DEF Contains
    <3>2. r \in R /\ r.start <= g.start
      BY DEF LookupPrevious
    <3>3. CASE q = r
      BY <1>0, <1>g, <2>2, <3>3, SMT DEF Contains
    <3>4. CASE q # r
      <4>1. Apart(q, r) /\ r.size > 0
        BY <1>d, <3>2, <3>4
      <4> QED BY <1>0, <1>g, <2>2, <3>1, <3>2, <4>1, SMTT(30) DEF Contains, Apart
    <3> QED BY <3>3, <3>4
  <2> QED BY <2>1, <2>2
<1>2. Q = IF taken THEN R ELSE R \cup {g}
  <2>1. g.size # 0
    BY <1>g, SMT
  <2> HIDE DEF taken
  <2> QED BY <1>1, <2>1 DEF GrantMemory, Owned, Shape
<1>3. ASSUME ~taken PROVE \A q \in R : Apart(q, g) <=> ~Contains(g, q.start)
  <2> TAKE q \in R
  <2>1. ~Contains(q, g.start) /\ q.size > 0
    BY <1>3, <1>d
  <2> QED BY <1>0, <1>g, <2>1, SMTT(30) DEF Contains, Apart
<1>4. ASSUME ~taken PROVE g \notin R
  <2>1. Contains(g, g.start)
    BY <1>g, SMT DEF Contains
  <2> QED BY <1>4, <2>1
<1>5. Disjoint(Q) <=> taken \/ \A q \in R : ~Contains(g, q.start)
  <2>1. CASE taken
    BY <1>2, <2>1
  <2>2. CASE ~taken
    <3>1. Q = R \cup {g} /\ g \notin R
      BY <1>2, <1>4, <2>2
    <3>2. \A q \in R : Apart(q, g) <=> Apart(g, q)
      BY DEF Apart
    <3> HIDE DEF taken
    <3>3. ASSUME Disjoint(Q) PROVE \A q \in R : ~Contains(g, q.start)
      BY <1>3, <2>2, <3>1, <3>3 DEF Disjoint
    <3>4. ASSUME \A q \in R : ~Contains(g, q.start) PROVE Disjoint(Q)
      BY <1>3, <1>d, <2>2, <3>1, <3>2, <3>4 DEF Disjoint
    <3> QED BY <2>2, <3>3, <3>4
  <2> QED BY <2>1, <2>2
<1> QED BY <1>2, <1>5

(* What such an overlap does.  After a grant that was accepted, an access  *)
(* to a byte of the new region is reported, although it is granted, if and *)
(* only if an older region begins and ends between the start of the new    *)
(* one and that byte, and no older region contains the byte:               *)
(* checkMemoryAccess then finds that older region, and looks no further.   *)
THEOREM OverlapHidesGrant ==
    ASSUME NEW p, NEW i, Owned(p, i), p.regions \in SUBSET Region, Disjoint(p.regions),
           NEW g \in Region, g \in GrantMemory(p, g).regions \ p.regions,
           NEW a \in Nat, Contains(g, a)
    PROVE  ~CheckMemoryAccess(GrantMemory(p, g).regions, a, 1) <=>
              /\ \E s \in p.regions : g.start < s.start /\ s.start + s.size <= a
              /\ \A u \in p.regions : ~Contains(u, a)
<1> PICK R : R = p.regions
  OBVIOUS
<1> PICK Q : Q = GrantMemory(p, g).regions
  OBVIOUS
<1>0. \A q \in R : q.start \in Nat /\ q.size \in Nat
  BY DEF Region
<1>g. g.start \in Nat /\ g.size \in Nat /\ g.start <= a /\ a < g.start + g.size
  BY DEF Region, Contains
<1>d. /\ \A q \in R : q.size > 0
      /\ \A q, r \in R : q # r => Apart(q, r)
  BY DEF Disjoint
<1>1. Q = R \cup {g} /\ \A q \in R : ~Contains(q, g.start)
  <2>1. g.size > 0
    BY <1>g, SMT
  <2>2. Q = IF \E q \in R : Contains(q, g.start) THEN R ELSE R \cup {g}
    BY <2>1, GrantComparesFirstByte
  <2> QED BY <2>2
<1>2. Q \in SUBSET Region
  BY <1>1
<1>3. ASSUME NEW s \in R, g.start < s.start, s.start + s.size <= a,
             \A u \in R : ~Contains(u, a), NEW r \in LookupPrevious(Q, a)
      PROVE  ~(a + 1 <= r.start + r.size)
  <2>1. s \in Q /\ s.start <= a
    BY <1>0, <1>1, <1>3, SMT
  <2>2. r \in Q /\ r.start <= a /\ s.start <= r.start
    BY <2>1 DEF LookupPrevious
  <2>3. r \in R
    BY <1>0, <1>1, <1>3, <1>g, <2>2, SMT
  <2>4. ~Contains(r, a)
    BY <1>3, <2>3
  <2> QED BY <1>0, <2>2, <2>3, <2>4, SMT DEF Contains
<1>4. ASSUME \A r \in LookupPrevious(Q, a) : ~(a + 1 <= r.start + r.size)
      PROVE  /\ \E s \in R : g.start < s.start /\ s.start + s.size <= a
             /\ \A u \in R : ~Contains(u, a)
  <2>1. PICK r \in LookupPrevious(Q, a) : g.start <= r.start
    BY <1>1, <1>2, <1>g, LookupPreviousFinds
  <2>2. r \in Q /\ r.start <= a /\ ~(a + 1 <= r.start + r.size)
    BY <1>4 DEF LookupPrevious
  <2>3. r \in R
    <3>1. r # g
      BY <1>g, <2>2, SMT
    <3> QED BY <1>1, <2>2, <3>1
  <2>4. r.size > 0 /\ ~Contains(r, g.start)
    BY <1>1, <1>d, <2>3
  <2>5. g.start < r.start /\ r.start + r.size <= a
    BY <1>0, <1>g, <2>1, <2>2, <2>3, <2>4, SMT DEF Contains
  <2>6. ASSUME NEW u \in R, Contains(u, a) PROVE FALSE
    <3>1. u.start <= a /\ a < u.start + u.size
      BY <2>6 DEF Contains
    <3>2. u.start <= r.start
      BY <1>1, <3>1 DEF LookupPrevious
    <3>3. u # r
      BY <1>0, <2>3, <2>5, <3>1, SMT
    <3>4. Apart(u, r)
      BY <1>d, <2>3, <3>3
    <3> QED BY <1>0, <2>3, <2>4, <2>5, <3>1, <3>2, <3>4, SMT DEF Apart
  <2> QED BY <2>3, <2>5, <2>6
<1> QED BY <1>3, <1>4 DEF CheckMemoryAccess
-----------------------------------------------------------------------------
(* What a path was told.  Here is the descriptor that getDescriptor finds  *)
(* for m in the descriptors D of path i.  Where nothing is announced, in   *)
(* interrupts, the module reported last is the one that was interrupted,   *)
(* or none.                                                                *)

Here(D, i, m) == IF m \in Configured /\ <<i, m>> \in D THEN <<i, m>> ELSE None

Told(s, D, v, i) ==
    /\ s[Len(s)] # "quiet" => v = Here(D, i, Home(s[Len(s)]))
    /\ \/ v = None
       \/ \E d \in 1..Len(s) : /\ \A e \in 1..Len(s) : e > d => s[e] = "quiet"
                               /\ v = Here(D, i, Home(s[d]))

Stack(s) == s \in Seq(Frame) /\ Len(s) \in Nat /\ Len(s) >= 1

LEMMA GetDescriptorIs ==
    ASSUME NEW p, NEW i, p.descs \subseteq {i} \X Module, NEW m
    PROVE  /\ GetDescriptor(p, m) = Here(p.descs, i, m)
           /\ Loaded(p, m) <=> <<i, m>> \in p.descs
<1>1. \A d \in p.descs : d = <<i, d[2]>>
  BY SMT
<1>2. Loaded(p, m) <=> <<i, m>> \in p.descs
  BY <1>1 DEF Loaded
<1>3. ASSUME <<i, m>> \in p.descs PROVE (CHOOSE d \in p.descs : d[2] = m) = <<i, m>>
  <2>1. \E d \in p.descs : d[2] = m
    BY <1>3
  <2>2. (CHOOSE d \in p.descs : d[2] = m) \in p.descs /\ (CHOOSE d \in p.descs : d[2] = m)[2] = m
    BY <2>1
  <2> QED BY <1>1, <2>2
<1> QED BY <1>2, <1>3 DEF GetDescriptor, Here

LEMMA KernelHasNone == ASSUME NEW D, NEW i PROVE Here(D, i, Kernel) = None
BY DEF Here, Configured, Kernel, Driver, App

LEMMA ToldNow ==
    ASSUME NEW s, Stack(s), NEW D, NEW i
    PROVE  Told(s, D, Here(D, i, Home(s[Len(s)])), i)
BY SMT DEF Told, Stack

LEMMA ToldNone ==
    ASSUME NEW s, NEW D, NEW i, Here(D, i, Home(s[Len(s)])) = None
    PROVE  Told(s, D, None, i)
BY DEF Told

LEMMA Appended ==
    ASSUME NEW s, Stack(s), NEW f \in Frame
    PROVE  /\ Stack(Append(s, f)) /\ Len(Append(s, f)) = Len(s) + 1
           /\ Append(s, f)[Len(s) + 1] = f /\ \A d \in 1..Len(s) : Append(s, f)[d] = s[d]
BY SMT DEF Stack

LEMMA Popped ==
    ASSUME NEW s, Stack(s), Len(s) > 1, NEW t, t = SubSeq(s, 1, Len(s) - 1)
    PROVE  Stack(t) /\ Len(t) = Len(s) - 1 /\ \A d \in 1..Len(t) : t[d] = s[d]
BY SMT DEF Stack

(* An interrupt that is not announced. *)
LEMMA ToldQuiet ==
    ASSUME NEW s, Stack(s), NEW D, NEW v, NEW i, Told(s, D, v, i), NEW t, t = Append(s, "quiet")
    PROVE  Told(t, D, v, i)
<1>1. /\ Stack(t) /\ Len(t) = Len(s) + 1 /\ t[Len(t)] = "quiet"
      /\ \A d \in 1..Len(s) : t[d] = s[d]
  BY Appended, SMT DEF Frame
<1>2. ASSUME v # None
      PROVE  \E d \in 1..Len(t) : /\ \A e \in 1..Len(t) : e > d => t[e] = "quiet"
                                  /\ v = Here(D, i, Home(t[d]))
  <2>1. PICK d \in 1..Len(s) : /\ \A e \in 1..Len(s) : e > d => s[e] = "quiet"
                               /\ v = Here(D, i, Home(s[d]))
    BY <1>2 DEF Told
  <2>2. d \in 1..Len(t) /\ t[d] = s[d]
    BY <1>1, SMT DEF Stack
  <2>3. ASSUME NEW e \in 1..Len(t), e > d PROVE t[e] = "quiet"
    BY <1>1, <2>1, <2>3, SMT DEF Stack
  <2> QED BY <2>1, <2>2, <2>3
<1> QED BY <1>1, <1>2 DEF Told

(* A return where neither side is of interest. *)
LEMMA ToldReturn ==
    ASSUME NEW s, Stack(s), Len(s) > 1, NEW D, NEW v, NEW i, Told(s, D, v, i),
           NEW t, t = SubSeq(s, 1, Len(s) - 1),
           Here(D, i, Home(s[Len(s)])) = None, Here(D, i, Home(t[Len(t)])) = None
    PROVE  Told(t, D, v, i)
<1>1. Stack(t) /\ Len(t) = Len(s) - 1 /\ \A d \in 1..Len(t) : t[d] = s[d]
  BY Popped
<1>2. CASE v = None
  BY <1>2, ToldNone
<1>3. CASE v # None
  <2>1. PICK d \in 1..Len(s) : /\ \A e \in 1..Len(s) : e > d => s[e] = "quiet"
                               /\ v = Here(D, i, Home(s[d]))
    BY <1>3 DEF Told
  <2>2. d # Len(s)
    BY <1>3, <2>1
  <2>3. d \in 1..Len(t) /\ t[d] = s[d] /\ d \in Nat
    BY <1>1, <2>2, SMT DEF Stack
  <2>4. \A e \in 1..Len(t) : e > d => t[e] = "quiet"
    BY <1>1, <2>1, SMT DEF Stack
  <2>5. t[Len(t)] = "quiet"
    <3>1. d # Len(t)
      BY <1>3, <2>1, <2>3
    <3>2. Len(t) \in 1..Len(t) /\ Len(t) > d
      BY <1>1, <2>3, <3>1, SMTT(30) DEF Stack
    <3> QED BY <2>4, <3>2
  <2> QED BY <2>1, <2>3, <2>4, <2>5 DEF Told
<1> QED BY <1>2, <1>3

(* The kernel changes the descriptors; what was reported last is forgotten *)
(* or still tracked.                                                       *)
LEMMA ToldDescs ==
    ASSUME NEW s, Stack(s), Home(s[Len(s)]) = Kernel, NEW D, NEW v, NEW i, Told(s, D, v, i),
           NEW E, NEW w \in {v, None}, w # None => w \in E
    PROVE  Told(s, E, w, i)
<1>1. CASE w = None
  BY <1>1, ToldNone, KernelHasNone
<1>2. CASE w # None
  <2>1. w = v /\ v \in E
    BY <1>2
  <2>2. s[Len(s)] = "quiet"
    BY <1>2, <2>1, KernelHasNone DEF Told
  <2>3. PICK d \in 1..Len(s) : /\ \A e \in 1..Len(s) : e > d => s[e] = "quiet"
                               /\ v = Here(D, i, Home(s[d]))
    BY <1>2, <2>1 DEF Told
  <2>4. v = Here(E, i, Home(s[d]))
    BY <1>2, <2>1, <2>3 DEF Here
  <2> QED BY <2>1, <2>2, <2>3, <2>4 DEF Told
<1> QED BY <1>1, <1>2

(* ModuleTransitionState::clone. *)
OwnedBy(j, d) == IF d = None THEN None ELSE <<j, d[2]>>

LEMMA ToldClone ==
    ASSUME NEW s, NEW i, NEW j, NEW D, NEW v, Told(s, D, v, i),
           NEW E, \A m : <<j, m>> \in E <=> <<i, m>> \in D,
           NEW w, w = OwnedBy(j, v)
    PROVE  Told(s, E, w, j)
<1>1. ASSUME NEW m, v = Here(D, i, m) PROVE w = Here(E, j, m)
  BY <1>1 DEF Here, None, OwnedBy
<1>2. v = None => w = None
  BY DEF OwnedBy
<1> QED BY <1>1, <1>2 DEF Told

(* Memory granted for the time of a call goes with the frame of the call. *)
Args(s, R) ==
    \A r \in R : /\ r \in Region
                 /\ r.type \in {"entry", "init"} => \E d \in 1..Len(s) : s[d] = r.type

LEMMA ArgsPush == ASSUME NEW s, Stack(s), NEW f \in Frame, NEW R, Args(s, R)
                  PROVE  Args(Append(s, f), R)
<1> PICK t : t = Append(s, f)
  OBVIOUS
<1>1. Len(t) = Len(s) + 1 /\ \A d \in 1..Len(s) : t[d] = s[d]
  BY Appended
<1>2. Args(t, R)
  BY <1>1, SMT DEF Args, Stack
<1> QED BY <1>2

LEMMA ArgsPop ==
    ASSUME NEW s, Stack(s), Len(s) > 1, NEW R, Args(s, R), NEW t, t = SubSeq(s, 1, Len(s) - 1),
           \A r \in R : r.type \in {"entry", "init"} => r.type # s[Len(s)]
    PROVE  Args(t, R)
<1>1. Len(t) = Len(s) - 1 /\ \A d \in 1..Len(t) : t[d] = s[d]
  BY Popped
<1> SUFFICES ASSUME NEW r \in R, r.type \in {"entry", "init"}
             PROVE  \E d \in 1..Len(t) : t[d] = r.type
  BY DEF Args
<1>2. PICK d \in 1..Len(s) : s[d] = r.type
  BY DEF Args
<1>3. d # Len(s)
  BY <1>2
<1>4. d \in 1..Len(t)
  BY <1>1, <1>3, SMT DEF Stack
<1> QED BY <1>1, <1>2, <1>4
-----------------------------------------------------------------------------
Kept(p, i) ==
    /\ Told(p.stack, p.descs, p.previous, i)
    /\ p.hooks \cap {"entry", "miniport"} # {} => <<i, Driver>> \in p.descs
    /\ <<i, Driver>> \in p.descs => p.base
    /\ Args(p.stack, p.regions)

SameBut(p, q) == q.descs = p.descs /\ q.hooks = p.hooks /\ q.base = p.base

LEMMA PathStack == ASSUME NEW p, NEW i, PathOK(p, i) PROVE Stack(p.stack)
BY DriverAssumption, SMT DEF PathOK, Paired, Stack, Depth

LEMMA KeptFresh == ASSUME NEW i PROVE Kept(Fresh, i)
<1> PICK p : p = Fresh
  OBVIOUS
<1>1. p.stack = <<"os">> /\ p.descs = {} /\ p.previous = None /\ p.hooks = {} /\ p.regions = {}
  BY DEF Fresh
<1>2. Home(p.stack[Len(p.stack)]) = Kernel
  BY <1>1, SMT DEF Home
<1>3. Told(p.stack, p.descs, p.previous, i)
  BY <1>1, <1>2, ToldNone, KernelHasNone
<1>4. Kept(p, i)
  BY <1>1, <1>3 DEF Kept, Args
<1> QED BY <1>4

(* A path goes on with the stack s, and is told so or is not. *)
Moved(p, s) == [p EXCEPT !.stack = s]
Reported(p, s) == LET r == Moved(p, s)
                      now == GetDescriptor(p, Home(Top(r)))
                  IN [r EXCEPT !.previous = now, !.cached = now]

LEMMA MovedFields ==
    ASSUME NEW p, NEW i, NEW s, Owned(p, i)
    PROVE  /\ Moved(p, s).stack = s /\ SameBut(p, Moved(p, s))
           /\ Moved(p, s).regions = p.regions /\ Moved(p, s).previous = p.previous
           /\ Shape(Moved(p, s))
BY SMT DEF Moved, Owned, Shape, SameBut

LEMMA ReportedFields ==
    ASSUME NEW p, NEW i, NEW s, Owned(p, i)
    PROVE  /\ Reported(p, s).stack = s /\ SameBut(p, Reported(p, s))
           /\ Reported(p, s).regions = p.regions
           /\ Reported(p, s).previous = Here(p.descs, i, Home(s[Len(s)]))
<1> PICK r : r = Moved(p, s)
  OBVIOUS
<1> PICK now : now = GetDescriptor(p, Home(Top(r)))
  OBVIOUS
<1> PICK q : q = [r EXCEPT !.previous = now, !.cached = now]
  OBVIOUS
<1>1. /\ Shape(r) /\ r.stack = s /\ SameBut(p, r) /\ r.regions = p.regions
  BY MovedFields, SMT
<1>2. now = Here(p.descs, i, Home(s[Len(s)]))
  BY <1>1, GetDescriptorIs DEF Owned, Top, Esp
<1>3. q.stack = r.stack /\ SameBut(r, q) /\ q.regions = r.regions /\ q.previous = now
  BY <1>1 DEF Shape, SameBut
<1>4. q = Reported(p, s)
  BY DEF Reported
<1> QED BY <1>1, <1>2, <1>3, <1>4 DEF SameBut

LEMMA JumpIs ==
    ASSUME NEW p, NEW s
    PROVE  Jump(p, s) = IF Announced(p, Home(s[Len(s)])) THEN Reported(p, s) ELSE Moved(p, s)
BY DEF Jump, Went, Reported, Moved

LEMMA AnnouncedIs ==
    ASSUME NEW p, NEW i, Owned(p, i), NEW m
    PROVE  Announced(p, m) <=> \/ Here(p.descs, i, Home(p.stack[Len(p.stack)])) # None
                               \/ Here(p.descs, i, m) # None
BY GetDescriptorIs DEF Announced, Owned, Top, Esp

(* A call, from code that is told where it is or into a loaded module. *)
LEMMA KeptCall ==
    ASSUME NEW p, NEW i, NEW f \in Frame \ {"quiet"}, Owned(p, i), Stack(p.stack), Kept(p, i),
           Top(p) # "quiet" \/ (Home(f) = Driver /\ Loaded(p, Driver)),
           NEW q, q = Jump(p, Push(p, f))
    PROVE  Kept(q, i)
<1>0. PICK t : t = Append(p.stack, f)
  OBVIOUS
<1>1. Stack(t) /\ Len(t) = Len(p.stack) + 1 /\ t[Len(t)] = f
  BY <1>0, Appended, SMT
<1>2. q = IF Announced(p, Home(f)) THEN Reported(p, t) ELSE Moved(p, t)
  BY <1>0, <1>1, JumpIs DEF Push
<1>3. q.stack = t /\ SameBut(p, q) /\ q.regions = p.regions
  BY <1>2, MovedFields, ReportedFields, SMT
<1>4. Told(t, p.descs, q.previous, i)
  <2>1. CASE Announced(p, Home(f))
    <3>1. q.previous = Here(p.descs, i, Home(f))
      BY <1>1, <1>2, <2>1, ReportedFields, SMT
    <3> QED BY <1>1, <3>1, ToldNow
  <2>2. CASE ~Announced(p, Home(f))
    <3>0. q.previous = p.previous
      BY <1>2, <2>2, MovedFields, SMTT(30)
    <3>1. /\ Here(p.descs, i, Home(p.stack[Len(p.stack)])) = None
          /\ Here(p.descs, i, Home(f)) = None
      BY <2>2, AnnouncedIs
    <3>2. p.stack[Len(p.stack)] # "quiet"
      <4>1. ~(Home(f) = Driver /\ Loaded(p, Driver))
        BY <3>1, GetDescriptorIs DEF Owned, Here, Configured, None
      <4> QED BY <4>1 DEF Top, Esp
    <3>3. p.previous = None
      BY <3>1, <3>2 DEF Kept, Told
    <3> QED BY <1>1, <3>0, <3>1, <3>3, ToldNone
  <2> QED BY <2>1, <2>2
<1>5. Args(t, p.regions)
  BY <1>0, ArgsPush DEF Kept
<1> QED BY <1>3, <1>4, <1>5 DEF Kept, SameBut

LEMMA KeptInterrupt ==
    ASSUME NEW p, NEW i, NEW f \in {"isr", "quiet"}, PathOK(p, i), Kept(p, i),
           NEW q, q = Went(p, Push(p, f), f = "isr")
    PROVE  Kept(q, i)
<1>a. PICK t : t = Append(p.stack, f)
  OBVIOUS
<1>0. Stack(p.stack) /\ Owned(p, i) /\ f \in Frame
  BY PathStack DEF PathOK, Frame
<1>1. Stack(t) /\ Len(t) = Len(p.stack) + 1 /\ t[Len(t)] = f
  BY <1>0, <1>a, Appended, SMT
<1>2. q = IF f = "isr" THEN Reported(p, t) ELSE Moved(p, t)
  BY <1>a DEF Went, Push, Reported, Moved
<1>3. q.stack = t /\ SameBut(p, q) /\ q.regions = p.regions
  BY <1>0, <1>2, MovedFields, ReportedFields, SMT
<1>4. Told(t, p.descs, q.previous, i)
  <2>1. CASE f = "isr"
    <3>1. q.previous = Here(p.descs, i, Home(t[Len(t)]))
      BY <1>0, <1>2, <2>1, ReportedFields, SMT
    <3> QED BY <1>1, <3>1, ToldNow
  <2>2. CASE f = "quiet"
    <3>1. q.previous = p.previous
      BY <1>0, <1>2, <2>2, MovedFields, SMTT(30)
    <3> QED BY <1>0, <2>2, <3>1, <1>a, ToldQuiet DEF Kept
  <2> QED BY <2>1, <2>2
<1>5. Args(t, p.regions)
  BY <1>0, <1>a, ArgsPush DEF Kept
<1> QED BY <1>3, <1>4, <1>5 DEF Kept, SameBut

(* A return from a function whose arguments were not granted. *)
LEMMA KeptReturn ==
    ASSUME NEW p, NEW i, Owned(p, i), Stack(p.stack), Kept(p, i), Esp(p) > 1,
           Top(p) \notin {"entry", "init"}, NEW q, q = Jump(p, Pop(p))
    PROVE  Kept(q, i)
<1> PICK s : s = p.stack
  OBVIOUS
<1>0. PICK t : t = SubSeq(s, 1, Len(s) - 1)
  OBVIOUS
<1>1. Len(s) > 1 /\ Stack(s) /\ s[Len(s)] \notin {"entry", "init"}
  BY DEF Esp, Top
<1>2. Stack(t) /\ Len(t) = Len(s) - 1
  BY <1>0, <1>1, Popped
<1>3. q = IF Announced(p, Home(t[Len(t)])) THEN Reported(p, t) ELSE Moved(p, t)
  BY <1>0, JumpIs DEF Pop, Esp
<1>4. q.stack = t /\ SameBut(p, q) /\ q.regions = p.regions
  BY <1>3, MovedFields, ReportedFields, SMT
<1>5. Told(t, p.descs, q.previous, i)
  <2>1. CASE Announced(p, Home(t[Len(t)]))
    <3>1. q.previous = Here(p.descs, i, Home(t[Len(t)]))
      BY <1>3, <2>1, ReportedFields, SMT
    <3> QED BY <1>2, <3>1, ToldNow
  <2>2. CASE ~Announced(p, Home(t[Len(t)]))
    <3>1. q.previous = p.previous
      BY <1>3, <2>2, MovedFields, SMTT(30)
    <3>2. Here(p.descs, i, Home(s[Len(s)])) = None /\ Here(p.descs, i, Home(t[Len(t)])) = None
      BY <2>2, AnnouncedIs
    <3> QED BY <1>0, <1>1, <3>1, <3>2, ToldReturn DEF Kept
  <2> QED BY <2>1, <2>2
<1>6. Args(t, p.regions)
  BY <1>0, <1>1, ArgsPop DEF Kept
<1> QED BY <1>4, <1>5, <1>6 DEF Kept, SameBut

(* Operations on the regions and on the return descriptors. *)
LEMMA KeptRegions ==
    ASSUME NEW p, NEW i, Kept(p, i), NEW q, SameBut(p, q), q.stack = p.stack,
           q.previous = p.previous, Args(p.stack, q.regions)
    PROVE  Kept(q, i)
BY DEF Kept, SameBut

LEMMA KeptRegisterReturn ==
    ASSUME NEW p, NEW i, Owned(p, i), Kept(p, i), NEW h
    PROVE  Kept(RegisterReturn(p, h), i)
<1> PICK q : q = RegisterReturn(p, h)
  OBVIOUS
<1>1. /\ SameBut(p, q) /\ q.stack = p.stack /\ q.previous = p.previous /\ q.regions = p.regions
  BY DEF RegisterReturn, Owned, Shape, SameBut
<1>2. Kept(q, i)
  BY <1>1, KeptRegions DEF Kept
<1> QED BY <1>2

LEMMA KeptEraseSp ==
    ASSUME NEW p, NEW i, Owned(p, i), Kept(p, i)
    PROVE  Kept(EraseSp(p), i) /\ EraseSp(p).regions = p.regions
<1> PICK q : q = EraseSp(p)
  OBVIOUS
<1>1. /\ SameBut(p, q) /\ q.stack = p.stack /\ q.previous = p.previous /\ q.regions = p.regions
  BY DEF EraseSp, Owned, Shape, SameBut
<1>2. Kept(q, i)
  BY <1>1, KeptRegions DEF Kept
<1> QED BY <1>1, <1>2

(* Only the regions of p change to R. *)
LEMMA WithRegionsFields ==
    ASSUME NEW p, NEW i, Owned(p, i), NEW R, NEW q, q = [p EXCEPT !.regions = R]
    PROVE  SameBut(p, q) /\ q.stack = p.stack /\ q.previous = p.previous /\ q.regions = R
BY DEF Owned, Shape, SameBut

LEMMA KeptGrant ==
    ASSUME NEW p, NEW i, Owned(p, i), Kept(p, i), NEW g \in Region,
           g.type \in {"entry", "init"} => \E d \in 1..Len(p.stack) : p.stack[d] = g.type
    PROVE  Kept(GrantMemory(p, g), i)
<1>0. PICK R : R = p.regions \cup {g}
  OBVIOUS
<1>1. PICK q : q = [p EXCEPT !.regions = R]
  OBVIOUS
<1>2. GrantMemory(p, g) = p \/ GrantMemory(p, g) = q
  BY <1>0, <1>1 DEF GrantMemory
<1>3. SameBut(p, q) /\ q.stack = p.stack /\ q.previous = p.previous /\ q.regions = R
  BY <1>1, WithRegionsFields, SMT
<1>4. Args(p.stack, q.regions)
  BY <1>0, <1>3 DEF Kept, Args
<1>5. Kept(q, i)
  BY <1>3, <1>4, KeptRegions
<1> QED BY <1>2, <1>5

LEMMA KeptLess ==
    ASSUME NEW p, NEW i, Owned(p, i), Kept(p, i), NEW R, R \subseteq p.regions,
           NEW q, q = [p EXCEPT !.regions = R]
    PROVE  Kept(q, i)
<1>1. SameBut(p, q) /\ q.stack = p.stack /\ q.previous = p.previous /\ q.regions = R
  BY WithRegionsFields, SMT
<1>2. Args(p.stack, q.regions)
  BY <1>1 DEF Kept, Args
<1> QED BY <1>1, <1>2, KeptRegions

LEMMA KeptRevokeType ==
    ASSUME NEW p, NEW i, Owned(p, i), Kept(p, i), NEW type, NEW q, q = RevokeType(p, type)
    PROVE  Kept(q, i) /\ q.stack = p.stack /\ \A r \in q.regions : r.type # type
<1>1. PICK R : R = {r \in p.regions : r.type # type}
  OBVIOUS
<1>2. q = [p EXCEPT !.regions = R]
  BY <1>1 DEF RevokeType
<1>3. R \subseteq p.regions
  BY <1>1
<1>4. q.stack = p.stack /\ q.regions = R
  BY <1>2, WithRegionsFields, SMT
<1> QED BY <1>1, <1>2, <1>3, <1>4, KeptLess

LEMMA KeptRevokeAt ==
    ASSUME NEW p, NEW i, Owned(p, i), Kept(p, i), NEW a
    PROVE  Kept(RevokeAt(p, a), i)
<1>1. PICK R : R = {r \in p.regions : r.start # a}
  OBVIOUS
<1>2. PICK q : q = RevokeAt(p, a)
  OBVIOUS
<1>3. q = [p EXCEPT !.regions = R] /\ R \subseteq p.regions
  BY <1>1, <1>2 DEF RevokeAt
<1>4. Kept(q, i)
  BY <1>3, KeptLess
<1> QED BY <1>2, <1>4

(* The frame on top is replaced by one of the same module, as at a return  *)
(* that is skipped; the arguments of the call are not granted any more.    *)
LEMMA KeptInstead ==
    ASSUME NEW p, NEW i, Owned(p, i), Stack(p.stack), Esp(p) > 1, Kept(p, i),
           NEW f \in Frame, f # "quiet", Top(p) # "quiet", Home(f) = Home(Top(p)),
           \A r \in p.regions : r.type \in {"entry", "init"} => r.type # Top(p)
    PROVE  Kept(Instead(p, f), i)
<1>0. PICK s : s = Pop(p)
  OBVIOUS
<1>1. PICK t : t = Append(s, f)
  OBVIOUS
<1>2. PICK q : q = Instead(p, f)
  OBVIOUS
<1>3. q = Moved(p, t)
  BY <1>0, <1>1, <1>2 DEF Instead, Moved
<1>4. q.stack = t /\ SameBut(p, q) /\ q.regions = p.regions /\ q.previous = p.previous
  BY <1>3, MovedFields, SMT
<1>5. Stack(s) /\ Args(s, p.regions)
  BY <1>0, Popped, ArgsPop DEF Kept, Pop, Esp, Top
<1>6. Stack(t) /\ Len(t) = Len(s) + 1 /\ t[Len(t)] = f
  BY <1>1, <1>5, Appended, SMTT(30)
<1>7. Args(t, p.regions)
  BY <1>1, <1>5, ArgsPush
<1>8. p.previous = Here(p.descs, i, Home(t[Len(t)]))
  BY <1>6 DEF Kept, Told, Top, Esp
<1>9. Told(t, p.descs, p.previous, i)
  BY <1>6, <1>8, ToldNow
<1>10. Kept(q, i)
  BY <1>4, <1>7, <1>9 DEF Kept, SameBut
<1> QED BY <1>2, <1>10

LEMMA CloneFields ==
    ASSUME NEW p, NEW i, Owned(p, i), NEW j, NEW q, q = Clone(p, j)
    PROVE  /\ q.stack = p.stack /\ q.hooks = p.hooks /\ q.base = p.base /\ q.regions = p.regions
           /\ q.descs = {OwnedBy(j, d) : d \in p.descs}
           /\ q.previous = OwnedBy(j, p.previous)
<1> DEFINE D == {OwnedBy(j, d) : d \in p.descs}
<1>1. q = [p EXCEPT !.descs = D, !.previous = OwnedBy(j, p.previous),
                    !.cached = OwnedBy(j, p.cached)]
  BY DEF Clone, OwnedBy
<1>2. /\ q.stack = p.stack /\ q.hooks = p.hooks /\ q.base = p.base /\ q.regions = p.regions
      /\ q.descs = D /\ q.previous = OwnedBy(j, p.previous)
  <2> HIDE DEF D
  <2> QED BY <1>1 DEF Owned, Shape
<1> QED BY <1>2

LEMMA KeptClone ==
    ASSUME NEW p, NEW i, Owned(p, i), Kept(p, i), NEW j
    PROVE  Kept(Clone(p, j), j)
<1>1. PICK q : q = Clone(p, j)
  OBVIOUS
<1>2. PICK D : D = p.descs
  OBVIOUS
<1>3. /\ q.stack = p.stack /\ q.hooks = p.hooks /\ q.base = p.base /\ q.regions = p.regions
      /\ q.descs = {OwnedBy(j, d) : d \in D}
      /\ q.previous = OwnedBy(j, p.previous)
  BY <1>1, <1>2, CloneFields, SMT
<1>4. \A m : <<j, m>> \in q.descs <=> <<i, m>> \in D
  <2>1. \A d \in D : d = <<i, d[2]>> /\ d # None
    BY <1>2, SMT DEF Owned, None
  <2> QED BY <1>3, <2>1 DEF OwnedBy
<1>5. Told(p.stack, q.descs, q.previous, j)
  BY <1>2, <1>3, <1>4, ToldClone, SMT DEF Kept
<1>6. Kept(q, j)
  BY <1>2, <1>3, <1>4, <1>5 DEF Kept
<1> QED BY <1>1, <1>6
-----------------------------------------------------------------------------
InDriver(v) == v # None /\ v[2] = Driver

Ordered == /\ nextPath \in 2..(MaxPaths + 1) /\ live \subseteq 1..(nextPath - 1)
           /\ suspended \subseteq live /\ cur \in live \cup {Nil}
           /\ slots \in 0..MaxSlots /\ handle \in BOOLEAN /\ (handle => slots > 0)
           /\ loadedModules \in BOOLEAN /\ callers \in BOOLEAN

(* Until the first fork, the checker is connected once, in the driver. *)
Connected == (nextPath = 2 /\ live = {1}) =>
                /\ slots = IF InDriver(st[1].previous) THEN 1 ELSE 0
                /\ handle <=> InDriver(st[1].previous)

Whole == Inv /\ Ordered /\ Connected /\ \A i \in Path : Kept(st[i], i)

(* What a step does to the running path. *)
Rests(q) == /\ Kept(q, cur) /\ st' = [st EXCEPT ![cur] = q]
            /\ InDriver(q.previous) <=> InDriver(st[cur].previous)
            /\ suspended' \in {suspended, suspended \cup {cur}} /\ cur' \in {cur, Nil}
            /\ loadedModules' \in BOOLEAN /\ callers' \in BOOLEAN
            /\ UNCHANGED <<live, nextPath, slots, handle>>

Outcome == \/ \E q : Kept(q, cur) /\ GoOn(q)
           \/ \E q, r : Kept(q, cur) /\ Kept(r, nextPath) /\ ForkInto(q, r)
           \/ \E q : TerminateAs(q) /\ loadedModules' \in BOOLEAN /\ callers' \in BOOLEAN
           \/ \E q : Rests(q)

LEMMA LiveArePaths == ASSUME Ordered PROVE live \subseteq Path /\ (nextPath = 2 => live \subseteq {1})
<1>1. ASSUME NEW i \in live PROVE i \in Path /\ (nextPath = 2 => i = 1)
  <2>1. i \in 1..(nextPath - 1) /\ nextPath \in 2..(MaxPaths + 1)
    BY DEF Ordered
  <2> QED BY <2>1, DriverAssumption, SMT DEF Path
<1> QED BY <1>1

LEMMA TransitionOrdered ==
    ASSUME Ordered, NEW p, NEW q, OnModuleTransition(p, q)
    PROVE  slots' \in 0..MaxSlots /\ handle' \in BOOLEAN /\ (handle' => slots' > 0)
<1>1. \/ slots' = slots /\ handle' = handle
      \/ slots < MaxSlots /\ slots' = slots + 1 /\ handle' = TRUE
      \/ slots' = (IF handle THEN slots - 1 ELSE slots) /\ handle' = FALSE
  BY DEF OnModuleTransition
<1>2. slots \in Nat /\ slots <= MaxSlots
  BY DriverAssumption, SMT DEF Ordered
<1>3. CASE slots' = slots /\ handle' = handle
  BY <1>3 DEF Ordered
<1>4. CASE slots < MaxSlots /\ slots' = slots + 1 /\ handle' = TRUE
  BY <1>2, <1>4, DriverAssumption, SMT
<1>5. CASE slots' = (IF handle THEN slots - 1 ELSE slots) /\ handle' = FALSE
  <2>1. handle => slots > 0
    BY DEF Ordered
  <2>2. slots' = slots \/ (slots > 0 /\ slots' = slots - 1)
    BY <1>5, <2>1
  <2>3. slots' \in 0..MaxSlots
    BY <1>2, <2>2, DriverAssumption, SMT
  <2> QED BY <1>5, <2>3
<1> QED BY <1>1, <1>3, <1>4, <1>5

LEMMA KeptStep ==
    ASSUME Whole, cur \in Path, NEW q, Kept(q, cur), st' = [st EXCEPT ![cur] = q]
    PROVE  \A i \in Path : Kept(st[i], i)'
BY DEF Whole, Inv

LEMMA OwnedInDriver ==
    ASSUME NEW p, NEW i, Owned(p, i)
    PROVE  InDriver(p.previous) <=> p.previous = <<i, Driver>> /\ <<i, Driver>> \in p.descs
<1>1. CASE p.previous = None
  BY <1>1, SMT DEF InDriver, None
<1>2. CASE p.previous # None
  <2>1. p.previous \in p.descs /\ p.previous = <<i, p.previous[2]>>
    BY <1>2, SMT DEF Owned, Tracked
  <2> QED BY <1>2, <2>1, SMT DEF InDriver, None
<1> QED BY <1>1, <1>2

LEMMA GoOnWhole ==
    ASSUME Whole, Inv', cur \in Path, NEW q, Kept(q, cur), GoOn(q)
    PROVE  Whole'
<1>1. /\ st' = [st EXCEPT ![cur] = q] /\ OnModuleTransition(st[cur], q)
      /\ UNCHANGED <<live, suspended, cur, nextPath, loadedModules, callers>>
  BY DEF GoOn, paths
<1>2. Ordered'
  BY <1>1, TransitionOrdered DEF Whole, Ordered
<1>3. ASSUME nextPath = 2, live = {1}
      PROVE  /\ slots' = IF InDriver(st'[1].previous) THEN 1 ELSE 0
             /\ handle' <=> InDriver(st'[1].previous)
  <2>1. cur = 1
    BY <1>3, DriverAssumption, SMTT(30) DEF Whole, Ordered, Path, Nil
  <2>2. st'[1] = q
    BY <1>1, <2>1 DEF Whole, Inv
  <2> PICK p : p = st[1]
    OBVIOUS
  <2>3. Owned(p, 1) /\ Owned(q, 1)
    BY <2>1, <2>2 DEF Whole, Inv, PathOK
  <2>4. InDriver(q.previous) => q.base
    BY <2>1, <2>3, OwnedInDriver DEF Kept
  <2>5. OnModuleTransition(p, q)
    BY <1>1, <2>1
  <2>6. /\ slots = IF InDriver(p.previous) THEN 1 ELSE 0
        /\ handle <=> InDriver(p.previous)
    BY <1>3 DEF Whole, Connected
  <2>7. CASE q.previous = p.previous
    BY <2>2, <2>5, <2>6, <2>7 DEF OnModuleTransition
  <2>8. CASE q.previous # p.previous /\ InDriver(q.previous)
    <3>1. ~InDriver(p.previous)
      BY <2>3, <2>8, OwnedInDriver
    <3>2. slots' = slots + 1 /\ handle' = TRUE
      BY <2>4, <2>5, <2>8 DEF OnModuleTransition, InDriver
    <3> QED BY <2>2, <2>6, <2>8, <3>1, <3>2, SMTT(30)
  <2>9. CASE q.previous # p.previous /\ ~InDriver(q.previous)
    <3>1. slots' = (IF handle THEN slots - 1 ELSE slots) /\ handle' = FALSE
      BY <2>5, <2>9 DEF OnModuleTransition, InDriver
    <3> QED BY <2>2, <2>6, <2>9, <3>1, SMTT(30)
  <2> QED BY <2>7, <2>8, <2>9
<1>4. Connected'
  BY <1>1, <1>3 DEF Connected
<1> QED BY <1>1, <1>2, <1>4, KeptStep DEF Whole

LEMMA ForkIntoWhole ==
    ASSUME Whole, Inv', cur \in Path, NEW q, NEW r, Kept(q, cur), Kept(r, nextPath),
           ForkInto(q, r)
    PROVE  Whole'
<1>1. /\ st' = [st EXCEPT ![cur] = q, ![nextPath] = r] /\ OnModuleTransition(st[cur], q)
      /\ nextPath \in Path /\ nextPath' = nextPath + 1 /\ live' = live \cup {nextPath}
      /\ UNCHANGED <<suspended, cur, loadedModules, callers>>
  BY DEF ForkInto
<1>2. Ordered'
  <2>1. nextPath' \in 2..(MaxPaths + 1) /\ live' \subseteq 1..(nextPath' - 1)
    BY <1>1, DriverAssumption, SMT DEF Whole, Ordered, Path
  <2> QED BY <1>1, <2>1, TransitionOrdered DEF Whole, Ordered
<1>3. Connected'
  BY <1>1, DriverAssumption, SMT DEF Whole, Ordered, Connected
<1>4. \A i \in Path : Kept(st[i], i)'
  BY <1>1 DEF Whole, Inv
<1> QED BY <1>2, <1>3, <1>4 DEF Whole

LEMMA TerminateWhole ==
    ASSUME Whole, Inv', cur \in Path, NEW q, TerminateAs(q),
           loadedModules' \in BOOLEAN, callers' \in BOOLEAN
    PROVE  Whole'
<1>1. /\ live' = live \ {cur} /\ suspended' = suspended \ {cur} /\ cur' = Nil
      /\ st' = [st EXCEPT ![cur] = Fresh] /\ OnModuleTransition(st[cur], q) /\ nextPath' = nextPath
  BY DEF TerminateAs
<1>2. cur \in live /\ live \subseteq Path /\ (nextPath = 2 => live \subseteq {1})
  BY LiveArePaths, DriverAssumption, SMTT(30) DEF Whole, Ordered, Path, Nil
<1>3. Ordered'
  BY <1>1, TransitionOrdered DEF Whole, Ordered
<1>4. Connected'
  BY <1>1, <1>2 DEF Connected
<1>5. \A i \in Path : Kept(st[i], i)'
  BY <1>1, KeptFresh, KeptStep
<1> QED BY <1>3, <1>4, <1>5 DEF Whole

LEMMA RestsWhole ==
    ASSUME Whole, Inv', cur \in Path, NEW q, Rests(q)
    PROVE  Whole'
<1>1. cur \in live
  BY DriverAssumption, SMTT(30) DEF Whole, Ordered, Path, Nil
<1>2. Ordered'
  BY <1>1 DEF Rests, Whole, Ordered
<1>3. ASSUME nextPath = 2, live = {1}
      PROVE  InDriver(st'[1].previous) <=> InDriver(st[1].previous)
  BY <1>1, <1>3 DEF Rests, Whole, Inv
<1>4. Connected'
  BY <1>3 DEF Rests, Connected, Whole
<1>5. \A i \in Path : Kept(st[i], i)'
  BY KeptStep DEF Rests
<1> QED BY <1>2, <1>4, <1>5 DEF Whole

LEMMA OutcomeWhole == ASSUME Whole, Inv', cur \in Path, Outcome PROVE Whole'
BY GoOnWhole, ForkIntoWhole, TerminateWhole, RestsWhole DEF Outcome
-----------------------------------------------------------------------------
(* Loads and unloads, which happen in the kernel. *)
LEMMA UnloadFields ==
    ASSUME NEW p, NEW i, Owned(p, i), NEW ms, NEW q, q = UnloadDescriptors(p, ms)
    PROVE  /\ q.stack = p.stack /\ q.hooks = p.hooks /\ q.base = p.base /\ q.regions = p.regions
           /\ q.descs = {d \in p.descs : d[2] \notin ms}
           /\ q.previous = IF p.previous # None /\ p.previous[2] \in ms THEN None ELSE p.previous
<1> DEFINE kept(d) == IF d # None /\ d[2] \in ms THEN None ELSE d
           D == {d \in p.descs : d[2] \notin ms}
<1>1. q = [p EXCEPT !.descs = D, !.cached = kept(p.cached), !.previous = kept(p.previous)]
  BY DEF UnloadDescriptors
<1>2. /\ q.stack = p.stack /\ q.hooks = p.hooks /\ q.base = p.base /\ q.regions = p.regions
      /\ q.descs = D /\ q.previous = kept(p.previous)
  <2> HIDE DEF D, kept
  <2> QED BY <1>1 DEF Owned, Shape
<1> QED BY <1>2

LEMMA ToldUnload ==
    ASSUME NEW p, NEW i, PathOK(p, i), Kept(p, i), InKernel(p), NEW ms,
           NEW q, q = UnloadDescriptors(p, ms)
    PROVE  Told(q.stack, q.descs, q.previous, i)
<1>1. Owned(p, i) /\ Stack(p.stack) /\ Home(p.stack[Len(p.stack)]) = Kernel
  BY PathStack DEF PathOK, InKernel, Top, Esp
<1>2. /\ q.stack = p.stack /\ q.descs = {d \in p.descs : d[2] \notin ms}
      /\ q.previous = IF p.previous # None /\ p.previous[2] \in ms THEN None ELSE p.previous
  BY <1>1, UnloadFields, SMT
<1>3. q.previous \in {p.previous, None} /\ (q.previous # None => q.previous \in q.descs)
  BY <1>1, <1>2 DEF Owned, Tracked
<1> QED BY <1>1, <1>2, <1>3, ToldDescs, SMT DEF Kept

(* The module that was left last in a quiet interrupt is on the stack. *)
LEMMA InDriverIsIn ==
    ASSUME NEW p, NEW i, PathOK(p, i), Kept(p, i), InDriver(p.previous)
    PROVE  InModule(p, Driver)
<1>1. p.previous # None /\ p.previous[2] = Driver
  BY DEF InDriver
<1>2. PICK d \in 1..Len(p.stack) : p.previous = Here(p.descs, i, Home(p.stack[d]))
  BY <1>1 DEF Kept, Told
<1>3. Home(p.stack[d]) = Driver
  BY <1>1, <1>2, SMTT(30) DEF Here
<1> QED BY <1>3 DEF InModule, Esp

LEMMA OnModuleLoadOutcome ==
    ASSUME Whole, NEW m \in Module, OnModuleLoad(m) PROVE Outcome
<1>0. /\ cur \in Path /\ PathOK(st[cur], cur) /\ Kept(st[cur], cur)
      /\ InKernel(st[cur]) /\ ~Loaded(st[cur], m)
  BY DEF Whole, Inv, OnModuleLoad
<1> PICK p : p = st[cur]
  OBVIOUS
<1>1. PICK H : H = IF m = Driver /\ ~loadedModules THEN p.hooks \cup {"entry", "imports"} ELSE p.hooks
  OBVIOUS
<1>2. PICK b : b = (p.base \/ m = Driver)
  OBVIOUS
<1>3. PICK q : q = [p EXCEPT !.descs = @ \cup {<<cur, m>>}, !.base = b, !.hooks = H]
  OBVIOUS
<1>4. st' = [st EXCEPT ![cur] = q] /\ UNCHANGED <<live, suspended, cur, nextPath, slots, handle>>
  BY <1>1, <1>2, <1>3 DEF OnModuleLoad, paths
<1>5. /\ q.stack = p.stack /\ q.regions = p.regions /\ q.previous = p.previous
      /\ q.hooks = H /\ q.base = b /\ q.descs = p.descs \cup {<<cur, m>>}
  BY <1>0, <1>3 DEF PathOK, Owned, Shape
<1>6. Told(q.stack, q.descs, q.previous, cur)
  <2>1. Stack(p.stack) /\ Home(p.stack[Len(p.stack)]) = Kernel
    BY <1>0, PathStack DEF InKernel, Top, Esp
  <2>2. q.previous # None => q.previous \in q.descs
    BY <1>0, <1>5 DEF PathOK, Owned, Tracked
  <2> QED BY <1>0, <1>5, <2>1, <2>2, ToldDescs DEF Kept
<1>7. Kept(q, cur)
  <2>1. q.hooks \cap {"entry", "miniport"} # {} => <<cur, Driver>> \in q.descs
    BY <1>0, <1>1, <1>5 DEF Kept
  <2>2. <<cur, Driver>> \in q.descs => q.base
    BY <1>0, <1>2, <1>5 DEF Kept
  <2> QED BY <1>0, <1>5, <1>6, <2>1, <2>2 DEF Kept
<1>8. loadedModules' \in BOOLEAN /\ callers' \in BOOLEAN
  BY DEF OnModuleLoad
<1>9. Rests(q)
  BY <1>4, <1>5, <1>7, <1>8 DEF Rests
<1> QED BY <1>9 DEF Outcome

LEMMA OnModuleUnloadOutcome ==
    ASSUME Whole, NEW m \in Module, OnModuleUnload(m) PROVE Outcome
<1>0. /\ cur \in Path /\ PathOK(st[cur], cur) /\ Kept(st[cur], cur)
      /\ InKernel(st[cur]) /\ m # Driver /\ ~InModule(st[cur], m)
  BY DEF Whole, Inv, OnModuleUnload
<1> PICK p : p = st[cur]
  OBVIOUS
<1>1. PICK q : q = UnloadDescriptors(p, {m})
  OBVIOUS
<1>2. /\ st' = [st EXCEPT ![cur] = q]
      /\ UNCHANGED <<live, suspended, cur, nextPath, slots, handle, loadedModules, callers>>
  BY <1>1 DEF OnModuleUnload, paths, globals
<1>3. /\ q.stack = p.stack /\ q.hooks = p.hooks /\ q.base = p.base /\ q.regions = p.regions
      /\ q.descs = {d \in p.descs : d[2] \notin {m}}
      /\ q.previous = IF p.previous # None /\ p.previous[2] \in {m} THEN None ELSE p.previous
  BY <1>0, <1>1, UnloadFields, SMTT(30) DEF PathOK
<1>4. <<cur, Driver>> \in q.descs <=> <<cur, Driver>> \in p.descs
  BY <1>0, <1>3
<1>5. Told(q.stack, q.descs, q.previous, cur)
  BY <1>0, <1>1, ToldUnload
<1>6. Kept(q, cur)
  BY <1>0, <1>3, <1>4, <1>5 DEF Kept
<1>7. InDriver(q.previous) <=> InDriver(p.previous)
  BY <1>0, <1>3 DEF InDriver
<1>8. Rests(q)
  BY <1>2, <1>6, <1>7 DEF Rests, Whole, Ordered
<1> QED BY <1>8 DEF Outcome

LEMMA GetModuleOutcome ==
    ASSUME Whole, NEW m \in Module, GetModule(m) PROVE Outcome
<1>0. cur \in Path /\ PathOK(st[cur], cur) /\ Kept(st[cur], cur)
  BY DEF Whole, Inv, GetModule
<1> PICK p : p = st[cur]
  OBVIOUS
<1>1. PICK q : q = [p EXCEPT !.cached = GetDescriptor(p, m)]
  OBVIOUS
<1>2. /\ st' = [st EXCEPT ![cur] = q]
      /\ UNCHANGED <<live, suspended, cur, nextPath, slots, handle, loadedModules, callers>>
  BY <1>1 DEF GetModule, paths, globals
<1>3. SameBut(p, q) /\ q.stack = p.stack /\ q.previous = p.previous /\ q.regions = p.regions
  BY <1>0, <1>1 DEF PathOK, Owned, Shape, SameBut
<1>4. Kept(q, cur)
  BY <1>0, <1>3, KeptRegions DEF Kept
<1>5. Rests(q)
  BY <1>2, <1>3, <1>4 DEF Rests, Whole, Ordered
<1> QED BY <1>5 DEF Outcome

(* The driver is not on the stack, so it was not reported last either, and *)
(* the handlers at its addresses go with it.                               *)
LEMMA OnDriverUnloadOutcome == ASSUME Whole, OnDriverUnload PROVE Outcome
<1>0. /\ cur \in Path /\ PathOK(st[cur], cur) /\ Kept(st[cur], cur)
      /\ InKernel(st[cur]) /\ ~InModule(st[cur], Driver)
  BY DEF Whole, Inv, OnDriverUnload
<1> PICK p : p = st[cur]
  OBVIOUS
<1>1. PICK u : u = UnloadDescriptors(p, {Driver})
  OBVIOUS
<1>2. PICK v : v = [u EXCEPT !.base = FALSE]
  OBVIOUS
<1>3. PICK q : q = Disconnect(v)
  OBVIOUS
<1>4. \/ Terminate /\ callers' \in {callers, FALSE} /\ UNCHANGED loadedModules
      \/ /\ suspended' = suspended \cup {cur} /\ st' = [st EXCEPT ![cur] = q] /\ callers' = FALSE
         /\ UNCHANGED <<live, cur, nextPath, slots, handle, loadedModules>>
  BY <1>1, <1>2, <1>3 DEF OnDriverUnload
<1>5. loadedModules' \in BOOLEAN /\ callers' \in BOOLEAN
  BY <1>4 DEF Whole, Ordered
<1>6. /\ u.stack = p.stack /\ u.hooks = p.hooks /\ u.regions = p.regions
      /\ u.descs = {d \in p.descs : d[2] \notin {Driver}}
      /\ u.previous = IF p.previous # None /\ p.previous[2] \in {Driver} THEN None ELSE p.previous
  BY <1>0, <1>1, UnloadFields, SMTT(30) DEF PathOK
<1>7. /\ v.stack = u.stack /\ v.hooks = u.hooks /\ v.regions = u.regions
      /\ v.descs = u.descs /\ v.previous = u.previous /\ Shape(v)
  <2>1. Shape(u)
    BY <1>0, <1>1, OkUnload DEF PathOK, Owned
  <2> QED BY <1>2, <2>1 DEF Shape
<1>8. /\ q.stack = v.stack /\ q.hooks = v.hooks \ {"entry", "miniport"} /\ q.regions = v.regions
      /\ q.descs = v.descs /\ q.previous = v.previous
  BY <1>3, <1>7 DEF Disconnect, Shape
<1>9. Told(q.stack, q.descs, q.previous, cur)
  <2>1. Told(u.stack, u.descs, u.previous, cur)
    BY <1>0, <1>1, ToldUnload
  <2> QED BY <1>7, <1>8, <2>1
<1>10. Kept(q, cur)
  <2>1. q.hooks \cap {"entry", "miniport"} = {}
    BY <1>8
  <2>2. <<cur, Driver>> \notin q.descs
    BY <1>6, <1>7, <1>8, SMTT(30)
  <2>3. Args(q.stack, q.regions)
    BY <1>0, <1>6, <1>7, <1>8 DEF Kept
  <2> QED BY <1>9, <2>1, <2>2, <2>3 DEF Kept
<1>11. InDriver(q.previous) <=> InDriver(p.previous)
  BY <1>0, <1>6, <1>7, <1>8, InDriverIsIn DEF InDriver
<1>12. \/ TerminateAs(p) /\ loadedModules' \in BOOLEAN /\ callers' \in BOOLEAN
       \/ Rests(q)
  BY <1>4, <1>5, <1>10, <1>11 DEF Rests, Terminate
<1> QED BY <1>12 DEF Outcome

(* The end of a process.  If it was interrupted, the driver is not on the  *)
(* stack, so no arguments of the driver are granted and no driver was      *)
(* reported.                                                               *)
LEMMA OnProcessUnloadOutcome == ASSUME Whole, OnProcessUnload PROVE Outcome
<1>0. /\ cur \in Path /\ PathOK(st[cur], cur) /\ Kept(st[cur], cur) /\ InKernel(st[cur])
      /\ ~(InModule(st[cur], App) /\ InModule(st[cur], Driver))
  BY DEF Whole, Inv, OnProcessUnload
<1> PICK p : p = st[cur]
  OBVIOUS
<1>1. PICK u : u = UnloadDescriptors(p, {App})
  OBVIOUS
<1>2. /\ u.stack = p.stack /\ u.hooks = p.hooks /\ u.base = p.base /\ u.regions = p.regions
      /\ u.descs = {d \in p.descs : d[2] \notin {App}}
      /\ u.previous = IF p.previous # None /\ p.previous[2] \in {App} THEN None ELSE p.previous
  BY <1>0, <1>1, UnloadFields, SMTT(30) DEF PathOK
<1>3. Told(u.stack, u.descs, u.previous, cur)
  BY <1>0, <1>1, ToldUnload
<1>4. <<cur, Driver>> \in u.descs <=> <<cur, Driver>> \in p.descs
  BY <1>2 DEF Driver, App
<1>5. Kept(u, cur)
  BY <1>0, <1>2, <1>3, <1>4 DEF Kept
<1>6. InDriver(u.previous) <=> InDriver(p.previous)
  BY <1>2 DEF InDriver, Driver, App
<1>7. PICK q : q = [u EXCEPT !.stack = <<"os">>]
  OBVIOUS
<1>8. /\ st' = [st EXCEPT ![cur] = IF InModule(u, App) THEN q ELSE u]
      /\ UNCHANGED <<live, suspended, cur, nextPath, slots, handle, loadedModules, callers>>
  BY <1>1, <1>7 DEF OnProcessUnload, paths, globals
<1>9. CASE ~InModule(u, App)
  <2>1. Rests(u)
    BY <1>5, <1>6, <1>8, <1>9 DEF Rests, Whole, Ordered
  <2> QED BY <2>1 DEF Outcome
<1>10. CASE InModule(u, App)
  <2>1. ~InModule(p, Driver)
    BY <1>0, <1>2, <1>10 DEF InModule, Esp
  <2>2. Owned(u, cur)
    BY <1>0, <1>1, OkUnload DEF PathOK
  <2>3. /\ q.stack = <<"os">> /\ SameBut(u, q) /\ q.regions = u.regions /\ q.previous = u.previous
    BY <1>7, <2>2 DEF Owned, Shape, SameBut
  <2>4. u.previous = None
    <3>1. ~InDriver(u.previous)
      BY <1>0, <1>6, <2>1, InDriverIsIn
    <3>2. u.previous # None => u.previous \in u.descs /\ u.previous[2] \in Configured
      BY <2>2 DEF Owned, Tracked
    <3> QED BY <1>2, <3>1, <3>2 DEF InDriver, Configured
  <2>5. Told(q.stack, q.descs, q.previous, cur)
    <3>1. Home(q.stack[Len(q.stack)]) = Kernel
      BY <2>3, SMTT(30) DEF Home
    <3> QED BY <2>3, <2>4, <3>1, ToldNone, KernelHasNone
  <2>6. Args(q.stack, q.regions)
    <3> SUFFICES ASSUME NEW r \in p.regions, r.type \in {"entry", "init"} PROVE FALSE
      BY <1>0, <1>2, <2>3 DEF Kept, Args
    <3>1. PICK d \in 1..Len(p.stack) : p.stack[d] = r.type
      BY <1>0 DEF Kept, Args
    <3>2. Home(p.stack[d]) = Driver
      BY <3>1 DEF Home
    <3> QED BY <2>1, <3>2 DEF InModule, Esp
  <2>7. Kept(q, cur)
    BY <1>5, <2>3, <2>5, <2>6 DEF Kept, SameBut
  <2>8. Rests(q)
    BY <1>6, <1>8, <1>10, <2>3, <2>7 DEF Rests, Whole, Ordered
  <2> QED BY <2>8 DEF Outcome
<1> QED BY <1>9, <1>10

LEMMA LoadingOutcome == ASSUME Whole, Loading PROVE Outcome
BY OnModuleLoadOutcome, OnModuleUnloadOutcome, GetModuleOutcome, OnDriverUnloadOutcome,
   OnProcessUnloadOutcome DEF Loading
-----------------------------------------------------------------------------
(* The running path after a call, before the handler changes it. *)
LEMMA CalledPath ==
    ASSUME NEW p, NEW i, PathOK(p, i), Kept(p, i), NEW f \in Frame \ {"quiet"},
           Top(p) # "quiet" \/ (Home(f) = Driver /\ Loaded(p, Driver)),
           NEW q, q = Jump(p, Push(p, f))
    PROVE  /\ Kept(q, i) /\ Owned(q, i) /\ Stack(q.stack) /\ Esp(q) > 1 /\ Top(q) = f
           /\ \E d \in 1..Len(q.stack) : q.stack[d] = f
           /\ q.descs = p.descs
<1>0. PICK t : t = Append(p.stack, f)
  OBVIOUS
<1>1. Owned(p, i) /\ Stack(p.stack)
  BY PathStack DEF PathOK
<1>2. Kept(q, i)
  BY <1>1, KeptCall
<1>3. Owned(q, i) /\ q.stack = t
  BY <1>0, Pushed DEF Push
<1>4. Stack(t) /\ Len(t) = Len(p.stack) + 1 /\ t[Len(t)] = f
  BY <1>0, <1>1, Appended, SMT
<1>5. Len(t) > 1 /\ Len(t) \in 1..Len(t)
  BY <1>1, <1>4, SMTT(30) DEF Stack
<1>6. q = IF Announced(p, Home(t[Len(t)])) THEN Reported(p, t) ELSE Moved(p, t)
  BY <1>0, JumpIs DEF Push
<1>7. q.descs = p.descs
  BY <1>1, <1>6, MovedFields, ReportedFields, SMTT(30) DEF SameBut
<1> QED BY <1>2, <1>3, <1>4, <1>5, <1>7 DEF Esp, Top

LEMMA Grants ==
    /\ EntryArgs \in Region /\ EntryArgs.type = "entry"
    /\ TickCount \in Region /\ TickCount.type = "ticks"
    /\ PoolBlock \in Region /\ PoolBlock.type = "alloc"
    /\ DmaBlock \in Region /\ DmaBlock.type = "shared"
    /\ \A n \in Nat : MediumArray(n) \in Region /\ MediumArray(n).type = "init"
<1>1. EntryArgs \in Region /\ EntryArgs.type = "entry"
  BY DEF Granted, Region, EntryArgs
<1>2. TickCount \in Region /\ TickCount.type = "ticks"
  BY DEF Granted, Region, TickCount
<1>3. PoolBlock \in Region /\ PoolBlock.type = "alloc"
  BY DEF Granted, Region, PoolBlock
<1>4. DmaBlock \in Region /\ DmaBlock.type = "shared"
  BY DEF Granted, Region, DmaBlock
<1>5. ASSUME NEW n \in Nat PROVE MediumArray(n) \in Region /\ MediumArray(n).type = "init"
  BY DEF Granted, Region, MediumArray
<1> QED BY <1>1, <1>2, <1>3, <1>4, <1>5

LEMMA KeptGrantOther ==
    ASSUME NEW p, NEW i, Owned(p, i), Kept(p, i), NEW g \in {TickCount, PoolBlock, DmaBlock}
    PROVE  Kept(GrantMemory(p, g), i)
<1>1. g \in Region /\ g.type \notin {"entry", "init"}
  BY Grants
<1> QED BY <1>1, KeptGrant

LEMMA CallOutcome ==
    ASSUME Whole, NEW f \in {"work", "app", "os"}, Call(f) PROVE Outcome
<1>0. cur \in Path /\ PathOK(st[cur], cur) /\ Kept(st[cur], cur)
  BY DEF Whole, Inv, Call, Room
<1> PICK p : p = st[cur]
  OBVIOUS
<1>1. PICK q : q = Jump(p, Push(p, f))
  OBVIOUS
<1>2. /\ \/ f = "work" /\ Loaded(p, Driver)
         \/ p.stack = <<"os">>
         \/ Home(Top(p)) = Driver
      /\ GoOn(q)
  BY <1>1 DEF Call
<1>3. Top(p) # "quiet" \/ (Home(f) = Driver /\ Loaded(p, Driver))
  <2>1. CASE f = "work" /\ Loaded(p, Driver)
    BY <2>1 DEF Home
  <2>2. CASE p.stack = <<"os">>
    BY <2>2, SMTT(30) DEF Top, Esp
  <2>3. CASE Home(Top(p)) = Driver
    BY <2>3 DEF Home, Driver, Kernel
  <2> QED BY <1>2, <2>1, <2>2, <2>3
<1>4. f \in Frame \ {"quiet"}
  BY DEF Frame
<1>5. Kept(q, cur)
  BY <1>0, <1>1, <1>3, <1>4, CalledPath
<1> QED BY <1>2, <1>5 DEF Outcome

(* slotCall at an address of the driver: the caller is the kernel. *)
LEMMA HookedPath ==
    ASSUME Whole, NEW hook, Hooked(hook), NEW f \in {"entry", "init", "halt"},
           NEW q, q = Jump(st[cur], Push(st[cur], f))
    PROVE  /\ cur \in Path /\ Kept(q, cur) /\ Owned(q, cur)
           /\ \E d \in 1..Len(q.stack) : q.stack[d] = f
<1>0. cur \in Path /\ PathOK(st[cur], cur) /\ Kept(st[cur], cur) /\ Top(st[cur]) # "quiet"
  BY DEF Whole, Inv, Hooked, Room
<1>1. f \in Frame \ {"quiet"}
  BY DEF Frame, Watched
<1> PICK p : p = st[cur]
  OBVIOUS
<1>2. Kept(q, cur) /\ Owned(q, cur) /\ \E d \in 1..Len(q.stack) : q.stack[d] = f
  BY <1>0, <1>1, CalledPath, SMTT(30)
<1> QED BY <1>0, <1>2

LEMMA HandlersOutcome ==
    ASSUME Whole, DriverEntryPoint \/ InitializeHandler \/ HaltHandler PROVE Outcome
<1> PICK p : p = st[cur]
  OBVIOUS
<1>1. CASE DriverEntryPoint
  <2>1. PICK a : a = Jump(p, Push(p, "entry"))
    OBVIOUS
  <2>2. PICK b : b = GrantMemory(a, EntryArgs)
    OBVIOUS
  <2>3. PICK c : c = GrantMemory(b, TickCount)
    OBVIOUS
  <2>4. PICK q : q = RegisterReturn(c, "entry")
    OBVIOUS
  <2>5. Hooked("entry") /\ GoOn(q)
    BY <1>1, <2>1, <2>2, <2>3, <2>4 DEF DriverEntryPoint
  <2>6. Kept(a, cur) /\ Owned(a, cur) /\ \E d \in 1..Len(a.stack) : a.stack[d] = "entry"
    BY <2>1, <2>5, HookedPath
  <2>7. Kept(b, cur) /\ Owned(b, cur)
    BY <2>2, <2>6, Grants, KeptGrant, OwnedGrantMemory
  <2>8. Kept(c, cur) /\ Owned(c, cur)
    BY <2>3, <2>7, KeptGrantOther, OwnedGrantMemory
  <2>9. Kept(q, cur)
    BY <2>4, <2>8, KeptRegisterReturn
  <2> QED BY <2>5, <2>9 DEF Outcome
<1>2. CASE InitializeHandler
  <2>1. PICK a : a = Jump(p, Push(p, "init"))
    OBVIOUS
  <2>2. PICK b : b = RegisterReturn(a, "init")
    OBVIOUS
  <2>3. PICK n \in 0..1 : GoOn(GrantMemory(b, MediumArray(n)))
    BY <1>2, <2>1, <2>2 DEF InitializeHandler
  <2>4. PICK q : q = GrantMemory(b, MediumArray(n))
    OBVIOUS
  <2>5. Hooked("miniport")
    BY <1>2 DEF InitializeHandler
  <2>6. Kept(a, cur) /\ Owned(a, cur) /\ \E d \in 1..Len(a.stack) : a.stack[d] = "init"
    BY <2>1, <2>5, HookedPath
  <2>7. Kept(b, cur) /\ Owned(b, cur)
    BY <2>2, <2>6, KeptRegisterReturn, OwnedRegisterReturn
  <2>8. b.stack = a.stack
    BY <2>2, <2>6 DEF RegisterReturn, Owned, Shape
  <2>9. MediumArray(n) \in Region /\ MediumArray(n).type = "init"
    BY Grants, SMTT(30)
  <2>10. Kept(q, cur)
    BY <2>4, <2>6, <2>7, <2>8, <2>9, KeptGrant
  <2> QED BY <2>3, <2>4, <2>10 DEF Outcome
<1>3. CASE HaltHandler
  <2>1. PICK a : a = Jump(p, Push(p, "halt"))
    OBVIOUS
  <2>2. PICK q : q = RegisterReturn(a, "halt")
    OBVIOUS
  <2>3. Hooked("miniport") /\ GoOn(q)
    BY <1>3, <2>1, <2>2 DEF HaltHandler
  <2>4. Kept(a, cur) /\ Owned(a, cur)
    BY <2>1, <2>3, HookedPath
  <2>5. Kept(q, cur)
    BY <2>2, <2>4, KeptRegisterReturn
  <2> QED BY <2>3, <2>5 DEF Outcome
<1> QED BY <1>1, <1>2, <1>3

(* slotCall at an import: the caller is the driver. *)
LEMMA ImportedPath ==
    ASSUME Whole, Imported, NEW f \in {"os", "alloc", "shared", "register"},
           NEW q, q = Jump(st[cur], Push(st[cur], f))
    PROVE  /\ cur \in Path /\ Kept(q, cur) /\ Owned(q, cur)
           /\ Stack(q.stack) /\ Esp(q) > 1 /\ Top(q) = f
           /\ <<cur, Driver>> \in q.descs
<1>0. /\ cur \in Path /\ PathOK(st[cur], cur) /\ Kept(st[cur], cur)
      /\ Home(Top(st[cur])) = Driver /\ Loaded(st[cur], Driver)
  BY DEF Whole, Inv, Imported, Room
<1>1. f \in Frame \ {"quiet"}
  BY DEF Frame, Watched
<1> PICK p : p = st[cur]
  OBVIOUS
<1>2. Top(p) # "quiet"
  BY <1>0 DEF Home, Driver, Kernel
<1>3. /\ Kept(q, cur) /\ Owned(q, cur) /\ Stack(q.stack) /\ Esp(q) > 1 /\ Top(q) = f
      /\ q.descs = p.descs
  BY <1>0, <1>1, <1>2, CalledPath, SMTT(30)
<1>4. <<cur, Driver>> \in p.descs
  BY <1>0, GetDescriptorIs DEF PathOK, Owned
<1> QED BY <1>0, <1>3, <1>4

LEMMA NdisMRegisterMiniportOutcome == ASSUME Whole, NdisMRegisterMiniport PROVE Outcome
<1> PICK p : p = st[cur]
  OBVIOUS
<1>1. PICK a : a = Jump(p, Push(p, "os"))
  OBVIOUS
<1>2. PICK b : b = Jump(p, Push(p, "register"))
  OBVIOUS
<1>3. PICK c : c = RegisterReturn(b, "register")
  OBVIOUS
<1>4. Imported /\ \E r \in {a, c}, points \in {{}, {"miniport"}} :
                     GoOn([r EXCEPT !.hooks = @ \cup points])
  BY <1>1, <1>2, <1>3 DEF NdisMRegisterMiniport
<1>5. PICK r \in {a, c}, points \in {{}, {"miniport"}} :
             GoOn([r EXCEPT !.hooks = @ \cup points])
  BY <1>4
<1>6. PICK q : q = [r EXCEPT !.hooks = @ \cup points]
  OBVIOUS
<1>7. Kept(a, cur) /\ Owned(a, cur) /\ <<cur, Driver>> \in a.descs
  BY <1>1, <1>4, ImportedPath
<1>8. Kept(b, cur) /\ Owned(b, cur) /\ <<cur, Driver>> \in b.descs
  BY <1>2, <1>4, ImportedPath
<1>9. Kept(c, cur) /\ Owned(c, cur) /\ c.descs = b.descs
  <2>1. c.descs = b.descs
    BY <1>3, <1>8 DEF RegisterReturn, Owned, Shape
  <2> QED BY <1>3, <1>8, <2>1, KeptRegisterReturn, OwnedRegisterReturn
<1>10. Kept(r, cur) /\ Owned(r, cur) /\ <<cur, Driver>> \in r.descs
  BY <1>5, <1>7, <1>8, <1>9
<1>11. /\ q.stack = r.stack /\ q.descs = r.descs /\ q.previous = r.previous
       /\ q.base = r.base /\ q.regions = r.regions
  BY <1>6, <1>10 DEF Owned, Shape
<1>12. Kept(q, cur)
  BY <1>10, <1>11 DEF Kept
<1> QED BY <1>5, <1>6, <1>12 DEF Outcome

LEMMA NdisAllocateMemoryOutcome == ASSUME Whole, NdisAllocateMemory PROVE Outcome
<1> PICK p : p = st[cur]
  OBVIOUS
<1>1. PICK a : a = Jump(p, Push(p, "alloc"))
  OBVIOUS
<1>2. PICK q : q = RegisterReturn(a, "alloc")
  OBVIOUS
<1>3. PICK s : s = Instead(a, "os")
  OBVIOUS
<1>4. PICK c : c = Clone(a, nextPath)
  OBVIOUS
<1>5. PICK r : r = RegisterReturn(c, "alloc")
  OBVIOUS
<1>6. Imported /\ (GoOn(q) \/ ForkInto(s, r))
  BY <1>1, <1>2, <1>3, <1>4, <1>5 DEF NdisAllocateMemory
<1>7. Kept(a, cur) /\ Owned(a, cur) /\ Stack(a.stack) /\ Esp(a) > 1 /\ Top(a) = "alloc"
  BY <1>1, <1>6, ImportedPath
<1>8. Kept(q, cur)
  BY <1>2, <1>7, KeptRegisterReturn
<1>9. Kept(s, cur)
  <2>1. "os" \in Frame /\ Home("os") = Home("alloc")
    BY DEF Frame, Home
  <2> QED BY <1>3, <1>7, <2>1, KeptInstead
<1>10. Kept(c, nextPath) /\ Owned(c, nextPath)
  BY <1>4, <1>7, KeptClone, OwnedClone
<1>11. Kept(r, nextPath)
  BY <1>5, <1>10, KeptRegisterReturn
<1> QED BY <1>6, <1>8, <1>9, <1>11 DEF Outcome

LEMMA NdisMAllocateSharedMemoryOutcome == ASSUME Whole, NdisMAllocateSharedMemory PROVE Outcome
<1> PICK p : p = st[cur]
  OBVIOUS
<1>1. PICK a : a = Jump(p, Push(p, "shared"))
  OBVIOUS
<1>2. PICK q : q = RegisterReturn(a, "shared")
  OBVIOUS
<1>3. Imported /\ GoOn(q)
  BY <1>1, <1>2 DEF NdisMAllocateSharedMemory
<1>4. Kept(a, cur) /\ Owned(a, cur)
  BY <1>1, <1>3, ImportedPath
<1>5. Kept(q, cur)
  BY <1>2, <1>4, KeptRegisterReturn
<1> QED BY <1>3, <1>5 DEF Outcome

LEMMA NdisFreeMemoryOutcome == ASSUME Whole, NdisFreeMemory PROVE Outcome
<1> PICK p : p = st[cur]
  OBVIOUS
<1>1. PICK a : a = Jump(p, Push(p, "os"))
  OBVIOUS
<1>2. /\ Imported
      /\ \/ TerminateAs(a) /\ UNCHANGED <<loadedModules, callers>>
         \/ \E r \in a.regions : GoOn(RevokeAt(a, r.start))
  BY <1>1 DEF NdisFreeMemory
<1>3. Kept(a, cur) /\ Owned(a, cur)
  BY <1>1, <1>2, ImportedPath
<1>4. ASSUME NEW r \in a.regions, GoOn(RevokeAt(a, r.start)) PROVE Outcome
  BY <1>3, <1>4, KeptRevokeAt DEF Outcome
<1>5. ASSUME TerminateAs(a), UNCHANGED <<loadedModules, callers>> PROVE Outcome
  BY <1>5 DEF Outcome, Whole, Ordered
<1> QED BY <1>2, <1>4, <1>5

LEMMA CallingOutcome == ASSUME Whole, Calling PROVE Outcome
BY CallOutcome, HandlersOutcome, NdisMRegisterMiniportOutcome, NdisAllocateMemoryOutcome,
   NdisMAllocateSharedMemoryOutcome, NdisFreeMemoryOutcome DEF Calling
-----------------------------------------------------------------------------
(* The handler that is pending is that of the frame on top. *)
LEMMA PendingTop ==
    ASSUME NEW p, NEW i, PathOK(p, i)
    PROVE  Pending(p) = IF Top(p) \in Watched THEN <<Top(p)>> ELSE <<>>
<1>1. Len(p.stack) \in Depth /\ Len(p.stack) <= Len(p.stack)
  BY DriverAssumption, SMT DEF PathOK, Paired, Depth
<1> QED BY <1>1 DEF PathOK, Paired, Pending, Top, Esp

LEMMA ReturningPath ==
    ASSUME Whole, NEW h, Returning(h)
    PROVE  /\ cur \in Path /\ PathOK(st[cur], cur) /\ Kept(st[cur], cur)
           /\ Esp(st[cur]) > 1 /\ Top(st[cur]) = h /\ Stack(st[cur].stack)
<1>1. /\ cur \in Path /\ PathOK(st[cur], cur) /\ Kept(st[cur], cur)
      /\ Pending(st[cur]) # <<>> /\ Head(Pending(st[cur])) = h
  BY DEF Whole, Inv, Returning
<1>2. Pending(st[cur]) = <<Top(st[cur])>>
  BY <1>1, PendingTop
<1>3. Top(st[cur]) = h
  BY <1>1, <1>2, SMT
<1> QED BY <1>1, <1>3, PendingIsInner, PathStack

LEMMA FailedOutcome == ASSUME Whole, Failed PROVE Outcome
BY DEF Failed, Terminate, Outcome, Whole, Ordered

(* Only the return descriptors of the frame on top go. *)
LEMMA EraseSpFields ==
    ASSUME NEW p, NEW i, Owned(p, i), NEW q, q = EraseSp(p)
    PROVE  q.stack = p.stack /\ q.previous = p.previous /\ q.regions = p.regions
BY DEF EraseSp, Owned, Shape

(* The handler revokes the arguments and suspends the path at its return. *)
LEMMA SucceededOutcome ==
    ASSUME Whole, NEW type \in {"entry", "init"}, Returning(type), Succeeded(st[cur], type)
    PROVE  Outcome
<1> PICK p : p = st[cur]
  OBVIOUS
<1>1. PICK a : a = RevokeType(p, type)
  OBVIOUS
<1>2. PICK e : e = EraseSp(a)
  OBVIOUS
<1>3. PICK q : q = Instead(e, "work")
  OBVIOUS
<1>4. /\ Owned(p, cur) /\ Kept(p, cur) /\ Esp(p) > 1 /\ Top(p) = type /\ Stack(p.stack)
  BY ReturningPath DEF PathOK
<1>5. Owned(a, cur) /\ Kept(a, cur) /\ a.stack = p.stack /\ \A r \in a.regions : r.type # type
  BY <1>1, <1>4, KeptRevokeType, OwnedRevokeType, SMTT(30)
<1>6. Owned(e, cur) /\ Kept(e, cur) /\ e.regions = a.regions
  BY <1>2, <1>5, KeptEraseSp, OwnedEraseSp
<1>7. e.stack = p.stack
  BY <1>2, <1>5, EraseSpFields
<1>8. Esp(e) > 1 /\ Top(e) = type /\ Stack(e.stack)
  BY <1>4, <1>7 DEF Esp, Top
<1>9. "work" \in Frame /\ Home("work") = Home(type)
  BY DEF Frame, Home
<1>10. Kept(q, cur)
  BY <1>3, <1>5, <1>6, <1>8, <1>9, KeptInstead
<1>11. q.previous = p.previous
  <2>1. a.previous = p.previous
    BY <1>1, <1>4 DEF RevokeType, Owned, Shape
  <2>2. e.previous = a.previous
    BY <1>2, <1>5, EraseSpFields
  <2>3. q.previous = e.previous
    BY <1>3, <1>6 DEF Instead, Owned, Shape
  <2> QED BY <2>1, <2>2, <2>3
<1>12. /\ suspended' = suspended \cup {cur} /\ cur' = Nil /\ st' = [st EXCEPT ![cur] = q]
       /\ UNCHANGED <<live, nextPath, slots, handle, loadedModules, callers>>
  BY <1>1, <1>2, <1>3 DEF Succeeded, SucceedAs, globals
<1>13. Rests(q)
  BY <1>10, <1>11, <1>12 DEF Rests, Whole, Ordered
<1> QED BY <1>13 DEF Outcome

(* A return from a frame whose return descriptors are gone. *)
LEMMA KeptErasedReturn ==
    ASSUME NEW p, NEW i, Owned(p, i), Kept(p, i), Stack(p.stack), Esp(p) > 1,
           Top(p) \in {"alloc", "shared", "register"}, NEW q, q = Jump(EraseSp(p), Pop(p))
    PROVE  Kept(q, i)
<1>1. PICK e : e = EraseSp(p)
  OBVIOUS
<1>2. Owned(e, i) /\ Kept(e, i) /\ e.stack = p.stack
  BY <1>1, OwnedEraseSp, KeptEraseSp, EraseSpFields
<1>3. Esp(e) > 1 /\ Top(e) \notin {"entry", "init"} /\ Stack(e.stack) /\ Pop(e) = Pop(p)
  BY <1>2 DEF Esp, Top, Pop
<1>4. q = Jump(e, Pop(e))
  BY <1>1, <1>3
<1> QED BY <1>2, <1>3, <1>4, KeptReturn

LEMMA NdisMRegisterMiniportRetOutcome == ASSUME Whole, NdisMRegisterMiniportRet PROVE Outcome
<1> PICK p : p = st[cur]
  OBVIOUS
<1>1. PICK q : q = Jump(EraseSp(p), Pop(p))
  OBVIOUS
<1>2. Returning("register") /\ GoOn(q)
  BY <1>1 DEF NdisMRegisterMiniportRet
<1>3. Owned(p, cur) /\ Kept(p, cur) /\ Esp(p) > 1 /\ Top(p) = "register" /\ Stack(p.stack)
  BY <1>2, ReturningPath DEF PathOK
<1>4. Kept(q, cur)
  BY <1>1, <1>3, KeptErasedReturn
<1> QED BY <1>2, <1>4 DEF Outcome

LEMMA NdisAllocateMemoryRetOutcome == ASSUME Whole, NdisAllocateMemoryRet PROVE Outcome
<1> PICK p : p = st[cur]
  OBVIOUS
<1>1. PICK g \in {p, GrantMemory(p, PoolBlock)} : GoOn(Jump(EraseSp(g), Pop(g)))
  BY DEF NdisAllocateMemoryRet
<1>2. Returning("alloc")
  BY DEF NdisAllocateMemoryRet
<1>3. Owned(p, cur) /\ Kept(p, cur) /\ Esp(p) > 1 /\ Top(p) = "alloc" /\ Stack(p.stack)
  BY <1>2, ReturningPath DEF PathOK
<1>4. Owned(g, cur) /\ Kept(g, cur) /\ SameStack(p, g)
  <2>1. PICK b : b = GrantMemory(p, PoolBlock)
    OBVIOUS
  <2>2. Owned(b, cur) /\ Kept(b, cur) /\ SameStack(p, b)
    BY <1>3, <2>1, OwnedGranted, KeptGrantOther
  <2>3. g = p \/ g = b
    BY <1>1, <2>1
  <2> QED BY <1>3, <2>2, <2>3 DEF SameStack
<1>5. Esp(g) > 1 /\ Top(g) = "alloc" /\ Stack(g.stack)
  BY <1>3, <1>4 DEF SameStack, Esp, Top
<1>6. Kept(Jump(EraseSp(g), Pop(g)), cur)
  BY <1>4, <1>5, KeptErasedReturn
<1> QED BY <1>1, <1>6 DEF Outcome

LEMMA NdisMAllocateSharedMemoryRetOutcome ==
    ASSUME Whole, NdisMAllocateSharedMemoryRet PROVE Outcome
<1> PICK p : p = st[cur]
  OBVIOUS
<1>1. PICK e : e = EraseSp(p)
  OBVIOUS
<1>2. PICK g : g = GrantMemory(e, DmaBlock)
  OBVIOUS
<1>3. PICK a : a = Jump(e, Pop(e))
  OBVIOUS
<1>4. PICK b : b = Jump(g, Pop(e))
  OBVIOUS
<1>5. PICK o : o = OtherAfterRet(p, nextPath)
  OBVIOUS
<1>6. PICK og : og = GrantMemory(o, DmaBlock)
  OBVIOUS
<1>7. GoOn(a) \/ ForkInto(b, o) \/ ForkInto(a, og)
  BY <1>1, <1>2, <1>3, <1>4, <1>5, <1>6 DEF NdisMAllocateSharedMemoryRet
<1>8. Owned(p, cur) /\ Kept(p, cur) /\ Esp(p) > 1 /\ Top(p) = "shared" /\ Stack(p.stack)
  BY ReturningPath DEF NdisMAllocateSharedMemoryRet, PathOK
<1>9. Owned(e, cur) /\ Kept(e, cur) /\ e.stack = p.stack
  BY <1>1, <1>8, OwnedEraseSp, KeptEraseSp, EraseSpFields
<1>10. Esp(e) > 1 /\ Top(e) = "shared" /\ Stack(e.stack)
  BY <1>8, <1>9 DEF Esp, Top
<1>11. Kept(a, cur)
  BY <1>3, <1>9, <1>10, KeptReturn
<1>12. Kept(b, cur)
  <2>1. Owned(g, cur) /\ Kept(g, cur) /\ SameStack(e, g)
    BY <1>2, <1>9, OwnedGranted, KeptGrantOther
  <2>2. Esp(g) > 1 /\ Top(g) = "shared" /\ Stack(g.stack) /\ Pop(g) = Pop(e)
    BY <1>10, <2>1 DEF SameStack, Esp, Top, Pop
  <2>3. b = Jump(g, Pop(g))
    BY <1>4, <2>2
  <2> QED BY <2>1, <2>2, <2>3, KeptReturn
<1>13. Kept(o, nextPath) /\ Owned(o, nextPath)
  <2>1. PICK c : c = Clone(p, nextPath)
    OBVIOUS
  <2>2. PICK f : f = EraseSp(c)
    OBVIOUS
  <2>3. Kept(c, nextPath) /\ Owned(c, nextPath) /\ c.stack = p.stack
    BY <1>8, <2>1, KeptClone, OwnedCloned, SMTT(30) DEF SameStack
  <2>4. Kept(f, nextPath) /\ Owned(f, nextPath) /\ f.stack = p.stack
    BY <2>2, <2>3, OwnedEraseSp, KeptEraseSp, EraseSpFields
  <2>5. Esp(f) > 1 /\ Top(f) = "shared" /\ Stack(f.stack)
    BY <1>8, <2>4 DEF Esp, Top
  <2>6. "os" \in Frame /\ Home("os") = Home("shared")
    BY DEF Frame, Home
  <2>7. o = Instead(f, "os")
    BY <1>5, <2>1, <2>2 DEF OtherAfterRet
  <2> QED BY <2>4, <2>5, <2>6, <2>7, KeptInstead, OwnedInstead
<1>14. Kept(og, nextPath)
  BY <1>6, <1>13, KeptGrantOther
<1> QED BY <1>7, <1>11, <1>12, <1>13, <1>14 DEF Outcome

(* A ret or iret that no handler awaits. *)
LEMMA PlainReturnOutcome == ASSUME Whole, Return \/ Iret PROVE Outcome
<1>0. cur \in Path /\ PathOK(st[cur], cur) /\ Kept(st[cur], cur)
  BY DEF Whole, Inv, Return, Iret
<1> PICK p : p = st[cur]
  OBVIOUS
<1>1. PICK q : q = Jump(p, Pop(p))
  OBVIOUS
<1>2. /\ GoOn(q)
      /\ (Esp(p) > 1 /\ Pending(p) = <<>>) \/ Top(p) \in {"isr", "quiet"}
  BY <1>1 DEF Return, Iret
<1>3. Top(p) \notin {"entry", "init"}
  <2>1. Top(p) \in Watched => Pending(p) # <<>>
    BY <1>0, PendingTop, SMT
  <2> QED BY <1>2, <2>1 DEF Watched
<1>4. Esp(p) > 1
  <2>1. Len(p.stack) \in Nat /\ Len(p.stack) >= 1 /\ p.stack[1] = "os"
    BY <1>0, PathStack DEF PathOK, Paired, Stack
  <2>2. CASE Top(p) \in {"isr", "quiet"}
    BY <2>1, <2>2, SMTT(30) DEF Top, Esp
  <2> QED BY <1>2, <2>2
<1>5. Kept(q, cur)
  BY <1>0, <1>1, <1>3, <1>4, PathStack, KeptReturn DEF PathOK
<1> QED BY <1>2, <1>5 DEF Outcome

LEMMA ReturnedOutcome == ASSUME Whole, Returned PROVE Outcome
<1>1. CASE DriverEntryPointRet
  BY <1>1, FailedOutcome, SucceededOutcome DEF DriverEntryPointRet
<1>2. CASE InitializeHandlerRet
  BY <1>2, FailedOutcome, SucceededOutcome DEF InitializeHandlerRet
<1>3. CASE HaltHandlerRet
  BY <1>3, FailedOutcome DEF HaltHandlerRet
<1> QED BY <1>1, <1>2, <1>3, NdisMRegisterMiniportRetOutcome, NdisAllocateMemoryRetOutcome,
           NdisMAllocateSharedMemoryRetOutcome, PlainReturnOutcome DEF Returned
-----------------------------------------------------------------------------
LEMMA InitWhole == Init => Whole
<1> SUFFICES ASSUME Init PROVE Whole
  OBVIOUS
<1>1. st = [i \in Path |-> Fresh] /\ 1 \in Path
  BY DriverAssumption, SMT DEF Init, Path
<1>2. Ordered
  <2>1. 2 \in 2..(MaxPaths + 1) /\ 1 \in 1..(2 - 1) /\ 0 \in 0..MaxSlots
    BY DriverAssumption, SMTT(30)
  <2>2. /\ nextPath = 2 /\ live = {1} /\ suspended = {} /\ cur = 1 /\ slots = 0
        /\ handle = FALSE /\ loadedModules = FALSE /\ callers = FALSE
    BY DEF Init
  <2> QED BY <2>1, <2>2 DEF Ordered
<1>3. ~InDriver(st[1].previous)
  BY <1>1 DEF Fresh, InDriver
<1>4. Connected
  BY <1>3 DEF Init, Connected
<1>5. \A i \in Path : Kept(st[i], i)
  BY <1>1, KeptFresh
<1> QED BY <1>2, <1>4, <1>5, InitInv DEF Whole

LEMMA NextWhole == ASSUME Whole, [Next]_vars PROVE Whole'
<1>0. Inv'
  BY NextInv DEF Whole
<1>a. ASSUME Outcome, cur # Nil PROVE Whole'
  BY <1>a, <1>0, OutcomeWhole DEF Whole, Inv
<1>1. CASE Loading
  <2>1. cur # Nil
    BY <1>1 DEF Loading, OnModuleLoad, OnModuleUnload, GetModule, OnDriverUnload, OnProcessUnload
  <2> QED BY <1>1, <1>a, <2>1, LoadingOutcome
<1>2. CASE Calling
  <2>1. cur # Nil
    BY <1>2 DEF Calling, Call, DriverEntryPoint, InitializeHandler, HaltHandler, NdisFreeMemory,
                NdisMRegisterMiniport, NdisAllocateMemory, NdisMAllocateSharedMemory,
                Hooked, Imported, Room
  <2> QED BY <1>2, <1>a, <2>1, CallingOutcome
<1>3. CASE Returned
  <2>1. cur # Nil
    BY <1>3 DEF Returned, Return, DriverEntryPointRet, InitializeHandlerRet, HaltHandlerRet,
                NdisMRegisterMiniportRet, NdisAllocateMemoryRet, NdisMAllocateSharedMemoryRet,
                Iret, Returning
  <2> QED BY <1>3, <1>a, <2>1, ReturnedOutcome
<1>4. CASE Fork
  <2> PICK q : q = st[cur]
    OBVIOUS
  <2>1. PICK r : r = Clone(q, nextPath)
    OBVIOUS
  <2>2. cur # Nil /\ Owned(q, cur) /\ Kept(q, cur) /\ ForkInto(q, r)
    BY <1>4, <2>1 DEF Fork, Whole, Inv, PathOK
  <2>3. Kept(r, nextPath)
    BY <2>1, <2>2, KeptClone
  <2> QED BY <1>a, <2>2, <2>3 DEF Outcome
<1>5. ASSUME NEW f \in {"isr", "quiet"}, Interrupt(f) PROVE Whole'
  <2> PICK p : p = st[cur]
    OBVIOUS
  <2>1. PICK q : q = Went(p, Push(p, f), f = "isr")
    OBVIOUS
  <2>2. cur # Nil /\ PathOK(p, cur) /\ Kept(p, cur) /\ GoOn(q)
    BY <1>5, <2>1 DEF Interrupt, Room, Whole, Inv
  <2>3. Kept(q, cur)
    BY <2>1, <2>2, KeptInterrupt
  <2> QED BY <1>a, <2>2, <2>3 DEF Outcome
<1>6. CASE BadAccess
  BY <1>6, <1>a, FailedOutcome DEF BadAccess
<1>7. CASE ResumeSucceeded
  <2>1. suspended' = {} /\ UNCHANGED <<live, cur, nextPath, st, slots, handle, loadedModules, callers>>
    BY <1>7 DEF ResumeSucceeded, globals
  <2>2. Ordered'
    BY <2>1 DEF Whole, Ordered
  <2> QED BY <1>0, <2>1, <2>2 DEF Whole, Connected
<1>8. ASSUME NEW i \in Path, Switch(i) PROVE Whole'
  <2>1. i \in live /\ cur' = i
        /\ UNCHANGED <<live, suspended, nextPath, st, slots, handle, loadedModules, callers>>
    BY <1>8 DEF Switch, globals
  <2>2. Ordered'
    BY <2>1 DEF Whole, Ordered
  <2> QED BY <1>0, <2>1, <2>2 DEF Whole, Connected
<1>9. CASE UNCHANGED vars
  <2>1. UNCHANGED <<live, suspended, cur, nextPath, st, slots, handle, loadedModules, callers>>
    BY <1>9 DEF vars, paths, globals
  <2>2. Ordered'
    BY <2>1 DEF Whole, Ordered
  <2> QED BY <1>0, <2>1, <2>2 DEF Whole, Connected
<1> QED BY <1>1, <1>2, <1>3, <1>4, <1>5, <1>6, <1>7, <1>8, <1>9 DEF Next

LEMMA AlwaysWhole == Spec => []Whole
BY InitWhole, NextWhole, PTL DEF Spec

LEMMA WholeToldWhere == Whole => ToldWhere
<1> SUFFICES ASSUME Whole, NEW i \in live, Top(st[i]) # "quiet"
             PROVE  st[i].previous = GetDescriptor(st[i], Home(Top(st[i])))
  BY DEF ToldWhere
<1>1. i \in Path
  BY LiveArePaths DEF Whole
<1> PICK p : p = st[i]
  OBVIOUS
<1>2. Owned(p, i) /\ Kept(p, i)
  BY <1>1 DEF Whole, Inv, PathOK
<1>3. p.previous = Here(p.descs, i, Home(Top(p)))
  BY <1>2 DEF Kept, Told, Top, Esp
<1> QED BY <1>2, <1>3, GetDescriptorIs, ZenonT(30) DEF Owned

LEMMA WholeArgsHaveReturn == Whole => ArgsHaveReturn
<1> SUFFICES ASSUME Whole, NEW i \in Path, NEW r \in st[i].regions, r.type \in {"entry", "init"}
             PROVE  \E d \in 1..Esp(st[i]) : st[i].rets[d] # <<>> /\ Head(st[i].rets[d]) = r.type
  BY DEF ArgsHaveReturn
<1> PICK p : p = st[i]
  OBVIOUS
<1>1. PathOK(p, i) /\ Kept(p, i) /\ r \in p.regions
  BY DEF Whole, Inv
<1>2. PICK d \in 1..Len(p.stack) : p.stack[d] = r.type
  BY <1>1 DEF Kept, Args
<1>3. Len(p.stack) \in Depth
  BY <1>1 DEF PathOK, Paired
<1>4. d \in Depth /\ d <= Len(p.stack) /\ p.stack[d] \in Watched
  BY <1>2, <1>3, DriverAssumption, SMTT(30) DEF Depth, Watched
<1>5. p.rets[d] = <<p.stack[d]>>
  BY <1>1, <1>4 DEF PathOK, Paired
<1>6. p.rets[d] # <<>> /\ Head(p.rets[d]) = r.type
  BY <1>2, <1>5, SMT
<1> QED BY <1>6 DEF Esp

LEMMA WholeHooksFollowLoad == Whole => HooksFollowLoad
<1> SUFFICES ASSUME Whole, NEW i \in Path, st[i].hooks \cap {"entry", "miniport"} # {}
             PROVE  Loaded(st[i], Driver)
  BY DEF HooksFollowLoad
<1>1. Owned(st[i], i) /\ Kept(st[i], i)
  BY DEF Whole, Inv, PathOK
<1>2. <<i, Driver>> \in st[i].descs
  BY <1>1 DEF Kept
<1> QED BY <1>1, <1>2, GetDescriptorIs DEF Owned

LEMMA WholeCheckerFollows == Whole => CheckerFollowsOnlyPath
BY SMTT(30) DEF Whole, Connected, CheckerFollowsOnlyPath, InDriver

(* For any number of paths, modules and nested calls: except in an         *)
(* interrupt that was not announced, the module that a path was last       *)
(* reported to enter is the one it is in.                                  *)
THEOREM PathsAreToldWhere == Spec => []ToldWhere
BY AlwaysWhole, WholeToldWhere, PTL

(* For any number of paths and nested calls: memory granted as arguments   *)
(* of DriverEntry or MiniportInitialize has a pending return handler that  *)
(* revokes it.                                                             *)
THEOREM ArgumentsAreRevoked == Spec => []ArgsHaveReturn
BY AlwaysWhole, WholeArgsHaveReturn, PTL

(* For any number of paths: handlers at addresses of the driver are gone   *)
(* from a path that does not have the driver.                              *)
THEOREM HooksGoWithDriver == Spec => []HooksFollowLoad
BY AlwaysWhole, WholeHooksFollowLoad, PTL

(* Until the first fork, onDataMemoryAccess is connected to the checker    *)
(* exactly when the path was last reported in the driver; that takes that  *)
(* the connection is held once and that an entry and a leave alternate.    *)
THEOREM CheckerFollowsDriver == Spec => []CheckerFollowsOnlyPath
BY AlwaysWhole, WholeCheckerFollows, PTL

Counted == events \in 0..MaxEvents

LEMMA WholeTyped == ASSUME Whole, Counted PROVE TypeOK
<1>1. /\ live \subseteq Path /\ suspended \subseteq live /\ cur \in live \cup {Nil}
      /\ slots \in 0..MaxSlots /\ handle \in BOOLEAN
      /\ loadedModules \in BOOLEAN /\ callers \in BOOLEAN
  BY LiveArePaths DEF Whole, Ordered
<1>2. nextPath \in 1..(MaxPaths + 1)
  BY DriverAssumption, SMTT(30) DEF Whole, Ordered
<1>3. ASSUME NEW i \in Path
      PROVE  /\ Esp(st[i]) \in Depth /\ \A d \in 1..Esp(st[i]) : st[i].stack[d] \in Frame
             /\ st[i].descs \subseteq Path \X Module
             /\ \A r \in st[i].regions : r \in Region
  <2> PICK p : p = st[i]
    OBVIOUS
  <2>1. Owned(p, i) /\ Paired(p.stack, p.rets) /\ Kept(p, i)
    BY DEF Whole, Inv, PathOK
  <2>2. Esp(p) \in Depth /\ \A d \in 1..Esp(p) : p.stack[d] \in Frame
    BY <2>1, SMT DEF Paired, Esp
  <2>3. p.descs \subseteq Path \X Module
    BY <2>1 DEF Owned
  <2>4. \A r \in p.regions : r \in Region
    BY <2>1 DEF Kept, Args
  <2> QED BY <2>2, <2>3, <2>4
<1> QED BY <1>1, <1>2, <1>3 DEF Counted, TypeOK

LEMMA EventsBounded == Spec => []Counted
<1>1. Init => Counted
  BY DriverAssumption, SMT DEF Init, Counted
<1>2. ASSUME Counted, [Next]_vars PROVE Counted'
  <2>1. events' = events \/ (events < MaxEvents /\ events' = events + 1)
    BY <1>2 DEF Next, Event, vars
  <2> QED BY <1>2, <2>1, DriverAssumption, SMT DEF Counted
<1> QED BY <1>1, <1>2, PTL DEF Spec

(* Types, for any number of paths, modules and nested calls. *)
THEOREM TypesHold == Spec => []TypeOK
BY AlwaysWhole, EventsBounded, WholeTyped, PTL
=============================================================================
