-------------------------- MODULE StateTreeProofs --------------------------
(***************************************************************************)
(* The flags of the tree are the leaves that may run, and what lies above  *)
(* them, whatever order states are forked, suspended, resumed and deleted  *)
(* in.                                                                     *)
(*                                                                         *)
(* ActiveIsExact speaks of all the descendants of a node, and an operation *)
(* changes the flags on one path to the root only. Flagged is its local    *)
(* form: a leaf is active when its state may run, and another node when    *)
(* one of its children is. Tree(t, L, A) adds the shape of the tree, with  *)
(* L its leaves and A those that may run; the operations of PTree each     *)
(* take a Tree to a Tree (SplitTree, DeactivateTree, ActivateTree,         *)
(* RemoveTree, DeletedTree). TreeInv says that L are the nodes of the      *)
(* states, SetInv which lists a state can be on.                           *)
(*                                                                         *)
(* Children are allocated after their parents, so what a climb visits and  *)
(* what is below a node is shown with the least, or the largest, node that *)
(* would be an exception. From Flagged it follows that the walk of         *)
(* RandomPathSearcher ends, and ends in A (WalkEnds): without it           *)
(* SelectNextState could choose a state that may not run, and SetInv would *)
(* not be kept.                                                            *)
(***************************************************************************)
EXTENDS StateTree, FiniteSetTheorems, TLAPS

(* Zenon is the prover of a step unless it names another: SMT has those    *)
(* that need arithmetic or the extensionality of sets and records.         *)
USE Zenon

(* A set of numbers that is not empty has a least one.                     *)
LEMMA LeastExists ==
    ASSUME NEW B \in SUBSET Nat, B # {}
    PROVE  \E k \in B : \A m \in B : k <= m
<1>1. PICK k \in B : \A m \in B : ~(<<m, k>> \in OpToRel(<, Nat))
  BY NatLessThanWellFounded, WFMin
<1>2. \A m \in B : ~(m < k)
  BY <1>1 DEF OpToRel
<1> QED BY <1>2, SMT

-----------------------------------------------------------------------------
(* The climb from a node.  A parent was allocated before its children.     *)

Grown(t) == /\ DOMAIN t.parent \subseteq Node
            /\ \A c \in DOMAIN t.parent \ {1} : t.parent[c] \in DOMAIN t.parent /\ t.parent[c] < c
            /\ 1 \in DOMAIN t.parent => t.parent[1] = Nil

(* Nil, which is 0, is not a node.                                         *)
LEMMA NodesAreNumbers == Node \subseteq Nat \ {0}
BY TreeAssumption, SMTT(30) DEF Node

(* The tree has one root, the node that was allocated first.               *)
LEMMA RootIsFirst == ASSUME NEW t, Grown(t)
                     PROVE  \A c \in DOMAIN t.parent : c \in Roots(t) <=> c = 1
BY NodesAreNumbers DEF Grown, Roots, Nil

(* The climb is well defined. *)
LEMMA ClimbStep ==
    ASSUME NEW t, NEW stop, \A c \in DOMAIN t.parent \ stop : t.parent[c] \in DOMAIN t.parent
    PROVE  \A c \in DOMAIN t.parent :
              Climb(t, c, stop) = {c} \cup (IF c \in stop THEN {} ELSE Climb(t, t.parent[c], stop))
<1> DEFINE D == DOMAIN t.parent
           p == t.parent
           Closed(S) == \A y \in S : y \notin stop => p[y] \in S
           U == [c \in D |-> {x \in D : \A S \in SUBSET D : c \in S /\ Closed(S) => x \in S}]
           Eqn(f) == f = [c \in D |-> {c} \cup (IF c \in stop THEN {} ELSE f[p[c]])]
           up == CHOOSE f : Eqn(f)
<1>1. \A c \in D, x \in D : x \in U[c] <=> \A S \in SUBSET D : c \in S /\ Closed(S) => x \in S
  BY DEF U
<1>2. \A c \in D : U[c] \subseteq D /\ c \in U[c] /\ Closed(U[c])
  OBVIOUS
<1>3. ASSUME NEW c \in D PROVE U[c] = {c} \cup (IF c \in stop THEN {} ELSE U[p[c]])
  <2> DEFINE V == {c} \cup (IF c \in stop THEN {} ELSE U[p[c]])
  <2>1. V \in SUBSET D /\ c \in V /\ Closed(V)
    BY <1>2, SMT
  <2>2. U[c] \subseteq V
    <3> HIDE DEF U, V, Closed
    <3> QED BY <2>1, <1>1, <1>2
  <2>3. V \subseteq U[c]
    BY <1>1, <1>2, SMT
  <2> QED BY <2>2, <2>3
<1>4. Eqn(U)
  <2> HIDE DEF U
  <2>1. U = [c \in D |-> U[c]]
    BY DEF U
  <2> QED BY <2>1, <1>3
<1>5. Eqn(up)
  <2> HIDE DEF U, Eqn
  <2> QED BY <1>4
<1>6. \A c : Climb(t, c, stop) = up[c]
  BY DEF Climb
<1> HIDE DEF up
<1>7. \A c \in D : up[c] = {c} \cup (IF c \in stop THEN {} ELSE up[p[c]])
  BY <1>5
<1> QED BY <1>6, <1>7

(* The climb never leaves a set that has its start and is closed under it. *)
LEMMA ClimbLeast ==
    ASSUME NEW t, Grown(t), NEW stop, Roots(t) \subseteq stop, NEW S,
           \A y \in (S \cap DOMAIN t.parent) \ stop : t.parent[y] \in S
    PROVE  \A n \in S \cap DOMAIN t.parent : Climb(t, n, stop) \subseteq S \cap DOMAIN t.parent
<1> DEFINE D == DOMAIN t.parent
           p == t.parent
           K(n) == Climb(t, n, stop)
           Bad == {n \in S \cap D : ~(K(n) \subseteq S \cap D)}
<1>1. \A c \in D \ stop : p[c] \in D /\ p[c] < c
  BY RootIsFirst DEF Grown
<1>2. \A c \in D : K(c) = {c} \cup (IF c \in stop THEN {} ELSE K(p[c]))
  BY <1>1, ClimbStep
<1>3. D \subseteq Nat
  BY NodesAreNumbers DEF Grown
<1> HIDE DEF K, D, p
<1>4. ASSUME NEW n \in Bad, \A m \in Bad : n <= m PROVE FALSE
  <2>1. n \notin stop /\ ~(K(p[n]) \subseteq S \cap D)
    BY <1>2
  <2>2. p[n] \in S \cap D /\ p[n] < n
    BY <2>1, <1>1 DEF p, D
  <2>3. p[n] \in Bad
    BY <2>1, <2>2
  <2>4. n \in Nat /\ p[n] \in Nat
    BY <2>2, <1>3
  <2> HIDE DEF Bad
  <2> QED BY <2>2, <2>3, <2>4, <1>4, SMT
<1>5. Bad = {}
  BY <1>3, <1>4, LeastExists
<1> QED BY <1>5 DEF K, D

(* What a climb consists of: its nodes are its start and the parents of    *)
(* its nodes, and of the children of a node it visits one at most.         *)
Path(t, n, stop, C) ==
    /\ n \in C /\ C \subseteq DOMAIN t.parent
    /\ \A x \in C \ stop : t.parent[x] \in C
    /\ \A x \in C \ {n} : \E y \in C \ stop : x = t.parent[y]
    /\ \A x, y \in C \ {1} : t.parent[x] = t.parent[y] => x = y

(* Every climb is a path.                                                  *)
LEMMA ClimbIsPath ==
    ASSUME NEW t, Grown(t), NEW stop, Roots(t) \subseteq stop
    PROVE  \A n \in DOMAIN t.parent : Path(t, n, stop, Climb(t, n, stop))
<1> DEFINE D == DOMAIN t.parent
           p == t.parent
           K(n) == Climb(t, n, stop)
           Below(n) == \A x \in K(n) : x <= n
           Bad == {n \in D : ~(Below(n) /\ Path(t, n, stop, K(n)))}
<1>1. \A c \in D \ stop : p[c] \in D /\ p[c] < c
  BY RootIsFirst DEF Grown
<1>2. \A c \in D : K(c) = {c} \cup (IF c \in stop THEN {} ELSE K(p[c]))
  BY <1>1, ClimbStep
<1>3. D \subseteq Nat /\ \A c \in D \ {1} : p[c] \in D /\ p[c] < c
  BY NodesAreNumbers DEF Grown
<1> HIDE DEF K
<1>4. ASSUME NEW n \in Bad, \A m \in Bad : n <= m PROVE FALSE
  <2>1. CASE n \in stop
    <3>1. K(n) = {n}
      BY <1>2, <2>1
    <3> QED BY <3>1, <2>1, <1>3, SMT DEF Path
  <2>2. CASE n \notin stop
    <3> PICK m : m = p[n]
      OBVIOUS
    <3>1. m \in D /\ m < n /\ K(n) = {n} \cup K(m)
      BY <1>1, <1>2, <2>2
    <3>2. Below(m) /\ Path(t, m, stop, K(m))
      BY <3>1, <1>3, <1>4, SMT
    <3>3. K(m) \subseteq D /\ \A x \in K(m) : x < n
      BY <3>1, <3>2, <1>3, SMT DEF Path
    <3>4. Below(n)
      BY <3>1, <3>3, <1>3, SMT
    <3>5. n \in K(n) /\ K(n) \subseteq D
      BY <3>1, <3>3
    <3>6. \A x \in K(n) \ stop : p[x] \in K(n)
      BY <3>1, <3>2 DEF Path
    <3>7. \A x \in K(n) \ {n} : \E y \in K(n) \ stop : x = p[y]
      BY <3>1, <3>2, <2>2 DEF Path
    <3>8. ASSUME NEW y \in K(m) \ {1}, p[n] = p[y] PROVE FALSE
      BY <3>1, <3>2, <3>3, <3>8, <1>3, SMT
    <3>9. \A x, y \in K(n) \ {1} : p[x] = p[y] => x = y
      BY <3>1, <3>2, <3>8 DEF Path
    <3> QED BY <3>4, <3>5, <3>6, <3>7, <3>9 DEF Path
  <2> QED BY <2>1, <2>2
<1>5. Bad = {}
  BY <1>3, <1>4, LeastExists
<1> QED BY <1>5 DEF K

-----------------------------------------------------------------------------
(* Trees: every node but the first has a parent, no node has more than two *)
(* children.  Flagged(t, A): a leaf is active when it is in A, and another *)
(* node when one of its children is.  This says of every node what          *)
(* ActiveIsExact says of the whole tree, and is what an operation keeps.   *)

Leaves(t) == {n \in DOMAIN t.parent : Children(t, n) = {}}

Flagged(t, A) ==
    \A n \in DOMAIN t.parent :
       n \in t.active <=> IF n \in Leaves(t) THEN n \in A ELSE Children(t, n) \cap t.active # {}

Tree(t, L, A) ==
    /\ t = [parent |-> t.parent, active |-> t.active]
    /\ t.parent = [c \in DOMAIN t.parent |-> t.parent[c]]
    /\ Grown(t)
    /\ \A n \in DOMAIN t.parent : \E a, b : Children(t, n) \subseteq {a, b}
    /\ L = Leaves(t) /\ A \subseteq L
    /\ t.active \subseteq DOMAIN t.parent /\ Flagged(t, A)

(* Only the start of a climb is a leaf. *)
LEMMA LeafInPath ==
    ASSUME NEW t, NEW n, NEW stop, NEW C, Path(t, n, stop, C)
    PROVE  \A x \in C \cap Leaves(t) : x = n
BY DEF Path, Leaves, Children

(* PTree::split, on a node that is active as it asserts. *)
LEMMA SplitTree ==
    ASSUME NEW t, NEW L, NEW A, Tree(t, L, A), NEW n \in A, NEW l \in Node, NEW r \in Node,
           l \notin DOMAIN t.parent, r \notin DOMAIN t.parent, l # r, n < l, n < r
    PROVE  Tree(Split(t, n, l, r), (L \ {n}) \cup {l, r}, (A \ {n}) \cup {l, r})
<1> DEFINE D == DOMAIN t.parent
           u == Split(t, n, l, r)
<1>1. /\ u = [parent |-> u.parent, active |-> u.active]
      /\ u.parent = [c \in D \cup {l, r} |-> IF c \in {l, r} THEN n ELSE t.parent[c]]
      /\ u.active = t.active \cup {l, r}
  BY DEF Split
<1> HIDE DEF u
<1>2. /\ DOMAIN u.parent = D \cup {l, r}
      /\ u.parent[l] = n /\ u.parent[r] = n /\ \A c \in D : u.parent[c] = t.parent[c]
      /\ u.parent = [c \in DOMAIN u.parent |-> u.parent[c]]
  BY <1>1
<1>3. n \in D /\ Children(t, n) = {} /\ n \in t.active
  BY DEF Tree, Leaves, Flagged
<1>4. l # 1 /\ r # 1 /\ l \in Nat /\ r \in Nat /\ n \in Nat \ {0} /\ l # Nil /\ r # Nil
  BY <1>3, NodesAreNumbers, SMT DEF Tree, Grown, Nil
<1>5. \A c \in D : t.parent[c] \in D \cup {Nil}
  BY DEF Tree, Grown
<1>6. Grown(u)
  BY <1>2, <1>3, <1>4, SMT DEF Tree, Grown
<1>7. /\ Children(u, n) = {l, r} /\ Children(u, l) = {} /\ Children(u, r) = {}
      /\ \A c \in D \ {n} : Children(u, c) = Children(t, c)
  BY <1>2, <1>3, <1>4, <1>5, SMT DEF Children
<1>8. \A c \in DOMAIN u.parent : \E a, b : Children(u, c) \subseteq {a, b}
  BY <1>2, <1>7, SMT DEF Tree
<1>9. Leaves(u) = (L \ {n}) \cup {l, r}
  BY <1>2, <1>3, <1>7 DEF Leaves, Tree
<1>10. \A c \in D : Children(t, c) \subseteq D
  BY DEF Children
<1>11. Flagged(u, (A \ {n}) \cup {l, r})
  BY <1>1, <1>2, <1>3, <1>7, <1>9, <1>10, SMT DEF Flagged, Tree, Leaves
<1>12. u.active \subseteq DOMAIN u.parent /\ (A \ {n}) \cup {l, r} \subseteq (L \ {n}) \cup {l, r}
  BY <1>1, <1>2 DEF Tree
<1>13. u = [parent |-> u.parent, active |-> u.active] /\ u.parent = [c \in DOMAIN u.parent |-> u.parent[c]]
  BY <1>1, <1>2
<1> QED BY <1>6, <1>8, <1>9, <1>11, <1>12, <1>13 DEF Tree, u

(* A step that changes flags only keeps the tree when it keeps the flags. *)
LEMMA FlagsOnly ==
    ASSUME NEW t, NEW L, NEW A, Tree(t, L, A), NEW u, NEW act, NEW B,
           u = [t EXCEPT !.active = act], act \subseteq DOMAIN t.parent, B \subseteq L,
           \A n \in L : n \in act <=> n \in B,
           \A n \in DOMAIN t.parent \ L : n \in act <=> Children(t, n) \cap act # {}
    PROVE  Tree(u, L, B)
<1>1. u = [parent |-> u.parent, active |-> u.active] /\ u.parent = t.parent /\ u.active = act
  BY DEF Tree
<1>2. \A n : Children(u, n) = Children(t, n)
  BY <1>1 DEF Children
<1>3. Leaves(u) = L /\ Leaves(t) = L
  BY <1>1, <1>2, SMT DEF Leaves, Tree
<1>4. Flagged(u, B)
  BY <1>1, <1>2, <1>3 DEF Flagged
<1>5. Grown(u)
  BY <1>1 DEF Grown, Tree
<1> QED BY <1>1, <1>2, <1>3, <1>4, <1>5, SMT DEF Tree

(* PTree::deactivate of a leaf. *)
LEMMA DeactivateTree ==
    ASSUME NEW t, NEW L, NEW A, Tree(t, L, A), NEW n \in L
    PROVE  Tree(Deactivate(t, n), L, A \ {n})
<1> DEFINE D == DOMAIN t.parent
           others(c) == (Children(t, t.parent[c]) \ {c}) \cap t.active
           stop == Roots(t) \cup {c \in D : others(c) # {}}
<1> PICK C : C = Climb(t, n, stop)
  OBVIOUS
<1>1. Deactivate(t, n) = [t EXCEPT !.active = t.active \ C]
  BY DEF Deactivate
<1>2. n \in D /\ L = Leaves(t) /\ Grown(t) /\ t.active \subseteq D /\ A \subseteq L /\ Flagged(t, A)
  BY DEF Tree, Leaves
<1>3. Path(t, n, stop, C)
  BY <1>2, ClimbIsPath
<1>4. \A x \in C \cap L : x = n
  BY <1>2, <1>3, LeafInPath, SMT
<1>5. n \in C
  BY <1>3 DEF Path
<1>6. \A m \in L : m \in t.active \ C <=> m \in A \ {n}
  BY <1>2, <1>4, <1>5 DEF Flagged, Leaves
<1>7. ASSUME NEW m \in D \ L, m \in t.active \ C PROVE Children(t, m) \cap (t.active \ C) # {}
  <2>1. PICK k \in Children(t, m) : k \in t.active
    BY <1>2, <1>7, SMT DEF Flagged
  <2>2. k \in D /\ t.parent[k] = m /\ m # Nil /\ k # 1
    BY <1>2, <2>1, NodesAreNumbers DEF Children, Grown, Nil
  <2>3. CASE k \in C
    <3>1. k \in stop /\ k \notin Roots(t)
      BY <1>3, <1>7, <2>2, <2>3 DEF Path, Roots
    <3>2. PICK j \in Children(t, m) \ {k} : j \in t.active
      BY <2>2, <3>1
    <3>3. j \in D /\ t.parent[j] = m /\ j # 1
      BY <1>2, <2>2, <3>2 DEF Children, Grown
    <3>4. j \notin C
      BY <1>3, <2>2, <2>3, <3>2, <3>3, SMT DEF Path
    <3> QED BY <3>2, <3>4
  <2> QED BY <2>1, <2>3
<1>8. ASSUME NEW m \in D \ L, NEW k \in Children(t, m) \cap (t.active \ C) PROVE m \in t.active \ C
  <2>1. m \in t.active
    BY <1>2 DEF Flagged
  <2>2. ASSUME m \in C PROVE FALSE
    <3>1. PICK y \in C \ stop : m = t.parent[y]
      BY <1>3, <2>2 DEF Path
    <3>2. y \in D /\ others(y) = {}
      BY <1>3, <3>1 DEF Path
    <3>3. k = y
      BY <3>1, <3>2
    <3> QED BY <3>1, <3>3
  <2> QED BY <2>1, <2>2
<1>9. t.active \ C \subseteq D /\ A \ {n} \subseteq L
  BY <1>2
<1> HIDE DEF stop, others
<1>10. \A m \in D \ L : m \in t.active \ C <=> Children(t, m) \cap (t.active \ C) # {}
  BY <1>7, <1>8
<1> QED BY <1>1, <1>6, <1>9, <1>10, FlagsOnly, ZenonT(30)

(* The way from a node up to the first one. *)
LEMMA UpwardsIsPath ==
    ASSUME NEW t, Grown(t), NEW n \in DOMAIN t.parent
    PROVE  Path(t, n, Roots(t), Upwards(t, n)) /\ 1 \in Upwards(t, n)
<1> DEFINE D == DOMAIN t.parent
           C == Upwards(t, n)
<1>1. Path(t, n, Roots(t), C)
  BY ClimbIsPath DEF Upwards
<1> HIDE DEF C
<1>2. C \subseteq Nat /\ C # {}
  BY <1>1, NodesAreNumbers DEF Path, Grown
<1>3. PICK k \in C : \A m \in C : k <= m
  BY <1>2, LeastExists
<1>4. ASSUME k # 1 PROVE FALSE
  <2>1. k \in D /\ k \notin Roots(t) /\ t.parent[k] < k /\ t.parent[k] \in D
    BY <1>1, <1>4, RootIsFirst DEF Path, Grown
  <2>2. t.parent[k] \in C
    BY <1>1, <2>1 DEF Path
  <2>3. t.parent[k] \in Nat /\ k \in Nat
    BY <1>2, <2>2
  <2> QED BY <1>3, <2>1, <2>2, <2>3, SMT
<1> QED BY <1>1, <1>3, <1>4 DEF C

(* PTree::activate of leaves. *)
LEMMA ActivateTree ==
    ASSUME NEW t, NEW L, NEW A, Tree(t, L, A), NEW N \in SUBSET L
    PROVE  Tree(Activate(t, N), L, A \cup N)
<1> DEFINE D == DOMAIN t.parent
           on == UNION {Upwards(t, n) : n \in N}
<1>1. Activate(t, N) = [t EXCEPT !.active = t.active \cup on]
  BY DEF Activate
<1>2. N \subseteq D /\ L = Leaves(t) /\ Grown(t) /\ t.active \subseteq D /\ A \subseteq L /\ Flagged(t, A)
  BY DEF Tree, Leaves
<1>3. \A n \in N : Path(t, n, Roots(t), Upwards(t, n))
  BY <1>2, UpwardsIsPath
<1>4. on \subseteq D
  BY <1>3, SMT DEF Path
<1>5. \A m \in L : m \in on <=> m \in N
  <2>1. \A n \in N : n \in Upwards(t, n)
    BY <1>3 DEF Path
  <2>2. \A n \in N : \A x \in Upwards(t, n) \cap L : x = n
    BY <1>2, <1>3, LeafInPath
  <2> QED BY <2>1, <2>2, SMT
<1>6. ASSUME NEW m \in on \ L PROVE Children(t, m) \cap on # {}
  <2>1. PICK n \in N : m \in Upwards(t, n)
    OBVIOUS
  <2>2. PICK y \in Upwards(t, n) : m = t.parent[y] /\ y \in D
    BY <1>3, <2>1, <1>6, SMT DEF Path
  <2> QED BY <2>2, SMT DEF Children
<1>7. ASSUME NEW m \in D, NEW k \in Children(t, m) \cap on PROVE m \in on
  <2>1. PICK n \in N : k \in Upwards(t, n)
    OBVIOUS
  <2>2. k \notin Roots(t) /\ t.parent[k] = m
    BY <1>2, NodesAreNumbers DEF Children, Roots, Grown, Nil
  <2> QED BY <1>3, <2>1, <2>2, SMT DEF Path
<1> HIDE DEF on
<1>8. \A m \in L : m \in t.active \cup on <=> m \in A \cup N
  BY <1>2, <1>5 DEF Flagged, Leaves
<1>9. \A m \in D \ L : m \in t.active \cup on <=> Children(t, m) \cap (t.active \cup on) # {}
  BY <1>2, <1>6, <1>7, SMT DEF Flagged
<1>10. t.active \cup on \subseteq D /\ A \cup N \subseteq L
  BY <1>2, <1>4
<1> QED BY <1>1, <1>8, <1>9, <1>10, FlagsOnly, ZenonT(30)

(* PTree::remove of a leaf. *)
LEMMA RemoveTree ==
    ASSUME NEW t, NEW L, NEW A, Tree(t, L, A), NEW n \in L
    PROVE  Tree(Remove(t, n), L \ {n}, A \ {n})
<1> DEFINE D == DOMAIN t.parent
           stop == Roots(t) \cup {c \in D : Children(t, t.parent[c]) # {c}}
<1> PICK G : G = Climb(t, n, stop)
  OBVIOUS
<1> PICK act : act = Deactivate(t, n).active
  OBVIOUS
<1> PICK u : u = Remove(t, n)
  OBVIOUS
<1>1. u = [parent |-> [c \in D \ G |-> t.parent[c]], active |-> act \ G]
  BY DEF Remove
<1>2. n \in D /\ L = Leaves(t) /\ Grown(t) /\ A \subseteq L
  BY DEF Tree, Leaves
<1>3. Path(t, n, stop, G)
  BY <1>2, ClimbIsPath
<1>4. \A x \in G \cap L : x = n
  BY <1>2, <1>3, LeafInPath, SMT
<1>5. n \in G /\ G \subseteq D
  BY <1>3 DEF Path
<1>6. /\ act \subseteq D
      /\ \A m \in L : m \in act <=> m \in A \ {n}
      /\ \A m \in D \ L : m \in act <=> Children(t, m) \cap act # {}
  <2> PICK v : v = Deactivate(t, n)
    OBVIOUS
  <2>0. \E C : v = [t EXCEPT !.active = C]
    BY DEF Deactivate
  <2>1. v.parent = t.parent /\ v.active = act /\ Tree(v, L, A \ {n})
    <3>1. t = [parent |-> t.parent, active |-> t.active]
      BY DEF Tree
    <3>2. v.parent = t.parent
      BY <2>0, <3>1
    <3> QED BY <3>2, DeactivateTree
  <2>2. \A m : Children(v, m) = Children(t, m)
    BY <2>1 DEF Children
  <2>3. L = Leaves(v)
    BY <2>1 DEF Tree
  <2>4. v.active \subseteq DOMAIN v.parent /\ Flagged(v, A \ {n})
    BY <2>1 DEF Tree
  <2>5. ASSUME NEW m \in D
        PROVE  m \in act <=> IF m \in L THEN m \in A \ {n} ELSE Children(t, m) \cap act # {}
    BY <2>1, <2>2, <2>3, <2>4 DEF Flagged
  <2> QED BY <2>1, <2>4, <2>5, <1>2 DEF Leaves
<1>7. G \cap act = {}
  <2> DEFINE S == D \ act
  <2>1. n \in S
    BY <1>2, <1>6
  <2>2. ASSUME NEW y \in (S \cap D) \ stop PROVE t.parent[y] \in S
    <3>1. t.parent[y] \in D /\ Children(t, t.parent[y]) = {y}
      BY <1>2, RootIsFirst DEF Grown
    <3>2. t.parent[y] \notin L
      BY <1>2, <3>1 DEF Leaves
    <3> QED BY <1>6, <3>1, <3>2, SMT
  <2>3. G \subseteq S \cap D
    <3> HIDE DEF S, stop
    <3>1. Roots(t) \subseteq stop
      BY DEF stop
    <3> QED BY <1>2, <2>1, <2>2, <3>1, ClimbLeast, SMT
  <2> QED BY <2>3
<1>8. DOMAIN u.parent = D \ G /\ \A c \in D \ G : u.parent[c] = t.parent[c]
  BY <1>1, SMT
<1>9. \A m : Children(u, m) = Children(t, m) \ G
  BY <1>8 DEF Children
<1>10. ASSUME NEW m \in D \ G, NEW k \in Children(t, m) PROVE Children(t, m) \ G # {}
  <2>1. k \in D /\ t.parent[k] = m /\ m # Nil /\ k # 1 /\ k \notin Roots(t)
    BY <1>2, <1>10, NodesAreNumbers, RootIsFirst, SMT DEF Children, Grown, Nil
  <2>2. CASE k \in G
    <3>1. k \in stop
      BY <1>3, <1>10, <2>1, <2>2 DEF Path
    <3>2. PICK j \in Children(t, m) : j # k
      BY <2>1, <3>1, SMT DEF Children
    <3>3. j \in D /\ t.parent[j] = m /\ j # 1
      BY <1>2, <2>1, <3>2 DEF Children, Grown
    <3>4. j \notin G
      BY <1>3, <2>1, <2>2, <3>2, <3>3, SMTT(30) DEF Path
    <3> QED BY <3>2, <3>4
  <2> QED BY <2>2
<1>11. Leaves(u) = L \ {n}
  BY <1>2, <1>4, <1>5, <1>8, <1>9, <1>10, ZenonT(30) DEF Leaves
<1>12. ASSUME NEW c \in D \ G, c # 1 PROVE t.parent[c] \in D \ G
  <2>1. t.parent[c] \in D /\ c \in Children(t, t.parent[c])
    BY <1>2, <1>12 DEF Grown, Children
  <2>2. ASSUME t.parent[c] \in G PROVE FALSE
    <3>1. t.parent[c] # n
      BY <1>2, <2>1 DEF Leaves
    <3>2. PICK y \in G \ stop : t.parent[c] = t.parent[y]
      BY <1>3, <2>2, <3>1 DEF Path
    <3>3. Children(t, t.parent[c]) = {y}
      BY <1>5, <3>2
    <3> QED BY <2>1, <3>2, <3>3
  <2> QED BY <2>1, <2>2
<1> HIDE DEF stop
<1>13. Grown(u)
  BY <1>2, <1>8, <1>12 DEF Grown
<1>14. \A m \in DOMAIN u.parent : \E a, b : Children(u, m) \subseteq {a, b}
  BY <1>8, <1>9 DEF Tree
<1>15. u.active = act \ G /\ u.active \subseteq DOMAIN u.parent
  BY <1>1, <1>6, SMT
<1>16. Flagged(u, A \ {n})
  BY <1>2, <1>5, <1>6, <1>7, <1>8, <1>9, <1>11, <1>15, SMT DEF Flagged
<1>17. u = [parent |-> u.parent, active |-> u.active] /\ u.parent = [c \in DOMAIN u.parent |-> u.parent[c]]
  BY <1>1, SMT
<1>18. A \ {n} \subseteq L \ {n}
  BY <1>2
<1> QED BY <1>11, <1>13, <1>14, <1>15, <1>16, <1>17, <1>18, SMT DEF Tree

(* What is said of every node goes down the tree: by induction from the    *)
(* largest node to the smallest.                                           *)
LEMMA LargestExists ==
    ASSUME NEW B \in SUBSET Node, B # {}
    PROVE  \E k \in B : \A m \in B : m <= k
<1> DEFINE N == 2 * MaxStates - 1
           R == {N - k : k \in B}
<1>1. N \in Nat /\ \A k \in B : k \in Nat /\ k <= N
  BY TreeAssumption, SMT DEF Node
<1> HIDE DEF N
<1>2. R \in SUBSET Nat /\ R # {}
  BY <1>1, SMT
<1>3. PICK r \in R : \A q \in R : r <= q
  BY <1>2, LeastExists
<1>4. PICK k \in B : r = N - k
  OBVIOUS
<1>5. \A m \in B : r <= N - m
  BY <1>3
<1> QED BY <1>1, <1>4, <1>5, SMT

(* The leaves in A under n. *)
Under(t, A, n) == {a \in A : n \in Upwards(t, a)}

(* The ancestors of a leaf in A are active, and the leaves in A below a    *)
(* node are those below its active children.                               *)
LEMMA UnderFacts ==
    ASSUME NEW t, NEW L, NEW A, Tree(t, L, A)
    PROVE  /\ \A a \in A : Upwards(t, a) \subseteq t.active /\ 1 \in Upwards(t, a)
           /\ \A n \in L : n \in A => Under(t, A, n) = {n}
           /\ \A n \in DOMAIN t.parent \ L :
                 Under(t, A, n) = UNION {Under(t, A, k) : k \in Children(t, n) \cap t.active}
<1> DEFINE D == DOMAIN t.parent
<1>1. Grown(t) /\ L = Leaves(t) /\ A \subseteq L /\ L \subseteq D /\ t.active \subseteq D /\ Flagged(t, A)
  BY DEF Tree, Leaves
<1>2. \A a \in A : Path(t, a, Roots(t), Upwards(t, a)) /\ 1 \in Upwards(t, a)
  BY <1>1, UpwardsIsPath
<1>3. A \subseteq t.active
  BY <1>1 DEF Flagged
<1>4. ASSUME NEW y \in (t.active \cap D) \ Roots(t) PROVE t.parent[y] \in t.active
  <2>1. t.parent[y] \in D /\ y \in Children(t, t.parent[y])
    BY <1>1, RootIsFirst DEF Grown, Children
  <2>2. t.parent[y] \notin L
    BY <1>1, <2>1 DEF Leaves
  <2> QED BY <1>1, <2>1, <2>2 DEF Flagged
<1>5. \A a \in A : Upwards(t, a) \subseteq t.active
  BY <1>1, <1>3, <1>4, ClimbLeast DEF Upwards
<1>6. ASSUME NEW n \in L, n \in A PROVE Under(t, A, n) = {n}
  <2>1. \A a \in A : \A x \in Upwards(t, a) \cap L : x = a
    BY <1>1, <1>2, LeafInPath
  <2>2. n \in Upwards(t, n)
    BY <1>2, <1>6 DEF Path
  <2> QED BY <1>6, <2>1, <2>2 DEF Under
<1>7. ASSUME NEW n \in D \ L, NEW a \in A, n \in Upwards(t, a)
      PROVE  \E k \in Children(t, n) \cap t.active : k \in Upwards(t, a)
  <2>1. n # a
    BY <1>1
  <2>2. PICK y \in Upwards(t, a) : n = t.parent[y] /\ y \in D
    BY <1>2, <1>7, <2>1, SMT DEF Path
  <2> QED BY <1>5, <2>2 DEF Children
<1>8. ASSUME NEW n \in D \ L, NEW a \in A, NEW k \in Children(t, n), k \in Upwards(t, a)
      PROVE  n \in Upwards(t, a)
  <2>1. k \in D /\ t.parent[k] = n /\ k \notin Roots(t)
    BY <1>1, NodesAreNumbers DEF Children, Roots, Grown, Nil
  <2> QED BY <1>2, <1>8, <2>1 DEF Path
<1>9. ASSUME NEW n \in D \ L
      PROVE  Under(t, A, n) = UNION {Under(t, A, k) : k \in Children(t, n) \cap t.active}
  BY <1>7, <1>8, SMT DEF Under
<1> QED BY <1>2, <1>5, <1>6, <1>9

(* The flags of a tree are right as a whole. *)
LEMMA TreeActive ==
    ASSUME NEW t, NEW L, NEW A, Tree(t, L, A)
    PROVE  t.active = UNION {Upwards(t, a) : a \in A}
<1> DEFINE D == DOMAIN t.parent
           Bad == {n \in t.active : Under(t, A, n) = {}}
<1>1. Grown(t) /\ L = Leaves(t) /\ t.active \subseteq D /\ Flagged(t, A) /\ D \subseteq Node
  BY DEF Tree, Grown
<1>2. ASSUME NEW n \in Bad, \A m \in Bad : m <= n PROVE FALSE
  <2>1. n \notin L
    BY <1>1, UnderFacts, SMT DEF Flagged
  <2>2. PICK k \in Children(t, n) : k \in t.active
    BY <1>1, <2>1, SMT DEF Flagged
  <2>3. Under(t, A, k) = {}
    BY <1>1, <2>1, <2>2, UnderFacts, SMT
  <2>4. k \in D /\ t.parent[k] = n /\ n # Nil /\ k # 1
    BY <1>1, <2>2, NodesAreNumbers DEF Children, Grown, Nil
  <2>5. n < k /\ n \in Nat /\ k \in Nat
    BY <1>1, <2>4, NodesAreNumbers DEF Grown
  <2> QED BY <1>2, <2>2, <2>3, <2>5, SMT
<1>3. Bad = {}
  <2>1. Bad \in SUBSET Node
    BY <1>1
  <2> HIDE DEF Bad
  <2> QED BY <1>2, <2>1, LargestExists
<1>4. \A n \in t.active : \E a \in A : n \in Upwards(t, a)
  BY <1>3 DEF Under
<1> QED BY <1>4, UnderFacts, SMT

(* Where the walk of RandomPathSearcher goes on. *)
Open(t, n) == LET kids == Children(t, n)
              IN IF Cardinality(kids) = 2 /\ kids \cap t.active # {} THEN kids \cap t.active ELSE kids

(* It takes an active child when there is one. *)
LEMMA OpenIsActive ==
    ASSUME NEW t, NEW L, NEW A, Tree(t, L, A), NEW n \in t.active \ L
    PROVE  Open(t, n) = Children(t, n) \cap t.active
<1> PICK kids : kids = Children(t, n)
  OBVIOUS
<1>1. n \in DOMAIN t.parent /\ kids \cap t.active # {} /\ \E a, b : kids \subseteq {a, b}
  BY DEF Tree, Flagged
<1>2. PICK a, b : kids \subseteq {a, b}
  BY <1>1
<1>3. CASE a \in kids /\ b \in kids /\ a # b
  <2>1. kids = {a} \cup {b}
    BY <1>2, <1>3
  <2>2. IsFiniteSet({a}) /\ Cardinality({a}) = 1
    BY FS_Singleton
  <2>3. Cardinality({a} \cup {b}) = 1 + 1
    <3>1. b \notin {a}
      BY <1>3
    <3> QED BY <2>2, <3>1, FS_AddElement
  <2> QED BY <1>1, <2>1, <2>3, SMT DEF Open
<1>4. CASE ~(a \in kids /\ b \in kids /\ a # b)
  <2>1. \A x, y \in kids : x = y
    BY <1>2, <1>4
  <2> QED BY <1>1, <2>1 DEF Open
<1> QED BY <1>3, <1>4

(* The walk is well defined. *)
LEMMA WalkStep ==
    ASSUME NEW t
    PROVE  \E ends : /\ RandomPath(t) = ends[1]
                     /\ \A n \in DOMAIN t.parent :
                           ends[n] = IF Children(t, n) = {} THEN {n}
                                     ELSE UNION {ends[k] : k \in Open(t, n)}
<1> DEFINE D == DOMAIN t.parent
           Closed(S) == \A y \in S : Open(t, y) \subseteq S
           U == [n \in D |-> {x \in D : \A S \in SUBSET D : n \in S /\ Closed(S) => x \in S}]
           W == [n \in D |-> U[n] \cap Leaves(t)]
           Eqn(f) == f = [n \in D |-> IF Children(t, n) = {} THEN {n} ELSE UNION {f[k] : k \in Open(t, n)}]
           ends == CHOOSE f : Eqn(f)
<1>1. \A n \in D, x \in D : x \in U[n] <=> \A S \in SUBSET D : n \in S /\ Closed(S) => x \in S
  OBVIOUS
<1>2. \A n : Open(t, n) \subseteq Children(t, n) /\ Children(t, n) \subseteq D
  BY DEF Open, Children
<1>3. \A n \in D : U[n] \subseteq D /\ n \in U[n] /\ Closed(U[n])
  BY <1>2, SMT
<1> HIDE DEF U
<1>4. ASSUME NEW n \in D PROVE U[n] = {n} \cup UNION {U[k] : k \in Open(t, n)}
  <2> DEFINE V == {n} \cup UNION {U[k] : k \in Open(t, n)}
  <2>1. V \in SUBSET D /\ n \in V /\ Closed(V)
    BY <1>2, <1>3, SMT
  <2>2. U[n] \subseteq V
    <3> HIDE DEF V, Closed
    <3> QED BY <2>1, <1>1, <1>3
  <2>3. ASSUME NEW k \in Open(t, n), NEW x \in U[k] PROVE x \in U[n]
    BY <1>1, <1>2, <1>3, SMT
  <2>4. V \subseteq U[n]
    BY <1>3, <2>3, SMT
  <2> QED BY <2>2, <2>4
<1>5. ASSUME NEW n \in D
      PROVE  W[n] = IF Children(t, n) = {} THEN {n} ELSE UNION {W[k] : k \in Open(t, n)}
  <2>1. CASE Children(t, n) = {}
    BY <1>2, <1>4, <2>1, SMT DEF Leaves
  <2>2. CASE Children(t, n) # {}
    <3>1. \A k \in Open(t, n) : W[k] = U[k] \cap Leaves(t)
      BY <1>2
    <3>2. n \notin Leaves(t)
      BY <2>2 DEF Leaves
    <3>3. UNION {W[k] : k \in Open(t, n)} = (UNION {U[k] : k \in Open(t, n)}) \cap Leaves(t)
      <4> HIDE DEF W
      <4> QED BY <3>1, SMT
    <3>4. W[n] = U[n] \cap Leaves(t)
      OBVIOUS
    <3> HIDE DEF W
    <3> QED BY <1>4, <2>2, <3>2, <3>3, <3>4, SMT
  <2> QED BY <2>1, <2>2
<1>6. Eqn(W)
  <2> HIDE DEF W
  <2>1. W = [n \in D |-> W[n]]
    BY DEF W
  <2> QED BY <2>1, <1>5
<1>7. Eqn(ends)
  <2> HIDE DEF W, Eqn
  <2> QED BY <1>6
<1>8. RandomPath(t) = ends[1]
  BY DEF RandomPath, Open
<1> HIDE DEF ends
<1>9. \A n \in D : ends[n] = IF Children(t, n) = {} THEN {n} ELSE UNION {ends[k] : k \in Open(t, n)}
  BY <1>7
<1> QED BY <1>8, <1>9

(* A walk ends in an active leaf, and can end in each of them. *)
LEMMA WalkEnds ==
    ASSUME NEW t, NEW L, NEW A, Tree(t, L, A), A # {}
    PROVE  RandomPath(t) = A
<1> DEFINE D == DOMAIN t.parent
<1>0. \A n \in L : n \in A => Under(t, A, n) = {n}
  BY UnderFacts, SMT
<1>1. Grown(t) /\ L = Leaves(t) /\ A \subseteq L /\ t.active \subseteq D /\ Flagged(t, A) /\ D \subseteq Node
  BY DEF Tree, Grown
<1>2. PICK ends : /\ RandomPath(t) = ends[1]
                  /\ \A n \in D : ends[n] = IF Children(t, n) = {} THEN {n}
                                            ELSE UNION {ends[k] : k \in Open(t, n)}
  BY WalkStep, ZenonT(30)
<1> DEFINE Bad == {n \in t.active : ends[n] # Under(t, A, n)}
<1>3. ASSUME NEW n \in Bad, \A m \in Bad : m <= n PROVE FALSE
  <2>1. CASE n \in L
    <3>1. ends[n] = {n} /\ n \in A
      BY <1>1, <1>2, <2>1, ZenonT(30) DEF Leaves, Flagged
    <3>2. Under(t, A, n) = {n}
      BY <2>1, <3>1, <1>0, SMT
    <3> QED BY <3>1, <3>2
  <2>2. CASE n \notin L
    <3>1. n \in D /\ Children(t, n) # {}
      BY <1>1, <2>2 DEF Leaves
    <3>2. ends[n] = UNION {ends[k] : k \in Children(t, n) \cap t.active}
      BY <1>2, <2>2, <3>1, OpenIsActive, ZenonT(30)
    <3>3. ASSUME NEW k \in Children(t, n) \cap t.active PROVE ends[k] = Under(t, A, k)
      <4>1. k \in D /\ t.parent[k] = n /\ n # Nil /\ k # 1
        BY <1>1, <3>1, NodesAreNumbers, SMT DEF Children, Grown, Nil
      <4>2. n < k /\ n \in Nat /\ k \in Nat
        BY <1>1, <4>1, NodesAreNumbers DEF Grown
      <4> QED BY <1>3, <4>2, SMT
    <3>4. Under(t, A, n) = UNION {Under(t, A, k) : k \in Children(t, n) \cap t.active}
      BY <2>2, <3>1, UnderFacts, SMT
    <3>5. UNION {ends[k] : k \in Children(t, n) \cap t.active}
             = UNION {Under(t, A, k) : k \in Children(t, n) \cap t.active}
      BY <3>3
    <3>6. ends[n] = Under(t, A, n)
      BY <3>2, <3>4, <3>5, SMT
    <3> QED BY <3>6
  <2> QED BY <2>1, <2>2
<1>4. Bad = {}
  <2>1. Bad \in SUBSET Node
    BY <1>1
  <2> HIDE DEF Bad
  <2> QED BY <1>3, <2>1, LargestExists
<1>5. 1 \in t.active /\ Under(t, A, 1) = A
  BY UnderFacts DEF Under
<1> QED BY <1>2, <1>4, <1>5

(* The subsets of a finite set, and their sizes.                           *)
LEMMA SubsetsAreFinite ==
    ASSUME NEW S, IsFiniteSet(S)
    PROVE  \A s \in SUBSET S : /\ IsFiniteSet(s) /\ Cardinality(s) \in Nat
                              /\ Cardinality(s) <= Cardinality(S)
                              /\ \A x \in s : Cardinality(s \ {x}) = Cardinality(s) - 1
BY FS_Subset, FS_CardinalityType, FS_RemoveElement

(* The loop of updateStates over the removed states: del[s] is the tree    *)
(* without the states in s.                                                *)
Deletes(del, t, S) ==
    /\ Deleted(t, S) = del[S] /\ del[{}] = t
    /\ \A s \in SUBSET S : s # {} => \E x \in s : del[s] = Remove(del[s \ {x}], node[x])

(* It is well defined. *)
LEMMA DeletedStep ==
    ASSUME NEW t, NEW S, IsFiniteSet(S)
    PROVE  \E del : Deletes(del, t, S)
<1> DEFINE x(s) == CHOOSE e \in s : TRUE
           Step(f, s) == IF s = {} THEN t ELSE Remove(f[s \ {x(s)}], node[x(s)])
           Eqn(f) == f = [s \in SUBSET S |-> Step(f, s)]
           del == CHOOSE f : Eqn(f)
           Upto(f, k) == \A s \in SUBSET S : Cardinality(s) <= k => f[s] = Step(f, s)
           Missing == {k \in Nat : ~ \E f : Upto(f, k)}
<1>1. \A s \in SUBSET S : s # {} => x(s) \in s
  OBVIOUS
<1>2. \A s \in SUBSET S : IsFiniteSet(s) /\ Cardinality(s) \in Nat
  BY SubsetsAreFinite
<1>3. \A s \in SUBSET S : s # {} => /\ s \ {x(s)} \in SUBSET S
                                    /\ Cardinality(s \ {x(s)}) = Cardinality(s) - 1
  BY <1>1, SubsetsAreFinite
<1> HIDE DEF x
<1>4. ASSUME NEW k \in Missing, \A m \in Missing : k <= m PROVE FALSE
  <2>1. PICK f : \A s \in SUBSET S : Cardinality(s) < k => f[s] = Step(f, s)
    <3>1. CASE k = 0
      BY <1>2, <3>1, SMT
    <3>2. CASE k # 0
      <4>1. k - 1 \in Nat /\ k - 1 \notin Missing
        <5>1. k \in Nat
          OBVIOUS
        <5> HIDE DEF Missing
        <5> QED BY <1>4, <3>2, <5>1, SMT
      <4>2. PICK f : Upto(f, k - 1)
        BY <4>1
      <4> HIDE DEF Step
      <4>3. \A s \in SUBSET S : Cardinality(s) < k => Cardinality(s) <= k - 1
        BY <1>2, SMT
      <4> QED BY <4>2, <4>3
    <3> QED BY <3>1, <3>2
  <2> DEFINE g == [s \in SUBSET S |-> IF Cardinality(s) < k THEN f[s] ELSE Step(f, s)]
  <2>2. ASSUME NEW s \in SUBSET S, Cardinality(s) <= k PROVE g[s] = Step(g, s)
    <3>1. g[s] = Step(f, s)
      <4> HIDE DEF Step
      <4> QED BY <2>1
    <3>2. s # {} => g[s \ {x(s)}] = f[s \ {x(s)}]
      BY <1>2, <1>3, <2>2, SMTT(30)
    <3> HIDE DEF g
    <3> QED BY <3>1, <3>2
  <2>3. Upto(g, k)
    <3> HIDE DEF g, Step
    <3> QED BY <2>2
  <2> HIDE DEF g, Upto
  <2> QED BY <2>3
<1>5. Missing = {}
  <2>1. Missing \in SUBSET Nat
    OBVIOUS
  <2> HIDE DEF Missing
  <2> QED BY <1>4, <2>1, LeastExists
<1>6. \A s \in SUBSET S : Cardinality(s) <= Cardinality(S)
  BY SubsetsAreFinite
<1>7. Cardinality(S) \in Nat
  BY <1>2
<1>8. PICK f : Upto(f, Cardinality(S))
  <2> HIDE DEF Upto
  <2> QED BY <1>5, <1>7
<1> DEFINE h == [s \in SUBSET S |-> f[s]]
<1>9. Eqn(h)
  <2>1. ASSUME NEW s \in SUBSET S PROVE h[s] = Step(h, s)
    <3>1. h[s] = Step(f, s)
      <4> HIDE DEF Step
      <4> QED BY <1>6, <1>8
    <3>2. s # {} => h[s \ {x(s)}] = f[s \ {x(s)}]
      BY <1>3
    <3> HIDE DEF h
    <3> QED BY <3>1, <3>2
  <2>2. h = [s \in SUBSET S |-> h[s]]
    OBVIOUS
  <2> HIDE DEF h, Step
  <2> QED BY <2>1, <2>2
<1>10. Eqn(del)
  <2> HIDE DEF h, Eqn
  <2> QED BY <1>9
<1>11. Deleted(t, S) = del[S]
  BY DEF Deleted, FoldSet, MapThenFoldSet, x
<1> HIDE DEF del
<1>12. \A s \in SUBSET S : del[s] = Step(del, s)
  <2> HIDE DEF Step
  <2> QED BY <1>10
<1> QED BY <1>1, <1>11, <1>12, ZenonT(30) DEF Deletes

(* Deletion of the states in S: D are the states in the tree, R those that *)
(* are not suspended.                                                      *)
NodesOf(S) == {node[s] : s \in S}
Distinct(S) == \A a, b \in S : node[a] = node[b] => a = b

(* Deleting the leaves of several states, one after the other.             *)
LEMMA DeletedTree ==
    ASSUME NEW t, NEW D, NEW R, NEW S, IsFiniteSet(S), S \subseteq D, R \subseteq D,
           Distinct(D),
           Tree(t, NodesOf(D), NodesOf(R))
    PROVE  /\ Tree(Deleted(t, S), NodesOf(D \ S), NodesOf(R \ S))
           /\ DOMAIN Deleted(t, S).parent \subseteq DOMAIN t.parent
<1>1. PICK del : Deletes(del, t, S)
  BY DeletedStep
<1> DEFINE OK(s) == /\ Tree(del[s], NodesOf(D \ s), NodesOf(R \ s))
                    /\ DOMAIN del[s].parent \subseteq DOMAIN t.parent
           Bad == {k \in Nat : \E s \in SUBSET S : Cardinality(s) = k /\ ~OK(s)}
<1>2. \A s \in SUBSET S : IsFiniteSet(s) /\ Cardinality(s) \in Nat
  BY SubsetsAreFinite
<1>3. ASSUME NEW k \in Bad, \A m \in Bad : k <= m PROVE FALSE
  <2>1. PICK s \in SUBSET S : Cardinality(s) = k /\ ~OK(s)
    OBVIOUS
  <2>2. s # {}
    <3>1. NodesOf(D \ {}) = NodesOf(D) /\ NodesOf(R \ {}) = NodesOf(R)
      BY DEF NodesOf
    <3> QED BY <1>1, <2>1, <3>1 DEF Deletes
  <2>3. PICK x \in s : del[s] = Remove(del[s \ {x}], node[x])
    BY <1>1, <2>2 DEF Deletes
  <2>4. s \ {x} \in SUBSET S /\ Cardinality(s \ {x}) = k - 1 /\ k \in Nat /\ k - 1 \in Nat
    <3>1. s \ {x} \in SUBSET S /\ Cardinality(s \ {x}) = Cardinality(s) - 1
      BY SubsetsAreFinite
    <3>2. Cardinality(s) = k /\ Cardinality(s) \in Nat /\ Cardinality(s \ {x}) \in Nat
      BY <1>2, <2>1, <3>1
    <3> QED BY <3>1, <3>2
  <2>5. OK(s \ {x})
    <3> HIDE DEF OK
    <3>1. k - 1 \notin Bad
      <4> HIDE DEF Bad
      <4> QED BY <1>3, <2>4, SMT
    <3> QED BY <2>4, <3>1
  <2>6. NodesOf(D \ s) = NodesOf(D \ (s \ {x})) \ {node[x]}
    BY SMT DEF NodesOf, Distinct
  <2>7. NodesOf(R \ s) = NodesOf(R \ (s \ {x})) \ {node[x]}
    BY SMT DEF NodesOf, Distinct
  <2>8. node[x] \in NodesOf(D \ (s \ {x}))
    BY DEF NodesOf
  <2>9. OK(s)
    <3>1. Tree(Remove(del[s \ {x}], node[x]), NodesOf(D \ (s \ {x})) \ {node[x]},
                                             NodesOf(R \ (s \ {x})) \ {node[x]})
      BY <2>5, <2>8, RemoveTree, ZenonT(30)
    <3>2. DOMAIN Remove(del[s \ {x}], node[x]).parent \subseteq DOMAIN del[s \ {x}].parent
      BY DEF Remove
    <3> QED BY <2>3, <2>5, <2>6, <2>7, <3>1, <3>2, ZenonT(30)
  <2> QED BY <2>1, <2>9
<1>4. Bad = {}
  <2>1. Bad \in SUBSET Nat
    OBVIOUS
  <2> HIDE DEF Bad
  <2> QED BY <1>3, <2>1, LeastExists
<1>5. OK(S)
  <2> HIDE DEF OK
  <2> QED BY <1>2, <1>4
<1> QED BY <1>1, <1>5 DEF Deletes

-----------------------------------------------------------------------------
(* What every step keeps: where the states are, and the tree. *)

SetInv ==
    /\ phase \in {"run", "leave", "select", "exit"} /\ nextId \in 2..(MaxStates + 1)
    /\ DOMAIN node = states \cup addedStates \cup succeeded /\ DOMAIN node \subseteq 1..(nextId - 1)
    /\ states \cap addedStates = {} /\ states \cap succeeded = {} /\ addedStates \cap succeeded = {}
    /\ removedStates \subseteq states /\ searcher = states
    /\ phase = "run" => cur \in states \ removedStates
    /\ phase = "select" => states # {} /\ addedStates = {} /\ removedStates = {}

TreeInv ==
    /\ nextNode = 2 * nextId - 2 /\ DOMAIN tree.parent \subseteq 1..(nextNode - 1)
    /\ Distinct(DOMAIN node)
    /\ Tree(tree, NodesOf(DOMAIN node), NodesOf(DOMAIN node \ succeeded))

Inv == SetInv /\ TreeInv

(* The initial state is on the list of states and on no other.             *)
LEMMA SetInitially == Init => SetInv
BY TreeAssumption, SMTT(30) DEF Init, SetInv

(* A state that the walk of RandomPathSearcher can choose may run. *)
LEMMA WalkChooses ==
    ASSUME Inv, states # {}
    PROVE  {s \in DOMAIN node : node[s] \in RandomPath(tree)} = states \cup addedStates
<1>1. DOMAIN node \ succeeded = states \cup addedStates
  BY DEF Inv, SetInv
<1>2. NodesOf(DOMAIN node \ succeeded) # {}
  BY <1>1 DEF NodesOf
<1>3. RandomPath(tree) = NodesOf(DOMAIN node \ succeeded)
  BY <1>2, WalkEnds DEF Inv, TreeInv
<1>4. \A s \in DOMAIN node : node[s] \in NodesOf(DOMAIN node \ succeeded) => s \in DOMAIN node \ succeeded
  BY DEF NodesOf, Distinct, Inv, TreeInv
<1>5. \A s \in DOMAIN node \ succeeded : node[s] \in NodesOf(DOMAIN node \ succeeded)
  BY DEF NodesOf
<1> QED BY <1>1, <1>3, <1>4, <1>5

(* Every step moves states between the lists as SetInv says.               *)
LEMMA SetNext == ASSUME Inv, [Next]_vars PROVE SetInv'
<1>0. MaxStates \in Nat \ {0} /\ nextId \in Nat /\ SetInv
  BY TreeAssumption, SMT DEF Inv, SetInv
<1>1. ASSUME NEW s \in DOMAIN node, Fork(s) PROVE SetInv'
  BY <1>0, <1>1, SMT DEF Fork, SetInv, State
<1>2. ASSUME NEW s \in DOMAIN node, TerminateState(s) PROVE SetInv'
  BY <1>0, <1>2, SMTT(30) DEF TerminateState, ToResume, SetInv
<1>3. ASSUME NEW s \in DOMAIN node, SelectNextState(s) PROVE SetInv'
  <2>1. s \in states
    BY <1>0, <1>3, WalkChooses, SMT DEF SelectNextState, SetInv
  <2> QED BY <1>0, <1>3, <2>1 DEF SelectNextState, SetInv
<1>4. ASSUME SuspendState PROVE SetInv'
  BY <1>0, <1>4, SMT DEF SuspendState, SetInv
<1>5. ASSUME UpdateStates PROVE SetInv'
  BY <1>0, <1>5, SMTT(30) DEF UpdateStates, Updated, SetInv
<1>6. ASSUME NEW R \in SUBSET succeeded, NEW K \in SUBSET (states \cup addedStates \cup R),
             EnterSelect(R, K)
      PROVE  SetInv'
  BY <1>0, <1>6, SMT DEF EnterSelect, Updated, SetInv
<1>7. ASSUME UNCHANGED vars PROVE SetInv'
  BY <1>0, <1>7, SMT DEF vars, SetInv
<1> QED BY <1>1, <1>2, <1>3, <1>4, <1>5, <1>6, <1>7, SMTT(30) DEF Next

(* The initial tree is one active node, that of the initial state.         *)
LEMMA TreeInitially == Init => TreeInv
<1> SUFFICES ASSUME Init PROVE TreeInv
  OBVIOUS
<1>1. /\ tree = [parent |-> tree.parent, active |-> tree.active] /\ tree.active = {1}
      /\ tree.parent = [n \in {1} |-> Nil] /\ DOMAIN tree.parent = {1} /\ tree.parent[1] = Nil
  BY DEF Init
<1>2. Children(tree, 1) = {}
  BY <1>1, SMT DEF Children, Nil
<1>3. Leaves(tree) = {1}
  BY <1>1, <1>2, SMT DEF Leaves
<1>4. Grown(tree)
  BY <1>1, TreeAssumption, SMT DEF Grown, Node
<1>5. DOMAIN node = {1} /\ node[1] = 1 /\ nextNode = 2 /\ nextId = 2 /\ succeeded = {}
  BY DEF Init
<1>6. NodesOf(DOMAIN node) = {1} /\ NodesOf(DOMAIN node \ succeeded) = {1} /\ Distinct(DOMAIN node)
  BY <1>5 DEF NodesOf, Distinct
<1>7. Flagged(tree, {1})
  BY <1>1, <1>3 DEF Flagged
<1>8. Tree(tree, {1}, {1})
  BY <1>1, <1>2, <1>3, <1>4, <1>7, SMT DEF Tree
<1>9. DOMAIN tree.parent \subseteq 1..(nextNode - 1) /\ nextNode = 2 * nextId - 2
  BY <1>1, <1>5, SMTT(30)
<1> QED BY <1>6, <1>8, <1>9, ZenonT(30) DEF TreeInv

(* fork splits the leaf of the state that forks; both children may run.    *)
LEMMA TreeFork == ASSUME Inv, NEW s \in DOMAIN node, Fork(s) PROVE TreeInv'
<1>1. /\ nextId' = nextId + 1 /\ nextNode' = nextNode + 2 /\ succeeded' = succeeded
      /\ tree' = Split(tree, node[s], nextNode, nextNode + 1)
      /\ node' = [r \in DOMAIN node \cup {nextId} |->
                    IF r = nextId THEN nextNode ELSE IF r = s THEN nextNode + 1 ELSE node[r]]
  BY DEF Fork
<1>2. /\ s \in DOMAIN node \ succeeded
      /\ nextId \in State /\ nextId \notin DOMAIN node /\ nextId \notin succeeded
  BY SMT DEF Fork, Inv, SetInv, State
<1>3. /\ nextId \in Nat /\ nextNode \in Nat /\ nextNode \in Node /\ nextNode + 1 \in Node
      /\ nextNode + 2 = 2 * (nextId + 1) - 2
  BY <1>2, TreeAssumption, SMT DEF Inv, SetInv, TreeInv, State, Node
<1> DEFINE L == NodesOf(DOMAIN node)
           A == NodesOf(DOMAIN node \ succeeded)
           n == node[s]
           l == nextNode
           r == nextNode + 1
<1>4. Tree(tree, L, A) /\ Distinct(DOMAIN node) /\ n \in A /\ DOMAIN tree.parent \subseteq 1..(nextNode - 1)
  BY <1>2 DEF Inv, TreeInv, NodesOf
<1>5. L \subseteq DOMAIN tree.parent /\ A \subseteq L
  BY <1>4, SMTT(30) DEF Tree, Leaves
<1>6. l \notin DOMAIN tree.parent /\ r \notin DOMAIN tree.parent /\ l # r /\ n < l /\ n < r
  <2>1. n \in 1..(nextNode - 1) /\ \A c \in DOMAIN tree.parent : c \in 1..(nextNode - 1)
    BY <1>4, <1>5, SMTT(30)
  <2>2. \A c \in 1..(nextNode - 1) : c < l /\ c < r /\ c # l /\ c # r
    BY <1>3, SMT
  <2>3. l # r
    BY <1>3, SMTT(30)
  <2> HIDE DEF n, l, r
  <2> QED BY <2>1, <2>2, <2>3, SMT
<1>7. Tree(tree', (L \ {n}) \cup {l, r}, (A \ {n}) \cup {l, r})
  BY <1>1, <1>3, <1>4, <1>6, SplitTree, ZenonT(30)
<1>8. \A q \in DOMAIN node : node[q] \in L
  BY DEF NodesOf
<1>9. /\ DOMAIN node' = DOMAIN node \cup {nextId} /\ node'[nextId] = l /\ node'[s] = r
      /\ \A q \in DOMAIN node \ {s} : node'[q] = node[q] /\ node[q] # n
  BY <1>1, <1>2, <1>4, SMT DEF Distinct
<1>10. NodesOf(DOMAIN node)' = (L \ {n}) \cup {l, r}
  BY <1>2, <1>9, SMT DEF NodesOf
<1>11. NodesOf(DOMAIN node \ succeeded)' = (A \ {n}) \cup {l, r}
  BY <1>1, <1>2, <1>9, SMTT(30) DEF NodesOf
<1>12. Distinct(DOMAIN node)'
  <2>1. \A q \in DOMAIN node : node[q] # l /\ node[q] # r
    BY <1>5, <1>6, <1>8, SMTT(30)
  <2> SUFFICES ASSUME NEW a \in DOMAIN node', NEW b \in DOMAIN node', node'[a] = node'[b] PROVE a = b
    BY DEF Distinct
  <2> HIDE DEF l, r
  <2> QED BY <1>2, <1>4, <1>6, <1>9, <2>1, SMTT(30) DEF Distinct
<1>13. DOMAIN tree'.parent \subseteq 1..(nextNode' - 1)
  <2>1. DOMAIN tree'.parent = DOMAIN tree.parent \cup {l, r}
    BY <1>1, SMT DEF Split
  <2>2. nextNode' - 1 = nextNode + 1 /\ nextNode >= 1
    BY <1>1, <1>3, NodesAreNumbers, SMTT(30)
  <2> QED BY <1>3, <1>4, <2>1, <2>2, SMTT(30)
<1> QED BY <1>1, <1>3, <1>7, <1>10, <1>11, <1>12, <1>13, ZenonT(30) DEF TreeInv, Inv

(* The other steps take states out of the tree or change their flags. *)
LEMMA TreeShrinks ==
    ASSUME Inv, NEW D, D \subseteq DOMAIN node,
           DOMAIN node' = D, \A s \in D : node'[s] = node[s], nextId' = nextId, nextNode' = nextNode,
           DOMAIN tree'.parent \subseteq DOMAIN tree.parent,
           Tree(tree', NodesOf(D), NodesOf(D \ succeeded'))
    PROVE  TreeInv'
<1>1. NodesOf(DOMAIN node)' = NodesOf(D) /\ NodesOf(DOMAIN node \ succeeded)' = NodesOf(D \ succeeded')
  BY DEF NodesOf
<1>2. Distinct(DOMAIN node)'
  BY DEF Inv, TreeInv, Distinct
<1> QED BY <1>1, <1>2, SMTT(30) DEF TreeInv, Inv

(* Of the operations on the tree only split adds nodes.                    *)
LEMMA ParentsKept ==
    /\ \A t, n, L, A : Tree(t, L, A) => DOMAIN Deactivate(t, n).parent = DOMAIN t.parent
    /\ \A t, N, L, A : Tree(t, L, A) => DOMAIN Activate(t, N).parent = DOMAIN t.parent
    /\ \A t, n : DOMAIN Remove(t, n).parent \subseteq DOMAIN t.parent
<1>1. ASSUME NEW t, NEW L, NEW A, Tree(t, L, A), NEW act
      PROVE  [t EXCEPT !.active = act].parent = t.parent
  BY <1>1 DEF Tree
<1>2. ASSUME NEW t, NEW L, NEW A, Tree(t, L, A), NEW n
      PROVE  DOMAIN Deactivate(t, n).parent = DOMAIN t.parent
  BY <1>1, <1>2, SMT DEF Deactivate
<1>3. ASSUME NEW t, NEW L, NEW A, Tree(t, L, A), NEW N
      PROVE  DOMAIN Activate(t, N).parent = DOMAIN t.parent
  BY <1>1, <1>3, SMT DEF Activate
<1>4. ASSUME NEW t, NEW n PROVE DOMAIN Remove(t, n).parent \subseteq DOMAIN t.parent
  BY DEF Remove
<1> QED BY <1>2, <1>3, <1>4, SMT

(* Distinct nodes: those of the states that remain are those that remain.  *)
LEMMA NodesMinus ==
    ASSUME Inv, NEW D, D \subseteq DOMAIN node, NEW s \in DOMAIN node
    PROVE  NodesOf(D \ {s}) = NodesOf(D) \ {node[s]}
BY SMTT(30) DEF Inv, TreeInv, NodesOf, Distinct

(* suspendState deactivates the leaf of the current state.                 *)
LEMMA TreeSuspend == ASSUME Inv, SuspendState PROVE TreeInv'
<1>1. /\ cur \in DOMAIN node /\ tree' = Deactivate(tree, node[cur]) /\ succeeded' = succeeded \cup {cur}
      /\ node' = node /\ nextId' = nextId /\ nextNode' = nextNode
  BY DEF SuspendState, Inv, SetInv
<1>2. Tree(tree, NodesOf(DOMAIN node), NodesOf(DOMAIN node \ succeeded)) /\ node[cur] \in NodesOf(DOMAIN node)
  BY <1>1 DEF Inv, TreeInv, NodesOf
<1>3. DOMAIN node \ succeeded' = (DOMAIN node \ succeeded) \ {cur}
  BY <1>1, SMT
<1>4. NodesOf(DOMAIN node \ succeeded') = NodesOf(DOMAIN node \ succeeded) \ {node[cur]}
  BY <1>1, <1>3, NodesMinus, SMT
<1>5. Tree(tree', NodesOf(DOMAIN node), NodesOf(DOMAIN node \ succeeded'))
  BY <1>1, <1>2, <1>4, DeactivateTree, SMTT(30)
<1>6. DOMAIN tree'.parent \subseteq DOMAIN tree.parent
  BY <1>1, <1>2, ParentsKept
<1> QED BY <1>1, <1>5, <1>6, TreeShrinks

(* terminateState resumes a state that is suspended; one that was added    *)
(* since the last updateStates it deletes at once.                         *)
LEMMA TreeTerminate == ASSUME Inv, NEW s \in DOMAIN node, TerminateState(s) PROVE TreeInv'
<1>1. Tree(tree, NodesOf(DOMAIN node), NodesOf(DOMAIN node \ succeeded)) /\ node[s] \in NodesOf(DOMAIN node)
  BY DEF Inv, TreeInv, NodesOf
<1>2. succeeded' = succeeded \ {s} /\ nextId' = nextId /\ nextNode' = nextNode
  BY DEF TerminateState, ToResume
<1>3. CASE /\ s \notin addedStates /\ node' = node
           /\ tree' = Resumed(tree, ToResume(s))
  <2> DEFINE N == {node[r] : r \in ToResume(s)}
  <2>1. tree' = Activate(tree, N) /\ N \subseteq NodesOf(DOMAIN node)
    BY <1>3 DEF Resumed, ToResume, NodesOf
  <2>2. NodesOf(DOMAIN node \ succeeded') = NodesOf(DOMAIN node \ succeeded) \cup N
    BY <1>2 DEF NodesOf, ToResume
  <2> HIDE DEF N
  <2>3. Tree(tree', NodesOf(DOMAIN node), NodesOf(DOMAIN node \ succeeded'))
    <3>1. N \in SUBSET NodesOf(DOMAIN node)
      BY <2>1
    <3>2. Tree(Activate(tree, N), NodesOf(DOMAIN node), NodesOf(DOMAIN node \ succeeded) \cup N)
      BY <1>1, <3>1, ActivateTree, SMT
    <3> QED BY <2>1, <2>2, <3>2, SMTT(30)
  <2>4. DOMAIN tree'.parent \subseteq DOMAIN tree.parent
    BY <1>1, <2>1, ParentsKept, SMTT(30)
  <2> QED BY <1>2, <1>3, <2>3, <2>4, TreeShrinks, SMTT(30)
<1>4. CASE /\ s \in addedStates /\ tree' = Remove(tree, node[s])
           /\ node' = [r \in DOMAIN node \ {s} |-> node[r]]
  <2>1. s \notin succeeded
    BY <1>4 DEF Inv, SetInv
  <2>2. (DOMAIN node \ {s}) \ succeeded' = (DOMAIN node \ succeeded) \ {s}
    BY <1>2, <2>1, SMT
  <2>3. /\ NodesOf(DOMAIN node \ {s}) = NodesOf(DOMAIN node) \ {node[s]}
        /\ NodesOf((DOMAIN node \ {s}) \ succeeded') = NodesOf(DOMAIN node \ succeeded) \ {node[s]}
    <3>1. DOMAIN node \subseteq DOMAIN node /\ DOMAIN node \ succeeded \subseteq DOMAIN node
      OBVIOUS
    <3>2. NodesOf(DOMAIN node \ {s}) = NodesOf(DOMAIN node) \ {node[s]}
      BY <3>1, NodesMinus
    <3>3. NodesOf((DOMAIN node \ succeeded) \ {s}) = NodesOf(DOMAIN node \ succeeded) \ {node[s]}
      BY <3>1, NodesMinus
    <3> QED BY <2>2, <3>2, <3>3, SMTT(30)
  <2>4. Tree(tree', NodesOf(DOMAIN node \ {s}), NodesOf((DOMAIN node \ {s}) \ succeeded'))
    <3>1. Tree(Remove(tree, node[s]), NodesOf(DOMAIN node) \ {node[s]},
                                      NodesOf(DOMAIN node \ succeeded) \ {node[s]})
      BY <1>1, RemoveTree, SMTT(30)
    <3> QED BY <1>4, <2>3, <3>1, ZenonT(30)
  <2>5. DOMAIN tree'.parent \subseteq DOMAIN tree.parent
    BY <1>4, ParentsKept
  <2>6. DOMAIN node' = DOMAIN node \ {s} /\ \A r \in DOMAIN node \ {s} : node'[r] = node[r]
    BY <1>4
  <2> QED BY <1>2, <2>4, <2>5, <2>6, TreeShrinks, SMTT(30)
<1> QED BY <1>3, <1>4, SMT DEF TerminateState

(* There are at most MaxStates states.                                     *)
LEMMA StatesAreFinite == ASSUME Inv, NEW S, S \subseteq DOMAIN node PROVE IsFiniteSet(S)
<1>1. nextId - 1 \in Int /\ S \in SUBSET (1..(nextId - 1))
  BY SMT DEF Inv, SetInv
<1>2. IsFiniteSet(1..(nextId - 1))
  BY <1>1, FS_Interval, SMTT(30)
<1> QED BY <1>1, <1>2, FS_Subset, SMTT(30)

(* updateStates deletes the removed states.                                *)
LEMMA TreeUpdate == ASSUME Inv, UpdateStates PROVE TreeInv'
<1> DEFINE D == DOMAIN node
           R == DOMAIN node \ succeeded
           S == removedStates
<1>1. /\ tree' = Deleted(tree, S) /\ succeeded' = succeeded /\ nextId' = nextId /\ nextNode' = nextNode
      /\ node' = [s \in D \ S |-> node[s]]
  BY SMT DEF UpdateStates
<1>2. S \subseteq D /\ R \subseteq D
  BY SMTT(30) DEF Inv, SetInv
<1>3. Tree(tree, NodesOf(D), NodesOf(R)) /\ Distinct(D) /\ IsFiniteSet(S)
  BY <1>2, StatesAreFinite, SMTT(30) DEF Inv, TreeInv
<1>4. (D \ S) \ succeeded' = R \ S
  BY <1>1
<1>5. DOMAIN node' = D \ S /\ \A s \in D \ S : node'[s] = node[s]
  BY <1>1
<1> HIDE DEF D, R, S
<1>6. Tree(tree', NodesOf(D \ S), NodesOf(R \ S)) /\ DOMAIN tree'.parent \subseteq DOMAIN tree.parent
  BY <1>1, <1>2, <1>3, DeletedTree, SMTT(30)
<1> QED BY <1>1, <1>2, <1>4, <1>5, <1>6, TreeShrinks, SMTT(30) DEF D

(* Before a choice states are resumed, killed and deleted.                 *)
LEMMA TreeEnterSelect ==
    ASSUME Inv, NEW R \in SUBSET succeeded, NEW K \in SUBSET (states \cup addedStates \cup R),
           EnterSelect(R, K)
    PROVE  TreeInv'
<1> DEFINE D == DOMAIN node
           A == DOMAIN node \ succeeded
           S == removedStates
           t1 == Deleted(tree, S)
           t2 == Resumed(t1, R)
<1>1. /\ tree' = Deleted(t2, K) /\ succeeded' = succeeded \ R /\ nextId' = nextId /\ nextNode' = nextNode
      /\ node' = [s \in D \ (S \cup K) |-> node[s]]
  BY DEF EnterSelect
<1>2. S \subseteq D /\ A \subseteq D /\ R \subseteq D \ S /\ K \subseteq D \ S
  BY DEF EnterSelect, Updated, Inv, SetInv
<1>3. Tree(tree, NodesOf(D), NodesOf(A)) /\ Distinct(D) /\ IsFiniteSet(S) /\ IsFiniteSet(K)
  BY <1>2, StatesAreFinite, SMTT(30) DEF Inv, TreeInv
<1>4. (D \ (S \cup K)) \ succeeded' = ((A \ S) \cup R) \ K /\ D \ (S \cup K) = (D \ S) \ K
  BY <1>1, <1>2
<1>5. DOMAIN node' = (D \ S) \ K /\ \A s \in (D \ S) \ K : node'[s] = node[s]
  BY <1>1
<1>6. NodesOf(R) \in SUBSET NodesOf(D \ S) /\ NodesOf(A \ S) \cup NodesOf(R) = NodesOf((A \ S) \cup R)
  BY <1>2 DEF NodesOf
<1>7. t2 = Activate(t1, NodesOf(R))
  BY DEF Resumed, NodesOf
<1> HIDE DEF D, A, S, t1, t2
<1>8. Tree(t1, NodesOf(D \ S), NodesOf(A \ S)) /\ DOMAIN t1.parent \subseteq DOMAIN tree.parent
  BY <1>2, <1>3, DeletedTree DEF t1
<1>9. Tree(t2, NodesOf(D \ S), NodesOf((A \ S) \cup R)) /\ DOMAIN t2.parent = DOMAIN t1.parent
  <2>1. Tree(t2, NodesOf(D \ S), NodesOf(A \ S) \cup NodesOf(R))
    BY <1>6, <1>7, <1>8, ActivateTree, ZenonT(30)
  <2>2. DOMAIN t2.parent = DOMAIN t1.parent
    BY <1>7, <1>8, ParentsKept, SMT
  <2> QED BY <1>6, <2>1, <2>2, ZenonT(30)
<1>10. Distinct(D \ S) /\ (A \ S) \cup R \subseteq D \ S
  BY <1>2, <1>3, SMTT(30) DEF Distinct
<1>11. /\ Tree(tree', NodesOf((D \ S) \ K), NodesOf(((A \ S) \cup R) \ K))
       /\ DOMAIN tree'.parent \subseteq DOMAIN t2.parent
  BY <1>1, <1>2, <1>3, <1>9, <1>10, DeletedTree, ZenonT(30)
<1>12. (D \ S) \ K \subseteq DOMAIN node /\ DOMAIN tree'.parent \subseteq DOMAIN tree.parent
  BY <1>8, <1>9, <1>11, SMT DEF D
<1>13. Tree(tree', NodesOf((D \ S) \ K), NodesOf(((D \ S) \ K) \ succeeded'))
  BY <1>4, <1>11
<1> QED BY <1>1, <1>5, <1>12, <1>13, TreeShrinks, SMTT(30)

(* The initial states have the invariant.                                  *)
LEMMA InvInitially == Init => Inv
BY SetInitially, TreeInitially DEF Inv

(* Every step keeps the invariant.                                         *)
LEMMA InvNext == Inv /\ [Next]_vars => Inv'
<1> SUFFICES ASSUME Inv, [Next]_vars PROVE TreeInv'
  BY SetNext, SMTT(30) DEF Inv
<1>1. ASSUME NEW s \in DOMAIN node, SelectNextState(s) PROVE TreeInv'
  BY <1>1 DEF SelectNextState, Inv, TreeInv, NodesOf, Distinct
<1>2. ASSUME UNCHANGED vars PROVE TreeInv'
  BY <1>2 DEF vars, Inv, TreeInv, NodesOf, Distinct
<1> QED BY <1>1, <1>2, TreeFork, TreeTerminate, TreeSuspend, TreeUpdate, TreeEnterSelect, SMT DEF
           Next

(* The invariant holds always.                                             *)
LEMMA InvAlways == Spec => []Inv
BY InvInitially, InvNext, PTL DEF Spec

-----------------------------------------------------------------------------
(* The sets of states and the nodes of the tree have their types, and a    *)
(* state that runs is one of the states.                                   *)
THEOREM TypesHold == Spec => []TypeOK
<1>1. Inv => TypeOK
  <2> SUFFICES ASSUME Inv PROVE TypeOK
    OBVIOUS
  <2>1. DOMAIN node \subseteq State /\ states \subseteq State /\ addedStates \subseteq State
    BY TreeAssumption, SMT DEF Inv, SetInv, State
  <2>2. /\ tree.parent = [c \in DOMAIN tree.parent |-> tree.parent[c]] /\ Grown(tree)
        /\ tree.active \subseteq DOMAIN tree.parent
    BY DEF Inv, TreeInv, Tree
  <2>3. DOMAIN tree.parent \subseteq Node /\ \A c \in DOMAIN tree.parent : tree.parent[c] \in Node \cup {Nil}
    BY <2>2 DEF Grown
  <2>4. tree.parent \in [DOMAIN tree.parent -> Node \cup {Nil}]
    BY <2>2, <2>3, SMTT(30)
  <2> QED BY <2>1, <2>2, <2>3, <2>4, SMT DEF TypeOK, Inv, SetInv, TreeInv
<1> QED BY <1>1, InvAlways, PTL

(* No state is forgotten or in two places, and the leaves of the process   *)
(* tree are the nodes of the states, whatever is forked, killed, suspended *)
(* and resumed in between.                                                 *)
THEOREM StatesAreSomewhere == Spec => []EveryStateIsSomewhere
<1>1. Inv => EveryStateIsSomewhere
  BY SMT DEF Inv, SetInv, TreeInv, Tree, Leaves, NodesOf, EveryStateIsSomewhere
<1> QED BY <1>1, InvAlways, PTL

(* updateStates and the searcher know every state that is to be removed. *)
THEOREM RemovedStatesAreKnown == Spec => []RemovedAreKnown
<1>1. Inv => RemovedAreKnown
  BY SMT DEF Inv, SetInv, RemovedAreKnown
<1> QED BY <1>1, InvAlways, PTL

(* split, remove, activate and deactivate keep the active flag right: a    *)
(* node has it exactly when a state under it is not suspended.             *)
THEOREM FlagsAreExact == Spec => []ActiveIsExact
<1>1. Inv => ActiveIsExact
  <2> SUFFICES ASSUME Inv PROVE ActiveIsExact
    OBVIOUS
  <2>1. tree.active = UNION {Upwards(tree, a) : a \in NodesOf(DOMAIN node \ succeeded)}
    BY TreeActive DEF Inv, TreeInv
  <2> QED BY <2>1, SMT DEF NodesOf, ActiveIsExact
<1> QED BY <1>1, InvAlways, PTL

(* RandomPathSearcher can choose each state that may run and no other, and *)
(* the other searchers know the same states.                               *)
THEOREM SearchersChooseStates == Spec => []SelectableAreStates
<1>1. Inv => SelectableAreStates
  <2> SUFFICES ASSUME Inv, phase = "select"
               PROVE  {s \in DOMAIN node : node[s] \in RandomPath(tree)} = states /\ searcher = states
    BY DEF SelectableAreStates
  <2>1. states # {} /\ addedStates = {} /\ searcher = states
    BY DEF Inv, SetInv
  <2> QED BY <2>1, WalkChooses, SMT
<1> QED BY <1>1, InvAlways, PTL
=============================================================================
