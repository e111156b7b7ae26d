------------------------------ MODULE PmmPages ------------------------------
(***************************************************************************)
(* What the list walks and the page edits of PmmMem compute, as facts the  *)
(* proofs of PmmDataProofs cite.                                           *)
(*                                                                         *)
(* Lists.  Nodes is recursive; for every memory it is the least set that   *)
(* has the first node and is closed under next (NodesAre), by induction on *)
(* the nodes still to be seen.  A list that ends is described by its set   *)
(* of nodes (List), and such a description is stable: stores elsewhere     *)
(* keep it, and unlinking, replacing and linking a node edit the set.      *)
(*                                                                         *)
(* Pages.  A page is well formed when its free list ends, and the nodes of *)
(* that list and the blocks carved from the page are whole slots that are  *)
(* apart from each other (PageOK); kfree may lose free slots, so they need *)
(* not fill the page.  Formatting a page, taking a slot, carving a page at *)
(* once and the two joins of kfree keep it so for any block size and any   *)
(* order of frees, and store nothing in the page's blocks or outside it.   *)
(***************************************************************************)
EXTENDS PmmProofs, FiniteSetTheorems, NaturalsInduction, WellFoundedInduction

-----------------------------------------------------------------------------
(* What a walk visits *)

\* T has the start a of a walk that stops at S, and what the walk visits next.
ClosedOff(m, a, S, T) ==
  /\ a \in Granule \ S => a \in T
  /\ \A x \in T : m[x].next \in Granule \ S => m[x].next \in T

Reached(m, a, S) == {g \in Granule : \A T \in SUBSET Granule : ClosedOff(m, a, S, T) => g \in T}

\* What a walk reaches is closed under its own steps.
LEMMA ReachedClosed ==
  ASSUME NEW m, NEW a, NEW S
  PROVE  ClosedOff(m, a, S, Reached(m, a, S))
  BY DEF ClosedOff, Reached

\* A walk reaches its start and what it reaches from the next node on.
LEMMA ReachedStep ==
  ASSUME NEW m, NEW a, NEW S, a \in Granule \ S
  PROVE  Reached(m, a, S) = {a} \cup Reached(m, m[a].next, S \cup {a})
<1> DEFINE n == m[a].next
           R == Reached(m, n, S \cup {a})
           T == {a} \cup R
<1>1. R \subseteq Granule /\ ClosedOff(m, n, S \cup {a}, R)
  BY ReachedClosed DEF Reached
<1>2. T \in SUBSET Granule
  BY <1>1
<1>3. ClosedOff(m, a, S, T)
  BY <1>1 DEF ClosedOff
<1>4. Reached(m, a, S) \subseteq T
  BY <1>2, <1>3 DEF Reached
<1>5. ASSUME NEW g \in T, NEW U \in SUBSET Granule, ClosedOff(m, a, S, U) PROVE g \in U
  <2>1. a \in U /\ ClosedOff(m, n, S \cup {a}, U)
    BY <1>5 DEF ClosedOff
  <2> QED
    BY <2>1, <1>5 DEF Reached
<1>6. T \subseteq Reached(m, a, S)
  BY <1>2, <1>5 DEF Reached
<1> QED
  BY <1>4, <1>6

\* A walk that starts outside the heap, or at a node it has seen, reaches nothing.
LEMMA ReachedStop ==
  ASSUME NEW m, NEW a, NEW S, a \notin Granule \ S
  PROVE  Reached(m, a, S) = {}
<1>1. ClosedOff(m, a, S, {})
  BY DEF ClosedOff
<1> QED
  BY <1>1 DEF Reached

\* The definition of the walk in Nodes.
Walks == Int \X SUBSET Granule
IsWalk(f, m) ==
  f = [w \in Walks |->
         IF w[1] \in Granule \ w[2] THEN f[<<m[w[1]].next, w[2] \cup {w[1]}>>] ELSE w[2]]

\* A walk that goes on stays within the domain of that function.
LEMMA WalkNext ==
  ASSUME NEW m \in Memory, NEW w \in Walks, w[1] \in Granule
  PROVE  /\ <<m[w[1]].next, w[2] \cup {w[1]}>> \in Walks
         /\ w[1] \in Int /\ w[2] \in SUBSET Granule
<1>1. w[1] \in Int /\ w[2] \in SUBSET Granule
  BY DEF Walks
<1>2. m[w[1]].next \in Int
  BY DEF Memory, Cell
<1> QED
  BY <1>1, <1>2 DEF Walks

\* There is such a function: the nodes that are left to visit become fewer.
LEMMA WalkExists ==
  ASSUME NEW m \in Memory
  PROVE  \E f : IsWalk(f, m)
<1> DEFINE f == [w \in Walks |-> w[2] \cup Reached(m, w[1], w[2])]
<1>1. ASSUME NEW w \in Walks
      PROVE  w[2] \cup Reached(m, w[1], w[2])
               = IF w[1] \in Granule \ w[2] THEN f[<<m[w[1]].next, w[2] \cup {w[1]}>>] ELSE w[2]
  <2>1. CASE w[1] \in Granule \ w[2]
    <3> DEFINE a == w[1]
               S == w[2]
               n == <<m[a].next, S \cup {a}>>
    <3>1. n \in Walks
      BY <2>1, WalkNext
    <3>2. f[n] = n[2] \cup Reached(m, n[1], n[2])
      BY <3>1
    <3>3. f[n] = (S \cup {a}) \cup Reached(m, m[a].next, S \cup {a})
      BY <3>2
    <3>4. Reached(m, a, S) = {a} \cup Reached(m, m[a].next, S \cup {a})
      BY <2>1, ReachedStep
    <3> HIDE DEF f
    <3> QED
      BY <2>1, <3>3, <3>4
  <2>2. CASE w[1] \notin Granule \ w[2]
    BY <2>2, ReachedStop
  <2> QED
    BY <2>1, <2>2
<1>2. IsWalk(f, m)
  BY <1>1 DEF IsWalk
<1> QED
  BY <1>2

\* The heap is finite.
LEMMA GranuleFinite == IsFiniteSet(Granule) /\ Granule \subseteq Int
<1>1. HeapStart \in Int /\ HeapEnd - 1 \in Int
  BY HeapAssumption
<1> QED
  BY <1>1, FS_Interval DEF Granule

\* Every set of naturals that is not empty has a least element.
LEMMA LeastOf ==
  ASSUME NEW T, T \subseteq Nat, T # {}
  PROVE  \E x \in T : \A y \in T : x <= y
<1> DEFINE R == OpToRel(<, Nat)
<1>1. IsWellFoundedOn(R, Nat)
  BY NatLessThanWellFounded
<1>2. \A x, y \in Nat : <<x, y>> \in R <=> x < y
  BY DEF OpToRel
<1> HIDE DEF R
<1>3. PICK x \in T : \A y \in T : ~ (<<y, x>> \in R)
  BY <1>1, WFMin
<1>4. ASSUME NEW y \in T PROVE x <= y
  <2>1. x \in Nat /\ y \in Nat /\ ~ (<<y, x>> \in R)
    BY <1>3
  <2>2. ~(y < x)
    BY <1>2, <2>1
  <2> QED
    BY <2>1, <2>2
<1> QED
  BY <1>4

\* What it returns is what was seen and what the walk still reaches.
LEMMA WalkIs ==
  ASSUME NEW m \in Memory, NEW f, IsWalk(f, m), NEW w \in Walks
  PROVE  f[w] = w[2] \cup Reached(m, w[1], w[2])
<1> DEFINE Good(v) == f[v] = v[2] \cup Reached(m, v[1], v[2])
           Left(v) == Cardinality(Granule \ v[2])
           Bad == {v \in Walks : ~Good(v)}
           Sizes == {Left(v) : v \in Bad}
<1>1. \A v \in Walks : Left(v) \in Nat
  BY GranuleFinite, FS_Difference, FS_CardinalityType
<1>2. ASSUME NEW v \in Bad PROVE \E u \in Bad : Left(u) < Left(v)
  <2>1. v \in Walks /\ f[v] = IF v[1] \in Granule \ v[2] THEN f[<<m[v[1]].next, v[2] \cup {v[1]}>>] ELSE v[2]
    BY DEF IsWalk
  <2>2. v[1] \in Granule \ v[2]
    <3>1. SUFFICES ASSUME v[1] \notin Granule \ v[2] PROVE FALSE
      OBVIOUS
    <3>2. Reached(m, v[1], v[2]) = {}
      BY <3>1, ReachedStop
    <3> QED
      BY <2>1, <3>1, <3>2
  <2> DEFINE u == <<m[v[1]].next, v[2] \cup {v[1]}>>
  <2>3. u \in Walks /\ u[1] = m[v[1]].next /\ u[2] = v[2] \cup {v[1]}
    BY <2>1, <2>2, WalkNext
  <2>4. Reached(m, v[1], v[2]) = {v[1]} \cup Reached(m, u[1], u[2])
    <3>1. Reached(m, v[1], v[2]) = {v[1]} \cup Reached(m, m[v[1]].next, v[2] \cup {v[1]})
      BY <2>2, ReachedStep
    <3> HIDE DEF u
    <3> QED
      BY <3>1, <2>3
  <2>5. ~Good(u)
    <3>1. f[v] = f[u]
      BY <2>1, <2>2
    <3>2. ~Good(v)
      OBVIOUS
    <3> HIDE DEF u
    <3> QED
      BY <3>1, <3>2, <2>3, <2>4
  <2>6. Granule \ u[2] = (Granule \ v[2]) \ {v[1]}
    BY <2>3
  <2>7. IsFiniteSet(Granule \ v[2])
    BY GranuleFinite, FS_Difference
  <2>8. Cardinality((Granule \ v[2]) \ {v[1]}) = Cardinality(Granule \ v[2]) - 1
    BY <2>2, <2>7, FS_RemoveElement
  <2>9. Left(v) \in Nat /\ Left(u) = Left(v) - 1
    BY <1>1, <2>1, <2>6, <2>8
  <2>10. u \in Bad
    BY <2>3, <2>5
  <2>11. Left(u) < Left(v)
    <3> HIDE DEF u, Left
    <3> QED
      BY <2>9
  <2> HIDE DEF u, Left, Bad
  <2> QED
    BY <2>10, <2>11
<1>3. Sizes \subseteq Nat
  BY <1>1
<1>4. Bad = {}
  <2>1. SUFFICES ASSUME Bad # {} PROVE FALSE
    OBVIOUS
  <2>2. Sizes # {}
    BY <2>1
  <2>3. PICK x \in Sizes : \A y \in Sizes : x <= y
    BY <1>3, <2>2, LeastOf
  <2>4. PICK v \in Bad : x = Left(v)
    BY <2>3
  <2>5. PICK u \in Bad : Left(u) < Left(v)
    BY <1>2
  <2>6. Left(u) \in Sizes /\ Left(u) \in Nat /\ Left(v) \in Nat
    BY <1>1
  <2> HIDE DEF Left, Bad, Sizes
  <2> QED
    BY <2>3, <2>4, <2>5, <2>6
<1> QED
  BY <1>4

\* Nodes(m, h) is the least set that has h and the successors of its members.
LEMMA NodesAre ==
  ASSUME NEW m \in Memory, NEW h \in Int
  PROVE  Nodes(m, h) = Reached(m, h, {})
<1> DEFINE f == CHOOSE g : IsWalk(g, m)
           w == <<h, {}>>
<1>1. IsWalk(f, m)
  BY WalkExists
<1>2. w \in Walks /\ w[1] = h /\ w[2] = {}
  BY DEF Walks
<1>3. Nodes(m, h) = f[w]
  BY DEF Nodes, IsWalk, Walks
<1> HIDE DEF f, w
<1>4. f[w] = w[2] \cup Reached(m, w[1], w[2])
  BY <1>1, <1>2, WalkIs, ZenonT(30)
<1> QED
  BY <1>2, <1>3, <1>4

\* Nodes(m, h) has h and every successor in the heap ...
LEMMA NodesClosed ==
  ASSUME NEW m \in Memory, NEW h \in Int
  PROVE  /\ Nodes(m, h) \subseteq Granule
         /\ h \in Granule => h \in Nodes(m, h)
         /\ h \notin Granule => Nodes(m, h) = {}
         /\ \A x \in Nodes(m, h) : m[x].next \in Granule => m[x].next \in Nodes(m, h)
<1>1. ClosedOff(m, h, {}, Reached(m, h, {}))
  BY ReachedClosed
<1>2. h \notin Granule => Reached(m, h, {}) = {}
  BY ReachedStop
<1> QED
  BY <1>1, <1>2, NodesAre DEF ClosedOff, Reached

\* ... and is contained in every set of granules that does.
LEMMA NodesLeast ==
  ASSUME NEW m \in Memory, NEW h \in Int, NEW T, T \subseteq Granule, h \in Granule => h \in T,
         \A x \in T : m[x].next \in Granule => m[x].next \in T
  PROVE  Nodes(m, h) \subseteq T
<1>1. T \in SUBSET Granule /\ ClosedOff(m, h, {}, T)
  BY DEF ClosedOff
<1> QED
  BY <1>1, NodesAre DEF Reached

-----------------------------------------------------------------------------
(* Lists *)

\* The nodes from h on are S and form a list: no two have the same successor, and
\* h is the successor of none.
List(m, h, S) ==
  /\ m \in Memory
  /\ h \in Granule \cup {NULL}
  /\ S = Nodes(m, h)
  /\ \A g \in S : m[g].next \in (S \ {h}) \cup {NULL}
  /\ \A g, k \in S : m[g].next = m[k].next => g = k

\* The start and the nodes of a list.
LEMMA ListFacts ==
  ASSUME NEW m, NEW h, NEW S, List(m, h, S)
  PROVE  /\ h \in Int /\ NULL \notin Granule /\ S \subseteq Granule
         /\ IF h = NULL THEN S = {} ELSE h \in S
<1>1. NULL \in Int /\ NULL \notin Granule /\ h \in Int
  BY HeapAssumption DEF NULL, Granule, List
<1> QED
  BY <1>1, NodesClosed DEF List

\* What shows that S is the nodes of k from h on, with the successors of a list.
LEMMA ListBy ==
  ASSUME NEW k \in Memory, NEW h \in Granule \cup {NULL}, NEW S, S \subseteq Granule,
         h # NULL => h \in S,
         \A g \in S : k[g].next \in (S \ {h}) \cup {NULL},
         \A g, x \in S : k[g].next = k[x].next => g = x,
         S \subseteq Nodes(k, h)
  PROVE  List(k, h, S)
<1>1. h \in Int /\ NULL \notin Granule
  BY HeapAssumption DEF NULL, Granule
<1>2. k \in Memory /\ h \in Int /\ S \subseteq Granule /\ (h \in Granule => h \in S)
  BY <1>1
<1>3. \A x \in S : k[x].next \in Granule => k[x].next \in S
  BY <1>1
<1>4. Nodes(k, h) \subseteq S
  BY ONLY <1>2, <1>3, NodesLeast
<1> QED
  BY <1>4 DEF List

\* Stores that leave the successors of the nodes alone leave the list alone.
LEMMA ListFrame ==
  ASSUME NEW m, NEW h, NEW S, List(m, h, S), NEW k \in Memory,
         \A g \in S : k[g].next = m[g].next
  PROVE  List(k, h, S)
<1>1. h \in Int /\ NULL \notin Granule /\ S \subseteq Granule /\ (h # NULL => h \in S)
  BY ListFacts
<1>2. h \in Granule \cup {NULL} /\ m \in Memory
  BY DEF List
<1>3. Nodes(k, h) \subseteq S
  <2>1. \A x \in S : k[x].next \in Granule => k[x].next \in S
    BY <1>1 DEF List
  <2>2. h \in Granule => h \in S
    BY <1>1
  <2> QED
    BY <1>1, <2>1, <2>2, NodesLeast
<1>4. S \subseteq Nodes(k, h)
  <2>1. \A x \in Nodes(k, h) : m[x].next \in Granule => m[x].next \in Nodes(k, h)
    BY <1>1, <1>3, NodesClosed
  <2>2. Nodes(k, h) \subseteq Granule /\ (h \in Granule => h \in Nodes(k, h))
    BY <1>1, NodesClosed
  <2>3. Nodes(m, h) \subseteq Nodes(k, h)
    BY <1>1, <1>2, <2>1, <2>2, NodesLeast
  <2> QED
    BY <2>3 DEF List
<1>5. \A g \in S : k[g].next \in (S \ {h}) \cup {NULL}
  BY DEF List
<1>6. \A g, x \in S : k[g].next = k[x].next => g = x
  BY DEF List
<1> QED
  BY <1>1, <1>2, <1>4, <1>5, <1>6, ListBy

\* Every node but the first is the successor of one, and none of itself.
LEMMA ListPred ==
  ASSUME NEW m, NEW h, NEW S, List(m, h, S), NEW x \in S
  PROVE  /\ x # h => \E g \in S : m[g].next = x
         /\ m[x].next # x
<1>1. h \in Int /\ NULL \notin Granule /\ S \subseteq Granule /\ (h # NULL => h \in S)
  BY ListFacts
<1>2. m \in Memory /\ S = Nodes(m, h)
  BY DEF List
<1>3. ASSUME x # h, ~ \E g \in S : m[g].next = x PROVE FALSE
  <2>1. \A g \in S \ {x} : m[g].next \in Granule => m[g].next \in S \ {x}
    BY <1>1, <1>3 DEF List
  <2>2. S \ {x} \subseteq Granule /\ (h \in Granule => h \in S \ {x})
    BY <1>1, <1>3
  <2>3. Nodes(m, h) \subseteq S \ {x}
    BY <1>1, <1>2, <2>1, <2>2, NodesLeast
  <2> QED
    BY <1>2, <2>3
<1>4. ASSUME m[x].next = x PROVE FALSE
  <2>1. x # h
    BY <1>1, <1>4 DEF List
  <2>2. \A g \in S \ {x} : m[g].next \in Granule => m[g].next \in S \ {x}
    BY <1>1, <1>4 DEF List
  <2>3. S \ {x} \subseteq Granule /\ (h \in Granule => h \in S \ {x})
    BY <1>1, <2>1
  <2>4. Nodes(m, h) \subseteq S \ {x}
    BY <1>1, <1>2, <2>2, <2>3, NodesLeast
  <2> QED
    BY <1>2, <2>4
<1> QED
  BY <1>3, <1>4

\* A new node in front.
LEMMA ListPush ==
  ASSUME NEW m, NEW h, NEW S, List(m, h, S), NEW k \in Memory, NEW x \in Granule \ S,
         k[x].next = h, \A g \in S : k[g].next = m[g].next
  PROVE  List(k, x, S \cup {x})
<1>1. h \in Int /\ NULL \notin Granule /\ S \subseteq Granule /\ (h # NULL => h \in S)
  BY ListFacts
<1>2. h \in Granule \cup {NULL} /\ x \in Int
  BY GranuleFinite DEF List
<1>3. List(k, h, S)
  BY ListFrame
<1>4. S \cup {x} \subseteq Nodes(k, x)
  <2>1. Nodes(k, x) \subseteq Granule /\ x \in Nodes(k, x)
    BY <1>2, NodesClosed
  <2>2. \A y \in Nodes(k, x) : k[y].next \in Granule => k[y].next \in Nodes(k, x)
    BY <1>2, NodesClosed
  <2>3. h \in Granule => h \in Nodes(k, x)
    BY <2>1, <2>2
  <2>4. Nodes(k, h) \subseteq Nodes(k, x)
    BY <1>1, <2>1, <2>2, <2>3, NodesLeast
  <2> QED
    BY <1>3, <2>1, <2>4 DEF List
<1>5. \A g \in S \cup {x} : k[g].next \in ((S \cup {x}) \ {x}) \cup {NULL}
  BY <1>1 DEF List
<1>6. \A g, y \in S \cup {x} : k[g].next = k[y].next => g = y
  <2>1. \A g, y \in S : k[g].next = k[y].next => g = y
    BY <1>3 DEF List
  <2>2. \A g \in S : k[g].next # h
    BY <1>3, ListFacts DEF List
  <2> QED
    BY <2>1, <2>2
<1> QED
  BY <1>1, <1>4, <1>5, <1>6, ListBy

\* The list behind the first node.
LEMMA ListPop ==
  ASSUME NEW m, NEW h, NEW S, List(m, h, S), h # NULL
  PROVE  List(m, m[h].next, S \ {h})
<1>1. /\ h \in Int /\ NULL \notin Granule /\ S \subseteq Granule /\ h \in S
  BY ListFacts
<1>2. m \in Memory /\ S = Nodes(m, h)
  BY DEF List
<1> DEFINE n == m[h].next
<1>3. n \in (S \ {h}) \cup {NULL} /\ n \in Int
  <2>1. n \in (S \ {h}) \cup {NULL}
    BY <1>1 DEF List
  <2>2. NULL \in Int
    BY DEF NULL
  <2> QED
    BY <1>1, <2>1, <2>2, GranuleFinite
<1>4. S \ {h} \subseteq Nodes(m, n)
  <2>1. Nodes(m, n) \subseteq Granule /\ (n \in Granule => n \in Nodes(m, n))
        /\ \A y \in Nodes(m, n) : m[y].next \in Granule => m[y].next \in Nodes(m, n)
    BY <1>2, <1>3, NodesClosed
  <2> DEFINE T == Nodes(m, n) \cup {h}
  <2>2. T \subseteq Granule /\ h \in T /\ \A y \in T : m[y].next \in Granule => m[y].next \in T
    BY <1>1, <2>1
  <2> HIDE DEF T
  <2>3. Nodes(m, h) \subseteq T
    BY <1>1, <1>2, <2>2, NodesLeast
  <2> QED
    BY <1>2, <2>3 DEF T
<1>5. \A g \in S \ {h} : m[g].next \in ((S \ {h}) \ {n}) \cup {NULL}
  <2>1. SUFFICES ASSUME NEW g \in S \ {h} PROVE m[g].next \in ((S \ {h}) \ {n}) \cup {NULL}
    OBVIOUS
  <2>2. m[g].next \in (S \ {h}) \cup {NULL}
    BY DEF List
  <2>3. m[g].next # n
    BY <1>1 DEF List
  <2> QED
    BY <2>2, <2>3
<1>6. \A g, y \in S \ {h} : m[g].next = m[y].next => g = y
  BY DEF List
<1>7. n \in Granule \cup {NULL} /\ S \ {h} \subseteq Granule /\ (n # NULL => n \in S \ {h})
  BY <1>1, <1>3
<1> HIDE DEF n
<1> QED
  BY <1>2, <1>4, <1>5, <1>6, <1>7, ListBy DEF n

\* The list without a node that is not the first.
LEMMA ListUnlink ==
  ASSUME NEW m, NEW h, NEW S, List(m, h, S), NEW n \in S, n # h, NEW k \in Memory,
         \A g \in S \ {n} : k[g].next = IF m[g].next = n THEN m[n].next ELSE m[g].next
  PROVE  List(k, h, S \ {n})
<1>1. h \in Int /\ NULL \notin Granule /\ S \subseteq Granule /\ (h # NULL => h \in S)
  BY ListFacts
<1>2. m \in Memory /\ S = Nodes(m, h) /\ h \in Granule \cup {NULL}
  BY DEF List
<1>3. m[n].next # n
  BY ListPred
<1>4. \A g \in S \ {n} : k[g].next \in ((S \ {n}) \ {h}) \cup {NULL}
  BY <1>1, <1>3 DEF List
<1>5. \A g, y \in S \ {n} : k[g].next = k[y].next => g = y
  <2>1. SUFFICES ASSUME NEW g \in S \ {n}, NEW y \in S \ {n}, k[g].next = k[y].next PROVE g = y
    OBVIOUS
  <2>2. \A a, b \in S : m[a].next = m[b].next => a = b
    BY DEF List
  <2>3. m[n].next # m[g].next /\ m[n].next # m[y].next
    BY <2>2
  <2> QED
    BY <2>1, <2>2, <2>3
<1>6. S \ {n} \subseteq Nodes(k, h)
  <2> DEFINE N == Nodes(k, h)
             T == N \cup {n}
  <2>1. N \subseteq Granule /\ (h \in Granule => h \in N)
        /\ \A y \in N : k[y].next \in Granule => k[y].next \in N
    BY <1>1, NodesClosed
  <2>2. N \subseteq S \ {n}
    <3>1. S \ {n} \subseteq Granule /\ (h \in Granule => h \in S \ {n})
          /\ \A y \in S \ {n} : k[y].next \in Granule => k[y].next \in S \ {n}
      BY <1>1, <1>4
    <3> QED
      BY <1>1, <3>1, NodesLeast
  <2> HIDE DEF N
  <2>3. \E g \in S : m[g].next = n
    BY ListPred
  <2>4. \A y \in N : m[y].next \in Granule => m[y].next \in T
    <3>1. SUFFICES ASSUME NEW y \in N, m[y].next \in Granule, m[y].next # n PROVE m[y].next \in N
      OBVIOUS
    <3>2. k[y].next = m[y].next
      BY <2>2, <3>1
    <3> QED
      BY <2>1, <3>1, <3>2
  <2>5. ASSUME m[n].next \in Granule PROVE m[n].next \in N
    <3>2. m[n].next \in S \ {h}
      BY <1>1, <2>5 DEF List
    <3>3. SUFFICES ASSUME m[n].next \notin N PROVE FALSE
      OBVIOUS
    <3>4. PICK g \in S : m[g].next = n
      BY <2>3
    <3>5. g \notin N
      <4>1. g # n
        BY <1>3, <3>4
      <4>2. k[g].next = m[n].next
        BY <3>4, <4>1
      <4> QED
        BY <2>1, <2>5, <3>3, <4>2
    <3>6. \A y \in N : m[y].next \in Granule => m[y].next \in N
      <4>1. SUFFICES ASSUME NEW y \in N, m[y].next \in Granule PROVE m[y].next \in N
        OBVIOUS
      <4>2. m[y].next # n
        BY <2>2, <3>4, <3>5 DEF List
      <4> QED
        BY <2>4, <4>1, <4>2
    <3>7. Nodes(m, h) \subseteq N
      BY <1>1, <1>2, <2>1, <3>6, NodesLeast
    <3> QED
      BY <1>2, <2>2, <3>7
  <2>6. T \subseteq Granule /\ (h \in Granule => h \in T)
        /\ \A y \in T : m[y].next \in Granule => m[y].next \in T
    BY <1>1, <2>1, <2>4, <2>5
  <2> HIDE DEF T
  <2>7. Nodes(m, h) \subseteq T
    BY <1>1, <1>2, <2>6, NodesLeast
  <2> QED
    BY <1>2, <2>7 DEF T, N
<1>7. S \ {n} \subseteq Granule /\ (h # NULL => h \in S \ {n})
  BY <1>1
<1> QED
  BY <1>2, <1>4, <1>5, <1>6, <1>7, ListBy

\* The list with another node in the place of n.
LEMMA ListReplace ==
  ASSUME NEW m, NEW h, NEW S, List(m, h, S), NEW n \in S, NEW x \in Granule \ S,
         NEW k \in Memory, k[x].next = m[n].next,
         \A g \in S \ {n} : k[g].next = IF m[g].next = n THEN x ELSE m[g].next
  PROVE  List(k, IF h = n THEN x ELSE h, (S \ {n}) \cup {x})
<1>1. h \in Int /\ NULL \notin Granule /\ S \subseteq Granule /\ h \in S /\ h \in Granule
  BY ListFacts
<1>2. m \in Memory /\ S = Nodes(m, h)
  BY DEF List
<1>3. m[n].next # n
  BY ListPred
<1> DEFINE z == IF h = n THEN x ELSE h
           V == (S \ {n}) \cup {x}
<1>4. z \in Granule /\ z \in Int /\ z \in V /\ V \subseteq Granule /\ x # NULL /\ x \in Int
  BY <1>1, GranuleFinite
<1>5. \A g \in S : m[g].next \in (S \ {h}) \cup {NULL}
  BY DEF List
<1>6. \A a, b \in S : m[a].next = m[b].next => a = b
  BY DEF List
<1>7. \A g \in V : k[g].next \in (V \ {z}) \cup {NULL}
  <2>1. SUFFICES ASSUME NEW g \in V PROVE k[g].next \in (V \ {z}) \cup {NULL}
    OBVIOUS
  <2>2. CASE g = x
    BY <2>2, <1>1, <1>3, <1>5
  <2>3. CASE g # x /\ m[g].next = n
    <3>1. g \in S \ {n} /\ k[g].next = x
      BY <2>3
    <3>2. h # n
      BY <1>5, <2>3, <3>1, <1>1
    <3> QED
      BY <3>1, <3>2, <1>1
  <2>4. CASE g # x /\ m[g].next # n
    <3>1. g \in S \ {n} /\ k[g].next = m[g].next
      BY <2>4
    <3> QED
      BY <3>1, <2>4, <1>5, <1>1
  <2> QED
    BY <2>2, <2>3, <2>4
<1>8. \A g, y \in V : k[g].next = k[y].next => g = y
  <2>1. SUFFICES ASSUME NEW g \in V, NEW y \in V, k[g].next = k[y].next PROVE g = y
    OBVIOUS
  <2>2. \A a \in S \ {n} : k[a].next # m[n].next
    <3>1. SUFFICES ASSUME NEW a \in S \ {n} PROVE k[a].next # m[n].next
      OBVIOUS
    <3>2. m[n].next # x
      BY <1>5, <1>4
    <3>3. m[a].next # m[n].next
      BY <1>6
    <3> QED
      BY <3>2, <3>3
  <2>3. \A a, b \in S \ {n} : k[a].next = k[b].next => a = b
    <3>1. SUFFICES ASSUME NEW a \in S \ {n}, NEW b \in S \ {n}, k[a].next = k[b].next PROVE a = b
      OBVIOUS
    <3>2. m[a].next # x /\ m[b].next # x
      BY <1>5, <1>4
    <3> QED
      BY <3>1, <3>2, <1>6
  <2> QED
    BY <2>1, <2>2, <2>3
<1> DEFINE N == Nodes(k, z)
<1>9. N \subseteq Granule /\ z \in N /\ \A y \in N : k[y].next \in Granule => k[y].next \in N
  BY <1>4, NodesClosed
<1>10. N \subseteq V
  <2>1. \A y \in V : k[y].next \in Granule => k[y].next \in V
    BY <1>7, <1>1
  <2> HIDE DEF V, z
  <2> QED
    BY <1>4, <2>1, NodesLeast
<1> HIDE DEF N
<1>11. V \subseteq N
  <2> DEFINE T == (N \ {x}) \cup (IF x \in N THEN {n} ELSE {})
  <2>1. h \in T
    BY <1>9, <1>1
  <2>2. T \subseteq Granule
    BY <1>9, <1>1
  <2>3. ASSUME NEW y \in T, m[y].next \in Granule PROVE m[y].next \in T
    <3>1. m[y].next \in S /\ m[y].next # x
      BY <1>5, <1>1, <1>10, <2>3
    <3>2. CASE y = n
      <4>1. x \in N /\ k[x].next = m[n].next
        BY <3>2, <1>10
      <4>2. m[n].next \in N
        BY <4>1, <1>9, <2>3, <3>2
      <4> QED
        BY <4>2, <3>1, <3>2
    <3>3. CASE y # n
      <4>1. y \in N /\ y \in S \ {n}
        BY <3>3, <1>10
      <4>2. CASE m[y].next = n
        <5>1. k[y].next = x
          BY <4>1, <4>2
        <5> QED
          BY <5>1, <4>1, <4>2, <1>9
      <4>3. CASE m[y].next # n
        <5>1. k[y].next = m[y].next
          BY <4>1, <4>3
        <5> QED
          BY <5>1, <4>1, <2>3, <3>1, <1>9
      <4> QED
        BY <4>2, <4>3
    <3> QED
      BY <3>2, <3>3
  <2> HIDE DEF T
  <2>4. Nodes(m, h) \subseteq T
    BY <1>1, <1>2, <2>1, <2>2, <2>3, NodesLeast
  <2>5. S \subseteq T
    BY <1>2, <2>4
  <2>6. x \in N
    BY <2>5, <1>10 DEF T
  <2> QED
    BY <2>5, <2>6 DEF T
<1> HIDE DEF V, z
<1>12. List(k, z, V)
  BY <1>4, <1>7, <1>8, <1>11, ListBy DEF N
<1> QED
  BY <1>12 DEF V, z

\* The list from one of the nodes on.
LEMMA ListSuffix ==
  ASSUME NEW m, NEW h, NEW S, List(m, h, S), NEW x \in S
  PROVE  LET T == Nodes(m, x)
         IN  /\ T \subseteq S /\ x \in T /\ List(m, x, T)
             /\ h \in T => x = h
<1>1. h \in Int /\ NULL \notin Granule /\ S \subseteq Granule /\ h \in S /\ h \in Granule /\ x \in Int
  BY ListFacts, GranuleFinite
<1>2. m \in Memory /\ S = Nodes(m, h)
  BY DEF List
<1> DEFINE T == Nodes(m, x)
<1>3. T \subseteq Granule /\ x \in T /\ \A y \in T : m[y].next \in Granule => m[y].next \in T
  BY <1>1, <1>2, NodesClosed
<1>4. \A g \in S : m[g].next \in (S \ {h}) \cup {NULL}
  BY DEF List
<1>5. \A a, b \in S : m[a].next = m[b].next => a = b
  BY DEF List
<1>6. T \subseteq S
  <2>1. \A y \in S : m[y].next \in Granule => m[y].next \in S
    BY <1>4, <1>1
  <2> QED
    BY <1>1, <1>2, <2>1, NodesLeast
<1>7. ASSUME NEW y \in T, y # x PROVE \E g \in T : m[g].next = y
  <2>1. SUFFICES ASSUME ~ \E g \in T : m[g].next = y PROVE FALSE
    OBVIOUS
  <2>2. T \ {y} \subseteq Granule /\ x \in T \ {y}
        /\ \A g \in T \ {y} : m[g].next \in Granule => m[g].next \in T \ {y}
    BY <1>3, <1>7, <2>1
  <2>3. Nodes(m, x) \subseteq T \ {y}
    BY <1>1, <1>2, <2>2, NodesLeast
  <2> QED
    BY <2>3
<1> HIDE DEF T
<1>8. h \in T => x = h
  BY <1>7, <1>6, <1>4, <1>1
<1>9. \A g \in T : m[g].next # x
  <2>1. SUFFICES ASSUME NEW g \in T, m[g].next = x PROVE FALSE
    OBVIOUS
  <2>2. \A y \in T : \E a \in T : m[a].next = y
    BY <1>7, <2>1
  <2>3. h \notin T
    BY <2>2, <1>6, <1>4, <1>1
  <2>4. \A y \in S \ T : m[y].next \in Granule => m[y].next \in S \ T
    <3>1. SUFFICES ASSUME NEW y \in S \ T, m[y].next \in T PROVE FALSE
      BY <1>4, <1>1
    <3>2. PICK a \in T : m[a].next = m[y].next
      BY <2>2, <3>1
    <3> QED
      BY <3>2, <1>5, <1>6
  <2>5. S \ T \subseteq Granule /\ h \in S \ T
    BY <1>1, <2>3
  <2>6. Nodes(m, h) \subseteq S \ T
    BY <1>1, <1>2, <2>4, <2>5, NodesLeast
  <2> QED
    BY <2>6, <1>2, <1>3
<1>10. \A g \in T : m[g].next \in (T \ {x}) \cup {NULL}
  BY <1>3, <1>4, <1>6, <1>9, <1>1
<1>11. \A a, b \in T : m[a].next = m[b].next => a = b
  BY <1>5, <1>6
<1>12. List(m, x, T)
  BY <1>1, <1>2, <1>3, <1>10, <1>11, ListBy DEF T
<1> QED
  BY <1>3, <1>6, <1>8, <1>12 DEF T

\* A list comes to an end.
LEMMA ListEnds ==
  ASSUME NEW m, NEW h, NEW S, List(m, h, S)
  PROVE  Ends(m, h)
<1>1. h \in Int /\ NULL \notin Granule /\ S \subseteq Granule /\ (h # NULL => h \in S) /\ S = Nodes(m, h)
  BY ListFacts DEF List
<1>2. SUFFICES ASSUME h # NULL, \A g \in S : m[g].next # NULL PROVE FALSE
  BY <1>1 DEF Ends
<1> DEFINE f == [g \in S |-> m[g].next]
<1>3. f \in [S -> S \ {h}]
  BY <1>2 DEF List
<1>4. IsFiniteSet(S)
  BY <1>1, GranuleFinite, FS_Subset
<1>5. IsFiniteSet(S \ {h}) /\ Cardinality(S \ {h}) = Cardinality(S) - 1 /\ Cardinality(S) \in Nat
  BY <1>1, <1>2, <1>4, FS_RemoveElement, FS_CardinalityType
<1>6. Cardinality(S \ {h}) < Cardinality(S)
  BY <1>5
<1> HIDE DEF f
<1>7. PICK a, b \in S : a # b /\ f[a] = f[b]
  BY <1>3, <1>4, <1>5, <1>6, FS_PigeonHole
<1> QED
  BY <1>7 DEF f, List

\* k is m after n was taken out of the list S at h; the first node is not taken out.
Unlinked(m, k, h, S, n) ==
  /\ k \in Memory
  /\ \A g \in Granule : k[g].size = m[g].size /\ k[g].magic = m[g].magic
  /\ \A g \in Granule \ S : k[g] = m[g]
  /\ n # h => List(k, h, S \ {n})
  /\ n = h => k = m

\* That is what Unlink does.
LEMMA UnlinkIs ==
  ASSUME NEW m, NEW h, NEW S, List(m, h, S), NEW n \in S
  PROVE  Unlinked(m, Unlink(m, h, n), h, S, n) /\ (HasPrev(m, h, n) <=> n # h)
<1> DEFINE k == Unlink(m, h, n)
<1>1. h \in Int /\ S \subseteq Granule /\ S = Nodes(m, h) /\ m \in Memory /\ n \in Granule
  BY ListFacts DEF List
<1>2. m[n].next \in Int /\ \A g \in Granule : m[g] \in Cell
  BY <1>1 DEF Memory, Cell
<1>3. \A g \in Granule : k[g] = IF g \in S /\ m[g].next = n THEN [m[g] EXCEPT !.next = m[n].next] ELSE m[g]
  BY <1>1 DEF Unlink
<1>4. k \in Memory
  <2>1. \A g \in Granule : [m[g] EXCEPT !.next = m[n].next] \in Cell
    BY <1>2 DEF Cell
  <2> QED
    BY <1>2, <2>1 DEF Unlink, Memory
<1>5. \A g \in Granule : k[g].size = m[g].size /\ k[g].magic = m[g].magic
  <2>1. \A g \in Granule : LET e == [m[g] EXCEPT !.next = m[n].next] IN e.size = m[g].size /\ e.magic = m[g].magic
    BY <1>2 DEF Cell
  <2> HIDE DEF k
  <2> QED
    BY <1>3, <2>1
<1>6. \A g \in S : k[g].next = IF m[g].next = n THEN m[n].next ELSE m[g].next
  <2>1. \A g \in Granule : [m[g] EXCEPT !.next = m[n].next].next = m[n].next
    BY <1>2 DEF Cell
  <2> HIDE DEF k
  <2> QED
    BY <1>1, <1>3, <2>1
<1>7. HasPrev(m, h, n) <=> n # h
  <2>1. n # NULL
    BY <1>1, ListFacts
  <2>2. n = h => \A g \in S : m[g].next # n
    BY <2>1 DEF List
  <2>3. n # h => \E g \in S : m[g].next = n
    BY ListPred
  <2> QED
    BY <1>1, <2>2, <2>3 DEF HasPrev
<1>8. n = h => k = m
  <2>1. SUFFICES ASSUME n = h PROVE k = m
    OBVIOUS
  <2>2. \A g \in S : m[g].next # n
    BY <2>1, <1>7, <1>1 DEF HasPrev
  <2> QED
    BY <2>2, <1>1 DEF Unlink, Memory
<1> HIDE DEF k
<1>9. n # h => List(k, h, S \ {n})
  BY <1>4, <1>6, ListUnlink
<1> QED
  BY <1>3, <1>4, <1>5, <1>7, <1>8, <1>9 DEF k, Unlinked

-----------------------------------------------------------------------------
(* Slots of a page *)

\* x is a whole number of blocks of size s.
Whole(s, x) == \E i \in Nat : x = i * s

\* Whole numbers of blocks can be added and compared block by block.
LEMMA WholeArith ==
  ASSUME NEW s \in Nat \ {0}, NEW x, NEW y, Whole(s, x), Whole(s, y)
  PROVE  /\ x \in Nat /\ y \in Nat
         /\ Whole(s, x + y)
         /\ y <= x => Whole(s, x - y)
         /\ y < x => y + s <= x
         /\ Whole(s, s) /\ Whole(s, 0)
<1>1. PICK i \in Nat, j \in Nat : x = i * s /\ y = j * s
  BY DEF Whole
<1>2. x \in Nat /\ y \in Nat
  BY <1>1
<1>3. x + y = (i + j) * s /\ i + j \in Nat
  BY <1>1
<1>4. s = 1 * s /\ 0 = 0 * s
  OBVIOUS
<1>5. ASSUME y <= x PROVE Whole(s, x - y)
  <2>1. j <= i
    <3>1. SUFFICES ASSUME i < j PROVE FALSE
      OBVIOUS
    <3>2. PICK d \in Nat \ {0} : j = i + d
      BY <3>1
    <3>3. j * s = i * s + d * s /\ d * s > 0
      BY <3>2
    <3> QED
      BY <3>3, <1>1, <1>5
  <2>2. x - y = (i - j) * s /\ i - j \in Nat
    BY <1>1, <2>1
  <2> QED
    BY <2>2 DEF Whole
<1>6. ASSUME y < x PROVE y + s <= x
  <2>1. j < i
    <3>1. SUFFICES ASSUME i <= j PROVE FALSE
      OBVIOUS
    <3>2. PICK d \in Nat : j = i + d
      BY <3>1
    <3>3. j * s = i * s + d * s /\ d * s >= 0
      BY <3>2
    <3> QED
      BY <3>3, <1>1, <1>6
  <2>2. PICK d \in Nat : i = j + 1 + d
    BY <2>1
  <2>3. i * s = j * s + s + d * s /\ d * s \in Nat
    BY <2>2
  <2> QED
    BY <2>3, <1>1, <1>2
<1> QED
  BY <1>2, <1>3, <1>4, <1>5, <1>6 DEF Whole

\* The division of kfree is exact on a slot.
LEMMA SlotAtIs ==
  ASSUME NEW s \in Nat \ {0}, NEW x, Whole(s, x)
  PROVE  SlotAt(x, s) \in Nat /\ SlotAt(x, s) * s = x /\ (x > 0 => SlotAt(x, s) > 0)
<1>1. PICK i \in Nat : x = i * s
  BY DEF Whole
<1>2. x \div s = i
  BY <1>1
<1>3. x > 0 => i > 0
  BY <1>1
<1> QED
  BY <1>1, <1>2, <1>3 DEF SlotAt

SmallSize == {s \in SizeClass : s <= MaxSmall}

\* A page is a whole number of blocks of each small size, and at least four.
LEMMA SmallFacts ==
  ASSUME NEW s \in SmallSize
  PROVE  s \in Nat \ {0} /\ 4 * s <= PageSize /\ PageSize \in Nat /\ Whole(s, PageSize)
<1>1. s \in Nat \ {0} /\ MaxSmall \in Nat /\ s <= MaxSmall /\ 4 * MaxSmall <= PageSize /\ PageSize \in Nat
  BY SizeAssumption DEF SmallSize
<1>2. PageSize % s = 0
  BY SizeAssumption DEF SmallSize
<1>3. PageSize \div s \in Nat /\ PageSize = (PageSize \div s) * s
  BY <1>1, <1>2
<1>4. Whole(s, PageSize)
  BY <1>3 DEF Whole
<1>5. 4 * s <= PageSize
  BY <1>1
<1> QED
  BY <1>1, <1>4, <1>5

\* a is the address of a block slot in a page at p of blocks of size s.
Slot(p, s, a) == a \in Int /\ p < a /\ a < p + PageSize /\ Whole(s, a - p)

PageAt(p) == p \in Granule /\ p + PageSize <= HeapEnd

\* A slot lies in the page with all its bytes, and slots are a block apart.
LEMMA SlotFacts ==
  ASSUME NEW p, PageAt(p), NEW s \in SmallSize, NEW a, Slot(p, s, a)
  PROVE  /\ a \in Granule /\ a + s - 1 \in Granule /\ p + s <= a /\ a + s <= p + PageSize
         /\ a + s < p + PageSize => Slot(p, s, a + s)
         /\ \A b : Slot(p, s, b) /\ b < a => b + s <= a
<1>1. s \in Nat \ {0} /\ PageSize \in Nat /\ Whole(s, PageSize)
  BY SmallFacts
<1>2. p \in Int /\ p >= HeapStart /\ p + PageSize <= HeapEnd /\ HeapStart \in Int /\ HeapEnd \in Int
  BY HeapAssumption DEF PageAt, Granule
<1>3. a \in Int /\ p < a /\ a < p + PageSize /\ Whole(s, a - p)
  BY DEF Slot
<1>4. Whole(s, 0) /\ Whole(s, s)
  BY <1>1, WholeArith
<1>5. 0 < a - p => 0 + s <= a - p
  BY ONLY <1>1, <1>3, <1>4, WholeArith
<1>6. a - p < PageSize => (a - p) + s <= PageSize
  BY ONLY <1>1, <1>3, <1>4, WholeArith
<1>7. Whole(s, (a - p) + s)
  BY ONLY <1>1, <1>3, <1>4, WholeArith
<1>8. a + s < p + PageSize => Slot(p, s, a + s)
  <2>1. (a - p) + s = (a + s) - p
    BY <1>1, <1>2, <1>3
  <2>2. Whole(s, (a + s) - p)
    BY <1>7, <2>1
  <2> QED
    BY <2>2, <1>1, <1>2, <1>3 DEF Slot
<1>9. ASSUME NEW b, Slot(p, s, b), b < a PROVE b + s <= a
  <2>1. b \in Int /\ Whole(s, b - p)
    BY <1>9 DEF Slot
  <2>2. b - p < a - p => (b - p) + s <= a - p
    BY ONLY <1>1, <1>3, <2>1, WholeArith
  <2> QED
    BY <1>1, <1>2, <1>3, <1>9, <2>1, <2>2
<1> QED
  BY <1>1, <1>2, <1>3, <1>5, <1>6, <1>8, <1>9 DEF Granule

-----------------------------------------------------------------------------
(* Pages *)

Ptrs(B) == {b.ptr : b \in B}

\* A free node of a page at p.
NodeOK(m, p, s, f) ==
  /\ Slot(p, s, f) /\ Whole(s, m[f].size) /\ m[f].size > 0
  /\ f + m[f].size <= p + PageSize /\ m[f].magic = PAGE_MAGIC

\* None of X is in the free node f.
Clear(m, f, X) == \A x \in X : x < f \/ f + m[f].size <= x

\* F is the free list of the page at p, and apart from the blocks B.
FreeOK(m, p, F, B) ==
  /\ List(m, FreeHead(m, p), F) /\ FreeHead(m, p) \in F
  /\ \A f \in F : NodeOK(m, p, m[p].size, f) /\ Clear(m, f, (F \ {f}) \cup Ptrs(B))

\* The blocks B of the page at p.
BlocksOK(m, p, B) ==
  /\ \A b \in B : b.size = m[p].size /\ Slot(p, m[p].size, b.ptr)
  /\ \A a, b \in B : a.ptr = b.ptr => a = b

\* A page that has been emptied, or one whose blocks in use are B.
PageOK(m, p, B) ==
  \/ m[p].size = 0 /\ m[p].magic = 1 /\ B = {}
  \/ /\ m[p].size \in SmallSize /\ BlocksOK(m, p, B)
     /\ m[p].magic \in Nat
     /\ m[p].magic # 0 => \E F : FreeOK(m, p, F, B)

\* k differs from m in the page at p only, and in none of the blocks B.
Within(m, k, p, B) ==
  /\ k \in Memory /\ k[p].next = m[p].next
  /\ \A g \in Granule : g < p \/ p + PageSize <= g => k[g] = m[g]
  /\ \A b \in B : \A g \in Run(b.ptr, b.size) : k[g] = m[g]

\* A page lies in the heap.
LEMMA PageFacts ==
  ASSUME NEW p, PageAt(p)
  PROVE  /\ p \in Granule /\ p \in Int /\ p # NULL /\ p >= HeapStart /\ p + PageSize <= HeapEnd
         /\ PageSize \in Nat /\ HeapStart \in Nat \ {0} /\ HeapEnd \in Nat
  BY HeapAssumption, SizeAssumption DEF PageAt, Granule, NULL

\* A free node is not in a block, nor a block in a free node.
LEMMA NodeApart ==
  ASSUME NEW m, NEW p, PageAt(p), NEW F, NEW B, m[p].size \in SmallSize, BlocksOK(m, p, B),
         FreeOK(m, p, F, B), NEW f \in F, NEW b \in B
  PROVE  f < b.ptr \/ b.ptr + b.size <= f
<1>1. Slot(p, m[p].size, f) /\ Slot(p, m[p].size, b.ptr) /\ b.size = m[p].size
  BY DEF FreeOK, NodeOK, BlocksOK
<1>2. f # b.ptr
  <2>1. m \in Memory /\ F \subseteq Granule
    BY ListFacts DEF FreeOK, List
  <2>2. b.ptr < f \/ f + m[f].size <= b.ptr
    BY DEF FreeOK, Clear, Ptrs
  <2>3. m[f].size \in Int /\ m[f].size > 0 /\ f \in Int
    BY <2>1, <1>1 DEF Memory, Cell, FreeOK, NodeOK, Slot
  <2> QED
    BY <2>2, <2>3
<1>3. b.ptr < f => b.ptr + m[p].size <= f
  BY <1>1, SlotFacts
<1> QED
  BY <1>1, <1>2, <1>3 DEF Slot

\* Stores outside the header and the free nodes do not change a page.
LEMMA PageFrame ==
  ASSUME NEW m \in Memory, NEW k \in Memory, NEW p, PageAt(p), NEW B, PageOK(m, p, B),
         k[p].size = m[p].size, k[p].magic = m[p].magic,
         \A g \in Granule : p < g /\ g < p + PageSize
            /\ (\A b \in B : g < b.ptr \/ b.ptr + b.size <= g) => k[g] = m[g]
  PROVE  /\ PageOK(k, p, B)
         /\ \A F : FreeOK(m, p, F, B) /\ m[p].size \in SmallSize => FreeOK(k, p, F, B)
<1>1. BlocksOK(m, p, B) => BlocksOK(k, p, B)
  BY DEF BlocksOK
<1>2. ASSUME NEW F, m[p].size \in SmallSize, BlocksOK(m, p, B), FreeOK(m, p, F, B) PROVE FreeOK(k, p, F, B)
  <2>1. FreeHead(k, p) = FreeHead(m, p)
    BY DEF FreeHead
  <2>2. F \subseteq Granule
    BY <1>2, ListFacts DEF FreeOK
  <2>3. \A f \in F : k[f] = m[f]
    <3>1. SUFFICES ASSUME NEW f \in F PROVE k[f] = m[f]
      OBVIOUS
    <3>2. \A b \in B : f < b.ptr \/ b.ptr + b.size <= f
      BY <1>2, NodeApart
    <3>3. p < f /\ f < p + PageSize
      BY <1>2 DEF FreeOK, NodeOK, Slot
    <3> QED
      BY <2>2, <3>2, <3>3
  <2>4. List(k, FreeHead(k, p), F)
    BY <1>2, <2>1, <2>3, ListFrame DEF FreeOK
  <2>5. ASSUME NEW f \in F PROVE NodeOK(k, p, k[p].size, f) /\ Clear(k, f, (F \ {f}) \cup Ptrs(B))
    BY <1>2, <2>3 DEF FreeOK, NodeOK, Clear
  <2> QED
    BY <1>2, <2>1, <2>4, <2>5 DEF FreeOK
<1>3. PageOK(k, p, B)
  BY <1>1, <1>2 DEF PageOK
<1>4. m[p].size \in SmallSize => BlocksOK(m, p, B)
  <2>1. 0 \notin SmallSize
    BY SmallFacts
  <2> QED
    BY <2>1 DEF PageOK
<1> QED
  BY <1>2, <1>3, <1>4

-----------------------------------------------------------------------------
(* kalloc in a page *)

\* What TakeSlot stores.
LEMMA TakeSlotCells ==
  ASSUME NEW m \in Memory, NEW p \in Granule, NEW fd \in Granule, NEW s \in Int, p # fd, p # fd + s, s # 0
  PROVE  LET k == TakeSlot(m, p, fd, s)  left == m[fd].size - s
         IN  /\ k \in Memory
             /\ k[p].next = m[p].next /\ k[p].size = m[p].size
             /\ \A g \in Granule \ {p, fd} : left = 0 \/ g # fd + s => k[g] = m[g]
             /\ left = 0 => k[p].magic = IF m[fd].next = NULL THEN 0 ELSE SlotAt(m[fd].next - p, s)
             /\ left # 0 => k[p].magic = m[p].magic + 1
             /\ left # 0 /\ fd + s \in Granule => k[fd + s] = FreeNode(m[fd].next, left)
<1> DEFINE left == m[fd].size - s
           taken == [m EXCEPT ![fd].size = left]
           k == TakeSlot(m, p, fd, s)
<1>1. k \in Memory
  BY TakeSlotType
<1>2. m[fd].size \in Int /\ m[fd].next \in Int /\ left \in Int /\ m[p] \in Cell
  BY CellFields
<1>3. taken[p] = m[p] /\ \A g \in Granule \ {fd} : taken[g] = m[g]
  BY DEF Memory
<1>4. taken \in Memory
  BY <1>2, StoreField
<1>5. CASE left = 0
  <2> DEFINE i == IF m[fd].next = NULL THEN 0 ELSE SlotAt(m[fd].next - p, s)
  <2>1. k = SetIndex(taken, p, i)
    BY <1>5 DEF TakeSlot
  <2> HIDE DEF k, i, taken
  <2>2. k = [taken EXCEPT ![p].magic = i]
    BY <2>1 DEF SetIndex
  <2>3. k[p] = [taken[p] EXCEPT !.magic = i] /\ \A g \in Granule \ {p} : k[g] = taken[g]
    BY <2>2, <1>4 DEF Memory
  <2>4. k[p].next = m[p].next /\ k[p].size = m[p].size /\ k[p].magic = i
    BY <2>3, <1>2, <1>3 DEF Cell
  <2> QED
    BY <1>1, <1>3, <1>5, <2>3, <2>4 DEF i, k
<1>6. CASE left # 0
  <2> DEFINE noded == [taken EXCEPT ![fd + s] = FreeNode(m[fd].next, left)]
             i == m[p].magic + 1
  <2>1. k = SetIndex(noded, p, i)
    BY <1>6 DEF TakeSlot
  <2>2. FreeNode(m[fd].next, left) \in Cell
    BY <1>2, NewCells
  <2>3. noded \in Memory
    BY <2>2, <1>4, StoreCell
  <2>4. /\ fd + s \in Granule => noded[fd + s] = FreeNode(m[fd].next, left)
        /\ \A g \in Granule \ {fd + s} : noded[g] = taken[g]
    BY <1>4 DEF Memory
  <2> HIDE DEF k, i, taken, noded
  <2>5. k = [noded EXCEPT ![p].magic = i]
    BY <2>1 DEF SetIndex
  <2>6. k[p] = [noded[p] EXCEPT !.magic = i] /\ \A g \in Granule \ {p} : k[g] = noded[g]
    BY <2>5, <2>3 DEF Memory
  <2>7. k[p].next = m[p].next /\ k[p].size = m[p].size /\ k[p].magic = i
    BY <2>4, <2>6, <1>2, <1>3 DEF Cell
  <2> QED
    BY <1>1, <1>3, <1>6, <2>4, <2>6, <2>7 DEF i, k
<1> QED
  BY <1>5, <1>6

\* Single stores.
LEMMA IndexCells ==
  ASSUME NEW m \in Memory, NEW p \in Granule, NEW i \in Int
  PROVE  LET k == SetIndex(m, p, i)
         IN  /\ k \in Memory
             /\ k[p].next = m[p].next /\ k[p].size = m[p].size /\ k[p].magic = i
             /\ \A g \in Granule \ {p} : k[g] = m[g]
  BY SetIndexType, CellFields DEF SetIndex, Memory, Cell

\* k is m with a size stored at p.
Resized(m, k, p, v) ==
  /\ k \in Memory
  /\ k[p].next = m[p].next /\ k[p].size = v /\ k[p].magic = m[p].magic
  /\ \A g \in Granule \ {p} : k[g] = m[g]

\* That is what a store to the size field does.
LEMMA SizeCells ==
  ASSUME NEW m \in Memory, NEW p \in Granule, NEW v \in Int
  PROVE  Resized(m, [m EXCEPT ![p].size = v], p, v)
  BY StoreField, CellFields DEF Memory, Cell, Resized

\* A store of a whole cell.
LEMMA NodeCells ==
  ASSUME NEW m \in Memory, NEW a \in Granule, NEW c \in Cell
  PROVE  LET k == [m EXCEPT ![a] = c]
         IN  k \in Memory /\ k[a] = c /\ \A g \in Granule \ {a} : k[g] = m[g]
  BY StoreCell DEF Memory

\* The fields of a new free node.
LEMMA FreeNodeIs ==
  ASSUME NEW x, NEW y
  PROVE  FreeNode(x, y).next = x /\ FreeNode(x, y).size = y /\ FreeNode(x, y).magic = PAGE_MAGIC
  BY DEF FreeNode

\* What is known of the free list of a page.
LEMMA FreeFacts ==
  ASSUME NEW m, NEW p, PageAt(p), NEW B, NEW F, m[p].size \in SmallSize, FreeOK(m, p, F, B)
  PROVE  /\ m \in Memory /\ F \subseteq Granule /\ p \notin F
         /\ \A f \in F : /\ f \in Int /\ m[f].size \in Nat \ {0} /\ m[f].size >= m[p].size
                         /\ p + m[p].size <= f /\ f + m[f].size <= p + PageSize
                         /\ Slot(p, m[p].size, f) /\ Whole(m[p].size, m[f].size)
                         /\ m[f].magic = PAGE_MAGIC
                         /\ m[f].next \in F \cup {NULL} /\ m[f].next # f
<1>1. m \in Memory /\ F \subseteq Granule
  BY ListFacts DEF FreeOK, List
<1>2. p \in Int /\ m[p].size \in Nat \ {0}
  BY PageFacts, SmallFacts
<1>3. ASSUME NEW f \in F
      PROVE  /\ f \in Int /\ m[f].size \in Nat \ {0} /\ m[f].size >= m[p].size
             /\ p + m[p].size <= f /\ f + m[f].size <= p + PageSize
             /\ Slot(p, m[p].size, f) /\ Whole(m[p].size, m[f].size)
             /\ m[f].magic = PAGE_MAGIC
             /\ m[f].next \in F \cup {NULL} /\ m[f].next # f
  <2>1. NodeOK(m, p, m[p].size, f)
    BY DEF FreeOK
  <2>2. m[f].size \in Int /\ f \in Int
    BY <1>1, GranuleInt, CellFields
  <2>3. Whole(m[p].size, m[f].size) /\ Whole(m[p].size, 0)
    BY <1>2, <2>1, WholeArith DEF NodeOK
  <2>4. m[f].size >= m[p].size
    <3>1. 0 < m[f].size => 0 + m[p].size <= m[f].size
      BY ONLY <1>2, <2>3, WholeArith
    <3> QED
      BY <3>1, <1>2, <2>1, <2>2 DEF NodeOK
  <2>5. p + m[p].size <= f
    BY <2>1, SlotFacts DEF NodeOK
  <2>6. m[f].next \in F \cup {NULL} /\ m[f].next # f
    BY ListPred DEF FreeOK, List
  <2> QED
    BY <2>1, <2>2, <2>3, <2>4, <2>5, <2>6 DEF NodeOK
<1>4. p \notin F
  BY <1>2, <1>3
<1> QED
  BY <1>1, <1>3, <1>4

\* A page that has a free slot.
LEMMA HasFree ==
  ASSUME NEW m \in Memory, NEW p, PageAt(p), NEW B, PageOK(m, p, B), m[p].size # 0, m[p].magic # 0
  PROVE  m[p].size \in SmallSize /\ BlocksOK(m, p, B) /\ m[p].magic \in Nat /\ \E F : FreeOK(m, p, F, B)
  BY DEF PageOK

\* The fast path: the node at the head has room, the assertions hold, and the page
\* is one whose blocks are B and the new one.
LEMMA TakeSlotOK ==
  ASSUME NEW m \in Memory, NEW p, PageAt(p), NEW B, PageOK(m, p, B),
         m[p].size # 0, m[p].magic # 0, NEW x, x.ptr = FreeHead(m, p), x.size = m[p].size
  PROVE  LET s == m[p].size
             fd == FreeHead(m, p)
             k == TakeSlot(m, p, fd, s)
         IN  /\ fd \in Granule /\ m[fd].size >= s /\ TakeSlotAsserts(m, p, fd, s)
             /\ Slot(p, s, fd) /\ fd \notin Ptrs(B)
             /\ PageOK(k, p, B \cup {x}) /\ Within(m, k, p, B)
             /\ k[p].size = s
<1> DEFINE s == m[p].size
           fd == FreeHead(m, p)
           t == m[fd].size
           n == m[fd].next
           k == TakeSlot(m, p, fd, s)
<1>1. s \in SmallSize /\ BlocksOK(m, p, B) /\ m[p].magic \in Nat
  BY HasFree
<1>2. PICK F : FreeOK(m, p, F, B)
  BY HasFree
<1>3. s \in Nat \ {0} /\ PageSize \in Nat /\ p \in Int /\ p \in Granule
  BY <1>1, SmallFacts, PageFacts
<1>4. fd \in F /\ fd \in Int /\ fd = p + m[p].magic * s
  <2>1. fd \in F
    BY <1>2 DEF FreeOK
  <2>2. \A f \in F : f \in Int
    BY ONLY <1>1, <1>2, PageAt(p), FreeFacts
  <2>3. fd = p + m[p].magic * s
    BY DEF FreeHead
  <2> QED
    BY ONLY <2>1, <2>2, <2>3
<1>5. /\ fd \in Granule /\ t \in Nat \ {0} /\ t >= s /\ p + s <= fd /\ fd + t <= p + PageSize
      /\ Slot(p, s, fd) /\ Whole(s, t) /\ m[fd].magic = PAGE_MAGIC
      /\ n \in F \cup {NULL} /\ n # fd
  BY <1>1, <1>2, <1>4, FreeFacts
<1>6. \A f \in F : f \in Int /\ m[f].size \in Nat /\ Slot(p, s, f) /\ f # p /\ f \in Granule
  BY <1>1, <1>2, FreeFacts
<1>7. /\ k \in Memory
      /\ k[p].next = m[p].next /\ k[p].size = s
      /\ \A g \in Granule \ {p, fd} : t - s = 0 \/ g # fd + s => k[g] = m[g]
      /\ t - s = 0 => k[p].magic = IF n = NULL THEN 0 ELSE SlotAt(n - p, s)
      /\ t - s # 0 => k[p].magic = m[p].magic + 1
      /\ t - s # 0 /\ fd + s \in Granule => k[fd + s] = FreeNode(n, t - s)
  <2>1. p # fd /\ p # fd + s /\ s \in Int /\ s # 0 /\ fd \in Granule
    BY ONLY <1>3, <1>4, <1>5
  <2>2. k[p].size = m[p].size => k[p].size = s
    OBVIOUS
  <2> HIDE DEF k, t, n, s, fd
  <2>3. /\ k \in Memory
        /\ k[p].next = m[p].next /\ k[p].size = m[p].size
        /\ \A g \in Granule \ {p, fd} : t - s = 0 \/ g # fd + s => k[g] = m[g]
        /\ t - s = 0 => k[p].magic = IF n = NULL THEN 0 ELSE SlotAt(n - p, s)
        /\ t - s # 0 => k[p].magic = m[p].magic + 1
        /\ t - s # 0 /\ fd + s \in Granule => k[fd + s] = FreeNode(n, t - s)
    BY ONLY <1>3, <2>1, m \in Memory, TakeSlotCells DEF k, t, n
  <2> QED
    BY <2>2, <2>3
<1> HIDE DEF k, t, n, s, fd
<1>8. x.ptr = fd /\ x.size = s /\ m[p].magic \in Nat
  BY <1>1 DEF fd, s
<1>9. \A f \in F : f # fd => f < fd \/ fd + t <= f
  BY <1>2, <1>4 DEF FreeOK, Clear, t
<1>10. \A b \in B : b.ptr # fd /\ (b.ptr < fd \/ fd + t <= b.ptr)
  <2>1. \A b \in B : b.ptr < fd \/ fd + t <= b.ptr
    BY <1>2, <1>4 DEF FreeOK, Clear, t, Ptrs
  <2>2. \A b \in B : b.ptr \in Int
    BY <1>1 DEF BlocksOK, Slot
  <2> QED
    BY <2>1, <2>2, <1>4, <1>5
<1>11. \A f \in F : \A y \in (F \ {f}) \cup Ptrs(B) : y < f \/ f + m[f].size <= y
  BY <1>2 DEF FreeOK, Clear
<1>12. BlocksOK(k, p, B \cup {x})
  <2>1. \A b \in B \cup {x} : b.size = k[p].size /\ Slot(p, k[p].size, b.ptr)
    BY <1>1, <1>5, <1>7, <1>8 DEF BlocksOK, s
  <2>2. \A a, b \in B \cup {x} : a.ptr = b.ptr => a = b
    BY <1>1, <1>8, <1>10 DEF BlocksOK
  <2> QED
    BY <2>1, <2>2 DEF BlocksOK
<1>13. Within(m, k, p, B)
  <2>1. \A g \in Granule : g < p \/ p + PageSize <= g => k[g] = m[g]
    <3>1. \A g \in Granule : g \in Int
      BY GranuleInt
    <3> QED
      BY <1>3, <1>4, <1>5, <1>7, <3>1
  <2>2. ASSUME NEW b \in B, NEW g \in Run(b.ptr, b.size) PROVE k[g] = m[g]
    <3>1. Slot(p, s, b.ptr) /\ b.size = s /\ b.ptr \in Int
      BY <1>1 DEF BlocksOK, Slot, s
    <3>2. g \in Int /\ b.ptr <= g /\ g < b.ptr + s
      BY <2>2, <3>1, <1>3 DEF Run
    <3>3. b.ptr \in Granule /\ b.ptr + s <= p + PageSize /\ p + s <= b.ptr
      BY <3>1, <1>1, SlotFacts
    <3>4. g \in Granule
      BY <3>2, <3>3, <1>3, PageFacts DEF Granule
    <3>5. b.ptr < fd => b.ptr + s <= fd
      BY <3>1, <1>1, <1>5, SlotFacts
    <3>6. g # p /\ g # fd /\ (t - s # 0 => g # fd + s)
      <4>1. t - s # 0 => fd + s < fd + t
        BY <1>3, <1>4, <1>5
      <4> QED
        BY <3>1, <3>2, <3>3, <3>5, <1>10, <1>3, <1>4, <1>5, <4>1
    <3> QED
      BY <3>4, <3>6, <1>7
  <2> QED
    BY <2>1, <2>2, <1>7 DEF Within
<1>14. CASE t - s = 0 /\ n = NULL
  <2>1. k[p].magic = 0 /\ k[p].size \in SmallSize
    BY <1>14, <1>7, <1>1
  <2>2. PageOK(k, p, B \cup {x})
    BY <2>1, <1>12 DEF PageOK
  <2>3. TakeSlotAsserts(m, p, fd, s)
    BY <1>14, <1>5 DEF TakeSlotAsserts, t, n
  <2> QED
    BY <2>2, <2>3, <1>5, <1>7, <1>10, <1>13 DEF Ptrs, s, fd, k, t
<1>15. CASE t - s = 0 /\ n # NULL
  <2>1. n \in F /\ n # fd /\ Slot(p, s, n) /\ n \in Int
    BY <1>15, <1>5, <1>6
  <2>2. SlotAt(n - p, s) \in Nat /\ SlotAt(n - p, s) * s = n - p /\ SlotAt(n - p, s) > 0
    <3>1. Whole(s, n - p) /\ n - p > 0
      BY <2>1, <1>3 DEF Slot
    <3> QED
      BY <3>1, <1>3, SlotAtIs
  <2>3. k[p].magic = SlotAt(n - p, s) /\ p + SlotAt(n - p, s) * s = n
    BY <1>15, <1>7, <1>3, <2>1, <2>2
  <2>4. FreeHead(k, p) = n
    BY <2>3, <1>7 DEF FreeHead
  <2>5. \A g \in F \ {fd} : k[g] = m[g]
    BY <1>6, <1>7, <1>15
  <2>6. List(k, n, F \ {fd})
    <3>1. List(m, fd, F) /\ fd # NULL
      BY <1>2, <1>5, GranuleInt DEF FreeOK, fd
    <3>2. List(m, n, F \ {fd})
      BY <3>1, ListPop DEF n
    <3> QED
      BY <3>2, <2>5, <1>7, ListFrame
  <2>7. FreeOK(k, p, F \ {fd}, B \cup {x})
    <3>1. ASSUME NEW f \in F \ {fd}
          PROVE  NodeOK(k, p, k[p].size, f) /\ Clear(k, f, ((F \ {fd}) \ {f}) \cup Ptrs(B \cup {x}))
      <4>1. NodeOK(k, p, k[p].size, f)
        BY <2>5, <1>2, <1>7 DEF FreeOK, NodeOK, s
      <4>2. k[f].size = m[f].size
        BY <2>5
      <4>3. \A y \in (F \ {f}) \cup Ptrs(B) : y < f \/ f + m[f].size <= y
        BY <1>11
      <4>4. Ptrs(B \cup {x}) = Ptrs(B) \cup {fd}
        BY <1>8 DEF Ptrs
      <4> QED
        BY <4>1, <4>2, <4>3, <4>4, <1>4 DEF Clear
    <3> QED
      BY <3>1, <2>1, <2>4, <2>6 DEF FreeOK
  <2>8. PageOK(k, p, B \cup {x})
    BY <2>2, <2>3, <2>7, <1>1, <1>7, <1>12 DEF PageOK
  <2>9. TakeSlotAsserts(m, p, fd, s)
    BY <1>15, <1>5, <2>3 DEF TakeSlotAsserts, t, n, k
  <2> QED
    BY <2>8, <2>9, <1>5, <1>7, <1>10, <1>13 DEF Ptrs, s, fd, k, t
<1>16. CASE t - s # 0
  <2> DEFINE z == fd + s
             G == (F \ {fd}) \cup {z}
  <2>1. s < t /\ z \in Int /\ fd < z /\ z < fd + t /\ z < p + PageSize
    BY <1>16, <1>3, <1>4, <1>5
  <2>2. Slot(p, s, z) /\ z \in Granule
    <3>1. Slot(p, s, z)
      BY <2>1, <1>1, <1>5, SlotFacts
    <3> QED
      BY <3>1, <1>1, SlotFacts
  <2>3. z \notin F /\ z # p
    <3>1. z # p
      BY ONLY <2>1, <1>3, <1>4, <1>5
    <3>2. SUFFICES ASSUME z \in F PROVE FALSE
      BY <3>1
    <3>3. z < fd \/ fd + t <= z
      BY ONLY <3>2, <1>9, <2>1, <1>4
    <3> QED
      BY ONLY <3>3, <2>1, <1>4, <1>5
  <2> HIDE DEF z
  <2>4. k[z] = FreeNode(n, t - s) /\ k[p].magic = m[p].magic + 1
    BY <1>16, <1>7, <2>2 DEF z
  <2>5. FreeHead(k, p) = z /\ k[p].magic \in Nat /\ k[p].magic # 0
    <3>1. p + (m[p].magic + 1) * s = (p + m[p].magic * s) + s
      BY <1>3, <1>8
    <3> QED
      BY <3>1, <2>4, <1>4, <1>7, <1>8 DEF FreeHead, z
  <2>6. \A g \in F \ {fd} : k[g] = m[g]
    BY <1>6, <1>7, <2>3 DEF z
  <2>7. List(k, z, G)
    <3>1. List(m, fd, F) /\ fd # NULL
      BY <1>2, <1>5, GranuleInt DEF FreeOK, fd
    <3>2. List(m, n, F \ {fd})
      BY <3>1, ListPop DEF n
    <3>3. k[z].next = n
      BY <2>4, FreeNodeIs
    <3> QED
      BY <3>2, <3>3, <2>2, <2>3, <2>6, <1>7, ListPush
  <2>8. k[z].size = t - s /\ k[z].magic = PAGE_MAGIC
    BY <2>4, FreeNodeIs
  <2>9. Whole(s, t - s) /\ t - s > 0 /\ z + (t - s) = fd + t
    <3>1. Whole(s, s)
      BY ONLY <1>3, <1>5, WholeArith
    <3>2. s <= t => Whole(s, t - s)
      BY ONLY <1>3, <1>5, <3>1, WholeArith
    <3> QED
      BY <3>2, <2>1, <1>3, <1>4, <1>5 DEF z
  <2>10. NodeOK(k, p, s, z) /\ Clear(k, z, (G \ {z}) \cup Ptrs(B \cup {x}))
    <3>1. NodeOK(k, p, s, z)
      BY <2>2, <2>8, <2>9, <1>5 DEF NodeOK
    <3>2. ASSUME NEW y \in (G \ {z}) \cup Ptrs(B \cup {x}) PROVE y < z \/ z + k[z].size <= y
      <4>1. CASE y \in F \ {fd}
        <5>1. y < fd \/ fd + t <= y
          BY <4>1, <1>9
        <5> QED
          BY <5>1, <4>1, <1>6, <2>1, <2>8, <2>9, <1>4
      <4>2. CASE y \in Ptrs(B)
        <5>1. (y < fd \/ fd + t <= y) /\ y \in Int
          BY <4>2, <1>10, <1>1 DEF Ptrs, BlocksOK, Slot
        <5> QED
          BY <5>1, <2>1, <2>8, <2>9, <1>4
      <4>3. CASE y = fd
        BY <4>3, <2>1
      <4> QED
        BY <4>1, <4>2, <4>3, <1>8 DEF Ptrs
    <3> QED
      BY <3>1, <3>2 DEF Clear
  <2>11. ASSUME NEW f \in F \ {fd}
         PROVE  NodeOK(k, p, s, f) /\ Clear(k, f, (G \ {f}) \cup Ptrs(B \cup {x}))
    <3>1. NodeOK(k, p, s, f)
      BY <2>6, <1>2 DEF FreeOK, NodeOK, s
    <3>2. k[f].size = m[f].size /\ f \in Int /\ m[f].size \in Nat
      BY <2>6, <1>6
    <3>3. \A y \in (F \ {f}) \cup Ptrs(B) : y < f \/ f + m[f].size <= y
      BY <1>11
    <3>4. fd < f \/ f + m[f].size <= fd
      BY <3>3, <1>4
    <3>5. z < f \/ f + m[f].size <= z
      BY <3>2, <3>4, <1>9, <2>1, <1>4, <1>5
    <3>6. Ptrs(B \cup {x}) = Ptrs(B) \cup {fd}
      BY <1>8 DEF Ptrs
    <3> QED
      BY <3>1, <3>2, <3>3, <3>4, <3>5, <3>6 DEF Clear
  <2>12. FreeOK(k, p, G, B \cup {x})
    BY <2>5, <2>7, <2>10, <2>11, <1>7 DEF FreeOK
  <2>13. PageOK(k, p, B \cup {x})
    BY <2>5, <2>12, <1>1, <1>7, <1>12 DEF PageOK
  <2>14. TakeSlotAsserts(m, p, fd, s)
    <3>1. p + k[p].magic * s = fd + s
      BY <2>5, <1>7 DEF FreeHead, z
    <3>2. k[p].magic < PageSize \div s
      <4>1. PICK j \in Nat : PageSize = j * s
        BY <1>1, SmallFacts DEF Whole
      <4>2. PageSize \div s = j
        BY ONLY <4>1, <1>3, j \in Nat
      <4>3. k[p].magic * s < j * s
        BY <3>1, <4>1, <2>1, <1>3, <1>4, <2>5 DEF z
      <4>4. PICK i \in Nat : i = k[p].magic
        BY <2>5
      <4>5. i < j
        <5>1. SUFFICES ASSUME j <= i PROVE FALSE
          BY <4>4
        <5>2. PICK d \in Nat : i = j + d
          BY ONLY <5>1, i \in Nat, j \in Nat
        <5>3. i * s = j * s + d * s /\ d * s >= 0
          BY ONLY <5>2, <1>3, d \in Nat, j \in Nat
        <5> QED
          BY <5>3, <4>3, <4>4, <1>3
      <4> QED
        BY <4>2, <4>4, <4>5
    <3> QED
      BY <3>1, <3>2, <1>16 DEF TakeSlotAsserts, t, k
  <2> QED
    BY <2>13, <2>14, <1>5, <1>7, <1>10, <1>13 DEF Ptrs, s, fd, k, t
<1> QED
  BY <1>14, <1>15, <1>16
\* The list of no nodes.
LEMMA NoList ==
  ASSUME NEW m \in Memory
  PROVE  List(m, NULL, {})
  BY ListBy

\* A page whose slots from a on are one free node.
LEMMA OneNodePage ==
  ASSUME NEW k \in Memory, NEW p, PageAt(p), NEW s \in SmallSize, NEW i \in Nat \ {0}, NEW a, a = p + i * s,
         a < p + PageSize, k[p].size = s, k[p].magic = i, k[a] = FreeNode(NULL, p + PageSize - a),
         NEW B, BlocksOK(k, p, B), \A b \in B : b.ptr < a
  PROVE  PageOK(k, p, B)
<1>1. s \in Nat \ {0} /\ PageSize \in Nat /\ Whole(s, PageSize) /\ p \in Int /\ p \in Granule
  BY SmallFacts, PageFacts
<1>2. a \in Int /\ a - p = i * s /\ i * s \in Nat
  BY <1>1
<1>3. i * s > 0
  BY <1>1
<1>4. Whole(s, a - p)
  BY <1>2 DEF Whole
<1>5. Slot(p, s, a)
  BY <1>1, <1>2, <1>3, <1>4 DEF Slot
<1>6. a \in Granule
  BY <1>5, SlotFacts
<1>7. Whole(s, PageSize - (a - p))
  <2>1. a - p <= PageSize => Whole(s, PageSize - (a - p))
    BY ONLY <1>1, <1>4, WholeArith
  <2> QED
    BY <2>1, <1>1, <1>2
<1>8. k[a].next = NULL /\ k[a].size = p + PageSize - a /\ k[a].magic = PAGE_MAGIC
  BY FreeNodeIs
<1>9. PageSize - (a - p) = p + PageSize - a /\ p + PageSize - a > 0 /\ a + (p + PageSize - a) = p + PageSize
  BY <1>1, <1>2
<1>10. NodeOK(k, p, s, a)
  BY <1>1, <1>5, <1>7, <1>8, <1>9 DEF NodeOK
<1>11. List(k, a, {} \cup {a})
  <2>1. a \in Granule \ {} /\ \A g \in {} : k[g].next = k[g].next
    BY <1>6
  <2> QED
    BY ONLY <2>1, <1>8, k \in Memory, NoList, ListPush
<1>12. {} \cup {a} = {a} /\ FreeHead(k, p) = a
  BY DEF FreeHead
<1>13. Clear(k, a, ({a} \ {a}) \cup Ptrs(B))
  BY DEF Clear, Ptrs
<1>14. FreeOK(k, p, {a}, B)
  BY <1>10, <1>11, <1>12, <1>13 DEF FreeOK
<1> QED
  BY <1>14 DEF PageOK

\* memset stores zero in the run and nothing elsewhere.
LEMMA MemsetCells ==
  ASSUME NEW m \in Memory, NEW a \in Int, NEW n \in Int
  PROVE  LET k == memset0(m, a, n)
         IN  /\ k \in Memory
             /\ \A g \in Granule : (a <= g /\ g < a + n) => k[g] = ZeroCell
             /\ \A g \in Granule : (g < a \/ a + n <= g) => k[g] = m[g]
<1>1. \A g \in Granule : g \in Run(a, n) <=> (a <= g /\ g < a + n)
  BY GranuleInt DEF Run
<1>2. \A g \in Granule : (g < a \/ a + n <= g) => ~(a <= g /\ g < a + n)
  BY GranuleInt
<1> QED
  BY <1>1, <1>2, MemsetType DEF memset0

\* The slow path: the page's first block is handed out, zeroed, and the others are free.
LEMMA CarveOK ==
  ASSUME NEW m \in Memory, NEW p, PageAt(p), m[p].size \in SmallSize, m[p].magic = 1,
         NEW x, x.ptr = p + m[p].size, x.size = m[p].size
  PROVE  LET s == m[p].size
             k == CarvePage(m, p, s)
         IN  /\ SlowBlock(m, p, s) = p + s /\ Slot(p, s, p + s)
             /\ PageOK(k, p, {x}) /\ Within(m, k, p, {})
             /\ \A g \in Run(p + s, s) : k[g] = ZeroCell
<1> DEFINE s == m[p].size
           a == p + s
           z == p + 2 * s
           node == FreeNode(NULL, PageSize - 2 * s)
           noded == [m EXCEPT ![z] = node]
           indexed == SetIndex(noded, p, 2)
           k == CarvePage(m, p, s)
<1>1. s \in Nat \ {0} /\ PageSize \in Nat /\ 4 * s <= PageSize /\ p \in Int /\ p \in Granule
  BY SmallFacts, PageFacts
<1>2. SlowBlock(m, p, s) = a
  <2>1. 1 * s = s
    BY <1>1
  <2> QED
    BY <2>1 DEF SlowBlock
<1>3. a \in Int /\ z \in Int /\ p < a /\ a < z /\ z < p + PageSize /\ a < p + PageSize /\ a + s = z
  BY <1>1
<1>4. Slot(p, s, a)
  <2>1. Whole(s, s) /\ a - p = s
    BY <1>1, WholeArith DEF Whole
  <2> QED
    BY <2>1, <1>3 DEF Slot
<1>5. a \in Granule /\ z \in Granule
  <2>1. Slot(p, s, a + s)
    BY <1>3, <1>4, SlotFacts
  <2> QED
    BY <2>1, <1>3, <1>4, SlotFacts
<1>6. k = memset0(indexed, a, s)
  <2>1. m[p].magic + 1 = 2 /\ SlowBlock(m, p, s) + s = z
    BY <1>2, <1>3
  <2> QED
    BY <2>1, <1>2 DEF CarvePage
<1>7. noded \in Memory /\ noded[z] = node /\ \A g \in Granule \ {z} : noded[g] = m[g]
  <2>1. PageSize - 2 * s \in Int /\ NULL \in Int
    BY <1>1, GranuleInt
  <2>2. node \in Cell
    BY ONLY <2>1, NewCells DEF node
  <2> QED
    BY <2>2, <1>5, NodeCells
<1> HIDE DEF noded, k, node, s, a, z
<1>8. /\ indexed \in Memory
      /\ indexed[p].next = noded[p].next /\ indexed[p].size = noded[p].size /\ indexed[p].magic = 2
      /\ \A g \in Granule \ {p} : indexed[g] = noded[g]
  BY <1>1, <1>7, IndexCells
<1> HIDE DEF indexed
<1>9. /\ k \in Memory
      /\ \A g \in Granule : (a <= g /\ g < a + s) => k[g] = ZeroCell
      /\ \A g \in Granule : (g < a \/ a + s <= g) => k[g] = indexed[g]
  <2>1. s \in Int /\ a \in Int /\ indexed \in Memory
    BY <1>1, <1>3, <1>8
  <2> QED
    BY ONLY <2>1, <1>6, MemsetCells
<1>10. k[p].next = m[p].next /\ k[p].size = s /\ k[p].magic = 2
  <2>1. k[p] = indexed[p] /\ noded[p] = m[p]
    BY <1>1, <1>3, <1>7, <1>9
  <2> QED
    BY <2>1, <1>8 DEF s
<1>11. k[z] = node /\ node = FreeNode(NULL, p + PageSize - z)
  <2>1. k[z] = indexed[z] /\ indexed[z] = noded[z]
    BY <1>3, <1>5, <1>8, <1>9, <1>1
  <2>2. PageSize - 2 * s = p + PageSize - z
    BY <1>1 DEF z
  <2> QED
    BY <2>1, <2>2, <1>7 DEF node
<1>12. BlocksOK(k, p, {x})
  BY <1>4, <1>10 DEF BlocksOK, a, s
<1>13. PageOK(k, p, {x})
  <2>1. x.ptr < z
    BY <1>3 DEF a, s
  <2>2. s \in SmallSize /\ z = p + 2 * s /\ 2 \in Nat \ {0}
    BY DEF s, z
  <2>3. k[z] = FreeNode(NULL, p + PageSize - z)
    BY <1>11
  <2> QED
    BY ONLY <2>1, <2>2, <2>3, <1>3, <1>9, <1>10, <1>12, PageAt(p), OneNodePage
<1>14. Within(m, k, p, {})
  <2>1. ASSUME NEW g \in Granule, g < p \/ p + PageSize <= g PROVE k[g] = m[g]
    <3>1. g \in Int
      BY GranuleInt
    <3>2. g # p /\ g # z /\ (g < a \/ a + s <= g)
      BY <2>1, <3>1, <1>1, <1>3
    <3> QED
      BY <3>2, <1>7, <1>8, <1>9
  <2> QED
    BY <2>1, <1>9, <1>10 DEF Within
<1>15. \A g \in Run(a, s) : k[g] = ZeroCell
  <2>1. SUFFICES ASSUME NEW g \in Run(a, s) PROVE k[g] = ZeroCell
    OBVIOUS
  <2>2. g \in Int /\ a <= g /\ g < a + s
    BY <1>1, <1>3 DEF Run
  <2>3. g \in Granule
    BY <2>2, <1>1, <1>3, PageFacts DEF Granule
  <2> QED
    BY <2>2, <2>3, <1>9
<1> QED
  BY <1>2, <1>4, <1>13, <1>14, <1>15 DEF a, s, k

\* The first allocation of a processor: all slots are one free node.
LEMMA FormatOK ==
  ASSUME NEW m \in Memory, NEW p, PageAt(p), NEW s \in SmallSize
  PROVE  LET k == FormatPage(m, p, s)
         IN  /\ k \in Memory /\ k[p].next = NULL /\ PageOK(k, p, {})
             /\ \A g \in Granule : (g < p \/ p + PageSize <= g) => k[g] = m[g]
<1> DEFINE a == p + s
           hdr == [next |-> NULL, size |-> s, magic |-> 1]
           node == FreeNode(NULL, PageSize - s)
           headed == [m EXCEPT ![p] = hdr]
           k == FormatPage(m, p, s)
<1>1. s \in Nat \ {0} /\ PageSize \in Nat /\ 4 * s <= PageSize /\ p \in Int /\ p \in Granule
  BY SmallFacts, PageFacts
<1>2. a \in Int /\ p < a /\ a < p + PageSize
  BY <1>1
<1>3. a \in Granule
  BY <1>1, <1>2, PageFacts DEF Granule
<1>4. hdr \in Cell /\ node \in Cell
  <2>1. PageSize - s \in Int /\ NULL \in Int /\ s \in Int
    BY <1>1, GranuleInt
  <2> QED
    BY ONLY <2>1, NewCells DEF hdr, node
<1>5. k = [headed EXCEPT ![a] = node]
  BY DEF FormatPage
<1> HIDE DEF k, a, node
<1>6. headed \in Memory /\ headed[p] = hdr /\ \A g \in Granule \ {p} : headed[g] = m[g]
  BY <1>1, <1>4, NodeCells
<1> HIDE DEF headed
<1>7. k \in Memory /\ k[a] = node /\ \A g \in Granule \ {a} : k[g] = headed[g]
  <2>1. headed \in Memory /\ node \in Cell /\ a \in Granule
    BY <1>3, <1>4, <1>6
  <2>2. LET x == [headed EXCEPT ![a] = node]
        IN  x \in Memory /\ x[a] = node /\ \A g \in Granule \ {a} : x[g] = headed[g]
    BY ONLY <2>1, NodeCells
  <2> QED
    BY ONLY <2>2, <1>5
<1>8. k[p].next = NULL /\ k[p].size = s /\ k[p].magic = 1
  BY <1>1, <1>2, <1>6, <1>7
<1>9. PageOK(k, p, {})
  <2>1. BlocksOK(k, p, {}) /\ 1 \in Nat \ {0} /\ \A b \in {} : b.ptr < a
    BY DEF BlocksOK
  <2>2. a = p + 1 * s /\ PageSize - s = p + PageSize - a
    BY <1>1 DEF a
  <2>3. k[a] = FreeNode(NULL, p + PageSize - a)
    BY <1>7, <2>2 DEF node
  <2> QED
    BY ONLY <2>1, <2>2, <2>3, <1>2, <1>7, <1>8, PageAt(p), s \in SmallSize, OneNodePage
<1>10. \A g \in Granule : (g < p \/ p + PageSize <= g) => k[g] = m[g]
  <2>1. \A g \in Granule : g \in Int
    BY GranuleInt
  <2> QED
    BY <2>1, <1>1, <1>2, <1>6, <1>7
<1> QED
  BY <1>7, <1>8, <1>9, <1>10 DEF k

-----------------------------------------------------------------------------
(* kfree in a page *)

\* b is a block of the page at p, which has free slots: those of F.
FreePage(m, p, F, B, b) ==
  /\ m[p].size \in SmallSize /\ m[p].magic \in Nat /\ BlocksOK(m, p, B)
  /\ FreeOK(m, p, F, B) /\ b \in B

\* The other blocks and the free nodes are clear of b.
LEMMA FreedFacts ==
  ASSUME NEW m, NEW p, PageAt(p), NEW F, NEW B, NEW b, FreePage(m, p, F, B, b)
  PROVE  /\ m[p].size \in Nat \ {0} /\ p \in Int /\ p \in Granule /\ m \in Memory /\ PageSize \in Nat
         /\ b.ptr \in Int /\ b.ptr \in Granule /\ b.ptr # p /\ p < b.ptr /\ b.ptr + m[p].size <= p + PageSize
         /\ b.size = m[p].size /\ Slot(p, m[p].size, b.ptr) /\ F \subseteq Granule /\ p \notin F
         /\ b.ptr \notin F
         /\ \A x \in F \cup Ptrs(B \ {b}) : /\ x \in Int /\ Slot(p, m[p].size, x) /\ x # b.ptr
                                             /\ (x < b.ptr \/ b.ptr + m[p].size <= x)
<1> DEFINE s == m[p].size
           ptr == b.ptr
<1>1. s \in SmallSize /\ BlocksOK(m, p, B) /\ FreeOK(m, p, F, B) /\ b \in B
  BY DEF FreePage
<1>2. s \in Nat \ {0} /\ p \in Int /\ p \in Granule /\ PageSize \in Nat
  BY <1>1, SmallFacts, PageFacts
<1>3. m \in Memory /\ F \subseteq Granule /\ p \notin F /\ \A f \in F : f \in Int /\ Slot(p, s, f)
  BY ONLY <1>1, PageAt(p), FreeFacts DEF s
<1>4. b.size = s /\ Slot(p, s, ptr) /\ ptr \in Int /\ p < ptr
  BY <1>1 DEF BlocksOK, Slot
<1>5. ptr \in Granule /\ ptr + s <= p + PageSize
  BY ONLY <1>1, <1>4, PageAt(p), SlotFacts
<1>6. \A x \in F : x # ptr
  <2>1. \A x \in F : x < ptr \/ ptr + b.size <= x
    BY ONLY <1>1, PageAt(p), NodeApart DEF s
  <2> QED
    BY ONLY <2>1, <1>2, <1>3, <1>4
<1>7. \A x \in Ptrs(B \ {b}) : x \in Int /\ Slot(p, s, x) /\ x # ptr
  BY <1>1 DEF BlocksOK, Slot, Ptrs
<1>8. ASSUME NEW x \in F \cup Ptrs(B \ {b}) PROVE x < ptr \/ ptr + s <= x
  <2>1. x \in Int /\ Slot(p, s, x) /\ x # ptr
    BY <1>3, <1>6, <1>7
  <2>2. ptr < x => ptr + s <= x
    BY ONLY <2>1, <1>1, <1>4, PageAt(p), SlotFacts
  <2> QED
    BY ONLY <2>1, <2>2, <1>2, <1>4
<1>9. \A x \in F \cup Ptrs(B \ {b}) : x \in Int /\ Slot(p, s, x) /\ x # ptr
  BY <1>3, <1>6, <1>7
<1>10. ptr \notin F
  BY <1>6
<1> QED
  BY ONLY <1>2, <1>3, <1>4, <1>5, <1>8, <1>9, <1>10 DEF s, ptr

\* Stores in the header, in free nodes and in b are outside the other blocks.
LEMMA FreedWithin ==
  ASSUME NEW m, NEW p, PageAt(p), NEW F, NEW B, NEW b, FreePage(m, p, F, B, b),
         NEW k \in Memory, k[p].next = m[p].next,
         \A g \in Granule \ (F \cup {p, b.ptr}) : k[g] = m[g]
  PROVE  Within(m, k, p, B \ {b})
<1>1. /\ m[p].size \in Nat \ {0} /\ p \in Int /\ PageSize \in Nat
      /\ b.ptr \in Int /\ p < b.ptr /\ b.ptr + m[p].size <= p + PageSize
      /\ \A x \in F : x \in Int /\ Slot(p, m[p].size, x)
      /\ \A x \in Ptrs(B \ {b}) : x < b.ptr \/ b.ptr + m[p].size <= x
  BY FreedFacts, ZenonT(30)
<1>2. ASSUME NEW g \in Granule, g < p \/ p + PageSize <= g PROVE k[g] = m[g]
  <2>1. g \in Int
    BY GranuleInt
  <2>2. g \notin F
    BY <1>1, <1>2, <2>1 DEF Slot
  <2> QED
    BY <1>1, <1>2, <2>1, <2>2
<1>3. ASSUME NEW a \in B \ {b}, NEW g \in Run(a.ptr, a.size) PROVE k[g] = m[g]
  <2>1. m[p].size \in SmallSize /\ BlocksOK(m, p, B) /\ FreeOK(m, p, F, B)
    BY DEF FreePage
  <2>2. a.size = m[p].size /\ Slot(p, m[p].size, a.ptr) /\ a.ptr \in Int
    BY <2>1 DEF BlocksOK, Slot
  <2>3. g \in Int /\ a.ptr <= g /\ g < a.ptr + a.size
    BY <2>2, <1>1, <1>3 DEF Run
  <2>4. p + m[p].size <= a.ptr /\ a.ptr + m[p].size <= p + PageSize
    BY <2>1, <2>2, SlotFacts
  <2>5. g \in Granule /\ g # p
    BY <2>2, <2>3, <2>4, <1>1, PageFacts DEF Granule
  <2>6. g \notin F
    <3>1. \A f \in F : f < a.ptr \/ a.ptr + a.size <= f
      BY ONLY <2>1, a \in B \ {b}, PageAt(p), NodeApart
    <3> QED
      BY <3>1, <2>3, <2>2, <1>1
  <2>7. g # b.ptr
    <3>1. a.ptr < b.ptr \/ b.ptr + m[p].size <= a.ptr
      BY <1>1 DEF Ptrs
    <3>2. Slot(p, m[p].size, b.ptr) /\ b.ptr \in Int
      BY FreedFacts
    <3>3. a.ptr < b.ptr => a.ptr + m[p].size <= b.ptr
      BY ONLY <2>1, <2>2, <3>2, PageAt(p), SlotFacts
    <3> QED
      BY ONLY <3>1, <3>2, <3>3, <2>2, <2>3, <1>1
  <2> QED
    BY <2>5, <2>6, <2>7
<1> QED
  BY <1>2, <1>3 DEF Within

\* G is the free list once b is part of the node n, and the page has lost b.
LEMMA NewFree ==
  ASSUME NEW m, NEW p, PageAt(p), NEW F, NEW B, NEW b, FreePage(m, p, F, B, b),
         NEW k \in Memory, NEW G, NEW n \in F \cup {b.ptr}, n \in G, G \ {n} \subseteq F,
         k[p].size = m[p].size, List(k, FreeHead(k, p), G),
         \A f \in G \ {n} : k[f].size = m[f].size /\ k[f].magic = m[f].magic,
         NodeOK(k, p, m[p].size, n), Clear(k, n, (G \ {n}) \cup Ptrs(B \ {b}))
  PROVE  FreeOK(k, p, G, B \ {b}) /\ BlocksOK(k, p, B \ {b})
<1>1. BlocksOK(m, p, B) /\ FreeOK(m, p, F, B) /\ b \in B
  BY DEF FreePage
<1>2. FreeHead(k, p) \in G
  BY ListFacts
<1>3. ASSUME NEW f \in G \ {n}
      PROVE  NodeOK(k, p, m[p].size, f) /\ Clear(k, f, (G \ {f}) \cup Ptrs(B \ {b}))
  <2>1. f \in F /\ NodeOK(m, p, m[p].size, f) /\ Clear(m, f, (F \ {f}) \cup Ptrs(B))
    BY <1>1 DEF FreeOK
  <2>2. n \in (F \ {f}) \cup Ptrs(B)
    BY <1>1 DEF Ptrs
  <2>3. (G \ {f}) \cup Ptrs(B \ {b}) \subseteq (F \ {f}) \cup Ptrs(B)
    BY <2>2 DEF Ptrs
  <2>4. k[f].size = m[f].size /\ k[f].magic = m[f].magic
    BY <1>3
  <2> QED
    BY <2>1, <2>3, <2>4 DEF NodeOK, Clear
<1>4. BlocksOK(k, p, B \ {b})
  BY <1>1 DEF BlocksOK
<1> QED
  BY <1>2, <1>3, <1>4 DEF FreeOK

\* A page whose free list has a node of all its slots is emptied, no other is.
LEMMA EmptiedOK ==
  ASSUME NEW k \in Memory, NEW p, PageAt(p), NEW B, NEW G, k[p].size \in SmallSize, k[p].magic \in Nat,
         BlocksOK(k, p, B), FreeOK(k, p, G, B), NEW n \in G
  PROVE  LET e == Emptied(k, p, n)
         IN  /\ PageOK(e, p, B) /\ e \in Memory /\ e[p].next = k[p].next
             /\ \A g \in Granule \ {p} : e[g] = k[g]
<1> DEFINE s == k[p].size
           e == Emptied(k, p, n)
<1>1. s \in Nat \ {0} /\ p \in Int /\ p \in Granule /\ PageSize \in Nat
  BY SmallFacts, PageFacts
<1>2. PageOK(k, p, B)
  BY DEF PageOK
<1>3. CASE k[n].size # PageSize - s
  <2>1. e = k
    BY <1>3 DEF Emptied
  <2> QED
    BY <2>1, <1>2
<1>4. CASE k[n].size = PageSize - s
  <2>1. e = [k EXCEPT ![p].size = 0]
    BY <1>4 DEF Emptied
  <2>2. /\ e \in Memory
        /\ e[p].next = k[p].next /\ e[p].size = 0 /\ e[p].magic = k[p].magic
        /\ \A g \in Granule \ {p} : e[g] = k[g]
    <3>1. Resized(k, [k EXCEPT ![p].size = 0], p, 0)
      BY <1>1, SizeCells
    <3> QED
      BY ONLY <3>1, <2>1 DEF Resized
  <2>3. \A f \in G : f \in Int /\ p + s <= f /\ f + k[f].size <= p + PageSize /\ k[f].size \in Nat \ {0}
    BY FreeFacts
  <2>4. n = p + s /\ n \in Int /\ n + k[n].size = p + PageSize
    BY <2>3, <1>1, <1>4
  <2>5. ASSUME NEW x \in (G \ {n}) \cup Ptrs(B) PROVE FALSE
    <3>1. x < n \/ n + k[n].size <= x
      BY DEF FreeOK, Clear
    <3>2. x \in Int /\ p + s <= x /\ x < p + PageSize
      <4>1. CASE x \in G
        BY <4>1, <2>3, <1>1
      <4>2. CASE x \in Ptrs(B)
        <5>1. Slot(p, s, x)
          BY <4>2 DEF Ptrs, BlocksOK
        <5>2. p + s <= x
          BY ONLY <5>1, PageAt(p), s \in SmallSize, SlotFacts
        <5> QED
          BY <5>1, <5>2 DEF Slot
      <4> QED
        BY <4>1, <4>2
    <3> QED
      BY ONLY <3>1, <3>2, <2>4, <1>1
  <2>6. B = {} /\ FreeHead(k, p) = n
    BY <2>5 DEF Ptrs, FreeOK
  <2>7. k[p].magic = 1
    <3>1. PICK i \in Nat : i = k[p].magic
      OBVIOUS
    <3>2. p + i * s = p + s
      BY <2>4, <2>6, <3>1 DEF FreeHead
    <3>3. i * s = 1 * s /\ Whole(s, i * s)
      BY <3>2, <1>1 DEF Whole
    <3>4. i = 1
      <4>1. i # 0
        BY ONLY <3>3, <1>1
      <4>2. SUFFICES ASSUME i # 1 PROVE FALSE
        OBVIOUS
      <4>3. PICK d \in Nat \ {0} : i = 1 + d
        BY <4>1, <4>2
      <4>4. i * s = s + d * s /\ d * s > 0 /\ d * s \in Int /\ 1 * s = s
        BY ONLY <4>3, <1>1, d \in Nat \ {0}
      <4> QED
        BY ONLY <3>3, <4>4, <1>1
    <3> QED
      BY <3>1, <3>4
  <2> QED
    BY <2>2, <2>6, <2>7 DEF PageOK
<1> QED
  BY <1>3, <1>4

\* j is the page's memory after b was made part of the free node n, and G its free list.
Relinked(m, j, p, F, G, B, b, n) ==
  /\ j \in Memory /\ n \in F \cup {b.ptr} /\ n \in G /\ G \ {n} \subseteq F
  /\ j[p].next = m[p].next /\ j[p].size = m[p].size /\ j[p].magic \in Nat
  /\ \A g \in Granule \ (F \cup {p, b.ptr}) : j[g] = m[g]
  /\ List(j, FreeHead(j, p), G)
  /\ \A f \in G \ {n} : j[f].size = m[f].size /\ j[f].magic = m[f].magic
  /\ j[n].magic = PAGE_MAGIC /\ j[n].size \in Nat \ {0} /\ Whole(m[p].size, j[n].size)
  /\ n + j[n].size <= p + PageSize
  /\ \A x \in (G \ {n}) \cup Ptrs(B \ {b}) : x < n \/ n + j[n].size <= x

\* In k the block b has left the page at p, and the other blocks have not changed.
Freed(m, k, p, B, b) == k \in Memory /\ PageOK(k, p, B \ {b}) /\ Within(m, k, p, B \ {b})

\* That is what follows, whether or not the page is emptied.
LEMMA LinkedOK ==
  ASSUME NEW m, NEW p, PageAt(p), NEW F, NEW B, NEW b, FreePage(m, p, F, B, b),
         NEW j, NEW G, NEW n, Relinked(m, j, p, F, G, B, b, n)
  PROVE  Freed(m, j, p, B, b) /\ Freed(m, Emptied(j, p, n), p, B, b)
<1> DEFINE k == Emptied(j, p, n)
<1> USE DEF Relinked
<1>1. m[p].size \in SmallSize /\ j[p].size \in SmallSize /\ j \in Memory /\ n \in G /\ j[p].magic \in Nat
  BY DEF FreePage
<1>2. Slot(p, m[p].size, n) /\ p \in Granule
  BY FreedFacts
<1>3. NodeOK(j, p, m[p].size, n) /\ Clear(j, n, (G \ {n}) \cup Ptrs(B \ {b}))
  BY <1>2 DEF NodeOK, Clear
<1>4. FreeOK(j, p, G, B \ {b}) /\ BlocksOK(j, p, B \ {b})
  BY ONLY <1>3, PageAt(p), FreePage(m, p, F, B, b), Relinked(m, j, p, F, G, B, b, n), NewFree DEF Relinked
<1>5. PageOK(j, p, B \ {b})
  BY <1>1, <1>4 DEF PageOK
<1>6. Within(m, j, p, B \ {b})
  BY ONLY PageAt(p), FreePage(m, p, F, B, b), Relinked(m, j, p, F, G, B, b, n), FreedWithin DEF Relinked
<1>7. /\ PageOK(k, p, B \ {b}) /\ k \in Memory /\ k[p].next = j[p].next
      /\ \A g \in Granule \ {p} : k[g] = j[g]
  BY ONLY <1>1, <1>4, PageAt(p), EmptiedOK DEF k
<1> HIDE DEF k
<1>8. k[p].next = m[p].next /\ \A g \in Granule \ (F \cup {p, b.ptr}) : k[g] = m[g]
  BY <1>7
<1>9. Within(m, k, p, B \ {b})
  BY ONLY <1>7, <1>8, PageAt(p), FreePage(m, p, F, B, b), FreedWithin
<1> QED
  BY <1>1, <1>5, <1>6, <1>7, <1>9 DEF k, Freed

\* The block at ptr becomes a node of size v at the front of the list.
Front(m, p, ptr, v) ==
  LET noded == [m EXCEPT ![ptr] = FreeNode(FreeHead(m, p), v)]
  IN  SetIndex(noded, p, SlotAt(ptr - p, noded[p].size))

\* What it stores.
Fronted(m, k, p, F, ptr, v) ==
  /\ k \in Memory /\ List(k, ptr, F \cup {ptr}) /\ FreeHead(k, p) = ptr
  /\ k[p].next = m[p].next /\ k[p].size = m[p].size /\ k[p].magic \in Nat \ {0}
  /\ k[ptr].size = v /\ k[ptr].magic = PAGE_MAGIC
  /\ SlotAt(ptr - p, m[p].size) > 0
  /\ \A g \in Granule \ {p, ptr} : k[g] = m[g]

\* The block becomes the first node of the list, and its slot number is not 0.
LEMMA FrontIs ==
  ASSUME NEW m, NEW p, PageAt(p), NEW F, NEW B, NEW b, FreePage(m, p, F, B, b), NEW v \in Int
  PROVE  Fronted(m, Front(m, p, b.ptr, v), p, F, b.ptr, v)
<1> DEFINE s == m[p].size
           ptr == b.ptr
           node == FreeNode(FreeHead(m, p), v)
           noded == [m EXCEPT ![ptr] = node]
           i == SlotAt(ptr - p, s)
           k == SetIndex(noded, p, i)
<1>1. /\ s \in Nat \ {0} /\ p \in Int /\ p \in Granule /\ m \in Memory
      /\ ptr \in Int /\ ptr \in Granule /\ ptr # p /\ p < ptr /\ Slot(p, s, ptr) /\ p \notin F
      /\ ptr \notin F /\ F \subseteq Granule
  <2>1. s \in Nat \ {0} /\ p \in Int /\ p \in Granule /\ m \in Memory
    BY FreedFacts
  <2>4. ptr \in Int /\ ptr \in Granule
    BY FreedFacts
  <2>5. Slot(p, s, ptr)
    BY FreedFacts
  <2>2. ptr \in Int /\ ptr \in Granule /\ ptr # p /\ p < ptr /\ Slot(p, s, ptr) 
    BY <2>1, <2>4, <2>5 DEF Slot
  <2>3. p \notin F /\ ptr \notin F /\ F \subseteq Granule
    BY FreedFacts
  <2> QED
    BY ONLY <2>1, <2>2, <2>3
<1>2. node \in Cell
  BY <1>1, FreeHeadInt, NewCells
<1>3. node.next = FreeHead(m, p) /\ node.size = v /\ node.magic = PAGE_MAGIC
  BY FreeNodeIs
<1> HIDE DEF node, s, ptr
<1>4. noded \in Memory /\ noded[ptr] = node /\ \A g \in Granule \ {ptr} : noded[g] = m[g]
  BY ONLY <1>1, <1>2, NodeCells DEF noded
<1> HIDE DEF noded
<1>5. noded[p] = m[p]
  BY <1>1, <1>4
<1>6. i \in Nat /\ i * s = ptr - p /\ i > 0
  <2>1. Whole(s, ptr - p) /\ ptr - p > 0
    BY <1>1 DEF Slot
  <2> QED
    BY ONLY <1>1, <2>1, SlotAtIs DEF i
<1> HIDE DEF i
<1>7. /\ k \in Memory
      /\ k[p].next = noded[p].next /\ k[p].size = noded[p].size /\ k[p].magic = i
      /\ \A g \in Granule \ {p} : k[g] = noded[g]
  <2>1. i \in Int
    BY <1>6
  <2> QED
    BY ONLY <1>1, <1>4, <2>1, IndexCells DEF k
<1> HIDE DEF k
<1>8. k[ptr] = node /\ \A g \in F : k[g] = m[g]
  BY <1>1, <1>4, <1>7
<1>9. FreeHead(k, p) = ptr
  <2>1. k[p].magic = i /\ k[p].size = s
    BY <1>5, <1>7 DEF s
  <2>2. p + i * s = ptr
    BY ONLY <1>1, <1>6
  <2> QED
    BY <2>1, <2>2 DEF FreeHead
<1>10. List(k, ptr, F \cup {ptr})
  <2>1. List(m, FreeHead(m, p), F)
    BY DEF FreePage, FreeOK
  <2>2. k[ptr].next = FreeHead(m, p) /\ \A g \in F : k[g].next = m[g].next
    BY <1>3, <1>8
  <2> QED
    BY ONLY <2>1, <2>2, <1>1, <1>7, ListPush
<1>11. noded[p].size = m[p].size
  BY <1>5
<1>12. SetIndex(noded, p, SlotAt(ptr - p, noded[p].size)) = k
  BY <1>11 DEF k, i, s
<1>13. /\ k[p].next = m[p].next /\ k[p].size = m[p].size /\ k[p].magic \in Nat \ {0}
       /\ k[ptr].size = v /\ k[ptr].magic = PAGE_MAGIC
       /\ SlotAt(ptr - p, s) > 0
       /\ \A g \in Granule \ {p, ptr} : k[g] = m[g]
  BY <1>3, <1>4, <1>5, <1>6, <1>7, <1>8 DEF i
<1>14. k = Front(m, p, ptr, v)
  BY ONLY <1>12 DEF noded, node, Front
<1> QED
  BY ONLY <1>7, <1>9, <1>10, <1>13, <1>14 DEF s, ptr, Fronted

\* The block joins neither neighbour.
LEMMA PushFreeOK ==
  ASSUME NEW m, NEW p, PageAt(p), NEW F, NEW B, NEW b, FreePage(m, p, F, B, b)
  PROVE  Freed(m, PushFree(m, p, b.ptr), p, B, b)
<1> DEFINE s == m[p].size
           ptr == b.ptr
           G == F \cup {ptr}
           k == PushFree(m, p, ptr)
<1>1. /\ s \in Nat \ {0} /\ ptr \in Int /\ ptr + s <= p + PageSize /\ ptr \notin F /\ F \subseteq Granule /\ p \notin F
      /\ \A x \in F \cup Ptrs(B \ {b}) : x < ptr \/ ptr + s <= x
  BY FreedFacts
<1>2. /\ k \in Memory /\ List(k, ptr, G) /\ FreeHead(k, p) = ptr
      /\ k[p].next = m[p].next /\ k[p].size = m[p].size /\ k[p].magic \in Nat \ {0}
      /\ k[ptr].size = s /\ k[ptr].magic = PAGE_MAGIC
      /\ \A g \in Granule \ {p, ptr} : k[g] = m[g]
  <2>1. s \in Int
    BY <1>1
  <2> QED
    <3>1. k = Front(m, p, b.ptr, s)
      BY DEF PushFree, Front
    <3> QED
      <4>1. Fronted(m, Front(m, p, b.ptr, s), p, F, b.ptr, s)
        BY ONLY <2>1, PageAt(p), FreePage(m, p, F, B, b), FrontIs
      <4> HIDE DEF k
      <4> QED
        BY ONLY <4>1, <3>1 DEF Fronted, ptr, G
<1> HIDE DEF k
<1>3. Whole(s, s)
  <2>1. s = 1 * s
    BY <1>1
  <2> QED
    BY ONLY <2>1, 1 \in Nat DEF Whole
<1>4. \A f \in G \ {ptr} : k[f].size = m[f].size /\ k[f].magic = m[f].magic
  BY <1>1, <1>2
<1>5. /\ \A g \in Granule \ (F \cup {p, ptr}) : k[g] = m[g]
      /\ k \in Memory /\ ptr \in G /\ G \ {ptr} \subseteq F /\ ptr \in F \cup {b.ptr}
      /\ List(k, FreeHead(k, p), G) /\ k[p].magic \in Nat
      /\ k[ptr].size \in Nat \ {0} /\ Whole(m[p].size, k[ptr].size) /\ ptr + k[ptr].size <= p + PageSize
      /\ \A x \in (G \ {ptr}) \cup Ptrs(B \ {b}) : x < ptr \/ ptr + k[ptr].size <= x
  BY <1>1, <1>2, <1>3
<1>6. Relinked(m, k, p, F, G, B, b, ptr)
  BY <1>2, <1>4, <1>5 DEF Relinked
<1>7. Freed(m, k, p, B, b)
  BY ONLY <1>6, PageAt(p), FreePage(m, p, F, B, b), LinkedOK
<1> QED
  BY <1>7 DEF k

\* The block swallows the node after it.
LEMMA MergeAfterOK ==
  ASSUME NEW m, NEW p, PageAt(p), NEW F, NEW B, NEW b, FreePage(m, p, F, B, b),
         NEW after \in F, b.ptr + m[p].size = after
  PROVE  Freed(m, MergeAfter(m, p, b.ptr, after), p, B, b)
<1> DEFINE s == m[p].size
           ptr == b.ptr
           v == s + m[after].size
           front == Front(m, p, ptr, v)
           G == (F \cup {ptr}) \ {after}
           j == Unlink(front, ptr, after)
           k == MergeAfter(m, p, ptr, after)
<1>1. /\ s \in Nat \ {0} /\ p \in Int /\ p \in Granule /\ PageSize \in Nat
      /\ ptr \in Int /\ ptr \in Granule /\ ptr \notin F /\ F \subseteq Granule /\ p \notin F
  BY ONLY PageAt(p), FreePage(m, p, F, B, b), FreedFacts DEF s, ptr
<1>2. \A x \in F \cup Ptrs(B \ {b}) : x \in Int /\ (x < ptr \/ ptr + s <= x)
  BY ONLY PageAt(p), FreePage(m, p, F, B, b), FreedFacts, ZenonT(30) DEF s, ptr
<1>3. s \in SmallSize /\ FreeOK(m, p, F, B)
  BY DEF FreePage
<1>4. m[after].size \in Nat \ {0} /\ after + m[after].size <= p + PageSize /\ Whole(s, m[after].size)
  BY ONLY <1>3, PageAt(p), after \in F, FreeFacts DEF s
<1>5. \A x \in (F \ {after}) \cup Ptrs(B \ {b}) : x < after \/ after + m[after].size <= x
  BY <1>3 DEF FreeOK, Clear, Ptrs
<1>6. v \in Nat \ {0} /\ Whole(s, v) /\ ptr + v = after + m[after].size /\ after = ptr + s
  <2>1. Whole(s, s)
    <3>1. s = 1 * s
      BY <1>1
    <3> QED
      BY ONLY <3>1, 1 \in Nat DEF Whole
  <2>2. Whole(s, s + m[after].size)
    BY ONLY <2>1, <1>1, <1>4, WholeArith
  <2> QED
    BY <2>2, <1>1, <1>4
<1> HIDE DEF s, v, front
<1>7. Fronted(m, front, p, F, ptr, v)
  <2>1. v \in Int
    BY <1>6
  <2> QED
    BY ONLY <2>1, PageAt(p), FreePage(m, p, F, B, b), FrontIs DEF front, ptr
<1>8. k = Emptied(j, p, ptr)
  <2>1. front = Front(m, p, ptr, v) /\ v = m[p].size + m[after].size
    BY DEF front, v, s
  <2>2. FreeHead(front, p) = ptr
    BY <1>7 DEF Fronted
  <2> QED
    BY ONLY <2>1, <2>2 DEF k, j, MergeAfter, Front
<1> HIDE DEF ptr, k, G
<1>9. /\ j \in Memory
      /\ \A g \in Granule : j[g].size = front[g].size /\ j[g].magic = front[g].magic
      /\ \A g \in Granule \ (F \cup {ptr}) : j[g] = front[g]
      /\ List(j, ptr, G)
  <2>1. List(front, ptr, F \cup {ptr}) /\ after \in F \cup {ptr} /\ after # ptr
    BY <1>1, <1>7 DEF Fronted
  <2>2. Unlinked(front, j, ptr, F \cup {ptr}, after)
    BY ONLY <2>1, UnlinkIs DEF j
  <2> QED
    BY ONLY <2>1, <2>2 DEF G, Unlinked
<1> HIDE DEF j
<1>10. /\ front[p].next = m[p].next /\ front[p].size = m[p].size /\ front[p].magic \in Nat
       /\ front[ptr].size = v /\ front[ptr].magic = PAGE_MAGIC /\ FreeHead(front, p) = ptr
       /\ \A g \in Granule \ {p, ptr} : front[g] = m[g]
  BY <1>7 DEF Fronted
<1>11. j[p] = front[p] /\ j[ptr].size = v /\ j[ptr].magic = PAGE_MAGIC
  <2>1. Slot(p, m[p].size, ptr)
    BY FreedFacts DEF ptr
  <2>2. p # ptr
    BY <2>1, <1>1 DEF Slot
  <2> QED
    BY <2>2, <1>1, <1>9, <1>10
<1>12. /\ ptr \in G /\ G \ {ptr} \subseteq F /\ ptr \in F \cup {b.ptr} /\ after \notin G
  BY <1>1 DEF G, ptr
<1>13. \A g \in Granule \ (F \cup {p, ptr}) : j[g] = m[g]
  BY <1>9, <1>10
<1>14. FreeHead(j, p) = ptr
  BY <1>10, <1>11 DEF FreeHead
<1>15. \A f \in G \ {ptr} : j[f].size = m[f].size /\ j[f].magic = m[f].magic
  BY <1>1, <1>9, <1>10, <1>12
<1>16. \A x \in (G \ {ptr}) \cup Ptrs(B \ {b}) : x < ptr \/ ptr + v <= x
  <2>1. SUFFICES ASSUME NEW x \in (G \ {ptr}) \cup Ptrs(B \ {b}) PROVE x < ptr \/ ptr + v <= x
    OBVIOUS
  <2>2. x \in (F \ {after}) \cup Ptrs(B \ {b})
    BY <1>12
  <2>3. x \in Int /\ (x < ptr \/ ptr + s <= x) /\ (x < after \/ after + m[after].size <= x)
    BY ONLY <2>2, <1>2, <1>5
  <2> QED
    BY ONLY <2>3, <1>1, <1>4, <1>6
<1>17. Relinked(m, j, p, F, G, B, b, ptr)
  <2>1. ptr + v <= p + PageSize
    BY <1>4, <1>6
  <2> QED
    BY <2>1, <1>6, <1>9, <1>10, <1>11, <1>12, <1>13, <1>14, <1>15, <1>16 DEF Relinked, ptr, s
<1>18. Freed(m, Emptied(j, p, ptr), p, B, b)
  BY ONLY <1>17, PageAt(p), FreePage(m, p, F, B, b), LinkedOK
<1> QED
  BY <1>8, <1>18 DEF k, ptr

\* The block becomes part of the node before it, and the node after it does too.
LEMMA MergeBeforeOK ==
  ASSUME NEW m, NEW p, PageAt(p), NEW F, NEW B, NEW b, FreePage(m, p, F, B, b),
         NEW before \in F, before + m[before].size = b.ptr,
         NEW after, b.ptr + m[p].size = after => after \in F
  PROVE  Freed(m, MergeBefore(m, p, b.ptr, before, after), p, B, b)
<1> DEFINE s == m[p].size
           ptr == b.ptr
           t == m[before].size
           grown == [m EXCEPT ![before].size = @ + s]
           both == [grown EXCEPT ![before].size = @ + grown[after].size]
           hd == FreeHead(both, p)
           k == MergeBefore(m, p, ptr, before, after)
<1>1. /\ s \in Nat \ {0} /\ p \in Int /\ p \in Granule /\ m \in Memory /\ PageSize \in Nat
      /\ ptr \in Int /\ ptr \in Granule /\ F \subseteq Granule /\ p \notin F
  BY ONLY PageAt(p), FreePage(m, p, F, B, b), FreedFacts DEF s, ptr
<1>2. \A x \in F \cup Ptrs(B \ {b}) : x \in Int /\ x # ptr /\ (x < ptr \/ ptr + s <= x)
  <2>1. \A x \in F \cup Ptrs(B \ {b}) : x \in Int /\ (x < ptr \/ ptr + s <= x)
    BY ONLY PageAt(p), FreePage(m, p, F, B, b), FreedFacts, ZenonT(30) DEF s, ptr
  <2>2. ASSUME NEW x \in F \cup Ptrs(B \ {b}) PROVE x # ptr
    <3>1. x \in Int /\ (x < ptr \/ ptr + s <= x)
      BY <2>1
    <3> QED
      BY ONLY <3>1, <1>1
  <2> QED
    BY ONLY <2>1, <2>2
<1>3. s \in SmallSize /\ FreeOK(m, p, F, B) /\ m[p].magic \in Nat
  BY DEF FreePage
<1>4. \A f \in F : /\ f \in Int /\ m[f].size \in Nat \ {0} /\ f + m[f].size <= p + PageSize
                   /\ Slot(p, s, f) /\ Whole(s, m[f].size) /\ m[f].magic = PAGE_MAGIC
  BY ONLY <1>3, PageAt(p), FreeFacts DEF s
<1>5. \A f \in F : \A x \in (F \ {f}) \cup Ptrs(B \ {b}) : x < f \/ f + m[f].size <= x
  BY <1>3 DEF FreeOK, Clear, Ptrs
<1>6. /\ before \in Granule /\ before # p /\ before \in Int /\ t \in Nat \ {0} /\ before + t = ptr
      /\ Whole(s, t) /\ Whole(s, s) /\ Whole(s, t + s) /\ m[before].magic = PAGE_MAGIC
  <2>1. before \in Granule /\ before # p /\ before \in Int /\ t \in Nat \ {0} /\ Whole(s, t)
    BY <1>1, <1>4
  <2>2. Whole(s, s)
    <3>1. s = 1 * s
      BY <1>1
    <3> QED
      BY ONLY <3>1, 1 \in Nat DEF Whole
  <2>3. Whole(s, t + s)
    BY ONLY <2>1, <2>2, <1>1, WholeArith
  <2> QED
    BY <1>4, <2>1, <2>2, <2>3
<1> HIDE DEF s, t
<1>7. /\ grown \in Memory /\ grown[before].size = t + s
      /\ grown[before].next = m[before].next /\ grown[before].magic = m[before].magic
      /\ \A g \in Granule \ {before} : grown[g] = m[g]
  <2>1. t + s \in Int /\ grown = [m EXCEPT ![before].size = t + s]
    BY <1>1, <1>6 DEF t
  <2>2. Resized(m, [m EXCEPT ![before].size = t + s], before, t + s)
    BY <2>1, <1>1, <1>6, SizeCells
  <2> QED
    BY ONLY <2>1, <2>2 DEF Resized
<1>8. k = Emptied(IF ptr + grown[p].size # after THEN grown
                  ELSE IF HasPrev(both, hd, after) THEN Unlink(both, hd, after)
                  ELSE SetIndex(both, p, SlotAt(before - p, both[p].size)), p, before)
  BY DEF MergeBefore, s
<1> HIDE DEF grown
<1>9. grown[p] = m[p]
  BY <1>1, <1>6, <1>7
<1>10. List(m, FreeHead(m, p), F)
  BY <1>3 DEF FreeOK
<1> HIDE DEF k, ptr, both
<1>11. CASE ptr + s # after
  <2>1. k = Emptied(grown, p, before)
    BY <1>8, <1>9, <1>11 DEF s
  <2>2. FreeHead(grown, p) = FreeHead(m, p)
    BY <1>9 DEF FreeHead
  <2>3. List(grown, FreeHead(grown, p), F)
    <3>1. \A g \in F : grown[g].next = m[g].next
      BY <1>1, <1>7
    <3> QED
      BY ONLY <3>1, <2>2, <1>7, <1>10, ListFrame
  <2>4. \A f \in F \ {before} : grown[f].size = m[f].size /\ grown[f].magic = m[f].magic
    BY <1>1, <1>7
  <2>5. t + s \in Nat \ {0} /\ before + (t + s) = ptr + s /\ ptr + s <= p + PageSize
    <3>1. ptr + s <= p + PageSize
      BY FreedFacts DEF ptr, s
    <3> QED
      BY <3>1, <1>1, <1>6
  <2>6. ASSUME NEW x \in (F \ {before}) \cup Ptrs(B \ {b})
        PROVE  x < before \/ before + (t + s) <= x
    <3>1. x < before \/ before + t <= x
      BY <1>5 DEF t
    <3>2. x \in Int /\ x # ptr /\ (x < ptr \/ ptr + s <= x)
      BY <1>2
    <3> QED
      BY ONLY <3>1, <3>2, <2>5, <1>1, <1>6
  <2>7. Relinked(m, grown, p, F, F, B, b, before)
    <3>1. \A g \in Granule \ (F \cup {p, b.ptr}) : grown[g] = m[g]
      BY <1>7
    <3>2. grown[before].size \in Nat \ {0} /\ Whole(m[p].size, grown[before].size)
          /\ before + grown[before].size <= p + PageSize
      BY <1>6, <1>7, <2>5 DEF s
    <3>3. \A x \in (F \ {before}) \cup Ptrs(B \ {b}) : x < before \/ before + grown[before].size <= x
      BY <1>7, <2>6
    <3> QED
      BY <3>1, <3>2, <3>3, <2>3, <2>4, <1>3, <1>6, <1>7, <1>9 DEF Relinked
  <2>8. Freed(m, Emptied(grown, p, before), p, B, b)
    BY ONLY <2>7, PageAt(p), FreePage(m, p, F, B, b), LinkedOK
  <2> QED
    BY <2>1, <2>8 DEF k, ptr
<1>12. CASE ptr + s = after
  <2> DEFINE u == m[after].size
  <2>1. after \in F /\ after \in Granule /\ after # before /\ after \in Int /\ u \in Nat \ {0} /\ after # p
    BY <1>1, <1>4, <1>6, <1>12 DEF ptr, s
  <2>2. /\ both \in Memory /\ both[before].size = t + s + u
        /\ both[before].next = m[before].next /\ both[before].magic = m[before].magic
        /\ \A g \in Granule \ {before} : both[g] = m[g]
    <3>1. grown[after] = m[after]
      BY <1>7, <2>1
    <3>2. t + s + u \in Int /\ both = [grown EXCEPT ![before].size = t + s + u]
      BY <3>1, <2>1, <1>1, <1>6, <1>7 DEF both
    <3>3. Resized(grown, [grown EXCEPT ![before].size = t + s + u], before, t + s + u)
      <4>1. grown \in Memory
        BY <1>7
      <4> QED
        BY ONLY <3>2, <4>1, <1>6, SizeCells
    <3>4. /\ both \in Memory /\ both[before].size = t + s + u
          /\ both[before].next = grown[before].next /\ both[before].magic = grown[before].magic
          /\ \A g \in Granule \ {before} : both[g] = grown[g]
      BY ONLY <3>2, <3>3 DEF Resized
    <3> QED
      BY <3>4, <1>7
  <2>3. both[p] = m[p] /\ hd = FreeHead(m, p)
    BY <2>2, <1>1, <1>6 DEF FreeHead
  <2>4. List(both, hd, F)
    <3>1. \A g \in F : both[g].next = m[g].next
      BY <1>1, <2>2
    <3> QED
      BY ONLY <3>1, <2>2, <2>3, <1>10, ListFrame
  <2>5. Whole(s, t + s + u) /\ t + s + u \in Nat \ {0} /\ before + (t + s + u) = after + u
        /\ after + u <= p + PageSize
    <3>1. Whole(s, u) /\ after + u <= p + PageSize
      BY <2>1, <1>4
    <3>2. Whole(s, (t + s) + u)
      BY ONLY <3>1, <1>1, <1>6, WholeArith
    <3> QED
      BY <3>1, <3>2, <2>1, <1>1, <1>6, <1>12
  <2>6. ASSUME NEW x \in (F \ {before, after}) \cup Ptrs(B \ {b})
        PROVE  x < before \/ before + (t + s + u) <= x
    <3>1. (x < before \/ before + t <= x) /\ (x < after \/ after + u <= x)
      BY <1>5, <2>1 DEF t
    <3>2. x \in Int /\ x # ptr /\ (x < ptr \/ ptr + s <= x)
      BY <1>2
    <3> QED
      BY ONLY <3>1, <3>2, <2>1, <2>5, <1>1, <1>6, <1>12
  <2>7. ASSUME NEW j \in Memory, NEW G, before \in G, G \subseteq F \ {after},
               j[p].next = m[p].next, j[p].size = m[p].size, j[p].magic \in Nat,
               \A g \in Granule \ (F \cup {p}) : j[g] = m[g],
               List(j, FreeHead(j, p), G),
               \A g \in Granule \ {p} : j[g].size = both[g].size /\ j[g].magic = both[g].magic
        PROVE  Freed(m, Emptied(j, p, before), p, B, b)
    <3>1. \A f \in G \ {before} : j[f].size = m[f].size /\ j[f].magic = m[f].magic
      BY <1>1, <2>2, <2>7
    <3>2. /\ j[before].magic = PAGE_MAGIC /\ j[before].size = t + s + u
      BY <1>6, <2>2, <2>7
    <3>3. \A x \in (G \ {before}) \cup Ptrs(B \ {b}) : x < before \/ before + j[before].size <= x
      BY <2>6, <2>7, <3>2
    <3>4. /\ before \in F \cup {b.ptr} /\ G \ {before} \subseteq F
          /\ j[before].size \in Nat \ {0} /\ Whole(m[p].size, j[before].size)
          /\ before + j[before].size <= p + PageSize
      BY <3>2, <2>5, <2>7 DEF s
    <3>5. Relinked(m, j, p, F, G, B, b, before)
      BY <2>7, <3>1, <3>2, <3>3, <3>4 DEF Relinked
    <3> QED
      BY ONLY <3>5, PageAt(p), FreePage(m, p, F, B, b), LinkedOK
  <2> HIDE DEF hd, u
  <2>8. after # hd <=> HasPrev(both, hd, after)
    BY ONLY <2>1, <2>4, UnlinkIs
  <2>9. CASE after # hd
    <3> DEFINE j == Unlink(both, hd, after)
    <3>1. k = Emptied(j, p, before)
      BY <1>8, <1>9, <1>12, <2>8, <2>9 DEF s
    <3>2. /\ j \in Memory
          /\ \A g \in Granule : j[g].size = both[g].size /\ j[g].magic = both[g].magic
          /\ \A g \in Granule \ F : j[g] = both[g]
          /\ List(j, hd, F \ {after})
      <4>1. Unlinked(both, j, hd, F, after)
        BY ONLY <2>1, <2>4, UnlinkIs DEF j
      <4> QED
        BY ONLY <4>1, <2>9 DEF Unlinked
    <3> HIDE DEF j
    <3>3. j[p] = m[p]
      BY <3>2, <2>3, <1>1
    <3>4. FreeHead(j, p) = hd
      BY <3>3, <2>3 DEF FreeHead
    <3>5. \A g \in Granule \ (F \cup {p}) : j[g] = m[g]
      BY <3>2, <2>2
    <3>6. Freed(m, Emptied(j, p, before), p, B, b)
      BY <3>2, <3>3, <3>4, <3>5, <2>1, <2>7, <1>3
    <3> QED
      BY <3>1, <3>6 DEF k, ptr
  <2>10. CASE after = hd
    <3> DEFINE i == SlotAt(before - p, s)
               j == SetIndex(both, p, i)
               G == Nodes(both, before)
    <3>1. k = Emptied(j, p, before)
      <4>1. both[p].size = s
        BY <2>3 DEF s
      <4> QED
        BY <4>1, <1>8, <1>9, <1>12, <2>8, <2>10 DEF s
    <3>2. i \in Nat /\ i * s = before - p /\ i \in Int
      <4>1. Whole(s, before - p)
        BY <1>4 DEF Slot
      <4> QED
        BY ONLY <4>1, <1>1, SlotAtIs DEF i
    <3>3. /\ j \in Memory
          /\ j[p].next = both[p].next /\ j[p].size = both[p].size /\ j[p].magic = i
          /\ \A g \in Granule \ {p} : j[g] = both[g]
      BY ONLY <1>1, <2>2, <3>2, IndexCells, ZenonT(30) DEF j
    <3> HIDE DEF i, j
    <3>4. G \subseteq F /\ before \in G /\ List(both, before, G) /\ (hd \in G => before = hd)
      BY ONLY <2>4, before \in F, ListSuffix DEF G
    <3> HIDE DEF G
    <3>5. FreeHead(j, p) = before
      <4>1. j[p].magic = i /\ j[p].size = s
        BY <2>3, <3>3 DEF s
      <4>2. p + i * s = before
        BY ONLY <3>2, <1>1, <1>6
      <4> QED
        BY <4>1, <4>2 DEF FreeHead
    <3>6. List(j, before, G)
      <4>1. \A g \in G : j[g].next = both[g].next
        BY <3>3, <3>4, <1>1
      <4> QED
        BY ONLY <4>1, <3>3, <3>4, ListFrame
    <3>7. after \notin G /\ G \subseteq F \ {after}
      BY <3>4, <2>1, <2>10
    <3>8. \A g \in Granule \ (F \cup {p}) : j[g] = m[g]
      BY <3>3, <2>2
    <3>9. \A g \in Granule \ {p} : j[g].size = both[g].size /\ j[g].magic = both[g].magic
      BY <3>3
    <3>10. Freed(m, Emptied(j, p, before), p, B, b)
      BY <3>2, <3>3, <3>4, <3>5, <3>6, <3>7, <3>8, <3>9, <2>3, <2>7
    <3> QED
      BY <3>1, <3>10 DEF k, ptr
  <2> QED
    BY <2>9, <2>10
<1> QED
  BY <1>11, <1>12
=============================================================================
